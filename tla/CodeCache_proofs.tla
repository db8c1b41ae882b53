--------------------------- MODULE CodeCache_proofs ---------------------------
(***************************************************************************)
(* Proofs about the data caches, for any set of paths and of blobs, and    *)
(* about the loaded code of a VM on top of them, for any scripts and       *)
(* imports.                                                                *)
(***************************************************************************)
EXTENDS CodeCache, TLAPS

USE CacheAssumption DEF Paths

\* The entry load_data finds is a legal entry, and it is a clean copy of the
\* block's blob or what was there before.
LEMMA LoadDataIsEntry ==
  ASSUME TypeOK, NEW p \in Resources
  PROVE  /\ load_data(p) \in Entries
         /\ \/ load_data(p) = data_map[p]
            \/ /\ data_map[p] = Unloaded
               /\ load_data(p) = Global("Clean", get(p))
               /\ get(p) \in Blobs
<1>1. get(p) \in Blobs \cup {NoBlob}
  BY DEF TypeOK, get, Contents
<1>2. data_map[p] \in Entries
  BY DEF TypeOK
<1>3. CASE data_map[p] = Unloaded /\ get(p) # NoBlob
  <2>1. load_data(p) = Global("Clean", get(p))
    BY <1>3 DEF load_data
  <2>2. Global("Clean", get(p)) \in Entries
    BY <1>1, <1>3 DEF Entries
  <2> QED
    BY <2>1, <2>2, <1>1, <1>3
<1>4. CASE ~(data_map[p] = Unloaded /\ get(p) # NoBlob)
  <2>1. load_data(p) = data_map[p]
    BY <1>4 DEF load_data
  <2> QED
    BY <2>1, <1>2
<1> QED
  BY <1>3, <1>4

\* The maps of a new context are well typed.
LEMMA NewContextType ==
  ASSUME NewContext
  PROVE  /\ data_map' \in [Resources -> Entries]
         /\ module_map' \in [Modules -> Blobs \cup {NoBlob}]
         /\ refs' \subseteq Resources
         /\ written' \subseteq Paths
BY DEF NewContext, NoEntries, NoModules, Entries

\* A write set made of well typed maps is well typed.
LEMMA WriteSetType ==
  ASSUME TypeOK
  PROVE  make_write_set \in WriteSets
<1>1. \A p \in Paths : make_write_set.value[p] \in Blobs \cup {NoBlob}
  <2> TAKE p \in Paths
  <2>1. CASE p \in Modules
    BY <2>1 DEF make_write_set, TypeOK
  <2>2. CASE p \in Resources
    <3>1. data_map[p] \in Entries
      BY <2>2 DEF TypeOK
    <3>2. data_map[p].status = "Dirty" => data_map[p].blob \in Blobs
      BY <3>1 DEF Entries, Global, Unloaded, Moved
    <3> QED
      BY <2>2, <3>2 DEF make_write_set
  <2> QED
    BY <2>1, <2>2
<1> QED
  BY <1>1 DEF make_write_set, WriteSets, Contents

\* Applying a write set to a map keeps it a map of blobs.
LEMMA ApplyType ==
  ASSUME NEW map \in Contents, NEW ws \in WriteSets
  PROVE  /\ push_write_set(map, ws) \in Contents
         /\ add_write_set(map, ws) \in Contents
BY DEF push_write_set, add_write_set, Contents, WriteSets

LEMMA TypeInductive == TypeOK /\ [Next]_vars => TypeOK'
<1> SUFFICES ASSUME TypeOK, [Next]_vars PROVE TypeOK'
  OBVIOUS
<1>1. ASSUME NEW p \in Resources, resource_exists(p) PROVE TypeOK'
  BY <1>1, LoadDataIsEntry DEF resource_exists, TypeOK
<1>2. ASSUME NEW p \in Resources, borrow_global(p) PROVE TypeOK'
  BY <1>2, LoadDataIsEntry DEF borrow_global, TypeOK, Escapes
<1>3. ASSUME NEW p \in Resources, NEW b \in Blobs, write_ref(p, b) PROVE TypeOK'
  <2>1. Global("Dirty", b) \in Entries
    BY DEF Entries
  <2> QED
    BY <1>3, <2>1 DEF write_ref, TypeOK
<1>4. ASSUME NEW p \in Resources, release_ref(p) PROVE TypeOK'
  BY <1>4 DEF release_ref, TypeOK
<1>5. ASSUME NEW p \in Resources, NEW b \in Blobs, move_resource_to(p, b)
      PROVE  TypeOK'
  <2>1. Global("Dirty", b) \in Entries
    BY DEF Entries
  <2> QED
    BY <1>5, <2>1, LoadDataIsEntry DEF move_resource_to, TypeOK
<1>6. ASSUME NEW p \in Resources, move_resource_from(p) PROVE TypeOK'
  <2>1. Moved \in Entries
    BY DEF Entries
  <2> QED
    BY <1>6, <2>1 DEF move_resource_from, TypeOK, Escapes
<1>7. ASSUME NEW m \in Modules, NEW b \in Blobs, publish_module(m, b)
      PROVE  TypeOK'
  BY <1>7 DEF publish_module, TypeOK
<1>8. CASE raise_vm_exception
  BY <1>8 DEF raise_vm_exception, TypeOK
<1>9. CASE begin_transaction \/ failed_transaction_cleanup \/ discard_error_output
  BY <1>9, NewContextType
     DEF begin_transaction, failed_transaction_cleanup, discard_error_output, TypeOK
<1>10. CASE commit_transaction
  BY <1>10, NewContextType, WriteSetType, ApplyType DEF commit_transaction, TypeOK
<1>11. CASE load_configs \/ check_change_set
  BY <1>11 DEF load_configs, check_change_set, TypeOK, Escapes
<1>12. CASE next_block
  BY <1>12 DEF next_block, TypeOK, Contents, Empty
<1>13. CASE lose_block
  BY <1>13, NewContextType DEF lose_block, TypeOK, Contents, Empty
<1>14. CASE UNCHANGED vars
  BY <1>14 DEF vars, TypeOK
<1> QED
  BY <1>1, <1>2, <1>3, <1>4, <1>5, <1>6, <1>7, <1>8, <1>9, <1>10, <1>11, <1>12,
     <1>13, <1>14 DEF Next, RunningCode, ResourceCode

LEMMA InitType == Init => TypeOK
BY DEF Init, TypeOK, Contents, Empty, NoEntries, NoModules, Entries

\* The caches only ever hold what their types allow.
THEOREM TypeCorrect == Spec => []TypeOK
BY InitType, TypeInductive, PTL DEF Spec

----------------------------------------------------------------------------
(* The scratchpad: what a transaction reads *)

\* A path whose entry is neither dirty nor moved shows the block's blob.
LEMMA CleanShowsBlock ==
  ASSUME TypeOK, ScratchpadInv, NEW p \in Resources,
         data_map[p].status \notin {"Dirty", "Moved"}
  PROVE  View(p) = get(p)
<1>1. data_map[p] \in Entries
  BY DEF TypeOK
<1>2. data_map[p] = Unloaded \/ data_map[p].status = "Clean"
  BY <1>1 DEF Entries, Global, Moved, Unloaded
<1> QED
  BY <1>2 DEF View, ScratchpadInv, Unloaded

LEMMA ScratchpadImpliesReads ==
  TypeOK /\ ScratchpadInv => ReadsSeeBlockState
<1> SUFFICES ASSUME TypeOK, ScratchpadInv, NEW p \in Paths, p \notin written
             PROVE  View(p) = get(p)
  BY DEF ReadsSeeBlockState
<1>1. CASE p \in Resources
  BY <1>1, CleanShowsBlock DEF ScratchpadInv
<1>2. CASE p \in Modules
  BY <1>2 DEF ScratchpadInv, View
<1> QED
  BY <1>1, <1>2

\* The context of a transaction that has not started holds nothing.
LEMMA NewContextInv ==
  ASSUME NewContext
  PROVE  ScratchpadInv'
<1>1. /\ data_map' = NoEntries
      /\ module_map' = NoModules
      /\ written' = {}
  BY DEF NewContext
<1>2. \A p \in Resources : data_map'[p] = Unloaded
  BY <1>1 DEF NoEntries
<1>3. \A m \in Modules : module_map'[m] = NoBlob
  BY <1>1 DEF NoModules
<1> QED
  BY <1>1, <1>2, <1>3 DEF ScratchpadInv, Unloaded

LEMMA ScratchpadInductive ==
  TypeOK /\ ScratchpadInv /\ [Next]_vars => ScratchpadInv'
<1> SUFFICES ASSUME TypeOK, ScratchpadInv, [Next]_vars PROVE ScratchpadInv'
  OBVIOUS
<1> USE DEF get
<1>1. ASSUME NEW p \in Resources, resource_exists(p) PROVE ScratchpadInv'
  BY <1>1, LoadDataIsEntry
     DEF resource_exists, TypeOK, ScratchpadInv, Global, Unloaded
<1>2. ASSUME NEW p \in Resources, borrow_global(p) PROVE ScratchpadInv'
  BY <1>2, LoadDataIsEntry
     DEF borrow_global, TypeOK, ScratchpadInv, Global, Unloaded
<1>3. ASSUME NEW p \in Resources, NEW b \in Blobs, write_ref(p, b)
      PROVE  ScratchpadInv'
  BY <1>3 DEF write_ref, TypeOK, ScratchpadInv, Global
<1>4. ASSUME NEW p \in Resources, release_ref(p) PROVE ScratchpadInv'
  BY <1>4 DEF release_ref, ScratchpadInv
<1>5. ASSUME NEW p \in Resources, NEW b \in Blobs, move_resource_to(p, b)
      PROVE  ScratchpadInv'
  BY <1>5, LoadDataIsEntry
     DEF move_resource_to, TypeOK, ScratchpadInv, Global, Unloaded
<1>6. ASSUME NEW p \in Resources, move_resource_from(p) PROVE ScratchpadInv'
  BY <1>6 DEF move_resource_from, TypeOK, ScratchpadInv, Moved
<1>7. ASSUME NEW m \in Modules, NEW b \in Blobs, publish_module(m, b)
      PROVE  ScratchpadInv'
  BY <1>7 DEF publish_module, exists_module, TypeOK, ScratchpadInv
<1>8. CASE raise_vm_exception
  BY <1>8 DEF raise_vm_exception, ScratchpadInv
<1>9. CASE NewContext
  BY <1>9, NewContextInv
<1>10. CASE load_configs \/ check_change_set
  BY <1>10 DEF load_configs, check_change_set, ScratchpadInv
<1>11. CASE next_block
  <2>1. \A q \in Resources : data_map[q] = Unloaded
    BY <1>11 DEF next_block, ScratchpadInv, NoEntries
  <2>2. \A m \in Modules : module_map[m] = NoBlob
    BY <1>11 DEF next_block, ScratchpadInv, NoModules
  <2>3. written = {}
    BY <1>11 DEF next_block, ScratchpadInv
  <2> QED
    BY <1>11, <2>1, <2>2, <2>3 DEF next_block, ScratchpadInv, Unloaded
<1>12. CASE UNCHANGED vars
  BY <1>12 DEF vars, ScratchpadInv
<1> QED
  BY <1>1, <1>2, <1>3, <1>4, <1>5, <1>6, <1>7, <1>8, <1>9, <1>10, <1>11, <1>12
     DEF Next, RunningCode, ResourceCode, begin_transaction, commit_transaction,
         failed_transaction_cleanup, discard_error_output, lose_block

LEMMA InitScratchpad == Init => ScratchpadInv
BY DEF Init, ScratchpadInv, NoEntries, NoModules, Unloaded

LEMMA ScratchpadCorrect == Spec => []ScratchpadInv
BY TypeCorrect, InitScratchpad, ScratchpadInductive, PTL DEF Spec

\* A transaction reads the block's state but for its own writes, and starts
\* from nothing when the cleanup of a failed one re-runs it.
THEOREM ReadsAreOfBlockState == Spec => []ReadsSeeBlockState
BY TypeCorrect, ScratchpadCorrect, ScratchpadImpliesReads, PTL

----------------------------------------------------------------------------
(* The block's cache and the storage *)

LEMMA DivergesInductive ==
  TypeOK /\ DivergesOnlyByResurrection /\ [Next]_vars
    => DivergesOnlyByResurrection'
<1> SUFFICES ASSUME TypeOK, DivergesOnlyByResurrection, [Next]_vars
             PROVE  DivergesOnlyByResurrection'
  OBVIOUS
<1>1. ASSUME NEW ws \in WriteSets,
             block_map' = push_write_set(block_map, ws),
             storage' = add_write_set(storage, ws),
             UNCHANGED data_view
      PROVE  DivergesOnlyByResurrection'
  BY <1>1 DEF push_write_set, add_write_set, DivergesOnlyByResurrection, get
<1>2. CASE commit_transaction
  BY <1>1, <1>2, WriteSetType DEF commit_transaction
<1>4. CASE next_block \/ lose_block
  BY <1>4 DEF next_block, lose_block, DivergesOnlyByResurrection, get, Empty
<1>5. CASE UNCHANGED <<data_view, block_map, storage>>
  BY <1>5 DEF DivergesOnlyByResurrection, get
<1> QED
  BY <1>2, <1>4, <1>5
     DEF Next, RunningCode, ResourceCode, vars, load_configs, check_change_set, begin_transaction,
         failed_transaction_cleanup, discard_error_output, raise_vm_exception,
         resource_exists, borrow_global, write_ref, release_ref,
         move_resource_to, move_resource_from, publish_module

\* The state a later transaction of the block reads is the storage after the
\* outputs so far, but for deleted resources of the view.
THEOREM CacheTracksStorage == Spec => []DivergesOnlyByResurrection
<1>1. Init => DivergesOnlyByResurrection
  BY DEF Init, DivergesOnlyByResurrection, get, Empty
<1> QED
  BY <1>1, DivergesInductive, TypeCorrect, PTL DEF Spec

----------------------------------------------------------------------------
(* What a committed transaction leaves behind *)

\* At a written path the write set holds what the transaction left there.
LEMMA WriteSetIsView ==
  ASSUME TypeOK, ScratchpadInv, NEW store \in Contents, NEW p \in Paths
  PROVE  add_write_set(store, make_write_set)[p]
           = IF p \in written THEN View(p) ELSE store[p]
<1>1. CASE p \in Resources
  <2>1. data_map[p] \in Entries
    BY <1>1 DEF TypeOK
  <2>2. p \notin Modules
    BY <1>1
  <2>3. CASE data_map[p] = Unloaded
    BY <1>1, <2>2, <2>3
       DEF add_write_set, make_write_set, ScratchpadInv, Unloaded, Moved
  <2>4. CASE data_map[p] = Moved
    BY <1>1, <2>2, <2>4
       DEF add_write_set, make_write_set, ScratchpadInv, Unloaded, Moved, View
  <2>5. ASSUME NEW b \in Blobs, data_map[p] = Global("Clean", b)
        PROVE  add_write_set(store, make_write_set)[p]
                 = IF p \in written THEN View(p) ELSE store[p]
    BY <1>1, <2>2, <2>5
       DEF add_write_set, make_write_set, ScratchpadInv, Unloaded, Moved, Global
  <2>6. ASSUME NEW b \in Blobs, data_map[p] = Global("Dirty", b)
        PROVE  add_write_set(store, make_write_set)[p]
                 = IF p \in written THEN View(p) ELSE store[p]
    BY <1>1, <2>2, <2>6
       DEF add_write_set, make_write_set, ScratchpadInv, Unloaded, Moved,
           Global, View
  <2> QED
    BY <2>1, <2>3, <2>4, <2>5, <2>6 DEF Entries
<1>2. CASE p \in Modules
  BY <1>2 DEF add_write_set, make_write_set, ScratchpadInv, View
<1> QED
  BY <1>1, <1>2

\* Nothing a committed transaction wrote is lost and nothing it only read is
\* written.
THEOREM CommitIsExact == Spec => WritesReachStorage
<1>1. TypeOK /\ ScratchpadInv /\ [Next]_vars
        => [commit_transaction =>
              \A p \in Paths :
                storage'[p] = IF p \in written THEN View(p) ELSE storage[p]]_vars
  BY WriteSetIsView DEF commit_transaction, TypeOK
<1> QED
  BY <1>1, TypeCorrect, ScratchpadCorrect, PTL DEF Spec, WritesReachStorage

\* A published module stays: the storage holds a module that the block's view
\* or the block's map holds too, so publishing over it is refused.
LEMMA StoredModuleIsSeen ==
  ASSUME TypeOK, DivergesOnlyByResurrection, NEW m \in Modules,
         storage[m] # NoBlob
  PROVE  get(m) # NoBlob
BY DEF DivergesOnlyByResurrection

THEOREM ModulesStay == Spec => ModulesAreForever
<1>1. ASSUME TypeOK, ScratchpadInv, DivergesOnlyByResurrection, Next,
             NEW m \in Modules, phase = "running", phase' = "ready",
             storage[m] # NoBlob
      PROVE  storage'[m] = storage[m]
  <2>1. commit_transaction
    BY <1>1 DEF Next, RunningCode, ResourceCode, raise_vm_exception,
         resource_exists, borrow_global, write_ref, release_ref,
         move_resource_to, move_resource_from, publish_module,
         begin_transaction, failed_transaction_cleanup, discard_error_output,
         load_configs, check_change_set, next_block, lose_block, Escapes
  <2>2. m \notin written
    BY <1>1, StoredModuleIsSeen DEF ScratchpadInv
  <2> QED
    BY <1>1, <2>1, <2>2, WriteSetIsView DEF commit_transaction, TypeOK
<1>2. TypeOK /\ ScratchpadInv /\ DivergesOnlyByResurrection /\ [Next]_vars
        => [\A m \in Modules :
              /\ phase = "running" /\ phase' = "ready" /\ storage[m] # NoBlob
              => storage'[m] = storage[m]]_vars
  BY <1>1
<1> QED
  BY <1>2, TypeCorrect, ScratchpadCorrect, CacheTracksStorage, PTL
     DEF Spec, ModulesAreForever

----------------------------------------------------------------------------
(* Refinement: while the view's resources are kept *)

KeepingInv ==
  /\ TypeOK
  /\ ScratchpadInv
  /\ CacheIsBlockWriteSet
  /\ \A p \in Resources : data_map[p] = Moved => data_view[p] = NoBlob

StateBar == [p \in Paths |-> get(p)]
WorkBar == [p \in Paths |-> IF phase = "running" THEN View(p) ELSE get(p)]

\* What the block's map shows after a commit is what the transaction saw: a
\* path it removed is not in the view either.
LEMMA CommitIsView ==
  ASSUME KeepingInv, commit_transaction, NEW p \in Paths
  PROVE  /\ get(p)' = View(p)
         /\ storage'[p] = View(p)
<1>1. /\ block_map'[p] = (IF p \in written THEN View(p) ELSE block_map[p])
      /\ storage'[p] = (IF p \in written THEN View(p) ELSE storage[p])
  <2>1. push_write_set(block_map, make_write_set)
          = add_write_set(block_map, make_write_set)
    BY DEF push_write_set, add_write_set
  <2> QED
    BY <2>1, WriteSetIsView DEF commit_transaction, KeepingInv, TypeOK
<1>2. p \notin written => View(p) = get(p)
  BY ScratchpadImpliesReads DEF KeepingInv, ReadsSeeBlockState, commit_transaction
<1>3. storage[p] = get(p) /\ data_view'[p] = data_view[p]
  BY DEF KeepingInv, CacheIsBlockWriteSet, commit_transaction
<1>4. CASE p \notin written
  BY <1>1, <1>2, <1>3, <1>4 DEF get
<1>5. CASE p \in written /\ View(p) # NoBlob
  BY <1>1, <1>5 DEF get
<1>6. CASE p \in written /\ View(p) = NoBlob
  <2>1. CASE p \in Modules
    BY <1>6, <2>1 DEF KeepingInv, ScratchpadInv, View
  <2>2. CASE p \in Resources
    <3>1. data_map[p].status \in {"Dirty", "Moved"} /\ data_map[p] \in Entries
      BY <1>6, <2>2 DEF KeepingInv, ScratchpadInv, TypeOK
    <3>2. data_map[p] # Unloaded /\ data_map[p].blob = NoBlob
      BY <1>6, <2>2, <3>1 DEF View, Unloaded
    <3>3. data_map[p] = Moved
      BY <3>1, <3>2 DEF Entries, Global, Unloaded, Moved
    <3>4. data_view[p] = NoBlob
      BY <2>2, <3>3 DEF KeepingInv
    <3> QED
      BY <1>1, <1>3, <1>6, <3>4 DEF get
  <2> QED
    BY <2>1, <2>2
<1> QED
  BY <1>4, <1>5, <1>6

LEMMA MovedIsNotStored ==
  ASSUME KeepingInv, [Next /\ KeepsView]_vars, NEW p \in Resources,
         data_map'[p] = Moved
  PROVE  data_view'[p] = NoBlob
<1>1. CASE UNCHANGED vars
  BY <1>1 DEF vars, KeepingInv
<1>2. CASE NewContext
  BY <1>2 DEF NewContext, NoEntries, Unloaded, Moved
<1>3. CASE next_block
  BY <1>3 DEF next_block, KeepingInv, ScratchpadInv, NoEntries, Unloaded, Moved
<1>4. CASE Next /\ KeepsView /\ UNCHANGED data_view
  BY <1>4 DEF KeepsView
<1> QED
  BY <1>1, <1>2, <1>3, <1>4
     DEF Next, RunningCode, ResourceCode, load_configs, check_change_set, lose_block,
         raise_vm_exception, resource_exists, borrow_global, write_ref,
         release_ref, move_resource_to, move_resource_from, publish_module,
         begin_transaction, failed_transaction_cleanup, discard_error_output,
         commit_transaction

LEMMA KeepingInvariant == KeepingSpec => []KeepingInv
<1>1. Init => KeepingInv
  BY InitType, InitScratchpad
     DEF KeepingInv, Init, CacheIsBlockWriteSet, get, Empty, NoEntries,
         Unloaded, Moved
<1>2. KeepingInv /\ [Next /\ KeepsView]_vars => KeepingInv'
  <2> SUFFICES ASSUME KeepingInv, [Next /\ KeepsView]_vars PROVE KeepingInv'
    OBVIOUS
  <2>1. TypeOK' /\ ScratchpadInv'
    BY TypeInductive, ScratchpadInductive DEF KeepingInv
  <2>2. CacheIsBlockWriteSet'
    <3>1. CASE commit_transaction
      BY <3>1, CommitIsView DEF CacheIsBlockWriteSet
    <3>2. CASE next_block \/ lose_block
      BY <3>2 DEF next_block, lose_block, CacheIsBlockWriteSet, get, Empty
    <3>3. CASE UNCHANGED <<data_view, block_map, storage>>
      BY <3>3 DEF KeepingInv, CacheIsBlockWriteSet, get
    <3> QED
      BY <3>1, <3>2, <3>3
         DEF Next, RunningCode, ResourceCode, vars, load_configs, check_change_set,
             begin_transaction, failed_transaction_cleanup,
             discard_error_output, raise_vm_exception, resource_exists,
             borrow_global, write_ref, release_ref, move_resource_to,
             move_resource_from, publish_module
  <2>3. \A p \in Resources : data_map'[p] = Moved => data_view'[p] = NoBlob
    BY MovedIsNotStored
  <2> QED
    BY <2>1, <2>2, <2>3 DEF KeepingInv
<1> QED
  BY <1>1, <1>2, PTL DEF KeepingSpec

\* The other steps leave the block's state alone; what they do to the working
\* copy follows from what they do to the view of each path.
LEMMA StateKept ==
  ASSUME UNCHANGED <<data_view, block_map>>
  PROVE  StateBar' = StateBar
BY DEF StateBar, get

LEMMA NewContextShowsState ==
  ASSUME NewContext, UNCHANGED <<data_view, block_map>>
  PROVE  [p \in Paths |-> View(p)]' = StateBar
<1>1. \A p \in Paths : View(p)' = get(p)
  BY DEF NewContext, NoEntries, NoModules, View, get
<1> QED
  BY <1>1 DEF StateBar

\* A committed transaction installs its whole working copy.
LEMMA CommitRefines ==
  ASSUME KeepingInv, commit_transaction
  PROVE  Store!Commit
<1>1. /\ phase = "running"
      /\ phase' = "ready"
      /\ UNCHANGED data_view
  BY DEF commit_transaction
<1>2. [p \in Paths |-> get(p)]' = [p \in Paths |-> View(p)]
  BY CommitIsView
<1> QED
  BY <1>1, <1>2 DEF Store!Commit

\* Looking a path up changes nothing the code can see.
LEMMA LookupKeepsView ==
  ASSUME KeepingInv, NEW p \in Resources,
         data_map' = [data_map EXCEPT ![p] = load_data(p)],
         UNCHANGED <<data_view, block_map, module_map>>
  PROVE  [q \in Paths |-> View(q)]' = [q \in Paths |-> View(q)]
<1>1. \A q \in Paths : View(q)' = View(q)
  BY LoadDataIsEntry DEF KeepingInv, TypeOK, View, get, Global, Unloaded
<1> QED
  BY <1>1

\* Replacing the entry of a resource by b, or by Moved, writes its view.
LEMMA EntryWritesView ==
  ASSUME KeepingInv, NEW p \in Resources, NEW e \in Entries, e # Unloaded,
         data_map' = [data_map EXCEPT ![p] = e],
         UNCHANGED <<data_view, block_map, module_map>>
  PROVE  [q \in Paths |-> View(q)]'
           = [[q \in Paths |-> View(q)] EXCEPT ![p] = e.blob]
<1>1. \A q \in Paths : View(q)' = IF q = p THEN e.blob ELSE View(q)
  BY DEF KeepingInv, TypeOK, View, get
<1> QED
  BY <1>1

\* A step that stops the running code abandons its working copy.
LEMMA StopRefines ==
  ASSUME phase = "running", phase' # "running",
         UNCHANGED <<data_view, block_map>>
  PROVE  Store!Abandon
BY StateKept DEF Store!Abandon, StateBar

LEMMA WriteRefines ==
  ASSUME NEW p \in Paths, NEW b \in Blobs \cup {NoBlob},
         phase = "running", phase' = "running",
         UNCHANGED <<data_view, block_map>>,
         [q \in Paths |-> View(q)]' = [[q \in Paths |-> View(q)] EXCEPT ![p] = b]
  PROVE  Store!StoreNext
<1>1. Store!Write(p, b)
  BY StateKept DEF Store!Write, StateBar
<1> QED
  BY <1>1 DEF Store!StoreNext

LEMMA KeepRefines ==
  ASSUME phase = "running", phase' = "running",
         UNCHANGED <<data_view, block_map>>,
         [q \in Paths |-> View(q)]' = [q \in Paths |-> View(q)]
  PROVE  UNCHANGED Store!storeVars
BY StateKept DEF Store!storeVars, StateBar

LEMMA BeginRefines ==
  ASSUME NewContext, phase # "running", phase' = "running",
         UNCHANGED <<data_view, block_map>>
  PROVE  Store!Begin
BY NewContextShowsState, StateKept DEF Store!Begin, StateBar

\* The storage becomes the view of the next block.
LEMMA NextBlockRefines ==
  ASSUME KeepingInv, next_block
  PROVE  Store!NextBlock
<1>1. /\ phase = "ready"
      /\ phase' = "idle"
      /\ data_view' = storage
  BY DEF next_block
<1>2. storage = StateBar
  BY DEF KeepingInv, CacheIsBlockWriteSet, TypeOK, Contents, StateBar
<1>3. StateBar' = StateBar
  BY <1>2 DEF next_block, StateBar, get, Empty
<1> QED
  BY <1>1, <1>2, <1>3 DEF Store!NextBlock, StateBar

LEMMA LoseBlockRefines ==
  ASSUME KeepingInv, lose_block
  PROVE  Store!LoseBlock
<1>1. /\ phase \in Escapes
      /\ phase' = "idle"
      /\ data_view' = data_view
  BY DEF lose_block
<1>2. phase # "running"
  BY <1>1 DEF Escapes
<1>3. StateBar' = data_view
  BY DEF lose_block, StateBar, get, Empty, KeepingInv, TypeOK, Contents
<1> QED
  BY <1>1, <1>2, <1>3 DEF Store!LoseBlock, StateBar

LEMMA StepRefines ==
  KeepingInv /\ [Next]_vars => [Store!StoreNext]_Store!storeVars
<1> SUFFICES ASSUME KeepingInv, [Next]_vars
             PROVE  [Store!StoreNext]_Store!storeVars
  OBVIOUS
<1> USE DEF KeepingInv
<1>1. ASSUME NEW p \in Resources, resource_exists(p)
      PROVE  UNCHANGED Store!storeVars
  BY <1>1, LookupKeepsView, KeepRefines DEF resource_exists
<1>2. ASSUME NEW p \in Resources, borrow_global(p)
      PROVE  [Store!StoreNext]_Store!storeVars
  <2>1. CASE phase' = "running"
    BY <1>2, <2>1, LookupKeepsView, KeepRefines DEF borrow_global
  <2>2. CASE phase' # "running"
    BY <1>2, <2>2, StopRefines DEF borrow_global, Store!StoreNext
  <2> QED
    BY <2>1, <2>2
<1>3. ASSUME NEW p \in Resources, NEW b \in Blobs, write_ref(p, b)
      PROVE  Store!StoreNext
  <2>1. Global("Dirty", b) \in Entries /\ Global("Dirty", b) # Unloaded
    BY DEF Entries, Global, Unloaded
  <2>2. Global("Dirty", b).blob = b
    BY DEF Global
  <2> QED
    BY <1>3, <2>1, <2>2, EntryWritesView, WriteRefines DEF write_ref
<1>4. ASSUME NEW p \in Resources, release_ref(p)
      PROVE  UNCHANGED Store!storeVars
  BY <1>4, KeepRefines DEF release_ref, View, get
<1>5. ASSUME NEW p \in Resources, NEW b \in Blobs, move_resource_to(p, b)
      PROVE  Store!StoreNext
  <2>1. Global("Dirty", b) \in Entries /\ Global("Dirty", b) # Unloaded
    BY DEF Entries, Global, Unloaded
  <2>2. Global("Dirty", b).blob = b
    BY DEF Global
  <2>3. CASE phase' = "running"
    <3>1. /\ data_map' = [data_map EXCEPT ![p] = Global("Dirty", b)]
          /\ phase = "running"
          /\ UNCHANGED <<data_view, block_map, module_map>>
      BY <1>5, <2>3 DEF move_resource_to
    <3>2. [q \in Paths |-> View(q)]' = [[q \in Paths |-> View(q)] EXCEPT ![p] = b]
      BY <3>1, <2>1, <2>2, EntryWritesView
    <3> QED
      BY <3>1, <3>2, <2>3, WriteRefines
  <2>4. CASE phase' # "running"
    BY <1>5, <2>4, StopRefines DEF move_resource_to, Store!StoreNext
  <2> QED
    BY <2>3, <2>4
<1>6. ASSUME NEW p \in Resources, move_resource_from(p)
      PROVE  Store!StoreNext
  <2>1. Moved \in Entries /\ Moved # Unloaded /\ Moved.blob = NoBlob
    BY DEF Entries, Moved, Unloaded
  <2>2. CASE phase' = "running"
    BY <1>6, <2>1, <2>2, EntryWritesView, WriteRefines DEF move_resource_from
  <2>3. CASE phase' # "running"
    BY <1>6, <2>3, StopRefines DEF move_resource_from, Store!StoreNext
  <2> QED
    BY <2>2, <2>3
<1>7. ASSUME NEW m \in Modules, NEW b \in Blobs, publish_module(m, b)
      PROVE  Store!StoreNext
  <2>1. CASE phase' = "running"
    <3>1. \A q \in Paths : View(q)' = IF q = m THEN b ELSE View(q)
      BY <1>7, <2>1 DEF publish_module, TypeOK, View, get
    <3>2. [q \in Paths |-> View(q)]'
            = [[q \in Paths |-> View(q)] EXCEPT ![m] = b]
      BY <3>1
    <3> QED
      BY <1>7, <2>1, <3>2, WriteRefines DEF publish_module
  <2>2. CASE phase' # "running"
    BY <1>7, <2>2, StopRefines DEF publish_module, Store!StoreNext
  <2> QED
    BY <2>1, <2>2
<1>8. CASE raise_vm_exception
  BY <1>8, StopRefines DEF raise_vm_exception, Store!StoreNext
<1>9. CASE begin_transaction \/ failed_transaction_cleanup
  BY <1>9, BeginRefines
     DEF begin_transaction, failed_transaction_cleanup, Store!StoreNext
<1>10. CASE discard_error_output
  BY <1>10, StateKept DEF discard_error_output, Store!storeVars, StateBar
<1>11. CASE commit_transaction
  BY <1>11, CommitRefines DEF Store!StoreNext
<1>12. CASE load_configs \/ check_change_set
  BY <1>12, StateKept
     DEF load_configs, check_change_set, Store!storeVars, StateBar
<1>13. CASE next_block
  BY <1>13, NextBlockRefines DEF Store!StoreNext
<1>14. CASE lose_block
  BY <1>14, LoseBlockRefines DEF Store!StoreNext
<1>15. CASE UNCHANGED vars
  BY <1>15 DEF vars, Store!storeVars, View, get
<1> QED
  BY <1>1, <1>2, <1>3, <1>4, <1>5, <1>6, <1>7, <1>8, <1>9, <1>10, <1>11, <1>12,
     <1>13, <1>14, <1>15 DEF Next, RunningCode, ResourceCode

\* While no code removes a resource its block's view holds, the view of the
\* next transaction is the storage the outputs so far lead to.
THEOREM CacheIsStorage == KeepingSpec => []CacheIsBlockWriteSet
BY KeepingInvariant, PTL DEF KeepingInv

\* The overlay and the scratchpad together are one store with atomic
\* transactions, as long as no deletion reaches a resource of the view.
THEOREM CachesImplementStore == KeepingSpec => StoreRefinement
<1>1. Init => Store!StoreInit
  BY DEF Init, Store!StoreInit, Store!Contents, Contents, get, Empty
<1>2. KeepingInv /\ [Next /\ KeepsView]_vars => [Store!StoreNext]_Store!storeVars
  BY StepRefines
<1> QED
  BY <1>1, <1>2, KeepingInvariant, PTL
     DEF KeepingSpec, StoreRefinement, Store!StoreSpec

----------------------------------------------------------------------------
(* The loaded code *)

USE ImportsAssumption

\* Each step of the VM is one of the caches beneath it, or leaves them alone.
LEMMA StepsAreOfTheCaches == [CodeNext]_allVars => [Next]_vars
<1> SUFFICES ASSUME CodeNext PROVE [Next]_vars
  BY DEF allVars
<1>1. ASSUME phase = "running", linker_error PROVE Next
  BY <1>1 DEF linker_error, Next, RunningCode, raise_vm_exception
<1>2. ASSUME NEW s \in Scripts, cache_script(s) PROVE [Next]_vars
  BY <1>1, <1>2 DEF cache_script
<1>3. ASSUME NEW m \in Modules, get_loaded_module(m) PROVE [Next]_vars
  BY <1>1, <1>3 DEF get_loaded_module
<1>4. ASSUME NEW m \in Modules, NEW b \in Blobs, publish_payload(m, b) PROVE Next
  BY <1>4 DEF publish_payload, Next, RunningCode
<1>5. ASSUME run_code PROVE Next
  BY <1>5 DEF run_code, Next, RunningCode
<1>6. ASSUME load_block_configs \/ execute_payload \/ cleanup \/ go_on \/ new_vm PROVE Next
  BY <1>6 DEF load_block_configs, execute_payload, cleanup, go_on, new_vm, Next
<1> QED
  BY <1>2, <1>3, <1>4, <1>5, <1>6 DEF CodeNext

LEMMA CachesBeneath == CodeSpec => Spec
BY StepsAreOfTheCaches, PTL DEF CodeSpec, CodeInit, Spec

\* A commit leaves the modules there are as they were.
LEMMA CommitKeepsModules ==
  ASSUME TypeOK, ScratchpadInv, commit_transaction, NEW m \in Modules, get(m) # NoBlob
  PROVE  get(m)' = get(m)
<1>1. module_map[m] = NoBlob
  BY DEF ScratchpadInv
<1>2. block_map'[m] = block_map[m]
  BY <1>1 DEF commit_transaction, push_write_set, make_write_set, TypeOK
<1> QED
  BY <1>2 DEF get, commit_transaction

\* The code that runs a script finds modules where the block has them.
LEMMA ScriptsSeePublished ==
  ASSUME ReadsSeeBlockState, CodeInv, phase = "running", payload = "script", NEW m \in Modules
  PROVE  View(m) = get(m)
BY DEF ReadsSeeBlockState, CodeInv

\* The conjuncts a step keeps if it leaves the block's state, the caches and the
\* payload alone and publishes nothing.
LEMMA NothingLoaded ==
  ASSUME CodeInv, UNCHANGED <<data_view, block_map, codeVars>>,
         written' \cap Modules \subseteq written, phase' # "idle" \/ phase = "idle"
  PROVE  CodeInv'
BY DEF CodeInv, CodeTypeOK, LoadedIsPublished, codeVars, get

LEMMA CodeInductive ==
  TypeOK /\ ScratchpadInv /\ ReadsSeeBlockState /\ CodeInv /\ [CodeNext]_allVars => CodeInv'
<1> SUFFICES ASSUME TypeOK, ScratchpadInv, ReadsSeeBlockState, CodeInv, [CodeNext]_allVars
             PROVE  CodeInv'
  OBVIOUS
<1>1. CASE load_block_configs
  <2>1. get(GasSchedule) = data_view[GasSchedule]
    BY <1>1 DEF load_block_configs, load_configs, CodeInv, get, Empty
  <2>2. data_view[GasSchedule] \in Blobs \cup {NoBlob}
    BY DEF TypeOK, Contents
  <2> QED
    BY <1>1, <2>1, <2>2
       DEF load_block_configs, load_configs, CodeInv, CodeTypeOK, LoadedIsPublished, get
<1>2. CASE execute_payload
  BY <1>2 DEF execute_payload, begin_transaction, NewContext, CodeInv, CodeTypeOK,
              LoadedIsPublished, get
<1>3. ASSUME linker_error PROVE CodeInv'
  BY <1>3, NothingLoaded DEF linker_error
<1>4. ASSUME NEW s \in Scripts, cache_script(s) PROVE CodeInv'
  <2>1. CASE linker_error
    BY <1>3, <2>1
  <2>2. CASE ~linker_error
    <3>1. /\ \A m \in Imports[s] : m \in Modules /\ View(m) # NoBlob /\ View(m) = get(m)
          /\ script_cache' = [t \in DOMAIN script_cache \cup {s} |->
                IF t = s THEN [m \in Imports[s] |-> View(m)] ELSE script_cache[t]]
          /\ UNCHANGED <<vars, code_cache, payload>>
      BY <1>4, <2>2, ScriptsSeePublished DEF cache_script
    <3>2. \A m \in Modules : get(m)' = get(m)
      BY <3>1 DEF vars, get
    <3>3. \A t \in DOMAIN script_cache' : \A m \in Imports[t] :
            script_cache'[t][m] = get(m) /\ script_cache'[t][m] # NoBlob
      <4> SUFFICES ASSUME NEW t \in DOMAIN script_cache', NEW m \in Imports[t]
                   PROVE  script_cache'[t][m] = get(m) /\ script_cache'[t][m] # NoBlob
        OBVIOUS
      <4>1. CASE t = s
        BY <3>1, <4>1
      <4>2. CASE t # s
        BY <3>1, <4>2 DEF CodeInv, LoadedIsPublished
      <4> QED
        BY <4>1, <4>2
    <3>4. DOMAIN script_cache' \subseteq Scripts
      BY <3>1 DEF CodeInv, CodeTypeOK
    <3> QED
      BY <3>1, <3>2, <3>3, <3>4 DEF CodeInv, CodeTypeOK, LoadedIsPublished, vars
  <2> QED
    BY <2>1, <2>2
<1>5. ASSUME NEW m \in Modules, get_loaded_module(m) PROVE CodeInv'
  <2>1. CASE linker_error
    BY <1>3, <2>1
  <2>2. CASE ~linker_error
    <3>1. /\ View(m) = get(m)
          /\ code_cache' = [code_cache EXCEPT ![m] = View(m)]
          /\ UNCHANGED <<vars, script_cache, payload>>
      BY <1>5, <2>2, ScriptsSeePublished DEF get_loaded_module
    <3>2. get(m) \in Blobs \cup {NoBlob}
      BY DEF get, TypeOK, Contents
    <3> QED
      BY <3>1, <3>2 DEF CodeInv, CodeTypeOK, LoadedIsPublished, vars, get
  <2> QED
    BY <2>1, <2>2
<1>6. ASSUME NEW m \in Modules, NEW b \in Blobs, publish_payload(m, b) PROVE CodeInv'
  BY <1>6 DEF publish_payload, publish_module, CodeInv, CodeTypeOK, LoadedIsPublished, get
<1>7. CASE run_code
  <2>1. ASSUME NEW p \in Resources,
               \/ resource_exists(p) \/ borrow_global(p) \/ \E b \in Blobs : write_ref(p, b)
               \/ release_ref(p) \/ \E b \in Blobs : move_resource_to(p, b)
               \/ move_resource_from(p)
        PROVE  /\ UNCHANGED <<data_view, block_map>>
               /\ written' \cap Modules \subseteq written /\ phase' # "idle"
    BY <2>1 DEF resource_exists, borrow_global, write_ref, release_ref, move_resource_to,
                move_resource_from
  <2>2. ASSUME raise_vm_exception
        PROVE  /\ UNCHANGED <<data_view, block_map>>
               /\ written' \cap Modules \subseteq written /\ phase' # "idle"
    BY <2>2 DEF raise_vm_exception
  <2> QED
    BY <1>7, <2>1, <2>2, NothingLoaded DEF run_code, ResourceCode
<1>8. CASE cleanup
  BY <1>8 DEF cleanup, failed_transaction_cleanup, NewContext, CodeInv, CodeTypeOK,
              LoadedIsPublished, get
<1>9. CASE go_on
  <2>1. CASE discard_error_output
    BY <1>9, <2>1, NothingLoaded DEF go_on, discard_error_output, NewContext
  <2>2. CASE check_change_set
    BY <1>9, <2>2, NothingLoaded DEF go_on, check_change_set
  <2>3. CASE commit_transaction
    <3>1. \A m \in Modules : get(m) # NoBlob => get(m)' = get(m)
      BY <2>3, CommitKeepsModules
    <3>2. UNCHANGED codeVars /\ written' = {} /\ phase' = "ready"
      BY <1>9, <2>3 DEF go_on, commit_transaction, NewContext
    <3>3. LoadedIsPublished'
      <4>1. \A m \in Modules : code_cache'[m] # NoBlob => code_cache'[m] = get(m)'
        BY <3>1, <3>2 DEF CodeInv, LoadedIsPublished, codeVars
      <4>2. \A s \in DOMAIN script_cache' : \A m \in Imports[s] : script_cache'[s][m] = get(m)'
        BY <3>1, <3>2 DEF CodeInv, CodeTypeOK, LoadedIsPublished, codeVars
      <4> QED
        BY <4>1, <4>2 DEF LoadedIsPublished
    <3> QED
      BY <3>2, <3>3 DEF CodeInv, CodeTypeOK, codeVars
  <2> QED
    BY <1>9, <2>1, <2>2, <2>3 DEF go_on
<1>10. CASE new_vm
  <2>1. block_map' = Empty
    BY <1>10 DEF new_vm, next_block, lose_block
  <2>2. payload' = payload /\ written' \subseteq written
    BY <1>10 DEF new_vm, next_block, lose_block, NewContext
  <2> QED
    BY <1>10, <2>1, <2>2 DEF new_vm, NoCode, CodeInv, CodeTypeOK, LoadedIsPublished
<1>11. CASE UNCHANGED allVars
  BY <1>11, NothingLoaded DEF allVars, vars
<1> QED
  BY <1>1, <1>2, <1>4, <1>5, <1>6, <1>7, <1>8, <1>9, <1>10, <1>11 DEF CodeNext

LEMMA InitCode == CodeInit => CodeInv
BY DEF CodeInit, Init, CodeInv, CodeTypeOK, LoadedIsPublished, NoCode

\* What a VM has loaded is what is published, however the transactions that
\* loaded it end.
THEOREM LoadedStaysPublished == CodeSpec => []LoadedIsPublished
<1>1. CodeSpec => [](TypeOK /\ ScratchpadInv /\ ReadsSeeBlockState)
  BY CachesBeneath, TypeCorrect, ScratchpadCorrect, ReadsAreOfBlockState, PTL
<1>2. CodeInv => LoadedIsPublished
  BY DEF CodeInv
<1> QED
  BY <1>1, <1>2, InitCode, CodeInductive, PTL DEF CodeSpec
=============================================================================
