------------------------------ MODULE DataCache ------------------------------
(***************************************************************************)
(* The scratchpads the VM puts between running code and the storage        *)
(* (move_vm/state/data_cache.py) with the resource operations of           *)
(* TransactionExecutionContext and InterpreterContextImpl on top of them,  *)
(* and with the caller that applies the outputs of a block to the storage. *)
(*                                                                         *)
(*   storage <- add_write_set <- outputs                                   *)
(*   data_view (StateView)  <- BlockDataCache.data_map  <- one             *)
(*   TransactionDataCache (data_map, module_map) per execution context     *)
(*                                                                         *)
(* A blob stands for a serialized value; a GlobalValue is its status and   *)
(* its blob.  The static verifier allows no write through a reference that *)
(* a move_from invalidated: refs keeps the paths with a live reference.    *)
(***************************************************************************)
CONSTANTS Resources,   \* access paths of resources
          Modules,     \* access paths of code
          GasSchedule, \* the module every block needs from its view
          Blobs,       \* serialized resources and modules
          NoBlob       \* nothing stored, nothing cached

ASSUME CacheAssumption ==
  /\ Resources \cap Modules = {}
  /\ GasSchedule \in Modules
  /\ NoBlob \notin Blobs

Paths == Resources \cup Modules

VARIABLES data_view,   \* the StateView of the block: immutable while it runs
          block_map,   \* BlockDataCache.data_map
          data_map,    \* TransactionDataCache.data_map
          module_map,  \* TransactionDataCache.module_map
          refs,        \* resources the running code holds a reference to
          phase,       \* where execute_block stands
          storage,     \* data_view with the outputs so far applied in order
          written      \* history: paths the transaction wrote or removed

vars == <<data_view, block_map, data_map, module_map, refs, phase, storage,
          written>>

Contents == [Paths -> Blobs \cup {NoBlob}]
Empty == [p \in Paths |-> NoBlob]
Unloaded == [status |-> "Unloaded", blob |-> NoBlob]
Moved == [status |-> "Moved", blob |-> NoBlob]
Global(s, b) == [status |-> s, blob |-> b]

Entries == {Unloaded, Moved}
             \cup {Global(s, b) : s \in {"Clean", "Dirty"}, b \in Blobs}

NoEntries == [p \in Resources |-> Unloaded]
NoModules == [m \in Modules |-> NoBlob]

\* What leaves execute_block as an exception: an error of Python in a resource
\* operation, or the VMException of a missing gas schedule or of a write set.
Escapes == {"crashed", "refused"}

TypeOK ==
  /\ data_view \in Contents
  /\ block_map \in Contents
  /\ data_map \in [Resources -> Entries]
  /\ module_map \in [Modules -> Blobs \cup {NoBlob}]
  /\ refs \subseteq Resources
  /\ phase \in {"idle", "ready", "running", "failed"} \cup Escapes
  /\ storage \in Contents
  /\ written \subseteq Paths

----------------------------------------------------------------------------
(* BlockDataCache *)

get(p) == IF block_map[p] # NoBlob THEN block_map[p] ELSE data_view[p]

\* The views of the repository are for genesis exactly when they are empty.
is_genesis == data_view = Empty

\* A write set: the blobs to write (NoBlob where there is none) and the paths
\* to delete.
WriteSets == [value : Contents, deletion : SUBSET Paths]

\* MUTANT: a deletion leaves the block's entry in place.
push_write_set_keeps_deleted(map, ws) ==
  [p \in Paths |-> IF ws.value[p] # NoBlob THEN ws.value[p] ELSE map[p]]

\* The block's map forgets a deleted path: reads fall through to data_view.
push_write_set(map, ws) ==
  [p \in Paths |-> IF p \in ws.deletion THEN NoBlob
                   ELSE IF ws.value[p] # NoBlob THEN ws.value[p] ELSE map[p]]

\* FakeDataStore.add_write_set: what the caller does with an output.
add_write_set(store, ws) ==
  [p \in Paths |-> IF p \in ws.deletion THEN NoBlob
                   ELSE IF ws.value[p] # NoBlob THEN ws.value[p] ELSE store[p]]

----------------------------------------------------------------------------
(* TransactionDataCache *)

\* load_data: the entry of p after it has been looked up; Unloaded is None.
load_data(p) ==
  IF data_map[p] = Unloaded /\ get(p) # NoBlob
  THEN Global("Clean", get(p))
  ELSE data_map[p]

exists_module(m) == module_map[m] # NoBlob \/ get(m) # NoBlob

\* Dirty values and modules are written, moved resources deleted, clean
\* values left out.
make_write_set ==
  [value |-> [p \in Paths |->
                IF p \in Modules THEN module_map[p]
                ELSE IF data_map[p].status = "Dirty" THEN data_map[p].blob
                ELSE NoBlob],
   deletion |-> {p \in Resources : data_map[p] = Moved}]

\* What the running code finds at p.
View(p) ==
  IF p \in Resources
  THEN IF data_map[p] = Unloaded THEN get(p) ELSE data_map[p].blob
  ELSE IF module_map[p] # NoBlob THEN module_map[p] ELSE get(p)

\* A new execution context starts with empty maps; an old one is dropped.
NewContext ==
  /\ data_map' = NoEntries
  /\ module_map' = NoModules
  /\ refs' = {}
  /\ written' = {}

----------------------------------------------------------------------------
(* The operations running code has on its context *)

resource_exists(p) ==
  /\ phase = "running"
  /\ data_map' = [data_map EXCEPT ![p] = load_data(p)]
  /\ UNCHANGED <<data_view, block_map, module_map, refs, phase, storage,
                 written>>

\* MISSING_DATA when nothing is there.  After a move_from in the same context
\* the lookup returns None and building the error fails (Location has no
\* method new): no VMException but an AttributeError, which nothing catches.
borrow_global(p) ==
  /\ phase = "running"
  /\ p \notin refs
  /\ data_map' = [data_map EXCEPT ![p] = load_data(p)]
  /\ \/ /\ load_data(p).status \in {"Clean", "Dirty"}
        /\ refs' = refs \cup {p}
        /\ UNCHANGED phase
     \/ /\ load_data(p) = Unloaded
        /\ phase' = "failed"
        /\ UNCHANGED refs
     \/ /\ load_data(p) = Moved
        /\ phase' = "crashed"
        /\ UNCHANGED refs
  /\ UNCHANGED <<data_view, block_map, module_map, storage, written>>

\* MUTANT: the write goes to the container and the status stays as it was.
write_ref_unmarked(p, b) ==
  /\ phase = "running"
  /\ p \in refs
  /\ data_map' = [data_map EXCEPT ![p].blob = b]
  /\ written' = written \cup {p}
  /\ UNCHANGED <<data_view, block_map, module_map, refs, phase, storage>>

\* Writing through a reference marks the global value dirty.
write_ref(p, b) ==
  /\ phase = "running"
  /\ p \in refs
  /\ data_map' = [data_map EXCEPT ![p] = Global("Dirty", b)]
  /\ written' = written \cup {p}
  /\ UNCHANGED <<data_view, block_map, module_map, refs, phase, storage>>

release_ref(p) ==
  /\ phase = "running"
  /\ p \in refs
  /\ refs' = refs \ {p}
  /\ UNCHANGED <<data_view, block_map, data_map, module_map, phase, storage,
                 written>>

\* CANNOT_WRITE_EXISTING_RESOURCE when something is there.
move_resource_to(p, b) ==
  /\ phase = "running"
  /\ \/ /\ load_data(p) \in {Unloaded, Moved}
        /\ data_map' = [data_map EXCEPT ![p] = Global("Dirty", b)]
        /\ written' = written \cup {p}
        /\ UNCHANGED phase
     \/ /\ load_data(p) \notin {Unloaded, Moved}
        /\ data_map' = [data_map EXCEPT ![p] = load_data(p)]
        /\ phase' = "failed"
        /\ UNCHANGED written
  /\ UNCHANGED <<data_view, block_map, module_map, refs, storage>>

\* load_data_then_move leaves None in the map, the mark of a deletion.  A
\* second move finds None and indexes it: a TypeError, which nothing catches.
move_resource_from(p) ==
  /\ phase = "running"
  /\ p \notin refs
  /\ \/ /\ load_data(p).status \in {"Clean", "Dirty"}
        /\ data_map' = [data_map EXCEPT ![p] = Moved]
        /\ written' = written \cup {p}
        /\ UNCHANGED phase
     \/ /\ load_data(p) = Unloaded
        /\ phase' = "failed"
        /\ UNCHANGED <<data_map, written>>
     \/ /\ load_data(p) = Moved
        /\ phase' = "crashed"
        /\ UNCHANGED <<data_map, written>>
  /\ UNCHANGED <<data_view, block_map, module_map, refs, storage>>

\* DUPLICATE_MODULE_NAME when the module is already there.
publish_module(m, b) ==
  /\ phase = "running"
  /\ \/ /\ ~exists_module(m)
        /\ module_map' = [module_map EXCEPT ![m] = b]
        /\ written' = written \cup {m}
        /\ UNCHANGED phase
     \/ /\ exists_module(m)
        /\ phase' = "failed"
        /\ UNCHANGED <<module_map, written>>
  /\ UNCHANGED <<data_view, block_map, data_map, refs, storage>>

----------------------------------------------------------------------------
(* The life of a transaction in its block *)

\* The context of execute_verified_payload.
begin_transaction ==
  /\ phase = "ready"
  /\ phase' = "running"
  /\ NewContext
  /\ UNCHANGED <<data_view, block_map, storage>>

\* Any other VMException: an abort, an arithmetic error, no gas left.
raise_vm_exception ==
  /\ phase = "running"
  /\ phase' = "failed"
  /\ UNCHANGED <<data_view, block_map, data_map, module_map, refs, storage,
                 written>>

\* MUTANT: the epilogue of a failed transaction runs in the failed context.
failed_transaction_cleanup_reuses ==
  /\ phase = "failed"
  /\ phase' = "running"
  /\ refs' = {}
  /\ written' = {}
  /\ UNCHANGED <<data_view, block_map, data_map, module_map, storage>>

\* The context of failed_transaction_cleanup: the epilogue runs in a new one.
failed_transaction_cleanup ==
  /\ phase = "failed"
  /\ phase' = "running"
  /\ NewContext
  /\ UNCHANGED <<data_view, block_map, storage>>

\* A discarded output carries an empty write set.
discard_error_output ==
  /\ phase = "failed"
  /\ phase' = "ready"
  /\ NewContext
  /\ UNCHANGED <<data_view, block_map, storage>>

\* get_transaction_output consumes the maps; a kept write set goes into the
\* block's map, and by way of the output into the storage.
commit_transaction ==
  /\ phase = "running"
  /\ refs = {}
  /\ block_map' = push_write_set(block_map, make_write_set)
  /\ storage' = add_write_set(storage, make_write_set)
  /\ phase' = "ready"
  /\ NewContext
  /\ UNCHANGED data_view

\* load_configs_impl at the start of execute_block_impl: without the gas
\* schedule a VMException leaves the block.
load_configs ==
  /\ phase = "idle"
  /\ phase' = IF data_view[GasSchedule] = NoBlob THEN "refused" ELSE "ready"
  /\ UNCHANGED <<data_view, block_map, data_map, module_map, refs, storage,
                 written>>

\* A write set transaction is for a genesis view, over which load_configs has
\* failed before; over any other the VMException leaves the block.
check_change_set ==
  /\ phase = "ready"
  /\ ~is_genesis
  /\ phase' = "refused"
  /\ UNCHANGED <<data_view, block_map, data_map, module_map, refs, storage,
                 written>>

\* execute_block returns, the caller applies every kept write set and the
\* next block starts over the new view.
next_block ==
  /\ phase = "ready"
  /\ data_view' = storage
  /\ block_map' = Empty
  /\ phase' = "idle"
  /\ UNCHANGED <<data_map, module_map, refs, storage, written>>

\* An exception left execute_block: there are no outputs, nothing is applied.
lose_block ==
  /\ phase \in Escapes
  /\ storage' = data_view
  /\ block_map' = Empty
  /\ phase' = "idle"
  /\ NewContext
  /\ UNCHANGED data_view

Init ==
  /\ data_view \in Contents
  /\ block_map = Empty
  /\ data_map = NoEntries
  /\ module_map = NoModules
  /\ refs = {}
  /\ phase = "idle"
  /\ storage = data_view
  /\ written = {}

ResourceCode ==
  \E p \in Resources :
    \/ resource_exists(p)
    \/ borrow_global(p)
    \/ \E b \in Blobs : write_ref(p, b)
    \/ release_ref(p)
    \/ \E b \in Blobs : move_resource_to(p, b)
    \/ move_resource_from(p)

RunningCode ==
  \/ ResourceCode
  \/ \E m \in Modules, b \in Blobs : publish_module(m, b)
  \/ raise_vm_exception

Next ==
  \/ load_configs
  \/ begin_transaction
  \/ RunningCode
  \/ failed_transaction_cleanup
  \/ discard_error_output
  \/ commit_transaction
  \/ check_change_set
  \/ next_block
  \/ lose_block

Spec == Init /\ [][Next]_vars

\* The runs in which no code moves out a resource the block's view holds.
KeepsView == \A p \in Resources : data_map'[p] = Moved => data_view[p] = NoBlob

KeepingSpec == Init /\ [][Next /\ KeepsView]_vars

----------------------------------------------------------------------------
(* Properties *)

\* A transaction sees the state its block has reached, changed by its own
\* writes only: looking a path up never changes what is found there, and no
\* write of a dropped context survives into the next (failed_transaction_cleanup
\* charges a fee over the state from before the failed payload).
ReadsSeeBlockState ==
  phase = "running" => \A p \in Paths \ written : View(p) = get(p)

\* The strengthening that makes ReadsSeeBlockState inductive: a clean entry is
\* a copy of the block's blob, exactly the written paths are dirty, moved or
\* published, and no context outlives its transaction.
ScratchpadInv ==
  /\ \A p \in Resources :
       /\ data_map[p].status = "Clean" => data_map[p].blob = get(p)
       /\ p \in written <=> data_map[p].status \in {"Dirty", "Moved"}
  /\ \A m \in Modules :
       /\ m \in written <=> module_map[m] # NoBlob
       /\ m \in written => get(m) = NoBlob
  /\ phase \in {"idle", "ready"} =>
       data_map = NoEntries /\ module_map = NoModules /\ written = {}

\* What the transaction left at a path it wrote is what the storage gets, and
\* a path it only looked at is not in its write set (data_cache.py:188
\* "Dirty objects are serialized and returned in make_write_set").
WritesReachStorage ==
  [][commit_transaction =>
       \A p \in Paths :
         storage'[p] = IF p \in written THEN View(p) ELSE storage[p]]_vars

\* Within a block the cache shows what the storage will hold once the outputs
\* are applied, except for resources of the view that the block deleted: the
\* block's map cannot express their deletion, so later transactions of the
\* same block find the old blob again.
DivergesOnlyByResurrection ==
  \A p \in Paths :
    get(p) # storage[p] => storage[p] = NoBlob /\ get(p) = data_view[p]

\* data_cache.py:24 "It keeps track of the value that have been changed during
\* execution of a block. It's effectively the write set for the block": the
\* view of the next transaction is the storage after the outputs so far.
CacheIsBlockWriteSet == \A p \in Paths : get(p) = storage[p]

\* A module, once published, is never replaced or removed by transactions:
\* verified callers stay linked to the code they were verified against.
ModulesAreForever ==
  [][\A m \in Modules :
       /\ phase = "running" /\ phase' = "ready" /\ storage[m] # NoBlob
       => storage'[m] = storage[m]]_vars

\* As long as the view's resources are kept, the two caches are one store with
\* atomic transactions, block after block.
Store == INSTANCE BlockStore WITH
  base  <- data_view,
  state <- [p \in Paths |-> get(p)],
  work  <- [p \in Paths |-> IF phase = "running" THEN View(p) ELSE get(p)],
  open  <- phase = "running"

StoreRefinement == Store!StoreSpec

----------------------------------------------------------------------------
(* What the sources say and the code does not do: TLC refutes each of these *)
(* (README.md, section 6).                                                  *)

\* libra_vm.py:588 "The output vector will have the exact same length as the
\* input vector": no code a transaction runs stops its block from returning.
CodeNeverStopsBlock == phase # "crashed"

\* libra_vm.py:589 "The discarded transactions will be marked as
\* `TransactionStatus.Discard`": so is a write set that is refused.
RefusedIsDiscarded == phase # "refused" \/ data_view[GasSchedule] = NoBlob

\* state_view.py:24 "Currently TransactionPayload.WriteSet is only valid for
\* genesis state creation": a block over a genesis view is not refused.
GenesisIsNotRefused == is_genesis => phase # "refused"
=============================================================================
