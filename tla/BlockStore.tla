----------------------------- MODULE BlockStore -----------------------------
(***************************************************************************)
(* What the two data caches of the VM promise to a block of transactions:  *)
(* one store of blobs, read and written by one transaction at a time.  A   *)
(* transaction works on a private copy; committing makes the whole copy    *)
(* visible at once and abandoning it leaves no trace.  A lost block leaves *)
(* no trace either.                                                        *)
(*                                                                         *)
(* DataCache implements this with an overlay (BlockDataCache) over an      *)
(* immutable view and a scratchpad (TransactionDataCache) over the overlay.*)
(***************************************************************************)
CONSTANTS Paths,    \* access paths
          Blobs,    \* serialized resources and modules
          NoBlob    \* nothing is stored at the path

VARIABLES base,     \* the store as the block found it
          state,    \* what the next transaction of the block will read
          work,     \* the running transaction's private copy of it
          open      \* a transaction is running

storeVars == <<base, state, work, open>>

Contents == [Paths -> Blobs \cup {NoBlob}]

StoreTypeOK ==
  /\ base \in Contents
  /\ state \in Contents
  /\ work \in Contents
  /\ open \in BOOLEAN

StoreInit ==
  /\ base \in Contents
  /\ state = base
  /\ work = state
  /\ open = FALSE

Begin ==
  /\ ~open
  /\ open' = TRUE
  /\ UNCHANGED <<base, state, work>>

\* Writing NoBlob removes what is stored at the path.
Write(p, b) ==
  /\ open
  /\ work' = [work EXCEPT ![p] = b]
  /\ UNCHANGED <<base, state, open>>

Commit ==
  /\ open
  /\ state' = work
  /\ open' = FALSE
  /\ UNCHANGED <<base, work>>

Abandon ==
  /\ open
  /\ work' = state
  /\ open' = FALSE
  /\ UNCHANGED <<base, state>>

\* The outputs of the block are applied and the next block starts.
NextBlock ==
  /\ ~open
  /\ base' = state
  /\ UNCHANGED <<state, work, open>>

\* The block is lost: nothing its transactions committed is applied.
LoseBlock ==
  /\ ~open
  /\ state' = base
  /\ work' = base
  /\ UNCHANGED <<base, open>>

StoreNext ==
  \/ Begin
  \/ \E p \in Paths, b \in Blobs \cup {NoBlob} : Write(p, b)
  \/ Commit
  \/ Abandon
  \/ NextBlock
  \/ LoseBlock

StoreSpec == StoreInit /\ [][StoreNext]_storeVars
=============================================================================
