------------------------------- MODULE LibraVM -------------------------------
(***************************************************************************)
(* The block executor (libra_vm/libra_vm.py): a block of transactions over  *)
(* a state view becomes a sequence of outputs.  Each user transaction is     *)
(* verified, its payload runs in a context of its own and is metered, and    *)
(* the epilogue charges for it: over the payload's ledger if that succeeds,  *)
(* over the ledger from before the payload if it does not.                   *)
(*                                                                         *)
(*   view    the ledger of the StateView                                   *)
(*   cache   the ledger BlockDataCache shows: view with the outputs so far  *)
(*   ctx     the ledger of the running payload's execution context         *)
(*                                                                         *)
(* DataCache is about how the caches keep these ledgers.  A script is any    *)
(* sequence of calls, chosen as it runs; each costs gas.                    *)
(***************************************************************************)
EXTENDS LibraBlock

CONSTANTS
  Transactions,            \* the transactions consensus may send
  Calls,                   \* the calls scripts make
  Validators,              \* the validator set
  InitialLedgers,          \* ledgers of the first StateView
  PayloadErrors,           \* errors of deserializing and verifying payloads
  RuntimeErrors,           \* errors of running code besides those of calls
  Discarded,               \* statuses TransactionStatus.from_vm_status drops
  MAX_TRANSACTION_SIZE_IN_BYTES,
  MAXIMUM_NUMBER_OF_GAS_UNITS,
  MAX_PRICE_PER_GAS_UNIT,
  Blocks,                  \* the blocks it may send
  MaxTransactions          \* bound: transactions of all blocks

UserTransactions == {t \in Transactions : t.type = "UserTransaction"}

ASSUME VMAssumption ==
  /\ Executed \notin PayloadErrors \cup RuntimeErrors \cup Discarded
  /\ \A code \in {6, 7, 10, 11, 12} : Aborted(code) \notin Discarded
  /\ \A t \in UserTransactions :
       /\ t.sender \in Addresses
       /\ t.sequence_number \in U64
       /\ t.gas_unit_price \in Nat
       /\ t.max_gas_amount \in Nat
       /\ t.intrinsic_gas \in Nat
       /\ t.payload \in {"Script", "Module"}
  /\ \A t \in Transactions :
       t.type = "BlockMetadata" => t.proposer \in Addresses /\ t.timestamp \in U64
  /\ Calls \subseteq Invocations
  /\ Validators \in Seq(Addresses)
  /\ Blocks \subseteq Seq(Transactions) /\ MaxTransactions \in Nat

ASSUME LedgerAssumption ==
  /\ InitialLedgers \subseteq Ledger
  /\ \A l \in InitialLedgers :
       exists(l, FeeAddress) /\ ~exists(l, NullAddress) /\ Covered(l)

VARIABLES view, cache, ctx,
          block,    \* the transactions of execute_block
          todo,     \* those chunk_block_transactions has not seen yet
          buf,      \* its buffer of user transactions
          chunks,   \* its chunks, of transactions without an output
          result,   \* the outputs so far
          txn,      \* the user transaction whose payload runs or failed
          gas_left,
          error,    \* what the payload or its epilogue failed with
          phase,
          blocks    \* number of blocks so far

vars == <<view, cache, ctx, block, todo, buf, chunks, result, txn, gas_left,
          error, phase, blocks>>

----------------------------------------------------------------------------
(* Blocks and chunks *)

Chunk ==
  {c \in [type : {t.type : t \in Transactions}, value : Seq(Transactions) \ {<<>>}] :
     \A i \in DOMAIN c.value : c.value[i].type = c.type}

UserChunk(txns) ==
  IF txns = <<>> THEN <<>> ELSE <<[type |-> "UserTransaction", value |-> txns]>>

\* One round of the loop of chunk_block_transactions: a user transaction waits
\* in buf, any other comes after those that wait.  A user transaction with a
\* WriteSet payload is of type WriteSet here.
chunk_transaction ==
  /\ phase = "chunking" /\ todo # <<>>
  /\ todo' = Tail(todo)
  /\ IF Head(todo).type = "UserTransaction"
     THEN buf' = Append(buf, Head(todo)) /\ UNCHANGED chunks
     ELSE /\ buf' = <<>>
          /\ chunks' = chunks \o UserChunk(buf)
                         \o <<[type |-> Head(todo).type, value |-> <<Head(todo)>>]>>
  /\ UNCHANGED <<view, cache, ctx, block, result, txn, gas_left, error, phase,
                 blocks>>

\* MUTANT: what is left in the buffer at the end is forgotten.
chunk_rest_forgotten ==
  /\ phase = "chunking" /\ todo = <<>>
  /\ buf' = <<>>
  /\ phase' = "block"
  /\ UNCHANGED <<view, cache, ctx, block, todo, chunks, result, txn, gas_left,
                 error, blocks>>

\* The end of the loop.
chunk_rest ==
  /\ phase = "chunking" /\ todo = <<>>
  /\ buf' = <<>>
  /\ chunks' = chunks \o UserChunk(buf)
  /\ phase' = "block"
  /\ UNCHANGED <<view, cache, ctx, block, todo, result, txn, gas_left, error,
                 blocks>>

\* The next transaction of the block and what follows it.
current == Head(Head(chunks).value)
advanced ==
  IF Len(Head(chunks).value) = 1 THEN Tail(chunks)
  ELSE <<[Head(chunks) EXCEPT !.value = Tail(@)]>> \o Tail(chunks)

AtUserTransaction ==
  phase = "block" /\ chunks # <<>> /\ Head(chunks).type = "UserTransaction"

----------------------------------------------------------------------------
(* Outputs *)

Keep(status, gas_used) ==
  [tag |-> "Keep", status |-> status, gas_used |-> gas_used]
discard_error_output(status) ==
  [tag |-> "Discard", status |-> status, gas_used |-> 0]

\* MUTANT: units instead of their price.
gas_used_units(t, left) == t.max_gas_amount - left

\* get_transaction_output
gas_used(t, left) == fee(t, left)

\* Back to the block, with one output more.
Output(output) ==
  /\ result' = Append(result, output)
  /\ chunks' = advanced
  /\ phase' = "block"

----------------------------------------------------------------------------
(* Verification *)

\* MIN_PRICE_PER_GAS_UNIT is 0.
check_gas(t) ==
  IF t.raw_txn_bytes_len > MAX_TRANSACTION_SIZE_IN_BYTES
  THEN Status("EXCEEDED_MAX_TRANSACTION_SIZE")
  ELSE IF t.max_gas_amount > MAXIMUM_NUMBER_OF_GAS_UNITS
  THEN Status("MAX_GAS_UNITS_EXCEEDS_MAX_GAS_UNITS_BOUND")
  ELSE IF t.max_gas_amount < t.intrinsic_gas
  THEN Status("MAX_GAS_UNITS_BELOW_MIN_TRANSACTION_GAS_UNITS")
  ELSE IF t.gas_unit_price > MAX_PRICE_PER_GAS_UNIT
  THEN Status("GAS_UNIT_PRICE_ABOVE_MAX_BOUND")
  ELSE Executed

convert_prologue_runtime_error(status) ==
  CASE status = Aborted(2) -> Status("INVALID_AUTH_KEY")
    [] status = Aborted(3) -> Status("SEQUENCE_NUMBER_TOO_OLD")
    [] status = Aborted(4) -> Status("SEQUENCE_NUMBER_TOO_NEW")
    [] status = Aborted(5) -> Status("SENDING_ACCOUNT_DOES_NOT_EXIST")
    [] status = Aborted(6) -> Status("INSUFFICIENT_BALANCE_FOR_TRANSACTION_FEE")
    [] status = Aborted(7) -> Status("TRANSACTION_EXPIRED")
    [] OTHER -> status

\* check_txn_signature, then verify_transaction_impl.
verify_transaction(l, t) ==
  IF ~t.signature_valid THEN Status("INVALID_SIGNATURE")
  ELSE IF check_gas(t) # Executed THEN check_gas(t)
  ELSE convert_prologue_runtime_error(prologue(l, t).status)

----------------------------------------------------------------------------
(* execute_block *)

execute_block(txns) ==
  /\ phase = "idle"
  /\ blocks + Len(txns) <= MaxTransactions
  /\ block' = txns
  /\ todo' = txns
  /\ chunks' = <<>>
  /\ cache' = view
  /\ result' = <<>>
  /\ phase' = "chunking"
  /\ blocks' = blocks + Len(txns)
  /\ UNCHANGED <<view, buf, ctx, txn, gas_left, error>>

\* Its write set goes into the block's cache; any error leaves execute_block.
vm_process_block_prologue ==
  /\ phase = "block" /\ chunks # <<>>
  /\ Head(chunks).type = "BlockMetadata"
  /\ LET r == block_prologue(cache, Validators, current)
     IN  IF r.status = Executed
         THEN /\ cache' = r.ledger
              /\ Output(Keep(Executed, 0))
         ELSE /\ phase' = "lost"
              /\ UNCHANGED <<cache, chunks, result>>
  /\ UNCHANGED <<view, ctx, block, todo, buf, txn, gas_left, error, blocks>>

\* check_change_set refuses it, DataCache shows when; the error leaves
\* execute_block.
refuse_write_set ==
  /\ phase = "block" /\ chunks # <<>>
  /\ Head(chunks).type = "WriteSet"
  /\ phase' = "lost"
  /\ UNCHANGED <<view, cache, ctx, block, todo, buf, chunks, result, txn,
                 gas_left, error, blocks>>

discard_unverified ==
  /\ AtUserTransaction
  /\ LET status == verify_transaction(cache, current)
     IN  /\ status # Executed
         /\ Output(discard_error_output(status))
  /\ UNCHANGED <<view, cache, ctx, block, todo, buf, txn, gas_left, error,
                 blocks>>

\* execute_verified_payload begins; gas is what is left in the new context.
BeginPayload(payload, gas) ==
  /\ AtUserTransaction
  /\ verify_transaction(cache, current) = Executed
  /\ current.payload = payload
  /\ txn' = current
  /\ ctx' = cache
  /\ gas_left' = gas
  /\ UNCHANGED <<view, cache, block, todo, buf, chunks, result, blocks>>

\* The script is loaded, linked and verified before any gas is charged; then
\* the intrinsic gas is.
execute_script ==
  /\ BeginPayload("Script", current.max_gas_amount - current.intrinsic_gas)
  /\ phase' = "executing"
  /\ UNCHANGED error

\* A module is published, or a payload refused, without charging any gas.
publish_module ==
  /\ BeginPayload("Module", current.max_gas_amount)
  /\ phase' = "executed"
  /\ UNCHANGED error

refuse_payload ==
  /\ \E payload \in {"Script", "Module"} :
       BeginPayload(payload, current.max_gas_amount)
  /\ phase' = "failed"
  /\ error' \in PayloadErrors

----------------------------------------------------------------------------
(* A running script *)

\* MUTANT: calls are free.
run_call_uncharged(c, cost) ==
  /\ phase = "executing"
  /\ cost \in 1..gas_left
  /\ Callable(ctx, c)
  /\ LET r == call(ctx, txn.sender, c)
     IN  /\ ctx' = r.ledger
         /\ IF r.status = Executed
            THEN UNCHANGED <<phase, error>>
            ELSE phase' = "failed" /\ error' = r.status
  /\ UNCHANGED <<view, cache, block, todo, buf, chunks, result, txn, gas_left,
                 blocks>>

\* Every instruction of a call is charged; a failing call stops the script.
run_call(c, cost) ==
  /\ phase = "executing"
  /\ cost \in 1..gas_left
  /\ Callable(ctx, c)
  /\ gas_left' = gas_left - cost
  /\ LET r == call(ctx, txn.sender, c)
     IN  /\ ctx' = r.ledger
         /\ IF r.status = Executed
            THEN UNCHANGED <<phase, error>>
            ELSE phase' = "failed" /\ error' = r.status
  /\ UNCHANGED <<view, cache, block, todo, buf, chunks, result, txn, blocks>>

\* deduct_gas takes what is left.
out_of_gas ==
  /\ phase = "executing"
  /\ gas_left' = 0
  /\ error' = Status("OUT_OF_GAS")
  /\ phase' = "failed"
  /\ UNCHANGED <<view, cache, ctx, block, todo, buf, chunks, result, txn,
                 blocks>>

raise_vm_exception ==
  /\ phase = "executing"
  /\ error' \in RuntimeErrors
  /\ phase' = "failed"
  /\ UNCHANGED <<view, cache, ctx, block, todo, buf, chunks, result, txn,
                 gas_left, blocks>>

\* A Python error that is no VMException leaves execute_block.
crash ==
  /\ phase = "executing"
  /\ phase' = "lost"
  /\ UNCHANGED <<view, cache, ctx, block, todo, buf, chunks, result, txn,
                 gas_left, error, blocks>>

return ==
  /\ phase = "executing"
  /\ phase' = "executed"
  /\ UNCHANGED <<view, cache, ctx, block, todo, buf, chunks, result, txn,
                 gas_left, error, blocks>>

----------------------------------------------------------------------------
(* After the payload *)

\* The epilogue runs in the payload's context; when it fails, so has the
\* transaction.
run_epilogue ==
  /\ phase = "executed"
  /\ LET r == epilogue(ctx, txn, gas_left)
     IN  IF r.status = Executed
         THEN /\ cache' = r.ledger
              /\ Output(Keep(Executed, gas_used(txn, gas_left)))
              /\ UNCHANGED error
         ELSE /\ error' = r.status
              /\ phase' = "failed"
              /\ UNCHANGED <<cache, chunks, result>>
  /\ UNCHANGED <<view, ctx, block, todo, buf, txn, gas_left, blocks>>

\* MUTANT: the epilogue of a failed payload runs over what it left.
failed_transaction_cleanup_reuses ==
  /\ phase = "failed"
  /\ LET r == epilogue(ctx, txn, gas_left)
     IN  IF error \in Discarded
         THEN UNCHANGED cache /\ Output(discard_error_output(error))
         ELSE IF r.status = Executed
         THEN /\ cache' = r.ledger
              /\ Output(Keep(error, gas_used(txn, gas_left)))
         ELSE UNCHANGED cache /\ Output(discard_error_output(r.status))
  /\ UNCHANGED <<view, ctx, block, todo, buf, txn, gas_left, error, blocks>>

\* A new context over the block's cache, with the gas the payload had left.
failed_transaction_cleanup ==
  /\ phase = "failed"
  /\ LET r == epilogue(cache, txn, gas_left)
     IN  IF error \in Discarded
         THEN UNCHANGED cache /\ Output(discard_error_output(error))
         ELSE IF r.status = Executed
         THEN /\ cache' = r.ledger
              /\ Output(Keep(error, gas_used(txn, gas_left)))
         ELSE UNCHANGED cache /\ Output(discard_error_output(r.status))
  /\ UNCHANGED <<view, ctx, block, todo, buf, txn, gas_left, error, blocks>>

NoTransaction == [type |-> "None"]

\* Nothing execute_block kept for itself is left.
Returned ==
  /\ block' = <<>>
  /\ result' = <<>>
  /\ ctx' = cache'
  /\ txn' = NoTransaction
  /\ gas_left' = 0
  /\ error' = Executed
  /\ phase' = "idle"

\* The outputs are returned and applied.
end_block ==
  /\ phase = "block"
  /\ chunks = <<>>
  /\ view' = cache
  /\ UNCHANGED <<cache, todo, buf, chunks, blocks>>
  /\ Returned

\* An exception left execute_block: no outputs.
lose_block ==
  /\ phase = "lost"
  /\ cache' = view
  /\ todo' = <<>>
  /\ buf' = <<>>
  /\ chunks' = <<>>
  /\ Returned
  /\ UNCHANGED <<view, blocks>>

Init ==
  /\ view \in InitialLedgers
  /\ cache = view
  /\ ctx = view
  /\ block = <<>>
  /\ todo = <<>>
  /\ buf = <<>>
  /\ chunks = <<>>
  /\ result = <<>>
  /\ txn = NoTransaction
  /\ gas_left = 0
  /\ error = Executed
  /\ phase = "idle"
  /\ blocks = 0

\* What execute_block does without waiting for anybody.
Step ==
  \/ chunk_transaction
  \/ chunk_rest
  \/ vm_process_block_prologue
  \/ refuse_write_set
  \/ discard_unverified
  \/ execute_script
  \/ publish_module
  \/ refuse_payload
  \/ \E c \in Calls, cost \in 1..gas_left : run_call(c, cost)
  \/ out_of_gas
  \/ raise_vm_exception
  \/ crash
  \/ return
  \/ run_epilogue
  \/ failed_transaction_cleanup
  \/ end_block
  \/ lose_block

Next ==
  \/ \E txns \in Blocks : execute_block(txns)
  \/ Step

Spec == Init /\ [][Next]_vars

\* execute_block is one thread that nothing blocks.
FairSpec == Spec /\ WF_vars(Step)

----------------------------------------------------------------------------
(* Properties *)

VMStatuses ==
  Statuses \cup PayloadErrors \cup RuntimeErrors \cup
    {Status(major) : major \in
       {"OUT_OF_GAS", "INVALID_SIGNATURE", "EXCEEDED_MAX_TRANSACTION_SIZE",
        "MAX_GAS_UNITS_EXCEEDS_MAX_GAS_UNITS_BOUND",
        "MAX_GAS_UNITS_BELOW_MIN_TRANSACTION_GAS_UNITS",
        "GAS_UNIT_PRICE_ABOVE_MAX_BOUND", "INVALID_AUTH_KEY",
        "SEQUENCE_NUMBER_TOO_OLD", "SEQUENCE_NUMBER_TOO_NEW",
        "SENDING_ACCOUNT_DOES_NOT_EXIST",
        "INSUFFICIENT_BALANCE_FOR_TRANSACTION_FEE", "TRANSACTION_EXPIRED"}}

Outputs == [tag : {"Keep", "Discard"},
            status : VMStatuses,
            gas_used : Nat]

TypeOK ==
  /\ view \in Ledger /\ cache \in Ledger /\ ctx \in Ledger
  /\ block \in Seq(Transactions) /\ todo \in Seq(Transactions)
  /\ buf \in Seq(UserTransactions)
  /\ chunks \in Seq(Chunk)
  /\ result \in Seq(Outputs)
  /\ txn \in UserTransactions \cup {NoTransaction}
  /\ gas_left \in Nat
  /\ error \in VMStatuses
  /\ phase \in {"idle", "chunking", "block", "executing", "executed", "failed", "lost"}
  /\ blocks \in Nat

\* The transactions of chunks, in order.
Flattened(cs) ==
  LET upto[i \in 0..Len(cs)] == IF i = 0 THEN <<>> ELSE upto[i - 1] \o cs[i].value
  IN  upto[Len(cs)]

\* Nothing is dropped, repeated or reordered by cutting a block into chunks:
\* the outputs so far belong to a prefix of the block and the chunks hold the
\* rest (libra_vm.py:588 "the exact same length as the input vector").
OutputsAlign ==
  phase # "idle" =>
    block = SubSeq(block, 1, Len(result)) \o Flattened(chunks) \o buf \o todo

\* A sequence number counts the kept transactions of its account: every
\* kept transaction, failed ones included, takes exactly one, discarded ones
\* take none, and so no transaction can be kept twice.
KeptOf(a) ==
  Cardinality({i \in DOMAIN result :
    /\ result[i].tag = "Keep"
    /\ block[i].type = "UserTransaction"
    /\ block[i].sender = a})

SequenceNumber(l, a) == IF exists(l, a) THEN l.account[a].sequence_number ELSE 0

SequenceNumbersCount ==
  phase # "idle" =>
    \A a \in Addresses :
      SequenceNumber(cache, a) = SequenceNumber(view, a) + KeptOf(a)

\* No coin is lost or made between the outcomes of a block: the payloads that
\* are kept, those that are dropped, the fees and their distribution leave in
\* the accounts what has been minted.
CoinsAreKept ==
  /\ Covered(view) /\ Covered(cache)
  /\ phase \in {"executing", "executed"} => Covered(ctx)

\* What verification established still holds when the cleanup relies on it: the
\* sender of a failed transaction can pay for the gas it used, unless the pot
\* or the sequence number is at the end of its range.  A failure is never free
\* because the sender spent the deposit meanwhile.
FailedCanPay ==
  phase = "failed"
    /\ balance(cache, FeeAddress) + fee(txn, gas_left) <= MaxU64
    /\ txn.sequence_number < MaxU64
  => epilogue(cache, txn, gas_left).status = Executed

\* The same step by step, for the proof.
KeptTakesOneNumber ==
  [][Len(result') > Len(result) =>
       \A a \in Addresses :
         SequenceNumber(cache', a) = SequenceNumber(cache, a) +
           (IF /\ result'[Len(result')].tag = "Keep"
               /\ current.type = "UserTransaction" /\ current.sender = a
            THEN 1 ELSE 0)]_vars

LastOutput == result'[Len(result')]

\* The outcome of a transaction that is not kept as executed: a discarded one
\* changes nothing, a failed one costs its sender the gas it used, moves the
\* sequence number, and leaves no other trace.
FailureCostsOnlyTheFee ==
  [][Len(result') > Len(result) /\ LastOutput.status # Executed =>
       IF LastOutput.tag = "Discard" THEN cache' = cache
       ELSE /\ cache' = [cache EXCEPT !.account = cache'.account]
            /\ \A a \in Addresses :
                 /\ a # FeeAddress /\ a # current.sender =>
                      cache'.account[a] = cache.account[a]
                 /\ a # FeeAddress /\ a = current.sender =>
                      cache'.account[a] =
                        [cache.account[a] EXCEPT
                           !.balance = @ - LastOutput.gas_used,
                           !.sequence_number = @ + 1]]_vars

\* The gas an output reports is what the pot received for it, and within what
\* the sender agreed to pay.
ReportedGasIsPaid ==
  [][Len(result') > Len(result)
       /\ LastOutput.tag = "Keep"
       /\ current.type = "UserTransaction"
       /\ current.sender # FeeAddress =>
     /\ balance(cache', FeeAddress) = LastOutput.gas_used +
          balance(IF LastOutput.status = Executed THEN ctx ELSE cache, FeeAddress)
     /\ LastOutput.gas_used <= current.gas_unit_price * current.max_gas_amount]_vars

\* Every block comes to an end: whatever its scripts do, gas runs out.
BlocksEnd == phase # "idle" ~> phase = "idle"
=============================================================================
