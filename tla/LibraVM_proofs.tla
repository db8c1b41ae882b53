---------------------------- MODULE LibraVM_proofs ----------------------------
(***************************************************************************)
(* Proofs about the block executor, for any transactions, scripts, ledgers, *)
(* gas limits and width of u64.                                             *)
(***************************************************************************)
EXTENDS LibraVM, AccountCalls_proofs

LEMMA StatusTypes ==
  /\ Statuses \subseteq VMStatuses
  /\ PayloadErrors \cup RuntimeErrors \subseteq VMStatuses
  /\ Executed \in VMStatuses
  /\ Status("OUT_OF_GAS") \in VMStatuses /\ Status("OUT_OF_GAS") # Executed
  /\ Status("INVALID_SIGNATURE") \in VMStatuses
  /\ Status("INVALID_SIGNATURE") # Executed
<1>1. Executed \in Statuses
  BY StatusType
<1>2. \A major : Status(major) = Executed => major = "EXECUTED"
  BY DEF Status, Executed
<1>3. Status("OUT_OF_GAS") # Executed /\ Status("INVALID_SIGNATURE") # Executed
  BY <1>2
<1>4. Statuses \subseteq VMStatuses
  BY Zenon DEF VMStatuses
<1>5. PayloadErrors \cup RuntimeErrors \subseteq VMStatuses
  BY Zenon DEF VMStatuses
<1>6. Status("OUT_OF_GAS") \in VMStatuses /\ Status("INVALID_SIGNATURE") \in VMStatuses
  BY Zenon DEF VMStatuses
<1> QED
  BY <1>1, <1>3, <1>4, <1>5, <1>6

LEMMA UserTransactionType ==
  ASSUME NEW t \in UserTransactions
  PROVE  /\ t \in Transactions /\ t.type = "UserTransaction"
         /\ Metered(t) /\ t.intrinsic_gas \in Nat
BY VMAssumption DEF UserTransactions, Metered

----------------------------------------------------------------------------
(* Verification *)

LEMMA CheckGas ==
  ASSUME NEW t
  PROVE  /\ check_gas(t) \in VMStatuses
         /\ check_gas(t) = Executed => ~(t.max_gas_amount < t.intrinsic_gas)
<1>1. \A major : Status(major) = Executed => major = "EXECUTED"
  BY DEF Status, Executed
<1>2. Status("MAX_GAS_UNITS_BELOW_MIN_TRANSACTION_GAS_UNITS") # Executed
      /\ Status("MAX_GAS_UNITS_EXCEEDS_MAX_GAS_UNITS_BOUND") # Executed
      /\ Status("EXCEEDED_MAX_TRANSACTION_SIZE") # Executed
  BY <1>1
<1>3. {Status("MAX_GAS_UNITS_BELOW_MIN_TRANSACTION_GAS_UNITS"),
       Status("MAX_GAS_UNITS_EXCEEDS_MAX_GAS_UNITS_BOUND"),
       Status("EXCEEDED_MAX_TRANSACTION_SIZE"),
       Status("GAS_UNIT_PRICE_ABOVE_MAX_BOUND"), Executed} \subseteq VMStatuses
  <2>1. /\ Status("MAX_GAS_UNITS_BELOW_MIN_TRANSACTION_GAS_UNITS") \in VMStatuses
        /\ Status("MAX_GAS_UNITS_EXCEEDS_MAX_GAS_UNITS_BOUND") \in VMStatuses
        /\ Status("EXCEEDED_MAX_TRANSACTION_SIZE") \in VMStatuses
        /\ Status("GAS_UNIT_PRICE_ABOVE_MAX_BOUND") \in VMStatuses
    BY Zenon DEF VMStatuses
  <2> QED
    BY <2>1, StatusTypes
<1> QED
  BY <1>2, <1>3, Zenon DEF check_gas

LEMMA PrologueType ==
  ASSUME NEW l \in Ledger, NEW t
  PROVE  prologue(l, t).status \in Statuses
<1>1. /\ \A code \in Nat : Fail(l, Aborted(code)).status \in Statuses
      /\ Fail(l, Status("ARITHMETIC_ERROR")).status \in Statuses
      /\ Ok(l).status \in Statuses
  BY StatusType DEF Fail, Ok, Majors
<1>2. is_valid_transaction_timestamp(l, t.expiration_time).status \in Statuses
  BY <1>1 DEF is_valid_transaction_timestamp
<1> QED
  BY <1>1, <1>2 DEF prologue

LEMMA ConvertedStatus ==
  ASSUME NEW s \in Statuses
  PROVE  /\ convert_prologue_runtime_error(s) \in VMStatuses
         /\ convert_prologue_runtime_error(s) = Executed => s = Executed
<1> DEFINE Renamed == {Status("INVALID_AUTH_KEY"), Status("SEQUENCE_NUMBER_TOO_OLD"),
                       Status("SEQUENCE_NUMBER_TOO_NEW"),
                       Status("SENDING_ACCOUNT_DOES_NOT_EXIST"),
                       Status("INSUFFICIENT_BALANCE_FOR_TRANSACTION_FEE"),
                       Status("TRANSACTION_EXPIRED")}
<1>1. Executed \notin Renamed
  <2>1. \A major : Status(major) = Executed => major = "EXECUTED"
    BY DEF Status, Executed
  <2> QED
    BY <2>1
<1>2. Renamed \subseteq VMStatuses
  <2>1. \A major \in {"INVALID_AUTH_KEY", "SEQUENCE_NUMBER_TOO_OLD",
                      "SEQUENCE_NUMBER_TOO_NEW", "SENDING_ACCOUNT_DOES_NOT_EXIST",
                      "INSUFFICIENT_BALANCE_FOR_TRANSACTION_FEE",
                      "TRANSACTION_EXPIRED"} : Status(major) \in VMStatuses
    BY Zenon DEF VMStatuses
  <2> QED
    BY <2>1
<1>3. convert_prologue_runtime_error(s) \in Renamed \cup {s}
  BY DEF convert_prologue_runtime_error
<1> HIDE DEF Renamed
<1> QED
  BY <1>1, <1>2, <1>3, StatusTypes

LEMMA VerifyOutcome ==
  ASSUME NEW l \in Ledger, NEW t
  PROVE  /\ verify_transaction(l, t) \in VMStatuses
         /\ verify_transaction(l, t) = Executed =>
              /\ prologue(l, t).status = Executed
              /\ ~(t.max_gas_amount < t.intrinsic_gas)
BY PrologueType, ConvertedStatus, CheckGas, StatusTypes, Zenon DEF verify_transaction

----------------------------------------------------------------------------
(* Chunks *)

LEMMA UserChunkType ==
  ASSUME NEW txns \in Seq(UserTransactions)
  PROVE  UserChunk(txns) \in Seq(Chunk)
<1>1. CASE txns = <<>>
  BY <1>1 DEF UserChunk
<1>2. CASE txns # <<>>
  <2> DEFINE c == [type |-> "UserTransaction", value |-> txns]
  <2>1. \A i \in DOMAIN txns : txns[i] \in UserTransactions
    BY ElementOfSeq, LenProperties
  <2>2. txns \in Seq(Transactions)
    <3>1. UserTransactions \subseteq Transactions
      BY UserTransactionType
    <3> QED
      BY <3>1, SeqMonotonic
  <2>3. txns[1] \in UserTransactions
    BY <1>2, EmptySeq, ElementOfSeq
  <2>4. "UserTransaction" \in {t.type : t \in Transactions}
    BY <2>3, UserTransactionType
  <2>5. \A i \in DOMAIN c.value : c.value[i].type = c.type
    BY <2>1, UserTransactionType
  <2>6. c \in Chunk
    BY <1>2, <2>2, <2>4, <2>5 DEF Chunk
  <2> QED
    BY <1>2, <2>6 DEF UserChunk
<1> QED
  BY <1>1, <1>2
\* The next transaction is of the kind of its chunk, and what follows is cut
\* into chunks again.
LEMMA NextTransaction ==
  ASSUME chunks \in Seq(Chunk), chunks # <<>>
  PROVE  /\ current \in Transactions /\ current.type = Head(chunks).type
         /\ advanced \in Seq(Chunk)
<1> DEFINE h == Head(chunks)
           v == h.value
<1>1. h \in Chunk /\ Tail(chunks) \in Seq(Chunk)
  BY HeadTailProperties
<1>2. v \in Seq(Transactions) /\ v # <<>> /\ h.type \in {t.type : t \in Transactions}
      /\ h = [type |-> h.type, value |-> v]
      /\ \A i \in DOMAIN v : v[i].type = h.type
  BY <1>1 DEF Chunk
<1> HIDE DEF h, v
<1>3. /\ Len(v) \in Nat \ {0} /\ DOMAIN v = 1..Len(v)
      /\ Head(v) = v[1] /\ v[1] \in Transactions
      /\ Tail(v) \in Seq(Transactions) /\ Len(Tail(v)) = Len(v) - 1
      /\ \A i \in 1..Len(Tail(v)) : Tail(v)[i] = v[i+1]
  BY <1>2, HeadTailProperties, LenProperties, EmptySeq, ElementOfSeq
<1>4. current = v[1]
  BY <1>3 DEF current, h, v
<1>5. CASE Len(v) = 1
  BY <1>1, <1>2, <1>3, <1>4, <1>5 DEF advanced, h, v
<1>6. CASE Len(v) # 1
  <2> DEFINE rest == [h EXCEPT !.value = Tail(@)]
  <2>3. Tail(v) # <<>>
    <3>1. Len(Tail(v)) # 0 /\ Len(<<>>) = 0
      BY <1>3, <1>6
    <3> QED
      BY <3>1
  <2>1. rest.type = h.type /\ rest.value = Tail(v)
        /\ rest \in [type : {t.type : t \in Transactions}, value : Seq(Transactions) \ {<<>>}]
    BY <1>1, <1>3, <2>3 DEF Chunk, v
  <2>2. \A i \in DOMAIN Tail(v) : Tail(v)[i].type = h.type
    BY <1>2, <1>3, LenProperties
  <2>4. rest \in Chunk
    BY <2>1, <2>2 DEF Chunk
  <2>5. <<rest>> \in Seq(Chunk)
    BY <2>4
  <2>6. advanced = <<rest>> \o Tail(chunks)
    BY <1>6 DEF advanced, h, v
  <2> HIDE DEF rest
  <2> QED
    BY <1>1, <1>2, <1>3, <1>4, <2>5, <2>6, ConcatProperties DEF h
<1> QED
  BY <1>5, <1>6

----------------------------------------------------------------------------
(* Sequence numbers *)

\* From l to m accounts stay and sequence numbers do not move.
SameNumbers(l, m) ==
  \A a \in Addresses :
    /\ exists(l, a) => exists(m, a)
    /\ SequenceNumber(m, a) = SequenceNumber(l, a)

LEMMA PaysKeepsNumbers ==
  ASSUME NEW l, NEW m, NEW payers, Pays(l, m, payers)
  PROVE  SameNumbers(l, m)
<1> SUFFICES ASSUME NEW a \in Addresses
             PROVE  /\ exists(l, a) => exists(m, a)
                    /\ SequenceNumber(m, a) = SequenceNumber(l, a)
  BY DEF SameNumbers
<1>1. CASE exists(l, a)
  BY <1>1 DEF Pays, SequenceNumber
<1>2. CASE ~exists(l, a) /\ exists(m, a)
  BY <1>2 DEF Pays, SequenceNumber
<1>3. CASE ~exists(l, a) /\ ~exists(m, a)
  BY <1>3 DEF SequenceNumber
<1> QED
  BY <1>1, <1>2, <1>3

LEMMA BecomesKeepsNumbers ==
  ASSUME NEW l, NEW m, NEW b, NEW new, NEW w, NEW k, Becomes(l, m, b, new, w, k)
  PROVE  SameNumbers(l, m)
<1> SUFFICES ASSUME NEW a \in Addresses
             PROVE  /\ exists(l, a) => exists(m, a)
                    /\ SequenceNumber(m, a) = SequenceNumber(l, a)
  BY DEF SameNumbers
<1>1. CASE a = b
  BY <1>1 DEF Becomes, Alike, SequenceNumber
<1>2. CASE a # b
  BY <1>2 DEF Becomes, SameBut, exists, SequenceNumber
<1> QED
  BY <1>1, <1>2

LEMMA OutcomeKeepsNumbers ==
  ASSUME NEW l, NEW m, NEW sender, NEW c, Outcome(l, m, sender, c)
  PROVE  SameNumbers(l, m)
BY PaysKeepsNumbers, BecomesKeepsNumbers, Zenon
   DEF Outcome, SenderPays, OwnerPays, SenderRotates, OwnerRotates,
       ExtractsWithdrawal, RestoresWithdrawal, ExtractsKeyRotation,
       RestoresKeyRotation

\* The sender's number in m is the one after the transaction's, the others' are as in l.
Numbered(l, m, t) ==
  \A a \in Addresses :
    SequenceNumber(m, a) =
      IF a = t.sender THEN t.sequence_number + 1 ELSE SequenceNumber(l, a)

LEMMA ChargedIsNumbered ==
  ASSUME NEW l, NEW m, NEW t, NEW amount, Charged(l, m, t, amount)
  PROVE  Numbered(l, m, t)
<1> SUFFICES ASSUME NEW a \in Addresses
             PROVE  SequenceNumber(m, a) =
                      IF a = t.sender THEN t.sequence_number + 1
                      ELSE SequenceNumber(l, a)
  BY DEF Numbered
<1>1. CASE exists(l, a)
  BY <1>1 DEF Charged, SequenceNumber
<1>2. CASE ~exists(l, a)
  BY <1>2 DEF Charged, SequenceNumber
<1> QED
  BY <1>1, <1>2

----------------------------------------------------------------------------
(* The invariant *)

HasPot == exists(view, FeeAddress) /\ exists(cache, FeeAddress)

\* txn is the next transaction of the block.
AtPayload ==
  chunks # <<>> /\ Head(chunks).type = "UserTransaction" /\ txn = current

\* From the payload of a transaction to its output: it is the next one of the
\* block, verification holds of the block's cache, and a script can use neither
\* more gas than the transaction has nor its sequence number.
Running ==
  phase \in {"executing", "executed", "failed"} =>
    /\ AtPayload
    /\ verify_transaction(cache, txn) = Executed
    /\ gas_left <= txn.max_gas_amount
    /\ phase = "failed" => error # Executed
    /\ phase # "failed" => SameNumbers(cache, ctx)

Inv == TypeOK /\ HasPot /\ Running

\* What the transaction at hand is known to satisfy.
LEMMA AtHand ==
  ASSUME Inv, phase \in {"executing", "executed", "failed"}
  PROVE  /\ txn \in UserTransactions /\ Metered(txn)
         /\ prologue(cache, txn).status = Executed
         /\ exists(cache, txn.sender)
         /\ txn.sequence_number = SequenceNumber(cache, txn.sender)
         /\ fee(txn, gas_left) \in Nat
         /\ fee(txn, gas_left) <= txn.gas_unit_price * txn.max_gas_amount
         /\ fee(txn, gas_left) <= balance(cache, txn.sender)
         /\ fee(txn, gas_left) <= MaxU64
         /\ current.type = "UserTransaction" /\ advanced \in Seq(Chunk)
<1>1. /\ cache \in Ledger /\ gas_left \in Nat /\ chunks \in Seq(Chunk)
      /\ AtPayload /\ verify_transaction(cache, txn) = Executed
      /\ gas_left <= txn.max_gas_amount
  BY DEF Inv, TypeOK, Running
<1>2. txn = current /\ chunks # <<>> /\ Head(chunks).type = "UserTransaction"
  BY <1>1 DEF AtPayload
<1>3. txn \in UserTransactions /\ current.type = "UserTransaction"
      /\ advanced \in Seq(Chunk)
  BY <1>1, <1>2, NextTransaction DEF UserTransactions
<1>4. Metered(txn) /\ prologue(cache, txn).status = Executed
  BY <1>1, <1>3, UserTransactionType, VerifyOutcome
<1>5. /\ exists(cache, txn.sender)
      /\ txn.gas_unit_price * txn.max_gas_amount <= MaxU64
      /\ txn.gas_unit_price * txn.max_gas_amount <= balance(cache, txn.sender)
      /\ txn.sequence_number = cache.account[txn.sender].sequence_number
  BY <1>1, <1>4, PrologueOutcome
<1>6. /\ fee(txn, gas_left) \in Nat
      /\ txn.gas_unit_price * txn.max_gas_amount \in Nat
      /\ fee(txn, gas_left) <= txn.gas_unit_price * txn.max_gas_amount
  BY <1>1, <1>4, FeeBound
<1>7. balance(cache, txn.sender) \in Nat
  BY <1>1, <1>4, <1>5, BalanceType DEF Metered
<1>8. /\ fee(txn, gas_left) <= balance(cache, txn.sender)
      /\ fee(txn, gas_left) <= MaxU64
  <2> DEFINE max == txn.gas_unit_price * txn.max_gas_amount
             f == fee(txn, gas_left)
  <2>1. max \in Nat /\ f \in Nat /\ f <= max /\ max <= MaxU64
        /\ max <= balance(cache, txn.sender)
    BY <1>5, <1>6
  <2> HIDE DEF max, f
  <2>2. f <= MaxU64 /\ f <= balance(cache, txn.sender)
    BY <2>1, <1>7, U64Type
  <2> QED
    BY <2>2 DEF f
<1> QED
  BY <1>3, <1>4, <1>5, <1>6, <1>8 DEF SequenceNumber

LEMMA InitInv == Init => Inv
<1> SUFFICES ASSUME Init PROVE Inv
  OBVIOUS
<1>1. TypeOK
  BY LedgerAssumption, StatusTypes DEF Init, TypeOK, NoTransaction
<1>2. HasPot
  BY LedgerAssumption DEF Init, HasPot
<1> QED
  BY <1>1, <1>2 DEF Inv, Running, Init

----------------------------------------------------------------------------
(* Every step keeps the invariant *)

LEMMA ChunkTransactionInv == Inv /\ chunk_transaction => Inv'
<1> SUFFICES ASSUME Inv, chunk_transaction PROVE Inv'
  OBVIOUS
<1> DEFINE t == Head(todo)
           single == [type |-> t.type, value |-> <<t>>]
<1>1. todo \in Seq(Transactions) /\ todo # <<>> /\ buf \in Seq(UserTransactions)
      /\ chunks \in Seq(Chunk)
  BY DEF Inv, TypeOK, chunk_transaction
<1>2. t \in Transactions /\ Tail(todo) \in Seq(Transactions)
  BY <1>1, HeadTailProperties
<1>3. todo' \in Seq(Transactions)
  BY <1>2 DEF chunk_transaction
<1> HIDE DEF t
<1>4. buf' \in Seq(UserTransactions) /\ chunks' \in Seq(Chunk)
  <2>1. CASE t.type = "UserTransaction"
    <3>1. t \in UserTransactions
      BY <1>2, <2>1 DEF UserTransactions
    <3>2. buf' = Append(buf, t) /\ chunks' = chunks
      BY <2>1 DEF chunk_transaction, t
    <3> QED
      BY <1>1, <3>1, <3>2
  <2>2. CASE t.type # "UserTransaction"
    <3>1. buf' = <<>> /\ chunks' = chunks \o UserChunk(buf) \o <<single>>
      BY <2>2 DEF chunk_transaction, t
    <3>2. single \in Chunk
      <4>1. single.value = <<t>> /\ single.type = t.type
        OBVIOUS
      <4>2. <<t>> \in Seq(Transactions) \ {<<>>} /\ \A i \in DOMAIN <<t>> : <<t>>[i] = t
        BY <1>2
      <4>3. single \in [type : {x.type : x \in Transactions},
                        value : Seq(Transactions) \ {<<>>}]
        BY <1>2, <4>2
      <4>4. \A i \in DOMAIN single.value : single.value[i].type = single.type
        BY <4>1, <4>2
      <4> HIDE DEF single
      <4> QED
        BY <4>3, <4>4 DEF Chunk
    <3> HIDE DEF single
    <3>3. <<single>> \in Seq(Chunk) /\ UserChunk(buf) \in Seq(Chunk)
      BY <1>1, <3>2, UserChunkType
    <3>4. chunks \o UserChunk(buf) \in Seq(Chunk)
      BY <1>1, <3>3, ConcatProperties
    <3>5. chunks' \in Seq(Chunk)
      BY <3>1, <3>3, <3>4, ConcatProperties
    <3> QED
      BY <3>1, <3>5
  <2> QED
    BY <2>1, <2>2
<1>5. TypeOK'
  BY <1>3, <1>4 DEF Inv, TypeOK, chunk_transaction
<1>6. HasPot' /\ Running'
  BY DEF Inv, HasPot, Running, chunk_transaction
<1> QED
  BY <1>5, <1>6 DEF Inv

LEMMA ChunkRestInv == Inv /\ chunk_rest => Inv'
<1> SUFFICES ASSUME Inv, chunk_rest PROVE Inv'
  OBVIOUS
<1>1. chunks' \in Seq(Chunk)
  <2>1. chunks \in Seq(Chunk) /\ UserChunk(buf) \in Seq(Chunk)
    BY UserChunkType DEF Inv, TypeOK
  <2> QED
    BY <2>1, ConcatProperties DEF chunk_rest
<1>2. TypeOK'
  BY <1>1 DEF Inv, TypeOK, chunk_rest
<1>3. HasPot' /\ Running'
  BY DEF Inv, HasPot, Running, chunk_rest
<1> QED
  BY <1>2, <1>3 DEF Inv

LEMMA BlockInv ==
  ASSUME Inv,
         \/ \E txns \in Blocks : execute_block(txns)
         \/ end_block \/ lose_block \/ refuse_write_set
  PROVE  Inv'
<1>1. ASSUME NEW txns \in Blocks, execute_block(txns)
      PROVE  Inv'
  <2>1. txns \in Seq(Transactions)
    BY <1>1, VMAssumption
  <2>2. TypeOK'
    BY <1>1, <2>1 DEF Inv, TypeOK, execute_block
  <2>3. HasPot' /\ Running'
    BY <1>1 DEF Inv, HasPot, Running, execute_block
  <2> QED
    BY <2>2, <2>3 DEF Inv
<1>2. CASE end_block
  <2>1. TypeOK'
    BY <1>2, StatusTypes DEF Inv, TypeOK, end_block, Returned
  <2>2. HasPot' /\ Running'
    BY <1>2 DEF Inv, HasPot, Running, end_block, Returned
  <2> QED
    BY <2>1, <2>2 DEF Inv
<1>3. CASE lose_block
  <2>1. TypeOK'
    BY <1>3, StatusTypes DEF Inv, TypeOK, lose_block, Returned
  <2>2. HasPot' /\ Running'
    BY <1>3 DEF Inv, HasPot, Running, lose_block, Returned
  <2> QED
    BY <2>1, <2>2 DEF Inv
<1>4. CASE refuse_write_set
  <2>1. TypeOK'
    BY <1>4 DEF Inv, TypeOK, refuse_write_set
  <2>2. HasPot' /\ Running'
    BY <1>4 DEF Inv, HasPot, Running, refuse_write_set
  <2> QED
    BY <2>1, <2>2 DEF Inv
<1> QED
  BY <1>1, <1>2, <1>3, <1>4

\* What an output adds.
LEMMA OutputType ==
  ASSUME Inv, NEW output \in Outputs, chunks # <<>>, Output(output)
  PROVE  /\ result' \in Seq(Outputs) /\ chunks' \in Seq(Chunk)
         /\ phase' = "block"
         /\ Len(result') = Len(result) + 1 /\ LastOutput = output
<1>1. result \in Seq(Outputs) /\ chunks \in Seq(Chunk)
  BY DEF Inv, TypeOK
<1>2. result' = Append(result, output) /\ chunks' = advanced /\ phase' = "block"
  BY DEF Output
<1>3. advanced \in Seq(Chunk)
  BY <1>1, NextTransaction
<1>4. /\ Append(result, output) \in Seq(Outputs)
      /\ Len(Append(result, output)) = Len(result) + 1
      /\ Append(result, output)[Len(result) + 1] = output
  BY <1>1, AppendProperties
<1> QED
  BY <1>2, <1>3, <1>4 DEF LastOutput

LEMMA OutputsType ==
  /\ \A status \in VMStatuses, gas \in Nat : Keep(status, gas) \in Outputs
  /\ \A status \in VMStatuses : discard_error_output(status) \in Outputs
BY DEF Keep, discard_error_output, Outputs

LEMMA BlockPrologueInv == Inv /\ vm_process_block_prologue => Inv'
<1> SUFFICES ASSUME Inv, vm_process_block_prologue PROVE Inv'
  OBVIOUS
<1> DEFINE r == block_prologue(cache, Validators, current)
<1>1. chunks \in Seq(Chunk) /\ chunks # <<>> /\ Head(chunks).type = "BlockMetadata"
      /\ cache \in Ledger
  BY DEF Inv, TypeOK, vm_process_block_prologue
<1>2. current.timestamp \in U64
  BY <1>1, NextTransaction, VMAssumption
<1>3. r.ledger \in Ledger /\ Pays(cache, r.ledger, {FeeAddress})
  <2>1. Typed(r) /\ Pays(cache, r.ledger, {FeeAddress})
    BY <1>1, <1>2, BlockPrologueOutcome, VMAssumption
  <2> HIDE DEF r
  <2> QED
    BY <2>1 DEF Typed
<1>4. exists(r.ledger, FeeAddress)
  BY <1>3, PaysKeepsNumbers, AccountAssumption DEF SameNumbers, Inv, HasPot
<1>5. CASE r.status = Executed
  <2>1. cache' = r.ledger /\ Output(Keep(Executed, 0))
    BY <1>5 DEF vm_process_block_prologue
  <2>2. Keep(Executed, 0) \in Outputs
    BY OutputsType, StatusTypes
  <2>3. result' \in Seq(Outputs) /\ chunks' \in Seq(Chunk) /\ phase' = "block"
    BY <1>1, <2>1, <2>2, OutputType
  <2> HIDE DEF r
  <2>4. TypeOK'
    BY <1>3, <2>1, <2>3 DEF Inv, TypeOK, vm_process_block_prologue
  <2>5. HasPot' /\ Running'
    BY <1>4, <2>1, <2>3 DEF Inv, HasPot, Running, vm_process_block_prologue, exists
  <2> QED
    BY <2>4, <2>5 DEF Inv
<1>6. CASE r.status # Executed
  <2>1. phase' = "lost" /\ UNCHANGED <<cache, chunks, result>>
    BY <1>6 DEF vm_process_block_prologue
  <2>2. TypeOK'
    BY <2>1 DEF Inv, TypeOK, vm_process_block_prologue
  <2>3. HasPot' /\ Running'
    BY <2>1 DEF Inv, HasPot, Running, vm_process_block_prologue
  <2> QED
    BY <2>2, <2>3 DEF Inv
<1> QED
  BY <1>5, <1>6

LEMMA DiscardUnverifiedOutput ==
  ASSUME Inv, discard_unverified
  PROVE  /\ LastOutput.tag = "Discard" /\ cache' = cache
         /\ Len(result') = Len(result) + 1
         /\ Inv'
<1> DEFINE status == verify_transaction(cache, current)
<1>1. chunks # <<>> /\ cache \in Ledger
  BY DEF Inv, TypeOK, discard_unverified, AtUserTransaction
<1>2. discard_error_output(status) \in Outputs
  BY <1>1, VerifyOutcome, OutputsType
<1>3. Output(discard_error_output(status))
  BY DEF discard_unverified
<1>4. /\ result' \in Seq(Outputs) /\ chunks' \in Seq(Chunk) /\ phase' = "block"
      /\ Len(result') = Len(result) + 1
      /\ LastOutput = discard_error_output(status)
  BY <1>1, <1>2, <1>3, OutputType
<1>5. TypeOK'
  BY <1>4 DEF Inv, TypeOK, discard_unverified
<1>6. HasPot' /\ Running'
  BY <1>4 DEF Inv, HasPot, Running, discard_unverified
<1> QED
  BY <1>4, <1>5, <1>6 DEF Inv, discard_unverified, discard_error_output

\* A payload begins.
LEMMA PayloadBegins ==
  ASSUME Inv, NEW payload, NEW gas \in Nat, BeginPayload(payload, gas),
         gas <= current.max_gas_amount, error' \in VMStatuses,
         \/ phase' \in {"executing", "executed"}
         \/ phase' = "failed" /\ error' # Executed
  PROVE  Inv'
<1>1. /\ AtUserTransaction /\ chunks \in Seq(Chunk)
      /\ txn' = current /\ ctx' = cache /\ gas_left' = gas
      /\ UNCHANGED <<view, cache, block, todo, buf, chunks, result, blocks>>
      /\ verify_transaction(cache, current) = Executed
  BY DEF BeginPayload, Inv, TypeOK
<1>2. current \in UserTransactions
  BY <1>1, NextTransaction DEF AtUserTransaction, UserTransactions
<1>3. TypeOK'
  BY <1>1, <1>2 DEF Inv, TypeOK
<1>4. HasPot'
  BY <1>1 DEF Inv, HasPot
<1>5. current' = current
  BY <1>1 DEF current
<1>6. AtPayload'
  BY <1>1, <1>5 DEF AtPayload, AtUserTransaction
<1>7. verify_transaction(cache, txn)' = Executed
  <2>1. cache' = cache /\ txn' = current
    BY <1>1
  <2>2. verify_transaction(cache', txn') = Executed
    BY <1>1, <2>1
  <2> QED
    BY <2>2
<1>8. SameNumbers(cache, ctx)'
  BY <1>1 DEF SameNumbers, exists
<1>9. Running'
  BY <1>1, <1>6, <1>7, <1>8 DEF Running
<1> QED
  BY <1>3, <1>4, <1>9 DEF Inv

LEMMA BeginInv ==
  ASSUME Inv, execute_script \/ publish_module \/ refuse_payload
  PROVE  Inv'
<1>1. /\ AtUserTransaction /\ verify_transaction(cache, current) = Executed
      /\ chunks \in Seq(Chunk) /\ cache \in Ledger
  BY DEF execute_script, publish_module, refuse_payload, BeginPayload, Inv, TypeOK
<1>2. current \in UserTransactions
  BY <1>1, NextTransaction DEF AtUserTransaction, UserTransactions
<1>3. /\ current.max_gas_amount \in Nat /\ current.intrinsic_gas \in Nat
      /\ ~(current.max_gas_amount < current.intrinsic_gas)
  BY <1>1, <1>2, UserTransactionType, VerifyOutcome DEF Metered
<1>4. CASE execute_script
  <2> DEFINE gas == current.max_gas_amount - current.intrinsic_gas
  <2>1. gas \in Nat /\ gas <= current.max_gas_amount
    BY <1>3
  <2>2. BeginPayload("Script", gas) /\ phase' = "executing" /\ error' = error
    BY <1>4 DEF execute_script
  <2> HIDE DEF gas
  <2>3. error' \in VMStatuses
    BY <2>2 DEF Inv, TypeOK
  <2> QED
    BY <2>1, <2>2, <2>3, PayloadBegins
<1>5. CASE publish_module
  <2>1. BeginPayload("Module", current.max_gas_amount) /\ phase' = "executed"
        /\ error' = error
    BY <1>5 DEF publish_module
  <2>2. error' \in VMStatuses
    BY <2>1 DEF Inv, TypeOK
  <2> QED
    BY <1>3, <2>1, <2>2, PayloadBegins
<1>6. CASE refuse_payload
  <2>1. PICK payload : BeginPayload(payload, current.max_gas_amount)
    BY <1>6 DEF refuse_payload
  <2>2. phase' = "failed" /\ error' \in VMStatuses /\ error' # Executed
    BY <1>6, StatusTypes, VMAssumption DEF refuse_payload
  <2> QED
    BY <1>3, <2>1, <2>2, PayloadBegins
<1> QED
  BY <1>4, <1>5, <1>6

\* While a payload runs, its own ledger, its gas and its error change.
LEMMA PayloadGoesOn ==
  ASSUME Inv, phase = "executing",
         UNCHANGED <<view, cache, block, todo, buf, chunks, result, txn, blocks>>,
         ctx' \in Ledger, gas_left' \in Nat, gas_left' <= gas_left,
         error' \in VMStatuses,
         \/ phase' \in {"executing", "executed"} /\ SameNumbers(ctx, ctx')
         \/ phase' = "failed" /\ error' # Executed
  PROVE  Inv'
<1>1. TypeOK'
  BY DEF Inv, TypeOK
<1>2. HasPot'
  BY DEF Inv, HasPot
<1>3. AtPayload' /\ verify_transaction(cache, txn)' = Executed
  <2>1. AtPayload /\ verify_transaction(cache, txn) = Executed
    BY DEF Inv, Running
  <2>2. AtPayload'
    BY <2>1 DEF AtPayload, current
  <2>3. verify_transaction(cache', txn') = Executed
    BY <2>1
  <2> QED
    BY <2>2, <2>3
<1>4. gas_left' <= txn'.max_gas_amount
  <2>1. txn.max_gas_amount \in Nat
    BY AtHand DEF Metered
  <2> QED
    BY <2>1 DEF Inv, Running, TypeOK
<1>5. phase' # "failed" => SameNumbers(cache, ctx)'
  <2> SUFFICES ASSUME phase' # "failed" PROVE SameNumbers(cache, ctx)'
    OBVIOUS
  <2>1. SameNumbers(cache, ctx)
    BY DEF Inv, Running
  <2>2. SameNumbers(cache, ctx')
    BY <2>1 DEF SameNumbers
  <2>3. SameNumbers(cache', ctx')
    BY <2>2
  <2> QED
    BY <2>3
<1> QED
  BY <1>1, <1>2, <1>3, <1>4, <1>5 DEF Inv, Running

LEMMA SameNumbersRefl == \A l : SameNumbers(l, l)
BY DEF SameNumbers

LEMMA PayloadInv ==
  ASSUME Inv,
         \/ \E c \in Calls, cost \in 1..gas_left : run_call(c, cost)
         \/ out_of_gas \/ raise_vm_exception \/ return
  PROVE  Inv'
<1>1. ctx \in Ledger /\ gas_left \in Nat /\ error \in VMStatuses
  BY DEF Inv, TypeOK
<1>2. ASSUME NEW c \in Calls, NEW cost \in 1..gas_left, run_call(c, cost)
      PROVE  Inv'
  <2> DEFINE r == call(ctx, txn.sender, c)
  <2>1. /\ phase = "executing" /\ Callable(ctx, c) /\ ctx' = r.ledger
        /\ gas_left' = gas_left - cost
        /\ UNCHANGED <<view, cache, block, todo, buf, chunks, result, txn, blocks>>
    BY <1>2 DEF run_call
  <2>2. txn.sender \in Addresses /\ c \in Invocations
    BY <2>1, AtHand, VMAssumption DEF Metered
  <2>3. Typed(r) /\ (r.status = Executed => Outcome(ctx, r.ledger, txn.sender, c))
    BY <1>1, <2>1, <2>2, CallOutcome
  <2>4. IF r.status = Executed
        THEN phase' = phase /\ error' = error
        ELSE phase' = "failed" /\ error' = r.status
    BY <1>2 DEF run_call
  <2> HIDE DEF r
  <2>5. gas_left' \in Nat /\ gas_left' <= gas_left
    BY <1>1, <2>1
  <2>6. CASE r.status = Executed
    BY <1>1, <2>1, <2>3, <2>4, <2>5, <2>6, OutcomeKeepsNumbers, PayloadGoesOn DEF Typed
  <2>7. CASE r.status # Executed
    <3>1. error' \in VMStatuses /\ error' # Executed
      BY <2>3, <2>4, <2>7, StatusTypes DEF Typed
    <3> QED
      BY <2>1, <2>3, <2>4, <2>5, <2>7, <3>1, PayloadGoesOn DEF Typed
  <2> QED
    BY <2>6, <2>7
<1>3. CASE out_of_gas
  BY <1>1, <1>3, SameNumbersRefl, StatusTypes, PayloadGoesOn DEF out_of_gas
<1>4. CASE raise_vm_exception
  <2>1. error' \in VMStatuses /\ error' # Executed
    BY <1>4, StatusTypes, VMAssumption DEF raise_vm_exception
  <2> QED
    BY <1>1, <1>4, <2>1, SameNumbersRefl, PayloadGoesOn DEF raise_vm_exception
<1>5. CASE return
  BY <1>1, <1>5, SameNumbersRefl, PayloadGoesOn DEF return
<1> QED
  BY <1>2, <1>3, <1>4, <1>5

LEMMA CrashInv == Inv /\ crash => Inv'
<1> SUFFICES ASSUME Inv, crash PROVE Inv'
  OBVIOUS
<1>1. TypeOK'
  BY DEF Inv, TypeOK, crash
<1>2. HasPot' /\ Running'
  BY DEF Inv, HasPot, Running, crash
<1> QED
  BY <1>1, <1>2 DEF Inv

----------------------------------------------------------------------------
(* The two ways a payload ends *)

\* The transaction at hand is kept with status: the epilogue has charged for it
\* over ledger l.
KeptOver(l, status) ==
  /\ Len(result') = Len(result) + 1
  /\ LastOutput = Keep(status, fee(txn, gas_left))
  /\ Charged(l, cache', txn, fee(txn, gas_left))

DroppedWith(status) ==
  /\ Len(result') = Len(result) + 1
  /\ LastOutput = discard_error_output(status)
  /\ cache' = cache

LEMMA EpilogueStep ==
  ASSUME Inv, run_epilogue
  PROVE  /\ Inv'
         /\ KeptOver(ctx, Executed) \/ result' = result
<1> DEFINE r == epilogue(ctx, txn, gas_left)
<1>1. /\ phase = "executed" /\ ctx \in Ledger /\ gas_left \in Nat /\ chunks # <<>>
      /\ gas_left <= txn.max_gas_amount /\ Metered(txn) /\ fee(txn, gas_left) \in Nat
  BY AtHand DEF Inv, TypeOK, Running, AtPayload, run_epilogue
<1>2. /\ Typed(r)
      /\ r.status = Executed => Charged(ctx, r.ledger, txn, fee(txn, gas_left))
  BY <1>1, EpilogueOutcome
<1>3. CASE r.status = Executed
  <2>1. /\ cache' = r.ledger /\ error' = error
        /\ Output(Keep(Executed, fee(txn, gas_left)))
    BY <1>3 DEF run_epilogue, gas_used
  <2>2. Keep(Executed, fee(txn, gas_left)) \in Outputs
    BY <1>1, OutputsType, StatusTypes
  <2>3. /\ result' \in Seq(Outputs) /\ chunks' \in Seq(Chunk) /\ phase' = "block"
        /\ Len(result') = Len(result) + 1
        /\ LastOutput = Keep(Executed, fee(txn, gas_left))
    BY <1>1, <2>1, <2>2, OutputType
  <2>4. cache' \in Ledger /\ Charged(ctx, cache', txn, fee(txn, gas_left))
    BY <1>2, <1>3, <2>1 DEF Typed
  <2>5. exists(cache', FeeAddress)
    BY <2>4, AccountAssumption DEF Charged
  <2> HIDE DEF r
  <2>6. TypeOK'
    BY <2>1, <2>3, <2>4 DEF Inv, TypeOK, run_epilogue
  <2>7. HasPot' /\ Running'
    BY <2>3, <2>5 DEF Inv, HasPot, Running, run_epilogue, exists
  <2> QED
    BY <2>3, <2>4, <2>6, <2>7 DEF Inv, KeptOver
<1>4. CASE r.status # Executed
  <2>1. error' = r.status /\ phase' = "failed" /\ UNCHANGED <<cache, chunks, result>>
    BY <1>4 DEF run_epilogue
  <2>2. error' \in VMStatuses /\ error' # Executed
    BY <1>2, <1>4, <2>1, StatusTypes DEF Typed
  <2> HIDE DEF r
  <2>3. UNCHANGED <<view, ctx, block, todo, buf, txn, gas_left, blocks>>
    BY DEF run_epilogue
  <2>4. TypeOK'
    BY <2>1, <2>2, <2>3 DEF Inv, TypeOK
  <2>5. HasPot'
    BY <2>1, <2>3 DEF Inv, HasPot
  <2>6. AtPayload /\ verify_transaction(cache, txn) = Executed
    BY <1>1 DEF Inv, Running
  <2>7. AtPayload'
    BY <2>1, <2>3, <2>6 DEF AtPayload, current
  <2>8. verify_transaction(cache', txn') = Executed
    BY <2>1, <2>3, <2>6
  <2>9. Running'
    BY <1>1, <2>1, <2>2, <2>3, <2>7, <2>8 DEF Running
  <2> QED
    BY <2>1, <2>4, <2>5, <2>9 DEF Inv
<1> QED
  BY <1>3, <1>4

LEMMA CleanupStep ==
  ASSUME Inv, failed_transaction_cleanup
  PROVE  /\ Inv'
         /\ \/ error # Executed /\ KeptOver(cache, error)
            \/ \E status : DroppedWith(status)
<1> DEFINE r == epilogue(cache, txn, gas_left)
<1>1. /\ phase = "failed" /\ cache \in Ledger /\ gas_left \in Nat /\ chunks # <<>>
      /\ error \in VMStatuses /\ error # Executed
      /\ gas_left <= txn.max_gas_amount /\ Metered(txn) /\ fee(txn, gas_left) \in Nat
  BY AtHand DEF Inv, TypeOK, Running, AtPayload, failed_transaction_cleanup
<1>2. /\ Typed(r)
      /\ r.status = Executed => Charged(cache, r.ledger, txn, fee(txn, gas_left))
  BY <1>1, EpilogueOutcome
<1> HIDE DEF r
<1>3. ASSUME NEW output \in Outputs, Output(output), cache' \in Ledger,
             exists(cache', FeeAddress)
      PROVE  Inv' /\ Len(result') = Len(result) + 1 /\ LastOutput = output
  <2>1. /\ result' \in Seq(Outputs) /\ chunks' \in Seq(Chunk) /\ phase' = "block"
        /\ Len(result') = Len(result) + 1 /\ LastOutput = output
    BY <1>1, <1>3, OutputType
  <2>2. TypeOK'
    BY <1>3, <2>1 DEF Inv, TypeOK, failed_transaction_cleanup
  <2>3. HasPot' /\ Running'
    BY <1>3, <2>1 DEF Inv, HasPot, Running, failed_transaction_cleanup, exists
  <2> QED
    BY <2>1, <2>2, <2>3 DEF Inv
<1>4. ASSUME NEW status \in VMStatuses, cache' = cache,
             Output(discard_error_output(status))
      PROVE  Inv' /\ DroppedWith(status)
  BY <1>1, <1>3, <1>4, OutputsType DEF DroppedWith, Inv, HasPot, exists
<1>5. CASE error \in Discarded
  BY <1>1, <1>4, <1>5 DEF failed_transaction_cleanup
<1>6. CASE error \notin Discarded /\ r.status = Executed
  <2>1. cache' = r.ledger /\ Output(Keep(error, fee(txn, gas_left)))
    BY <1>6 DEF failed_transaction_cleanup, gas_used, r
  <2>2. cache' \in Ledger /\ Charged(cache, cache', txn, fee(txn, gas_left))
    BY <1>2, <1>6, <2>1 DEF Typed
  <2>3. exists(cache', FeeAddress)
    BY <2>2, AccountAssumption DEF Charged
  <2>4. Keep(error, fee(txn, gas_left)) \in Outputs
    BY <1>1, OutputsType
  <2> QED
    BY <1>1, <1>3, <2>1, <2>2, <2>3, <2>4 DEF KeptOver
<1>7. CASE error \notin Discarded /\ r.status # Executed
  <2>1. cache' = cache /\ Output(discard_error_output(r.status))
    BY <1>7 DEF failed_transaction_cleanup, r
  <2>2. r.status \in VMStatuses
    BY <1>2, StatusTypes DEF Typed
  <2> QED
    BY <1>4, <2>1, <2>2
<1> QED
  BY <1>5, <1>6, <1>7

LEMMA InvInductive == Inv /\ [Next]_vars => Inv'
<1> SUFFICES ASSUME Inv, [Next]_vars PROVE Inv'
  OBVIOUS
<1>1. CASE Next
  BY <1>1, ChunkTransactionInv, ChunkRestInv, BlockInv, BlockPrologueInv,
     DiscardUnverifiedOutput, BeginInv, PayloadInv, CrashInv, EpilogueStep,
     CleanupStep, Zenon
     DEF Next, Step
<1>2. CASE UNCHANGED vars
  <2>1. TypeOK' /\ HasPot'
    BY <1>2 DEF Inv, TypeOK, HasPot, vars
  <2>2. AtPayload' <=> AtPayload
    BY <1>2 DEF AtPayload, current, vars
  <2>3. SameNumbers(cache, ctx)' <=> SameNumbers(cache, ctx)
    BY <1>2 DEF vars
  <2>4. verify_transaction(cache, txn)' = verify_transaction(cache, txn)
    BY <1>2 DEF vars
  <2>5. Running'
    BY <1>2, <2>2, <2>3, <2>4 DEF Inv, Running, vars
  <2> QED
    BY <2>1, <2>5 DEF Inv
<1> QED
  BY <1>1, <1>2

LEMMA Invariant == Spec => []Inv
BY InitInv, InvInductive, PTL DEF Spec

----------------------------------------------------------------------------
(* Outputs *)

\* The block prologue has run.
Began ==
  /\ Len(result') = Len(result) + 1 /\ LastOutput = Keep(Executed, 0)
  /\ Pays(cache, cache', {FeeAddress}) /\ Apart(cache') = Apart(cache)
  /\ current.type = "BlockMetadata"

\* Every step that adds an output is one of four.
LEMMA OutputStep ==
  ASSUME Inv, [Next]_vars, Len(result') > Len(result)
  PROVE  \/ Began
         \/ \E status : DroppedWith(status)
         \/ KeptOver(ctx, Executed) /\ phase = "executed"
         \/ KeptOver(cache, error) /\ phase = "failed" /\ error # Executed
<1>1. result \in Seq(Outputs) /\ Len(result) \in Nat /\ result' # result
  BY LenProperties DEF Inv, TypeOK
<1>2. result' # <<>>
  BY <1>1, EmptySeq
<1>3. CASE vm_process_block_prologue
  <2> DEFINE r == block_prologue(cache, Validators, current)
  <2>1. chunks \in Seq(Chunk) /\ chunks # <<>> /\ cache \in Ledger
        /\ Head(chunks).type = "BlockMetadata"
    BY <1>3 DEF Inv, TypeOK, vm_process_block_prologue
  <2>2. current.type = "BlockMetadata" /\ current.timestamp \in U64
    BY <2>1, NextTransaction, VMAssumption
  <2>3. /\ Pays(cache, r.ledger, {FeeAddress})
        /\ r.status = Executed => Apart(r.ledger) = Apart(cache)
    BY <2>1, <2>2, BlockPrologueOutcome, VMAssumption
  <2>4. cache' = r.ledger /\ Output(Keep(Executed, 0)) /\ r.status = Executed
    BY <1>1, <1>3 DEF vm_process_block_prologue
  <2> HIDE DEF r
  <2>5. Len(result') = Len(result) + 1 /\ LastOutput = Keep(Executed, 0)
    BY <2>1, <2>4, OutputType, OutputsType, StatusTypes
  <2> QED
    BY <2>2, <2>3, <2>4, <2>5 DEF Began
<1>4. CASE discard_unverified
  <2> DEFINE status == verify_transaction(cache, current)
  <2>1. Output(discard_error_output(status)) /\ cache \in Ledger /\ chunks # <<>>
    BY <1>4 DEF discard_unverified, AtUserTransaction, Inv, TypeOK
  <2>2. discard_error_output(status) \in Outputs
    BY <2>1, VerifyOutcome, OutputsType
  <2>3. LastOutput = discard_error_output(status)
    BY <2>1, <2>2, OutputType
  <2> QED
    BY <1>4, <2>3, DiscardUnverifiedOutput DEF DroppedWith
<1>5. CASE run_epilogue
  BY <1>1, <1>5, EpilogueStep DEF run_epilogue
<1>6. CASE failed_transaction_cleanup
  BY <1>6, CleanupStep DEF failed_transaction_cleanup
<1>7. CASE UNCHANGED vars
  BY <1>1, <1>7 DEF vars
<1> QED
  BY <1>1, <1>2, <1>3, <1>4, <1>5, <1>6, <1>7, Zenon
     DEF Next, Step, execute_block, chunk_transaction, chunk_rest, refuse_write_set,
         execute_script, publish_module, refuse_payload, BeginPayload, run_call,
         out_of_gas, raise_vm_exception, crash, return, end_block, lose_block, Returned

----------------------------------------------------------------------------
(* Coins *)

LEMMA OutputLengthens ==
  ASSUME Inv, NEW output, Output(output)
  PROVE  Len(result') > Len(result) /\ phase' = "block"
<1>1. result \in Seq(Outputs) /\ Len(result) \in Nat
  BY LenProperties DEF Inv, TypeOK
<1>2. Len(Append(result, output)) = Len(result) + 1
  BY <1>1
<1> QED
  BY <1>1, <1>2 DEF Output

LEMMA OutputKeepsCoins ==
  ASSUME Inv, Inv', CoinsAreKept, [Next]_vars, Len(result') > Len(result)
  PROVE  Covered(cache')
<1>1. cache \in Ledger /\ ctx \in Ledger /\ cache' \in Ledger
  BY DEF Inv, TypeOK
<1>2. Covered(cache) /\ (phase = "executed" => Covered(ctx))
  BY DEF CoinsAreKept
<1>3. ASSUME NEW l \in Ledger, Covered(l), Apart(cache') = Apart(l)
      PROVE  Covered(cache')
  BY <1>1, <1>3, CoveredIsApart
<1>4. ASSUME NEW l \in Ledger, NEW status, KeptOver(l, status)
      PROVE  Apart(cache') = Apart(l)
  BY <1>4 DEF KeptOver, Charged
<1>5. Began => Apart(cache') = Apart(cache)
  BY DEF Began
<1>6. \A status : DroppedWith(status) => cache' = cache
  BY DEF DroppedWith
<1> QED
  BY <1>1, <1>2, <1>3, <1>4, <1>5, <1>6, OutputStep

LEMMA PayloadKeepsCoins ==
  ASSUME Inv, CoinsAreKept, NEW c \in Calls, NEW cost \in 1..gas_left, run_call(c, cost)
  PROVE  CoinsAreKept'
<1> DEFINE r == call(ctx, txn.sender, c)
<1>1. /\ phase = "executing" /\ Callable(ctx, c) /\ ctx' = r.ledger
      /\ view' = view /\ cache' = cache
      /\ r.status = Executed \/ phase' = "failed"
  BY DEF run_call
<1>2. txn.sender \in Addresses /\ c \in Invocations /\ ctx \in Ledger
  BY <1>1, AtHand, VMAssumption DEF Metered, Inv, TypeOK
<1>3. r.status = Executed => r.ledger \in Ledger /\ Apart(r.ledger) = Apart(ctx)
  <2>1. Typed(r)
    BY <1>1, <1>2, CallOutcome
  <2>2. r.status = Executed => Apart(r.ledger) = Apart(ctx)
    BY <1>1, <1>2, CallCoins
  <2> HIDE DEF r
  <2> QED
    BY <2>1, <2>2 DEF Typed
<1> HIDE DEF r
<1>4. r.status = Executed => Covered(ctx')
  BY <1>1, <1>2, <1>3, CoveredIsApart DEF CoinsAreKept
<1>5. Covered(view') /\ Covered(cache')
  BY <1>1 DEF CoinsAreKept
<1>6. phase' \in {"executing", "executed"} => Covered(ctx')
  BY <1>1, <1>4
<1> QED
  BY <1>5, <1>6 DEF CoinsAreKept

LEMMA CoinsInductive == Inv /\ CoinsAreKept /\ [Next]_vars => CoinsAreKept'
<1> SUFFICES ASSUME Inv, CoinsAreKept, [Next]_vars PROVE CoinsAreKept'
  OBVIOUS
<1>1. Inv'
  BY InvInductive
<1>2. ASSUME view' = view, phase' \notin {"executing", "executed"},
             cache' = cache \/ Len(result') > Len(result)
      PROVE  CoinsAreKept'
  <2>1. Covered(cache')
    BY <1>1, <1>2, OutputKeepsCoins DEF CoinsAreKept
  <2>2. Covered(view')
    BY <1>2 DEF CoinsAreKept
  <2> QED
    BY <1>2, <2>1, <2>2 DEF CoinsAreKept
<1>3. ASSUME UNCHANGED <<view, cache, ctx>>,
             phase' \in {"executing", "executed"} => phase \in {"executing", "executed"}
      PROVE  CoinsAreKept'
  <2>1. Covered(view') /\ Covered(cache')
    BY <1>3 DEF CoinsAreKept
  <2>2. phase \in {"executing", "executed"} => Covered(ctx')
    BY <1>3 DEF CoinsAreKept
  <2> QED
    BY <1>3, <2>1, <2>2 DEF CoinsAreKept
<1>4. CASE vm_process_block_prologue
  BY <1>2, <1>4, OutputLengthens DEF vm_process_block_prologue
<1>5. CASE discard_unverified
  BY <1>2, <1>5, OutputLengthens DEF discard_unverified
<1>6. CASE run_epilogue
  BY <1>2, <1>6, OutputLengthens DEF run_epilogue
<1>7. CASE failed_transaction_cleanup
  BY <1>2, <1>7, OutputLengthens DEF failed_transaction_cleanup
<1>8. CASE execute_script \/ publish_module \/ refuse_payload
  <2>1. view' = view /\ cache' = cache /\ ctx' = cache
    BY <1>8 DEF execute_script, publish_module, refuse_payload, BeginPayload
  <2>2. Covered(view') /\ Covered(cache') /\ Covered(ctx')
    BY <2>1 DEF CoinsAreKept
  <2> QED
    BY <2>2 DEF CoinsAreKept
<1>9. CASE \E c \in Calls, cost \in 1..gas_left : run_call(c, cost)
  BY <1>9, PayloadKeepsCoins
<1>10. CASE out_of_gas \/ raise_vm_exception \/ crash \/ return
  BY <1>3, <1>10 DEF out_of_gas, raise_vm_exception, crash, return
<1>11. CASE chunk_transaction \/ chunk_rest \/ refuse_write_set
  BY <1>3, <1>11 DEF chunk_transaction, chunk_rest, refuse_write_set
<1>12. CASE (\E txns \in Blocks : execute_block(txns)) \/ end_block \/ lose_block
  <2>1. view' \in {view, cache} /\ cache' \in {view, cache}
        /\ phase' \notin {"executing", "executed"}
    BY <1>12 DEF execute_block, end_block, lose_block, Returned
  <2>2. Covered(view') /\ Covered(cache')
    BY <2>1 DEF CoinsAreKept
  <2> QED
    BY <2>1, <2>2 DEF CoinsAreKept
<1>13. CASE UNCHANGED vars
  BY <1>3, <1>13 DEF vars
<1> QED
  BY <1>4, <1>5, <1>6, <1>7, <1>8, <1>9, <1>10, <1>11, <1>12, <1>13, Zenon
     DEF Next, Step

----------------------------------------------------------------------------
(* The transactions of chunks *)

\* The steps of Flattened over the first n chunks.
Joins(cs, n) == [i \in 1..n |-> [x \in Seq(Transactions) |-> x \o cs[i].value]]

\* f[i] joins the transactions of the first i chunks.
Upto(f, cs, n) ==
  /\ f[0] = <<>>
  /\ \A i \in 1..n : f[i] = f[i - 1] \o cs[i].value
  /\ \A i \in 0..n : f[i] \in Seq(Transactions)

LEMMA JoinsType ==
  ASSUME NEW cs \in Seq(Chunk), NEW n \in Nat, n <= Len(cs)
  PROVE  /\ Joins(cs, n) \in [1..n -> [Seq(Transactions) -> Seq(Transactions)]]
         /\ \A i \in 1..n : \A x \in Seq(Transactions) :
              Joins(cs, n)[i][x] = x \o cs[i].value
<1>1. \A i \in 1..n : cs[i].value \in Seq(Transactions)
  BY DEF Chunk
<1> DEFINE Joined(i, x) == x \o cs[i].value
           R == Seq(Transactions)
<1>2. \A i \in 1..n : \A x \in R : Joined(i, x) \in R
  BY <1>1, ConcatProperties
<1>3. Joins(cs, n) = [i \in 1..n |-> [x \in R |-> Joined(i, x)]]
  BY Zenon DEF Joins
<1>4. /\ Joins(cs, n) \in [1..n -> [R -> R]]
      /\ \A i \in 1..n : \A x \in R : Joins(cs, n)[i][x] = Joined(i, x)
  <2> HIDE DEF Joined, R
  <2> QED
    BY <1>2, <1>3
<1> QED
  BY <1>4

LEMMA FlattenedUpto ==
  ASSUME NEW cs \in Seq(Chunk)
  PROVE  \E f : Upto(f, cs, Len(cs)) /\ Flattened(cs) = f[Len(cs)]
<1> DEFINE n == Len(cs)
           R == Seq(Transactions)
           base == <<>>
           step == Joins(cs, n)
           IsUpto(f) == f = [i \in 0..n |-> IF i = 0 THEN base ELSE f[i - 1] \o cs[i].value]
           upto == CHOOSE f : IsUpto(f)
<1>1. n \in Nat /\ base \in R /\ n <= Len(cs)
  OBVIOUS
<1>2. /\ step \in [1..n -> [R -> R]]
      /\ \A i \in 1..n : \A x \in R : step[i][x] = x \o cs[i].value
  BY <1>1, JoinsType
<1>3. Flattened(cs) = upto[n]
  BY Zenon DEF Flattened, n, base
<1> HIDE DEF n, R, base, step
<1>4. PICK f \in [0..n -> R] : Recurs(f, n, base, step)
  BY <1>1, <1>2, RecursionExists
<1>5. IsUpto(f)
  <2>1. \A i \in 0..n : i # 0 => i \in 1..n /\ i - 1 \in 0..n
    BY <1>1
  <2>2. \A i \in 0..n : i # 0 => step[i][f[i - 1]] = f[i - 1] \o cs[i].value
    BY <1>2, <1>4, <2>1, Zenon
  <2>3. \A i \in 0..n : (IF i = 0 THEN base ELSE step[i][f[i - 1]])
                         = (IF i = 0 THEN base ELSE f[i - 1] \o cs[i].value)
    BY <2>2, Zenon
  <2> QED
    BY <1>4, <2>3, Zenon DEF Recurs
<1>6. IsUpto(upto)
  <2> HIDE DEF IsUpto
  <2> QED
    BY <1>5
<1> HIDE DEF upto
<1>7. /\ upto[0] = base
      /\ \A i \in 1..n : upto[i] = upto[i - 1] \o cs[i].value
  <2>1. \A i \in 1..n : i \in 0..n /\ i # 0
    BY <1>1
  <2>2. 0 \in 0..n
    BY <1>1
  <2> QED
    BY <1>6, <2>1, <2>2, Zenon
<1>8. \A i \in 0..n : upto[i] \in R
  <2> DEFINE C == {i \in Nat : i <= n => upto[i] \in R}
  <2>1. 0 \in C
    BY <1>1, <1>7
  <2>2. ASSUME NEW i \in Nat, i \in C PROVE i + 1 \in C
    <3> DEFINE j == i + 1
    <3> SUFFICES ASSUME j <= n PROVE upto[j] \in R
      OBVIOUS
    <3>1. j \in 1..n /\ upto[j - 1] \in R
      BY <1>1, <2>2
    <3> HIDE DEF j
    <3>2. upto[j] = step[j][upto[j - 1]]
      BY <1>2, <1>7, <3>1, Zenon
    <3> QED
      BY <1>2, <3>1, <3>2
  <2>3. Nat \subseteq C
    <3> HIDE DEF C
    <3> QED
      BY <2>1, <2>2, NatSetInduction
  <2> QED
    BY <1>1, <2>3
<1>9. Upto(upto, cs, n) /\ Flattened(cs) = upto[n]
  BY <1>3, <1>7, <1>8, Zenon DEF Upto, base, R
<1> QED
  BY <1>9, Zenon DEF n

LEMMA FlattenedType ==
  ASSUME NEW cs \in Seq(Chunk)
  PROVE  Flattened(cs) \in Seq(Transactions) /\ Flattened(<<>>) = <<>>
<1>1. Len(cs) \in Nat /\ Len(cs) \in 0..Len(cs)
  OBVIOUS
<1>2. <<>> \in Seq(Chunk) /\ Len(<<>>) = 0
  OBVIOUS
<1>3. Flattened(<<>>) = <<>>
  BY <1>2, FlattenedUpto, Zenon DEF Upto
<1> QED
  BY <1>1, <1>3, FlattenedUpto, Zenon DEF Upto

LEMMA FlattenedAppend ==
  ASSUME NEW cs \in Seq(Chunk), NEW c \in Chunk
  PROVE  Flattened(Append(cs, c)) = Flattened(cs) \o c.value
<1> DEFINE n == Len(cs)
           all == Append(cs, c)
           R == Seq(Transactions)
           h == [x \in R |-> x]
           d == 0
<1>1. n \in Nat /\ all \in Seq(Chunk) /\ Len(all) = n + 1
      /\ all[n + 1] = c /\ \A i \in 1..n : all[i] = cs[i]
  BY AppendProperties
<1>2. PICK f : Upto(f, cs, n) /\ Flattened(cs) = f[n]
  BY FlattenedUpto, Zenon
<1>3. PICK g : Upto(g, all, n + 1) /\ Flattened(all) = g[n + 1]
  BY <1>1, FlattenedUpto, Zenon
<1> HIDE DEF n, all, R
<1>4. \A i \in 0..n : f[i] \in R
  BY <1>2, Zenon DEF Upto, R
<1>5. \A x \in R : h[x] = x
  OBVIOUS
<1>6. h \in [R -> R]
  OBVIOUS
<1> HIDE DEF h, d
<1>7. g[0] = f[0] /\ 0 \in 0..n
  BY <1>1, <1>2, <1>3 DEF Upto
<1>8. ASSUME NEW i \in 1..n, g[(i + d) - 1] = h[f[i - 1]] PROVE g[i + d] = h[f[i]]
  <2>1. i \in 1..n + 1 /\ (i + d) - 1 = i - 1 /\ i + d = i
        /\ i - 1 \in 0..n /\ i \in 0..n
    BY <1>1 DEF d
  <2>2. g[i] = g[i - 1] \o all[i].value /\ f[i] = f[i - 1] \o cs[i].value
    BY <1>2, <1>3, <2>1, Zenon DEF Upto
  <2>3. g[i - 1] = f[i - 1]
    BY <1>4, <1>5, <1>8, <2>1, Zenon
  <2>4. g[i] = f[i]
    BY <1>1, <2>2, <2>3, Zenon
  <2> QED
    BY <1>4, <1>5, <2>1, <2>4, Zenon
<1>9. \A i \in 0..n : g[i + d] = h[f[i]]
  <2>1. g[d] = h[f[0]]
    BY <1>4, <1>5, <1>7, Zenon DEF d
  <2>2. d \in Nat
    BY DEF d
  <2>3. Follows(g, d, f, h, n)
    BY <1>8, <2>1, Zenon DEF Follows
  <2> QED
    BY <1>1, <2>2, <2>3, RecursionFollows
<1>10. g[n] = f[n]
  <2>1. n \in 0..n /\ n + d = n
    BY <1>1 DEF d
  <2> QED
    BY <1>4, <1>5, <1>9, <2>1, Zenon
<1>11. g[n + 1] = g[n] \o all[n + 1].value
  <2>1. n + 1 \in 1..n + 1 /\ (n + 1) - 1 = n
    BY <1>1
  <2> QED
    BY <1>3, <2>1, Zenon DEF Upto
<1> QED
  BY <1>1, <1>2, <1>3, <1>10, <1>11, Zenon DEF all

LEMMA FlattenedHead ==
  ASSUME NEW cs \in Seq(Chunk), cs # <<>>
  PROVE  Flattened(cs) = Head(cs).value \o Flattened(Tail(cs))
<1> DEFINE m == Len(Tail(cs))
           tail == Tail(cs)
           v == Head(cs).value
           R == Seq(Transactions)
           h == [x \in R |-> v \o x]
           d == 1
<1>1. /\ m \in Nat /\ Len(cs) = m + 1 /\ tail \in Seq(Chunk) /\ Len(tail) = m
      /\ cs[1].value = v /\ v \in R
      /\ \A i \in 1..m : tail[i] = cs[i + 1] /\ tail[i].value \in R
  <2>1. tail \in Seq(Chunk) /\ Len(tail) = Len(cs) - 1 /\ Head(cs) \in Chunk
        /\ Head(cs) = cs[1] /\ \A i \in 1..m : tail[i] = cs[i + 1]
    BY HeadTailProperties
  <2>2. \A i \in 1..m : tail[i] \in Chunk
    BY <2>1, ElementOfSeq
  <2>3. Len(cs) \in Nat /\ m \in Nat
    BY <2>1
  <2> HIDE DEF tail
  <2> QED
    BY <2>1, <2>2, <2>3 DEF Chunk, tail
<1>2. PICK f : Upto(f, cs, m + 1) /\ Flattened(cs) = f[m + 1]
  BY <1>1, FlattenedUpto, Zenon
<1>3. PICK g : Upto(g, tail, m) /\ Flattened(tail) = g[m]
  BY <1>1, FlattenedUpto, Zenon
<1> HIDE DEF m, tail, v, R
<1>4. \A i \in 0..m : g[i] \in R
  BY <1>3, Zenon DEF Upto, R
<1>5. \A x \in R : h[x] = v \o x
  BY Zenon
<1> HIDE DEF h, d
<1>6. f[d] = h[g[0]]
  <2>1. 1 \in 1..m + 1 /\ d - 1 = 0 /\ d \in 1..m + 1 /\ cs[d].value = v
    BY <1>1 DEF d
  <2>2. f[d] = f[0] \o v
    BY <1>2, <2>1, Zenon DEF Upto
  <2>3. f[0] = <<>> /\ g[0] = <<>>
    BY <1>2, <1>3, Zenon DEF Upto
  <2>4. <<>> \o v = v /\ v \o <<>> = v /\ <<>> \in R
    BY <1>1, ConcatEmptySeq DEF R
  <2> QED
    BY <1>5, <2>2, <2>3, <2>4, Zenon
<1>7. ASSUME NEW i \in 1..m, f[(i + d) - 1] = h[g[i - 1]] PROVE f[i + d] = h[g[i]]
  <2> DEFINE j == i + d
  <2>1. i - 1 \in 0..m /\ i \in 0..m /\ j \in 1..m + 1 /\ cs[j] = tail[i]
    BY <1>1 DEF d
  <2> HIDE DEF j
  <2>2. f[j] = f[j - 1] \o tail[i].value /\ g[i] = g[i - 1] \o tail[i].value
    BY <1>2, <1>3, <2>1, Zenon DEF Upto
  <2> DEFINE x == g[i - 1]
             y == tail[i].value
  <2>3. x \in R /\ g[i] \in R
    BY <1>4, <2>1, Zenon
  <2>4. y \in R
    BY <1>1, Zenon
  <2>5. f[j - 1] = v \o x
    BY <1>5, <1>7, <2>3, Zenon DEF j
  <2>6. f[j] = f[j - 1] \o y /\ g[i] = x \o y
    BY <2>2
  <2> HIDE DEF x, y
  <2>7. (v \o x) \o y = v \o (x \o y)
    <3>1. v \in Seq(Transactions) /\ x \in Seq(Transactions) /\ y \in Seq(Transactions)
      BY <1>1, <2>3, <2>4, Zenon DEF R
    <3> QED
      BY <3>1, ConcatAssociative
  <2>8. h[g[i]] = v \o g[i]
    BY <1>5, <2>3, Zenon
  <2>9. f[j] = h[g[i]]
    BY <2>5, <2>6, <2>7, <2>8, Zenon
  <2> QED
    BY <2>9 DEF j
<1>8. f[m + d] = h[g[m]]
  <2>1. d \in Nat /\ m \in 0..m
    BY <1>1 DEF d
  <2>2. Follows(f, d, g, h, m)
    BY <1>6, <1>7, Zenon DEF Follows
  <2> QED
    BY <1>1, <2>1, <2>2, RecursionFollows
<1>9. m \in 0..m
  BY <1>1
<1> QED
  BY <1>2, <1>3, <1>4, <1>5, <1>8, <1>9, Zenon DEF d, tail, v

\* The transactions that wait in the buffer become a chunk, if there are any.
LEMMA FlattenedUser ==
  ASSUME NEW cs \in Seq(Chunk), NEW txns \in Seq(UserTransactions)
  PROVE  Flattened(cs \o UserChunk(txns)) = Flattened(cs) \o txns
<1>1. Flattened(cs) \in Seq(Transactions)
  BY FlattenedType
<1>2. CASE txns = <<>>
  <2>1. UserChunk(txns) = <<>> /\ cs \o <<>> = cs
    BY <1>2, ConcatEmptySeq DEF UserChunk
  <2>2. Flattened(cs) \o <<>> = Flattened(cs)
    BY <1>1, ConcatEmptySeq
  <2> QED
    BY <1>2, <2>1, <2>2, Zenon
<1>3. CASE txns # <<>>
  <2> DEFINE c == [type |-> "UserTransaction", value |-> txns]
  <2>1. UserChunk(txns) = <<c>> /\ c.value = txns
    BY <1>3 DEF UserChunk
  <2> HIDE DEF c
  <2>2. <<c>> \in Seq(Chunk)
    BY <2>1, UserChunkType
  <2>3. c \in Chunk
    <3>1. <<c>>[1] \in Chunk
      BY <2>2, ElementOfSeq
    <3> QED
      BY <3>1
  <2>4. cs \o <<c>> = Append(cs, c)
    BY <2>3, AppendIsConcat
  <2> QED
    BY <2>1, <2>3, <2>4, FlattenedAppend
<1> QED
  BY <1>2, <1>3

\* The next transaction, and those of the chunks after it.
LEMMA FlattenedCurrent ==
  ASSUME chunks \in Seq(Chunk), chunks # <<>>
  PROVE  /\ current \in Transactions /\ advanced \in Seq(Chunk)
         /\ Flattened(chunks) = <<current>> \o Flattened(advanced)
<1> DEFINE c == Head(chunks)
           v == c.value
           rest == Flattened(Tail(chunks))
<1>1. c \in Chunk /\ Tail(chunks) \in Seq(Chunk)
  BY HeadTailProperties
<1>2. v \in Seq(Transactions) /\ v # <<>>
  BY <1>1 DEF Chunk
<1>3. Flattened(chunks) = v \o rest /\ rest \in Seq(Transactions)
  BY <1>1, FlattenedHead, FlattenedType
<1> HIDE DEF v, rest
<1>4. /\ Tail(v) \in Seq(Transactions) /\ Len(Tail(v)) = Len(v) - 1
      /\ Head(v) \in Transactions /\ v = <<Head(v)>> \o Tail(v)
  <2>1. Len(v) \in Nat \ {0} /\ Head(v) = v[1]
    BY <1>2, EmptySeq
  <2>2. SubSeq(v, 1, Len(v)) = v /\ SubSeq(v, 2, Len(v)) = Tail(v)
    BY <1>2, SubSeqFull, TailIsSubSeq
  <2>3. 1 \in 1..Len(v) /\ Len(v) \in 1..Len(v) /\ 1 + 1 = 2
    BY <2>1
  <2>4. SubSeq(v, 1, Len(v)) = <<v[1]>> \o SubSeq(v, 1 + 1, Len(v))
    BY <1>2, <2>3, SubSeqRecursiveFirst
  <2>5. v = <<Head(v)>> \o Tail(v)
    BY <2>1, <2>2, <2>3, <2>4, Zenon
  <2> QED
    BY <1>2, <2>5, HeadTailProperties
<1>5. Head(v) = current /\ <<current>> \in Seq(Transactions)
  BY <1>4 DEF current, v
<1>6. Flattened(advanced) = Tail(v) \o rest /\ advanced \in Seq(Chunk)
  <2>1. CASE Len(v) = 1
    <3>1. Tail(v) = <<>>
      BY <1>4, <2>1, EmptySeq
    <3>2. advanced = Tail(chunks)
      BY <2>1 DEF advanced, v
    <3>3. <<>> \o rest = rest
      BY <1>3, ConcatEmptySeq
    <3> QED
      BY <1>1, <3>1, <3>2, <3>3, Zenon DEF rest
  <2>2. CASE Len(v) # 1
    <3> DEFINE next == [c EXCEPT !.value = Tail(@)]
    <3>1. advanced = <<next>> \o Tail(chunks) /\ next.value = Tail(v)
      BY <1>1, <2>2 DEF advanced, v, Chunk
    <3>2. advanced \in Seq(Chunk)
      BY NextTransaction
    <3> HIDE DEF next
    <3>3. advanced # <<>> /\ Head(advanced) = next /\ Tail(advanced) = Tail(chunks)
      <4>1. Tail(chunks) \in Seq(Chunk \cup {next}) /\ <<next>> \in Seq(Chunk \cup {next})
        BY <1>1
      <4> QED
        BY <3>1, <4>1
    <3> QED
      BY <3>1, <3>2, <3>3, FlattenedHead DEF rest
  <2> QED
    BY <2>1, <2>2
<1>7. (<<current>> \o Tail(v)) \o rest = <<current>> \o (Tail(v) \o rest)
  BY <1>3, <1>4, <1>5, ConcatAssociative
<1> QED
  BY <1>3, <1>4, <1>5, <1>6, <1>7, Zenon

----------------------------------------------------------------------------
(* Outputs and transactions *)

\* The transactions of a block without an output.
Remaining(cs, b, t) == Flattened(cs) \o (b \o t)

\* What has an output, done, and what has none make up the block.
Aligned ==
  /\ phase # "chunking" => buf = <<>>
  /\ phase # "idle" =>
       \E done \in Seq(Transactions) :
         /\ Len(done) = Len(result)
         /\ block = done \o Remaining(chunks, buf, todo)

LEMMA RemainingType ==
  ASSUME NEW cs \in Seq(Chunk), NEW b \in Seq(UserTransactions),
         NEW t \in Seq(Transactions)
  PROVE  /\ b \in Seq(Transactions)
         /\ Flattened(cs) \in Seq(Transactions)
         /\ Remaining(cs, b, t) \in Seq(Transactions)
<1>1. b \in Seq(Transactions)
  <2>1. UserTransactions \subseteq Transactions
    BY UserTransactionType
  <2> QED
    BY <2>1, SeqMonotonic
<1>2. Flattened(cs) \in Seq(Transactions)
  BY FlattenedType
<1>3. b \o t \in Seq(Transactions)
  BY <1>1, ConcatProperties
<1>4. Flattened(cs) \o (b \o t) \in Seq(Transactions)
  BY <1>2, <1>3, ConcatProperties
<1> QED
  BY <1>1, <1>2, <1>4 DEF Remaining

\* Cutting moves the next transaction from todo to the buffer or, after those of
\* the buffer, to the chunks.
LEMMA ChunkingKeepsRemaining ==
  ASSUME Inv, chunk_transaction
  PROVE  Remaining(chunks', buf', todo') = Remaining(chunks, buf, todo)
<1> DEFINE t == Head(todo)
           rest == Tail(todo)
           F == Flattened(chunks)
           T == Seq(Transactions)
<1>1. /\ chunks \in Seq(Chunk) /\ buf \in Seq(UserTransactions) /\ todo \in T
      /\ todo # <<>> /\ todo' = rest
  BY DEF Inv, TypeOK, chunk_transaction
<1>2. buf \in T /\ F \in T
  BY <1>1, RemainingType
<1>3. /\ rest \in T /\ t \in Transactions /\ <<t>> \in T
      /\ todo = <<t>> \o rest
  <2>1. Len(todo) \in Nat \ {0} /\ t = todo[1]
    BY <1>1, EmptySeq
  <2>2. SubSeq(todo, 1, Len(todo)) = todo /\ SubSeq(todo, 2, Len(todo)) = rest
    BY <1>1, SubSeqFull, TailIsSubSeq
  <2>3. 1 \in 1..Len(todo) /\ Len(todo) \in 1..Len(todo) /\ 1 + 1 = 2
    BY <2>1
  <2>4. SubSeq(todo, 1, Len(todo)) = <<todo[1]>> \o SubSeq(todo, 1 + 1, Len(todo))
    BY <1>1, <2>3, SubSeqRecursiveFirst
  <2>5. todo = <<t>> \o rest
    BY <2>1, <2>2, <2>3, <2>4, Zenon
  <2>6. t \in Transactions /\ rest \in T
    BY <1>1, HeadTailProperties
  <2> QED
    BY <2>5, <2>6
<1>4. (buf \o <<t>>) \o rest = buf \o todo
  <2>1. (buf \o <<t>>) \o rest = buf \o (<<t>> \o rest)
    <3> HIDE DEF t, rest
    <3> QED
      BY <1>2, <1>3, ConcatAssociative
  <2> QED
    BY <1>3, <2>1, Zenon
<1>5. CASE t.type = "UserTransaction"
  <2>1. buf' = Append(buf, t) /\ chunks' = chunks
    BY <1>5 DEF chunk_transaction
  <2>2. Append(buf, t) = buf \o <<t>>
    BY <1>2, <1>3, AppendIsConcat
  <2> QED
    BY <1>1, <1>4, <2>1, <2>2, Zenon DEF Remaining
<1>6. CASE t.type # "UserTransaction"
  <2> DEFINE c == [type |-> t.type, value |-> <<t>>]
  <2>1. /\ chunks' = (chunks \o UserChunk(buf)) \o <<c>> /\ buf' = <<>>
    BY <1>6 DEF chunk_transaction
  <2>2. c \in Chunk /\ c.value = <<t>>
    <3>1. <<t>> \in Seq(Transactions) \ {<<>>} /\ \A i \in DOMAIN <<t>> : <<t>>[i] = t
      BY <1>3
    <3>2. c.type = t.type /\ c.value = <<t>>
      OBVIOUS
    <3>3. c \in [type : {x.type : x \in Transactions}, value : Seq(Transactions) \ {<<>>}]
      BY <1>3, <3>1
    <3>4. \A i \in DOMAIN c.value : c.value[i].type = c.type
      BY <3>1, <3>2
    <3> HIDE DEF c
    <3> QED
      BY <3>2, <3>3, <3>4 DEF Chunk
  <2> HIDE DEF c
  <2>3. chunks \o UserChunk(buf) \in Seq(Chunk)
    BY <1>1, UserChunkType, ConcatProperties
  <2>4. chunks' = Append(chunks \o UserChunk(buf), c)
    BY <2>1, <2>2, <2>3, AppendIsConcat
  <2>5. Flattened(chunks') = Flattened(chunks \o UserChunk(buf)) \o <<t>>
    BY <2>2, <2>3, <2>4, FlattenedAppend
  <2>6. Flattened(chunks') = (F \o buf) \o <<t>>
    BY <1>1, <2>5, FlattenedUser
  <2>7. Remaining(chunks', buf', todo') = ((F \o buf) \o <<t>>) \o (<<>> \o rest)
    BY <1>1, <2>1, <2>6, Zenon DEF Remaining
  <2> HIDE DEF t, rest, F
  <2>8. <<>> \o rest = rest
    BY <1>3, ConcatEmptySeq
  <2>9. (F \o buf) \o <<t>> = F \o (buf \o <<t>>)
    BY <1>2, <1>3, ConcatAssociative
  <2>10. buf \o <<t>> \in T
    BY <1>2, <1>3, ConcatProperties
  <2>11. (F \o (buf \o <<t>>)) \o rest = F \o ((buf \o <<t>>) \o rest)
    BY <1>2, <1>3, <2>10, ConcatAssociative
  <2> QED
    BY <1>4, <2>7, <2>8, <2>9, <2>11, Zenon DEF Remaining, F
<1> QED
  BY <1>5, <1>6

\* At the end the buffer becomes a chunk.
LEMMA ChunkRestKeepsRemaining ==
  ASSUME Inv, chunk_rest
  PROVE  Remaining(chunks', buf', todo') = Remaining(chunks, buf, todo)
<1> DEFINE F == Flattened(chunks)
<1>1. /\ chunks \in Seq(Chunk) /\ buf \in Seq(UserTransactions) /\ todo = <<>>
      /\ todo' = <<>> /\ buf' = <<>> /\ chunks' = chunks \o UserChunk(buf)
  BY DEF Inv, TypeOK, chunk_rest
<1>2. buf \in Seq(Transactions) /\ F \in Seq(Transactions)
      /\ <<>> \in Seq(Transactions)
  <2>1. <<>> \in Seq(Transactions)
    OBVIOUS
  <2> QED
    BY <1>1, <2>1, RemainingType
<1>3. Flattened(chunks') = F \o buf
  BY <1>1, FlattenedUser
<1>4. F \o buf \in Seq(Transactions)
  BY <1>2, ConcatProperties
<1>5. buf \o <<>> = buf /\ <<>> \o <<>> = <<>> /\ (F \o buf) \o <<>> = F \o buf
  BY <1>2, <1>4, ConcatEmptySeq
<1> QED
  BY <1>1, <1>3, <1>5, Zenon DEF Remaining

\* An output takes the next transaction.
LEMMA OutputTakesCurrent ==
  ASSUME Inv, Aligned, NEW output \in Outputs, Output(output), chunks # <<>>,
         phase \notin {"idle", "chunking"}, UNCHANGED <<block, buf, todo>>
  PROVE  Aligned'
<1> DEFINE T == Seq(Transactions)
           left == Remaining(advanced, buf, todo)
<1>1. /\ chunks \in Seq(Chunk) /\ buf \in Seq(UserTransactions) /\ todo \in T
      /\ chunks' = advanced /\ Len(result') = Len(result) + 1 /\ phase' = "block"
  <2>1. Len(result') = Len(result) + 1 /\ phase' = "block"
    BY OutputType
  <2> QED
    BY <2>1 DEF Inv, TypeOK, Output
<1>2. /\ current \in Transactions /\ advanced \in Seq(Chunk)
      /\ Flattened(chunks) = <<current>> \o Flattened(advanced)
  BY <1>1, FlattenedCurrent
<1>3. buf \in T /\ Flattened(advanced) \in T /\ left \in T
  BY <1>1, <1>2, RemainingType
<1>4. <<current>> \in T
  BY <1>2
<1>5. buf \o todo \in T
  BY <1>1, <1>3, ConcatProperties
<1>6. Remaining(chunks, buf, todo) = <<current>> \o left
  <2>1. (<<current>> \o Flattened(advanced)) \o (buf \o todo)
          = <<current>> \o (Flattened(advanced) \o (buf \o todo))
    BY <1>3, <1>4, <1>5, ConcatAssociative
  <2> QED
    BY <1>2, <2>1, Zenon DEF Remaining
<1>7. PICK done \in T : Len(done) = Len(result)
                        /\ block = done \o Remaining(chunks, buf, todo)
  BY DEF Aligned
<1> HIDE DEF left
<1>8. done \o (<<current>> \o left) = (done \o <<current>>) \o left
  <2> DEFINE one == <<current>>
  <2>1. one \in T /\ left \in T /\ done \in T
    BY <1>3, <1>4, <1>7
  <2> HIDE DEF one
  <2>2. done \o (one \o left) = (done \o one) \o left
    BY <2>1, ConcatAssociative
  <2> QED
    BY <2>2 DEF one
<1>9. done \o <<current>> \in T /\ Len(done \o <<current>>) = Len(done) + 1
  <2>1. Append(done, current) \in T /\ Len(Append(done, current)) = Len(done) + 1
    BY <1>2, <1>7, AppendProperties
  <2>2. Append(done, current) = done \o <<current>>
    BY <1>2, <1>7, AppendIsConcat
  <2> QED
    BY <2>1, <2>2, Zenon
<1>10. block' = (done \o <<current>>) \o Remaining(chunks', buf', todo')
  BY <1>1, <1>6, <1>7, <1>8, Zenon DEF left
<1>11. Len(done \o <<current>>) = Len(result')
  BY <1>1, <1>7, <1>9, Zenon
<1>12. buf' = <<>>
  BY DEF Aligned
<1> QED
  BY <1>9, <1>10, <1>11, <1>12, Zenon DEF Aligned

LEMMA AlignedInductive == Inv /\ Aligned /\ [Next]_vars => Aligned'
<1> SUFFICES ASSUME Inv, Aligned, [Next]_vars PROVE Aligned'
  OBVIOUS
<1>1. /\ cache \in Ledger /\ ctx \in Ledger /\ chunks \in Seq(Chunk)
      /\ gas_left \in Nat /\ error \in VMStatuses
  BY DEF Inv, TypeOK
<1>2. ASSUME phase # "idle", block' = block, Len(result') = Len(result),
             phase' # "chunking" => buf' = <<>>,
             Remaining(chunks', buf', todo') = Remaining(chunks, buf, todo)
      PROVE  Aligned'
  <2>1. PICK done \in Seq(Transactions) :
          Len(done) = Len(result) /\ block = done \o Remaining(chunks, buf, todo)
    BY <1>2 DEF Aligned
  <2>2. Len(done) = Len(result') /\ block' = done \o Remaining(chunks', buf', todo')
    BY <1>2, <2>1, Zenon
  <2> QED
    BY <1>2, <2>2, Zenon DEF Aligned
<1>3. ASSUME phase \notin {"idle", "chunking"},
             UNCHANGED <<block, todo, buf, chunks, result>>
      PROVE  Aligned'
  <2>1. buf' = <<>>
    BY <1>3 DEF Aligned
  <2> QED
    BY <1>2, <1>3, <2>1
<1>4. CASE chunk_transaction
  <2>1. phase = "chunking" /\ block' = block /\ result' = result /\ phase' = phase
    BY <1>4 DEF chunk_transaction
  <2> QED
    BY <1>2, <1>4, <2>1, ChunkingKeepsRemaining
<1>5. CASE chunk_rest
  <2>1. phase = "chunking" /\ block' = block /\ result' = result /\ buf' = <<>>
    BY <1>5 DEF chunk_rest
  <2> QED
    BY <1>2, <1>5, <2>1, ChunkRestKeepsRemaining
<1>6. ASSUME NEW txns \in Blocks, execute_block(txns)
      PROVE  Aligned'
  <2>1. /\ buf' = <<>> /\ block' = txns /\ todo' = txns /\ chunks' = <<>>
        /\ result' = <<>>
    BY <1>6 DEF execute_block, Aligned
  <2>2. txns \in Seq(Transactions) /\ <<>> \in Seq(Transactions) /\ Len(<<>>) = 0
    BY VMAssumption
  <2>3. <<>> \o txns = txns
    BY <2>2, ConcatEmptySeq
  <2>4. Flattened(<<>>) = <<>>
    BY <1>1, FlattenedType
  <2>5. Remaining(chunks', buf', todo') = txns
    BY <2>1, <2>3, <2>4, Zenon DEF Remaining
  <2>6. block' = <<>> \o Remaining(chunks', buf', todo') /\ Len(<<>>) = Len(result')
    BY <2>1, <2>3, <2>5, Zenon
  <2> QED
    BY <2>1, <2>2, <2>6, Zenon DEF Aligned
<1>7. CASE vm_process_block_prologue
  <2>1. phase = "block" /\ chunks # <<>> /\ UNCHANGED <<block, todo, buf>>
        /\ \/ Output(Keep(Executed, 0))
           \/ UNCHANGED <<chunks, result>>
    BY <1>7 DEF vm_process_block_prologue
  <2>2. Keep(Executed, 0) \in Outputs
    BY OutputsType, StatusTypes
  <2> QED
    BY <1>3, <2>1, <2>2, OutputTakesCurrent
<1>8. CASE discard_unverified
  <2> DEFINE output == discard_error_output(verify_transaction(cache, current))
  <2>1. phase = "block" /\ chunks # <<>> /\ UNCHANGED <<block, todo, buf>>
        /\ Output(output)
    BY <1>8 DEF discard_unverified, AtUserTransaction
  <2>2. output \in Outputs
    BY <1>1, VerifyOutcome, OutputsType
  <2> QED
    BY <2>1, <2>2, OutputTakesCurrent
<1>9. CASE run_epilogue
  <2> DEFINE output == Keep(Executed, fee(txn, gas_left))
  <2>1. phase = "executed" /\ UNCHANGED <<block, todo, buf>>
        /\ (Output(output) \/ UNCHANGED <<chunks, result>>)
    BY <1>9 DEF run_epilogue, gas_used
  <2>2. chunks # <<>> /\ output \in Outputs
    BY <2>1, AtHand, OutputsType, StatusTypes DEF Inv, Running, AtPayload
  <2> QED
    BY <1>3, <2>1, <2>2, OutputTakesCurrent
<1>10. CASE failed_transaction_cleanup
  <2> DEFINE r == epilogue(cache, txn, gas_left)
  <2>1. phase = "failed" /\ UNCHANGED <<block, todo, buf>>
        /\ \E output \in {discard_error_output(error), discard_error_output(r.status),
                          Keep(error, fee(txn, gas_left))} : Output(output)
    BY <1>10 DEF failed_transaction_cleanup, gas_used
  <2>2. /\ chunks # <<>> /\ fee(txn, gas_left) \in Nat /\ Metered(txn)
        /\ gas_left <= txn.max_gas_amount
    BY <2>1, AtHand DEF Inv, Running, AtPayload
  <2>3. r.status \in VMStatuses
    <3>1. Typed(r)
      BY <1>1, <2>2, EpilogueOutcome
    <3> HIDE DEF r
    <3> QED
      BY <3>1, StatusTypes DEF Typed
  <2> HIDE DEF r
  <2>4. {discard_error_output(error), discard_error_output(r.status),
         Keep(error, fee(txn, gas_left))} \subseteq Outputs
    BY <1>1, <2>2, <2>3, OutputsType
  <2> QED
    BY <2>1, <2>2, <2>4, OutputTakesCurrent
<1>11. CASE execute_script \/ publish_module \/ refuse_payload
  BY <1>3, <1>11 DEF execute_script, publish_module, refuse_payload, BeginPayload,
                     AtUserTransaction
<1>12. CASE \/ \E c \in Calls, cost \in 1..gas_left : run_call(c, cost)
            \/ out_of_gas \/ raise_vm_exception \/ crash \/ return \/ refuse_write_set
  BY <1>3, <1>12 DEF run_call, out_of_gas, raise_vm_exception, crash, return,
                     refuse_write_set
<1>13. CASE end_block \/ lose_block
  <2>1. phase' = "idle" /\ buf' = <<>>
    BY <1>13 DEF end_block, lose_block, Returned, Aligned
  <2> QED
    BY <2>1 DEF Aligned
<1>14. CASE UNCHANGED vars
  <2>1. /\ block' = block /\ todo' = todo /\ buf' = buf /\ chunks' = chunks
        /\ result' = result /\ phase' = phase
    BY <1>14 DEF vars
  <2> QED
    BY <2>1, Zenon DEF Aligned
<1> QED
  BY <1>4, <1>5, <1>6, <1>7, <1>8, <1>9, <1>10, <1>11, <1>12, <1>13, <1>14, Zenon
     DEF Next, Step

LEMMA AlignedOutputs == Inv /\ Aligned => OutputsAlign
<1> SUFFICES ASSUME Inv, Aligned, phase # "idle"
             PROVE  block = ((SubSeq(block, 1, Len(result)) \o Flattened(chunks))
                               \o buf) \o todo
  BY DEF OutputsAlign
<1> DEFINE T == Seq(Transactions)
           F == Flattened(chunks)
           left == Remaining(chunks, buf, todo)
<1>1. /\ chunks \in Seq(Chunk) /\ buf \in Seq(UserTransactions) /\ todo \in T
  BY DEF Inv, TypeOK
<1>2. buf \in T /\ F \in T /\ left \in T
  BY <1>1, RemainingType
<1>3. PICK done \in T : Len(done) = Len(result) /\ block = done \o left
  BY DEF Aligned
<1>4. done \o left = ((done \o F) \o buf) \o todo
  <2> HIDE DEF F
  <2>1. buf \o todo \in T /\ F \o buf \in T /\ done \o F \in T
    BY <1>1, <1>2, <1>3, ConcatProperties
  <2> DEFINE waiting == buf \o todo
             first == done \o F
  <2> HIDE DEF waiting, first
  <2>2. done \o (F \o waiting) = (done \o F) \o waiting
    <3>1. done \in T /\ F \in T /\ waiting \in T
      BY <1>2, <1>3, <2>1 DEF waiting
    <3> HIDE DEF T
    <3> QED
      BY <3>1, ConcatAssociative DEF T
  <2>3. (first \o buf) \o todo = first \o (buf \o todo)
    <3>1. first \in T /\ buf \in T /\ todo \in T
      BY <1>1, <1>2, <2>1 DEF first
    <3> QED
      BY <3>1, ConcatAssociative
  <2> QED
    BY <2>2, <2>3, Zenon DEF Remaining, F, waiting, first
<1> HIDE DEF left
<1>5. SubSeq(block, 1, Len(result)) = done
  <2>1. CASE done = <<>>
    <3>1. Len(result) = 0
      BY <1>3, <2>1
    <3> QED
      BY <2>1, <3>1, SubSeqEmpty
  <2>2. CASE done # <<>>
    <3>1. Len(done) \in 1..Len(done) /\ 1 \in 1..Len(done)
      BY <1>3, <2>2, EmptySeq
    <3>2. SubSeq(done \o left, 1, Len(done)) = SubSeq(done, 1, Len(done))
      BY <1>2, <1>3, <3>1, SubSeqOfConcat1
    <3>3. SubSeq(done, 1, Len(done)) = done
      BY <1>3, SubSeqFull
    <3> QED
      BY <1>3, <3>2, <3>3, Zenon
  <2> QED
    BY <2>1, <2>2
<1> QED
  BY <1>3, <1>4, <1>5, Zenon DEF F

----------------------------------------------------------------------------
(* Sequence numbers count the kept transactions *)

\* The output of a step is that of a kept transaction of a.
KeepsOne(a) ==
  IF LastOutput.tag = "Keep" /\ current.type = "UserTransaction" /\ current.sender = a
  THEN 1 ELSE 0

LEMMA OutputTakesNumber ==
  ASSUME Inv, [Next]_vars, Len(result') > Len(result), NEW a \in Addresses
  PROVE  SequenceNumber(cache', a) = SequenceNumber(cache, a) + KeepsOne(a)
<1>1. SequenceNumber(cache, a) \in Nat
  BY ExistsIsAccount, U64Type DEF SequenceNumber, Inv, TypeOK, Account
<1>2. CASE Began
  <2>1. SequenceNumber(cache', a) = SequenceNumber(cache, a)
    BY <1>2, PaysKeepsNumbers DEF Began, SameNumbers
  <2>2. current.type # "UserTransaction"
    BY <1>2 DEF Began
  <2> QED
    BY <1>1, <2>1, <2>2 DEF KeepsOne
<1>3. ASSUME NEW status, DroppedWith(status)
      PROVE  SequenceNumber(cache', a) = SequenceNumber(cache, a)
             /\ LastOutput.tag # "Keep"
  BY <1>3 DEF DroppedWith, discard_error_output
<1>4. ASSUME NEW l, NEW status, KeptOver(l, status), SameNumbers(cache, l),
             phase \in {"executed", "failed"}
      PROVE  /\ LastOutput.tag = "Keep" /\ current.type = "UserTransaction"
             /\ SequenceNumber(cache', a) =
                  IF a = current.sender THEN SequenceNumber(cache, a) + 1
                  ELSE SequenceNumber(cache, a)
  <2>1. /\ txn = current /\ current.type = "UserTransaction"
        /\ txn.sequence_number = SequenceNumber(cache, txn.sender)
    BY <1>4, AtHand DEF Inv, Running, AtPayload
  <2>2. SequenceNumber(cache', a) =
          IF a = txn.sender THEN txn.sequence_number + 1 ELSE SequenceNumber(l, a)
    <3> DEFINE amount == fee(txn, gas_left)
    <3>1. Charged(l, cache', txn, amount)
      BY <1>4 DEF KeptOver
    <3> HIDE DEF amount
    <3>2. Numbered(l, cache', txn)
      BY <3>1, ChargedIsNumbered
    <3> QED
      BY <3>2 DEF Numbered
  <2>3. SequenceNumber(l, a) = SequenceNumber(cache, a)
    BY <1>4 DEF SameNumbers
  <2>4. LastOutput.tag = "Keep"
    BY <1>4 DEF KeptOver, Keep
  <2> QED
    BY <2>1, <2>2, <2>3, <2>4
<1>5. CASE KeptOver(ctx, Executed) /\ phase = "executed"
  <2>1. SameNumbers(cache, ctx)
    BY <1>5 DEF Inv, Running
  <2> QED
    BY <1>1, <1>4, <1>5, <2>1 DEF KeepsOne
<1>6. CASE KeptOver(cache, error) /\ phase = "failed"
  BY <1>1, <1>4, <1>6, SameNumbersRefl DEF KeepsOne
<1> QED
  <2>1. ASSUME NEW status, DroppedWith(status)
        PROVE  SequenceNumber(cache', a) = SequenceNumber(cache, a) + KeepsOne(a)
    BY <1>1, <1>3, <2>1 DEF KeepsOne
  <2> QED
    BY <1>2, <1>5, <1>6, <2>1, OutputStep

\* What a step that adds an output leaves alone.
LEMMA OutputAppends ==
  ASSUME Inv, [Next]_vars, Len(result') > Len(result)
  PROVE  /\ \E output : result' = Append(result, output)
         /\ view' = view /\ block' = block /\ chunks # <<>>
         /\ phase \notin {"idle", "chunking"}
<1>1. result \in Seq(Outputs) /\ Len(result) \in Nat /\ result' # result
  BY LenProperties DEF Inv, TypeOK
<1>2. result' # <<>>
  BY <1>1, EmptySeq
<1>3. phase \in {"executing", "executed", "failed"} => chunks # <<>>
  BY DEF Inv, Running, AtPayload
<1>4. CASE vm_process_block_prologue
  BY <1>1, <1>4, Zenon DEF vm_process_block_prologue, Output
<1>5. CASE discard_unverified
  BY <1>5, Zenon DEF discard_unverified, AtUserTransaction, Output
<1>6. CASE run_epilogue
  BY <1>1, <1>3, <1>6, Zenon DEF run_epilogue, Output
<1>7. CASE failed_transaction_cleanup
  BY <1>3, <1>7, Zenon DEF failed_transaction_cleanup, Output
<1>8. CASE UNCHANGED vars
  BY <1>1, <1>8 DEF vars
<1> QED
  BY <1>1, <1>2, <1>4, <1>5, <1>6, <1>7, <1>8, Zenon
     DEF Next, Step, execute_block, chunk_transaction, chunk_rest, refuse_write_set,
         execute_script, publish_module, refuse_payload, BeginPayload, run_call,
         out_of_gas, raise_vm_exception, crash, return, end_block, lose_block, Returned

\* The next transaction is the one that comes after those with an output.
LEMMA CurrentIsNext ==
  ASSUME Inv, Aligned, chunks # <<>>, phase # "idle"
  PROVE  block[Len(result) + 1] = current
<1> DEFINE T == Seq(Transactions)
           left == Flattened(advanced) \o (buf \o todo)
           one == <<current>>
<1>1. /\ chunks \in Seq(Chunk) /\ buf \in Seq(UserTransactions) /\ todo \in T
  BY DEF Inv, TypeOK
<1>2. /\ current \in Transactions /\ advanced \in Seq(Chunk)
      /\ Flattened(chunks) = one \o Flattened(advanced)
  BY <1>1, FlattenedCurrent
<1>3. left \in T /\ Flattened(advanced) \in T /\ buf \in T
  BY <1>1, <1>2, RemainingType DEF Remaining
<1>4. one \in T /\ Len(one) = 1 /\ one[1] = current
  BY <1>2
<1>5. PICK done \in T : Len(done) = Len(result)
                        /\ block = done \o Remaining(chunks, buf, todo)
  BY DEF Aligned
<1>6. Remaining(chunks, buf, todo) = one \o left
  <2> DEFINE waiting == buf \o todo
             later == Flattened(advanced)
  <2>1. one \in T /\ later \in T /\ waiting \in T
    BY <1>1, <1>3, <1>4, ConcatProperties
  <2> HIDE DEF one, later, waiting
  <2>2. (one \o later) \o waiting = one \o (later \o waiting)
    BY <2>1, ConcatAssociative
  <2> QED
    BY <1>2, <2>2, Zenon DEF Remaining, later, waiting
<1> HIDE DEF left, one
<1>7. /\ one \o left \in T /\ Len(one \o left) = 1 + Len(left)
      /\ (one \o left)[1] = current
  <2>1. Len(left) \in Nat
    BY <1>3
  <2>2. /\ one \o left \in T /\ Len(one \o left) = Len(one) + Len(left)
        /\ \A i \in 1..Len(one) + Len(left) : (one \o left)[i] =
             IF i <= Len(one) THEN one[i] ELSE left[i - Len(one)]
    BY <1>3, <1>4, ConcatProperties
  <2> QED
    BY <1>4, <2>1, <2>2
<1> DEFINE rest == one \o left
           n == Len(done)
<1>8. rest \in T /\ Len(rest) \in Nat \ {0} /\ rest[1] = current /\ n \in Nat
  <2>1. Len(left) \in Nat /\ n \in Nat
    BY <1>3, <1>5
  <2> QED
    BY <1>7, <2>1
<1> HIDE DEF rest
<1>9. (done \o rest)[n + 1] = current
  <2>1. \A i \in 1..Len(done) + Len(rest) : (done \o rest)[i] =
          IF i <= Len(done) THEN done[i] ELSE rest[i - Len(done)]
    BY <1>5, <1>8, ConcatProperties
  <2>2. n + 1 \in 1..Len(done) + Len(rest) /\ ~(n + 1 <= Len(done))
        /\ (n + 1) - Len(done) = 1
    BY <1>8
  <2> QED
    BY <1>8, <2>1, <2>2, Zenon
<1> QED
  BY <1>5, <1>6, <1>9, Zenon DEF rest, n

\* The outputs of kept transactions of a.
KeptSet(a) ==
  {i \in DOMAIN result :
    /\ result[i].tag = "Keep"
    /\ block[i].type = "UserTransaction"
    /\ block[i].sender = a}

LEMMA KeptSetGrows ==
  ASSUME Inv, Aligned, [Next]_vars, Len(result') > Len(result), NEW a
  PROVE  KeptOf(a)' = KeptOf(a) + KeepsOne(a) /\ KeptOf(a) \in Nat
<1> DEFINE n == Len(result)
<1>1. /\ result \in Seq(Outputs) /\ n \in Nat /\ DOMAIN result = 1..n
      /\ chunks # <<>> /\ phase # "idle" /\ block' = block
  BY LenProperties, OutputAppends DEF Inv, TypeOK
<1>2. PICK output : result' = Append(result, output)
  BY OutputAppends
<1>3. /\ DOMAIN result' = 1..n + 1 /\ Len(result') = n + 1 /\ result'[n + 1] = output
      /\ \A i \in 1..n : result'[i] = result[i]
  BY <1>1, <1>2
<1>4. block[n + 1] = current
  BY <1>1, CurrentIsNext
<1> HIDE DEF n
<1>5. KeptSet(a)' = {i \in 1..n + 1 :
                      /\ result'[i].tag = "Keep"
                      /\ block[i].type = "UserTransaction"
                      /\ block[i].sender = a}
  BY <1>1, <1>3, Zenon DEF KeptSet
<1>6. KeptSet(a) \subseteq 1..n /\ IsFiniteSet(KeptSet(a)) /\ n + 1 \notin KeptSet(a)
  <2>1. KeptSet(a) \subseteq 1..n
    BY <1>1, Zenon DEF KeptSet
  <2>2. IsFiniteSet(1..n) /\ n + 1 \notin 1..n
    BY <1>1, FS_Interval
  <2> QED
    BY <2>1, <2>2, FS_Subset
<1>7. Cardinality(KeptSet(a)) \in Nat
  BY <1>6, FS_CardinalityType
<1>8. LastOutput = output
  BY <1>3, Zenon DEF LastOutput
<1> DEFINE keeps == output.tag = "Keep" /\ current.type = "UserTransaction"
                    /\ current.sender = a
<1>9. KeptSet(a)' = IF keeps THEN KeptSet(a) \cup {n + 1} ELSE KeptSet(a)
  <2>1. \A i : i \in 1..n + 1 <=> i \in 1..n \/ i = n + 1
    BY <1>1
  <2>2. \A i : i \in KeptSet(a)' <=> i \in KeptSet(a) \/ (i = n + 1 /\ keeps)
    BY <1>1, <1>3, <1>4, <1>5, <2>1, Zenon DEF KeptSet
  <2> HIDE DEF keeps
  <2> QED
    BY <2>2
<1>10. Cardinality(KeptSet(a)') = Cardinality(KeptSet(a)) + KeepsOne(a)
  <2>1. KeepsOne(a) = IF keeps THEN 1 ELSE 0
    BY <1>8, Zenon DEF KeepsOne
  <2>2. Cardinality(KeptSet(a) \cup {n + 1}) = Cardinality(KeptSet(a)) + 1
    BY <1>6, FS_AddElement, Zenon
  <2> HIDE DEF keeps
  <2>3. CASE keeps
    <3>1. KeptSet(a)' = KeptSet(a) \cup {n + 1} /\ KeepsOne(a) = 1
      BY <1>9, <2>1, <2>3, Zenon
    <3> QED
      BY <2>2, <3>1, Zenon
  <2>4. CASE ~keeps
    <3>1. KeptSet(a)' = KeptSet(a) /\ KeepsOne(a) = 0
      BY <1>9, <2>1, <2>4, Zenon
    <3>2. Cardinality(KeptSet(a)) + 0 = Cardinality(KeptSet(a))
      BY <1>7
    <3> QED
      BY <3>1, <3>2, Zenon
  <2> QED
    BY <2>3, <2>4, Zenon
<1>11. KeptOf(a) = Cardinality(KeptSet(a)) /\ KeptOf(a)' = Cardinality(KeptSet(a)')
  BY Zenon DEF KeptOf, KeptSet
<1> QED
  BY <1>7, <1>10, <1>11, Zenon

\* The steps that matter to the count.
LEMMA CountingStep ==
  ASSUME Inv, [Next]_vars
  PROVE  \/ Len(result') > Len(result)
         \/ result' = <<>> /\ cache' = view'
         \/ phase' = "idle"
         \/ phase # "idle" /\ UNCHANGED <<view, cache, block, result>>
         \/ UNCHANGED <<view, cache, block, result, phase>>
<1>1. result \in Seq(Outputs)
  BY DEF Inv, TypeOK
<1>2. ASSUME NEW output, result' = Append(result, output)
      PROVE  Len(result') > Len(result)
  BY <1>1, <1>2
<1>3. CASE \E txns \in Blocks : execute_block(txns)
  BY <1>3, Zenon DEF execute_block
<1>4. CASE chunk_transaction \/ chunk_rest
  BY <1>4 DEF chunk_transaction, chunk_rest
<1>5. CASE vm_process_block_prologue
  BY <1>2, <1>5 DEF vm_process_block_prologue, Output
<1>6. CASE discard_unverified
  BY <1>2, <1>6 DEF discard_unverified, Output
<1>7. CASE run_epilogue
  BY <1>2, <1>7 DEF run_epilogue, Output
<1>8. CASE failed_transaction_cleanup
  BY <1>2, <1>8 DEF failed_transaction_cleanup, Output
<1>9. CASE execute_script \/ publish_module \/ refuse_payload \/ refuse_write_set
  BY <1>9 DEF execute_script, publish_module, refuse_payload, BeginPayload,
              AtUserTransaction, refuse_write_set
<1>10. CASE \/ \E c \in Calls, cost \in 1..gas_left : run_call(c, cost)
            \/ out_of_gas \/ raise_vm_exception \/ crash \/ return
  BY <1>10 DEF run_call, out_of_gas, raise_vm_exception, crash, return
<1>11. CASE end_block \/ lose_block
  BY <1>11 DEF end_block, lose_block, Returned
<1>12. CASE UNCHANGED vars
  BY <1>12 DEF vars
<1> QED
  BY <1>3, <1>4, <1>5, <1>6, <1>7, <1>8, <1>9, <1>10, <1>11, <1>12, Zenon DEF Next, Step

LEMMA CountsInductive ==
  Inv /\ Aligned /\ SequenceNumbersCount /\ [Next]_vars => SequenceNumbersCount'
<1> SUFFICES ASSUME Inv, Aligned, SequenceNumbersCount, [Next]_vars
             PROVE  SequenceNumbersCount'
  OBVIOUS
<1> SUFFICES ASSUME phase' # "idle", NEW a \in Addresses
             PROVE  SequenceNumber(cache', a) = SequenceNumber(view', a) + KeptOf(a)'
  BY Zenon DEF SequenceNumbersCount
<1>1. SequenceNumber(view, a) \in Nat /\ SequenceNumber(view', a) \in Nat
  BY ExistsIsAccount, U64Type, InvInductive DEF SequenceNumber, Inv, TypeOK, Account
<1>2. CASE Len(result') > Len(result)
  <2>1. view' = view /\ phase # "idle"
    BY <1>2, OutputAppends
  <2>2. SequenceNumber(cache, a) = SequenceNumber(view, a) + KeptOf(a)
    BY <2>1 DEF SequenceNumbersCount
  <2>3. SequenceNumber(cache', a) = SequenceNumber(cache, a) + KeepsOne(a)
    BY <1>2, OutputTakesNumber
  <2>4. KeptOf(a)' = KeptOf(a) + KeepsOne(a) /\ KeptOf(a) \in Nat
    BY <1>2, KeptSetGrows
  <2>5. KeepsOne(a) \in Nat
    BY DEF KeepsOne
  <2> DEFINE before == SequenceNumber(view, a)
             kept == KeptOf(a)
             one == KeepsOne(a)
  <2>6. before \in Nat /\ kept \in Nat /\ one \in Nat
    BY <1>1, <2>4, <2>5
  <2>7. (before + kept) + one = before + (kept + one)
    <3> HIDE DEF before, kept, one
    <3> QED
      BY <2>6
  <2> QED
    BY <2>1, <2>2, <2>3, <2>4, <2>7, Zenon
<1>3. CASE result' = <<>> /\ cache' = view'
  <2>1. DOMAIN result' = {}
    BY <1>3
  <2>2. KeptOf(a)' = 0
    BY <2>1, FS_EmptySet DEF KeptOf
  <2>3. SequenceNumber(view', a) + 0 = SequenceNumber(view', a)
    BY <1>1
  <2> QED
    BY <1>3, <2>2, <2>3, Zenon
<1>4. CASE phase # "idle" /\ UNCHANGED <<view, cache, block, result>>
  <2>1. KeptOf(a)' = KeptOf(a)
    BY <1>4, Zenon DEF KeptOf
  <2> QED
    BY <1>4, <2>1, Zenon DEF SequenceNumbersCount
<1>5. CASE UNCHANGED <<view, cache, block, result, phase>>
  <2>1. KeptOf(a)' = KeptOf(a)
    BY <1>5, Zenon DEF KeptOf
  <2> QED
    BY <1>5, <2>1, Zenon DEF SequenceNumbersCount
<1> QED
  BY <1>2, <1>3, <1>4, <1>5, CountingStep, Zenon

----------------------------------------------------------------------------
(* Theorems *)

\* Whatever a block holds and scripts do, balances and sequence numbers stay
\* within u64, gas is never negative and outputs are well formed.
THEOREM TypeCorrect == Spec => []TypeOK
BY Invariant, PTL DEF Inv

\* The sender of a failed transaction can pay for the gas it used.
THEOREM FailuresArePaidFor == Spec => []FailedCanPay
<1>1. Inv => FailedCanPay
  <2> SUFFICES ASSUME Inv, phase = "failed",
                      balance(cache, FeeAddress) + fee(txn, gas_left) <= MaxU64,
                      txn.sequence_number < MaxU64
               PROVE  epilogue(cache, txn, gas_left).status = Executed
    BY DEF FailedCanPay
  <2>1. cache \in Ledger /\ gas_left \in Nat /\ gas_left <= txn.max_gas_amount
        /\ exists(cache, FeeAddress)
    BY DEF Inv, TypeOK, Running, HasPot
  <2> QED
    BY <2>1, AtHand, EpilogueOutcome
<1> QED
  BY <1>1, Invariant, PTL

\* Whatever the transactions of a block do and however they end, the coins in
\* the accounts are those that have been minted.
THEOREM BlocksKeepCoins == Spec => []CoinsAreKept
<1>1. Init => CoinsAreKept
  BY LedgerAssumption DEF Init, CoinsAreKept
<1> QED
  BY <1>1, CoinsInductive, Invariant, PTL DEF Spec

\* The outputs so far belong to the first transactions of the block, in their
\* order, and cutting the rest into chunks drops, repeats and moves none.
THEOREM OutputsFollowTheBlock == Spec => []OutputsAlign
<1>1. Init => Aligned
  BY DEF Init, Aligned
<1> QED
  BY <1>1, AlignedInductive, AlignedOutputs, Invariant, PTL DEF Spec

\* A kept transaction takes exactly one sequence number of its sender.
THEOREM KeptTakesOne == Spec => KeptTakesOneNumber
<1>1. ASSUME Inv, [Next]_vars
      PROVE  [Len(result') > Len(result) =>
                \A a \in Addresses :
                  SequenceNumber(cache', a) = SequenceNumber(cache, a) +
                    (IF /\ result'[Len(result')].tag = "Keep"
                        /\ current.type = "UserTransaction" /\ current.sender = a
                     THEN 1 ELSE 0)]_vars
  BY <1>1, OutputTakesNumber, Zenon DEF KeepsOne, LastOutput
<1> QED
  BY <1>1, Invariant, PTL DEF Spec, KeptTakesOneNumber

\* Since the block began the sequence number of every account has grown by the
\* number of its transactions the block has kept.
THEOREM NumbersCountTheKept == Spec => []SequenceNumbersCount
<1>1. Init => Aligned /\ SequenceNumbersCount
  BY DEF Init, Aligned, SequenceNumbersCount
<1> QED
  BY <1>1, AlignedInductive, CountsInductive, Invariant, PTL DEF Spec

\* A failed transaction leaves its fee and its sequence number and no other
\* trace, and a discarded one no trace at all.
THEOREM FailuresCostOnlyTheFee == Spec => FailureCostsOnlyTheFee
<1> DEFINE OnlyTheFee ==
      Len(result') > Len(result) /\ LastOutput.status # Executed =>
        IF LastOutput.tag = "Discard" THEN cache' = cache
        ELSE /\ cache' = [cache EXCEPT !.account = cache'.account]
             /\ \A a \in Addresses :
                  /\ a # FeeAddress /\ a # current.sender =>
                       cache'.account[a] = cache.account[a]
                  /\ a # FeeAddress /\ a = current.sender =>
                       cache'.account[a] =
                         [cache.account[a] EXCEPT
                            !.balance = @ - LastOutput.gas_used,
                            !.sequence_number = @ + 1]
<1>1. ASSUME Inv, [Next]_vars PROVE OnlyTheFee
  <2> SUFFICES ASSUME Len(result') > Len(result), LastOutput.status # Executed
               PROVE  OnlyTheFee
    OBVIOUS
  <2>1. ~Began /\ ~KeptOver(ctx, Executed)
    BY DEF Began, KeptOver, Keep
  <2>2. ASSUME NEW status, DroppedWith(status)
        PROVE  LastOutput.tag = "Discard" /\ cache' = cache
    BY <2>2 DEF DroppedWith, discard_error_output
  <2>3. CASE KeptOver(cache, error) /\ phase = "failed"
    <3> DEFINE amount == fee(txn, gas_left)
    <3>1. LastOutput.tag = "Keep" /\ LastOutput.gas_used = amount
          /\ Charged(cache, cache', txn, amount)
      BY <2>3 DEF KeptOver, Keep
    <3>2. /\ txn = current
          /\ txn.sequence_number = cache.account[txn.sender].sequence_number
      BY <1>1, <2>3, AtHand DEF Inv, Running, AtPayload, SequenceNumber
    <3> HIDE DEF amount
    <3>3. cache' = [cache EXCEPT !.account = cache'.account]
      BY <3>1, Zenon DEF Charged
    <3>4. ASSUME NEW a \in Addresses, a # FeeAddress, a # current.sender
          PROVE  cache'.account[a] = cache.account[a]
      BY <3>1, <3>2, <3>4 DEF Charged
    <3>5. ASSUME NEW a \in Addresses, a # FeeAddress, a = current.sender
          PROVE  cache'.account[a] =
                   [cache.account[a] EXCEPT !.balance = @ - LastOutput.gas_used,
                                            !.sequence_number = @ + 1]
      BY <3>1, <3>2, <3>5 DEF Charged
    <3> QED
      BY <3>1, <3>3, <3>4, <3>5
  <2> QED
    BY <1>1, <2>1, <2>2, <2>3, OutputStep
<1>2. Inv /\ [Next]_vars => [OnlyTheFee]_vars
  BY <1>1
<1> QED
  BY <1>2, Invariant, PTL DEF Spec, FailureCostsOnlyTheFee

\* The pot receives the gas an output reports, which is within what the sender
\* agreed to.
THEOREM GasIsPaid == Spec => ReportedGasIsPaid
<1> DEFINE IsPaid ==
      Len(result') > Len(result)
        /\ LastOutput.tag = "Keep"
        /\ current.type = "UserTransaction"
        /\ current.sender # FeeAddress =>
      /\ balance(cache', FeeAddress) = LastOutput.gas_used +
           balance(IF LastOutput.status = Executed THEN ctx ELSE cache, FeeAddress)
      /\ LastOutput.gas_used <= current.gas_unit_price * current.max_gas_amount
<1>1. ASSUME Inv, [Next]_vars PROVE IsPaid
  <2> SUFFICES ASSUME Len(result') > Len(result), LastOutput.tag = "Keep",
                      current.type = "UserTransaction", current.sender # FeeAddress
               PROVE  IsPaid
    OBVIOUS
  <2>1. ~Began /\ \A status : ~DroppedWith(status)
    BY DEF Began, DroppedWith, discard_error_output
  <2>2. ASSUME NEW l \in Ledger, NEW status, KeptOver(l, status),
               phase \in {"executed", "failed"}
        PROVE  /\ LastOutput.status = status
               /\ balance(cache', FeeAddress) = LastOutput.gas_used + balance(l, FeeAddress)
               /\ LastOutput.gas_used <= current.gas_unit_price * current.max_gas_amount
    <3> DEFINE amount == fee(txn, gas_left)
    <3>1. /\ LastOutput.status = status /\ LastOutput.gas_used = amount
          /\ Charged(l, cache', txn, amount)
      BY <2>2 DEF KeptOver, Keep
    <3>2. /\ txn = current /\ amount \in Nat
          /\ amount <= txn.gas_unit_price * txn.max_gas_amount
      BY <1>1, <2>2, AtHand DEF Inv, Running, AtPayload
    <3> HIDE DEF amount
    <3>3. exists(l, FeeAddress)
          /\ balance(cache', FeeAddress) = balance(l, FeeAddress) + amount
      BY <3>1, <3>2 DEF Charged
    <3>4. balance(l, FeeAddress) \in Nat
      BY <3>3, BalanceType, AccountAssumption
    <3> QED
      BY <3>1, <3>2, <3>3, <3>4
  <2>3. ctx \in Ledger /\ cache \in Ledger
    BY <1>1 DEF Inv, TypeOK
  <2>4. CASE KeptOver(ctx, Executed) /\ phase = "executed"
    BY <2>2, <2>3, <2>4
  <2>5. CASE KeptOver(cache, error) /\ phase = "failed" /\ error # Executed
    BY <2>2, <2>3, <2>5
  <2> QED
    BY <1>1, <2>1, <2>4, <2>5, OutputStep
<1>2. Inv /\ [Next]_vars => [IsPaid]_vars
  BY <1>1
<1> QED
  BY <1>2, Invariant, PTL DEF Spec, ReportedGasIsPaid

=============================================================================
