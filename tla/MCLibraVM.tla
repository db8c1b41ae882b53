------------------------------ MODULE MCLibraVM ------------------------------
(* Two users of whom one is a validator, the association and the fee account.
   u64 is three bits wide.  Gas comes in units of which a call costs one or
   two, so that a script makes up to two calls. *)
EXTENDS LibraVM

CONSTANTS null, fees, assoc, alice, bob, k1, k2, short

User(sender, sequence_number, price, max_gas, payload) ==
  [type |-> "UserTransaction", sender |-> sender, signature_valid |-> TRUE,
   public_key |-> k1, sequence_number |-> sequence_number,
   gas_unit_price |-> price, max_gas_amount |-> max_gas, intrinsic_gas |-> 1,
   raw_txn_bytes_len |-> 1, expiration_time |-> 2, payload |-> payload]

AliceScript(n) == User(alice, n, 1, 3, "Script")
Block(proposer, time) ==
  [type |-> "BlockMetadata", proposer |-> proposer, timestamp |-> time]
WriteSet == [type |-> "WriteSet"]

\* Every outcome of verification, by one transaction each.
Rejected ==
  {[AliceScript(0) EXCEPT !.signature_valid = FALSE],
   [AliceScript(0) EXCEPT !.raw_txn_bytes_len = 2],
   [AliceScript(0) EXCEPT !.max_gas_amount = 5],
   [AliceScript(0) EXCEPT !.max_gas_amount = 0],
   [AliceScript(0) EXCEPT !.gas_unit_price = 3],
   [AliceScript(0) EXCEPT !.public_key = k2],
   [AliceScript(0) EXCEPT !.expiration_time = 0],
   [AliceScript(0) EXCEPT !.sender = assoc, !.gas_unit_price = 2],
   [AliceScript(0) EXCEPT !.sender = null]}

\* In blocks of several transactions of two senders, who move each other's coins.
Several ==
  {AliceScript(0), AliceScript(1), User(alice, 1, 0, 1, "Module"),
   User(bob, 0, 1, 2, "Script"), Block(bob, 1), WriteSet}

\* The ways a single transaction can go.
Single ==
  Rejected \cup {AliceScript(0), AliceScript(1), User(alice, 0, 1, 2, "Module"),
                 User(fees, 0, 1, 2, "Script"), User(bob, 0, 2, 1, "Script"),
                 User(alice, 7, 1, 1, "Script"),
                 Block(bob, 0), Block(null, 0), Block(alice, 1)}

MCTransactions == Single \cup Several
MCBlocks == {<<>>} \cup {<<t>> : t \in Single} \cup [1..2 -> Several] \cup [1..3 -> Several]

\* Payments that leave too little for the fee, by the sender and by others, and
\* a key that later transactions do not know.
MCCalls ==
  [function : {"pay_from_sender"}, payee : {bob}, key : {k1}, amount : {1, 3}]
    \cup [function : {"pay_from_sender"}, payee : {alice}, key : {k1}, amount : {1}]
    \cup [function : {"extract_sender_withdrawal_capability"}]
    \cup [function : {"pay_from_capability"}, owner : {alice}, payee : {bob},
          key : {k1}, amount : {3}]
    \cup [function : {"rotate_authentication_key"}, key : {k2}]

Person(coins, sequence_number) ==
  [balance |-> coins, sequence_number |-> sequence_number,
   authentication_key |-> k1, delegated_key_rotation_capability |-> FALSE,
   delegated_withdrawal_capability |-> FALSE]

State(pot, of_alice, n, of_bob) ==
  [account |-> (fees :> [Person(pot, 0) EXCEPT
                           !.delegated_withdrawal_capability = TRUE])
                 @@ (assoc :> Person(0, 0)) @@ (alice :> Person(of_alice, n))
                 @@ (bob :> Person(of_bob, 0)) @@ (null :> NoAccount),
   total_value |-> pot + of_alice + of_bob,
   withdrawal_capability |-> [a \in Addresses |-> IF a = fees THEN 1 ELSE 0],
   key_rotation_capability |-> [a \in Addresses |-> 0],
   now |-> 0, timeout |-> 1]

\* The pot may be empty, nearly full, or due to be shared where the sequence
\* number of alice is the last one.
MCLedgers == {State(0, 4, 0, 3), State(6, 4, 0, 0), State(2, 3, 7, 0)}

MCPayloadErrors == {Status("CODE_DESERIALIZATION_ERROR"), Status("TYPE_MISMATCH")}
MCRuntimeErrors == {Aborted(42), Status("UNKNOWN_INVARIANT_VIOLATION_ERROR")}
MCDiscarded == {Status("UNKNOWN_INVARIANT_VIOLATION_ERROR"), Status("TYPE_MISMATCH")}
MCValidators == <<bob>>
=============================================================================
