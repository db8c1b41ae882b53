------------------------------ MODULE LibraBlock ------------------------------
(***************************************************************************)
(* What the VM runs at the start of a block, as functions on a ledger:      *)
(* LibraBlock::block_prologue, the check of its proposer and its time, and  *)
(* TransactionFee::distribute_transaction_fees.  The validators are the     *)
(* addresses of LibraSystem's ValidatorSet in their order, each once.  The   *)
(* height of the block and the event it emits are left out.                 *)
(***************************************************************************)
EXTENDS LibraAccount, SequencesExt

\* The proposer of a NIL block is 0x0.
process_block_prologue(l, validators, metadata) ==
  IF metadata.proposer # NullAddress
     /\ metadata.proposer \notin ToSet(validators)
  THEN Fail(l, Aborted(5002))
  ELSE update_global_time(l, metadata.proposer, metadata.timestamp)

per_validator_distribution_amount(collected, num_validators) ==
  collected \div num_validators

\* The validators are paid one after the other with the capability of the fee
\* account; the account of a validator would be created with an authentication
\* key prefix of no bytes.
distribute_transaction_fees_internal(l, validators, amount) ==
  LET after[index \in 0..Len(validators)] ==
        IF index = 0 THEN Ok(l)
        ELSE Then(after[index - 1], LAMBDA l1 :
             pay_from_capability(l1, FeeAddress, validators[index], ShortKey, amount))
  IN  after[Len(validators)]

\* Without validators nothing is less than their number, and the division is
\* guarded by an assertion.
distribute_transaction_fees(l, validators) ==
  LET num_validators == Len(validators)
      collected == balance(l, FeeAddress)
  IN  IF ~exists(l, FeeAddress) THEN Fail(l, Status("MISSING_DATA"))
      ELSE IF collected < num_validators THEN Ok(l)
      ELSE IF num_validators = 0 THEN Fail(l, Aborted(0))
      ELSE distribute_transaction_fees_internal(l, validators,
             per_validator_distribution_amount(collected, num_validators))

block_prologue(l, validators, metadata) ==
  Then(process_block_prologue(l, validators, metadata), LAMBDA l1 :
  distribute_transaction_fees(l1, validators))
=============================================================================
