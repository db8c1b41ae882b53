---------------------------- MODULE MCAccountCalls ----------------------------
(* The association, the fee account and two users, one of which need not exist
   yet.  u64 is two bits wide, so that balances reach their limit with the few
   coins MaxSupply allows. *)
EXTENDS AccountCalls

CONSTANTS null, fees, assoc, alice, bob, k1, k2, short

Extract == [function : {"extract_sender_withdrawal_capability",
                        "extract_sender_key_rotation_capability"}]
Restore(owners) ==
  [function : {"restore_withdrawal_capability", "restore_key_rotation_capability"},
   owner : owners]
Pay(function, payees, amounts) ==
  [function : {function}, payee : payees, key : {k1}, amount : amounts]
Rotate(keys) == [function : {"rotate_authentication_key"}, key : keys]

\* The association mints and has a hand in alice's key; alice pays, hands her
\* capabilities out and puts any back; bob, whom the others create, uses what is
\* out, and puts back what is alice's.
MCCallsOf ==
  [a \in Addresses |->
     CASE a = assoc ->
            Pay("mint_to_address", {alice, bob}, {1, 2})
              \cup Pay("pay_from_sender", {alice, bob}, {1})
              \cup [function : {"rotate_authentication_key_with_capability"},
                    owner : {alice}, key : {k2, short}]
       [] a = alice ->
            Pay("pay_from_sender", {bob}, 0..2) \cup Pay("pay_from_sender", {fees}, {1, 2})
              \cup Pay("create_new_account", {bob}, 0..2)
              \cup Extract \cup Restore({alice, bob}) \cup Rotate({k1, k2})
       [] a = bob ->
            [function : {"pay_from_capability"}, owner : {alice}, payee : {assoc, bob},
             key : {k1}, amount : {1, 2}]
              \cup Pay("pay_from_sender", {null, alice}, {1})
              \cup [function : {"create_account"}, payee : {null, alice}, key : {k1, short}]
              \cup Extract \cup Restore({alice}) \cup Rotate({k2, short})
       [] OTHER -> {}]

Genesis(accounts, coins, delegated) ==
  [account |-> [a \in Addresses |->
     IF a \notin accounts THEN NoAccount
     ELSE [balance |-> IF a = assoc THEN coins ELSE 0,
           sequence_number |-> IF a \in {assoc, alice} THEN 1 ELSE 0,
           authentication_key |-> k1,
           delegated_key_rotation_capability |-> FALSE,
           delegated_withdrawal_capability |-> a \in delegated]],
   total_value |-> coins,
   withdrawal_capability |-> [a \in Addresses |-> IF a \in delegated THEN 1 ELSE 0],
   key_rotation_capability |-> [a \in Addresses |-> 0],
   now |-> 0, timeout |-> 1]

MCFirstLedgers ==
  {Genesis({fees, assoc, alice}, 3, {fees}), Genesis({fees, assoc}, 1, {fees})}

MCMetadata ==
  [proposer : {null, alice, bob}, timestamp : {0, 1, 2}]

MCValidatorSet == <<assoc, alice>>
=============================================================================
