----------------------------- MODULE LibraAccount -----------------------------
(***************************************************************************)
(* The account contract (stdlib/modules/libra_account.move) and the parts  *)
(* of Libra, LibraTimestamp and LibraTransactionTimeout it calls, as        *)
(* functions on a ledger.  A call returns the ledger it leaves and its     *)
(* status; the ledger of a failed call is dropped by the VM.               *)
(*                                                                         *)
(* LibraAccount::T and Balance<LBR::T> of an address are one record: only  *)
(* save_account publishes them, both at once, and nothing moves them out.  *)
(* Event streams and metadata are left out.  A key is a member of Keys; a  *)
(* byte string of another length than 32 is a key outside Keys.  An        *)
(* authentication key prefix and its address are one key.                  *)
(***************************************************************************)
EXTENDS Integers, FiniteSets, Functions

CONSTANTS Addresses,
          NullAddress,   \* 0x0, reserved for the VM
          FeeAddress,    \* 0xFEE, holds the transaction fees
          Association,   \* 0xA550C18, holds the only MintCapability
          Keys,          \* authentication keys of the right length
          ShortKey,      \* stands for byte strings of any other length
          NoAccount,     \* nothing published under an address
          MaxU64,
          MintLimit,     \* 1000000000 * 1000000 in the source
          Second,        \* microseconds of a second, 1000000
          MaxTimestamp   \* 9223372036854 in the source

ASSUME AccountAssumption ==
  /\ IsFiniteSet(Addresses)
  /\ {NullAddress, FeeAddress, Association} \subseteq Addresses
  /\ NullAddress \notin {FeeAddress, Association}
  /\ FeeAddress # Association
  /\ ShortKey \notin Keys
  /\ MaxU64 \in Nat /\ MintLimit \in 0..MaxU64
  /\ Second \in Nat \ {0} /\ MaxTimestamp \in Nat
  /\ MaxTimestamp * Second <= MaxU64

U64 == 0..MaxU64

Account == [balance : U64,
            sequence_number : U64,
            authentication_key : Keys,
            delegated_key_rotation_capability : BOOLEAN,
            delegated_withdrawal_capability : BOOLEAN]

ASSUME NoAccountAssumption == NoAccount \notin Account

\* The accounts, the value of all coins, the WithdrawalCapability and
\* KeyRotationCapability values of each account that exist outside of it, the
\* time of the block and the time to live of transactions.
Ledger == [account : [Addresses -> Account \cup {NoAccount}],
           total_value : Nat,
           withdrawal_capability : [Addresses -> Nat],
           key_rotation_capability : [Addresses -> Nat],
           now : U64,
           timeout : U64]

----------------------------------------------------------------------------
(* Outcomes of a call *)

Majors == {"EXECUTED", "ABORTED", "MISSING_DATA", "ARITHMETIC_ERROR",
           "CREATE_NULL_ACCOUNT", "CANNOT_WRITE_EXISTING_RESOURCE"}
Statuses == [major : Majors, sub : Nat]
Status(major) == [major |-> major, sub |-> 0]
Aborted(code) == [major |-> "ABORTED", sub |-> code]
Executed == Status("EXECUTED")

Ok(l) == [status |-> Executed, ledger |-> l]
Fail(l, status) == [status |-> status, ledger |-> l]

\* The rest of a function runs where nothing has failed so far.
Then(r, Rest(_)) == IF r.status = Executed THEN Rest(r.ledger) ELSE r

exists(l, a) == l.account[a] # NoAccount
balance(l, a) == l.account[a].balance

\* The value of the coins in all accounts.
Coins(l) ==
  SumFunction([a \in Addresses |-> IF exists(l, a) THEN balance(l, a) ELSE 0])

\* They are all that has been minted.
Covered(l) == Coins(l) = l.total_value

----------------------------------------------------------------------------
(* Coins and balances *)

\* withdraw_from_balance; INSUFFICIENT_BALANCE is code 10 of Libra::withdraw.
withdraw_from_balance(l, a, amount) ==
  IF ~exists(l, a) THEN Fail(l, Status("MISSING_DATA"))
  ELSE IF balance(l, a) < amount THEN Fail(l, Aborted(10))
  ELSE Ok([l EXCEPT !.account[a].balance = @ - amount])

\* MUTANT: the owner may withdraw although the capability was handed out.
withdraw_from_sender_ignores_delegation(l, sender, amount) ==
  withdraw_from_balance(l, sender, amount)

withdraw_from_sender(l, sender, amount) ==
  IF exists(l, sender) /\ l.account[sender].delegated_withdrawal_capability
  THEN Fail(l, Aborted(11))
  ELSE withdraw_from_balance(l, sender, amount)

\* Libra::deposit: the addition is checked.
deposit_coin(l, a, amount) ==
  IF ~exists(l, a) THEN Fail(l, Status("MISSING_DATA"))
  ELSE IF balance(l, a) + amount > MaxU64
  THEN Fail(l, Status("ARITHMETIC_ERROR"))
  ELSE Ok([l EXCEPT !.account[a].balance = @ + amount])

\* deposit_with_sender_and_metadata: the payer needs an account for the event.
deposit(l, payee, payer, amount) ==
  IF amount = 0 THEN Fail(l, Aborted(7))
  ELSE IF ~exists(l, payer) THEN Fail(l, Status("MISSING_DATA"))
  ELSE deposit_coin(l, payee, amount)

\* create_account with the native save_account.
create_account(l, fresh, key) ==
  IF key \notin Keys THEN Fail(l, Aborted(12))
  ELSE IF fresh = NullAddress THEN Fail(l, Status("CREATE_NULL_ACCOUNT"))
  ELSE IF exists(l, fresh)
  THEN Fail(l, Status("CANNOT_WRITE_EXISTING_RESOURCE"))
  ELSE Ok([l EXCEPT !.account[fresh] =
             [balance |-> 0, sequence_number |-> 0, authentication_key |-> key,
              delegated_key_rotation_capability |-> FALSE,
              delegated_withdrawal_capability |-> FALSE]])

create_if_missing(l, payee, key) ==
  IF exists(l, payee) THEN Ok(l) ELSE create_account(l, payee, key)

pay_from_sender(l, sender, payee, key, amount) ==
  Then(create_if_missing(l, payee, key), LAMBDA l1 :
  Then(withdraw_from_sender(l1, sender, amount), LAMBDA l2 :
  deposit(l2, payee, sender, amount)))

\* The caller holds a reference to the capability of payer.
pay_from_capability(l, payer, payee, key, amount) ==
  Then(create_if_missing(l, payee, key), LAMBDA l1 :
  Then(withdraw_from_balance(l1, payer, amount), LAMBDA l2 :
  deposit(l2, payee, payer, amount)))

create_new_account(l, sender, fresh, key, initial_balance) ==
  Then(create_account(l, fresh, key), LAMBDA l1 :
  IF initial_balance = 0 THEN Ok(l1)
  ELSE Then(withdraw_from_sender(l1, sender, initial_balance), LAMBDA l2 :
       deposit(l2, fresh, sender, initial_balance)))

\* MUTANT: the market cap is not told about the new coins.
mint_uncounted(l, sender, amount) ==
  IF sender # Association THEN Fail(l, Status("MISSING_DATA"))
  ELSE IF amount > MintLimit THEN Fail(l, Aborted(11))
  ELSE Ok(l)

\* Libra::mint needs the MintCapability under the sender.
mint(l, sender, amount) ==
  IF sender # Association THEN Fail(l, Status("MISSING_DATA"))
  ELSE IF amount > MintLimit THEN Fail(l, Aborted(11))
  ELSE Ok([l EXCEPT !.total_value = @ + amount])

mint_to_address(l, sender, payee, key, amount) ==
  Then(create_if_missing(l, payee, key), LAMBDA l1 :
  Then(mint(l1, sender, amount), LAMBDA l2 :
  deposit(l2, payee, sender, amount)))

----------------------------------------------------------------------------
(* Keys and capabilities *)

rotate_authentication_key_for_account(l, a, key) ==
  IF ~exists(l, a) THEN Fail(l, Status("MISSING_DATA"))
  ELSE IF key \notin Keys THEN Fail(l, Aborted(12))
  ELSE Ok([l EXCEPT !.account[a].authentication_key = key])

rotate_authentication_key(l, sender, key) ==
  IF exists(l, sender) /\ l.account[sender].delegated_key_rotation_capability
  THEN Fail(l, Aborted(11))
  ELSE rotate_authentication_key_for_account(l, sender, key)

\* MUTANT: a second capability is handed out.
extract_sender_withdrawal_capability_again(l, sender) ==
  IF ~exists(l, sender) THEN Fail(l, Status("MISSING_DATA"))
  ELSE Ok([l EXCEPT
         !.account[sender].delegated_withdrawal_capability = TRUE,
         !.withdrawal_capability[sender] = @ + 1])

extract_sender_withdrawal_capability(l, sender) ==
  IF ~exists(l, sender) THEN Fail(l, Status("MISSING_DATA"))
  ELSE IF l.account[sender].delegated_withdrawal_capability
  THEN Fail(l, Aborted(11))
  ELSE Ok([l EXCEPT
         !.account[sender].delegated_withdrawal_capability = TRUE,
         !.withdrawal_capability[sender] = @ + 1])

\* The capability of owner is consumed.
restore_withdrawal_capability(l, owner) ==
  IF ~exists(l, owner) THEN Fail(l, Status("MISSING_DATA"))
  ELSE Ok([l EXCEPT
         !.account[owner].delegated_withdrawal_capability = FALSE,
         !.withdrawal_capability[owner] = @ - 1])

extract_sender_key_rotation_capability(l, sender) ==
  IF ~exists(l, sender) THEN Fail(l, Status("MISSING_DATA"))
  ELSE IF l.account[sender].delegated_key_rotation_capability
  THEN Fail(l, Aborted(11))
  ELSE Ok([l EXCEPT
         !.account[sender].delegated_key_rotation_capability = TRUE,
         !.key_rotation_capability[sender] = @ + 1])

restore_key_rotation_capability(l, owner) ==
  IF ~exists(l, owner) THEN Fail(l, Status("MISSING_DATA"))
  ELSE Ok([l EXCEPT
         !.account[owner].delegated_key_rotation_capability = FALSE,
         !.key_rotation_capability[owner] = @ - 1])

----------------------------------------------------------------------------
(* Time *)

set_timeout(l, sender, duration) ==
  IF sender # Association THEN Fail(l, Aborted(1))
  ELSE Ok([l EXCEPT !.timeout = duration])

\* The sum of the block time and the time to live is computed, with its
\* overflow check, and not used.
is_valid_transaction_timestamp(l, timestamp) ==
  IF timestamp > MaxTimestamp THEN Fail(l, Aborted(7))
  ELSE IF l.now + l.timeout > MaxU64 THEN Fail(l, Status("ARITHMETIC_ERROR"))
  ELSE IF l.now < timestamp * Second THEN Ok(l)
  ELSE Fail(l, Aborted(7))

\* LibraTimestamp::update_global_time: a NIL block keeps the time, any other
\* advances it.
update_global_time(l, proposer, timestamp) ==
  IF (proposer = NullAddress /\ timestamp # l.now)
     \/ (proposer # NullAddress /\ timestamp <= l.now)
  THEN Fail(l, Aborted(5001))
  ELSE Ok([l EXCEPT !.now = timestamp])

----------------------------------------------------------------------------
(* Before and after the payload of a transaction *)

\* MUTANT: the sequence number is not compared from above.
prologue_accepts_future(l, txn) ==
  LET sender == l.account[txn.sender]
      max_transaction_fee == txn.gas_unit_price * txn.max_gas_amount
  IN  IF sender = NoAccount THEN Fail(l, Aborted(5))
      ELSE IF txn.public_key # sender.authentication_key
      THEN Fail(l, Aborted(2))
      ELSE IF max_transaction_fee > MaxU64
      THEN Fail(l, Status("ARITHMETIC_ERROR"))
      ELSE IF sender.balance < max_transaction_fee THEN Fail(l, Aborted(6))
      ELSE IF txn.sequence_number < sender.sequence_number
      THEN Fail(l, Aborted(3))
      ELSE is_valid_transaction_timestamp(l, txn.expiration_time)

\* MUTANT: the deposit for the gas is not asked for.
prologue_skips_deposit(l, txn) ==
  LET sender == l.account[txn.sender]
  IN  IF sender = NoAccount THEN Fail(l, Aborted(5))
      ELSE IF txn.public_key # sender.authentication_key
      THEN Fail(l, Aborted(2))
      ELSE IF txn.sequence_number < sender.sequence_number
      THEN Fail(l, Aborted(3))
      ELSE IF txn.sequence_number > sender.sequence_number
      THEN Fail(l, Aborted(4))
      ELSE is_valid_transaction_timestamp(l, txn.expiration_time)

\* public_key stands for its hash, the key it authenticates with.
prologue(l, txn) ==
  LET sender == l.account[txn.sender]
      max_transaction_fee == txn.gas_unit_price * txn.max_gas_amount
  IN  IF sender = NoAccount THEN Fail(l, Aborted(5))
      ELSE IF txn.public_key # sender.authentication_key
      THEN Fail(l, Aborted(2))
      ELSE IF max_transaction_fee > MaxU64
      THEN Fail(l, Status("ARITHMETIC_ERROR"))
      ELSE IF sender.balance < max_transaction_fee THEN Fail(l, Aborted(6))
      ELSE IF txn.sequence_number < sender.sequence_number
      THEN Fail(l, Aborted(3))
      ELSE IF txn.sequence_number > sender.sequence_number
      THEN Fail(l, Aborted(4))
      ELSE is_valid_transaction_timestamp(l, txn.expiration_time)

fee(txn, gas_left) == txn.gas_unit_price * (txn.max_gas_amount - gas_left)

\* The fee goes into the pot even when it is zero; the increment is checked.
epilogue(l, txn, gas_left) ==
  LET amount == fee(txn, gas_left)
  IN  IF ~exists(l, txn.sender) THEN Fail(l, Status("MISSING_DATA"))
      ELSE IF amount > MaxU64 THEN Fail(l, Status("ARITHMETIC_ERROR"))
      ELSE IF balance(l, txn.sender) < amount THEN Fail(l, Aborted(6))
      ELSE IF txn.sequence_number + 1 > MaxU64
      THEN Fail(l, Status("ARITHMETIC_ERROR"))
      ELSE Then(withdraw_from_balance(l, txn.sender, amount), LAMBDA l1 :
           deposit_coin([l1 EXCEPT !.account[txn.sender].sequence_number =
                           txn.sequence_number + 1], FeeAddress, amount))

----------------------------------------------------------------------------
(* What code run by sender may call.  A capability outside of its account  *)
(* may be in anybody's reach, but for the one of the fee account, which    *)
(* TransactionFee keeps to itself.                                         *)

\* The calls and the arguments they take.
Invocations ==
  [function : {"pay_from_sender", "mint_to_address", "create_new_account"},
   payee : Addresses, key : Keys \cup {ShortKey}, amount : U64]
    \cup [function : {"pay_from_capability"}, owner : Addresses,
          payee : Addresses, key : Keys \cup {ShortKey}, amount : U64]
    \cup [function : {"create_account"},
          payee : Addresses, key : Keys \cup {ShortKey}]
    \cup [function : {"rotate_authentication_key"}, key : Keys \cup {ShortKey}]
    \cup [function : {"rotate_authentication_key_with_capability"},
          owner : Addresses, key : Keys \cup {ShortKey}]
    \cup [function : {"extract_sender_withdrawal_capability",
                      "extract_sender_key_rotation_capability"}]
    \cup [function : {"restore_withdrawal_capability",
                      "restore_key_rotation_capability"}, owner : Addresses]
    \cup [function : {"set_timeout"}, amount : U64]

CanUse(capability, owner) == capability[owner] > 0 /\ owner # FeeAddress

call(l, sender, c) ==
  CASE c.function = "pay_from_sender" ->
         pay_from_sender(l, sender, c.payee, c.key, c.amount)
    [] c.function = "pay_from_capability" ->
         pay_from_capability(l, c.owner, c.payee, c.key, c.amount)
    [] c.function = "mint_to_address" ->
         mint_to_address(l, sender, c.payee, c.key, c.amount)
    [] c.function = "create_account" -> create_account(l, c.payee, c.key)
    [] c.function = "create_new_account" ->
         create_new_account(l, sender, c.payee, c.key, c.amount)
    [] c.function = "rotate_authentication_key" ->
         rotate_authentication_key(l, sender, c.key)
    [] c.function = "rotate_authentication_key_with_capability" ->
         rotate_authentication_key_for_account(l, c.owner, c.key)
    [] c.function = "extract_sender_withdrawal_capability" ->
         extract_sender_withdrawal_capability(l, sender)
    [] c.function = "restore_withdrawal_capability" ->
         restore_withdrawal_capability(l, c.owner)
    [] c.function = "extract_sender_key_rotation_capability" ->
         extract_sender_key_rotation_capability(l, sender)
    [] c.function = "restore_key_rotation_capability" ->
         restore_key_rotation_capability(l, c.owner)
    [] c.function = "set_timeout" -> set_timeout(l, sender, c.amount)

\* A call that takes a capability needs one in reach.
Callable(l, c) ==
  CASE c.function \in {"pay_from_capability", "restore_withdrawal_capability"} ->
         CanUse(l.withdrawal_capability, c.owner)
    [] c.function \in {"rotate_authentication_key_with_capability",
                       "restore_key_rotation_capability"} ->
         CanUse(l.key_rotation_capability, c.owner)
    [] OTHER -> TRUE
=============================================================================
