-------------------------- MODULE AccountCalls_proofs --------------------------
(***************************************************************************)
(* What the calls of LibraAccount and LibraBlock return and what they leave *)
(* alone, and from that the proofs about accounts that call each other's    *)
(* code, for any addresses, calls, validators and width of u64.  The lemmas *)
(* on the calls carry the proofs about the block executor as well.          *)
(***************************************************************************)
EXTENDS AccountCalls, SumTheorems

\* An account is there exactly when its record is one.
LEMMA ExistsIsAccount ==
  ASSUME NEW l \in Ledger, NEW a \in Addresses
  PROVE  exists(l, a) <=> l.account[a] \in Account
BY NoAccountAssumption DEF exists, Ledger

----------------------------------------------------------------------------
(* Moving coins and creating accounts *)

\* The step from ledger l to ledger m moves coins of payers only, adds accounts
\* that have kept their capabilities, and changes nothing else.
Pays(l, m, payers) ==
  /\ m.withdrawal_capability = l.withdrawal_capability
  /\ m.key_rotation_capability = l.key_rotation_capability
  /\ \A a \in Addresses : exists(l, a) =>
       /\ exists(m, a)
       /\ m.account[a].sequence_number = l.account[a].sequence_number
       /\ m.account[a].authentication_key = l.account[a].authentication_key
       /\ m.account[a].delegated_key_rotation_capability =
            l.account[a].delegated_key_rotation_capability
       /\ m.account[a].delegated_withdrawal_capability =
            l.account[a].delegated_withdrawal_capability
       /\ a \notin payers => balance(l, a) <= balance(m, a)
  /\ \A a \in Addresses : exists(m, a) /\ ~exists(l, a) =>
       /\ m.account[a].sequence_number = 0
       /\ ~m.account[a].delegated_key_rotation_capability
       /\ ~m.account[a].delegated_withdrawal_capability

Typed(r) == r \in [status : Statuses, ledger : Ledger]

\* The outcome r of a call over ledger l.
Paid(r, l, payers) == Typed(r) /\ Pays(l, r.ledger, payers)

LEMMA StatusType ==
  /\ Executed \in Statuses
  /\ \A code \in Nat : Aborted(code) \in Statuses /\ Aborted(code) # Executed
  /\ \A major \in Majors : Status(major) \in Statuses
  /\ \A major \in Majors \ {"EXECUTED"} : Status(major) # Executed
BY DEF Statuses, Majors, Executed, Status, Aborted

LEMMA U64Type == MaxU64 \in Nat /\ U64 \subseteq Nat
BY AccountAssumption DEF U64

LEMMA BalanceType ==
  ASSUME NEW l \in Ledger, NEW a \in Addresses, exists(l, a)
  PROVE  balance(l, a) \in U64 /\ balance(l, a) \in Nat
BY ExistsIsAccount, U64Type DEF balance, Account

\* Doing nothing moves no coins.
LEMMA PaysRefl ==
  ASSUME NEW l \in Ledger, NEW payers
  PROVE  Pays(l, l, payers)
<1>1. ASSUME NEW a \in Addresses, exists(l, a)
      PROVE  balance(l, a) <= balance(l, a)
  <2>1. balance(l, a) \in Nat
    BY <1>1, BalanceType
  <2> QED
    BY <2>1
<1> QED
  BY <1>1, Zenon DEF Pays

LEMMA PaysTrans ==
  ASSUME NEW l \in Ledger, NEW m \in Ledger, NEW n \in Ledger, NEW payers,
         Pays(l, m, payers), Pays(m, n, payers)
  PROVE  Pays(l, n, payers)
<1>1. ASSUME NEW a \in Addresses, exists(l, a), a \notin payers
      PROVE  balance(l, a) <= balance(n, a)
  <2>1. balance(l, a) <= balance(m, a) /\ balance(m, a) <= balance(n, a)
    BY <1>1 DEF Pays
  <2>2. exists(m, a) /\ exists(n, a)
    BY <1>1 DEF Pays
  <2>3. balance(l, a) \in Nat /\ balance(m, a) \in Nat /\ balance(n, a) \in Nat
    BY <2>2, <1>1, BalanceType
  <2> QED
    BY <2>1, <2>3
<1> QED
  BY <1>1, Zenon DEF Pays

\* The next call of a sequence.
LEMMA PaidThen ==
  ASSUME NEW l \in Ledger, NEW payers,
         NEW r1, Paid(r1, l, payers), NEW r2, Paid(r2, r1.ledger, payers)
  PROVE  Paid(r2, l, payers)
BY PaysTrans DEF Paid, Typed

LEMMA PaidFail ==
  ASSUME NEW l \in Ledger, NEW payers, NEW status \in Statuses
  PROVE  Paid(Fail(l, status), l, payers)
BY PaysRefl DEF Paid, Typed, Fail

LEMMA PaidOk ==
  ASSUME NEW l \in Ledger, NEW payers
  PROVE  Paid(Ok(l), l, payers)
BY PaysRefl, StatusType DEF Paid, Typed, Ok

\* Setting the balance of an account.
LEMMA SetBalance ==
  ASSUME NEW l \in Ledger, NEW a \in Addresses, exists(l, a), NEW b \in U64,
         NEW m, m = [l EXCEPT !.account[a].balance = b]
  PROVE  /\ m \in Ledger
         /\ balance(m, a) = b
         /\ \A payers : a \in payers \/ balance(l, a) <= b => Pays(l, m, payers)
<1>1. l.account[a] \in Account
  BY ExistsIsAccount
<1>2. [l.account[a] EXCEPT !.balance = b] \in Account
  BY <1>1 DEF Account
<1>3. m.account = [l.account EXCEPT ![a] = [l.account[a] EXCEPT !.balance = b]]
  BY DEF Ledger
<1>4. m \in Ledger
  BY <1>2 DEF Ledger
<1>5. \A x \in Addresses : x # a => m.account[x] = l.account[x]
  BY <1>3 DEF Ledger
<1>6. m.account[a] = [l.account[a] EXCEPT !.balance = b]
  BY <1>3 DEF Ledger
<1>7. exists(m, a)
  BY <1>2, <1>6, NoAccountAssumption DEF exists
<1>8. \A x \in Addresses : exists(m, x) <=> exists(l, x)
  BY <1>5, <1>7 DEF exists
<1>9. /\ m.withdrawal_capability = l.withdrawal_capability
      /\ m.key_rotation_capability = l.key_rotation_capability
  BY DEF Ledger
<1>10. /\ m.account[a].balance = b
       /\ m.account[a].sequence_number = l.account[a].sequence_number
       /\ m.account[a].authentication_key = l.account[a].authentication_key
       /\ m.account[a].delegated_key_rotation_capability =
            l.account[a].delegated_key_rotation_capability
       /\ m.account[a].delegated_withdrawal_capability =
            l.account[a].delegated_withdrawal_capability
  BY <1>6, <1>1 DEF Account
<1>11. \A x \in Addresses : exists(l, x) => balance(l, x) \in Nat
  BY BalanceType
<1>12. ASSUME NEW payers, a \in payers \/ balance(l, a) <= b
       PROVE  Pays(l, m, payers)
  <2>1. ASSUME NEW x \in Addresses, exists(l, x), x \notin payers
        PROVE  balance(l, x) <= balance(m, x)
    <3>1. balance(l, x) \in Nat
      BY <2>1, <1>11
    <3>2. CASE x = a
      BY <2>1, <3>2, <1>12, <1>10 DEF balance
    <3>3. CASE x # a
      BY <3>1, <3>3, <1>5 DEF balance
    <3> QED
      BY <3>2, <3>3
  <2> QED
    BY <2>1, <1>5, <1>8, <1>9, <1>10, Zenon DEF Pays
<1> QED
  BY <1>4, <1>10, <1>12 DEF balance

LEMMA WithdrawPays ==
  ASSUME NEW l \in Ledger, NEW a \in Addresses, NEW amount \in Nat
  PROVE  Paid(withdraw_from_balance(l, a, amount), l, {a})
<1>1. exists(l, a) => balance(l, a) \in U64 /\ balance(l, a) \in Nat
  BY BalanceType
<1>2. CASE ~exists(l, a)
  BY <1>2, PaidFail, StatusType DEF Majors, withdraw_from_balance
<1>3. CASE exists(l, a) /\ balance(l, a) < amount
  BY <1>3, PaidFail, StatusType DEF Majors, withdraw_from_balance
<1>4. CASE exists(l, a) /\ ~(balance(l, a) < amount)
  <2> DEFINE m == [l EXCEPT !.account[a].balance = balance(l, a) - amount]
  <2>1. withdraw_from_balance(l, a, amount) = Ok(m)
    BY <1>4 DEF withdraw_from_balance, balance
  <2>2. balance(l, a) - amount \in U64
    BY <1>4, <1>1, U64Type DEF U64
  <2>3. m \in Ledger /\ Pays(l, m, {a})
    BY <1>4, <2>2, SetBalance
  <2> QED
    BY <2>1, <2>3, StatusType DEF Paid, Typed, Ok
<1> QED
  BY <1>2, <1>3, <1>4

LEMMA DepositPays ==
  ASSUME NEW l \in Ledger, NEW a \in Addresses, NEW amount \in Nat, NEW payers
  PROVE  Paid(deposit_coin(l, a, amount), l, payers)
<1>1. exists(l, a) => balance(l, a) \in U64 /\ balance(l, a) \in Nat
  BY BalanceType
<1>2. CASE ~exists(l, a)
  BY <1>2, PaidFail, StatusType DEF Majors, deposit_coin
<1>3. CASE exists(l, a) /\ balance(l, a) + amount > MaxU64
  BY <1>3, PaidFail, StatusType DEF Majors, deposit_coin
<1>4. CASE exists(l, a) /\ ~(balance(l, a) + amount > MaxU64)
  <2> DEFINE m == [l EXCEPT !.account[a].balance = balance(l, a) + amount]
  <2>1. deposit_coin(l, a, amount) = Ok(m)
    BY <1>4 DEF deposit_coin, balance
  <2>2. balance(l, a) + amount \in U64
    BY <1>4, <1>1, U64Type DEF U64
  <2>3. balance(l, a) <= balance(l, a) + amount
    BY <1>1, <1>4
  <2>4. m \in Ledger /\ Pays(l, m, payers)
    BY <1>4, <2>2, <2>3, SetBalance
  <2> QED
    BY <2>1, <2>4, StatusType DEF Paid, Typed, Ok
<1> QED
  BY <1>2, <1>3, <1>4

LEMMA WithdrawFromSenderPays ==
  ASSUME NEW l \in Ledger, NEW sender \in Addresses, NEW amount \in Nat,
         NEW r, r = withdraw_from_sender(l, sender, amount)
  PROVE  /\ Paid(r, l, {sender})
         /\ r.status = Executed =>
              exists(l, sender)
                /\ ~l.account[sender].delegated_withdrawal_capability
<1>1. CASE exists(l, sender) /\ l.account[sender].delegated_withdrawal_capability
  <2>1. r = Fail(l, Aborted(11))
    BY <1>1 DEF withdraw_from_sender
  <2>2. r.status # Executed
    BY <2>1, StatusType DEF Fail
  <2>3. Paid(r, l, {sender})
    BY <2>1, PaidFail, StatusType
  <2> QED
    BY <2>2, <2>3
<1>2. CASE ~(exists(l, sender) /\ l.account[sender].delegated_withdrawal_capability)
  <2>1. r = withdraw_from_balance(l, sender, amount)
    BY <1>2 DEF withdraw_from_sender
  <2>2. ASSUME ~exists(l, sender) PROVE r.status # Executed
    <3>1. r = Fail(l, Status("MISSING_DATA"))
      BY <2>1, <2>2, Zenon DEF withdraw_from_balance
    <3>2. r.status = Status("MISSING_DATA")
      BY <3>1 DEF Fail
    <3> QED
      BY <3>2, StatusType DEF Majors
  <2>3. Paid(r, l, {sender})
    BY <2>1, WithdrawPays
  <2> QED
    BY <1>2, <2>2, <2>3, Zenon
<1> QED
  BY <1>1, <1>2

LEMMA DepositMetadataPays ==
  ASSUME NEW l \in Ledger, NEW payee \in Addresses, NEW payer \in Addresses,
         NEW amount \in Nat, NEW payers
  PROVE  Paid(deposit(l, payee, payer, amount), l, payers)
<1>1. Paid(Fail(l, Aborted(7)), l, payers)
  BY PaidFail, StatusType
<1>2. Paid(Fail(l, Status("MISSING_DATA")), l, payers)
  BY PaidFail, StatusType DEF Majors
<1> QED
  BY <1>1, <1>2, DepositPays, Zenon DEF deposit

LEMMA CreatePays ==
  ASSUME NEW l \in Ledger, NEW fresh \in Addresses, NEW key, NEW payers
  PROVE  Paid(create_account(l, fresh, key), l, payers)
<1> DEFINE new ==
      [balance |-> 0, sequence_number |-> 0, authentication_key |-> key,
       delegated_key_rotation_capability |-> FALSE,
       delegated_withdrawal_capability |-> FALSE]
    m == [l EXCEPT !.account[fresh] = new]
<1>1. CASE key \notin Keys \/ fresh = NullAddress \/ exists(l, fresh)
  <2>1. /\ Paid(Fail(l, Aborted(12)), l, payers)
        /\ Paid(Fail(l, Status("CREATE_NULL_ACCOUNT")), l, payers)
        /\ Paid(Fail(l, Status("CANNOT_WRITE_EXISTING_RESOURCE")), l, payers)
    BY PaidFail, StatusType DEF Majors
  <2> QED
    BY <1>1, <2>1, Zenon DEF create_account
<1>2. CASE key \in Keys /\ fresh # NullAddress /\ ~exists(l, fresh)
  <2>1. create_account(l, fresh, key) = Ok(m)
    BY <1>2 DEF create_account
  <2>2. new \in Account
    BY <1>2, U64Type DEF Account, U64
  <2>3. m.account = [l.account EXCEPT ![fresh] = new]
    BY DEF Ledger
  <2>4. m \in Ledger
    BY <2>2 DEF Ledger
  <2>5. m.account[fresh] = new /\ \A x \in Addresses : x # fresh => m.account[x] = l.account[x]
    BY <2>3 DEF Ledger
  <2>6. Pays(l, m, payers)
    <3>1. /\ m.withdrawal_capability = l.withdrawal_capability
          /\ m.key_rotation_capability = l.key_rotation_capability
      BY DEF Ledger
    <3>2. ASSUME NEW a \in Addresses, exists(l, a)
          PROVE  m.account[a] = l.account[a] /\ exists(m, a)
                 /\ balance(l, a) <= balance(m, a)
      <4>1. m.account[a] = l.account[a]
        BY <1>2, <2>5, <3>2
      <4>2. balance(l, a) \in Nat
        BY <3>2, BalanceType
      <4>3. balance(m, a) = balance(l, a)
        BY <4>1, Zenon DEF balance
      <4>4. exists(m, a)
        BY <4>1, <3>2, Zenon DEF exists
      <4> QED
        BY <4>1, <4>2, <4>3, <4>4
    <3>3. ASSUME NEW a \in Addresses, exists(m, a), ~exists(l, a)
          PROVE  /\ m.account[a].sequence_number = 0
                 /\ ~m.account[a].delegated_key_rotation_capability
                 /\ ~m.account[a].delegated_withdrawal_capability
      <4>1. a = fresh
        BY <2>5, <3>3 DEF exists
      <4> QED
        BY <4>1, <2>5
    <3> QED
      BY <3>1, <3>2, <3>3, Zenon DEF Pays
  <2> QED
    BY <2>1, <2>4, <2>6, StatusType DEF Paid, Typed, Ok
<1> QED
  BY <1>1, <1>2

LEMMA CreateIfMissingPays ==
  ASSUME NEW l \in Ledger, NEW payee \in Addresses, NEW key, NEW payers
  PROVE  Paid(create_if_missing(l, payee, key), l, payers)
BY CreatePays, PaidOk, Zenon DEF create_if_missing

LEMMA MintPays ==
  ASSUME NEW l \in Ledger, NEW sender, NEW amount \in Nat, NEW payers
  PROVE  Paid(mint(l, sender, amount), l, payers)
<1> DEFINE m == [l EXCEPT !.total_value = @ + amount]
<1>1. Paid(Fail(l, Status("MISSING_DATA")), l, payers)
      /\ Paid(Fail(l, Aborted(11)), l, payers)
  BY PaidFail, StatusType DEF Majors
<1>2. m \in Ledger
  BY DEF Ledger
<1>3. /\ m.account = l.account
      /\ m.withdrawal_capability = l.withdrawal_capability
      /\ m.key_rotation_capability = l.key_rotation_capability
  BY DEF Ledger
<1>4. Pays(l, m, payers)
  <2>1. Pays(l, l, payers)
    BY PaysRefl
  <2> QED
    BY <1>3, <2>1, Zenon DEF Pays, exists, balance
<1>5. Paid(Ok(m), l, payers)
  BY <1>2, <1>4, StatusType DEF Paid, Typed, Ok
<1> QED
  BY <1>1, <1>5, Zenon DEF mint

----------------------------------------------------------------------------
(* Payments *)

\* Only the sender pays, and only with its capability at home.
LEMMA PayFromSenderPays ==
  ASSUME NEW l \in Ledger, NEW sender \in Addresses, NEW payee \in Addresses,
         NEW key, NEW amount \in Nat,
         NEW r, r = pay_from_sender(l, sender, payee, key, amount)
  PROVE  /\ Paid(r, l, {sender})
         /\ r.status = Executed /\ exists(l, sender) =>
              ~l.account[sender].delegated_withdrawal_capability
<1> DEFINE r1 == create_if_missing(l, payee, key)
           r2 == withdraw_from_sender(r1.ledger, sender, amount)
           r3 == deposit(r2.ledger, payee, sender, amount)
<1>1. Paid(r1, l, {sender})
  BY CreateIfMissingPays
<1>2. r1.ledger \in Ledger
  BY <1>1 DEF Paid, Typed
<1>3. /\ Paid(r2, r1.ledger, {sender})
      /\ r2.status = Executed =>
           exists(r1.ledger, sender)
             /\ ~r1.ledger.account[sender].delegated_withdrawal_capability
  BY <1>2, WithdrawFromSenderPays
<1>4. r2.ledger \in Ledger
  BY <1>3 DEF Paid, Typed
<1>5. Paid(r3, r2.ledger, {sender})
  BY <1>4, DepositMetadataPays
<1>6. Paid(r2, l, {sender}) /\ Paid(r3, l, {sender})
  <2>1. Paid(r2, l, {sender})
    BY <1>1, <1>3, PaidThen
  <2> QED
    BY <2>1, <1>5, PaidThen
<1>7. r2.status = Executed /\ exists(l, sender) =>
        ~l.account[sender].delegated_withdrawal_capability
  BY <1>1, <1>3 DEF Paid, Pays
<1>8. r = IF r1.status = Executed
          THEN IF r2.status = Executed THEN r3 ELSE r2
          ELSE r1
  BY DEF pay_from_sender, Then
<1> QED
  BY <1>1, <1>6, <1>7, <1>8, Zenon

LEMMA PayFromCapabilityPays ==
  ASSUME NEW l \in Ledger, NEW payer \in Addresses, NEW payee \in Addresses,
         NEW key, NEW amount \in Nat
  PROVE  Paid(pay_from_capability(l, payer, payee, key, amount), l, {payer})
<1> DEFINE r1 == create_if_missing(l, payee, key)
           r2 == withdraw_from_balance(r1.ledger, payer, amount)
           r3 == deposit(r2.ledger, payee, payer, amount)
<1>1. Paid(r1, l, {payer})
  BY CreateIfMissingPays
<1>2. Paid(r2, r1.ledger, {payer})
  BY <1>1, WithdrawPays DEF Paid, Typed
<1>3. Paid(r3, r2.ledger, {payer})
  BY <1>2, DepositMetadataPays DEF Paid, Typed
<1>4. Paid(r2, l, {payer})
  BY <1>1, <1>2, PaidThen
<1>5. Paid(r3, l, {payer})
  BY <1>3, <1>4, PaidThen
<1>6. pay_from_capability(l, payer, payee, key, amount) =
        IF r1.status = Executed
        THEN IF r2.status = Executed THEN r3 ELSE r2
        ELSE r1
  BY DEF pay_from_capability, Then
<1> QED
  BY <1>1, <1>4, <1>5, <1>6, Zenon

LEMMA CreateNewAccountPays ==
  ASSUME NEW l \in Ledger, NEW sender \in Addresses, NEW fresh \in Addresses,
         NEW key, NEW amount \in Nat,
         NEW r, r = create_new_account(l, sender, fresh, key, amount)
  PROVE  /\ Paid(r, l, {sender})
         /\ r.status = Executed /\ amount # 0 /\ exists(l, sender) =>
              ~l.account[sender].delegated_withdrawal_capability
         /\ r.status = Executed /\ amount = 0 => Paid(r, l, {})
<1> DEFINE r1 == create_account(l, fresh, key)
           r2 == withdraw_from_sender(r1.ledger, sender, amount)
           r3 == deposit(r2.ledger, fresh, sender, amount)
<1>1. Paid(r1, l, {sender}) /\ Paid(r1, l, {})
  BY CreatePays
<1>2. r1.ledger \in Ledger
  BY <1>1 DEF Paid, Typed
<1>3. /\ Paid(r2, r1.ledger, {sender})
      /\ r2.status = Executed =>
           exists(r1.ledger, sender)
             /\ ~r1.ledger.account[sender].delegated_withdrawal_capability
  BY <1>2, WithdrawFromSenderPays
<1>4. Paid(r3, r2.ledger, {sender})
  BY <1>3, DepositMetadataPays DEF Paid, Typed
<1>5. Paid(r2, l, {sender})
  BY <1>1, <1>3, PaidThen
<1>6. Paid(r3, l, {sender})
  BY <1>4, <1>5, PaidThen
<1>7. Paid(Ok(r1.ledger), l, {sender}) /\ Paid(Ok(r1.ledger), l, {})
  BY <1>1, StatusType DEF Paid, Typed, Ok
<1>8. r2.status = Executed /\ exists(l, sender) =>
        ~l.account[sender].delegated_withdrawal_capability
  BY <1>1, <1>3 DEF Paid, Pays
<1>9. r = IF r1.status # Executed THEN r1
          ELSE IF amount = 0 THEN Ok(r1.ledger)
          ELSE IF r2.status = Executed THEN r3 ELSE r2
  BY DEF create_new_account, Then
<1> QED
  BY <1>1, <1>5, <1>6, <1>7, <1>8, <1>9, Zenon

LEMMA MintToAddressPays ==
  ASSUME NEW l \in Ledger, NEW sender \in Addresses, NEW payee \in Addresses,
         NEW key, NEW amount \in Nat, NEW payers
  PROVE  Paid(mint_to_address(l, sender, payee, key, amount), l, payers)
<1> DEFINE r1 == create_if_missing(l, payee, key)
           r2 == mint(r1.ledger, sender, amount)
           r3 == deposit(r2.ledger, payee, sender, amount)
<1>1. Paid(r1, l, payers)
  BY CreateIfMissingPays
<1>2. Paid(r2, r1.ledger, payers)
  BY <1>1, MintPays DEF Paid, Typed
<1>3. Paid(r3, r2.ledger, payers)
  BY <1>2, DepositMetadataPays DEF Paid, Typed
<1>4. Paid(r2, l, payers)
  BY <1>1, <1>2, PaidThen
<1>5. Paid(r3, l, payers)
  BY <1>3, <1>4, PaidThen
<1>6. mint_to_address(l, sender, payee, key, amount) =
        IF r1.status = Executed
        THEN IF r2.status = Executed THEN r3 ELSE r2
        ELSE r1
  BY DEF mint_to_address, Then
<1> QED
  BY <1>1, <1>4, <1>5, <1>6, Zenon

----------------------------------------------------------------------------
(* Keys and capabilities *)

\* Accounts with the same balance and sequence number.
Alike(x, y) == x.balance = y.balance /\ x.sequence_number = y.sequence_number

\* The functions f and g agree everywhere but at a.
SameBut(f, g, a) == \A x \in Addresses : x # a => f[x] = g[x]

\* From l to m the account of a becomes new, the numbers of capabilities outside
\* of accounts become w and k, and no other account changes.
Becomes(l, m, a, new, w, k) ==
  /\ exists(l, a) /\ exists(m, a)
  /\ m \in Ledger
  /\ m.account[a] = new /\ Alike(new, l.account[a])
  /\ SameBut(m.account, l.account, a)
  /\ m.withdrawal_capability = w /\ SameBut(w, l.withdrawal_capability, a)
  /\ m.key_rotation_capability = k /\ SameBut(k, l.key_rotation_capability, a)

LEMMA MissingData ==
  ASSUME NEW l \in Ledger, NEW r, r = Fail(l, Status("MISSING_DATA"))
  PROVE  Typed(r) /\ r.ledger = l /\ r.status # Executed
<1>1. Status("MISSING_DATA") \in Statuses /\ Status("MISSING_DATA") # Executed
  BY StatusType DEF Majors
<1> QED
  BY <1>1 DEF Typed, Fail

LEMMA AbortedTyped ==
  ASSUME NEW l \in Ledger, NEW code \in Nat, NEW r, r = Fail(l, Aborted(code))
  PROVE  Typed(r) /\ r.ledger = l /\ r.status # Executed
<1>1. Aborted(code) \in Statuses /\ Aborted(code) # Executed
  BY StatusType
<1> QED
  BY <1>1 DEF Typed, Fail

Replaced(l, a, new, w, k) ==
  [l EXCEPT !.account[a] = new, !.withdrawal_capability = w,
            !.key_rotation_capability = k]

LEMMA Replacing ==
  ASSUME NEW l \in Ledger, NEW a \in Addresses, exists(l, a),
         NEW new \in Account, Alike(new, l.account[a]),
         NEW w \in [Addresses -> Nat], SameBut(w, l.withdrawal_capability, a),
         NEW k \in [Addresses -> Nat], SameBut(k, l.key_rotation_capability, a)
  PROVE  Becomes(l, Replaced(l, a, new, w, k), a, new, w, k)
<1> DEFINE m == Replaced(l, a, new, w, k)
<1>1. m \in Ledger
  BY DEF Ledger, Replaced
<1>2. /\ m.account = [l.account EXCEPT ![a] = new]
      /\ m.withdrawal_capability = w
      /\ m.key_rotation_capability = k
  BY DEF Ledger, Replaced
<1>3. m.account[a] = new /\ SameBut(m.account, l.account, a)
  BY <1>2 DEF Ledger, SameBut
<1>4. exists(m, a)
  BY <1>3, NoAccountAssumption DEF exists
<1> QED
  BY <1>1, <1>2, <1>3, <1>4, Zenon DEF Becomes

\* A WithdrawalCapability is handed out when there is none outside.
LEMMA ExtractWithdrawalCapability ==
  ASSUME NEW l \in Ledger, NEW a \in Addresses,
         NEW r, r = extract_sender_withdrawal_capability(l, a)
  PROVE  /\ Typed(r)
         /\ r.status # Executed => r.ledger = l
         /\ r.status = Executed =>
              /\ ~l.account[a].delegated_withdrawal_capability
              /\ Becomes(l, r.ledger, a,
                   [l.account[a] EXCEPT !.delegated_withdrawal_capability = TRUE],
                   [l.withdrawal_capability EXCEPT ![a] = @ + 1],
                   l.key_rotation_capability)
<1>1. CASE ~exists(l, a)
  <2>1. r = Fail(l, Status("MISSING_DATA"))
    BY <1>1, Zenon DEF extract_sender_withdrawal_capability
  <2> QED
    BY <2>1, MissingData
<1>2. CASE exists(l, a) /\ l.account[a].delegated_withdrawal_capability
  <2>1. r = Fail(l, Aborted(11))
    BY <1>2, Zenon DEF extract_sender_withdrawal_capability
  <2> QED
    BY <2>1, AbortedTyped
<1>3. CASE exists(l, a) /\ ~l.account[a].delegated_withdrawal_capability
  <2> DEFINE new == [l.account[a] EXCEPT !.delegated_withdrawal_capability = TRUE]
             count == [l.withdrawal_capability EXCEPT ![a] = @ + 1]
             m == [l EXCEPT !.account[a].delegated_withdrawal_capability = TRUE,
                            !.withdrawal_capability[a] = @ + 1]
  <2>1. r = Ok(m)
    BY <1>3, Zenon DEF extract_sender_withdrawal_capability
  <2>2. l.account[a] \in Account
    BY <1>3, ExistsIsAccount
  <2>3. new \in Account /\ Alike(new, l.account[a])
    BY <2>2 DEF Account, Alike
  <2>4. /\ count \in [Addresses -> Nat]
        /\ SameBut(count, l.withdrawal_capability, a)
        /\ l.key_rotation_capability \in [Addresses -> Nat]
        /\ SameBut(l.key_rotation_capability, l.key_rotation_capability, a)
    BY DEF Ledger, SameBut
  <2>5. m = Replaced(l, a, new, count, l.key_rotation_capability)
    BY DEF Ledger, Replaced
  <2> HIDE DEF m, new, count
  <2>6. Becomes(l, Replaced(l, a, new, count, l.key_rotation_capability), a, new, count, l.key_rotation_capability)
    BY <1>3, <2>3, <2>4, Replacing
  <2>7. r.ledger = m /\ r.status = Executed
    BY <2>1 DEF Ok
  <2>8. Becomes(l, r.ledger, a, new, count, l.key_rotation_capability)
    BY <2>5, <2>6, <2>7
  <2>9. Typed(r)
    BY <2>1, <2>7, <2>8, StatusType DEF Becomes, Typed, Ok
  <2> QED
    BY <1>3, <2>7, <2>8, <2>9 DEF new, count
<1> QED
  BY <1>1, <1>2, <1>3

\* Who uses up a WithdrawalCapability gives it back.
LEMMA RestoreWithdrawalCapability ==
  ASSUME NEW l \in Ledger, NEW a \in Addresses, l.withdrawal_capability[a] > 0,
         NEW r, r = restore_withdrawal_capability(l, a)
  PROVE  /\ Typed(r)
         /\ r.status # Executed => r.ledger = l
         /\ r.status = Executed =>
              /\ Becomes(l, r.ledger, a,
                   [l.account[a] EXCEPT !.delegated_withdrawal_capability = FALSE],
                   [l.withdrawal_capability EXCEPT ![a] = @ - 1],
                   l.key_rotation_capability)
<1>1. CASE ~exists(l, a)
  <2>1. r = Fail(l, Status("MISSING_DATA"))
    BY <1>1, Zenon DEF restore_withdrawal_capability
  <2> QED
    BY <2>1, MissingData
<1>2. CASE exists(l, a)
  <2> DEFINE new == [l.account[a] EXCEPT !.delegated_withdrawal_capability = FALSE]
             count == [l.withdrawal_capability EXCEPT ![a] = @ - 1]
             m == [l EXCEPT !.account[a].delegated_withdrawal_capability = FALSE,
                            !.withdrawal_capability[a] = @ - 1]
  <2>1. r = Ok(m)
    BY <1>2, Zenon DEF restore_withdrawal_capability
  <2>2. l.account[a] \in Account
    BY <1>2, ExistsIsAccount
  <2>3. new \in Account /\ Alike(new, l.account[a])
    BY <2>2 DEF Account, Alike
  <2>4. /\ count \in [Addresses -> Nat]
        /\ SameBut(count, l.withdrawal_capability, a)
        /\ l.key_rotation_capability \in [Addresses -> Nat]
        /\ SameBut(l.key_rotation_capability, l.key_rotation_capability, a)
    BY DEF Ledger, SameBut
  <2>5. m = Replaced(l, a, new, count, l.key_rotation_capability)
    BY DEF Ledger, Replaced
  <2> HIDE DEF m, new, count
  <2>6. Becomes(l, Replaced(l, a, new, count, l.key_rotation_capability), a, new, count, l.key_rotation_capability)
    BY <1>2, <2>3, <2>4, Replacing
  <2>7. r.ledger = m /\ r.status = Executed
    BY <2>1 DEF Ok
  <2>8. Becomes(l, r.ledger, a, new, count, l.key_rotation_capability)
    BY <2>5, <2>6, <2>7
  <2>9. Typed(r)
    BY <2>1, <2>7, <2>8, StatusType DEF Becomes, Typed, Ok
  <2> QED
    BY <1>2, <2>7, <2>8, <2>9 DEF new, count
<1> QED
  BY <1>1, <1>2

\* A KeyRotationCapability is handed out when there is none outside.
LEMMA ExtractKeyRotationCapability ==
  ASSUME NEW l \in Ledger, NEW a \in Addresses,
         NEW r, r = extract_sender_key_rotation_capability(l, a)
  PROVE  /\ Typed(r)
         /\ r.status # Executed => r.ledger = l
         /\ r.status = Executed =>
              /\ ~l.account[a].delegated_key_rotation_capability
              /\ Becomes(l, r.ledger, a,
                   [l.account[a] EXCEPT !.delegated_key_rotation_capability = TRUE],
                   l.withdrawal_capability,
                   [l.key_rotation_capability EXCEPT ![a] = @ + 1])
<1>1. CASE ~exists(l, a)
  <2>1. r = Fail(l, Status("MISSING_DATA"))
    BY <1>1, Zenon DEF extract_sender_key_rotation_capability
  <2> QED
    BY <2>1, MissingData
<1>2. CASE exists(l, a) /\ l.account[a].delegated_key_rotation_capability
  <2>1. r = Fail(l, Aborted(11))
    BY <1>2, Zenon DEF extract_sender_key_rotation_capability
  <2> QED
    BY <2>1, AbortedTyped
<1>3. CASE exists(l, a) /\ ~l.account[a].delegated_key_rotation_capability
  <2> DEFINE new == [l.account[a] EXCEPT !.delegated_key_rotation_capability = TRUE]
             count == [l.key_rotation_capability EXCEPT ![a] = @ + 1]
             m == [l EXCEPT !.account[a].delegated_key_rotation_capability = TRUE,
                            !.key_rotation_capability[a] = @ + 1]
  <2>1. r = Ok(m)
    BY <1>3, Zenon DEF extract_sender_key_rotation_capability
  <2>2. l.account[a] \in Account
    BY <1>3, ExistsIsAccount
  <2>3. new \in Account /\ Alike(new, l.account[a])
    BY <2>2 DEF Account, Alike
  <2>4. /\ l.withdrawal_capability \in [Addresses -> Nat]
        /\ SameBut(l.withdrawal_capability, l.withdrawal_capability, a)
        /\ count \in [Addresses -> Nat]
        /\ SameBut(count, l.key_rotation_capability, a)
    BY DEF Ledger, SameBut
  <2>5. m = Replaced(l, a, new, l.withdrawal_capability, count)
    BY DEF Ledger, Replaced
  <2> HIDE DEF m, new, count
  <2>6. Becomes(l, Replaced(l, a, new, l.withdrawal_capability, count), a, new, l.withdrawal_capability, count)
    BY <1>3, <2>3, <2>4, Replacing
  <2>7. r.ledger = m /\ r.status = Executed
    BY <2>1 DEF Ok
  <2>8. Becomes(l, r.ledger, a, new, l.withdrawal_capability, count)
    BY <2>5, <2>6, <2>7
  <2>9. Typed(r)
    BY <2>1, <2>7, <2>8, StatusType DEF Becomes, Typed, Ok
  <2> QED
    BY <1>3, <2>7, <2>8, <2>9 DEF new, count
<1> QED
  BY <1>1, <1>2, <1>3

\* Who uses up a KeyRotationCapability gives it back.
LEMMA RestoreKeyRotationCapability ==
  ASSUME NEW l \in Ledger, NEW a \in Addresses, l.key_rotation_capability[a] > 0,
         NEW r, r = restore_key_rotation_capability(l, a)
  PROVE  /\ Typed(r)
         /\ r.status # Executed => r.ledger = l
         /\ r.status = Executed =>
              /\ Becomes(l, r.ledger, a,
                   [l.account[a] EXCEPT !.delegated_key_rotation_capability = FALSE],
                   l.withdrawal_capability,
                   [l.key_rotation_capability EXCEPT ![a] = @ - 1])
<1>1. CASE ~exists(l, a)
  <2>1. r = Fail(l, Status("MISSING_DATA"))
    BY <1>1, Zenon DEF restore_key_rotation_capability
  <2> QED
    BY <2>1, MissingData
<1>2. CASE exists(l, a)
  <2> DEFINE new == [l.account[a] EXCEPT !.delegated_key_rotation_capability = FALSE]
             count == [l.key_rotation_capability EXCEPT ![a] = @ - 1]
             m == [l EXCEPT !.account[a].delegated_key_rotation_capability = FALSE,
                            !.key_rotation_capability[a] = @ - 1]
  <2>1. r = Ok(m)
    BY <1>2, Zenon DEF restore_key_rotation_capability
  <2>2. l.account[a] \in Account
    BY <1>2, ExistsIsAccount
  <2>3. new \in Account /\ Alike(new, l.account[a])
    BY <2>2 DEF Account, Alike
  <2>4. /\ l.withdrawal_capability \in [Addresses -> Nat]
        /\ SameBut(l.withdrawal_capability, l.withdrawal_capability, a)
        /\ count \in [Addresses -> Nat]
        /\ SameBut(count, l.key_rotation_capability, a)
    BY DEF Ledger, SameBut
  <2>5. m = Replaced(l, a, new, l.withdrawal_capability, count)
    BY DEF Ledger, Replaced
  <2> HIDE DEF m, new, count
  <2>6. Becomes(l, Replaced(l, a, new, l.withdrawal_capability, count), a, new, l.withdrawal_capability, count)
    BY <1>2, <2>3, <2>4, Replacing
  <2>7. r.ledger = m /\ r.status = Executed
    BY <2>1 DEF Ok
  <2>8. Becomes(l, r.ledger, a, new, l.withdrawal_capability, count)
    BY <2>5, <2>6, <2>7
  <2>9. Typed(r)
    BY <2>1, <2>7, <2>8, StatusType DEF Becomes, Typed, Ok
  <2> QED
    BY <1>2, <2>7, <2>8, <2>9 DEF new, count
<1> QED
  BY <1>1, <1>2

\* A key is replaced by a key.
LEMMA RotateForAccount ==
  ASSUME NEW l \in Ledger, NEW a \in Addresses, NEW key,
         NEW r, r = rotate_authentication_key_for_account(l, a, key)
  PROVE  /\ Typed(r)
         /\ r.status # Executed => r.ledger = l
         /\ r.status = Executed =>
              Becomes(l, r.ledger, a,
                [l.account[a] EXCEPT !.authentication_key = key],
                l.withdrawal_capability, l.key_rotation_capability)
<1>1. CASE ~exists(l, a)
  <2>1. r = Fail(l, Status("MISSING_DATA"))
    BY <1>1, Zenon DEF rotate_authentication_key_for_account
  <2> QED
    BY <2>1, MissingData
<1>2. CASE exists(l, a) /\ key \notin Keys
  <2>1. r = Fail(l, Aborted(12))
    BY <1>2, Zenon DEF rotate_authentication_key_for_account
  <2> QED
    BY <2>1, AbortedTyped
<1>3. CASE exists(l, a) /\ key \in Keys
  <2> DEFINE new == [l.account[a] EXCEPT !.authentication_key = key]
             m == [l EXCEPT !.account[a].authentication_key = key]
  <2>1. r = Ok(m)
    BY <1>3, Zenon DEF rotate_authentication_key_for_account
  <2>2. l.account[a] \in Account
    BY <1>3, ExistsIsAccount
  <2>3. new \in Account /\ Alike(new, l.account[a])
    BY <1>3, <2>2 DEF Account, Alike
  <2>4. /\ l.withdrawal_capability \in [Addresses -> Nat]
        /\ SameBut(l.withdrawal_capability, l.withdrawal_capability, a)
        /\ l.key_rotation_capability \in [Addresses -> Nat]
        /\ SameBut(l.key_rotation_capability, l.key_rotation_capability, a)
    BY DEF Ledger, SameBut
  <2>5. m = Replaced(l, a, new, l.withdrawal_capability, l.key_rotation_capability)
    BY DEF Ledger, Replaced
  <2> HIDE DEF m, new
  <2>6. Becomes(l,
          Replaced(l, a, new, l.withdrawal_capability, l.key_rotation_capability),
          a, new, l.withdrawal_capability, l.key_rotation_capability)
    BY <1>3, <2>3, <2>4, Replacing
  <2>7. r.ledger = m /\ r.status = Executed
    BY <2>1 DEF Ok
  <2>8. Becomes(l, r.ledger, a, new, l.withdrawal_capability, l.key_rotation_capability)
    BY <2>5, <2>6, <2>7
  <2>9. Typed(r)
    BY <2>1, <2>7, <2>8, StatusType DEF Becomes, Typed, Ok
  <2> QED
    BY <2>7, <2>8, <2>9 DEF new
<1> QED
  BY <1>1, <1>2, <1>3

\* What is left of the calls: the key of the sender and the timeout.
LEMMA RotateOwn ==
  ASSUME NEW l \in Ledger, NEW sender \in Addresses, NEW key,
         NEW r, r = rotate_authentication_key(l, sender, key)
  PROVE  /\ Typed(r)
         /\ r.status = Executed =>
              /\ ~l.account[sender].delegated_key_rotation_capability
              /\ Becomes(l, r.ledger, sender,
                   [l.account[sender] EXCEPT !.authentication_key = key],
                   l.withdrawal_capability, l.key_rotation_capability)
<1>1. CASE exists(l, sender) /\ l.account[sender].delegated_key_rotation_capability
  <2>1. r = Fail(l, Aborted(11))
    BY <1>1, Zenon DEF rotate_authentication_key
  <2> QED
    BY <2>1, AbortedTyped
<1>2. CASE ~(exists(l, sender) /\ l.account[sender].delegated_key_rotation_capability)
  <2>1. r = rotate_authentication_key_for_account(l, sender, key)
    BY <1>2, Zenon DEF rotate_authentication_key
  <2>2. /\ Typed(r)
        /\ r.status = Executed =>
             Becomes(l, r.ledger, sender,
               [l.account[sender] EXCEPT !.authentication_key = key],
               l.withdrawal_capability, l.key_rotation_capability)
    BY <2>1, RotateForAccount
  <2>3. r.status = Executed => exists(l, sender)
    BY <2>2 DEF Becomes
  <2> QED
    BY <1>2, <2>2, <2>3, Zenon
<1> QED
  BY <1>1, <1>2

LEMMA SetTimeout ==
  ASSUME NEW l \in Ledger, NEW sender, NEW duration \in U64,
         NEW r, r = set_timeout(l, sender, duration)
  PROVE  Typed(r) /\ Pays(l, r.ledger, {})
<1>1. CASE sender # Association
  <2>1. r = Fail(l, Aborted(1))
    BY <1>1 DEF set_timeout
  <2> QED
    BY <2>1, AbortedTyped, PaysRefl
<1>2. CASE sender = Association
  <2> DEFINE m == [l EXCEPT !.timeout = duration]
  <2>1. r = Ok(m)
    BY <1>2 DEF set_timeout
  <2>2. /\ m \in Ledger
        /\ m.account = l.account
        /\ m.withdrawal_capability = l.withdrawal_capability
        /\ m.key_rotation_capability = l.key_rotation_capability
    BY DEF Ledger
  <2> HIDE DEF m
  <2>3. Pays(l, m, {})
    <3>1. Pays(l, l, {})
      BY PaysRefl
    <3> QED
      BY <2>2, <3>1, Zenon DEF Pays, exists, balance
  <2> QED
    BY <2>1, <2>2, <2>3, StatusType DEF Ok, Typed
<1> QED
  BY <1>1, <1>2

----------------------------------------------------------------------------
(* Coins: what a function takes from one account it puts into another *)

\* The coins of the account of a.
Worth(l, a) == IF exists(l, a) THEN balance(l, a) ELSE 0

\* The coins that have been minted and are in no account.
Apart(l) == l.total_value - Coins(l)

LEMMA CoinsAreSum ==
  ASSUME NEW l
  PROVE  Coins(l) = SumFunctionOnSet([x \in Addresses |-> Worth(l, x)], Addresses)
BY DEF Coins, SumFunction, Worth

LEMMA CoinsType ==
  ASSUME NEW l \in Ledger
  PROVE  /\ Coins(l) \in Nat /\ l.total_value \in Nat /\ Apart(l) \in Int
         /\ \A a \in Addresses : Worth(l, a) \in Nat
<1> DEFINE f == [x \in Addresses |-> Worth(l, x)]
<1>1. \A a \in Addresses : Worth(l, a) \in Nat
  BY BalanceType DEF Worth
<1>2. Coins(l) = SumFunctionOnSet(f, Addresses)
  BY CoinsAreSum
<1>3. \A x \in Addresses : f[x] \in Nat
  BY <1>1
<1>4. SumFunctionOnSet(f, Addresses) \in Nat
  <2> HIDE DEF f
  <2> QED
    BY <1>3, AccountAssumption, SumType
<1>5. l.total_value \in Nat
  BY DEF Ledger
<1>6. Coins(l) \in Nat
  BY <1>2, <1>4
<1> QED
  BY <1>1, <1>5, <1>6 DEF Apart

LEMMA CoveredIsApart ==
  ASSUME NEW l \in Ledger
  PROVE  Covered(l) <=> Apart(l) = 0
BY CoinsType DEF Covered, Apart

\* Ledgers with the same coins in every account but that of a.
LEMMA CoinsMove ==
  ASSUME NEW l \in Ledger, NEW m \in Ledger, NEW a \in Addresses,
         \A x \in Addresses \ {a} : Worth(m, x) = Worth(l, x)
  PROVE  Coins(m) = Coins(l) - Worth(l, a) + Worth(m, a)
<1> DEFINE f == [x \in Addresses |-> Worth(l, x)]
           g == [x \in Addresses |-> Worth(m, x)]
<1>1. /\ Coins(l) = SumFunctionOnSet(f, Addresses)
      /\ Coins(m) = SumFunctionOnSet(g, Addresses)
  BY CoinsAreSum
<1>2. \A x \in Addresses : f[x] \in Nat /\ g[x] \in Nat
  BY CoinsType
<1>3. /\ f[a] = Worth(l, a) /\ g[a] = Worth(m, a)
      /\ \A x \in Addresses \ {a} : g[x] = f[x]
  OBVIOUS
<1>4. SumFunctionOnSet(g, Addresses) = SumFunctionOnSet(f, Addresses) - f[a] + g[a]
  <2> HIDE DEF f, g
  <2> QED
    BY <1>2, <1>3, AccountAssumption, SumUpdate
<1> QED
  BY <1>1, <1>3, <1>4

LEMMA CoinsStay ==
  ASSUME NEW l \in Ledger, NEW m \in Ledger, m.total_value = l.total_value,
         \A x \in Addresses : Worth(m, x) = Worth(l, x)
  PROVE  Apart(m) = Apart(l)
<1>1. Coins(m) = Coins(l) - Worth(l, FeeAddress) + Worth(m, FeeAddress)
  BY AccountAssumption, CoinsMove
<1>2. Coins(l) \in Nat /\ Worth(l, FeeAddress) \in Nat
      /\ Worth(m, FeeAddress) = Worth(l, FeeAddress)
  BY AccountAssumption, CoinsType
<1> QED
  BY <1>1, <1>2 DEF Apart

LEMMA SetBalanceCoins ==
  ASSUME NEW l \in Ledger, NEW a \in Addresses, exists(l, a), NEW b \in U64
  PROVE  Apart([l EXCEPT !.account[a].balance = b]) = Apart(l) + balance(l, a) - b
<1> DEFINE m == [l EXCEPT !.account[a].balance = b]
           new == [l.account[a] EXCEPT !.balance = b]
<1>1. new \in Account /\ new.balance = b
  BY ExistsIsAccount DEF Account
<1>2. /\ m.total_value = l.total_value
      /\ m.account = [l.account EXCEPT ![a] = new]
  BY DEF Ledger
<1>3. m \in Ledger
  BY <1>1 DEF Ledger
<1>4. m.account[a] = new /\ \A x \in Addresses : x # a => m.account[x] = l.account[x]
  BY <1>2 DEF Ledger
<1> HIDE DEF m, new
<1>5. \A x \in Addresses \ {a} : Worth(m, x) = Worth(l, x)
  BY <1>4 DEF Worth, exists, balance
<1>6. Worth(l, a) = balance(l, a) /\ Worth(m, a) = b
  BY <1>1, <1>4, NoAccountAssumption DEF Worth, exists, balance
<1>7. Coins(m) = Coins(l) - Worth(l, a) + Worth(m, a)
  BY <1>3, <1>5, CoinsMove
<1>8. Coins(l) \in Nat /\ l.total_value \in Nat /\ balance(l, a) \in Nat /\ b \in Nat
  BY CoinsType, BalanceType, U64Type
<1>9. Apart(m) = Apart(l) + balance(l, a) - b
  BY <1>2, <1>6, <1>7, <1>8 DEF Apart
<1> QED
  BY <1>9 DEF m

LEMMA WithdrawCoins ==
  ASSUME NEW l \in Ledger, NEW a \in Addresses, NEW amount \in Nat,
         NEW r, r = withdraw_from_balance(l, a, amount), r.status = Executed
  PROVE  Apart(r.ledger) = Apart(l) + amount
<1>1. exists(l, a) /\ ~(balance(l, a) < amount)
  <2>1. /\ Fail(l, Status("MISSING_DATA")).status # Executed
        /\ Fail(l, Aborted(10)).status # Executed
    BY MissingData, AbortedTyped
  <2> QED
    BY <2>1, Zenon DEF withdraw_from_balance
<1> DEFINE m == [l EXCEPT !.account[a].balance = balance(l, a) - amount]
<1>2. r.ledger = m
  BY <1>1 DEF withdraw_from_balance, balance, Ok
<1>3. balance(l, a) \in U64 /\ balance(l, a) \in Nat
  BY <1>1, BalanceType
<1>4. balance(l, a) - amount \in U64
  BY <1>1, <1>3, U64Type DEF U64
<1>5. Apart(m) = Apart(l) + balance(l, a) - (balance(l, a) - amount)
  BY <1>1, <1>4, SetBalanceCoins
<1>6. Apart(l) \in Int
  BY CoinsType
<1> HIDE DEF m
<1> QED
  BY <1>2, <1>3, <1>5, <1>6

LEMMA DepositCoins ==
  ASSUME NEW l \in Ledger, NEW a \in Addresses, NEW amount \in Nat,
         NEW r, r = deposit_coin(l, a, amount), r.status = Executed
  PROVE  Apart(r.ledger) = Apart(l) - amount
<1>1. exists(l, a) /\ ~(balance(l, a) + amount > MaxU64)
  <2>1. /\ Fail(l, Status("MISSING_DATA")).status # Executed
        /\ Fail(l, Status("ARITHMETIC_ERROR")).status # Executed
    BY StatusType DEF Majors, Fail
  <2> QED
    BY <2>1, Zenon DEF deposit_coin
<1> DEFINE m == [l EXCEPT !.account[a].balance = balance(l, a) + amount]
<1>2. r.ledger = m
  BY <1>1 DEF deposit_coin, balance, Ok
<1>3. balance(l, a) \in U64 /\ balance(l, a) \in Nat
  BY <1>1, BalanceType
<1>4. balance(l, a) + amount \in U64
  BY <1>1, <1>3, U64Type DEF U64
<1>5. Apart(m) = Apart(l) + balance(l, a) - (balance(l, a) + amount)
  BY <1>1, <1>4, SetBalanceCoins
<1>6. Apart(l) \in Int
  BY CoinsType
<1> HIDE DEF m
<1> QED
  BY <1>2, <1>3, <1>5, <1>6

LEMMA DepositMetadataCoins ==
  ASSUME NEW l \in Ledger, NEW payee \in Addresses, NEW payer \in Addresses,
         NEW amount \in Nat,
         NEW r, r = deposit(l, payee, payer, amount), r.status = Executed
  PROVE  Apart(r.ledger) = Apart(l) - amount
<1>1. /\ Fail(l, Aborted(7)).status # Executed
      /\ Fail(l, Status("MISSING_DATA")).status # Executed
  BY MissingData, AbortedTyped
<1>2. r = deposit_coin(l, payee, amount)
  BY <1>1, Zenon DEF deposit
<1> QED
  BY <1>2, DepositCoins

LEMMA WithdrawFromSenderCoins ==
  ASSUME NEW l \in Ledger, NEW a \in Addresses, NEW amount \in Nat,
         NEW r, r = withdraw_from_sender(l, a, amount), r.status = Executed
  PROVE  Apart(r.ledger) = Apart(l) + amount
<1>1. Fail(l, Aborted(11)).status # Executed
  BY AbortedTyped
<1>2. r = withdraw_from_balance(l, a, amount)
  BY <1>1, Zenon DEF withdraw_from_sender
<1> QED
  BY <1>2, WithdrawCoins

LEMMA CreateCoins ==
  ASSUME NEW l \in Ledger, NEW fresh \in Addresses, NEW key,
         NEW r, r = create_account(l, fresh, key), r.status = Executed
  PROVE  Apart(r.ledger) = Apart(l)
<1> DEFINE new ==
      [balance |-> 0, sequence_number |-> 0, authentication_key |-> key,
       delegated_key_rotation_capability |-> FALSE,
       delegated_withdrawal_capability |-> FALSE]
    m == [l EXCEPT !.account[fresh] = new]
<1>1. /\ Fail(l, Aborted(12)).status # Executed
      /\ Fail(l, Status("CREATE_NULL_ACCOUNT")).status # Executed
      /\ Fail(l, Status("CANNOT_WRITE_EXISTING_RESOURCE")).status # Executed
  BY StatusType DEF Majors, Fail
<1>2. r = Ok(m) /\ ~exists(l, fresh)
  <2> HIDE DEF new
  <2>1. r = IF key \notin Keys THEN Fail(l, Aborted(12))
            ELSE IF fresh = NullAddress THEN Fail(l, Status("CREATE_NULL_ACCOUNT"))
            ELSE IF exists(l, fresh)
            THEN Fail(l, Status("CANNOT_WRITE_EXISTING_RESOURCE"))
            ELSE Ok(m)
    BY DEF create_account, new
  <2> HIDE DEF m
  <2> QED
    BY <1>1, <2>1, Zenon
<1>3. m \in Ledger
  <2>1. Paid(r, l, {})
    BY CreatePays
  <2> HIDE DEF m
  <2> QED
    BY <1>2, <2>1 DEF Paid, Typed, Ok
<1>4. /\ m.total_value = l.total_value
      /\ m.account = [l.account EXCEPT ![fresh] = new]
  BY DEF Ledger
<1>5. /\ \A x \in Addresses : x # fresh => m.account[x] = l.account[x]
      /\ m.account[fresh] = new /\ new.balance = 0
  BY <1>4 DEF Ledger
<1> HIDE DEF m, new
<1>6. Worth(l, fresh) = 0 /\ Worth(m, fresh) = 0
  BY <1>2, <1>5 DEF Worth, balance
<1>7. \A x \in Addresses : Worth(m, x) = Worth(l, x)
  BY <1>5, <1>6 DEF Worth, exists, balance
<1>8. r.ledger = m
  BY <1>2 DEF Ok
<1> QED
  BY <1>3, <1>4, <1>7, <1>8, CoinsStay

LEMMA CreateIfMissingCoins ==
  ASSUME NEW l \in Ledger, NEW payee \in Addresses, NEW key,
         NEW r, r = create_if_missing(l, payee, key), r.status = Executed
  PROVE  Apart(r.ledger) = Apart(l)
<1>1. CASE exists(l, payee)
  BY <1>1 DEF create_if_missing, Ok
<1>2. CASE ~exists(l, payee)
  BY <1>2, CreateCoins DEF create_if_missing
<1> QED
  BY <1>1, <1>2

LEMMA MintCoins ==
  ASSUME NEW l \in Ledger, NEW sender, NEW amount \in Nat,
         NEW r, r = mint(l, sender, amount), r.status = Executed
  PROVE  Apart(r.ledger) = Apart(l) + amount
<1> DEFINE m == [l EXCEPT !.total_value = @ + amount]
<1>1. /\ Fail(l, Status("MISSING_DATA")).status # Executed
      /\ Fail(l, Aborted(11)).status # Executed
  BY MissingData, AbortedTyped
<1>2. r = Ok(m)
  BY <1>1, Zenon DEF mint
<1>3. m.account = l.account /\ m.total_value = l.total_value + amount
  BY DEF Ledger
<1>4. r.ledger = m
  BY <1>2 DEF Ok
<1> HIDE DEF m
<1>5. Coins(m) = Coins(l)
  BY <1>3 DEF Coins, exists, balance
<1>6. Coins(l) \in Nat /\ l.total_value \in Nat
  BY CoinsType
<1> QED
  BY <1>3, <1>4, <1>5, <1>6 DEF Apart

LEMMA PayFromSenderCoins ==
  ASSUME NEW l \in Ledger, NEW sender \in Addresses, NEW payee \in Addresses,
         NEW key, NEW amount \in Nat,
         NEW r, r = pay_from_sender(l, sender, payee, key, amount),
         r.status = Executed
  PROVE  Apart(r.ledger) = Apart(l)
<1> DEFINE r1 == create_if_missing(l, payee, key)
           r2 == withdraw_from_sender(r1.ledger, sender, amount)
           r3 == deposit(r2.ledger, payee, sender, amount)
<1>1. r1.status = Executed /\ r2.status = Executed /\ r = r3
  BY DEF pay_from_sender, Then
<1>2. r1.ledger \in Ledger
  BY CreateIfMissingPays DEF Paid, Typed
<1>3. r2.ledger \in Ledger
  <2>1. Paid(r2, r1.ledger, {sender})
    BY <1>2, WithdrawFromSenderPays
  <2> QED
    BY <2>1 DEF Paid, Typed
<1>4. Apart(r1.ledger) = Apart(l)
  BY <1>1, CreateIfMissingCoins
<1>5. Apart(r2.ledger) = Apart(r1.ledger) + amount
  BY <1>1, <1>2, WithdrawFromSenderCoins
<1>6. Apart(r3.ledger) = Apart(r2.ledger) - amount
  BY <1>1, <1>3, DepositMetadataCoins
<1>7. Apart(l) \in Int
  BY CoinsType
<1> HIDE DEF r1, r2, r3
<1> QED
  BY <1>1, <1>4, <1>5, <1>6, <1>7

LEMMA PayFromCapabilityCoins ==
  ASSUME NEW l \in Ledger, NEW payer \in Addresses, NEW payee \in Addresses,
         NEW key, NEW amount \in Nat,
         NEW r, r = pay_from_capability(l, payer, payee, key, amount),
         r.status = Executed
  PROVE  Apart(r.ledger) = Apart(l)
<1> DEFINE r1 == create_if_missing(l, payee, key)
           r2 == withdraw_from_balance(r1.ledger, payer, amount)
           r3 == deposit(r2.ledger, payee, payer, amount)
<1>1. r1.status = Executed /\ r2.status = Executed /\ r = r3
  BY DEF pay_from_capability, Then
<1>2. r1.ledger \in Ledger
  BY CreateIfMissingPays DEF Paid, Typed
<1>3. r2.ledger \in Ledger
  BY <1>2, WithdrawPays DEF Paid, Typed
<1>4. Apart(r1.ledger) = Apart(l)
  BY <1>1, CreateIfMissingCoins
<1>5. Apart(r2.ledger) = Apart(r1.ledger) + amount
  BY <1>1, <1>2, WithdrawCoins
<1>6. Apart(r3.ledger) = Apart(r2.ledger) - amount
  BY <1>1, <1>3, DepositMetadataCoins
<1>7. Apart(l) \in Int
  BY CoinsType
<1> HIDE DEF r1, r2, r3
<1> QED
  BY <1>1, <1>4, <1>5, <1>6, <1>7

LEMMA CreateNewAccountCoins ==
  ASSUME NEW l \in Ledger, NEW sender \in Addresses, NEW fresh \in Addresses,
         NEW key, NEW amount \in Nat,
         NEW r, r = create_new_account(l, sender, fresh, key, amount),
         r.status = Executed
  PROVE  Apart(r.ledger) = Apart(l)
<1> DEFINE r1 == create_account(l, fresh, key)
           r2 == withdraw_from_sender(r1.ledger, sender, amount)
           r3 == deposit(r2.ledger, fresh, sender, amount)
<1>1. /\ r1.status = Executed
      /\ IF amount = 0 THEN r = Ok(r1.ledger) ELSE r2.status = Executed /\ r = r3
  BY DEF create_new_account, Then
<1>2. r1.ledger \in Ledger
  BY CreatePays DEF Paid, Typed
<1>3. r2.ledger \in Ledger
  <2>1. Paid(r2, r1.ledger, {sender})
    BY <1>2, WithdrawFromSenderPays
  <2> QED
    BY <2>1 DEF Paid, Typed
<1>4. Apart(r1.ledger) = Apart(l)
  BY <1>1, CreateCoins
<1>5. CASE amount = 0
  <2>1. r.ledger = r1.ledger
    BY <1>1, <1>5 DEF Ok
  <2> QED
    BY <1>4, <2>1
<1>6. CASE amount # 0
  <2>1. Apart(r2.ledger) = Apart(r1.ledger) + amount
    BY <1>1, <1>2, <1>6, WithdrawFromSenderCoins
  <2>2. Apart(r3.ledger) = Apart(r2.ledger) - amount
    BY <1>1, <1>3, <1>6, DepositMetadataCoins
  <2>3. Apart(l) \in Int
    BY CoinsType
  <2> HIDE DEF r1, r2, r3
  <2> QED
    BY <1>1, <1>4, <1>6, <2>1, <2>2, <2>3
<1> QED
  BY <1>5, <1>6

LEMMA MintToAddressCoins ==
  ASSUME NEW l \in Ledger, NEW sender \in Addresses, NEW payee \in Addresses,
         NEW key, NEW amount \in Nat,
         NEW r, r = mint_to_address(l, sender, payee, key, amount),
         r.status = Executed
  PROVE  Apart(r.ledger) = Apart(l)
<1> DEFINE r1 == create_if_missing(l, payee, key)
           r2 == mint(r1.ledger, sender, amount)
           r3 == deposit(r2.ledger, payee, sender, amount)
<1>1. r1.status = Executed /\ r2.status = Executed /\ r = r3
  BY DEF mint_to_address, Then
<1>2. r1.ledger \in Ledger
  BY CreateIfMissingPays DEF Paid, Typed
<1>3. r2.ledger \in Ledger
  BY <1>2, MintPays DEF Paid, Typed
<1>4. Apart(r1.ledger) = Apart(l)
  BY <1>1, CreateIfMissingCoins
<1>5. Apart(r2.ledger) = Apart(r1.ledger) + amount
  BY <1>1, <1>2, MintCoins
<1>6. Apart(r3.ledger) = Apart(r2.ledger) - amount
  BY <1>1, <1>3, DepositMetadataCoins
<1>7. Apart(l) \in Int
  BY CoinsType
<1> HIDE DEF r1, r2, r3
<1> QED
  BY <1>1, <1>4, <1>5, <1>6, <1>7

\* Keys, capabilities and the time to live are no coins.
LEMMA ChangedAccountCoins ==
  ASSUME NEW l \in Ledger, NEW m, NEW a \in Addresses, NEW new, NEW w, NEW k,
         Becomes(l, m, a, new, w, k), m.total_value = l.total_value
  PROVE  Apart(m) = Apart(l)
<1>1. m \in Ledger
  BY DEF Becomes
<1>2. ASSUME NEW x \in Addresses
      PROVE  Worth(m, x) = Worth(l, x)
  <2>1. CASE x = a
    BY <2>1 DEF Becomes, Alike, Worth, balance
  <2>2. CASE x # a
    BY <2>2 DEF Becomes, SameBut, Worth, exists, balance
  <2> QED
    BY <2>1, <2>2
<1> QED
  BY <1>1, <1>2, CoinsStay

LEMMA OtherTotals ==
  ASSUME NEW l \in Ledger, NEW sender, NEW a, NEW key, NEW duration
  PROVE  /\ rotate_authentication_key(l, sender, key).ledger.total_value = l.total_value
         /\ rotate_authentication_key_for_account(l, a, key).ledger.total_value
              = l.total_value
         /\ extract_sender_withdrawal_capability(l, sender).ledger.total_value
              = l.total_value
         /\ restore_withdrawal_capability(l, a).ledger.total_value = l.total_value
         /\ extract_sender_key_rotation_capability(l, sender).ledger.total_value
              = l.total_value
         /\ restore_key_rotation_capability(l, a).ledger.total_value = l.total_value
         /\ set_timeout(l, sender, duration).ledger.total_value = l.total_value
         /\ set_timeout(l, sender, duration).ledger.account = l.account
<1>1. \A status : Fail(l, status).ledger = l
  BY DEF Fail
<1>2. \A b : rotate_authentication_key_for_account(l, b, key).ledger.total_value = l.total_value
  <2> SUFFICES ASSUME NEW b
               PROVE  rotate_authentication_key_for_account(l, b, key).ledger.total_value
                        = l.total_value
    OBVIOUS
  <2>1. Ok([l EXCEPT !.account[b].authentication_key = key]).ledger.total_value = l.total_value
    BY DEF Ok, Ledger
  <2> QED
    BY <1>1, <2>1, Zenon DEF rotate_authentication_key_for_account
<1>3. rotate_authentication_key(l, sender, key).ledger.total_value = l.total_value
  BY <1>1, <1>2 DEF rotate_authentication_key
<1>4. /\ extract_sender_withdrawal_capability(l, sender).ledger.total_value
              = l.total_value
      /\ restore_withdrawal_capability(l, a).ledger.total_value = l.total_value
  BY <1>1 DEF extract_sender_withdrawal_capability, restore_withdrawal_capability, Ok, Ledger
<1>5. /\ extract_sender_key_rotation_capability(l, sender).ledger.total_value
              = l.total_value
      /\ restore_key_rotation_capability(l, a).ledger.total_value = l.total_value
  BY <1>1 DEF extract_sender_key_rotation_capability, restore_key_rotation_capability, Ok, Ledger
<1>6. /\ set_timeout(l, sender, duration).ledger.total_value = l.total_value
      /\ set_timeout(l, sender, duration).ledger.account = l.account
  BY <1>1 DEF set_timeout, Ok, Ledger
<1> QED
  BY <1>2, <1>3, <1>4, <1>5, <1>6

----------------------------------------------------------------------------
(* Everything code may call *)

\* The arguments of each call have their types.
LEMMA Arguments ==
  ASSUME NEW c \in Invocations
  PROVE  /\ c.function \in {"pay_from_sender", "mint_to_address",
                            "create_new_account"} =>
              c.payee \in Addresses /\ c.amount \in U64
         /\ c.function = "pay_from_capability" =>
              /\ c.owner \in Addresses /\ c.payee \in Addresses
              /\ c.amount \in U64 /\ "owner" \in DOMAIN c
         /\ c.function = "create_account" => c.payee \in Addresses
         /\ c.function \in {"rotate_authentication_key_with_capability",
                            "restore_withdrawal_capability",
                            "restore_key_rotation_capability"} =>
              c.owner \in Addresses /\ "owner" \in DOMAIN c
         /\ c.function = "set_timeout" => c.amount \in U64
         /\ c.function \in
              {"pay_from_sender", "pay_from_capability", "mint_to_address",
               "create_account", "create_new_account",
               "rotate_authentication_key",
               "rotate_authentication_key_with_capability",
               "extract_sender_withdrawal_capability",
               "restore_withdrawal_capability",
               "extract_sender_key_rotation_capability",
               "restore_key_rotation_capability", "set_timeout"}
BY DEF Invocations

\* By the hand of the sender, which has its capability.
SenderPays(l, m, sender) ==
  /\ Pays(l, m, {sender})
  /\ exists(l, sender) => ~l.account[sender].delegated_withdrawal_capability

\* By the hand that has the capability of another account.
OwnerPays(l, m, c) ==
  /\ "owner" \in DOMAIN c /\ l.withdrawal_capability[c.owner] > 0
  /\ Pays(l, m, {c.owner})

SenderRotates(l, m, sender) ==
  /\ ~l.account[sender].delegated_key_rotation_capability
  /\ \E key : Becomes(l, m, sender,
                [l.account[sender] EXCEPT !.authentication_key = key],
                l.withdrawal_capability, l.key_rotation_capability)

OwnerRotates(l, m, c) ==
  /\ "owner" \in DOMAIN c /\ c.owner \in Addresses
  /\ l.key_rotation_capability[c.owner] > 0
  /\ \E key : Becomes(l, m, c.owner,
                [l.account[c.owner] EXCEPT !.authentication_key = key],
                l.withdrawal_capability, l.key_rotation_capability)

ExtractsWithdrawal(l, m, a) ==
  /\ ~l.account[a].delegated_withdrawal_capability
  /\ Becomes(l, m, a,
       [l.account[a] EXCEPT !.delegated_withdrawal_capability = TRUE],
       [l.withdrawal_capability EXCEPT ![a] = @ + 1], l.key_rotation_capability)

RestoresWithdrawal(l, m, a) ==
  /\ a \in Addresses \ {FeeAddress} /\ l.withdrawal_capability[a] > 0
  /\ Becomes(l, m, a,
       [l.account[a] EXCEPT !.delegated_withdrawal_capability = FALSE],
       [l.withdrawal_capability EXCEPT ![a] = @ - 1], l.key_rotation_capability)

ExtractsKeyRotation(l, m, a) ==
  /\ ~l.account[a].delegated_key_rotation_capability
  /\ Becomes(l, m, a,
       [l.account[a] EXCEPT !.delegated_key_rotation_capability = TRUE],
       l.withdrawal_capability, [l.key_rotation_capability EXCEPT ![a] = @ + 1])

RestoresKeyRotation(l, m, a) ==
  /\ a \in Addresses /\ l.key_rotation_capability[a] > 0
  /\ Becomes(l, m, a,
       [l.account[a] EXCEPT !.delegated_key_rotation_capability = FALSE],
       l.withdrawal_capability, [l.key_rotation_capability EXCEPT ![a] = @ - 1])

\* What a call c of sender may do.
Outcome(l, m, sender, c) ==
  \/ Pays(l, m, {})
  \/ SenderPays(l, m, sender)
  \/ OwnerPays(l, m, c)
  \/ SenderRotates(l, m, sender)
  \/ OwnerRotates(l, m, c)
  \/ ExtractsWithdrawal(l, m, sender)
  \/ RestoresWithdrawal(l, m, c.owner)
  \/ ExtractsKeyRotation(l, m, sender)
  \/ RestoresKeyRotation(l, m, c.owner)

LEMMA CallOutcome ==
  ASSUME NEW l \in Ledger, NEW sender \in Addresses, NEW c \in Invocations,
         Callable(l, c), NEW r, r = call(l, sender, c)
  PROVE  Typed(r) /\ (r.status = Executed => Outcome(l, r.ledger, sender, c))
<1>1. c.function \in {"pay_from_sender", "mint_to_address", "create_new_account",
                      "pay_from_capability", "set_timeout"} => c.amount \in Nat
  BY Arguments, U64Type
<1>2. CASE c.function = "pay_from_sender"
  <2>1. r = pay_from_sender(l, sender, c.payee, c.key, c.amount)
    BY <1>2 DEF call
  <2>2. Paid(r, l, {sender})
        /\ (r.status = Executed /\ exists(l, sender) =>
              ~l.account[sender].delegated_withdrawal_capability)
    BY <1>1, <1>2, <2>1, Arguments, PayFromSenderPays
  <2> QED
    BY <2>2, Zenon DEF Paid, Outcome, SenderPays
<1>3. CASE c.function = "pay_from_capability"
  <2>1. r = pay_from_capability(l, c.owner, c.payee, c.key, c.amount)
    BY <1>3 DEF call
  <2>2. Paid(r, l, {c.owner})
    BY <1>1, <1>3, <2>1, Arguments, PayFromCapabilityPays
  <2>3. "owner" \in DOMAIN c /\ l.withdrawal_capability[c.owner] > 0
    BY <1>3, Arguments DEF Callable, CanUse
  <2> QED
    BY <2>2, <2>3, Zenon DEF Paid, Outcome, OwnerPays
<1>4. CASE c.function = "mint_to_address"
  <2>1. r = mint_to_address(l, sender, c.payee, c.key, c.amount)
    BY <1>4 DEF call
  <2>2. Paid(r, l, {})
    BY <1>1, <1>4, <2>1, Arguments, MintToAddressPays
  <2> QED
    BY <2>2, Zenon DEF Paid, Outcome
<1>5. CASE c.function = "create_account"
  <2>1. r = create_account(l, c.payee, c.key)
    BY <1>5 DEF call
  <2>2. Paid(r, l, {})
    BY <1>5, <2>1, Arguments, CreatePays
  <2> QED
    BY <2>2, Zenon DEF Paid, Outcome
<1>6. CASE c.function = "create_new_account"
  <2>1. r = create_new_account(l, sender, c.payee, c.key, c.amount)
    BY <1>6 DEF call
  <2>2. /\ Paid(r, l, {sender})
        /\ r.status = Executed /\ c.amount # 0 /\ exists(l, sender) =>
             ~l.account[sender].delegated_withdrawal_capability
        /\ r.status = Executed /\ c.amount = 0 => Paid(r, l, {})
    BY <1>1, <1>6, <2>1, Arguments, CreateNewAccountPays
  <2> QED
    BY <2>2, Zenon DEF Paid, Outcome, SenderPays
<1>7. CASE c.function = "rotate_authentication_key"
  <2>1. r = rotate_authentication_key(l, sender, c.key)
    BY <1>7 DEF call
  <2>2. /\ Typed(r)
        /\ r.status = Executed =>
             /\ ~l.account[sender].delegated_key_rotation_capability
             /\ Becomes(l, r.ledger, sender,
                  [l.account[sender] EXCEPT !.authentication_key = c.key],
                  l.withdrawal_capability, l.key_rotation_capability)
    BY <2>1, RotateOwn
  <2> QED
    BY <2>2, Zenon DEF Outcome, SenderRotates
<1>8. CASE c.function = "rotate_authentication_key_with_capability"
  <2>1. r = rotate_authentication_key_for_account(l, c.owner, c.key)
    BY <1>8 DEF call
  <2>2. /\ "owner" \in DOMAIN c /\ c.owner \in Addresses
        /\ l.key_rotation_capability[c.owner] > 0
    BY <1>8, Arguments DEF Callable, CanUse
  <2>3. /\ Typed(r)
        /\ r.status = Executed =>
             Becomes(l, r.ledger, c.owner,
               [l.account[c.owner] EXCEPT !.authentication_key = c.key],
               l.withdrawal_capability, l.key_rotation_capability)
    BY <2>1, <2>2, RotateForAccount
  <2> QED
    BY <2>2, <2>3, Zenon DEF Outcome, OwnerRotates
<1>9. CASE c.function = "extract_sender_withdrawal_capability"
  <2>1. r = extract_sender_withdrawal_capability(l, sender)
    BY <1>9 DEF call
  <2> QED
    BY <2>1, ExtractWithdrawalCapability DEF Outcome, ExtractsWithdrawal
<1>10. CASE c.function = "restore_withdrawal_capability"
  <2>1. r = restore_withdrawal_capability(l, c.owner)
    BY <1>10 DEF call
  <2>2. c.owner \in Addresses \ {FeeAddress} /\ l.withdrawal_capability[c.owner] > 0
    BY <1>10, Arguments DEF Callable, CanUse
  <2> QED
    BY <2>1, <2>2, RestoreWithdrawalCapability DEF Outcome, RestoresWithdrawal
<1>11. CASE c.function = "extract_sender_key_rotation_capability"
  <2>1. r = extract_sender_key_rotation_capability(l, sender)
    BY <1>11 DEF call
  <2> QED
    BY <2>1, ExtractKeyRotationCapability DEF Outcome, ExtractsKeyRotation
<1>12. CASE c.function = "restore_key_rotation_capability"
  <2>1. r = restore_key_rotation_capability(l, c.owner)
    BY <1>12 DEF call
  <2>2. c.owner \in Addresses /\ l.key_rotation_capability[c.owner] > 0
    BY <1>12, Arguments DEF Callable, CanUse
  <2> QED
    BY <2>1, <2>2, RestoreKeyRotationCapability DEF Outcome, RestoresKeyRotation
<1>13. CASE c.function = "set_timeout"
  <2>1. r = set_timeout(l, sender, c.amount)
    BY <1>13 DEF call
  <2> QED
    BY <1>13, <2>1, Arguments, SetTimeout DEF Outcome
<1> QED
  BY <1>2, <1>3, <1>4, <1>5, <1>6, <1>7, <1>8, <1>9, <1>10, <1>11, <1>12, <1>13,
     Arguments

\* No call takes or makes a coin but the mint, which says so.
LEMMA CallCoins ==
  ASSUME NEW l \in Ledger, NEW sender \in Addresses, NEW c \in Invocations,
         Callable(l, c), NEW r, r = call(l, sender, c), r.status = Executed
  PROVE  Apart(r.ledger) = Apart(l)
<1>1. c.function \in {"pay_from_sender", "mint_to_address", "create_new_account",
                      "pay_from_capability", "set_timeout"} => c.amount \in Nat
  BY Arguments, U64Type
<1>2. CASE c.function = "pay_from_sender"
  <2>1. r = pay_from_sender(l, sender, c.payee, c.key, c.amount)
    BY <1>2 DEF call
  <2> QED
    BY <1>1, <1>2, <2>1, Arguments, PayFromSenderCoins
<1>3. CASE c.function = "pay_from_capability"
  <2>1. r = pay_from_capability(l, c.owner, c.payee, c.key, c.amount)
    BY <1>3 DEF call
  <2> QED
    BY <1>1, <1>3, <2>1, Arguments, PayFromCapabilityCoins
<1>4. CASE c.function = "mint_to_address"
  <2>1. r = mint_to_address(l, sender, c.payee, c.key, c.amount)
    BY <1>4 DEF call
  <2> QED
    BY <1>1, <1>4, <2>1, Arguments, MintToAddressCoins
<1>5. CASE c.function = "create_account"
  <2>1. r = create_account(l, c.payee, c.key)
    BY <1>5 DEF call
  <2> QED
    BY <1>5, <2>1, Arguments, CreateCoins
<1>6. CASE c.function = "create_new_account"
  <2>1. r = create_new_account(l, sender, c.payee, c.key, c.amount)
    BY <1>6 DEF call
  <2> QED
    BY <1>1, <1>6, <2>1, Arguments, CreateNewAccountCoins
<1>7. ASSUME NEW a \in Addresses, NEW new, NEW w, NEW k,
             Becomes(l, r.ledger, a, new, w, k), r.ledger.total_value = l.total_value
      PROVE  Apart(r.ledger) = Apart(l)
  BY <1>7, ChangedAccountCoins
<1>8. CASE c.function = "rotate_authentication_key"
  <2>1. r = rotate_authentication_key(l, sender, c.key)
    BY <1>8 DEF call
  <2>2. Becomes(l, r.ledger, sender,
          [l.account[sender] EXCEPT !.authentication_key = c.key],
          l.withdrawal_capability, l.key_rotation_capability)
    BY <2>1, RotateOwn
  <2> QED
    BY <1>7, <2>1, <2>2, OtherTotals
<1>9. CASE c.function = "rotate_authentication_key_with_capability"
  <2>1. r = rotate_authentication_key_for_account(l, c.owner, c.key)
    BY <1>9 DEF call
  <2>2. c.owner \in Addresses
    BY <1>9, Arguments
  <2>3. Becomes(l, r.ledger, c.owner,
          [l.account[c.owner] EXCEPT !.authentication_key = c.key],
          l.withdrawal_capability, l.key_rotation_capability)
    BY <2>1, <2>2, RotateForAccount
  <2> QED
    BY <1>7, <2>1, <2>2, <2>3, OtherTotals
<1>10. CASE c.function = "extract_sender_withdrawal_capability"
  <2>1. r = extract_sender_withdrawal_capability(l, sender)
    BY <1>10 DEF call
  <2>3. ExtractsWithdrawal(l, r.ledger, sender)
    BY <2>1, ExtractWithdrawalCapability DEF ExtractsWithdrawal
  <2>4. r.ledger.total_value = l.total_value
    BY <2>1, OtherTotals
  <2> QED
    BY <1>7, <2>3, <2>4 DEF ExtractsWithdrawal
<1>11. CASE c.function = "restore_withdrawal_capability"
  <2>1. r = restore_withdrawal_capability(l, c.owner)
    BY <1>11 DEF call
  <2>2. c.owner \in Addresses \ {FeeAddress} /\ l.withdrawal_capability[c.owner] > 0
    BY <1>11, Arguments DEF Callable, CanUse
  <2>3. RestoresWithdrawal(l, r.ledger, c.owner)
    BY <2>1, <2>2, RestoreWithdrawalCapability DEF RestoresWithdrawal
  <2>4. r.ledger.total_value = l.total_value
    BY <2>1, OtherTotals
  <2> QED
    BY <1>7, <2>2, <2>3, <2>4 DEF RestoresWithdrawal
<1>12. CASE c.function = "extract_sender_key_rotation_capability"
  <2>1. r = extract_sender_key_rotation_capability(l, sender)
    BY <1>12 DEF call
  <2>3. ExtractsKeyRotation(l, r.ledger, sender)
    BY <2>1, ExtractKeyRotationCapability DEF ExtractsKeyRotation
  <2>4. r.ledger.total_value = l.total_value
    BY <2>1, OtherTotals
  <2> QED
    BY <1>7, <2>3, <2>4 DEF ExtractsKeyRotation
<1>13. CASE c.function = "restore_key_rotation_capability"
  <2>1. r = restore_key_rotation_capability(l, c.owner)
    BY <1>13 DEF call
  <2>2. c.owner \in Addresses /\ l.key_rotation_capability[c.owner] > 0
    BY <1>13, Arguments DEF Callable, CanUse
  <2>3. RestoresKeyRotation(l, r.ledger, c.owner)
    BY <2>1, <2>2, RestoreKeyRotationCapability DEF RestoresKeyRotation
  <2>4. r.ledger.total_value = l.total_value
    BY <2>1, OtherTotals
  <2> QED
    BY <1>7, <2>2, <2>3, <2>4 DEF RestoresKeyRotation
<1>14. CASE c.function = "set_timeout"
  <2>1. r = set_timeout(l, sender, c.amount)
    BY <1>14 DEF call
  <2>2. r.ledger \in Ledger
    BY <1>14, <2>1, Arguments, SetTimeout DEF Typed
  <2>3. r.ledger.account = l.account /\ r.ledger.total_value = l.total_value
    BY <2>1, OtherTotals
  <2> QED
    BY <2>2, <2>3, CoinsStay DEF Worth, exists, balance
<1> QED
  BY <1>2, <1>3, <1>4, <1>5, <1>6, <1>8, <1>9, <1>10, <1>11, <1>12, <1>13, <1>14,
     Arguments

----------------------------------------------------------------------------
(* The start of a block *)

LEMMA UpdateTime ==
  ASSUME NEW l \in Ledger, NEW proposer, NEW timestamp \in U64,
         NEW r, r = update_global_time(l, proposer, timestamp)
  PROVE  Typed(r) /\ Pays(l, r.ledger, {FeeAddress}) /\ Apart(r.ledger) = Apart(l)
<1> DEFINE m == [l EXCEPT !.now = timestamp]
<1>1. r = Fail(l, Aborted(5001)) \/ r = Ok(m)
  BY DEF update_global_time
<1>2. CASE r = Fail(l, Aborted(5001))
  BY <1>2, AbortedTyped, PaysRefl
<1>3. CASE r = Ok(m)
  <2>1. /\ m \in Ledger
        /\ m.account = l.account
        /\ m.withdrawal_capability = l.withdrawal_capability
        /\ m.key_rotation_capability = l.key_rotation_capability
        /\ m.total_value = l.total_value
    BY DEF Ledger
  <2> HIDE DEF m
  <2>2. Pays(l, m, {FeeAddress})
    <3>1. Pays(l, l, {FeeAddress})
      BY PaysRefl
    <3> QED
      BY <2>1, <3>1, Zenon DEF Pays, exists, balance
  <2>3. Apart(m) = Apart(l)
    BY <2>1, CoinsStay DEF Worth, exists, balance
  <2> QED
    BY <1>3, <2>1, <2>2, <2>3, StatusType DEF Ok, Typed
<1> QED
  BY <1>1, <1>2, <1>3

\* The loop over the validators takes from nobody but the pot.
LEMMA DistributionPays ==
  ASSUME NEW l \in Ledger, NEW validators \in Seq(Addresses), NEW amount \in Nat,
         NEW r, r = distribute_transaction_fees_internal(l, validators, amount)
  PROVE  /\ Typed(r) /\ Pays(l, r.ledger, {FeeAddress})
         /\ r.status = Executed => Apart(r.ledger) = Apart(l)
<1> DEFINE n == Len(validators)
           R == {x \in [status : Statuses, ledger : Ledger] :
                   /\ Pays(l, x.ledger, {FeeAddress})
                   /\ x.status = Executed => Apart(x.ledger) = Apart(l)}
           Pay(i, x) ==
             pay_from_capability(x.ledger, FeeAddress, validators[i], ShortKey, amount)
           Next1(i, x) == IF x.status = Executed THEN Pay(i, x) ELSE x
           step == [i \in 1..n |-> [x \in R |-> Next1(i, x)]]
<1>1. n \in Nat /\ \A i \in 1..n : validators[i] \in Addresses
  OBVIOUS
<1> HIDE DEF n
<1>2. Ok(l) \in R
  BY StatusType, PaysRefl DEF Ok
<1>3. ASSUME NEW i \in 1..n, NEW x \in R
      PROVE  Next1(i, x) \in R
  <2>1. CASE x.status # Executed
    BY <2>1
  <2>2. CASE x.status = Executed
    <3>1. Paid(Pay(i, x), x.ledger, {FeeAddress})
      BY <1>1, AccountAssumption, PayFromCapabilityPays
    <3>2. Typed(Pay(i, x)) /\ Pays(x.ledger, Pay(i, x).ledger, {FeeAddress})
      BY <3>1 DEF Paid
    <3>3. Pays(l, Pay(i, x).ledger, {FeeAddress})
      BY <3>2, PaysTrans DEF Typed
    <3>4. Pay(i, x).status = Executed => Apart(Pay(i, x).ledger) = Apart(x.ledger)
      BY <1>1, AccountAssumption, PayFromCapabilityCoins
    <3> HIDE DEF Pay
    <3> QED
      BY <2>2, <3>2, <3>3, <3>4 DEF Typed
  <2> QED
    BY <2>1, <2>2
<1>4. step \in [1..n -> [R -> R]]
  <2> HIDE DEF Next1, R
  <2> QED
    BY <1>3
<1>5. \E f \in [0..n -> R] : Recurs(f, n, Ok(l), step)
  <2> HIDE DEF step, R
  <2> QED
    BY <1>1, <1>2, <1>4, RecursionExists
<1>6. \A f \in [0..n -> R] : Recurs(f, n, Ok(l), step) =>
        f = [i \in 0..n |-> IF i = 0 THEN Ok(l) ELSE Next1(i, f[i - 1])]
  <2> HIDE DEF Next1, R
  <2>1. \A f \in [0..n -> R] : \A i \in 0..n : i # 0 => step[i][f[i - 1]] = Next1(i, f[i - 1])
    BY <1>1
  <2> HIDE DEF step
  <2> QED
    BY <2>1 DEF Recurs
<1> DEFINE IsAfter(f) == f = [i \in 0..n |-> IF i = 0 THEN Ok(l) ELSE Next1(i, f[i - 1])]
           after == CHOOSE f : IsAfter(f)
<1>7. IsAfter(after)
  <2>1. \E f : IsAfter(f)
    BY <1>5, <1>6
  <2> HIDE DEF IsAfter
  <2> QED
    BY <2>1
<1>8. r = after[n]
  BY Zenon DEF distribute_transaction_fees_internal, Then, n
<1> DEFINE C == {i \in Nat : i <= n => after[i] \in R}
<1>9. 0 \in C
  <2>1. after[0] = Ok(l)
    <3> HIDE DEF Next1, after
    <3> QED
      BY <1>1, <1>7
  <2> HIDE DEF after, R
  <2> QED
    BY <1>2, <2>1
<1>10. ASSUME NEW i \in Nat, i \in C PROVE i + 1 \in C
  <2>1. i + 1 <= n => after[i + 1] = Next1(i + 1, after[i])
    <3> HIDE DEF Next1, after
    <3> QED
      BY <1>1, <1>7
  <2> HIDE DEF Next1, after, R
  <2> QED
    BY <1>1, <1>3, <1>10, <2>1
<1>11. n \in C
  <2> HIDE DEF C
  <2> QED
    BY <1>1, <1>9, <1>10, NatSetInduction
<1>12. r \in R
  <2> HIDE DEF after, R
  <2> QED
    BY <1>1, <1>8, <1>11
<1> QED
  BY <1>12 DEF Typed

LEMMA BlockPrologueOutcome ==
  ASSUME NEW l \in Ledger, NEW validators \in Seq(Addresses),
         NEW metadata, metadata.timestamp \in U64,
         NEW r, r = block_prologue(l, validators, metadata)
  PROVE  /\ Typed(r) /\ Pays(l, r.ledger, {FeeAddress})
         /\ r.status = Executed => Apart(r.ledger) = Apart(l)
<1> DEFINE r1 == process_block_prologue(l, validators, metadata)
           r2 == distribute_transaction_fees(r1.ledger, validators)
<1>1. /\ Typed(r1) /\ Pays(l, r1.ledger, {FeeAddress})
      /\ Apart(r1.ledger) = Apart(l)
  <2>1. r1 = Fail(l, Aborted(5002))
        \/ r1 = update_global_time(l, metadata.proposer, metadata.timestamp)
    BY DEF process_block_prologue
  <2>2. CASE r1 = Fail(l, Aborted(5002))
    BY <2>2, AbortedTyped, PaysRefl
  <2>3. CASE r1 = update_global_time(l, metadata.proposer, metadata.timestamp)
    <3> DEFINE time == metadata.timestamp
    <3>1. time \in U64 /\ r1 = update_global_time(l, metadata.proposer, time)
      BY <2>3
    <3> HIDE DEF r1, time
    <3> QED
      BY <3>1, UpdateTime
  <2> QED
    BY <2>1, <2>2, <2>3
<1>2. /\ Typed(r2) /\ Pays(r1.ledger, r2.ledger, {FeeAddress})
      /\ r2.status = Executed => Apart(r2.ledger) = Apart(r1.ledger)
  <2> DEFINE l1 == r1.ledger
             n == Len(validators)
  <2>1. l1 \in Ledger /\ n \in Nat
    BY <1>1 DEF Typed
  <2> HIDE DEF r1, l1
  <2>2. CASE ~exists(l1, FeeAddress)
    <3>1. distribute_transaction_fees(l1, validators) = Fail(l1, Status("MISSING_DATA"))
      BY <2>2, Zenon DEF distribute_transaction_fees
    <3> QED
      BY <2>1, <3>1, MissingData, PaysRefl DEF l1
  <2>3. CASE exists(l1, FeeAddress) /\ balance(l1, FeeAddress) < n
    <3>1. distribute_transaction_fees(l1, validators) = Ok(l1)
      BY <2>3 DEF distribute_transaction_fees
    <3> QED
      BY <2>1, <3>1, PaysRefl, StatusType DEF l1, Ok, Typed
  <2>4. CASE exists(l1, FeeAddress) /\ ~(balance(l1, FeeAddress) < n) /\ n = 0
    <3>1. distribute_transaction_fees(l1, validators) = Fail(l1, Aborted(0))
      BY <2>4 DEF distribute_transaction_fees
    <3> QED
      BY <2>1, <3>1, AbortedTyped, PaysRefl DEF l1
  <2>5. CASE exists(l1, FeeAddress) /\ ~(balance(l1, FeeAddress) < n) /\ n # 0
    <3> DEFINE amount == balance(l1, FeeAddress) \div n
    <3>1. distribute_transaction_fees(l1, validators) =
            distribute_transaction_fees_internal(l1, validators, amount)
      BY <2>5 DEF distribute_transaction_fees, per_validator_distribution_amount
    <3>2. balance(l1, FeeAddress) \in Nat
      BY <2>1, <2>5, BalanceType, AccountAssumption
    <3>3. amount \in Nat
      BY <2>1, <2>5, <3>2
    <3> DEFINE d == distribute_transaction_fees_internal(l1, validators, amount)
    <3> HIDE DEF amount
    <3>4. /\ Typed(d) /\ Pays(l1, d.ledger, {FeeAddress})
          /\ d.status = Executed => Apart(d.ledger) = Apart(l1)
      BY <2>1, <3>3, DistributionPays
    <3>5. r2 = d
      BY <3>1 DEF l1
    <3> HIDE DEF d, r2
    <3> QED
      BY <3>4, <3>5 DEF l1
  <2> QED
    BY <2>2, <2>3, <2>4, <2>5
<1>3. Pays(l, r2.ledger, {FeeAddress})
  BY <1>1, <1>2, PaysTrans DEF Typed
<1>4. r = IF r1.status = Executed THEN r2 ELSE r1
  BY DEF block_prologue, Then
<1> QED
  BY <1>1, <1>2, <1>3, <1>4, Zenon

----------------------------------------------------------------------------
(* Before and after the payload *)

\* What the lemmas need of a transaction t.
Metered(t) ==
  /\ t.sender \in Addresses
  /\ t.sequence_number \in U64
  /\ t.gas_unit_price \in Nat
  /\ t.max_gas_amount \in Nat

\* The fee is within what the sender agreed to pay.
LEMMA FeeBound ==
  ASSUME NEW t, Metered(t), NEW gas_left \in Nat, gas_left <= t.max_gas_amount
  PROVE  /\ fee(t, gas_left) \in Nat
         /\ t.gas_unit_price * t.max_gas_amount \in Nat
         /\ fee(t, gas_left) <= t.gas_unit_price * t.max_gas_amount
BY DEF fee, Metered

\* What a successful prologue has established.
LEMMA PrologueOutcome ==
  ASSUME NEW l \in Ledger, NEW t, Metered(t), prologue(l, t).status = Executed
  PROVE  /\ exists(l, t.sender)
         /\ t.gas_unit_price * t.max_gas_amount <= MaxU64
         /\ t.gas_unit_price * t.max_gas_amount <= balance(l, t.sender)
         /\ t.sequence_number = l.account[t.sender].sequence_number
<1> DEFINE sender == l.account[t.sender]
           max_fee == t.gas_unit_price * t.max_gas_amount
<1>1. max_fee \in Nat
  BY DEF Metered
<1>2. /\ \A code \in Nat : Fail(l, Aborted(code)).status # Executed
      /\ Fail(l, Status("ARITHMETIC_ERROR")).status # Executed
  BY StatusType DEF Fail, Majors
<1>3. exists(l, t.sender)
  BY <1>2, Zenon DEF prologue, exists
<1>4. sender \in Account
  BY <1>3, ExistsIsAccount DEF Metered
<1>5. sender.balance \in Nat /\ sender.sequence_number \in Nat
      /\ t.sequence_number \in Nat
  BY <1>4, U64Type DEF Account, Metered
<1>6. /\ ~(max_fee > MaxU64)
      /\ ~(sender.balance < max_fee)
      /\ ~(t.sequence_number < sender.sequence_number)
      /\ ~(t.sequence_number > sender.sequence_number)
  BY <1>2 DEF prologue
<1> HIDE DEF max_fee
<1> QED
  BY <1>1, <1>3, <1>5, <1>6, U64Type DEF balance, max_fee

\* A successful epilogue moves the fee from the sender to the pot, no coin to
\* anywhere else, and takes one sequence number.
Charged(l, m, t, amount) ==
  /\ exists(l, t.sender) /\ exists(l, FeeAddress)
  /\ Apart(m) = Apart(l)
  /\ m = [l EXCEPT !.account = m.account]
  /\ \A a \in Addresses : exists(m, a) <=> exists(l, a)
  /\ \A a \in Addresses :
       a # t.sender /\ a # FeeAddress => m.account[a] = l.account[a]
  /\ \A a \in Addresses : exists(l, a) =>
       m.account[a].sequence_number =
         IF a = t.sender THEN t.sequence_number + 1
         ELSE l.account[a].sequence_number
  /\ t.sender # FeeAddress =>
       /\ m.account[t.sender] =
            [l.account[t.sender] EXCEPT !.balance = @ - amount,
                                        !.sequence_number = t.sequence_number + 1]
       /\ balance(m, FeeAddress) = balance(l, FeeAddress) + amount

\* Exactly when an epilogue succeeds, and what it does then.
LEMMA EpilogueOutcome ==
  ASSUME NEW l \in Ledger, NEW t, Metered(t),
         NEW gas_left \in Nat, gas_left <= t.max_gas_amount,
         NEW r, r = epilogue(l, t, gas_left)
  PROVE  /\ Typed(r)
         /\ r.status = Executed => Charged(l, r.ledger, t, fee(t, gas_left))
         /\ /\ exists(l, t.sender) /\ exists(l, FeeAddress)
            /\ fee(t, gas_left) <= MaxU64
            /\ fee(t, gas_left) <= balance(l, t.sender)
            /\ t.sequence_number < MaxU64
            /\ balance(l, FeeAddress) + fee(t, gas_left) <= MaxU64
            => r.status = Executed
<1> DEFINE amount == fee(t, gas_left)
           s == t.sender
           l1 == [l EXCEPT !.account[s].balance = @ - amount]
           l2 == [l1 EXCEPT !.account[s].sequence_number = t.sequence_number + 1]
           r2 == deposit_coin(l2, FeeAddress, amount)
<1>1. amount \in Nat
  BY FeeBound
<1>2. s \in Addresses /\ t.sequence_number \in Nat
  BY U64Type DEF Metered
<1>3. /\ Status("MISSING_DATA") \in Statuses /\ Status("MISSING_DATA") # Executed
      /\ Status("ARITHMETIC_ERROR") \in Statuses
      /\ Status("ARITHMETIC_ERROR") # Executed
      /\ Aborted(6) \in Statuses /\ Aborted(6) # Executed
  BY StatusType DEF Majors
<1>4. ASSUME NEW status \in Statuses, status # Executed, r = Fail(l, status)
      PROVE  Typed(r) /\ r.status # Executed
  BY <1>4 DEF Typed, Fail
<1>5. exists(l, s) => balance(l, s) \in Nat
  BY <1>2, BalanceType
<1>6. CASE ~exists(l, s)
  <2>1. r = Fail(l, Status("MISSING_DATA"))
    BY <1>6, Zenon DEF epilogue
  <2> QED
    BY <1>3, <1>4, <1>6, <2>1
<1>7. CASE exists(l, s) /\ amount > MaxU64
  <2>1. r = Fail(l, Status("ARITHMETIC_ERROR"))
    BY <1>7, Zenon DEF epilogue
  <2>2. ~(amount <= MaxU64)
    BY <1>1, <1>7, U64Type
  <2> QED
    BY <1>3, <1>4, <2>1, <2>2
<1>8. CASE exists(l, s) /\ ~(amount > MaxU64) /\ balance(l, s) < amount
  <2>1. r = Fail(l, Aborted(6))
    BY <1>8, Zenon DEF epilogue
  <2>2. ~(amount <= balance(l, s))
    BY <1>1, <1>5, <1>8
  <2> QED
    BY <1>3, <1>4, <2>1, <2>2
<1>9. CASE /\ exists(l, s) /\ ~(amount > MaxU64) /\ ~(balance(l, s) < amount)
           /\ t.sequence_number + 1 > MaxU64
  <2>1. r = Fail(l, Status("ARITHMETIC_ERROR"))
    BY <1>9, Zenon DEF epilogue
  <2>2. ~(t.sequence_number < MaxU64)
    BY <1>2, <1>9, U64Type
  <2> QED
    BY <1>3, <1>4, <2>1, <2>2
<1>10. CASE /\ exists(l, s) /\ ~(amount > MaxU64) /\ ~(balance(l, s) < amount)
            /\ ~(t.sequence_number + 1 > MaxU64)
  <2>1. r = r2
    <3>1. r = Then(withdraw_from_balance(l, s, amount), LAMBDA x :
                deposit_coin([x EXCEPT !.account[s].sequence_number =
                                t.sequence_number + 1], FeeAddress, amount))
      BY <1>10, Zenon DEF epilogue
    <3>2. withdraw_from_balance(l, s, amount) = Ok(l1)
      BY <1>10, Zenon DEF withdraw_from_balance
    <3>3. Ok(l1).status = Executed /\ Ok(l1).ledger = l1
      BY DEF Ok
    <3> QED
      BY <3>1, <3>2, <3>3, Zenon DEF Then
  <2> HIDE DEF amount, s
  <2> DEFINE new == [l.account[s] EXCEPT !.balance = @ - amount,
                                         !.sequence_number = t.sequence_number + 1]
  <2>2. l.account[s] \in Account
    BY <1>2, <1>10, ExistsIsAccount
  <2>3. /\ l.account[s].balance - amount \in U64
        /\ t.sequence_number + 1 \in U64
    BY <1>1, <1>2, <1>10, <2>2, U64Type DEF balance, Account, U64
  <2>4. new \in Account
    BY <2>2, <2>3 DEF Account
  <2>5. l2 = [l EXCEPT !.account = [l.account EXCEPT ![s] = new]]
    BY <1>2, <2>2 DEF Ledger, Account
  <2>6. l2 \in Ledger
    BY <2>4, <2>5 DEF Ledger
  <2>7. /\ l2.account[s] = new
        /\ \A a \in Addresses : a # s => l2.account[a] = l.account[a]
    BY <1>2, <2>5 DEF Ledger
  <2>8. \A a \in Addresses : exists(l2, a) <=> exists(l, a)
    BY <1>10, <2>4, <2>7, NoAccountAssumption DEF exists
  <2>9. FeeAddress \in Addresses
    BY AccountAssumption
  <2>10. Typed(r)
    BY <1>1, <2>1, <2>6, <2>9, DepositPays DEF Paid
  <2> HIDE DEF l1, l2, new
  <2>11. Apart(l2) = Apart(l) + amount
    <3>1. \A x \in Addresses \ {s} : Worth(l2, x) = Worth(l, x)
      BY <2>7, <2>8 DEF Worth, balance
    <3>2. Worth(l, s) = balance(l, s) /\ Worth(l2, s) = balance(l, s) - amount
      BY <1>2, <1>10, <2>2, <2>7, <2>8 DEF Worth, balance, new, Account
    <3>3. Coins(l2) = Coins(l) - Worth(l, s) + Worth(l2, s)
      BY <1>2, <2>6, <3>1, CoinsMove
    <3>4. l2.total_value = l.total_value
      BY <2>5 DEF Ledger
    <3>5. /\ Coins(l) \in Nat /\ l.total_value \in Nat /\ balance(l, s) \in Nat
      BY <1>5, <1>10, CoinsType
    <3> QED
      BY <1>1, <3>2, <3>3, <3>4, <3>5 DEF Apart
  <2>12. CASE ~exists(l, FeeAddress)
    <3>1. r = Fail(l2, Status("MISSING_DATA"))
      BY <2>1, <2>8, <2>9, <2>12, Zenon DEF deposit_coin
    <3>2. r.status # Executed
      BY <1>3, <3>1 DEF Fail
    <3> QED
      BY <2>10, <2>12, <3>2, Zenon
  <2>13. CASE exists(l, FeeAddress) /\ balance(l2, FeeAddress) + amount > MaxU64
    <3>1. r = Fail(l2, Status("ARITHMETIC_ERROR"))
      BY <2>1, <2>8, <2>9, <2>13, Zenon DEF deposit_coin
    <3>2. r.status # Executed
      BY <1>3, <3>1 DEF Fail
    <3>3. ~(amount <= balance(l, s) /\ balance(l, FeeAddress) + amount <= MaxU64)
      <4>1. balance(l, FeeAddress) \in Nat
        BY <2>9, <2>13, BalanceType
      <4>2. CASE s = FeeAddress
        <5>1. balance(l2, FeeAddress) = balance(l, FeeAddress) - amount
          BY <2>2, <2>7, <4>2 DEF balance, new, Account
        <5> QED
          BY <1>1, <2>13, <4>1, <5>1, U64Type
      <4>3. CASE s # FeeAddress
        <5>1. balance(l2, FeeAddress) = balance(l, FeeAddress)
          BY <2>7, <2>9, <4>3 DEF balance
        <5> QED
          BY <1>1, <2>13, <4>1, <5>1, U64Type
      <4> QED
        BY <4>2, <4>3
    <3> QED
      BY <2>10, <3>2, <3>3 DEF amount, s
  <2>14. CASE exists(l, FeeAddress) /\ ~(balance(l2, FeeAddress) + amount > MaxU64)
    <3> DEFINE m == [l2 EXCEPT !.account[FeeAddress].balance = @ + amount]
    <3>1. r = Ok(m)
      BY <2>1, <2>8, <2>9, <2>14, Zenon DEF deposit_coin
    <3>2. exists(l2, FeeAddress)
      BY <2>8, <2>9, <2>14
    <3>3. l2.account[FeeAddress] \in Account
      BY <2>6, <2>9, <3>2, ExistsIsAccount
    <3>4. /\ m.account[FeeAddress] = [l2.account[FeeAddress] EXCEPT !.balance = @ + amount]
          /\ \A a \in Addresses : a # FeeAddress => m.account[a] = l2.account[a]
      BY <2>6, <2>9 DEF Ledger
    <3>5. m = [l EXCEPT !.account = m.account]
      <4>1. m = [l2 EXCEPT !.account = m.account]
        BY <2>6 DEF Ledger
      <4> HIDE DEF m
      <4> QED
        BY <2>5, <4>1 DEF Ledger
    <3>6. \A a \in Addresses : exists(m, a) <=> exists(l, a)
      <4>1. m.account[FeeAddress] \in Account
        <5>1. l2.account[FeeAddress].balance + amount \in U64
          BY <1>1, <2>14, <3>3, U64Type DEF balance, Account, U64
        <5> QED
          BY <3>3, <3>4, <5>1 DEF Account
      <4>2. exists(m, FeeAddress)
        BY <4>1, NoAccountAssumption DEF exists
      <4>3. \A a \in Addresses : a # FeeAddress => (exists(m, a) <=> exists(l2, a))
        BY <3>4 DEF exists
      <4> QED
        BY <2>8, <2>14, <4>2, <4>3
    <3> HIDE DEF m
    <3>7. ASSUME NEW a \in Addresses, exists(l, a)
          PROVE  m.account[a].sequence_number =
                   IF a = s THEN t.sequence_number + 1
                   ELSE l.account[a].sequence_number
      <4>1. m.account[a].sequence_number = l2.account[a].sequence_number
        BY <3>3, <3>4 DEF Account
      <4>2. new.sequence_number = t.sequence_number + 1
        BY <2>2 DEF new, Account
      <4> QED
        BY <2>7, <4>1, <4>2
    <3>8. ASSUME s # FeeAddress
          PROVE  /\ m.account[s] = new
                 /\ balance(m, FeeAddress) = balance(l, FeeAddress) + amount
      <4>1. m.account[s] = new
        BY <1>2, <2>7, <3>4, <3>8
      <4>2. l2.account[FeeAddress] = l.account[FeeAddress]
        BY <2>7, <2>9, <3>8
      <4>3. balance(m, FeeAddress) = balance(l2, FeeAddress) + amount
        BY <3>3, <3>4 DEF balance, Account
      <4> QED
        BY <4>1, <4>2, <4>3 DEF balance
    <3>9. \A a \in Addresses :
            a # s /\ a # FeeAddress => m.account[a] = l.account[a]
      BY <2>7, <3>4
    <3>10. Apart(m) = Apart(l)
      <4>1. r.status = Executed /\ r.ledger = m
        BY <3>1 DEF Ok
      <4>2. Apart(r.ledger) = Apart(l2) - amount
        BY <1>1, <2>1, <2>6, <2>9, <4>1, DepositCoins
      <4>3. Apart(l) \in Int
        BY CoinsType
      <4> QED
        BY <1>1, <2>11, <4>1, <4>2, <4>3
    <3>11. Charged(l, m, t, amount)
      BY <1>10, <2>14, <3>10, <3>5, <3>6, <3>7, <3>8, <3>9, Zenon DEF Charged, s, new
    <3> QED
      BY <2>10, <3>1, <3>11 DEF Ok, amount
  <2> QED
    BY <2>12, <2>13, <2>14
<1> QED
  BY <1>6, <1>7, <1>8, <1>9, <1>10

----------------------------------------------------------------------------
(* Accounts that call each other's code *)

\* The fee account has given its capability away, to the module that keeps it.
PotIsKept == ledger.withdrawal_capability[FeeAddress] = 1

CallsInv == CallsTypeOK /\ Conservation /\ CapabilitiesAreUnique /\ PotIsKept

LEMMA NullAddressType == {NullAddress, FeeAddress} \subseteq Addresses
BY AccountAssumption

LEMMA OwnerType ==
  ASSUME NEW c \in Invocations
  PROVE  OwnerOf(c) \in Addresses
<1>1. CASE "owner" \in DOMAIN c
  <2>1. c.owner \in Addresses
    BY <1>1 DEF Invocations
  <2> QED
    BY <1>1, <2>1 DEF OwnerOf
<1>2. CASE "owner" \notin DOMAIN c
  BY <1>2, NullAddressType DEF OwnerOf
<1> QED
  BY <1>1, <1>2

----------------------------------------------------------------------------
(* One capability per account *)

LEMMA PaysKeepsUnique ==
  ASSUME NEW l \in Ledger, NEW m \in Ledger, NEW payers, Pays(l, m, payers),
         Unique(l)
  PROVE  Unique(m) /\ m.withdrawal_capability = l.withdrawal_capability
<1> SUFFICES ASSUME NEW a \in Addresses
             PROVE  /\ (exists(m, a) /\ m.account[a].delegated_withdrawal_capability)
                         = (exists(l, a) /\ l.account[a].delegated_withdrawal_capability)
                    /\ (exists(m, a) /\ m.account[a].delegated_key_rotation_capability)
                         = (exists(l, a) /\ l.account[a].delegated_key_rotation_capability)
  BY Zenon DEF Unique, Pays
<1>1. CASE exists(l, a)
  BY <1>1 DEF Pays
<1>2. CASE ~exists(l, a)
  BY <1>2 DEF Pays
<1> QED
  BY <1>1, <1>2

LEMMA BecomesKeepsUnique ==
  ASSUME NEW l \in Ledger, NEW m, NEW a \in Addresses, NEW new, NEW w, NEW k,
         Becomes(l, m, a, new, w, k), Unique(l),
         w[a] = One(new.delegated_withdrawal_capability),
         k[a] = One(new.delegated_key_rotation_capability)
  PROVE  Unique(m)
<1> SUFFICES ASSUME NEW x \in Addresses
             PROVE  /\ m.withdrawal_capability[x] =
                         One(exists(m, x) /\ m.account[x].delegated_withdrawal_capability)
                    /\ m.key_rotation_capability[x] =
                         One(exists(m, x) /\ m.account[x].delegated_key_rotation_capability)
  BY Zenon DEF Unique
<1>1. CASE x = a
  <2>1. /\ exists(m, a) /\ m.account[a] = new
        /\ m.withdrawal_capability = w /\ m.key_rotation_capability = k
    BY DEF Becomes
  <2> QED
    BY <1>1, <2>1 DEF One
<1>2. CASE x # a
  <2>1. /\ m.account[x] = l.account[x]
        /\ m.withdrawal_capability[x] = l.withdrawal_capability[x]
        /\ m.key_rotation_capability[x] = l.key_rotation_capability[x]
    BY <1>2 DEF Becomes, SameBut
  <2>2. exists(m, x) <=> exists(l, x)
    BY <2>1 DEF exists
  <2> QED
    BY <2>1, <2>2, Zenon DEF Unique
<1> QED
  BY <1>1, <1>2

\* What uniqueness says of an account that is there.
LEMMA UniqueCounts ==
  ASSUME NEW l \in Ledger, Unique(l), NEW a \in Addresses
  PROVE  /\ l.withdrawal_capability[a] \in {0, 1}
         /\ l.key_rotation_capability[a] \in {0, 1}
         /\ exists(l, a) =>
              /\ l.withdrawal_capability[a] =
                   One(l.account[a].delegated_withdrawal_capability)
              /\ l.key_rotation_capability[a] =
                   One(l.account[a].delegated_key_rotation_capability)
              /\ l.account[a] \in Account
         /\ l.withdrawal_capability \in [Addresses -> Nat]
         /\ l.key_rotation_capability \in [Addresses -> Nat]
<1>1. /\ l.withdrawal_capability[a] =
           One(exists(l, a) /\ l.account[a].delegated_withdrawal_capability)
      /\ l.key_rotation_capability[a] =
           One(exists(l, a) /\ l.account[a].delegated_key_rotation_capability)
  BY DEF Unique
<1>2. exists(l, a) => l.account[a] \in Account
  BY ExistsIsAccount
<1>3. exists(l, a) =>
        /\ l.withdrawal_capability[a] =
             One(l.account[a].delegated_withdrawal_capability)
        /\ l.key_rotation_capability[a] =
             One(l.account[a].delegated_key_rotation_capability)
  BY <1>1 DEF One
<1>4. /\ l.withdrawal_capability \in [Addresses -> Nat]
      /\ l.key_rotation_capability \in [Addresses -> Nat]
  BY DEF Ledger
<1> QED
  BY <1>1, <1>2, <1>3, <1>4 DEF One

\* The numbers of capabilities of an account that is there.
Counted(l, a) ==
  /\ l.account[a] \in Account
  /\ l.withdrawal_capability \in [Addresses -> Nat]
  /\ l.key_rotation_capability \in [Addresses -> Nat]
  /\ l.withdrawal_capability[a] = One(l.account[a].delegated_withdrawal_capability)
  /\ l.key_rotation_capability[a] = One(l.account[a].delegated_key_rotation_capability)

LEMMA CountedWhenUnique ==
  ASSUME NEW l \in Ledger, Unique(l), NEW a \in Addresses, exists(l, a)
  PROVE  Counted(l, a)
BY UniqueCounts, Zenon DEF Counted

\* Whatever a call does, capabilities stay unique and the pot keeps its own.
LEMMA OutcomeKeepsUnique ==
  ASSUME NEW l \in Ledger, NEW m \in Ledger, NEW sender \in Addresses, NEW c \in Invocations,
         Outcome(l, m, sender, c), Unique(l), l.withdrawal_capability[FeeAddress] = 1
  PROVE  Unique(m) /\ m.withdrawal_capability[FeeAddress] = 1
<1>1. ASSUME NEW payers, Pays(l, m, payers)
      PROVE  Unique(m) /\ m.withdrawal_capability[FeeAddress] = 1
  BY <1>1, PaysKeepsUnique
<1>2. ASSUME NEW a \in Addresses, NEW key,
             Becomes(l, m, a, [l.account[a] EXCEPT !.authentication_key = key],
               l.withdrawal_capability, l.key_rotation_capability)
      PROVE  Unique(m) /\ m.withdrawal_capability[FeeAddress] = 1
  <2> DEFINE new == [l.account[a] EXCEPT !.authentication_key = key]
  <2>1. Becomes(l, m, a, new, l.withdrawal_capability, l.key_rotation_capability)
    BY <1>2
  <2>2. Counted(l, a)
    BY <2>1, CountedWhenUnique DEF Becomes
  <2>3. /\ new.delegated_withdrawal_capability =
             l.account[a].delegated_withdrawal_capability
        /\ new.delegated_key_rotation_capability =
             l.account[a].delegated_key_rotation_capability
    BY <2>2 DEF Counted, Account
  <2> HIDE DEF new
  <2>4. Unique(m)
    BY <2>1, <2>2, <2>3, BecomesKeepsUnique DEF Counted
  <2> QED
    BY <2>1, <2>4 DEF Becomes
<1>3. ASSUME NEW a \in Addresses, ExtractsWithdrawal(l, m, a)
      PROVE  Unique(m) /\ m.withdrawal_capability[FeeAddress] = 1
  <2> DEFINE new == [l.account[a] EXCEPT !.delegated_withdrawal_capability = TRUE]
             count == [l.withdrawal_capability EXCEPT ![a] = @ + 1]
  <2>1. Becomes(l, m, a, new, count, l.key_rotation_capability)
    BY <1>3 DEF ExtractsWithdrawal
  <2>2. exists(l, a) /\ ~l.account[a].delegated_withdrawal_capability
    BY <1>3, <2>1 DEF ExtractsWithdrawal, Becomes
  <2>3. Counted(l, a)
    BY <2>2, CountedWhenUnique
  <2>4. l.withdrawal_capability[a] = 0
    BY <2>2, <2>3, Zenon DEF ExtractsWithdrawal, Counted, One
  <2>5. /\ new.delegated_withdrawal_capability = TRUE
        /\ new.delegated_key_rotation_capability = l.account[a].delegated_key_rotation_capability
        /\ count[a] = 1
    BY <2>3, <2>4 DEF Counted, Account
  <2>8. count[FeeAddress] = 1
    BY <2>3, <2>4, NullAddressType DEF Counted
  <2> HIDE DEF new, count
  <2>6. One(new.delegated_withdrawal_capability) = 1
    BY <2>5, Zenon DEF One
  <2>7. Unique(m)
    BY <2>1, <2>3, <2>5, <2>6, BecomesKeepsUnique DEF Counted
  <2> QED
    BY <2>1, <2>7, <2>8 DEF Becomes
<1>4. ASSUME NEW a \in Addresses, RestoresWithdrawal(l, m, a)
      PROVE  Unique(m) /\ m.withdrawal_capability[FeeAddress] = 1
  <2> DEFINE new == [l.account[a] EXCEPT !.delegated_withdrawal_capability = FALSE]
             count == [l.withdrawal_capability EXCEPT ![a] = @ - 1]
  <2>1. Becomes(l, m, a, new, count, l.key_rotation_capability)
    BY <1>4 DEF RestoresWithdrawal
  <2>2. exists(l, a)
    BY <1>4, <2>1 DEF RestoresWithdrawal, Becomes
  <2>3. Counted(l, a)
    BY <2>2, CountedWhenUnique
  <2>4. l.withdrawal_capability[a] = 1
    <3>1. l.withdrawal_capability[a] > 0
      BY <1>4 DEF RestoresWithdrawal
    <3> QED
      BY <2>3, <3>1 DEF Counted, One
  <2>5. /\ new.delegated_withdrawal_capability = FALSE
        /\ new.delegated_key_rotation_capability = l.account[a].delegated_key_rotation_capability
        /\ count[a] = 0
    BY <2>3, <2>4 DEF Counted, Account
  <2>8. count[FeeAddress] = 1
    <3>1. a # FeeAddress
      BY <1>4 DEF RestoresWithdrawal
    <3> QED
      BY <2>3, <3>1, NullAddressType DEF Counted
  <2> HIDE DEF new, count
  <2>6. One(new.delegated_withdrawal_capability) = 0
    BY <2>5, Zenon DEF One
  <2>7. Unique(m)
    BY <2>1, <2>3, <2>5, <2>6, BecomesKeepsUnique DEF Counted
  <2> QED
    BY <2>1, <2>7, <2>8 DEF Becomes
<1>5. ASSUME NEW a \in Addresses, ExtractsKeyRotation(l, m, a)
      PROVE  Unique(m) /\ m.withdrawal_capability[FeeAddress] = 1
  <2> DEFINE new == [l.account[a] EXCEPT !.delegated_key_rotation_capability = TRUE]
             count == [l.key_rotation_capability EXCEPT ![a] = @ + 1]
  <2>1. Becomes(l, m, a, new, l.withdrawal_capability, count)
    BY <1>5 DEF ExtractsKeyRotation
  <2>2. exists(l, a) /\ ~l.account[a].delegated_key_rotation_capability
    BY <1>5, <2>1 DEF ExtractsKeyRotation, Becomes
  <2>3. Counted(l, a)
    BY <2>2, CountedWhenUnique
  <2>4. l.key_rotation_capability[a] = 0
    BY <2>2, <2>3, Zenon DEF ExtractsKeyRotation, Counted, One
  <2>5. /\ new.delegated_key_rotation_capability = TRUE
        /\ new.delegated_withdrawal_capability = l.account[a].delegated_withdrawal_capability
        /\ count[a] = 1
    BY <2>3, <2>4 DEF Counted, Account
  <2> HIDE DEF new, count
  <2>6. One(new.delegated_key_rotation_capability) = 1
    BY <2>5, Zenon DEF One
  <2>7. Unique(m)
    BY <2>1, <2>3, <2>5, <2>6, BecomesKeepsUnique DEF Counted
  <2> QED
    BY <2>1, <2>7 DEF Becomes
<1>6. ASSUME NEW a \in Addresses, RestoresKeyRotation(l, m, a)
      PROVE  Unique(m) /\ m.withdrawal_capability[FeeAddress] = 1
  <2> DEFINE new == [l.account[a] EXCEPT !.delegated_key_rotation_capability = FALSE]
             count == [l.key_rotation_capability EXCEPT ![a] = @ - 1]
  <2>1. Becomes(l, m, a, new, l.withdrawal_capability, count)
    BY <1>6 DEF RestoresKeyRotation
  <2>2. exists(l, a)
    BY <1>6, <2>1 DEF RestoresKeyRotation, Becomes
  <2>3. Counted(l, a)
    BY <2>2, CountedWhenUnique
  <2>4. l.key_rotation_capability[a] = 1
    <3>1. l.key_rotation_capability[a] > 0
      BY <1>6 DEF RestoresKeyRotation
    <3> QED
      BY <2>3, <3>1 DEF Counted, One
  <2>5. /\ new.delegated_key_rotation_capability = FALSE
        /\ new.delegated_withdrawal_capability = l.account[a].delegated_withdrawal_capability
        /\ count[a] = 0
    BY <2>3, <2>4 DEF Counted, Account
  <2> HIDE DEF new, count
  <2>6. One(new.delegated_key_rotation_capability) = 0
    BY <2>5, Zenon DEF One
  <2>7. Unique(m)
    BY <2>1, <2>3, <2>5, <2>6, BecomesKeepsUnique DEF Counted
  <2> QED
    BY <2>1, <2>7 DEF Becomes
<1>7. CASE SenderPays(l, m, sender) \/ OwnerPays(l, m, c) \/ Pays(l, m, {})
  BY <1>1, <1>7 DEF SenderPays, OwnerPays
<1>8. CASE SenderRotates(l, m, sender) \/ OwnerRotates(l, m, c)
  BY <1>2, <1>8 DEF SenderRotates, OwnerRotates
<1>9. CASE ExtractsWithdrawal(l, m, sender) \/ ExtractsKeyRotation(l, m, sender)
  BY <1>3, <1>5, <1>9
<1>10. CASE RestoresWithdrawal(l, m, c.owner) \/ RestoresKeyRotation(l, m, c.owner)
  <2>1. c.owner \in Addresses
    BY <1>10 DEF RestoresWithdrawal, RestoresKeyRotation
  <2> QED
    BY <1>4, <1>6, <1>10, <2>1
<1> QED
  BY <1>7, <1>8, <1>9, <1>10 DEF Outcome

----------------------------------------------------------------------------
(* Steps *)

\* A step that changes the ledger is a call that succeeded or a distribution.
Called(sender, c) ==
  /\ exists(ledger, sender)
  /\ Outcome(ledger, ledger', sender, c)
  /\ Apart(ledger') = Apart(ledger)
  /\ actor' = [sender |-> sender, owner |-> OwnerOf(c)]

Distributed ==
  /\ Pays(ledger, ledger', {FeeAddress})
  /\ Apart(ledger') = Apart(ledger)
  /\ actor' = [sender |-> NullAddress, owner |-> FeeAddress]

LEMMA StepOutcome ==
  ASSUME CallsTypeOK, [CallsNext]_callVars
  PROVE  /\ CallsTypeOK'
         /\ \/ ledger' = ledger
            \/ \E sender \in Addresses, c \in Invocations : Called(sender, c)
            \/ Distributed
<1>1. ASSUME NEW sender \in Addresses, NEW c \in Invocations, Run(sender, c)
      PROVE  CallsTypeOK' /\ (ledger' = ledger \/ Called(sender, c))
  <2> DEFINE r == call(ledger, sender, c)
  <2>1. c \in Invocations /\ ledger \in Ledger
    BY DEF CallsTypeOK
  <2>2. /\ Typed(r)
        /\ r.status = Executed =>
             Outcome(ledger, r.ledger, sender, c) /\ Apart(r.ledger) = Apart(ledger)
    BY <1>1, <2>1, CallOutcome, CallCoins DEF Run
  <2>3. ledger' = IF r.status = Executed THEN r.ledger ELSE ledger
    BY <1>1 DEF Run
  <2>4. exists(ledger, sender) /\ actor' = [sender |-> sender, owner |-> OwnerOf(c)]
    BY <1>1 DEF Run
  <2> HIDE DEF r
  <2>5. ledger' \in Ledger
    BY <2>1, <2>2, <2>3 DEF Typed
  <2>6. actor' \in [sender : Addresses, owner : Addresses]
    BY <2>4, OwnerType
  <2> QED
    BY <2>2, <2>3, <2>4, <2>5, <2>6 DEF CallsTypeOK, Called
<1>2. ASSUME NEW metadata \in Metadata, Tick(metadata)
      PROVE  CallsTypeOK' /\ (ledger' = ledger \/ Distributed)
  <2> DEFINE r == block_prologue(ledger, ValidatorSet, metadata)
  <2>1. /\ Typed(r) /\ Pays(ledger, r.ledger, {FeeAddress})
        /\ r.status = Executed => Apart(r.ledger) = Apart(ledger)
    BY CallsAssumption, BlockPrologueOutcome DEF CallsTypeOK
  <2>2. ledger' = IF r.status = Executed THEN r.ledger ELSE ledger
    BY <1>2 DEF Tick
  <2>3. actor' = [sender |-> NullAddress, owner |-> FeeAddress]
    BY <1>2 DEF Tick
  <2> HIDE DEF r
  <2>4. ledger' \in Ledger
    BY <2>1, <2>2 DEF Typed, CallsTypeOK
  <2>5. actor' \in [sender : Addresses, owner : Addresses]
    BY <2>3, NullAddressType
  <2> QED
    BY <2>1, <2>2, <2>3, <2>4, <2>5 DEF CallsTypeOK, Distributed
<1>3. CASE UNCHANGED callVars
  BY <1>3 DEF callVars, CallsTypeOK
<1>4. \A sender \in Addresses : CallsOf[sender] \subseteq Invocations
  BY CallsAssumption
<1> QED
  BY <1>1, <1>2, <1>3, <1>4 DEF CallsNext

LEMMA CallsInitInv == CallsInit => CallsInv
BY CallsAssumption, NullAddressType
   DEF CallsInit, CallsInv, CallsTypeOK, Conservation, CapabilitiesAreUnique, PotIsKept

LEMMA CallsInductive == CallsInv /\ [CallsNext]_callVars => CallsInv'
<1> SUFFICES ASSUME CallsInv, [CallsNext]_callVars PROVE CallsInv'
  OBVIOUS
<1>1. CallsTypeOK /\ CallsTypeOK' /\ Unique(ledger) /\ ledger.withdrawal_capability[FeeAddress] = 1
  BY StepOutcome DEF CallsInv, CapabilitiesAreUnique, PotIsKept
<1>2. ledger \in Ledger /\ ledger' \in Ledger
  BY <1>1 DEF CallsTypeOK
<1>3. Unique(ledger') /\ ledger'.withdrawal_capability[FeeAddress] = 1
  <2>1. CASE ledger' = ledger
    BY <1>1, <2>1
  <2>2. ASSUME NEW sender \in Addresses, NEW c \in Invocations, Called(sender, c)
        PROVE  Unique(ledger') /\ ledger'.withdrawal_capability[FeeAddress] = 1
    BY <1>1, <1>2, <2>2, OutcomeKeepsUnique DEF Called
  <2>3. CASE Distributed
    BY <1>1, <1>2, <2>3, PaysKeepsUnique DEF Distributed
  <2> QED
    BY <1>1, <2>1, <2>2, <2>3, StepOutcome
<1>4. Covered(ledger')
  <2>1. Apart(ledger') = Apart(ledger)
    BY <1>1, StepOutcome DEF Called, Distributed
  <2>2. Apart(ledger) = 0
    BY <1>2, CoveredIsApart DEF CallsInv, Conservation
  <2> QED
    BY <1>2, <2>1, <2>2, CoveredIsApart
<1> QED
  BY <1>1, <1>3, <1>4 DEF CallsInv, Conservation, CapabilitiesAreUnique, PotIsKept

LEMMA CallsInvariant == CallsSpec => []CallsInv
BY CallsInitInv, CallsInductive, PTL DEF CallsSpec

----------------------------------------------------------------------------
(* Theorems *)

\* Balances and sequence numbers stay within u64 whatever accounts call.
THEOREM CallsTypeCorrect == CallsSpec => []CallsTypeOK
BY CallsInvariant, PTL DEF CallsInv

\* No call of any account, however it fails, and no distribution of fees loses a
\* coin or makes one: the coins in the accounts are those that have been minted.
THEOREM CoinsAreConserved == CallsSpec => []Conservation
BY CallsInvariant, PTL DEF CallsInv

\* There is never a second capability of an account.
THEOREM CapabilitiesStayUnique == CallsSpec => []CapabilitiesAreUnique
BY CallsInvariant, PTL DEF CallsInv

\* Accounts and their sequence numbers are there to stay.
THEOREM AccountsStay == CallsSpec => AccountsPersist
<1> DEFINE Persists ==
      \A a \in Addresses : exists(ledger, a) =>
        /\ exists(ledger', a)
        /\ ledger'.account[a].sequence_number = ledger.account[a].sequence_number
<1>1. ASSUME CallsInv, [CallsNext]_callVars PROVE Persists
  <2> SUFFICES ASSUME NEW a \in Addresses, exists(ledger, a)
               PROVE  /\ exists(ledger', a)
                      /\ ledger'.account[a].sequence_number =
                           ledger.account[a].sequence_number
    OBVIOUS
  <2>1. CASE ledger' = ledger
    BY <2>1
  <2>2. ASSUME NEW payers, Pays(ledger, ledger', payers)
        PROVE  /\ exists(ledger', a)
               /\ ledger'.account[a].sequence_number =
                    ledger.account[a].sequence_number
    BY <2>2 DEF Pays
  <2>3. ASSUME NEW b \in Addresses, NEW new, NEW w, NEW k,
               Becomes(ledger, ledger', b, new, w, k)
        PROVE  /\ exists(ledger', a)
               /\ ledger'.account[a].sequence_number =
                    ledger.account[a].sequence_number
    <3>1. CASE a = b
      BY <2>3, <3>1 DEF Becomes, Alike
    <3>2. CASE a # b
      BY <2>3, <3>2 DEF Becomes, SameBut, exists
    <3> QED
      BY <3>1, <3>2
  <2>4. ASSUME NEW sender \in Addresses, NEW c \in Invocations, Called(sender, c)
        PROVE  /\ exists(ledger', a)
               /\ ledger'.account[a].sequence_number =
                    ledger.account[a].sequence_number
    BY <2>2, <2>3, <2>4
       DEF Called, Outcome, SenderPays, OwnerPays, SenderRotates, OwnerRotates,
           ExtractsWithdrawal, RestoresWithdrawal, ExtractsKeyRotation,
           RestoresKeyRotation
  <2>5. CASE Distributed
    BY <2>2, <2>5 DEF Distributed
  <2> QED
    BY <1>1, <2>1, <2>4, <2>5, StepOutcome DEF CallsInv
<1>2. CallsInv /\ [CallsNext]_callVars => [Persists]_callVars
  BY <1>1
<1> QED
  BY <1>2, CallsInvariant, PTL DEF CallsSpec, AccountsPersist

\* Nobody pays but by the hand of the capability's holder.
THEOREM OnlyHoldersPay == CallsSpec => OnlyAuthorityPays
<1> DEFINE ByAuthority ==
      \A a \in Addresses :
        exists(ledger, a) /\ balance(ledger', a) < balance(ledger, a) =>
          \/ actor'.sender = a /\ ledger.withdrawal_capability[a] = 0
          \/ actor'.owner = a /\ ledger.withdrawal_capability[a] = 1
<1>1. ASSUME CallsInv, [CallsNext]_callVars PROVE ByAuthority
  <2> SUFFICES ASSUME NEW a \in Addresses, exists(ledger, a),
                      balance(ledger', a) < balance(ledger, a)
               PROVE  \/ actor'.sender = a /\ ledger.withdrawal_capability[a] = 0
                      \/ actor'.owner = a /\ ledger.withdrawal_capability[a] = 1
    OBVIOUS
  <2>1. ledger \in Ledger /\ ledger' \in Ledger /\ Unique(ledger)
    BY <1>1, StepOutcome DEF CallsInv, CallsTypeOK, CapabilitiesAreUnique
  <2>2. Counted(ledger, a) /\ ledger.withdrawal_capability[a] \in {0, 1}
    BY <2>1, CountedWhenUnique, UniqueCounts
  <2>3. balance(ledger, a) \in Nat
    BY <2>1, BalanceType
  <2>4. ASSUME NEW payers, Pays(ledger, ledger', payers) PROVE a \in payers
    <3>1. exists(ledger', a)
      BY <2>4 DEF Pays
    <3>2. balance(ledger', a) \in Nat
      BY <2>1, <3>1, BalanceType
    <3>3. ~(balance(ledger, a) <= balance(ledger', a))
      BY <2>3, <3>2
    <3> QED
      BY <2>4, <3>3 DEF Pays
  <2>5. ASSUME NEW b \in Addresses, NEW new, NEW w, NEW k,
               Becomes(ledger, ledger', b, new, w, k)
        PROVE  FALSE
    <3>1. balance(ledger', a) = balance(ledger, a)
      <4>1. CASE a = b
        BY <2>5, <4>1 DEF Becomes, Alike, balance
      <4>2. CASE a # b
        BY <2>5, <4>2 DEF Becomes, SameBut, balance
      <4> QED
        BY <4>1, <4>2
    <3> QED
      BY <2>3, <3>1
  <2>6. ledger' # ledger
    BY <2>3
  <2>7. ASSUME NEW sender \in Addresses, NEW c \in Invocations, Called(sender, c)
        PROVE  \/ actor'.sender = a /\ ledger.withdrawal_capability[a] = 0
               \/ actor'.owner = a /\ ledger.withdrawal_capability[a] = 1
    <3>1. SenderPays(ledger, ledger', sender) \/ OwnerPays(ledger, ledger', c)
      BY <2>4, <2>5, <2>7
         DEF Called, Outcome, SenderRotates, OwnerRotates, ExtractsWithdrawal,
             RestoresWithdrawal, ExtractsKeyRotation, RestoresKeyRotation
    <3>2. actor'.sender = sender /\ actor'.owner = OwnerOf(c)
      BY <2>7 DEF Called
    <3>3. CASE SenderPays(ledger, ledger', sender)
      <4>1. a = sender
        BY <2>4, <3>3 DEF SenderPays
      <4>2. ~ledger.account[a].delegated_withdrawal_capability
        BY <3>3, <4>1 DEF SenderPays
      <4>3. ledger.withdrawal_capability[a] = 0
        BY <2>2, <4>2, Zenon DEF Counted, One
      <4> QED
        BY <3>2, <4>1, <4>3
    <3>4. CASE OwnerPays(ledger, ledger', c)
      <4>1. a = OwnerOf(c) /\ ledger.withdrawal_capability[a] > 0
        BY <2>4, <3>4 DEF OwnerPays, OwnerOf
      <4>2. ledger.withdrawal_capability[a] = 1
        BY <2>2, <4>1
      <4> QED
        BY <3>2, <4>1, <4>2
    <3> QED
      BY <3>1, <3>3, <3>4
  <2>8. CASE Distributed
    <3>1. a = FeeAddress /\ actor'.owner = FeeAddress
      BY <2>4, <2>8 DEF Distributed
    <3> QED
      BY <1>1, <3>1 DEF CallsInv, PotIsKept
  <2> QED
    BY <1>1, <2>6, <2>7, <2>8, StepOutcome DEF CallsInv
<1>2. CallsInv /\ [CallsNext]_callVars => [ByAuthority]_callVars
  BY <1>1
<1> QED
  BY <1>2, CallsInvariant, PTL DEF CallsSpec, OnlyAuthorityPays

\* No key changes but by the hand of the capability's holder.
THEOREM OnlyHoldersRotate == CallsSpec => OnlyAuthorityRotates
<1> DEFINE ByAuthority ==
      \A a \in Addresses :
        exists(ledger, a)
          /\ ledger'.account[a].authentication_key #
               ledger.account[a].authentication_key =>
          \/ actor'.sender = a /\ ledger.key_rotation_capability[a] = 0
          \/ actor'.owner = a /\ ledger.key_rotation_capability[a] = 1
<1>1. ASSUME CallsInv, [CallsNext]_callVars PROVE ByAuthority
  <2> SUFFICES ASSUME NEW a \in Addresses, exists(ledger, a),
                      ledger'.account[a].authentication_key #
                        ledger.account[a].authentication_key
               PROVE  \/ actor'.sender = a /\ ledger.key_rotation_capability[a] = 0
                      \/ actor'.owner = a /\ ledger.key_rotation_capability[a] = 1
    OBVIOUS
  <2>1. ledger \in Ledger /\ Unique(ledger)
    BY <1>1 DEF CallsInv, CallsTypeOK, CapabilitiesAreUnique
  <2>2. Counted(ledger, a) /\ ledger.key_rotation_capability[a] \in {0, 1}
    BY <2>1, CountedWhenUnique, UniqueCounts
  <2>3. ASSUME NEW payers, Pays(ledger, ledger', payers) PROVE FALSE
    BY <2>3 DEF Pays
  <2>4. ASSUME NEW b \in Addresses, NEW new, NEW w, NEW k,
               Becomes(ledger, ledger', b, new, w, k)
        PROVE  a = b /\ ledger'.account[a] = new
    <3>1. a = b
      BY <2>4 DEF Becomes, SameBut
    <3> QED
      BY <2>4, <3>1 DEF Becomes
  <2>5. ASSUME NEW capability \in BOOLEAN
        PROVE  /\ [ledger.account[a] EXCEPT !.delegated_withdrawal_capability
                     = capability].authentication_key
                    = ledger.account[a].authentication_key
               /\ [ledger.account[a] EXCEPT !.delegated_key_rotation_capability
                     = capability].authentication_key
                    = ledger.account[a].authentication_key
    BY <2>2 DEF Counted, Account
  <2>6. ASSUME NEW sender \in Addresses, NEW c \in Invocations, Called(sender, c)
        PROVE  \/ actor'.sender = a /\ ledger.key_rotation_capability[a] = 0
               \/ actor'.owner = a /\ ledger.key_rotation_capability[a] = 1
    <3>1. actor'.sender = sender /\ actor'.owner = OwnerOf(c)
      BY <2>6 DEF Called
    <3>2. ~ExtractsWithdrawal(ledger, ledger', sender)
      BY <2>4, <2>5 DEF ExtractsWithdrawal
    <3>3. ~ExtractsKeyRotation(ledger, ledger', sender)
      BY <2>4, <2>5 DEF ExtractsKeyRotation
    <3>4. ~RestoresWithdrawal(ledger, ledger', c.owner)
      BY <2>4, <2>5 DEF RestoresWithdrawal
    <3>5. ~RestoresKeyRotation(ledger, ledger', c.owner)
      BY <2>4, <2>5 DEF RestoresKeyRotation
    <3>6. ~SenderPays(ledger, ledger', sender) /\ ~OwnerPays(ledger, ledger', c)
          /\ ~Pays(ledger, ledger', {})
      BY <2>3 DEF SenderPays, OwnerPays
    <3>7. CASE SenderRotates(ledger, ledger', sender)
      <4>1. a = sender /\ ~ledger.account[a].delegated_key_rotation_capability
        BY <2>4, <3>7 DEF SenderRotates
      <4>2. ledger.key_rotation_capability[a] = 0
        BY <2>2, <4>1, Zenon DEF Counted, One
      <4> QED
        BY <3>1, <4>1, <4>2
    <3>8. CASE OwnerRotates(ledger, ledger', c)
      <4>1. a = OwnerOf(c) /\ ledger.key_rotation_capability[a] > 0
        BY <2>4, <3>8 DEF OwnerRotates, OwnerOf
      <4>2. ledger.key_rotation_capability[a] = 1
        BY <2>2, <4>1
      <4> QED
        BY <3>1, <4>1, <4>2
    <3> QED
      BY <2>6, <3>2, <3>3, <3>4, <3>5, <3>6, <3>7, <3>8 DEF Called, Outcome
  <2>7. CASE Distributed
    BY <2>3, <2>7 DEF Distributed
  <2> QED
    BY <1>1, <2>6, <2>7, StepOutcome DEF CallsInv
<1>2. CallsInv /\ [CallsNext]_callVars => [ByAuthority]_callVars
  BY <1>1
<1> QED
  BY <1>2, CallsInvariant, PTL DEF CallsSpec, OnlyAuthorityRotates

=============================================================================
