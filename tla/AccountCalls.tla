----------------------------- MODULE AccountCalls -----------------------------
(***************************************************************************)
(* Accounts that call each other's code: any account runs any call of       *)
(* LibraAccount it can get its hands on, with the capabilities that were     *)
(* handed out in anybody's reach, and blocks begin in between.  A call that  *)
(* fails leaves nothing behind.  Gas and transactions are LibraVM's.        *)
(***************************************************************************)
EXTENDS LibraBlock

CONSTANTS CallsOf,        \* the calls the code of each account makes
          Metadata,       \* the block metadata consensus sends
          ValidatorSet,   \* the validator set
          FirstLedgers,   \* ledgers to start from
          MaxSupply       \* bound: no minting beyond it

One(b) == IF b THEN 1 ELSE 0

\* There is one capability of an account outside of it exactly when the account
\* says so.
Unique(l) ==
  \A a \in Addresses :
    /\ l.withdrawal_capability[a] =
         One(exists(l, a) /\ l.account[a].delegated_withdrawal_capability)
    /\ l.key_rotation_capability[a] =
         One(exists(l, a) /\ l.account[a].delegated_key_rotation_capability)

\* TransactionFee holds the capability of the fee account since genesis.
ASSUME CallsAssumption ==
  /\ CallsOf \in [Addresses -> SUBSET Invocations]
  /\ \A metadata \in Metadata : metadata.timestamp \in U64
  /\ ValidatorSet \in Seq(Addresses)
  /\ FirstLedgers \subseteq Ledger
  /\ \A l \in FirstLedgers :
       Unique(l) /\ Covered(l) /\ l.withdrawal_capability[FeeAddress] = 1

VARIABLES ledger,
          actor           \* history: who ran the last step, and which

callVars == <<ledger, actor>>

CallsInit ==
  /\ ledger \in FirstLedgers
  /\ actor = [sender |-> NullAddress, owner |-> NullAddress]

\* Whose capability a call takes, if it takes one.
OwnerOf(c) == IF "owner" \in DOMAIN c THEN c.owner ELSE NullAddress

\* A transaction of one call.
Run(sender, c) ==
  /\ exists(ledger, sender)
  /\ Callable(ledger, c)
  /\ c.function = "mint_to_address" => ledger.total_value + c.amount <= MaxSupply
  /\ LET r == call(ledger, sender, c)
     IN  ledger' = IF r.status = Executed THEN r.ledger ELSE ledger
  /\ actor' = [sender |-> sender, owner |-> OwnerOf(c)]

\* A block begins; one that fails to is lost.
Tick(metadata) ==
  /\ LET r == block_prologue(ledger, ValidatorSet, metadata)
     IN  ledger' = IF r.status = Executed THEN r.ledger ELSE ledger
  /\ actor' = [sender |-> NullAddress, owner |-> FeeAddress]

CallsNext ==
  \/ \E sender \in Addresses : \E c \in CallsOf[sender] : Run(sender, c)
  \/ \E metadata \in Metadata : Tick(metadata)

CallsSpec == CallsInit /\ [][CallsNext]_callVars

----------------------------------------------------------------------------
(* Properties *)

CallsTypeOK ==
  /\ ledger \in Ledger
  /\ actor \in [sender : Addresses, owner : Addresses]

\* The value of all coins is what has been minted: no call loses or makes any
\* (libra.move, "The sum of the values of all Libra::T resources").
Conservation == Covered(ledger)

\* "There is at most one WithdrawalCapability in existence for a given
\* address", and exactly when the account says so; the same for
\* KeyRotationCapability (libra_account.move:40 and 47).
CapabilitiesAreUnique == Unique(ledger)

\* An account pays only by its own hand, while it has kept its capability, or
\* by the hand that uses the capability it gave away.
OnlyAuthorityPays ==
  [][\A a \in Addresses :
       exists(ledger, a) /\ balance(ledger', a) < balance(ledger, a) =>
         \/ actor'.sender = a /\ ledger.withdrawal_capability[a] = 0
         \/ actor'.owner = a /\ ledger.withdrawal_capability[a] = 1]_callVars

\* The key of an account changes only by its own hand, while it has kept its
\* capability, or by the hand that uses the capability it gave away.
OnlyAuthorityRotates ==
  [][\A a \in Addresses :
       exists(ledger, a)
         /\ ledger'.account[a].authentication_key #
              ledger.account[a].authentication_key =>
         \/ actor'.sender = a /\ ledger.key_rotation_capability[a] = 0
         \/ actor'.owner = a /\ ledger.key_rotation_capability[a] = 1]_callVars

\* No call removes or replaces an account or moves a sequence number, which is
\* what keeps old transactions from running again.
AccountsPersist ==
  [][\A a \in Addresses :
       exists(ledger, a) =>
         /\ exists(ledger', a)
         /\ ledger'.account[a].sequence_number =
              ledger.account[a].sequence_number]_callVars

----------------------------------------------------------------------------
(* What the sources say and the code does not do: TLC refutes each of these *)
(* (README.md, section 6).                                                  *)

\* libra_transaction_timeout.move:8 "Only transactions with timestamp in
\* between block time and block time + duration would be accepted": one in
\* between is.
InWindowIsAccepted ==
  \A t \in 0..MaxTimestamp :
    ledger.now < t * Second /\ t * Second < ledger.now + ledger.timeout =>
      is_valid_transaction_timestamp(ledger, t).status = Executed

\* transaction_fee.move:63-67 "any remainder ... is distributed to the first
\* validator": a distribution leaves nothing in the pot.
RemainderIsPaid ==
  [][balance(ledger', FeeAddress) < balance(ledger, FeeAddress) =>
        balance(ledger', FeeAddress) = 0]_callVars
=============================================================================
