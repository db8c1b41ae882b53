-------------------------------- MODULE Libra --------------------------------
(***************************************************************************)
(* A token of stdlib/modules/libra.move: coins, the capability to mint and   *)
(* burn, and the preburn queues coins wait in to be burned.                 *)
(*                                                                         *)
(* Coins, capabilities and preburns are resources: any account's code may    *)
(* keep those it has in hand wherever it likes, but it can neither copy nor  *)
(* drop one.  So coins in hand are a bag of values, preburns in hand a bag of *)
(* queues, and only published resources have an address.                    *)
(*                                                                         *)
(* An action is one call; a call whose guard fails aborts its transaction    *)
(* and changes nothing.                                                     *)
(***************************************************************************)
EXTENDS Accounts, Naturals, SequencesExt, Bags

B == INSTANCE BagsExt

CONSTANTS InHand,      \* the MintCapability is not published
          None,        \* no Preburn is published under an address
          MaxU64,
          MaxU128,
          MintLimit,   \* what one call may mint
          MaxCoins,    \* bound: coins in hand
          MaxPreburns, \* bound: preburns in hand
          MaxRequests  \* bound: requests in a queue

ASSUME LibraAssumption ==
  /\ Association \in Addresses /\ IsFiniteSet(Addresses)
  /\ InHand \notin Addresses
  /\ None \notin Seq(Nat)
  /\ {MaxU64, MaxU128, MintLimit, MaxCoins, MaxPreburns, MaxRequests} \subseteq Nat
  /\ MintLimit <= MaxU64 /\ MaxU64 <= MaxU128

VARIABLES total_value, preburn_value,  \* Info
          capability,  \* where the MintCapability is
          coins,       \* the values of the coins in hand
          published,   \* the Preburn under each address
          preburns,    \* the queues of the preburns in hand
          sender       \* of the last call

info == <<total_value, preburn_value>>
vars == <<info, capability, coins, published, preburns, sender>>

Value == 0..MaxU64

\* register, by LBR's initialize.
Init ==
  /\ total_value = 0 /\ preburn_value = 0
  /\ capability = Association
  /\ coins = EmptyBag
  /\ published = [a \in Addresses |-> None]
  /\ preburns = EmptyBag
  /\ sender = Association

\* Room for n more coins, within the bound.
Room(n) == BagCardinality(coins) + n <= MaxCoins

\* A capability in hand may be in the hands of any code.
HasCapability == capability \in {sender', InHand}

----------------------------------------------------------------------------
(* Coins *)

\* MUTANT: Info is not told.
mint_uncounted(value) ==
  /\ HasCapability /\ Room(1)
  /\ value <= MintLimit
  /\ coins' = B!BagAdd(coins, value)
  /\ UNCHANGED <<info, capability, published, preburns>>

mint(value) ==
  /\ HasCapability /\ Room(1)
  /\ value <= MintLimit
  /\ total_value + value <= MaxU128
  /\ total_value' = total_value + value
  /\ coins' = B!BagAdd(coins, value)
  /\ UNCHANGED <<preburn_value, capability, published, preburns>>

zero ==
  /\ Room(1)
  /\ coins' = B!BagAdd(coins, 0)
  /\ UNCHANGED <<info, capability, published, preburns>>

\* withdraw, and split which calls it.
withdraw(coin, value) ==
  /\ BagIn(coin, coins) /\ Room(1)
  /\ coin >= value
  /\ coins' = B!BagAdd(B!BagAdd(B!BagRemove(coins, coin), coin - value), value)
  /\ UNCHANGED <<info, capability, published, preburns>>

\* deposit, and join which calls it.
deposit(coin, check) ==
  /\ BagIn(coin, coins) /\ BagIn(check, B!BagRemove(coins, coin))
  /\ coin + check <= MaxU64
  /\ coins' = B!BagAdd(B!BagRemove(B!BagRemove(coins, coin), check), coin + check)
  /\ UNCHANGED <<info, capability, published, preburns>>

destroy_zero(coin) ==
  /\ BagIn(coin, coins)
  /\ coin = 0
  /\ coins' = B!BagRemove(coins, coin)
  /\ UNCHANGED <<info, capability, published, preburns>>

----------------------------------------------------------------------------
(* Preburns *)

new_preburn ==
  /\ BagCardinality(preburns) < MaxPreburns
  /\ preburns' = B!BagAdd(preburns, <<>>)
  /\ UNCHANGED <<info, capability, coins, published>>

publish_preburn(requests) ==
  /\ BagIn(requests, preburns)
  /\ published[sender'] = None
  /\ published' = [published EXCEPT ![sender'] = requests]
  /\ preburns' = B!BagRemove(preburns, requests)
  /\ UNCHANGED <<info, capability, coins>>

remove_preburn ==
  /\ published[sender'] # None
  /\ BagCardinality(preburns) < MaxPreburns
  /\ published' = [published EXCEPT ![sender'] = None]
  /\ preburns' = B!BagAdd(preburns, published[sender'])
  /\ UNCHANGED <<info, capability, coins>>

\* MUTANT: pending requests go down with it.
destroy_preburn_unchecked(requests) ==
  /\ BagIn(requests, preburns)
  /\ preburns' = B!BagRemove(preburns, requests)
  /\ UNCHANGED <<info, capability, coins, published>>

destroy_preburn(requests) ==
  /\ BagIn(requests, preburns)
  /\ requests = <<>>
  /\ preburns' = B!BagRemove(preburns, requests)
  /\ UNCHANGED <<info, capability, coins, published>>

\* The coin leaves the hand for a queue.
give_to_burn(coin) ==
  /\ BagIn(coin, coins)
  /\ coins' = B!BagRemove(coins, coin)
  /\ preburn_value + coin <= MaxU64
  /\ preburn_value' = preburn_value + coin
  /\ UNCHANGED <<total_value, capability>>

\* Into a queue in hand.
preburn(requests, coin) ==
  /\ BagIn(requests, preburns) /\ Len(requests) < MaxRequests
  /\ give_to_burn(coin)
  /\ preburns' = B!BagAdd(B!BagRemove(preburns, requests), Append(requests, coin))
  /\ UNCHANGED published

preburn_to_sender(coin) ==
  /\ published[sender'] # None /\ Len(published[sender']) < MaxRequests
  /\ give_to_burn(coin)
  /\ published' = [published EXCEPT ![sender'] = Append(@, coin)]
  /\ UNCHANGED preburns

\* MUTANT: the last request takes the place of the first.
rest_swapped(requests) ==
  [i \in 1..Len(requests) - 1 |->
     IF i = 1 THEN requests[Len(requests)] ELSE requests[i]]

swap(v, i, j) == [v EXCEPT ![i] = v[j], ![j] = v[i]]

\* What Vector::remove at 0 leaves: it swaps the first element to the end, one
\* place at a time, and pops it there.
rest(requests) ==
  LET swapped[i \in 0..Len(requests) - 1] ==
        IF i = 0 THEN requests ELSE swap(swapped[i - 1], i, i + 1)
  IN  Front(swapped[Len(requests) - 1])

burn(a) ==
  /\ HasCapability
  /\ published[a] \notin {None, <<>>}
  /\ LET value == Head(published[a])
     IN  /\ total_value >= value /\ preburn_value >= value
         /\ total_value' = total_value - value
         /\ preburn_value' = preburn_value - value
  /\ published' = [published EXCEPT ![a] = rest(@)]
  /\ UNCHANGED <<capability, coins, preburns>>

cancel_burn(a) ==
  /\ HasCapability /\ Room(1)
  /\ published[a] \notin {None, <<>>}
  /\ LET value == Head(published[a])
     IN  /\ preburn_value >= value
         /\ preburn_value' = preburn_value - value
         /\ coins' = B!BagAdd(coins, value)
  /\ published' = [published EXCEPT ![a] = rest(@)]
  /\ UNCHANGED <<total_value, capability, preburns>>

----------------------------------------------------------------------------
(* The capability *)

remove_mint_capability ==
  /\ capability = sender'
  /\ capability' = InHand
  /\ UNCHANGED <<info, coins, published, preburns>>

publish_mint_capability ==
  /\ capability = InHand
  /\ capability' = sender'
  /\ UNCHANGED <<info, coins, published, preburns>>

----------------------------------------------------------------------------

Next ==
  /\ sender' \in Addresses
  /\ \/ zero \/ new_preburn \/ remove_preburn
     \/ remove_mint_capability \/ publish_mint_capability
     \/ \E value \in Value : mint(value)
     \/ \E coin \in BagToSet(coins) :
          \/ \E value \in Value : withdraw(coin, value)
          \/ \E check \in BagToSet(coins) : deposit(coin, check)
          \/ destroy_zero(coin)
          \/ preburn_to_sender(coin)
          \/ \E requests \in BagToSet(preburns) : preburn(requests, coin)
     \/ \E requests \in BagToSet(preburns) :
          publish_preburn(requests) \/ destroy_preburn(requests)
     \/ \E a \in Addresses : burn(a) \/ cancel_burn(a)

Spec == Init /\ [][Next]_vars

----------------------------------------------------------------------------
(* Properties *)

TypeOK ==
  /\ total_value \in 0..MaxU128 /\ preburn_value \in Value
  /\ capability \in Addresses \cup {InHand}
  /\ IsABag(coins) /\ BagToSet(coins) \subseteq Value
  /\ published \in [Addresses -> {None} \cup Seq(Value)]
  /\ IsABag(preburns) /\ BagToSet(preburns) \subseteq Seq(Value)
  /\ sender \in Addresses

\* The value of the coins in hand.
Coins == SumFunction([c \in BagToSet(coins) |-> coins[c] * c])

\* The value of the requests that wait anywhere.
Requested ==
  SumFunction([a \in Addresses |->
                 IF published[a] = None THEN 0 ELSE SumFunction(published[a])])
  + SumFunction([q \in BagToSet(preburns) |-> preburns[q] * SumFunction(q)])

\* "The sum of the values of all Libra::T resources in the system"
\* (libra.move:17): Info tells it whatever is done with coins and preburns.
TotalIsCoins == total_value = Coins + Requested

\* "Value of funds that are in the process of being burned" (libra.move:19).
\* burn and cancel_burn subtract a request from it: were it less than the
\* requests that wait, coins would be stuck in their queue for good.
PreburnIsRequests == preburn_value = Requested

\* "However, burn requests from the same account must be resolved in FIFO order"
\* (libra.move:30-31): what a queue loses is its oldest request, and the others
\* stay in order.
OldestFirst ==
  [][\A a \in Addresses : published[a] # None /\ published'[a] # None =>
       \/ IsPrefix(published[a], published'[a])
       \/ published'[a] = Tail(published[a])]_vars

----------------------------------------------------------------------------
(* What the sources say and the code does not do: TLC refutes it            *)
(* (README.md, section 6).                                                  *)

PreburnCount(places, bag) ==
  Cardinality({a \in Addresses : places[a] # None}) + BagCardinality(bag)

\* "This resource can only be created by the holder of the MintCapability"
\* (libra.move:25): where there is one more Preburn, its creator held it.
PreburnsAreApproved ==
  [][PreburnCount(published', preburns') > PreburnCount(published, preburns)
       => HasCapability]_vars
=============================================================================
