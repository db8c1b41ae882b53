---------------------------- MODULE MCLibraSystem ----------------------------
(* The association and three accounts that are or become validators. *)
EXTENDS LibraSystem

CONSTANTS assoc, alice, bob, carol, k1, k2, n1

\* Everybody registers with the same configuration, and may rotate it.
MCCandidates ==
  {[consensus_pubkey |-> k1, validator_network_identity_pubkey |-> k1,
    validator_network_address |-> n1]}

MCInitialValidators == <<alice>>

\* Either all are there and times pass, or two of them rotate keys at one time.
Configured == {a \in Addresses : state.config[a] # NoConfig}
NothingIsRotated ==
  /\ \A a \in Configured : state.config[a] \in MCCandidates
  /\ \A i \in DOMAIN state.validators : state.validators[i].consensus_pubkey = k1
                                       /\ state.validators[i].network_identity_pubkey = k1
OneTime == carol \notin Configured /\ running # carol /\ now <= 1
MCBound == NothingIsRotated \/ OneTime
=============================================================================
