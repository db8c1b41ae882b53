----------------------------- MODULE LibraSystem -----------------------------
(***************************************************************************)
(* The validator set and the discovery set (stdlib/modules/                 *)
(* libra_system.move) over the configurations validators publish            *)
(* (validator_config.move), from genesis on.  A transaction makes any        *)
(* sequence of calls and commits, or aborts and leaves no trace; blocks      *)
(* begin in between and move the clock.                                     *)
(*                                                                         *)
(* A call is a function from a state to the set of states it may leave: one  *)
(* if it returns, none if it aborts.  Fields of a configuration that nothing *)
(* rotates are left out; the voting power is always 1.                       *)
(***************************************************************************)
EXTENDS Accounts, Integers, SequencesExt

CONSTANTS Keys,               \* consensus and network identity keys
          NetworkAddresses,
          NoConfig,           \* no ValidatorConfig::T under an address
          Nobody,             \* no transaction runs
          InitialValidators,  \* the validators of genesis
          Candidates,         \* bound: configurations to register with
          MaxTime             \* bound: times of blocks

ASSUME SystemAssumption ==
  /\ Association \in Addresses
  /\ Nobody \notin Addresses
  /\ InitialValidators \in Seq(Addresses) /\ IsInjective(InitialValidators)
  /\ Keys # {} /\ NetworkAddresses # {}
  /\ MaxTime \in Nat

Config == [consensus_pubkey : Keys,
           validator_network_identity_pubkey : Keys,
           validator_network_address : NetworkAddresses]

ASSUME ConfigAssumption == NoConfig \notin Config /\ Candidates \subseteq Config

ValidatorInfo == [addr : Addresses,
                  consensus_pubkey : Keys,
                  network_identity_pubkey : Keys]

DiscoveryInfo == [addr : Addresses,
                  validator_network_identity_pubkey : Keys,
                  validator_network_address : NetworkAddresses]

\* change_events are those of the ValidatorSet, with the time of their block;
\* discovery_event is the last one of the DiscoverySet.
State == [config : [Addresses -> Config \cup {NoConfig}],
          validators : Seq(ValidatorInfo),
          discovery_set : Seq(DiscoveryInfo),
          last_reconfiguration_time : Nat,
          change_events : Seq([time : Nat, new_validator_set : Seq(ValidatorInfo)]),
          discovery_event : Seq(DiscoveryInfo)]

VARIABLES state,
          saved,    \* the state before the running transaction
          running, \* its sender, or Nobody
          now       \* the time of the block

system == <<state, saved, running, now>>

----------------------------------------------------------------------------
(* The validator configuration of an account *)

register_candidate_validator(s, a, config) ==
  IF s.config[a] # NoConfig THEN {} ELSE {[s EXCEPT !.config[a] = config]}

\* ValidatorConfig's own rotate functions, which anybody may call.
config_rotate_consensus_pubkey(s, a, key) ==
  IF s.config[a] = NoConfig THEN {}
  ELSE {[s EXCEPT !.config[a].consensus_pubkey = key]}

config_rotate_network_identity_pubkey(s, a, key) ==
  IF s.config[a] = NoConfig THEN {}
  ELSE {[s EXCEPT !.config[a].validator_network_identity_pubkey = key]}

config_rotate_network_address(s, a, address) ==
  IF s.config[a] = NoConfig THEN {}
  ELSE {[s EXCEPT !.config[a].validator_network_address = address]}

----------------------------------------------------------------------------
(* The sets *)

make_validator_info(config, a) ==
  [addr |-> a,
   consensus_pubkey |-> config[a].consensus_pubkey,
   network_identity_pubkey |-> config[a].validator_network_identity_pubkey]

make_discovery_info(config, a) ==
  [addr |-> a,
   validator_network_identity_pubkey |->
     config[a].validator_network_identity_pubkey,
   validator_network_address |-> config[a].validator_network_address]

\* is_validator_, for either set.
is_member(infos, a) == \E i \in DOMAIN infos : infos[i].addr = a

\* get_validator_index and get_discovery_index, where there is one.
index(infos, a) == CHOOSE i \in DOMAIN infos :
  infos[i].addr = a /\ \A j \in 1..i - 1 : infos[j].addr # a

emit_reconfiguration_event(s) ==
  [s EXCEPT !.change_events =
     Append(@, [time |-> now, new_validator_set |-> s.validators])]

emit_discovery_set_change(s) == [s EXCEPT !.discovery_event = s.discovery_set]

\* MUTANT: the time of the last reconfiguration is allowed again.
reconfigure_again(s) ==
  IF now < s.last_reconfiguration_time THEN {}
  ELSE {emit_reconfiguration_event([s EXCEPT !.last_reconfiguration_time = now])}

\* reconfigure_, after genesis.
reconfigure_(s) ==
  IF now <= s.last_reconfiguration_time THEN {}
  ELSE {emit_reconfiguration_event([s EXCEPT !.last_reconfiguration_time = now])}

reconfigure(s, by) == IF by # Association THEN {} ELSE reconfigure_(s)

\* add_validator_ with what its caller does next.
add_validator(s, by, a) ==
  IF by # Association \/ s.config[a] = NoConfig \/ is_member(s.validators, a)
  THEN {}
  ELSE {emit_discovery_set_change(t) : t \in reconfigure_(
         [s EXCEPT
            !.validators = Append(@, make_validator_info(s.config, a)),
            !.discovery_set = Append(@, make_discovery_info(s.config, a))])}

\* Vector::swap_remove: the last element takes the place of the removed one.
swap_remove(infos, i) ==
  [j \in 1..Len(infos) - 1 |-> IF j = i THEN infos[Len(infos)] ELSE infos[j]]

\* MUTANT: the discovery set keeps its order.
remove_validator_shifts(s, by, a) ==
  IF by # Association \/ ~is_member(s.validators, a) THEN {}
  ELSE LET i == index(s.validators, a)
       IN  {emit_discovery_set_change(t) : t \in reconfigure_(
             [s EXCEPT !.validators = swap_remove(@, i),
                       !.discovery_set = RemoveAt(@, i)])}

\* Both sets lose what is at the index the validator set gives; an index the
\* discovery set does not have aborts.
remove_validator(s, by, a) ==
  IF by # Association \/ ~is_member(s.validators, a)
     \/ index(s.validators, a) \notin DOMAIN s.discovery_set
  THEN {}
  ELSE LET i == index(s.validators, a)
       IN  {emit_discovery_set_change(t) : t \in reconfigure_(
             [s EXCEPT !.validators = swap_remove(@, i),
                       !.discovery_set = swap_remove(@, i)])}

\* copy_validator_info, and a reconfiguration if that changed anything.
refresh_validator(s, a) ==
  LET i == index(s.validators, a)
      info == make_validator_info(s.config, a)
  IN  IF s.validators[i] = info THEN {s}
      ELSE reconfigure_([s EXCEPT !.validators[i] = info])

\* MUTANT: nobody is told about the new key.
rotate_consensus_pubkey_silently(s, a, key) ==
  IF ~is_member(s.validators, a) THEN {}
  ELSE {[t EXCEPT !.validators[index(t.validators, a)] =
           make_validator_info(t.config, a)] :
        t \in config_rotate_consensus_pubkey(s, a, key)}

rotate_consensus_pubkey(s, a, key) ==
  IF ~is_member(s.validators, a) THEN {}
  ELSE UNION {refresh_validator(t, a) :
              t \in config_rotate_consensus_pubkey(s, a, key)}

\* copy_discovery_info, and an event if that changed anything.
refresh_discovery(s, a) ==
  IF ~is_member(s.discovery_set, a) THEN {}
  ELSE LET i == index(s.discovery_set, a)
           info == make_discovery_info(s.config, a)
       IN  IF s.discovery_set[i] = info THEN {s}
           ELSE {emit_discovery_set_change([s EXCEPT !.discovery_set[i] = info])}

rotate_validator_network_identity_pubkey(s, a, key) ==
  UNION {refresh_discovery(t, a) :
         t \in config_rotate_network_identity_pubkey(s, a, key)}

rotate_validator_network_address(s, a, address) ==
  UNION {refresh_discovery(t, a) :
         t \in config_rotate_network_address(s, a, address)}

----------------------------------------------------------------------------
(* Transactions and blocks *)

\* After vm_genesis's initialize_validators and reconfigure.
Genesis(config) ==
  LET validators == [i \in DOMAIN InitialValidators |->
                       make_validator_info(config, InitialValidators[i])]
      discovery_set == [i \in DOMAIN InitialValidators |->
                          make_discovery_info(config, InitialValidators[i])]
  IN  [config |-> [a \in Addresses |->
                     IF a \in ToSet(InitialValidators) THEN config[a] ELSE NoConfig],
       validators |-> validators,
       discovery_set |-> discovery_set,
       last_reconfiguration_time |-> 0,
       change_events |-> <<[time |-> 0, new_validator_set |-> validators]>>,
       discovery_event |-> discovery_set]

SystemInit ==
  /\ \E config \in Candidates : state = Genesis([a \in Addresses |-> config])
  /\ saved = state
  /\ running = Nobody
  /\ now = 0

\* update_global_time: a NIL block keeps the time.
update_global_time ==
  /\ running = Nobody
  /\ now' \in now + 1..MaxTime
  /\ UNCHANGED <<state, saved, running>>

begin ==
  /\ running = Nobody
  /\ running' \in Addresses
  /\ saved' = state
  /\ UNCHANGED <<state, now>>

\* What the sender may call.
Calls(s, a) ==
  (UNION {register_candidate_validator(s, a, config) : config \in Candidates})
    \cup (UNION {config_rotate_consensus_pubkey(s, a, key) : key \in Keys})
    \cup (UNION {config_rotate_network_identity_pubkey(s, a, key) : key \in Keys})
    \cup (UNION {config_rotate_network_address(s, a, x) : x \in NetworkAddresses})
    \cup reconfigure(s, a)
    \cup (UNION {add_validator(s, a, b) : b \in Addresses})
    \cup (UNION {remove_validator(s, a, b) : b \in Addresses})
    \cup (UNION {rotate_consensus_pubkey(s, a, key) : key \in Keys})
    \cup (UNION {rotate_validator_network_identity_pubkey(s, a, key) : key \in Keys})
    \cup (UNION {rotate_validator_network_address(s, a, x) : x \in NetworkAddresses})

run_call ==
  /\ running # Nobody
  /\ state' \in Calls(state, running)
  /\ UNCHANGED <<saved, running, now>>

commit ==
  /\ running # Nobody
  /\ running' = Nobody
  /\ UNCHANGED <<state, saved, now>>

\* A call aborted, or something else did.
abort ==
  /\ running # Nobody
  /\ running' = Nobody
  /\ state' = saved
  /\ UNCHANGED <<saved, now>>

SystemNext == update_global_time \/ begin \/ run_call \/ commit \/ abort

SystemSpec == SystemInit /\ [][SystemNext]_system

----------------------------------------------------------------------------
(* Properties *)

SystemTypeOK ==
  /\ state \in State /\ saved \in State
  /\ running \in Addresses \cup {Nobody}
  /\ now \in Nat

\* The sets name the same validators at the same indices, each once, and all
\* of them have a configuration: remove_validator relies on it when it uses the
\* index it found in one set for the other, and every rotation when it reads the
\* configuration.
Aligned(s) ==
  /\ Len(s.validators) = Len(s.discovery_set)
  /\ \A i \in DOMAIN s.validators :
       /\ s.validators[i].addr = s.discovery_set[i].addr
       /\ s.config[s.validators[i].addr] # NoConfig
  /\ \A i, j \in DOMAIN s.validators :
       s.validators[i].addr = s.validators[j].addr => i = j

SetsAlign == Aligned(state)

\* Consensus and the network follow the events alone: the last ones tell the
\* sets as they are, so no change is kept from them.
EventsTellTheSets ==
  /\ Last(state.change_events).new_validator_set = state.validators
  /\ state.discovery_event = state.discovery_set

\* "at most one reconfiguration per transaction" (libra_system.move:345), and
\* even for each time, however many transactions and blocks have that time.
OneReconfigurationAtATime ==
  \A i, j \in DOMAIN state.change_events :
    i < j => state.change_events[i].time < state.change_events[j].time

----------------------------------------------------------------------------
(* What the sources say and the code does not do: TLC refutes it            *)
(* (README.md, section 6).                                                  *)

\* validator_config.move:90 "The change will not take effect until the next
\* reconfiguration": then it has taken effect.
ReconfigurationTakesConfigs ==
  [][running # Nobody /\ Len(state'.change_events) > Len(state.change_events) =>
       \A i \in DOMAIN state'.validators :
         LET info == state'.validators[i]
         IN  info = make_validator_info(state'.config, info.addr)]_system
=============================================================================
