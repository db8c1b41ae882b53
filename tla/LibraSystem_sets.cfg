SPECIFICATION SystemSpec
CONSTANTS
  assoc = assoc
  alice = alice
  bob = bob
  carol = carol
  k1 = k1
  k2 = k2
  n1 = n1
  Addresses = {assoc, alice, bob, carol}
  Association = assoc
  Keys = {k1, k2}
  NetworkAddresses = {n1}
  NoConfig = NoConfig
  Nobody = Nobody
  Candidates <- MCCandidates
  InitialValidators <- MCInitialValidators
  MaxTime = 5
CONSTRAINT MCBound
INVARIANTS
  SetsAlign
  OneReconfigurationAtATime
  EventsTellTheSets
