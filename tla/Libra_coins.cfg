SPECIFICATION Spec
CONSTANTS
  assoc = assoc
  alice = alice
  Addresses = {assoc, alice}
  Association = assoc
  InHand = InHand
  None = None
  MaxU64 = 3
  MaxU128 = 5
  MintLimit = 2
  MaxCoins = 2
  MaxPreburns = 1
  MaxRequests = 3
INVARIANTS
  TotalIsCoins
  PreburnIsRequests
PROPERTIES
  OldestFirst
