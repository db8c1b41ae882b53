SPECIFICATION CallsSpec
CONSTANTS
  null = null
  fees = fees
  assoc = assoc
  alice = alice
  bob = bob
  k1 = k1
  k2 = k2
  short = short
  Addresses = {null, fees, assoc, alice, bob}
  NullAddress = null
  FeeAddress = fees
  Association = assoc
  Keys = {k1, k2}
  ShortKey = short
  NoAccount = NoAccount
  MaxU64 = 3
  MintLimit = 1
  Second = 1
  MaxTimestamp = 3
  CallsOf <- MCCallsOf
  Metadata <- MCMetadata
  ValidatorSet <- MCValidatorSet
  FirstLedgers <- MCFirstLedgers
  MaxSupply = 4
INVARIANTS
  Conservation
  CapabilitiesAreUnique
PROPERTIES
  OnlyAuthorityPays
