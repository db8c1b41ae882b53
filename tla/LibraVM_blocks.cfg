SPECIFICATION FairSpec
CONSTANTS
  null = null
  fees = fees
  assoc = assoc
  alice = alice
  bob = bob
  k1 = k1
  k2 = k2
  short = short
  Addresses = {null, fees, assoc, alice, bob}
  NullAddress = null
  FeeAddress = fees
  Association = assoc
  Keys = {k1, k2}
  ShortKey = short
  NoAccount = NoAccount
  MaxU64 = 7
  MintLimit = 2
  Second = 1
  MaxTimestamp = 7
  Transactions <- MCTransactions
  Blocks <- MCBlocks
  Calls <- MCCalls
  Validators <- MCValidators
  InitialLedgers <- MCLedgers
  PayloadErrors <- MCPayloadErrors
  RuntimeErrors <- MCRuntimeErrors
  Discarded <- MCDiscarded
  MAX_TRANSACTION_SIZE_IN_BYTES = 1
  MAXIMUM_NUMBER_OF_GAS_UNITS = 4
  MAX_PRICE_PER_GAS_UNIT = 2
  MaxTransactions = 3
CHECK_DEADLOCK FALSE
INVARIANTS
  FailedCanPay
  OutputsAlign
  SequenceNumbersCount
PROPERTIES
  FailureCostsOnlyTheFee
  ReportedGasIsPaid
  BlocksEnd
