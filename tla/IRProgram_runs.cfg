CONSTANTS
  ADDRESS_LENGTH = 32
  TABLE_MAX_SIZE = 1000
  LOCALS_MAX = 5
  NativeFunctions = {}
  Numbers <- MCNumbers
  Addresses <- MCAddresses
  ByteArrays <- MCByteArrays
  Sender = 1
  Address = 1
  FUEL = 12
  Library <- MCLibrary
  Programs <- MCPrograms
SPECIFICATION Spec
INVARIANTS
  ReadsItsText
  PassesTheChecks
  InferredTypesHold
  DoesWhatItSays
PROPERTY Ends
CHECK_DEADLOCK FALSE
