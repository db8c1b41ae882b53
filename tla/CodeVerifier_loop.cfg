SPECIFICATION Spec
CONSTANTS
  Programs <- MCPrograms
  MaxAny = 3
  MaxStraight = 3
  MaxTwo = 2
  FirstTarget = 0
  JoinFailure = JoinFailure
  Error = Error
  Invalid = Invalid
CHECK_DEADLOCK FALSE
INVARIANTS
  AcceptedNeverFaults
