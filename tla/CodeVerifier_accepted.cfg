SPECIFICATION Spec
CONSTANTS
  Programs <- MCPrograms
  MaxAny = 4
  MaxStraight = 5
  MaxTwo = 4
  FirstTarget = 1
  JoinFailure = JoinFailure
  Error = Error
  Invalid = Invalid
CHECK_DEADLOCK FALSE
INVARIANTS
  AcceptedNeverFaults
  ResourcesAreKept
PROPERTIES
  AnalysisEnds
