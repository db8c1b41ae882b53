CONSTANTS
  Fields <- MCFields
  Resources = {"R"}
  Global = "R"
  Functions_ <- MCFunctions
  Callees <- MCCallees
  MaxIds = 3
  MaxWayIds = 1
  MaxWayStack = 1
  MaxStack = 3
  NoWay = NoWay
SPECIFICATION Spec
INVARIANTS BorrowsAreKnown RefersToItsPlace ReturnsWhatItMay
CHECK_DEADLOCK FALSE
