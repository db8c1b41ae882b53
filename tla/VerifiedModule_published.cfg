SPECIFICATION Spec
CONSTANTS
  A = A
  B = B
  R = R
  Nested = {R}
  ParameterFirst = FALSE
  Structs <- MCStructs
  Tokens <- MCTokens
  Submitted <- MCSubmitted
CHECK_DEADLOCK FALSE
INVARIANTS
  NeverWithinItself
  UnrestrictedHoldsNoResource
  TypesStayBounded
  RejectedGrow
