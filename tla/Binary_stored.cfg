CONSTANTS
  ADDRESS_LENGTH = 2
  NativeFunctions <- MCNatives
  Units <- MCUnits
  Dependency <- D
  Damaged <- MCDamaged
  Damages = {0, 1, 2, 3, 8, 130}
SPECIFICATION Spec
INVARIANTS
  RoundTrip
  TablesPartition
  IndicesResolve
  DefinitionsMatch
  LinksAgree
CHECK_DEADLOCK FALSE
