SPECIFICATION Spec
CONSTANTS
  LENGTH = 8
  WORD = 4
  STRIDE = 3
  NHI = {n1, n2}
  NULL = NULL
  Inputs <- WordInputs
  Keys <- WordKeys
INVARIANTS
  TypeOK
  ShiftsAreExact
  WalkFollowsArgument
  ReturnsAreRight
PROPERTIES
  UpdatesItsRule
  CallsReturn
