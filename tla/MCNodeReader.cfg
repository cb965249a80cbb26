SPECIFICATION Spec
CONSTANTS
  NODE_WORDS = 3
  NULL = NULL
  EmptyKid = empty
  Pos = {0, 1, 2}
  NHI = {n1}
  Block = {b1, b2}
INVARIANTS
  LookupLoadsNhi
