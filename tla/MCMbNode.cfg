SPECIFICATION Spec
CONSTANTS
  BITMAP_BITS = 6
  NODE_WORDS = 3
  NHI = {n1, n2}
  NULL = NULL
  Kid = {empty, k1}
  EmptyKid = empty
  Block = {b1, b2}
  MaxRules = 4
  MaxChildren = 3
  MaxUncounted = 3
CONSTRAINT SmallNode
SYMMETRY BlockSymmetry
INVARIANTS
  TypeOK
  RulesInPlace
  KidsInPlace
  BlockFitsBitmaps
PROPERTIES
  RebuildKeepsCount
