SPECIFICATION Spec
CONSTANTS
  LENGTH = 4
  STRIDE = 2
  NODE_WORDS = 2
  NHI = {n1, n2}
  NULL = NULL
  Copies = {0, 1, 2}
  Inputs <- TreeInputs
  MaxLost = 1
  MaxUncounted = 2
CONSTRAINT FewLeftovers
SYMMETRY NhiSymmetry
INVARIANTS
  TypeOK
  WalkIsOnPath
  BlocksAreOwned
PROPERTIES
  StatisticsFollowMemory
  ImplementsTrie
