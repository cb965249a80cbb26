SPECIFICATION Spec
CONSTANTS
  PAGE_SIZE = 5
  PAGE_COLORS = 4
  CACHE_OVERLAP = 20
  HPAGE_SIZE = 40
  NR = 2
  NODE_SIZE = 2
  Pages <- SmallPages
  MaxNodes = 2
  MaxAreas = 5
  MaxUsed = 5
  MaxBlocks = 3
CONSTRAINT FewBlocks
INVARIANTS
  TypeOK
  BlocksAreDisjoint
  AreasAreWellPlaced
  MemoryIsUsedUp
\* The process may end.
CHECK_DEADLOCK FALSE
