\* A lookup of an address that a route longer than INITIAL_BITS matches.
SPECIFICATION SpecV6
CONSTANTS
  LENGTH = 6
  STRIDE = 2
  INITIAL_BITS = 2
  NHI = {n1, n2}
  NULL = NULL
  Inputs <- LongInputs
  Batches = {}
  DestroyNhi = FALSE
INVARIANTS
  V6LookupIsLongestMatch
