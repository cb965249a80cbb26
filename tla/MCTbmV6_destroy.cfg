\* The destruction of a table with a short route.
SPECIFICATION SpecV6
CONSTANTS
  LENGTH = 6
  STRIDE = 2
  INITIAL_BITS = 2
  NHI = {n1, n2}
  NULL = NULL
  Inputs <- LongInputs
  Batches = {}
  DestroyNhi = FALSE
PROPERTIES
  DestroyTakesNodes
