\* Deleting a short route whose entries all hold longer ones.
SPECIFICATION Spec
CONSTANTS
  LENGTH = 6
  STRIDE = 2
  INITIAL_BITS = 3
  NHI = {n1, n2, n3, n4}
  NULL = NULL
  Inputs <- NestedInputs
  Batches = {}
  DestroyNhi = TRUE
  MaxRoutes = 4
PROPERTIES
  DeleteDestroysNhi
