\* Nested prefixes around one entry of the initial table, every route with a
\* next hop of its own that is destroyed with it.
SPECIFICATION Spec
CONSTANTS
  LENGTH = 6
  STRIDE = 2
  INITIAL_BITS = 3
  NHI = {n1, n2, n3, n4, n5}
  NULL = NULL
  Inputs <- NestedInputs
  Batches <- NestedBatches
  DestroyNhi = TRUE
  MaxRoutes = 5
CONSTRAINT FewRoutes
SYMMETRY NhiSymmetry
INVARIANTS
  TypeOK
  LookupIsLongestMatch
  BatchMatchesSearch
  EntryHoldsBestShort
  EntryMirrorsLong
  EntryDiscipline
  TriesArePruned
  NoDestroyedNhiIsStored
PROPERTIES
  DestroyedOnce
  EmptiedEntryIsUncovered
  ImplementsRouteTable
  UpdatesAreV6Updates
