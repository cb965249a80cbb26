\* Every set of rules of a node that consumes three bits.
SPECIFICATION Spec
CONSTANT STRIDE = 3
INVARIANTS
  TypeOK
  TreeFunctionIsLongestMatch
  OverlapInNodeIsLongest
