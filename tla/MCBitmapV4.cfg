SPECIFICATION Spec
CONSTANTS
  LENGTH = 5
  STRIDE = 2
  NHI = {n1, n2}
  NULL = NULL
  Inputs <- DeepInputs
  Keys <- DeepKeys
  BATCH = 2
INVARIANTS
  TypeOK
  AnswersAreLongestMatch
  MarksAreFresh
  OverlapIsLongestShorter
PROPERTIES
  LookupsReturn
