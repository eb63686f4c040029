SPECIFICATION Spec
CONSTANTS
  Worker = {w1}
  Lists <- AllLists
  NULL = NULL
  FifoExit = TRUE
INVARIANT
  InitializedMeansSetUp
