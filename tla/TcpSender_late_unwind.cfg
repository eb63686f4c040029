SPECIFICATION Spec
CONSTANTS
  Worker = {w1, w2}
  Lists <- AllLists
  NULL = NULL
  FifoExit = FALSE
SYMMETRY Threads
INVARIANT
  TerminatedMeansNoThread
