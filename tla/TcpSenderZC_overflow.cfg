SPECIFICATION SpecZC
CONSTANTS
  Worker = {w1}
  Lists <- CallLists
  NULL = NULL
  FifoExit = TRUE
  IntMax = 1
  CallBound = 99
INVARIANT
  ReleasedBeforeDone
