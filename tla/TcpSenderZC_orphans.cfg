SPECIFICATION SpecZC
CONSTANTS
  Worker = {w1}
  Lists <- CallLists
  NULL = NULL
  FifoExit = TRUE
  IntMax = 7
  CallBound = 4
INVARIANT
  EndReleases
