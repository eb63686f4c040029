SPECIFICATION FairSpecZC
CONSTANTS
  Worker = {w1}
  Lists <- CallLists
  NULL = NULL
  FifoExit = TRUE
  IntMax = 7
  CallBound = 4
INVARIANTS
  TypeOKZC
  ReleasedBeforeDone
  EveryCallAnswered
PROPERTIES
  ImplementsSender
  CallsReturn
  SendResolves
