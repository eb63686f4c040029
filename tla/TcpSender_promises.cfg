SPECIFICATION FairSpec
CONSTANTS
  Worker = {w1, w2}
  Lists <- AllLists
  NULL = NULL
  FifoExit = TRUE
INVARIANTS
  TypeOK
  DoneMeansSent
  TerminatedMeansNoThread
  OneWorker
  SocketOutlivesWorker
  NoLostWakeup
  MutexHeldByRunning
  ErrorFaithful
PROPERTIES
  ImplementsSender
  CallsReturn
  SendResolves
  QueuedIsTaken
