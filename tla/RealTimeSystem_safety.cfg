SPECIFICATION FairSpec
CONSTANTS
  SecondMs = 4
  ReserveMs = 1
  HalfMs = 4
  MaxFrequency = 2
  Frequencies = {0, 1, 2, 3}
  Tolerances = {0, 1, 9}
  Limits = {0, 5}
  UserCost = 2
  Late = 1
  TurnTime = 3
  SpinTime = 12
INVARIANTS
  TypeOK
  TicksKept
  NeverBusy
  SkipHonoured
  QueuedListAlive
PROPERTIES
  ThreeSeconds
  RunEndsSender
  DeadSenderNoticed
