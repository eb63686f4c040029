SPECIFICATION Spec
CONSTANTS
  SecondNs = 7
  PsPerNs = 2
  Word = 60
  ResetAt = 3
  MaxFrequency = 5
  Frequencies = {2, 5, 6}
  Delays = {1, 2}
  Garbage = {0, 13}
  Late = 2
  UserCost = 1
  MaxClock = 16
INVARIANTS
  TypeOK
  OnTime
  StartNotAhead
  ExactFrequencyKeepsPace
PROPERTIES
  ImplementsTimer
  SlotLength
