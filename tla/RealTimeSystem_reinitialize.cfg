SPECIFICATION Spec
CONSTANTS
  SecondMs = 4
  ReserveMs = 1
  HalfMs = 1
  MaxFrequency = 2
  Frequencies = {0, 1, 2, 3}
  Tolerances = {0, 9}
  Limits = {0, 5}
  UserCost = 1
  Late = 0
  TurnTime = 1
  SpinTime = 0
INVARIANT
  InitializedHasSender
