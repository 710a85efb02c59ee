SPECIFICATION Spec
CONSTANTS
  File <- ShortLines
  Lead = 3
  Horizon = 2
  StepLead = 1
  HoldUp = 1
  Draws = 2
  Tolerance = 3
  NoTime = NoTime
  LookAhead = 2
  Batch = 1
  Refresh = 1
  Lag = 1
  MaxTime = 5
  MaxFaults = 1
INVARIANTS HeightIsCovered LineIsCovered ReadingIsCovered
CHECK_DEADLOCK FALSE
