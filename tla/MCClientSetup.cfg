SPECIFICATION Spec
CONSTANTS
  MaxPrints = 2
  MaxRestarts = 1
  NoSample = NoSample
  MaxInbox = 2
  MaxConns = 2
  MaxLost = 0
  MaxDrops = 1
  MaxSetupFailures = 1
INVARIANTS
  OnlyEndsAreClosed
CHECK_DEADLOCK FALSE
