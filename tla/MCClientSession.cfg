SPECIFICATION Spec
CONSTANTS
  MaxPrints = 2
  MaxRestarts = 1
  NoSample = NoSample
  MaxInbox = 1
  MaxConns = 2
  MaxLost = 1
  MaxDrops = 1
  MaxSetupFailures = 1
INVARIANTS
  CleanShutdownIsHonest
  EndIsJournaled
  LivePrintKeepsCadence
  OutageIsMarked
PROPERTIES
  BeatsAreHonest
CHECK_DEADLOCK FALSE
