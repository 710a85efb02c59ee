SPECIFICATION ThreadSpec
CONSTANTS
  ExcludedSets <- MCExcludedSets
  NoExclude = NoExclude
  active = active
  idle = idle
  HbSamples <- MCHbSamples
  ActiveSamples <- MCActiveSamples
  NoData = NoData
  NoBeatYet = NoBeatYet
  RotateAt = 2
  QuietEvery = 3
  MaxSessions = 2
  MaxAppends = 4
  MaxBeats = 4
  SeqMod = 8
  NoBeat = NoBeat
  Blank = Blank
  Torn = Torn
INVARIANTS
  PromisedSurvives
  SurvivorsArePrefix
  NewestBeatSurvives
  NextWriteSparesTheNewest
PROPERTIES
  MarkerDurableBeforeForcedBeat
  BatchedBecomesDurable
CHECK_DEADLOCK FALSE
