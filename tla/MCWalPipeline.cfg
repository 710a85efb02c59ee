SPECIFICATION Spec
CONSTANTS
  ChannelCapacity = 1
  active = active
  NoExclude = NoExclude
  NoData = NoData
  NoGap = NoGap
  NoBeatYet = NoBeatYet
  ExcludedSets <- MCExcludedSets
  HbSamples <- MCHbSamples
  ActiveSamples <- MCHbSamples
  MarkerInputs <- MCMarkerInputs
  MaxOffers = 3
  RotateAt = 2
  QuietEvery = 2
  MaxSessions = 1
  MaxAppends = 9
  MaxBeats = 1
INVARIANTS
  HonestAtEveryCut
  OrderlyStopIsComplete
PROPERTIES
  ImplementsBothSides
CHECK_DEADLOCK FALSE
