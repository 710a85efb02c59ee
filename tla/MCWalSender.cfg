SPECIFICATION Spec
CONSTANTS
  ChannelCapacity = 1
  o1 = o1
  NoExclude = NoExclude
  NoData = NoData
  ExcludedSets <- MCExcludedSets
  HbSamples <- MCHbSamples
  MarkerInputs <- MCMarkerInputs
  NoGap = NoGap
  MaxOffers = 3
INVARIANTS
  GapHonesty
  GapClaimsOnlyTheLoss
  NoRecordInsideOpenGap
  MarkersSurviveInOrder
  ConclusiveIsTrue
CHECK_DEADLOCK FALSE
