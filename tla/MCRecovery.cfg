SPECIFICATION Spec
CONSTANTS
  Runs = {r1}
  Names = {n1, n2}
  NoFile = NoFile
  Other = Other
  MaxStarts = 2
  MaxForeign = 1
INVARIANTS
  InterlockStands
  NoStaleOffer
  AccelIsPutBack
  StraysAreBounded
PROPERTIES
  StartsARecoveryFile
