SPECIFICATION Spec
CONSTANTS
  Runs = {r1}
  Names = {n1, n2}
  NoFile = NoFile
  Other = Other
  MaxStarts = 1
  MaxForeign = 0
INVARIANTS
  GuardedWhileUnderWay
