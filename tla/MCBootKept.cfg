SPECIFICATION Spec
CONSTANTS
  NoEdge = NoEdge
  Unreadable = Unreadable
  Cap = 0
  MaxBoots = 2
  MaxTick = 1
  MaxPrints = 1
  MaxSegments = 2
  MaxRecords = 3
  MaxEdges = 1
  MaxFaults = 0
  SegmentLimit = 3
PROPERTIES
  EdgeIsKept
