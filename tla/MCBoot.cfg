SPECIFICATION Spec
CONSTANTS
  NoEdge = NoEdge
  Unreadable = Unreadable
  Cap = 0
  MaxBoots = 2
  MaxTick = 1
  MaxPrints = 1
  MaxSegments = 3
  MaxRecords = 3
  MaxEdges = 1
  MaxFaults = 1
  SegmentLimit = 2
CONSTRAINT LongOrEventful
INVARIANTS
  CrashIsOffered
  EndIsRemembered
PROPERTIES
  EvidenceIsKept
  EdgeIsConsumedFirst
  OfferIsNotRetracted
