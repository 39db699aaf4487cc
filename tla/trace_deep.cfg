SPECIFICATION Spec
CONSTANTS
  Services = 8
  Peers <- Chain
  SpansMin = 14
  SpansMax = 14
  Batch = 14
  ChildCounts <- One
  Samples <- Short
  OffsetSteps = 1
INVARIANTS ChildInsideParent 
