SPECIFICATION FairSpec
CONSTANTS
  Services = 3
  Peers <- Fan
  SpansMin = 2
  SpansMax = 5
  Batch = 5
  ChildCounts <- Three
  Samples <- Mixed
  OffsetSteps = 1
INVARIANTS TypeOK ExactBatch CallsMatch
PROPERTIES BatchFills
