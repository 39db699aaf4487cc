SPECIFICATION FairSpec
CONSTANTS
  w1 = w1
  w2 = w2
  Workers = {w1, w2}
  Batch = 2
  MaxOpen = 1
  AckOnCommit = TRUE
  MaxAttempts = 2
INVARIANTS TypeOK NothingKept
PROPERTIES KeepsContract EverySendReturns
