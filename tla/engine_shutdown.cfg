SPECIFICATION FairSpec
CONSTANTS
  Workers = {w1, w2}
  Batch = 1
  MaxSpans = 0
  Paced = TRUE
  Timed = TRUE
  AckOnCommit = TRUE
  LateCommits = FALSE
  MaxGenerated = 4
INVARIANTS CancelLosesNothing  ReturnSettled
PROPERTIES CancelEndsRun
