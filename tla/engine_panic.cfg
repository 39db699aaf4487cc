SPECIFICATION Spec
CONSTANTS
  Workers = {w1, w2}
  Batch = 0
  MaxSpans = 0
  Paced = FALSE
  Timed = FALSE
  AckOnCommit = TRUE
  LateCommits = FALSE
  MaxGenerated = 1
INVARIANTS DropNeverPanics
