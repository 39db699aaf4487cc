SPECIFICATION FairSpec
CONSTANTS
  Workers = {w1, w2, w3}
  Batch = 2
  MaxSpans = 6
  Paced = FALSE
  Timed = FALSE
  AckOnCommit = TRUE
  LateCommits = TRUE
  MaxGenerated = 9
INVARIANTS TypeOK Conserved SentBelowCap RowsBracketed MetricsConsistent
PROPERTIES AcceptedIsSettled KeepsLedger CapEndsRun
