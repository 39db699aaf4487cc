SPECIFICATION FairSpec
CONSTANTS
  w1 = w1
  w2 = w2
  Workers = {w1, w2}
  Batch = 6
  Slack = 2
  Target = 8
  StartShare = 4
  RampTime = 8
  MaxTime = 10
INVARIANTS WithinBudget UnderTheLine DebtIsOwed
PROPERTIES RampArrives
