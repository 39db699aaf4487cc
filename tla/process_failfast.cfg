SPECIFICATION Spec
CONSTANTS
  OTLPPools = {0, 2}
  Base = 9
  HostID = 5
  Multiplier = 11
  Width = 16
  Workers = 3
  LateUses = 2
  SeedOf <- WorkerSeeds
  MaxLives = 2
INVARIANTS FailsFast
