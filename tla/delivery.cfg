SPECIFICATION DeliverySpec
CONSTANTS
  w1 = w1
  w2 = w2
  w3 = w3
  w4 = w4
  Replicas <- Indices
  Offset <- Sharded
  Workers <- Pool
  Owner <- PodOf
  N = 2
  Width = 10
  MaxPicks = 5
  Batch = 2
INVARIANTS InStep CyclesApart EvenShares FirstPicksSpread  DropTakesOthers
