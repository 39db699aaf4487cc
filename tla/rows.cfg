SPECIFICATION RowsSpec
CONSTANTS
  Services = 2
  BaseNames = 1
  Batch = 3
INVARIANTS EverySpanIsARow RowsReadBack CallsLand
