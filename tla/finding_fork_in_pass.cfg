SPECIFICATION Spec
CONSTANTS
  Depth = 6
  Lag = 3
  MaxSpan = 3
  Busy = {}
  RowCap = 1
  Start = 2
  Backfill = 1
  Hazards = {"fork_in_pass"}
  MaxHead = 5
  MaxForks = 1
  MaxFaults = 0
INVARIANTS
  ForksAreSeen
CHECK_DEADLOCK FALSE
