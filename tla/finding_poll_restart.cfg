SPECIFICATION Spec
CONSTANTS
  Interval = 1
  Backoffs = {0, 1}
  Latency = 1
  Hazards = {"kill", "unreachable"}
  MaxTime = 7
  MaxFaults = 1
INVARIANTS
  SilenceIsAGap
CHECK_DEADLOCK FALSE
