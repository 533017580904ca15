SPECIFICATION Spec
CONSTANTS
  Instruments = {"one", "other"}
  Listed <- FirstBars
  PageRows = 9
  Overlap = 1
  ColdStart = 6
  ThrottleRetries = 1
  Caps = {9}
  Reaches = {9}
  FirstBoot = 6
  MaxTime = 7
  Hazards = {"kill"}
  MaxFaults = 1
INVARIANTS
  ColdStartIsCovered
CHECK_DEADLOCK FALSE
