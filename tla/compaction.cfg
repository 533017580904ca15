SPECIFICATION Spec
CONSTANTS
  HourTicks = 2
  HoursPerDay = 2
  Hazards = {"page", "kill", "power"}
  MaxRows = 3
  MaxReads = 1
  MaxCrashes = 2
INVARIANTS
  ReaderFindsAll
  FlushedRowsOnce
PROPERTIES
  
  SettlesToOne
