SPECIFICATION Spec
CONSTANTS
  trades = trades
  quotes = quotes
  Pairs <- TwoPairs
  Frames <- TwoKinds
  Hazards = {"kill", "kill_in_flush", "kill_in_report", "write_error", "marker_error", "fetch", "unparsed", "session_loss"}
  SeqPerTick = 10
  MaxTime = 3
  MaxTaken = 2
SYMMETRY PairsAlike
INVARIANTS
  TypeOK
  FailureNamesItsPayload
  SeqNamesOnePayload
  GapsDisjoint
  
CHECK_DEADLOCK FALSE
