SPECIFICATION Spec
CONSTANTS
  trades = trades
  quotes = quotes
  Pairs <- TwoPairs
  Frames <- TwoKinds
  Hazards = {"kill", "write_error"}
  SeqPerTick = 10
  MaxTime = 4
  MaxTaken = 3
SYMMETRY PairsAlike
INVARIANTS
  NoSilentLoss
CHECK_DEADLOCK FALSE
