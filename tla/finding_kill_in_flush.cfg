SPECIFICATION Spec
CONSTANTS
  trades = trades
  quotes = quotes
  Pairs <- TwoPairs
  Frames <- TwoKinds
  Hazards = {"kill", "kill_in_flush"}
  SeqPerTick = 10
  MaxTime = 3
  MaxTaken = 3
SYMMETRY PairsAlike
INVARIANTS
  NoSilentLoss
CHECK_DEADLOCK FALSE
