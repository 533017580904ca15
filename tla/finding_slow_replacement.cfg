SPECIFICATION Spec
CONSTANTS
  trades = trades
  quotes = quotes
  Pairs <- TwoPairs
  RotateAfter = 2
  KeepaliveAfter = 1
  Worlds <- SlowHandover
  MaxTime = 6
  MaxFaults = 0
SYMMETRY PairsAlike
INVARIANTS
  HandoverMissesNothing
