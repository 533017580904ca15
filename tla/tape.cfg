SPECIFICATION Spec
CONSTANTS
  hyperliquid = hyperliquid
  chain = chain
  candles = candles
  marks = marks
  flow = flow
  hand = hand
  VenueOrder <- TwoVenues
  Flow = flow
  Hand = hand
  Scopes <- Declared
  Sent <- Receipts
  Trailing = 1
  KeepArchive = 1
  KeepTape = 1
  Unlabelled <- Old
  LastDay = 2
  MaxFaults = 1
INVARIANTS
  NeverNeither
  ReplacedWhenDone
  OverlapMeansTwice
PROPERTIES
  RowsStay
  
CHECK_DEADLOCK FALSE
