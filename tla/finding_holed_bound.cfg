SPECIFICATION Spec
CONSTANTS
  hyperliquid = hyperliquid
  chain = chain
  candles = candles
  marks = marks
  flow = flow
  hand = hand
  VenueOrder <- OneVenue
  Flow = flow
  Hand = hand
  Scopes <- Declared
  Sent <- StreamThenWalk
  Trailing = 1
  KeepArchive = 1
  KeepTape = 1
  Unlabelled <- Old
  LastDay = 2
  MaxFaults = 0
INVARIANTS
  BoundIsComplete
CHECK_DEADLOCK FALSE
