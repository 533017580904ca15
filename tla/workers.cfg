SPECIFICATION WorkersSpec
CONSTANTS
  Pairs = {"trades", "quotes"}
  RotateAfter = 2
  KeepaliveAfter = 1
  Worlds <- BothWorlds
  MaxTime = 5
  MaxFaults = 2
  Keys = {"minute", "hour", "funding"}
  Paging <- Pages
  GapKeys = {"minute"}
  SettleKeys = {"minute", "hour"}
  HistoryFrom <- HistoryStarts
  Cap = 2
  Pause = 1
  Waits = {2}
  SettleEvery = 1
  FillsBoot = 4
  LastEvent = 5
  FillsTime = 7
  MaxLosses = 1
  Depth = 6
  Lag = 2
  MaxSpan = 3
  Busy = {4, 5}
  RowCap = 1
  Start = 4
  Backfill = 2
  CursorHazards = {"fork_in_pass", "header_error", "logs_error", "slow_node", "write_error",
                   "reorg_unrecorded", "restart"}
  MaxHead = 5
  MaxForks = 2
  CursorFaults = 1
INVARIANTS
  MissedIsDated
  KeptAlive
  
  
  NothingForgotten
  
  
  NoReorgInvented
PROPERTIES
  WaitsAfterRefusal
  AlwaysReconnects
  ThrottleHonoured
  EveryFillEnds
  CatchesUp
