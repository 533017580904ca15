SPECIFICATION PartsSpec
CONSTANTS
  Kinds <- AccountKinds
  Funding = "funding"
  Fills = "fills"
  PageSize = 2
  Hazards = {"kill", "refused", "unread"}
  MaxTime = 3
  MaxEvents <- AccountEvents
  MaxPasses = 2
  MaxFaults = 1
  Dirs <- TwoDirs
  Walkers = {"walker"}
  Margin = 1
  WalkTime = 1
  ListingTime = 4
  DirChanges = 3
  MaxWalks = 3
  Interval = 1
  Backoffs = {0, 1}
  Latency = 1
  PollHazards = {"kill", "stop", "throttled", "unreachable", "unrecorded"}
  PollTime = 6
  PollFaults = 2
  Masters = {"m", "n"}
  Fingerprints = {"f", "g"}
  Names = {"x", "y"}
  SubsHazards = {"kill", "unlisted", "unanswered"}
  SubsTime = 2
  SubsChanges = 3
  MaxPolls = 2
  SubsFaults = 1
  Received <- FourPayloads
  ReplayKinds = {"trades", "quotes"}
  Flushes = {"a", "b"}
  DayTicks = 2
  RangeEnd = 3
  Instruments = {"old", "new"}
  ListedFrom <- ListedAt
  PageRows = 2
  Overlap = 1
  ColdStart = 4
  ThrottleRetries = 1
  Caps = {2, 9}
  Reaches = {3, 9}
  FirstBoot = 4
  WalkEnd = 6
  WalkHazards = {"kill", "refused", "throttled"}
  WalkFaults = 2
  Sizes = {1, 2}
  BookPrices = {1, 3}
  MaxFills = 4
  BookFaults = 2
  Versions = {1, 2}
  SegmentHazards = {"kill", "power", "write_error", "sync_error", "rename_error", "dir_sync_error"}
  MaxCommits = 3
  SegmentFaults = 2
  Bucket = 2
  Widths = {1, 2, 3}
  From = 0
  To = 4
  GridPrices = {1, 2}
  GridTime = 5
  MaxBars = 2
INVARIANTS
  HolesAreDated
  
  LostStaysLost
  
  
  AliasNamesOneAddress
  YieldedIsPrefix
  CoveredIsHeld
  FoldIsTheVenues
  HolesAreBreaks
  
  ReturnsAreReal
CHECK_DEADLOCK FALSE
