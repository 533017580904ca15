------------------------------- MODULE Parts -------------------------------
(***************************************************************************)
(* The smaller components side by side.  PartsInit picks the part that     *)
(* moves.  The account's history is this module's own and waits in its     *)
(* first state while another moves; the variables another part does not    *)
(* have stand still.  Parts that name a variable alike share it here; each *)
(* has constants of its own.                                               *)
(***************************************************************************)
EXTENDS AccountHistory

CONSTANTS
  Dirs, Walkers, Margin, WalkTime, ListingTime, DirChanges, MaxWalks,
  Interval, Backoffs, Latency, PollHazards, PollTime, PollFaults,
  Masters, Fingerprints, Names, SubsHazards, SubsTime, SubsChanges, MaxPolls, SubsFaults,
  Received, ReplayKinds, Flushes, DayTicks, RangeEnd,
  Instruments, ListedFrom, PageRows, Overlap, ColdStart, ThrottleRetries, Caps, Reaches,
  FirstBoot, WalkEnd, WalkHazards, WalkFaults,
  Sizes, BookPrices, MaxFills, BookFaults,
  Versions, SegmentHazards, MaxCommits, SegmentFaults,
  Bucket, Widths, From, To, GridPrices, GridTime, MaxBars

VARIABLES
  part, now, bindings, polls, faults,
  held, modified, cache, walk, walks,
  archive, cadence, poll, backedOff, owed, missed,
  resolved, accounts, ledger, bound, subs, polled, answered, changes,
  segments, gone, asked, pending, open, yielded, replay,
  setup, durable, walker, outcomes, cold,
  fills, book, account,
  keeps, partition, temp, visible, possible, writer, promised, commits,
  price, bars

listingVars == <<held, modified, cache, walk, walks>>
pollVars == <<archive, cadence, poll, backedOff, owed, missed>>
discoveryVars == <<bindings, polls, resolved, accounts, ledger, bound, subs, polled, answered,
                   changes>>
replayVars == <<segments, gone, asked, pending, open, yielded, replay>>
walkVars == <<setup, durable, walker, outcomes, cold>>
bookVars == <<fills, book, account>>
segmentVars == <<keeps, partition, temp, visible, possible, writer, promised, commits>>
gridVars == <<price, bars>>
partsVars == <<part, now, faults, vars, listingVars, pollVars, discoveryVars,
               replayVars, walkVars, bookVars, segmentVars, gridVars>>

-----------------------------------------------------------------------------
Listing == INSTANCE ListingCache WITH MaxTime <- ListingTime, MaxChanges <- DirChanges
Poll == INSTANCE PollCapture WITH
  Hazards <- PollHazards, MaxTime <- PollTime, MaxFaults <- PollFaults
Subs == INSTANCE Discovery WITH
  record <- bindings, passes <- polls,
  Hazards <- SubsHazards, MaxTime <- SubsTime, MaxChanges <- SubsChanges,
  MaxPasses <- MaxPolls, MaxFaults <- SubsFaults
Replayed == INSTANCE Replay WITH Kinds <- ReplayKinds, End <- RangeEnd
History == INSTANCE Walk WITH
  Listed <- ListedFrom, MaxTime <- WalkEnd, Hazards <- WalkHazards, MaxFaults <- WalkFaults
Book == INSTANCE AccountBook WITH Prices <- BookPrices, MaxFaults <- BookFaults
Segment == INSTANCE SegmentFile WITH Hazards <- SegmentHazards, MaxFaults <- SegmentFaults
Returned == INSTANCE Grid WITH Prices <- GridPrices, MaxTime <- GridTime

(* What the parts assume of their constants.                               *)
ASSUME InstancesAssumption ==
  /\ Subs!AddressesAssumption
  /\ Replayed!ReceivedAssumption /\ Replayed!RangeAssumption
  /\ History!InstrumentsAssumption /\ History!PagesAssumption
  /\ Book!SizesAssumption /\ Returned!WidthsAssumption

-----------------------------------------------------------------------------
ListingInit ==
  IF part = "listing" THEN Listing!Init
  ELSE /\ held = "still" /\ modified = "still" /\ cache = "still"
       /\ walk = "still" /\ walks = "still"
PollInit ==
  IF part = "poll" THEN Poll!Init
  ELSE /\ archive = "still" /\ cadence = "still" /\ poll = "still" /\ backedOff = "still"
       /\ owed = "still" /\ missed = "still"
DiscoveryInit ==
  IF part = "discovery" THEN Subs!Init
  ELSE /\ bindings = "still" /\ polls = "still" /\ resolved = "still" /\ accounts = "still"
       /\ ledger = "still" /\ bound = "still"
       /\ subs = "still" /\ polled = "still" /\ answered = "still" /\ changes = "still"
ReplayInit ==
  IF part = "replay" THEN Replayed!Init
  ELSE /\ segments = "still" /\ gone = "still" /\ asked = "still" /\ pending = "still"
       /\ open = "still" /\ yielded = "still" /\ replay = "still"
WalkInit ==
  IF part = "walk" THEN History!Init
  ELSE /\ setup = "still" /\ durable = "still"
       /\ walker = "still" /\ outcomes = "still" /\ cold = "still"
BookInit ==
  IF part = "book" THEN Book!Init
  ELSE fills = "still" /\ book = "still" /\ account = "still"
SegmentInit ==
  IF part = "segment" THEN Segment!Init
  ELSE /\ keeps = "still" /\ partition = "still" /\ temp = "still" /\ visible = "still"
       /\ possible = "still" /\ writer = "still" /\ promised = "still" /\ commits = "still"
GridInit ==
  IF part = "grid" THEN Returned!Init ELSE price = "still" /\ bars = "still"

PartsInit ==
  /\ part \in {"account", "listing", "poll", "discovery", "replay", "walk", "book", "segment",
               "grid"}
  /\ Init
  /\ ListingInit /\ PollInit /\ DiscoveryInit /\ ReplayInit /\ WalkInit /\ BookInit
  /\ SegmentInit /\ GridInit
  /\ IF part \in {"listing", "poll", "discovery", "walk"} THEN TRUE ELSE now = "still"
  /\ IF part \in {"poll", "discovery", "walk", "book", "segment"} THEN TRUE ELSE faults = "still"

PartsNext ==
  \/ /\ part = "account" /\ Next
     /\ UNCHANGED <<part, now, faults, listingVars, pollVars, discoveryVars, replayVars, walkVars,
                    bookVars, segmentVars, gridVars>>
  \/ /\ part = "listing" /\ Listing!Next
     /\ UNCHANGED <<part, faults, vars, pollVars, discoveryVars, replayVars,
                    walkVars, bookVars, segmentVars, gridVars>>
  \/ /\ part = "poll" /\ Poll!Next
     /\ UNCHANGED <<part, vars, listingVars, discoveryVars, replayVars,
                    walkVars, bookVars, segmentVars, gridVars>>
  \/ /\ part = "discovery" /\ Subs!Next
     /\ UNCHANGED <<part, vars, listingVars, pollVars, replayVars, walkVars, bookVars,
                    segmentVars, gridVars>>
  \/ /\ part = "replay" /\ Replayed!Next
     /\ UNCHANGED <<part, now, faults, vars, listingVars, pollVars,
                    discoveryVars, walkVars, bookVars, segmentVars, gridVars>>
  \/ /\ part = "walk" /\ History!Next
     /\ UNCHANGED <<part, vars, listingVars, pollVars, discoveryVars,
                    replayVars, bookVars, segmentVars, gridVars>>
  \/ /\ part = "book" /\ Book!Next
     /\ UNCHANGED <<part, now, vars, listingVars, pollVars, discoveryVars,
                    replayVars, walkVars, segmentVars, gridVars>>
  \/ /\ part = "segment" /\ Segment!Next
     /\ UNCHANGED <<part, now, vars, listingVars, pollVars, discoveryVars,
                    replayVars, walkVars, bookVars, gridVars>>
  \/ /\ part = "grid" /\ Returned!Next
     /\ UNCHANGED <<part, now, faults, vars, listingVars, pollVars,
                    discoveryVars, replayVars, walkVars, bookVars, segmentVars>>
PartsSpec == PartsInit /\ [][PartsNext]_partsVars

-----------------------------------------------------------------------------
(* The account's properties are AccountHistory's own.                     *)

(* ListingCache, ListingIsCurrent: a walk misses nothing committed before  *)
(* it began (listing.rs, RACY_MARGIN).                                     *)
ListingIsCurrent == part = "listing" => Listing!ListingIsCurrent
(* PollCapture, SilenceIsDated: the moments from an answer to a failed ask *)
(* and from the last thing durable to a boot are in gaps (venue/poll.rs).  *)
SilenceIsDated == part = "poll" => Poll!SilenceIsDated
(* Discovery, AliasNamesOneAddress: an alias names one address for good,   *)
(* and is bound in the record first (accounts.rs, Bindings).               *)
AliasNamesOneAddress == part = "discovery" => Subs!AliasNamesOneAddress
(* Replay, YieldedIsPrefix: a replay is the range in order of receipt, and *)
(* whole if it ends without an error (replay.rs, stream_range).            *)
YieldedIsPrefix == part = "replay" => Replayed!YieldedIsPrefix
(* Walk, CoveredIsHeld: what a walk says it covered the record holds       *)
(* (walk.rs, WalkOutcome).                                                 *)
CoveredIsHeld == part = "walk" => History!CoveredIsHeld
(* AccountBook, FoldIsTheVenues: with no hole, the folded book is the      *)
(* venue's (fold.rs, apply).                                               *)
FoldIsTheVenues == part = "book" => Book!FoldIsTheVenues
(* AccountBook, HolesAreBreaks: a hole that moved the position is a break, *)
(* and nothing is applied past an unusable fill (fold.rs, apply).          *)
HolesAreBreaks == part = "book" => Book!HolesAreBreaks
(* SegmentFile, CommitIsDurable: a file is whole or not there, and what    *)
(* was committed is found after a power loss (writer.rs, finish).          *)
CommitIsDurable == part = "segment" => Segment!CommitIsDurable
(* Grid, ReturnsAreReal: a return is between two real prices exactly one   *)
(* bucket apart (derive/mod.rs, returns).                                  *)
ReturnsAreReal == part = "grid" => Returned!ReturnsAreReal
=============================================================================
