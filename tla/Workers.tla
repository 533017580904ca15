------------------------------ MODULE Workers ------------------------------
(***************************************************************************)
(* The three loops of a running capture side by side: the session of a     *)
(* stream, the fills beside it, and a chain's cursor.  WorkersInit picks   *)
(* the one that moves.  The session is this module's own and waits in its  *)
(* first state while another moves; the variables of the others stand      *)
(* still.  Each keeps the fairness of its specification.                   *)
(***************************************************************************)
EXTENDS StreamSession

CONSTANTS
  Keys, Paging, GapKeys, SettleKeys, HistoryFrom, Cap, Pause, Waits, SettleEvery,
  FillsBoot, LastEvent, FillsTime, MaxLosses,
  Depth, Lag, MaxSpan, Busy, RowCap, Start, Backfill, CursorHazards, MaxHead, MaxForks,
  CursorFaults

VARIABLES
  part, clock, refused,
  queue, flight, nextStart, inStep, settleNext, settled, losses, owed, taken, named, holdUntil,
  chain, final, forks, struck, cursor, trail, span, at, pass, claim, record, kept, boot

fillVars == <<clock, queue, flight, nextStart, inStep, settleNext, settled, losses, owed, taken,
              named, holdUntil>>
chainVars == <<refused, chain, final, forks, struck, cursor, trail, span, at, pass, claim, record,
               kept, boot>>
workerVars == <<part, hazards, vars, fillVars, chainVars>>

-----------------------------------------------------------------------------
Filler == INSTANCE Fills WITH now <- clock, Boot <- FillsBoot, MaxTime <- FillsTime
Cursor == INSTANCE ChainCursor WITH
  faults <- refused, Hazards <- CursorHazards, MaxFaults <- CursorFaults

(* What the loops assume of their constants.                               *)
ASSUME InstancesAssumption ==
  /\ Filler!ShapeAssumption /\ Filler!KeysAssumption
  /\ Filler!PaceAssumption /\ Filler!BoundsAssumption
  /\ Cursor!DepthAssumption /\ Cursor!PagingAssumption /\ Cursor!BoundsAssumption

-----------------------------------------------------------------------------
FillsInit ==
  IF part = "fills" THEN Filler!Init
  ELSE /\ clock = "still" /\ queue = "still" /\ flight = "still" /\ nextStart = "still"
       /\ inStep = "still" /\ settleNext = "still" /\ settled = "still"
       /\ losses = "still" /\ owed = "still" /\ taken = "still" /\ named = "still"
       /\ holdUntil = "still"
CursorInit ==
  IF part = "cursor" THEN Cursor!Init
  ELSE /\ refused = "still" /\ chain = "still" /\ final = "still" /\ forks = "still"
       /\ struck = "still" /\ cursor = "still" /\ trail = "still" /\ span = "still" /\ at = "still"
       /\ pass = "still" /\ claim = "still" /\ record = "still" /\ kept = "still"
       /\ boot = "still"
WorkersInit ==
  /\ part \in {"session", "fills", "cursor"}
  /\ Init /\ (part # "session" => hazards = HazardNames)
  /\ FillsInit /\ CursorInit

OnlySession == part = "session" /\ UNCHANGED <<part, fillVars, chainVars>>
OnlyFills == part = "fills" /\ UNCHANGED <<part, hazards, vars, chainVars>>
OnlyCursor == part = "cursor" /\ UNCHANGED <<part, hazards, vars, fillVars>>
(* Fills and the chain come to rest at their bounds; a session never does. *)
AtRest == part # "session" /\ UNCHANGED workerVars

WorkersNext ==
  \/ OnlySession /\ Next
  \/ OnlyFills /\ Filler!Next
  \/ OnlyCursor /\ Cursor!Next
  \/ AtRest

WorkersSpec ==
  /\ WorkersInit /\ [][WorkersNext]_workerVars
  /\ WF_workerVars(OnlySession /\ Loop /\ UNCHANGED hazards)
  /\ WF_workerVars(OnlyFills /\ Filler!Tick) /\ WF_workerVars(OnlyFills /\ Filler!FillStep)
  /\ WF_workerVars(OnlyCursor /\ Cursor!Loop)

-----------------------------------------------------------------------------
(* The session's properties are StreamSession's own.                       *)
(* Fills, NothingForgotten: a bar asked for is recorded, named as given up *)
(* or on its way (run.rs, fill_step).                                      *)
NothingForgotten == part = "fills" => Filler!NothingForgotten
(* Fills, ThrottleHonoured: a refusal to pace holds off every fill         *)
(* (run.rs, fill_returned).                                                *)
ThrottleHonoured ==
  [][part = "fills" => (~flight.out /\ flight'.out => holdUntil <= clock)]_workerVars
(* Fills, EveryFillEnds: what is owed is taken or given up by name         *)
(* (run.rs, requeue_or_drop).                                              *)
EveryFillEnds ==
  <>[](part = "fills" => \A k \in Keys : owed[k] \subseteq taken[k] \cup named[k])

(* ChainCursor, ReplacedIsSuperseded: a replaced block's row is            *)
(* contradicted in the record, or will be (cursor.rs, one_pass).           *)
ReplacedIsSuperseded == part = "cursor" => Cursor!ReplacedIsSuperseded
(* ChainCursor, CapturedIsCurrent: no block up to the cursor is skipped    *)
(* (cursor.rs, one_pass).                                                  *)
CapturedIsCurrent == part = "cursor" => Cursor!CapturedIsCurrent
(* ChainCursor, NoReorgInvented: no more reorganisations of a block than   *)
(* forks (trail.rs).                                                       *)
NoReorgInvented == part = "cursor" => Cursor!NoReorgInvented
(* ChainCursor, CatchesUp: the cursor comes to the head and keeps to it    *)
(* (cursor.rs, run_cursor).                                                *)
CatchesUp == <>[](part = "cursor" => cursor >= Cursor!Newest \/ "slow_node" \in struck)
=============================================================================
