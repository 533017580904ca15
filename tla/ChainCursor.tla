----------------------------- MODULE ChainCursor ----------------------------
(***************************************************************************)
(* Capture of a chain by position: run_cursor and one_pass of              *)
(* capture/cursor.rs over a node whose chain grows and forks.  A pass      *)
(* plans steps of at most a span of blocks to the head it saw; a step      *)
(* reads its logs, which are durable as they are taken, then the headers   *)
(* of its first and last block, and only then moves the cursor.  A header  *)
(* that contradicts the trail starts the search for where the fork began,  *)
(* and the cursor is rewound to below it.                                  *)
(*                                                                         *)
(* A hash is the number of the fork that made the block.                   *)
(***************************************************************************)
EXTENDS BlockTrail, Sequences

CONSTANTS
  Lag,            \* how far below the head the chain is final
  MaxSpan,        \* BlockPaging::max_span
  Busy, RowCap,   \* blocks with a log each; how many logs the node returns at once
  Start,          \* the head as capture first starts
  Backfill,       \* how far behind the head a cold start begins
  Hazards,        \* what may go wrong, see Hazard
  MaxHead, MaxForks, MaxFaults     \* bounds

Hazard == {"fork_in_pass", "header_error", "logs_error", "slow_node", "write_error",
           "reorg_unrecorded", "restart"}

PagingAssumption ==
  /\ Lag \in Nat /\ MaxSpan \in Nat \ {0} /\ RowCap \in Nat /\ Backfill \in Nat
  /\ Busy \subseteq Nat /\ Hazards \subseteq Hazard
BoundsAssumption ==
  /\ Start \in Nat /\ MaxHead \in Nat /\ MaxForks \in Nat /\ MaxFaults \in Nat

VARIABLES
  chain,    \* the node's canonical chain: height -> hash, from the genesis block on
  final,    \* the newest height that cannot be replaced
  forks, faults,
  struck,   \* history: the hazards that have struck
  cursor,   \* the last block captured
  trail, span,
  at,       \* what the loop does next
  pass,     \* the block its next step starts at and the head it saw
  claim,    \* the blocks a fork under search is known to have replaced
  record,   \* what the archive holds, in the order of its sequence
  kept,     \* history: entries whose step the cursor advanced over
  boot      \* history: how much was in the record when this process started

node == <<chain, final, forks>>
loop == <<cursor, trail, span, at, pass, claim, kept>>
mishaps == <<faults, struck>>
vars == <<node, mishaps, loop, record, boot>>

Cold == -1
NoPass == [from |-> 0, goal |-> 0]
NoClaim == [from |-> 0, to |-> 0]
Smaller(a, b) == IF a < b THEN a ELSE b
Larger(a, b) == IF a > b THEN a ELSE b

Newest == Max(DOMAIN chain)
Header(height) ==
  [number |-> height, hash |-> chain[height],
   parent |-> IF height = 0 THEN 0 ELSE chain[height - 1]]

Logs(from, to) == [blocks |-> [b \in (from .. to) \cap DOMAIN chain |-> chain[b]],
                   reorg |-> FALSE]
Reorg(from, to) == [from |-> from, to |-> to, reorg |-> TRUE]
LogsRead == {i \in DOMAIN record : ~record[i].reorg}
Reorgs == {i \in DOMAIN record : record[i].reorg}

(* Reorganised::contradicts: the block is in its range, and the row is     *)
(* older than it.                                                          *)
Contradicts(j, i, b) ==
  record[j].from <= b /\ b <= record[j].to /\ i < j
Superseded(i, b) == \E j \in Reorgs : Contradicts(j, i, b)

-----------------------------------------------------------------------------
(* The chain.                                                              *)
Final(head) == Larger(final, head - Lag)

Mine ==
  /\ Newest < MaxHead
  /\ chain' = [b \in 0 .. Newest + 1 |-> IF b <= Newest THEN chain[b] ELSE forks]
  /\ final' = Final(Newest + 1)
  /\ UNCHANGED <<forks, mishaps, loop, record, boot>>

Fork ==
  /\ forks < MaxForks
  /\ \E from \in final + 1 .. Newest : \E tip \in from .. Newest :
       /\ IF at \in {"idle", "stopped"} \/ (at = "logs" /\ pass.goal <= tip)
          THEN UNCHANGED struck
          ELSE "fork_in_pass" \in Hazards /\ struck' = struck \cup {"fork_in_pass"}
       /\ chain' = [b \in 0 .. tip |-> IF b < from THEN chain[b] ELSE forks + 1]
       /\ final' = Final(tip)
  /\ forks' = forks + 1
  /\ UNCHANGED <<faults, loop, record, boot>>

Strikes(hazard) == /\ hazard \in Hazards /\ faults < MaxFaults
                   /\ faults' = faults + 1 /\ struck' = struck \cup {hazard}

-----------------------------------------------------------------------------
(* The loop.                                                               *)
NarrowedNot(blocks) == blocks              \* mutant: the same range again
Narrowed(blocks) == Larger(blocks \div 2, 1)
Widened == Smaller(2 * span, MaxSpan)

RewindOnto(low) == low                     \* mutant: the first replaced block is skipped
RewindTo(low) ==
  IF cursor = Cold THEN Larger(low - 1, 0) ELSE Smaller(cursor, Larger(low - 1, 0))

StepTo == Smaller(pass.from + span - 1, pass.goal)

(* The pass is over: with no failure, the span is given back by doubling.  *)
Ends(spanNow) == /\ at' = "idle" /\ pass' = NoPass /\ claim' = NoClaim
                 /\ span' = spanNow

StartPass ==
  /\ at = "idle"
  /\ LET from == IF cursor = Cold THEN Larger(Newest - Backfill, 0) ELSE cursor + 1
     IN  IF from > Newest
         THEN Ends(Widened)
         ELSE /\ at' = "logs" /\ pass' = [from |-> from, goal |-> Newest]
              /\ UNCHANGED <<span, claim>>
  /\ UNCHANGED <<node, mishaps, cursor, trail, kept, record, boot>>

Heavy == Cardinality(Busy \cap pass.from .. StepTo) > RowCap

LogsTaken ==
  /\ at = "logs" /\ ~Heavy
  /\ record' = Append(record, Logs(pass.from, StepTo))
  /\ at' = "first"
  /\ UNCHANGED <<node, mishaps, cursor, trail, span, pass, claim, kept, boot>>

(* Refused for its size: never again as it was, and at one block the loop  *)
(* ends.                                                                   *)
LogsRefused ==
  /\ at = "logs"
  /\ \/ Heavy /\ UNCHANGED mishaps
     \/ ~Heavy /\ Strikes("slow_node")
  /\ IF span <= 1
     THEN at' = "stopped" /\ UNCHANGED <<span, pass, claim>>
     ELSE Ends(Narrowed(StepTo - pass.from + 1))
  /\ UNCHANGED <<node, cursor, trail, kept, record, boot>>

(* Any other refusal, or an error of the record's: the pass ends where it  *)
(* is.                                                                     *)
PassFails ==
  /\ at = "logs" /\ ~Heavy
  /\ \/ Strikes("logs_error") /\ UNCHANGED record
     \/ Strikes("write_error") /\ record' \in {record, Append(record, Logs(pass.from, StepTo))}
  /\ Ends(span)
  /\ UNCHANGED <<node, cursor, trail, kept, boot>>

(* After a header: the step's other one, or the step is done.              *)
HeaderDone ==
  IF at = "first" /\ pass.from # StepTo
  THEN at' = "last" /\ UNCHANGED <<cursor, span, pass, claim, kept>>
  ELSE /\ cursor' = StepTo /\ kept' = kept \cup {Len(record)}
       /\ IF StepTo >= pass.goal
          THEN Ends(Widened)
          ELSE /\ at' = "logs" /\ pass' = [pass EXCEPT !.from = StepTo + 1]
               /\ UNCHANGED <<span, claim>>

Asked == IF at = "first" THEN pass.from ELSE StepTo

HeaderAgrees ==
  /\ at \in {"first", "last"} /\ Asked \in DOMAIN chain
  /\ ~Disagrees(trail, Header(Asked))
  /\ trail' = Advance(trail, Header(Asked))
  /\ HeaderDone
  /\ UNCHANGED <<node, mishaps, record, boot>>

HeaderUnread ==
  /\ at \in {"first", "last"}
  /\ \/ Asked \notin DOMAIN chain /\ UNCHANGED mishaps
     \/ Asked \in DOMAIN chain /\ Strikes("header_error")
  /\ HeaderDone
  /\ UNCHANGED <<node, trail, record, boot>>

HeaderDisagrees ==
  /\ at \in {"first", "last"} /\ Asked \in DOMAIN chain
  /\ Disagrees(trail, Header(Asked))
  /\ trail' = Advance(trail, Header(Asked))
  /\ claim' = Claim(trail, Header(Asked))
  /\ at' = "search"
  /\ UNCHANGED <<node, mishaps, cursor, span, pass, kept, record, boot>>

(* fork_point, one header an action, newest held height first.             *)
Held == HeldBelow(trail, claim.from)
Readable == Held # {} /\ Max(Held) \in DOMAIN chain

Rewind(low) ==
  /\ trail' = ForgetFrom(trail, low)
  /\ cursor' = RewindTo(low)
  /\ Ends(Widened)
  /\ UNCHANGED <<node, kept, boot>>

Recorded(low) == record' = Append(record, Reorg(low, claim.to)) /\ UNCHANGED mishaps
RecordedOrNot(low) == Recorded(low) \/ (Strikes("reorg_unrecorded") /\ UNCHANGED record)

StillReplaced ==
  /\ at = "search" /\ Readable
  /\ chain[Max(Held)] # trail[Max(Held)]
  /\ claim' = [claim EXCEPT !.from = Max(Held)]
  /\ UNCHANGED <<node, mishaps, cursor, trail, span, at, pass, kept, record, boot>>

ForkFound ==
  /\ at = "search" /\ Readable
  /\ chain[Max(Held)] = trail[Max(Held)]
  /\ RecordedOrNot(Max(Held) + 1) /\ Rewind(Max(Held) + 1)

SearchEnds ==
  /\ at = "search"
  /\ \/ ~Readable /\ RecordedOrNot(claim.from)
     \/ Readable /\ Strikes("header_error") /\ record' = Append(record, Reorg(claim.from, claim.to))
  /\ Rewind(claim.from)

(* The trail and the cursor live in memory.                                *)
Restart ==
  /\ Strikes("restart")
  /\ boot' = Len(record)
  /\ cursor' = Cold /\ trail' = EmptyTrail
  /\ Ends(MaxSpan)
  /\ UNCHANGED <<node, kept, record>>

Loop == \/ StartPass \/ LogsTaken \/ LogsRefused \/ PassFails
        \/ HeaderAgrees \/ HeaderUnread \/ HeaderDisagrees
        \/ StillReplaced \/ ForkFound \/ SearchEnds

Next == Mine \/ Fork \/ Loop \/ Restart

Init ==
  /\ chain = [b \in 0 .. Start |-> 0] /\ final = Larger(Start - Lag, 0)
  /\ forks = 0 /\ faults = 0 /\ struck = {}
  /\ cursor = Cold /\ trail = EmptyTrail /\ span = MaxSpan
  /\ at = "idle" /\ pass = NoPass /\ claim = NoClaim
  /\ record = <<>> /\ kept = {} /\ boot = 0

(* The loop is one task whose every await ends; nothing is assumed of the  *)
(* chain.                                                                  *)
Spec == Init /\ [][Next]_vars /\ WF_vars(Loop)

-----------------------------------------------------------------------------
(* What this process read, and what of it the chain has since replaced.    *)
Read == {i \in LogsRead : i > boot}
Stale(i, b) == b \notin DOMAIN chain \/ chain[b] # record[i].blocks[b]

(* The chain no longer holds the block under the cursor, and the trail     *)
(* knows: the header of the next block will say so.                        *)
ForkPending ==
  /\ cursor \in DOMAIN trail
  /\ cursor \notin DOMAIN chain \/ chain[cursor] # trail[cursor]

(* cursor.rs: a fork at or below the held tip shows at the next boundary,  *)
(* however deep it runs.  Between passes, every row the cursor advanced    *)
(* over whose block was replaced is contradicted by a reorganisation in    *)
(* the record, or the next block will reveal it.                           *)
ForksAreSeen ==
  at = "idle" => \A i \in Read \cap kept : \A b \in DOMAIN record[i].blocks :
                   Stale(i, b) => Superseded(i, b) \/ ForkPending

(* So it is as long as the chain holds still while a step reads its logs   *)
(* and headers, the headers are read and the reorganisation is recorded.   *)
Undisturbed == struck \cap {"fork_in_pass", "header_error", "reorg_unrecorded"} = {}
ReplacedIsSuperseded == Undisturbed => ForksAreSeen

(* one_pass: between passes, every block from the first this process       *)
(* captured to the cursor has a row of the chain as it is that no          *)
(* reorganisation contradicts: no block is skipped by a step, a narrowed   *)
(* span, a failure or a rewind.                                            *)
CapturedIsCurrent ==
  (Undisturbed /\ at = "idle" /\ ~ForkPending /\ Read \cap kept # {}) =>
     \A b \in Min(DOMAIN record[Min(Read \cap kept)].blocks) .. cursor :
        \E i \in Read : b \in DOMAIN record[i].blocks /\ ~Stale(i, b) /\ ~Superseded(i, b)

(* trail.rs: no reorganisation is invented: no block is claimed to have    *)
(* been replaced more often than the chain forked.                         *)
NoReorgInvented ==
  \A b \in 0 .. MaxHead :
    Cardinality({j \in Reorgs : record[j].from <= b /\ b <= record[j].to}) <= forks

(* Whatever ranges the node refuses for their size, the cursor comes to    *)
(* the head and keeps to it.                                               *)
CatchesUp == <>[](cursor >= Newest \/ "slow_node" \in struck)
=============================================================================
