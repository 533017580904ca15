------------------------------ MODULE Capture -------------------------------
(***************************************************************************)
(* One venue's capture process and the record it writes, across kills and  *)
(* restarts: record/mod.rs (Archive), ingest.rs (the one path) and the     *)
(* parts of capture/run.rs that take payloads, flush, publish gaps, start  *)
(* and stop.  The socket is one bit here; StreamSession opens it up.       *)
(*                                                                         *)
(* A segment is the set of its rows: restart_window reads nothing but the  *)
(* greatest receipt moment of any segment in the scope, which is the       *)
(* greatest receipt of any row.  The scope is the whole module.  The       *)
(* clock is taken never to be set back.                                    *)
(***************************************************************************)
EXTENDS Coverage, FiniteSets

CONSTANTS
  Frames,       \* what the venue can send: [kind, pairs], pairs = {} for a control frame
  Hazards,      \* which of HazardNames the environment may do
  SeqPerTick,   \* microseconds per model tick: from_seq seeds with the clock's micros
  MaxTime, MaxTaken     \* bounds: ticks of the clock, payloads taken

HazardNames == {"kill", "kill_in_flush", "kill_in_report", "write_error",
                "marker_error", "gap_error", "fetch", "unparsed", "session_loss"}

ASSUME PairsAssumption == IsFiniteSet(Pairs)
ASSUME FramesAssumption == \A f \in Frames : f.pairs \subseteq Pairs
ASSUME HazardsAssumption == Hazards \subseteq HazardNames
ASSUME BoundsAssumption == /\ SeqPerTick \in Nat \ {0}
                           /\ MaxTime \in Nat
                           /\ MaxTaken \in Nat

VARIABLES
  now,          \* the wall clock
  slept,        \* the clock moved since the process went down
  phase,        \* "down", or what the one thread is doing
  booted,       \* when this process started
  nextSeq,      \* Archive::next_seq
  buffered,     \* Archive::buffered: streamed payloads not yet durable
  failures,     \* Archive::failures: parse failures not yet durable
  stopping,     \* the flush under way is shutdown's
  connected,    \* a session is open
  ledger,       \* Capture::coverage
  pending,      \* gaps computed and not yet recorded
  disk,         \* payload rows on disk
  failDisk,     \* failure rows on disk, each named by the payload it refers to
  gaps,         \* gap rows on disk
  clean,        \* the .clean-shutdown marker exists
  unflushed,    \* the .unflushed marker's moment, or Never
  taken         \* history: every payload the process ever received

archive == <<buffered, failures, nextSeq>>
record == <<disk, failDisk, gaps>>
markers == <<clean, unflushed>>
session == <<connected, ledger, pending>>
process == <<booted, stopping>>
clock == <<now, slept>>
vars == <<clock, phase, process, archive, session, record, markers, taken>>

Phases == {"down", "reporting", "running", "gapping", "flushing"}
Times == 0 .. MaxTime
Payload == [seq : Nat, recv : Times, kind : {f.kind : f \in Frames}, pairs : SUBSET Pairs,
            parsed : BOOLEAN]
GapRow == [seq : Nat, recv : Times, by : Nat, pair : Pairs, from : Times, to : Times,
           cause : Causes]

LastOf(receipts) == CHOOSE t \in receipts : \A u \in receipts : u <= t
FirstOf(receipts) == CHOOSE t \in receipts : \A u \in receipts : t <= u
Receipts(rows) == {r.recv : r \in rows}

(* Archive::last_durable: the greatest position any segment name carries.  *)
Durable == Receipts(disk) \cup Receipts(failDisk) \cup Receipts(gaps)
LastDurable == IF Durable = {} THEN Never ELSE LastOf(Durable)

(* restart_window: from the last durable receipt, or from the earliest one *)
(* a failed flush could not write.                                         *)
WindowFromDurable == LastDurable            \* mutant: the marker is not read
WindowFrom == IF unflushed # Never /\ unflushed < LastDurable THEN unflushed ELSE LastDurable

HasWindowFirstStart == WindowFrom < now     \* mutant: a first start is dated too
HasWindow == LastDurable # Never /\ WindowFrom < now
WindowCause == IF clean THEN "downtime" ELSE "crash_unflushed"

SeedZero == 0                               \* mutant: Archive::open numbers from zero
Seed == now * SeqPerTick

ClearNothing == UNCHANGED markers           \* mutant: the marker outlives its reader
ClearMarkers == clean' = FALSE /\ unflushed' = Never

-----------------------------------------------------------------------------
Init ==
  /\ now = 0 /\ slept = TRUE
  /\ phase = "down" /\ booted = 0 /\ stopping = FALSE
  /\ nextSeq = 0 /\ buffered = {} /\ failures = {}
  /\ connected = FALSE /\ ledger = Untouched /\ pending = {}
  /\ disk = {} /\ failDisk = {} /\ gaps = {}
  /\ clean = FALSE /\ unflushed = Never
  /\ taken = {}

Tick ==
  /\ now < MaxTime
  /\ now' = now + 1
  /\ slept' = TRUE
  /\ UNCHANGED <<phase, process, archive, session, record, markers, taken>>

(* Capture::new and report_restart_gap, up to the first gap it records.    *)
(* A process takes longer than a tick to start.                            *)
Boot ==
  /\ phase = "down" /\ slept
  /\ booted' = now
  /\ nextSeq' = Seed
  /\ IF HasWindow
     THEN LET known == Known(Untouched, Pairs, WindowFrom)
          IN  /\ phase' = "reporting"
              /\ pending' = GapsFor(known, Pairs, now, WindowCause)
              /\ ledger' = AfterGapsFor(known, Pairs, now, WindowCause)
              /\ UNCHANGED markers
     ELSE /\ phase' = "running"
          /\ pending' = {}
          /\ ledger' = Known(Untouched, Pairs, now)
          /\ ClearMarkers
  /\ UNCHANGED <<clock, stopping, buffered, failures, connected, record, taken>>

(* emit_gap: the gap is a Generated payload, committed at once.  A failed  *)
(* commit is logged and the gap is dropped.                                *)
RecordGap ==
  /\ phase \in {"reporting", "gapping"}
  /\ \E g \in pending :
       /\ pending' = pending \ {g}
       /\ nextSeq' = nextSeq + 1
       /\ \/ gaps' = gaps \cup {[seq |-> nextSeq, recv |-> g.to, by |-> booted,
                                 pair |-> g.pair, from |-> g.from, to |-> g.to,
                                 cause |-> g.cause]}
          \/ "gap_error" \in Hazards /\ UNCHANGED gaps
  /\ UNCHANGED <<clock, phase, process, buffered, failures, connected, ledger,
                 disk, failDisk, markers, taken>>

(* Every gap is out: the restart clears both markers, the loop goes on.    *)
GapsRecorded ==
  /\ phase \in {"reporting", "gapping"} /\ pending = {}
  /\ phase' = "running"
  /\ IF phase = "reporting" THEN ClearMarkers ELSE UNCHANGED markers
  /\ UNCHANGED <<clock, process, archive, session, record, taken>>

(* Capture::take: the one path, then coverage for a frame that parsed.     *)
NewPayload(frame, parsed) ==
  [seq |-> nextSeq, recv |-> now, kind |-> frame.kind, pairs |-> frame.pairs,
   parsed |-> parsed]

Take(payload) ==
  /\ Cardinality(taken) < MaxTaken
  /\ phase = "running"
  /\ payload.parsed \/ "unparsed" \in Hazards
  /\ nextSeq' = nextSeq + 1
  /\ taken' = taken \cup {payload}
  /\ failures' = IF payload.parsed THEN failures ELSE failures \cup {payload}
  /\ ledger' = IF payload.parsed THEN Received(ledger, payload.pairs, now) ELSE ledger

TakeStreamed(frame, parsed) ==
  /\ connected
  /\ Take(NewPayload(frame, parsed))
  /\ buffered' = buffered \cup {NewPayload(frame, parsed)}
  /\ UNCHANGED <<clock, phase, process, connected, pending, record, markers>>

(* A walked or filled page: durable before anything looks at it.           *)
TakeFetched(frame, parsed) ==
  /\ "fetch" \in Hazards
  /\ Take(NewPayload(frame, parsed))
  /\ disk' = disk \cup {NewPayload(frame, parsed)}
  /\ UNCHANGED <<clock, phase, process, buffered, connected, pending, failDisk, gaps,
                 markers>>

-----------------------------------------------------------------------------
(* The flush timer, the end of a walk, and shutdown.                       *)
Flush ==
  /\ phase = "running"
  /\ phase' = "flushing"
  /\ stopping' \in BOOLEAN
  /\ UNCHANGED <<clock, booted, archive, session, record, markers, taken>>

(* Rows group by (kind, date); groups commit in the order of their first   *)
(* row.  The instance is one day long, so a partition is a kind.           *)
FirstGroup(rows) ==
  LET first == CHOOSE r \in rows : \A s \in rows : r.seq <= s.seq
  IN  {r \in rows : r.kind = first.kind}

FlushPayloads ==
  /\ phase = "flushing" /\ buffered # {}
  /\ disk' = disk \cup FirstGroup(buffered)
  /\ buffered' = buffered \ FirstGroup(buffered)
  /\ UNCHANGED <<clock, phase, process, failures, nextSeq, session, failDisk, gaps,
                 markers, taken>>

FlushFailuresFirst ==                       \* mutant: not after every payload
  /\ phase = "flushing" /\ failures \ failDisk # {}
  /\ failDisk' = failDisk \cup FirstGroup(failures \ failDisk)
  /\ UNCHANGED <<clock, phase, process, archive, session, disk, gaps, markers, taken>>

(* A failure row goes beside the payload it names, once all of those are   *)
(* written; the buffer of failures empties only when every group is.       *)
FlushFailures ==
  /\ phase = "flushing" /\ buffered = {} /\ failures \ failDisk # {}
  /\ failDisk' = failDisk \cup FirstGroup(failures \ failDisk)
  /\ UNCHANGED <<clock, phase, process, archive, session, disk, gaps, markers, taken>>

FlushDone ==
  /\ phase = "flushing" /\ buffered = {} /\ failures \subseteq failDisk
  /\ failures' = {}
  /\ unflushed' = Never
  /\ IF stopping
     THEN /\ phase' = "down" /\ slept' = FALSE
          /\ stopping' = FALSE
          /\ connected' = FALSE /\ ledger' = Untouched
          /\ \/ clean' = TRUE
             \/ "marker_error" \in Hazards /\ UNCHANGED clean
     ELSE phase' = "running" /\ UNCHANGED <<slept, stopping, connected, ledger, clean>>
  /\ UNCHANGED <<now, booted, buffered, nextSeq, pending, record, taken>>

(* The process is gone, and with it all it held in memory.                 *)
Gone ==
  /\ phase' = "down" /\ slept' = FALSE
  /\ buffered' = {} /\ failures' = {} /\ pending' = {}
  /\ stopping' = FALSE /\ connected' = FALSE /\ ledger' = Untouched
  /\ UNCHANGED <<now, booted, nextSeq, record, taken>>

(* A commit fails: the flush marks the earliest receipt still held, and    *)
(* the error ends the process.                                             *)
FlushFails ==
  /\ "write_error" \in Hazards
  /\ phase = "flushing" /\ (buffered # {} \/ failures \ failDisk # {})
  /\ \/ unflushed' = FirstOf(Receipts(buffered \cup failures))
     \/ "marker_error" \in Hazards /\ UNCHANGED unflushed
  /\ Gone
  /\ UNCHANGED clean

(* Killed, or ended by the error of a page's own commit, which marks       *)
(* nothing.                                                                *)
Kill ==
  /\ phase # "down"
  /\ "kill" \in Hazards
  /\ phase = "flushing" => "kill_in_flush" \in Hazards
  /\ phase \in {"reporting", "gapping"} => "kill_in_report" \in Hazards
  /\ Gone
  /\ UNCHANGED markers

-----------------------------------------------------------------------------
(* A session opens and its subscriptions go out: asked_again.              *)
Connect ==
  /\ phase = "running" /\ ~connected
  /\ connected' = TRUE
  /\ pending' = Tails(ledger, Pairs, now)
  /\ ledger' = AfterAskedAgain(ledger, Pairs, now)
  /\ phase' = "gapping"
  /\ UNCHANGED <<clock, process, archive, record, markers, taken>>

SessionLost ==
  /\ "session_loss" \in Hazards
  /\ phase = "running" /\ connected
  /\ connected' = FALSE
  /\ pending' = GapsForAll(ledger, now, "session_lost")
  /\ ledger' = AfterGapsFor(ledger, Pairs, now, "session_lost")
  /\ phase' = "gapping"
  /\ UNCHANGED <<clock, process, archive, record, markers, taken>>

Handover ==
  /\ "session_loss" \in Hazards
  /\ phase = "running" /\ connected
  /\ ledger' = HandoverCompleted(ledger, now)
  /\ UNCHANGED <<clock, phase, process, archive, connected, pending, record, markers,
                 taken>>

Next ==
  \/ Tick
  \/ Boot \/ RecordGap \/ GapsRecorded
  \/ \E f \in Frames, parsed \in BOOLEAN : TakeStreamed(f, parsed)
  \/ \E f \in Frames, parsed \in BOOLEAN : TakeFetched(f, parsed)
  \/ Flush \/ FlushPayloads \/ FlushFailures \/ FlushDone \/ FlushFails
  \/ Kill
  \/ Connect \/ SessionLost \/ Handover

Spec == Init /\ [][Next]_vars

-----------------------------------------------------------------------------
(* Type invariant.  A running process has a covered moment for every pair  *)
(* (establish_coverage), so no gap is ever dated from the beginning of     *)
(* time.                                                                   *)
TypeOK ==
  /\ now \in Times /\ booted \in Nat /\ nextSeq \in Nat
  /\ slept \in BOOLEAN /\ stopping \in BOOLEAN /\ connected \in BOOLEAN
  /\ clean \in BOOLEAN /\ unflushed \in Moment
  /\ phase \in Phases
  /\ ledger \in Ledgers
  /\ phase # "down" => \A p \in Pairs : ledger[p].last # Never
  /\ pending \subseteq [pair : Pairs, from : Times, to : Times, cause : Causes]
  /\ buffered \subseteq Payload /\ failures \subseteq Payload
  /\ disk \subseteq Payload /\ failDisk \subseteq Payload /\ taken \subseteq Payload
  /\ gaps \subseteq GapRow

(* A failure row joins the payload it refers to on its sequence            *)
(* (record/mod.rs Failure): wherever a crash or an error falls, the        *)
(* payload a durable failure row names is durable too.                     *)
FailureNamesItsPayload == failDisk \subseteq disk

(* Archive::from_seq: monotonic across processes, so stream_seq is a road  *)
(* back from a row to one payload, across every restart.                   *)
SeqNamesOnePayload ==
  \A r, s \in taken \cup gaps : r.seq = s.seq => r = s

(* Coverage::gaps_for: within one process no two gaps of a pair share an   *)
(* instant, so a second loss does not publish the first one's span again   *)
(* and a tail starts where the gap it closes ended.                        *)
GapsDisjoint ==
  \A g, h \in gaps :
    g.by = h.by /\ g.pair = h.pair /\ g # h => g.to <= h.from \/ h.to <= g.from

(* What was received and is neither durable nor held any more.             *)
Lost == taken \ (disk \cup buffered)

Reported(r) ==
  \A p \in r.pairs : \E g \in gaps : g.pair = p /\ g.from <= r.recv /\ r.recv <= g.to

(* mark_clean_shutdown: a window the record calls downtime is one in which *)
(* nothing this system received was lost.                                  *)
DowntimeLostNothing ==
  \A g \in gaps : g.cause = "downtime" =>
    \A r \in Lost : r.recv < g.from \/ g.to <= r.recv

(* The record holds something from no later than r, so it claims to cover  *)
(* the moment r arrived.                                                   *)
Claimed(r) == \E t \in Durable : t <= r.recv

(* restart_window: once a restart has reported, every payload received and *)
(* lost lies in a recorded gap of each pair it was about.  A payload from  *)
(* before the record's first row is in no claim of coverage.               *)
NoSilentLoss ==
  phase \notin {"down", "reporting"} => \A r \in Lost : Claimed(r) => Reported(r)

-----------------------------------------------------------------------------
(* The strengthening under which NoSilentLoss is inductive, where no gap   *)
(* or page becomes durable ahead of the buffer and no kill splits it.      *)
QuietHazards == {"kill", "write_error", "unparsed"}
Orderly ==
  \/ Hazards \subseteq QuietHazards
  \/ /\ Hazards \subseteq QuietHazards \cup {"kill_in_flush"}
     /\ \A f, g \in Frames : f.kind = g.kind

(* Where each row is, and that it is not from the future.                  *)
WhereRowsAre ==
  /\ disk \cup buffered \subseteq taken
  /\ failDisk \subseteq disk
  /\ failures \subseteq disk \cup buffered
  /\ \A r \in taken : r.recv <= now
  /\ \A g \in gaps : g.recv = g.to /\ g.to <= now
  /\ phase = "down" /\ slept => \A t \in Receipts(taken) \cup Receipts(gaps) : t < now

(* What this process did is not before it started; what was lost is.       *)
SinceBoot ==
  phase # "down" =>
    /\ booted <= now
    /\ \A r \in Lost : r.recv < booted
    /\ \A r \in buffered : booted <= r.recv
    /\ \A g \in pending : booted <= g.to /\ g.to <= now

(* Nothing durable is younger than anything held.                          *)
HeldIsNewest ==
  /\ phase \in {"down", "reporting", "gapping"} => buffered = {}
  /\ ~connected => buffered = {}
  /\ phase \notin {"down", "reporting"} => unflushed = Never
  /\ phase = "running" \/ "kill_in_flush" \in Hazards =>
       \A r \in buffered, t \in Durable : t <= r.recv

(* A loss is reported, or is about to be by the window of the next start.  *)
LossIsDated ==
  /\ phase = "down" =>
       \A r \in Lost : Claimed(r) => Reported(r) \/ WindowFrom <= r.recv
  /\ phase = "reporting" =>
       \A r \in Lost : Claimed(r) =>
         \A p \in r.pairs : \E g \in gaps \cup pending :
           g.pair = p /\ g.from <= r.recv /\ r.recv <= g.to

RestartInv == WhereRowsAre /\ SinceBoot /\ HeldIsNewest /\ LossIsDated
=============================================================================
