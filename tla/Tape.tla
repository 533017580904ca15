-------------------------------- MODULE Tape --------------------------------
(***************************************************************************)
(* The tape: rows derived from the archive, one segment per (dataset, date *)
(* of the event, venue, receipt day), rewritten by galata-tape-rebuild     *)
(* while capture appends, galata-retain expires whole days and readers     *)
(* take bounded views without a hold.                                      *)
(*                                                                         *)
(* A payload is its sequence, venue, receipt day and the rows it           *)
(* normalises to; a day is a number.  A segment's path is the part of it   *)
(* that names it; whose rows it holds is a label.  Where the order of a    *)
(* loop cannot matter (removals, a reader's segments) any order is taken.  *)
(***************************************************************************)
EXTENDS Integers, FiniteSetsExt, SequencesExt

CONSTANTS
  VenueOrder,   \* the venues the configuration declares, in its order
  Flow, Hand,   \* the scheduled rebuild, and one an operator starts
  Scopes,       \* what readers declare: sets of datasets
  Sent,         \* what is received, in order: [venue, carries], a set of
                \* [kind, back] for each, back being days before the receipt
  Trailing,     \* closed days a scheduled rebuild reads
  KeepArchive, KeepTape,  \* declared horizons, in days
  Unlabelled,   \* segments a build before the labels may have left
  LastDay, MaxFaults   \* bounds: of days, of disturbances

Venues == ToSet(VenueOrder)
Jobs == {Flow, Hand}
NoVenue == "unlabelled"
Path(s) == [kind |-> s.kind, date |-> s.date, first |-> s.first, last |-> s.last]

ASSUME SentAssumption ==
  /\ DOMAIN Sent \subseteq Nat
  /\ \A i \in DOMAIN Sent : /\ Sent[i].venue # NoVenue
                           /\ \A c \in Sent[i].carries : c.back \in Nat
ASSUME UnlabelledAssumption ==
  /\ \A s \in Unlabelled : s.venue = NoVenue /\ s.date \in Int
  /\ \A s, t \in Unlabelled : Path(s) = Path(t) => s = t
ASSUME DaysAssumption ==
  /\ Trailing \in Nat /\ KeepArchive \in Nat /\ KeepTape \in Nat
  /\ LastDay \in Nat /\ MaxFaults \in Nat

VARIABLES
  today,
  next,       \* the sequence of the next payload
  archive,    \* payloads, durable
  tape,       \* segments
  job,        \* the rebuild processes; what holds they have follows from where they are
  turn,       \* the scheduled flow: the venue it comes to next
  sweep,      \* galata-retain: directories still to remove, or Idle
  reader,     \* a reader's view
  faults

vars == <<today, next, archive, tape, job, turn, sweep, reader, faults>>

Idle == [at |-> "idle"]
NoRun == [at |-> "idle", venue |-> NoVenue, from |-> 0, to |-> 0, days |-> {}, labelled |-> {},
          ours |-> {}, derived |-> {}, todo |-> {}, now |-> {}, written |-> {}, doomed |-> {}]

RowsOf(s) == {[venue |-> s.venue, seq |-> q, kind |-> s.kind, date |-> s.date] : q \in s.seqs}
Rows(segments) == UNION {RowsOf(s) : s \in segments}
Derived(p) ==
  {[venue |-> p.venue, seq |-> p.seq, kind |-> c.kind, date |-> p.day - c.back] : c \in p.carries}
DerivedFrom(payloads) == UNION {Derived(p) : p \in payloads}

(* group: one segment per partition, venue and receipt day.                *)
Group(payloads, venue, day) ==
  LET Seqs(k, d) == {r.seq : r \in {x \in DerivedFrom(payloads) : x.kind = k /\ x.date = d}}
  IN  {[kind |-> r.kind, date |-> r.date,
        first |-> Min(Seqs(r.kind, r.date)), last |-> Max(Seqs(r.kind, r.date)),
        venue |-> venue, src |-> day, seqs |-> Seqs(r.kind, r.date)] :
          r \in DerivedFrom(payloads)}

Init ==
  /\ today = 1 /\ next = 1 /\ archive = {}
  /\ tape \in {{}, Unlabelled}
  /\ job = [j \in Jobs |-> NoRun]
  /\ turn = 1 /\ sweep = Idle /\ reader = Idle /\ faults = 0

Disturbed == faults < MaxFaults /\ faults' = faults + 1

-----------------------------------------------------------------------------
(* Capture: a flush makes a payload durable under today.  A payload may    *)
(* carry a price the tape's column cannot hold.                            *)
Receive ==
  /\ next \in DOMAIN Sent
  /\ \E bad \in BOOLEAN :
       /\ IF bad THEN Disturbed ELSE UNCHANGED faults
       /\ archive' = archive \cup
            {[seq |-> next, venue |-> Sent[next].venue, day |-> today,
              carries |-> Sent[next].carries, bad |-> bad]}
  /\ next' = next + 1
  /\ UNCHANGED <<today, tape, job, turn, sweep, reader>>

NextDay ==
  /\ today < LastDay
  /\ today' = today + 1
  /\ UNCHANGED <<next, archive, tape, job, turn, sweep, reader, faults>>

-----------------------------------------------------------------------------
(* galata-tape-rebuild --replace, over the closed days before today and    *)
(* today so far.  Holds: shared on the archive, then exclusive on the      *)
(* tape, each waited for; the operating system drops them with the process.*)
ReadsArchive(j) == job[j].at \notin {"idle", "archive"}
WritesTape(j) == ReadsArchive(j) /\ job[j].at # "tape"
Sweeping == sweep.at # "idle"

Goes(j, to) == job' = [job EXCEPT ![j] = to]
At(j, place) == job[j].at = place
UnchangedByJob == UNCHANGED <<today, next, archive, turn, sweep, reader>>

StartedClosedOnly(v) ==              \* mutant: the window ends before today
  [NoRun EXCEPT !.at = "archive", !.venue = v, !.from = today - Trailing, !.to = today]
Started(v) ==
  [NoRun EXCEPT !.at = "archive", !.venue = v, !.from = today - Trailing, !.to = today + 1]

StartScheduled ==
  /\ At(Flow, "idle")
  /\ Goes(Flow, Started(VenueOrder[turn]))
  /\ turn' = (turn % Len(VenueOrder)) + 1
  /\ UNCHANGED <<today, next, archive, tape, sweep, reader, faults>>

(* Bound: no view is open while an operator's rebuild runs.                *)
NoView == reader = Idle
NoHand == At(Hand, "idle")

StartByHand ==
  /\ NoHand /\ NoView /\ Disturbed
  /\ \E v \in Venues : Goes(Hand, Started(v))
  /\ UNCHANGED <<tape>> /\ UnchangedByJob

HoldArchive(j) ==
  /\ At(j, "archive") /\ ~Sweeping
  /\ Goes(j, [job[j] EXCEPT !.at = "tape"])
  /\ UNCHANGED <<tape, faults>> /\ UnchangedByJob

TapeIsFree(j) == ~Sweeping /\ \A other \in Jobs \ {j} : ~WritesTape(other)
HoldTape(j) ==
  /\ At(j, "tape") /\ TapeIsFree(j)
  /\ Goes(j, [job[j] EXCEPT !.at = "plan"])
  /\ UNCHANGED <<tape, faults>> /\ UnchangedByJob

(* Patience ends: whoever holds the root is stuck, and the run refuses.    *)
WaitedTooLong(j) ==
  /\ At(j, "archive") \/ At(j, "tape")
  /\ Disturbed
  /\ Goes(j, NoRun)
  /\ UNCHANGED tape /\ UnchangedByJob

DaysOf(run) ==
  {p.day : p \in {q \in archive : q.venue = run.venue /\ run.from <= q.day /\ q.day < run.to}}

PlanAndRemove(j) ==                  \* mutant: removed before, as its doc still says
  /\ At(j, "plan")
  /\ Goes(j, [job[j] EXCEPT !.at = "day", !.days = DaysOf(job[j])])
  /\ tape' = {s \in tape : \/ s.venue # job[j].venue
                            \/ s.src < job[j].from \/ s.src >= job[j].to}
  /\ UNCHANGED faults /\ UnchangedByJob

(* plan: every segment's labels, before anything is written; a segment     *)
(* without them is a refusal.                                              *)
Plan(j) ==
  /\ At(j, "plan")
  /\ IF \E s \in tape : s.venue = NoVenue
     THEN Goes(j, NoRun)
     ELSE Goes(j, [job[j] EXCEPT !.at = "day", !.days = DaysOf(job[j]),
                     !.labelled = {[path |-> Path(s), venue |-> s.venue, src |-> s.src] :
                                     s \in tape}])
  /\ UNCHANGED <<tape, faults>> /\ UnchangedByJob

(* remove_doomed: which planned segments a replacement of [from, to) owns. *)
DoomedByPartition(run, to) ==        \* mutant: Replace::Partitions, as it once was
  {l.path : l \in {x \in run.labelled :
     /\ x.venue \in run.ours
     /\ \E p \in run.written : p.kind = x.path.kind /\ p.date = x.path.date}}
DoomedShort(run, to) ==              \* mutant: the range's last day is left out
  {l.path : l \in {x \in run.labelled :
     x.venue \in run.ours /\ run.from <= x.src /\ x.src + 1 < to}} \ run.written
Doomed(run, to) ==
  {l.path : l \in {x \in run.labelled :
     x.venue \in run.ours /\ run.from <= x.src /\ x.src < to}} \ run.written

(* A run that ends by removing what the days before this one replaced.     *)
Tidies(j, run, day) == Goes(j, [NoRun EXCEPT !.at = "tidy", !.doomed = Doomed(run, day)])

(* One receipt day: read from a listing made up front, and every batch     *)
(* built before any is written.  A payload no batch can hold refuses the   *)
(* day with nothing of it written.                                         *)
ReadDay(j) ==
  /\ At(j, "day") /\ job[j].days # {}
  /\ LET day == Min(job[j].days)
         read == {p \in archive : p.venue = job[j].venue /\ p.day = day}
         ours == job[j].ours \cup {r.venue : r \in DerivedFrom(read)}
     IN  IF \E p \in read : p.bad
         THEN Tidies(j, [job[j] EXCEPT !.ours = ours], day)
         ELSE Goes(j, [job[j] EXCEPT !.at = "write", !.ours = ours,
                         !.derived = @ \cup DerivedFrom(read),
                         !.todo = Group(read, job[j].venue, day)])
  /\ UNCHANGED <<tape, faults>> /\ UnchangedByJob

(* A segment of the archive does not read: the run ends there, and removes *)
(* nothing.                                                                *)
ReadFails(j) ==
  /\ At(j, "day") /\ job[j].days # {}
  /\ Disturbed
  /\ Goes(j, NoRun)
  /\ UNCHANGED tape /\ UnchangedByJob

(* write_segment_labelled: a rename, over the segment of that name if any. *)
(* In path order: of a dataset the earlier date first; which dataset goes  *)
(* first is any.                                                           *)
WriteSegment(j) ==
  /\ At(j, "write")
  /\ \E segment \in job[j].todo :
       /\ \A s \in job[j].todo : s.kind = segment.kind => segment.date <= s.date
       /\ tape' = {s \in tape : Path(s) # Path(segment)} \cup {segment}
       /\ Goes(j, [job[j] EXCEPT !.todo = @ \ {segment}, !.now = @ \cup {Path(segment)}])
  /\ UNCHANGED faults /\ UnchangedByJob

(* The days before are whole, and what they replaced is removed; what of   *)
(* this day was written stays beside what it was to replace.               *)
WriteFails(j) ==
  /\ At(j, "write") /\ job[j].todo # {}
  /\ Disturbed
  /\ Tidies(j, job[j], Min(job[j].days))
  /\ UNCHANGED tape /\ UnchangedByJob

DayCommitted(j) ==
  /\ At(j, "write") /\ job[j].todo = {}
  /\ Goes(j, [job[j] EXCEPT !.at = "day", !.days = @ \ {Min(@)},
                            !.written = @ \cup job[j].now, !.now = {}])
  /\ UNCHANGED <<tape, faults>> /\ UnchangedByJob

(* Every day of the range is written: what they replaced can go.           *)
AllDaysCommitted(j) ==
  /\ At(j, "day") /\ job[j].days = {}
  /\ IF job[j].derived = {} THEN Goes(j, NoRun)
     ELSE Goes(j, [job[j] EXCEPT !.at = "remove", !.doomed = Doomed(job[j], job[j].to)])
  /\ UNCHANGED <<tape, faults>> /\ UnchangedByJob

Unlink(j) ==
  /\ job[j].at \in {"remove", "tidy"}
  /\ \E path \in job[j].doomed :
       /\ tape' = {s \in tape : Path(s) # path}
       /\ Goes(j, [job[j] EXCEPT !.doomed = @ \ {path}])
  /\ UNCHANGED faults /\ UnchangedByJob

UnlinkFails(j) ==
  /\ job[j].at \in {"remove", "tidy"} /\ job[j].doomed # {}
  /\ Disturbed
  /\ Goes(j, NoRun)
  /\ UNCHANGED tape /\ UnchangedByJob

Tidied(j) ==
  /\ At(j, "tidy") /\ job[j].doomed = {}
  /\ Goes(j, NoRun)
  /\ UNCHANGED <<tape, faults>> /\ UnchangedByJob

Removed(j) ==
  /\ At(j, "remove") /\ job[j].doomed = {}
  /\ Goes(j, [job[j] EXCEPT !.at = "check"])
  /\ UNCHANGED <<tape, faults>> /\ UnchangedByJob

(* check_layout: two segments of one venue in a partition whose ranges     *)
(* intersect.  It decides only what the process reports.                   *)
OverlapAnyVenue(s, t) ==             \* mutant: ranges compared across venues
  /\ s # t /\ s.kind = t.kind /\ s.date = t.date
  /\ s.first <= t.last /\ t.first <= s.last
Overlap(s, t) ==
  /\ s # t /\ s.kind = t.kind /\ s.date = t.date /\ s.venue = t.venue
  /\ s.first <= t.last /\ t.first <= s.last
Labelled == {s \in tape : s.venue # NoVenue}
Overlapping == \E s, t \in Labelled : Overlap(s, t)

Checked(j) ==
  /\ At(j, "check")
  /\ Goes(j, NoRun)
  /\ UNCHANGED <<tape, faults>> /\ UnchangedByJob

Kill(j) ==
  /\ ~At(j, "idle") /\ Disturbed
  /\ Goes(j, NoRun)
  /\ UNCHANGED tape /\ UnchangedByJob

-----------------------------------------------------------------------------
(* galata-retain --delete: whole dated directories past their declared     *)
(* horizon, listed once under both holds taken without waiting.            *)
Expired(day, keep) == day + 1 <= today - keep
ExpiredDirs ==
  {[store |-> "archive", venue |-> p.venue, day |-> p.day] :
     p \in {q \in archive : Expired(q.day, KeepArchive)}}
  \cup {[store |-> "tape", kind |-> s.kind, date |-> s.date] :
     s \in {t \in tape : Expired(t.date, KeepTape)}}

UnchangedBySweep == UNCHANGED <<today, next, job, turn, reader>>

StartSweep ==
  /\ ~Sweeping /\ \A j \in Jobs : ~ReadsArchive(j)
  /\ ExpiredDirs # {}
  /\ sweep' = [at |-> "remove", dirs |-> ExpiredDirs]
  /\ UNCHANGED <<archive, tape, faults>> /\ UnchangedBySweep

RemoveDir ==
  /\ Sweeping
  /\ \E d \in sweep.dirs :
       /\ sweep' = [sweep EXCEPT !.dirs = @ \ {d}]
       /\ IF d.store = "archive"
          THEN /\ archive' = {p \in archive : p.venue # d.venue \/ p.day # d.day}
               /\ UNCHANGED tape
          ELSE /\ tape' = {s \in tape : s.kind # d.kind \/ s.date # d.date}
               /\ UNCHANGED archive
  /\ UNCHANGED faults /\ UnchangedBySweep

(* One that will not go is left, and the rest still go.                    *)
RemoveDirFails ==
  /\ Sweeping /\ Disturbed
  /\ \E d \in sweep.dirs : sweep' = [sweep EXCEPT !.dirs = @ \ {d}]
  /\ UNCHANGED <<archive, tape>> /\ UnchangedBySweep

SweepEnds ==
  /\ Sweeping
  /\ IF sweep.dirs = {} THEN UNCHANGED faults ELSE Disturbed    \* killed
  /\ sweep' = Idle
  /\ UNCHANGED <<archive, tape>> /\ UnchangedBySweep

-----------------------------------------------------------------------------
(* The reader: a bound from the listing, then a view, segment by segment,  *)
(* of what the window selects and the bound permits.  The window here is   *)
(* one dataset, every date and every ticker.                               *)
SegmentsIn(kind) == {s \in tape : s.kind = kind}
SegmentsOf(kind, v) == {s \in SegmentsIn(kind) : s.venue = v}
FrontierOf(kind, v) == Max({s.last : s \in SegmentsOf(kind, v)})

VenuesSeen(scopes) == UNION {{s.venue : s \in SegmentsIn(k)} : k \in scopes}
HasBound(scopes) ==
  /\ \A k \in scopes : SegmentsIn(k) # {}
  /\ \A k \in scopes : \A v \in VenuesSeen(scopes) : SegmentsOf(k, v) # {}
BoundOf(scopes) ==
  [v \in VenuesSeen(scopes) |-> Min({FrontierOf(k, v) : k \in scopes})]

Permitted(row, bound) == row.venue \in DOMAIN bound /\ row.seq <= bound[row.venue]

UnchangedByReader == UNCHANGED <<today, next, archive, tape, job, turn, sweep, faults>>

(* Reader::open, and the listing of the dates the view will go through.    *)
OpenReader ==
  /\ NoView /\ NoHand
  /\ \E scopes \in Scopes :
       /\ HasBound(scopes) /\ NoVenue \notin VenuesSeen(scopes)
       /\ \E kind \in scopes :
            reader' = [at |-> "list", scopes |-> scopes, kind |-> kind, bound |-> BoundOf(scopes),
                       dates |-> {s.date : s \in SegmentsIn(kind)}, segments |-> {}, got |-> {},
                       begun |-> {r \in Rows(SegmentsIn(kind)) : Permitted(r, BoundOf(scopes))}]
  /\ UnchangedByReader

ListPartition ==
  /\ reader.at = "list" /\ reader.segments = {}
  /\ \E d \in reader.dates :
       reader' = [reader EXCEPT !.dates = @ \ {d},
                                !.segments = {Path(s) : s \in {t \in SegmentsIn(reader.kind) :
                                                                 t.date = d}}]
  /\ UnchangedByReader

(* A segment whose name is past its venue's bound is not read; one that    *)
(* was unlinked since the listing ends the view with an error.             *)
ReadSegment ==
  /\ reader.at = "list"
  /\ \E path \in reader.segments :
       LET there == {s \in tape : Path(s) = path}
       IN  reader' = IF there = {} THEN Idle
                     ELSE [reader EXCEPT !.segments = @ \ {path},
                             !.got = @ \cup {r \in Rows(there) : Permitted(r, reader.bound)}]
  /\ UnchangedByReader

ViewTaken ==
  /\ reader.at = "list" /\ reader.dates = {} /\ reader.segments = {}
  /\ reader' = [reader EXCEPT !.at = "taken"]
  /\ UnchangedByReader

CloseReader ==
  /\ reader.at = "taken"
  /\ reader' = Idle
  /\ UnchangedByReader

-----------------------------------------------------------------------------
JobStep(j) ==
  \/ HoldArchive(j) \/ HoldTape(j) \/ Plan(j)
  \/ ReadDay(j) \/ WriteSegment(j) \/ DayCommitted(j) \/ AllDaysCommitted(j)
  \/ Unlink(j) \/ Tidied(j) \/ Removed(j) \/ Checked(j)
JobDisturbed(j) ==
  WaitedTooLong(j) \/ ReadFails(j) \/ WriteFails(j) \/ UnlinkFails(j) \/ Kill(j)
SweepStep == RemoveDir \/ SweepEnds
ReaderStep == OpenReader \/ ListPartition \/ ReadSegment \/ ViewTaken \/ CloseReader

Next ==
  \/ Receive \/ NextDay
  \/ StartScheduled \/ StartByHand
  \/ \E j \in Jobs : JobStep(j) \/ JobDisturbed(j)
  \/ StartSweep \/ SweepStep \/ RemoveDirFails
  \/ ReaderStep

(* The scheduler starts the flow again and again; a process that runs goes *)
(* on; a wait for a hold polls.                                            *)
Spec ==
  /\ Init /\ [][Next]_vars
  /\ WF_vars(StartScheduled)
  /\ \A j \in Jobs : WF_vars(JobStep(j))
  /\ WF_vars(SweepStep)

-----------------------------------------------------------------------------
Projection == DerivedFrom(archive)
Once(segments) == \A s, t \in segments : s # t => RowsOf(s) \cap RowsOf(t) = {}

(* rebuild_with: written first, removed after, and only this run's.  A row *)
(* the archive can still produce never leaves the tape but by retention,   *)
(* whatever is killed, fails or runs beside it.                            *)
RowsStay ==
  [][\A r \in Rows(tape) \cap Projection' :
       r \in Rows(tape') \/ (Sweeping /\ Expired(r.date, KeepTape))]_vars

(* Reader::view takes no hold: a view that was taken has every permitted   *)
(* row that was there when it began and is there when it ends, of dates    *)
(* retention leaves alone.                                                 *)
NeverNeither ==
  reader.at = "taken" =>
    {r \in reader.begun \cap Rows(SegmentsIn(reader.kind)) : ~Expired(r.date, KeepTape)}
      \subseteq reader.got

(* --replace: however earlier runs ended, a run that comes to its check    *)
(* has left of its venue's receipt days what it read, each row once.       *)
ReplacedWhenDone ==
  \A j \in Jobs : At(j, "check") =>
    LET mine == {s \in tape : /\ s.venue = job[j].venue
                              /\ job[j].from <= s.src /\ s.src < job[j].to}
    IN  Rows(mine) = job[j].derived /\ Once(mine)

(* check_layout: it complains when a row is on the tape twice, and of      *)
(* nothing else; two venues numbered from different boots do not overlap.  *)
OverlapMeansTwice == Overlapping <=> ~Once(Labelled)

(* The hourly window: whatever failed before, what was received within it  *)
(* comes to be on the tape, once, when no payload is refused.              *)
InWindow(v) ==
  {r \in DerivedFrom({p \in archive : p.venue = v /\ p.day >= today - Trailing}) :
     ~Expired(r.date, KeepTape)}
Projectable == \A p \in archive : ~p.bad
Projected ==
  [](\A s \in tape : s.venue # NoVenue) /\ []Projectable =>
    <>[](/\ \A v \in Venues : InWindow(v) \subseteq Rows(tape))

(* tape/reader.rs: "The maximum would claim coverage for a range some scope *)
(* has not written, so a view taken at it is complete for one scope and    *)
(* holed for another": so one taken at the minimum is holed for none.      *)
BoundIsComplete ==
  \A scopes \in Scopes : HasBound(scopes) =>
    \A r \in Projection :
      r.kind \in scopes /\ Permitted(r, BoundOf(scopes)) => r \in Rows(tape)
=============================================================================
