--------------------------- MODULE AccountHistory ---------------------------
(***************************************************************************)
(* galata-ledger over one account's history: ledger/run.rs (load, walk,    *)
(* events_all, fold_all), ledger/events.rs (identity, History, reach) and  *)
(* ledger/project.rs (one file per kind).  The venue forgets its oldest    *)
(* events by a rule of its own; the process is killed and started again.   *)
(*                                                                         *)
(* An event is its number and its moment; identity is the number.  Ledger  *)
(* updates walk as funding does and are left out.  The clock is taken      *)
(* never to be set back.                                                   *)
(***************************************************************************)
EXTENDS Integers, SequencesExt, FiniteSetsExt

CONSTANTS
  Kinds,       \* EVENT_KINDS, in the order a walk asks them: funding, fills
  Funding, Fills,
  PageSize,    \* rows of a full page
  Hazards,     \* which of HazardNames may happen
  MaxTime, MaxEvents, MaxPasses, MaxFaults   \* bounds: of moments, events of each kind,
               \* passes, disturbances

HazardNames == {"kill", "kill_in_page", "refused", "unread", "forgets_in_walk"}
KindSet == ToSet(Kinds)
ASSUME KindsAssumption == Kinds \in Seq(KindSet) /\ Kinds # <<>>
ASSUME PageAssumption == PageSize \in Nat \ {0}
None == 0                       \* moments are counted from 1

VARIABLES
  moment,
  venue,       \* per kind, what the venue still holds, oldest first
  happened,    \* history: per kind, everything that ever happened
  record,      \* the account's payloads on disk, in the order written
  run,         \* where the process is
  memory,      \* newest, earliest, reached, loaded
  history,     \* History: rows by number, and through
  projected,   \* per kind, the rows of its file
  passes, disturbed

vars == <<moment, venue, happened, record, run, memory, history, projected, passes, disturbed>>

Down == [at |-> "down"]
Idle == [at |-> "idle"]
Blank == [newest |-> [k \in KindSet |-> None], earliest |-> [k \in KindSet |-> None],
          reached |-> {}, loaded |-> FALSE]
NoHistory == [rows |-> {}, through |-> None]

Pages == {record[i] : i \in {j \in DOMAIN record : record[j].what = "page"}}
RowsOf(kind) == UNION {ToSet(p.rows) : p \in {q \in Pages : q.kind = kind}}
Gaps(kind) == {g \in ToSet(record) : g.what = "gap" /\ g.kind = kind}
Verdicts(kind) == {r \in ToSet(record) : r.what = "reach" /\ r.kind = kind}
Moments(rows) == {e.at : e \in rows}

Init ==
  /\ moment = 1
  /\ venue = [k \in KindSet |-> <<>>] /\ happened = [k \in KindSet |-> {}]
  /\ record = <<>> /\ run = Down /\ memory = Blank /\ history = NoHistory
  /\ projected = [k \in KindSet |-> {}]
  /\ passes = 0 /\ disturbed = 0

Disturbed(hazard) ==
  hazard \in Hazards /\ disturbed < MaxFaults /\ disturbed' = disturbed + 1

-----------------------------------------------------------------------------
(* The venue, and time.  Only an ask reads either: they move before the    *)
(* first ask of a pass, and between the pages of a walk.                   *)
EnvironmentsTurn == run.at = "asking" /\ (run.turn = 1 \/ ~run.first)
Tick ==
  /\ EnvironmentsTurn /\ moment < MaxTime
  /\ moment' = moment + 1
  /\ UNCHANGED <<venue, happened, record, run, memory, history, projected, disturbed, passes>>

Happens(kind) ==
  /\ EnvironmentsTurn
  /\ Cardinality(happened[kind]) < MaxEvents[kind]
  /\ LET event == [id |-> Cardinality(happened[kind]) + 1, at |-> moment]
     IN  /\ venue' = [venue EXCEPT ![kind] = Append(@, event)]
         /\ happened' = [happened EXCEPT ![kind] = @ \cup {event}]
  /\ UNCHANGED <<moment, record, run, memory, history, projected, disturbed, passes>>

(* What it still holds fills a page, so that a page past a hole is full.   *)
MidWalk(kind) == Kinds[run.turn] = kind /\ ~run.first
Forgets(kind) ==
  /\ EnvironmentsTurn
  /\ Len(venue[kind]) > PageSize
  /\ MidWalk(kind) => Disturbed("forgets_in_walk")
  /\ ~MidWalk(kind) => UNCHANGED disturbed
  /\ venue' = [venue EXCEPT ![kind] = Tail(@)]
  /\ UNCHANGED <<moment, happened, record, run, memory, history, projected, passes>>

-----------------------------------------------------------------------------
Boot ==
  /\ run = Down
  /\ run' = Idle /\ memory' = Blank /\ history' = NoHistory
  /\ UNCHANGED <<moment, venue, happened, record, projected, disturbed, passes>>

(* load: where each kind resumes, read back from the record, once.         *)
NewestRecorded(kind) == IF RowsOf(kind) = {} THEN None ELSE Max(Moments(RowsOf(kind)))
EarliestRecorded(kind) == IF RowsOf(kind) = {} THEN None ELSE Min(Moments(RowsOf(kind)))
Loaded ==
  IF memory.loaded THEN memory
  ELSE [newest |-> [k \in KindSet |-> NewestRecorded(k)],
        earliest |-> [k \in KindSet |-> EarliestRecorded(k)],
        reached |-> {k \in KindSet : Verdicts(k) # {}}, loaded |-> TRUE]

WalkOf(turn, mem) ==
  [at |-> "asking", turn |-> turn, start |-> mem.newest[Kinds[turn]],
   recorded |-> mem.newest[Kinds[turn]], first |-> TRUE, page |-> <<>>]
(* The next kind's walk, or the reaches.                                   *)
AfterWalk(mem) ==
  IF run.turn < Len(Kinds) THEN WalkOf(run.turn + 1, mem)
  ELSE [at |-> "judging", turn |-> 1]

BeginPass ==
  /\ run = Idle /\ passes < MaxPasses /\ passes' = passes + 1
  /\ memory' = Loaded
  /\ run' = WalkOf(1, Loaded)
  /\ UNCHANGED <<moment, venue, happened, record, history, projected, disturbed>>

(* events_page and record_page: durable before anything looks at it.  The  *)
(* venue answers with the oldest it holds from the start on, a page of it. *)
Kind == Kinds[run.turn]
Answers(kind, start) ==
  LET held == venue[kind]
  IN  {SubSeq(held, i, IF Len(held) < i + PageSize THEN Len(held) ELSE i + PageSize - 1) :
         i \in {j \in 1 .. Len(held) + 1 : \A l \in DOMAIN held : held[l].at >= start <=> l >= j}}

AskPage ==
  /\ run.at = "asking"
  /\ \E page \in Answers(Kind, run.start) :
         /\ record' = Append(record, [what |-> "page", kind |-> Kind, recv |-> moment,
                                      rows |-> page])
         /\ run' = IF page = <<>> THEN AfterWalk(memory)
                   ELSE [run EXCEPT !.at = "took", !.page = page]
  /\ UNCHANGED <<moment, venue, happened, memory, history, projected, disturbed, passes>>

AskRefused ==
  /\ run.at = "asking" /\ Disturbed("refused")
  /\ run' = AfterWalk(memory)
  /\ UNCHANGED <<moment, venue, happened, record, memory, history, projected, passes>>

PageFull == Len(run.page) >= PageSize
BeyondReachNever == FALSE            \* mutant: a full page that starts late says nothing
BeyondReach == PageFull /\ Head(run.page).at > run.recorded

(* Whether the page starts beyond what was recorded, on the first page of  *)
(* a walk; then newest and earliest; then whether the walk goes on.        *)
Noted ==
  LET first == Head(run.page).at
      last == Last(run.page).at
      mem == [memory EXCEPT
                !.newest[Kind] = Max({@, last}),
                !.earliest[Kind] = IF @ = None THEN first ELSE Min({@, first})]
  IN  /\ memory' = [mem EXCEPT !.reached = @ \cup (IF run.at = "lost" THEN {Kind} ELSE {})]
      /\ run' = IF ~PageFull \/ last <= run.start THEN AfterWalk(mem)
                ELSE [run EXCEPT !.at = "asking", !.start = last, !.first = FALSE]

TakePage ==
  /\ run.at = "took"
  /\ IF run.first /\ run.recorded # None /\ BeyondReach
     THEN /\ record' = Append(record, [what |-> "gap", kind |-> Kind, from |-> run.recorded,
                                       to |-> Head(run.page).at])
          /\ run' = [run EXCEPT !.at = "lost"]
          /\ UNCHANGED memory
     ELSE Noted /\ UNCHANGED record
  /\ UNCHANGED <<moment, venue, happened, history, projected, disturbed, passes>>

RecordLost ==
  /\ run.at = "lost"
  /\ record' = Append(record, [what |-> "reach", kind |-> Kind, reach |-> "lost"])
  /\ Noted
  /\ UNCHANGED <<moment, venue, happened, history, projected, disturbed, passes>>

(* Each kind's reach, once: fills by the evidence of funding.  Unknown is  *)
(* not recorded.                                                           *)
Evidence(kind) == memory.earliest[kind]
FillsReach ==
  CASE Evidence(Fills) # None /\ Evidence(Funding) # None /\ Evidence(Funding) < Evidence(Fills)
         -> "lost"
    [] Evidence(Fills) = None /\ Evidence(Funding) # None -> "lost"
    [] Evidence(Fills) # None
         /\ ~(Evidence(Funding) # None /\ Evidence(Funding) < Evidence(Fills)) -> "consistent"
    [] OTHER -> "unknown"
ReachOf(kind) ==
  IF kind = Fills THEN FillsReach
  ELSE IF Evidence(kind) # None THEN "consistent" ELSE "unknown"

ToJudgeAgain == TRUE                 \* mutant: judged on every pass
ToJudge == Kind \notin memory.reached
Judge ==
  /\ run.at = "judging"
  /\ run' = IF run.turn < Len(Kinds) THEN [run EXCEPT !.turn = @ + 1] ELSE [at |-> "folding"]
  /\ IF ToJudge /\ ReachOf(Kind) # "unknown"
     THEN /\ record' = Append(record, [what |-> "reach", kind |-> Kind, reach |-> ReachOf(Kind)])
          /\ memory' = [memory EXCEPT !.reached = @ \cup {Kind}]
     ELSE UNCHANGED <<record, memory>>
  /\ UNCHANGED <<moment, venue, happened, history, projected, disturbed, passes>>

(* History::extend: receipts from the newest read on, itself included; one *)
(* row for each identity.                                                  *)
SinceExclusive(p) == p.recv > history.through   \* mutant: a shared microsecond is skipped
Since(p) == p.recv >= history.through
Extended ==
  LET read == {p \in Pages : Since(p)}
  IN  [rows |-> history.rows \cup
                  UNION {{[kind |-> p.kind, id |-> e.id] : e \in ToSet(p.rows)} : p \in read},
       through |-> IF read = {} THEN history.through
                   ELSE Max({p.recv : p \in read} \cup {history.through})]

Fold ==
  /\ run.at = "folding"
  /\ history' = Extended
  /\ run' = [at |-> "projecting"]
  /\ UNCHANGED <<moment, venue, happened, record, memory, projected, disturbed, passes>>

(* A segment that will not read: the account is left out of this report,   *)
(* and neither its history nor its files change.                           *)
FoldUnread ==
  /\ run.at = "folding" /\ Disturbed("unread")
  /\ run' = Idle
  /\ UNCHANGED <<moment, venue, happened, record, memory, history, projected, passes>>

(* One file after the other, each replaced whole; the first that will not  *)
(* write leaves the rest as they were.                                     *)
Rows(kind) == {r.id : r \in {x \in history.rows : x.kind = kind}}
Project ==
  /\ run.at = "projecting"
  /\ \E written \in 0 .. Len(Kinds) :
       /\ IF written = Len(Kinds) THEN UNCHANGED disturbed ELSE Disturbed("unread")
       /\ projected' = [k \in KindSet |->
            IF \E i \in 1 .. written : Kinds[i] = k THEN Rows(k) ELSE projected[k]]
  /\ run' = Idle
  /\ UNCHANGED <<moment, venue, happened, record, memory, history, passes>>

Kill ==
  /\ run # Down
  /\ Disturbed(IF run.at \in {"took", "lost"} THEN "kill_in_page" ELSE "kill")
  /\ run' = Down /\ memory' = Blank /\ history' = NoHistory
  /\ UNCHANGED <<moment, venue, happened, record, projected, passes>>

Next ==
  \/ Tick \/ \E k \in KindSet : Happens(k) \/ Forgets(k)
  \/ Boot \/ BeginPass \/ AskPage \/ AskRefused \/ TakePage \/ RecordLost
  \/ Judge \/ Fold \/ FoldUnread \/ Project
  \/ Kill
Spec == Init /\ [][Next]_vars

-----------------------------------------------------------------------------
(* events.rs, beyond_reach: what the venue no longer holds between two     *)
(* recorded events is in a gap, across refused asks, restarts and walks of *)
(* several pages.  Of a page just recorded the gap is still to come.  Of a *)
(* moment that something is recorded of no gap is due: "a page that starts *)
(* at our newest reaches it".                                              *)
HolesAreDated ==
  run.at # "took" =>
    \A k \in KindSet : \A e \in happened[k] : \A f, g \in RowsOf(k) :
      f.at < e.at /\ e.at < g.at =>
        \/ e.at \in Moments(RowsOf(k))
        \/ \E gap \in Gaps(k) : gap.from <= e.at /\ e.at <= gap.to

(* History: extended pass by pass, it is what a read of the whole record   *)
(* would give, one row for each identity, and so is what is projected.     *)
FoldIsTheRecord ==
  run.at = "projecting" =>
    history.rows = UNION {{[kind |-> k, id |-> e.id] : e \in RowsOf(k)} : k \in KindSet}

(* run.rs, walk and events_all: once a history was found lost nothing      *)
(* recorded later calls it consistent.                                     *)
LostStaysLost ==
  \A i, j \in DOMAIN record :
    /\ i < j /\ record[i].what = "reach" /\ record[j].what = "reach"
    /\ record[i].kind = record[j].kind /\ record[i].reach = "lost"
    => record[j].reach = "lost"

(* event.rs, Reach::Consistent: "Nothing in the record contradicts the     *)
(* history".  An observation no run checks: it fails where the walk of     *)
(* funding is refused in the pass that judges fills.                       *)
NothingContradicts ==
  \A r \in Verdicts(Fills) : r.reach = "consistent" =>
    EarliestRecorded(Funding) = None \/ EarliestRecorded(Fills) <= EarliestRecorded(Funding)
=============================================================================
