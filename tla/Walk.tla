--------------------------------- MODULE Walk ---------------------------------
(***************************************************************************)
(* The walk of a boot: where history is resumed from, the requests that    *)
(* cover it, and what the walk says it covered (capture/walk.rs;           *)
(* Capture::walk and below it in capture/run.rs; boot.rs).  One series at  *)
(* its live width.                                                         *)
(*                                                                         *)
(* A bar opens at every tick; the record keeps a bar with the moment it    *)
(* was received, and resumes from the newest receipt.  The walk takes no   *)
(* time: the live loop dates the minute it really takes (StreamSession).   *)
(***************************************************************************)
EXTENDS Integers, SequencesExt, FiniteSetsExt

CONSTANTS
  Instruments,
  Listed,      \* instrument -> its first bar
  PageRows, Overlap, ColdStart, ThrottleRetries,
  Caps, Reaches,        \* what the operator and the venue may declare
  FirstBoot, MaxTime,   \* bounds of time
  Hazards,     \* which of HazardNames may happen
  MaxFaults    \* bound

HazardNames == {"kill", "refused", "throttled"}

InstrumentsAssumption == IsFiniteSet(Instruments) /\ Listed \in [Instruments -> Int]
(* A page is wider than the overlap, or a plan would not advance.          *)
PagesAssumption ==
  /\ Overlap \in Nat \ {0} /\ PageRows \in Nat /\ PageRows > Overlap
  /\ ColdStart \in Nat \ {0} /\ Reaches \subseteq Nat \ {0} /\ Caps \subseteq Nat \ {0}
  /\ FirstBoot \in Nat

VARIABLES
  now,
  setup,       \* [cap, reach, forward, edges]: fixed, and the venue's ways
  durable,     \* [instrument, bar, recv]
  walker,      \* the process
  outcomes,    \* history: what finished walks reported
  cold,        \* history: what the cold start set out to cover
  faults

vars == <<now, setup, durable, walker, outcomes, cold, faults>>

Down == [at |-> "down"]
Live == [at |-> "live"]
Page(instrument, bars) == {[instrument |-> instrument, bar |-> b, recv |-> now] : b \in bars}

(* A venue holds both edges of a range, or one of them, or neither.        *)
Init ==
  /\ now = FirstBoot
  /\ setup \in [cap : Caps, reach : Reaches, forward : BOOLEAN, edges : SUBSET {"from", "to"}]
  /\ durable = {} /\ walker = Down /\ outcomes = {}
  /\ cold = [from |-> now, to |-> now] /\ faults = 0

Strikes(hazard) == hazard \in Hazards /\ faults < MaxFaults /\ faults' = faults + 1

(* Live, what opens is received and durable; down, it is not.              *)
Tick ==
  /\ walker.at \in {"down", "live"} /\ now < MaxTime
  /\ now' = now + 1
  /\ durable' = IF walker = Live
                THEN durable \cup {[instrument |-> i, bar |-> now, recv |-> now + 1]
                                     : i \in {j \in Instruments : Listed[j] <= now}}
                ELSE durable
  /\ UNCHANGED <<setup, walker, outcomes, cold, faults>>

-----------------------------------------------------------------------------
Later(a, b) == IF a > b THEN a ELSE b
Sooner(a, b) == IF a < b THEN a ELSE b

(* Walk::resume_from and ask.                                              *)
ResumeFrom ==
  IF durable = {} THEN now - ColdStart
  ELSE Later(Max({r.recv : r \in durable}) - Overlap, now - ColdStart)
AskFrom == Later(ResumeFrom, now - setup.reach)

(* Walk::plan: spans of a page, each overlapping the one before, and no    *)
(* more of them than the cap.                                              *)
StepFromAbutting(from, n) == from + n * PageRows + 1     \* mutant: past the edge of the one before
StepFrom(from, n) == from + n * (PageRows - Overlap)
StepTo(from, n) == Sooner(StepFrom(from, n) + PageRows, now)
PlanLength(from) ==
  IF from >= now THEN 0
  ELSE Sooner(setup.cap, CHOOSE n \in 1 .. now + ColdStart :
                /\ StepTo(from, n - 1) >= now
                /\ \A k \in 1 .. n - 1 : StepTo(from, k - 1) < now)
Steps(from) ==
  [k \in 1 .. PlanLength(from) |-> [from |-> StepFrom(from, k - 1), to |-> StepTo(from, k - 1)]]

(* walk_steps asks every instrument at every step; walk_forward pages each *)
(* instrument to its end.                                                  *)
Order == SetToSeq(Instruments)
Requests(from) ==
  LET count == Cardinality(Instruments)
      steps == Steps(from)
  IN  IF setup.forward
      THEN [n \in 1 .. count |-> [instrument |-> Order[n], from |-> from, to |-> now]]
      ELSE [n \in 1 .. PlanLength(from) * count |->
              LET step == steps[1 + ((n - 1) \div count)]
              IN  [instrument |-> Order[1 + ((n - 1) % count)], from |-> step.from, to |-> step.to]]
Boot ==
  /\ walker = Down
  /\ walker' = [at |-> "walking", from |-> AskFrom, left |-> Requests(AskFrom),
                pages |-> 0, retries |-> 0, capped |-> FALSE, heres |-> {now}, failed |-> {}]
  /\ cold' = IF durable = {} THEN [from |-> AskFrom, to |-> now] ELSE cold
  /\ UNCHANGED <<now, setup, durable, outcomes, faults>>

-----------------------------------------------------------------------------
(* The venue: the rows of a range, at most a page of them, the most recent *)
(* or, paging forward, the oldest.                                         *)
Request == Head(walker.left)
Rows(request) ==
  {b \in Listed[request.instrument] .. now - 1 :
     /\ request.from <= b /\ b <= request.to
     /\ b = request.from /\ ~setup.forward => "from" \in setup.edges
     /\ b = request.to => "to" \in setup.edges}
Answer(request) ==
  {b \in Rows(request) :
     Cardinality({c \in Rows(request) : IF setup.forward THEN c < b ELSE c > b}) < PageRows}

Asking == walker.at = "walking" /\ walker.left # <<>>
Capped == setup.forward /\ walker.pages >= setup.cap
NextInstrument(here) ==
  [walker EXCEPT !.left = Tail(@), !.pages = 0, !.retries = 0, !.heres = @ \cup {here}]

(* A page is durable as it comes.  Paging forward, the next starts past    *)
(* its last row, and a short page is the last.                             *)
PageTaken ==
  /\ Asking /\ ~Capped
  /\ durable' = durable \cup Page(Request.instrument, Answer(Request))
  /\ walker' =
       IF ~setup.forward THEN [walker EXCEPT !.left = Tail(@), !.retries = 0]
       ELSE IF Cardinality(Answer(Request)) < PageRows THEN NextInstrument(now)
       ELSE [walker EXCEPT !.left[1].from = Max(Answer(Request)) + 1,
                           !.pages = @ + 1, !.retries = 0]
  /\ UNCHANGED <<now, setup, outcomes, cold, faults>>

(* Our cap: the instrument stops at the last row it took.                  *)
StopsAtCap ==
  /\ Asking /\ Capped
  /\ walker' = [NextInstrument(Request.from - 1) EXCEPT !.capped = TRUE]
  /\ UNCHANGED <<now, setup, durable, outcomes, cold, faults>>

(* one_fetch: refused to pace, the same page is asked again; refused       *)
(* otherwise, or too often, its range is not coverage.                     *)
Throttled ==
  /\ Asking /\ ~Capped /\ walker.retries < ThrottleRetries /\ Strikes("throttled")
  /\ walker' = [walker EXCEPT !.retries = @ + 1]
  /\ UNCHANGED <<now, setup, durable, outcomes, cold>>

Refused ==
  /\ Asking /\ ~Capped /\ Strikes("refused")
  /\ walker' = [IF setup.forward THEN NextInstrument(Request.from)
                ELSE [walker EXCEPT !.left = Tail(@), !.retries = 0]
                EXCEPT !.failed = @ \cup {Request.from}]
  /\ UNCHANGED <<now, setup, durable, outcomes, cold>>

(* Walk::outcome and with_failures: covered is contiguous from where the   *)
(* plan began, over every instrument.                                      *)
Planned ==
  IF setup.forward THEN Min(walker.heres)
  ELSE IF PlanLength(walker.from) = 0 THEN walker.from
  ELSE Steps(walker.from)[PlanLength(walker.from)].to

Reached ==
  IF walker.failed = {} THEN Planned
  ELSE Sooner(Planned, Later(Min(walker.failed), walker.from))
IsCapped == IF setup.forward THEN walker.capped ELSE Planned < now

(* A walk our cap stopped is a failed unit, and the unit is started again; *)
(* one the venue refused goes on to the live loop.                         *)
WalkDone ==
  /\ walker.at = "walking" /\ walker.left = <<>>
  /\ outcomes' = outcomes \cup {[from |-> walker.from, reached |-> Reached,
                                 capped |-> IsCapped, failed |-> walker.failed # {}]}
  /\ walker' = IF IsCapped THEN Down ELSE Live
  /\ UNCHANGED <<now, setup, durable, cold, faults>>

Kill ==
  /\ walker # Down /\ Strikes("kill")
  /\ walker' = Down
  /\ UNCHANGED <<now, setup, durable, outcomes, cold>>

Next ==
  \/ Tick \/ Boot \/ PageTaken \/ StopsAtCap \/ Throttled \/ Refused
  \/ WalkDone \/ Kill
Spec == Init /\ [][Next]_vars

-----------------------------------------------------------------------------
Held(from, to) ==
  \A i \in Instruments : \A b \in from + 1 .. to - 1 :
    b >= Listed[i] => \E r \in durable : r.instrument = i /\ r.bar = b

(* WalkOutcome: "coverage is contiguous from where the plan began, across  *)
(* every instrument": whatever was refused, capped, paged or dropped at an *)
(* edge of a page, what a walk says it covered the record holds.           *)
CoveredIsHeld == \A o \in outcomes : Held(o.from, o.reached)

(* resume_from: "A cold start covers the last cold_start_days": once a     *)
(* boot reaches the live loop, and no request was refused, the record      *)
(* holds of every instrument what the cold start set out to cover.         *)
ColdStartIsCovered ==
  walker = Live /\ (\A o \in outcomes : ~o.failed) => Held(cold.from, cold.to)
=============================================================================
