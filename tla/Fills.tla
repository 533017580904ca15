-------------------------------- MODULE Fills -------------------------------
(***************************************************************************)
(* What a running capture asks the venue's history for: the fill queue of  *)
(* capture/run.rs (Filler), fed by gaps published while running, by the    *)
(* settle of bars closed while running and by declared history, planned by *)
(* capture/walk.rs.                                                        *)
(*                                                                         *)
(* A key is a (ticker, series, width).  Time is counted in ticks, of       *)
(* which the walk's overlap is one; a bar is named by its start, and a     *)
(* series without bars has rows one tick wide.                             *)
(***************************************************************************)
EXTENDS Integers, FiniteSetsExt

CONSTANTS
  Keys,
  Paging,       \* key -> [width, rows (a page holds), forward, reach]
  GapKeys,      \* keys a gap is filled at: a series' first declared width
  SettleKeys,   \* candle widths settled while running
  HistoryFrom,  \* key -> where its declared history starts; other keys have none
  Cap,          \* capture.walk_cap: attempts of a fill, pages of a history chain
  Pause, Waits, \* ticks between two requests; after a refusal to pace
  SettleEvery,  \* capture.settle_secs
  Boot,         \* when the live loop starts
  LastEvent, MaxTime, MaxLosses   \* bounds: of losses and settles, of time, of losses

Overlap == 1
Shape == [width : Nat \ {0}, rows : Nat \ {0}, forward : BOOLEAN, reach : Nat]

ShapeAssumption ==
  /\ Paging \in [Keys -> Shape]
  /\ \A k \in Keys : ~Paging[k].forward => Paging[k].rows * Paging[k].width > Overlap
KeysAssumption ==
  /\ GapKeys \subseteq Keys /\ SettleKeys \subseteq Keys
  /\ DOMAIN HistoryFrom \subseteq Keys /\ \A k \in DOMAIN HistoryFrom : HistoryFrom[k] \in Int
  /\ \A k \in GapKeys : Paging[k].width <= Overlap
PaceAssumption == Cap \in Nat \ {0} /\ Pause \in Nat /\ Waits \subseteq Nat
BoundsAssumption ==
  /\ SettleEvery \in Nat \ {0} /\ Boot \in Nat
  /\ LastEvent \in Nat /\ MaxTime \in Nat /\ MaxLosses \in Nat /\ Boot <= MaxTime

VARIABLES
  now,
  queue,        \* Filler::queue: key -> its fill, for the keys that have one
  flight,       \* Filler::in_flight and its request; Landed when none is out
  nextStart,    \* Filler::next_start_micros
  inStep,       \* fill_step has taken what came back and not yet looked for more
  settleNext,   \* Settle::next_micros
  settled,      \* Settle::settled, per key
  losses,       \* sessions lost so far
  owed,         \* history: bars a gap, a settle or declared history asked for
  taken,        \* history: bars a page brought once they were closed
  named,        \* history: bars given up with an error that names them
  holdUntil     \* history: the end of the longest wait the venue asked for

filler == <<queue, flight, nextStart, inStep>>
settle == <<settleNext, settled>>
history == <<owed, taken, named, holdUntil>>
vars == <<now, filler, settle, losses, history>>

Width(k) == Paging[k].width
Bars(k) == {b \in 0 .. MaxTime : b % Width(k) = 0}
Floor(k, t) == Width(k) * (t \div Width(k))
Closed(k, b, at) == b + Width(k) <= at

Landed == [out |-> FALSE]
Later(a, b) == IF a > b THEN a ELSE b
Sooner(a, b) == IF a < b THEN a ELSE b

(* Moments from MaxTime on are not told apart.                             *)
In(ticks) == Sooner(now + ticks, MaxTime)

(* merge_into: a fill is found by its key, so each key has at most one.    *)
MergedKeepsFrom(queued, fill) ==          \* mutant: the earlier start is lost
  [from |-> queued.from,
   due |-> Later(queued.due, fill.due),
   attempts |-> Later(queued.attempts, fill.attempts),
   chain |-> queued.chain \/ fill.chain,
   pages |-> IF queued.chain THEN queued.pages ELSE fill.pages]
MergedForgives(queued, fill) ==           \* mutant: a merge resets the failures
  [from |-> Sooner(queued.from, fill.from),
   due |-> Later(queued.due, fill.due),
   attempts |-> 0,
   chain |-> queued.chain \/ fill.chain,
   pages |-> IF queued.chain THEN queued.pages ELSE fill.pages]
Merged(queued, fill) ==
  [from |-> Sooner(queued.from, fill.from),
   due |-> Later(queued.due, fill.due),
   attempts |-> Later(queued.attempts, fill.attempts),
   chain |-> queued.chain \/ fill.chain,
   pages |-> IF queued.chain THEN queued.pages ELSE fill.pages]

(* Several keys are given a fill each, one after another in the code,      *)
(* which is all the same: they are apart.                                  *)
MergeAll(fills, more) ==
  [k \in DOMAIN fills \cup DOMAIN more |->
     IF k \notin DOMAIN more THEN fills[k]
     ELSE IF k \in DOMAIN fills THEN Merged(fills[k], more[k]) ELSE more[k]]
MergeInto(fills, key, fill) == MergeAll(fills, [k \in {key} |-> fill])
Without(fills, key) == [k \in DOMAIN fills \ {key} |-> fills[k]]

-----------------------------------------------------------------------------
(* Walk::plan, of at most Cap steps: the one asked now, and where the next *)
(* one starts.                                                             *)
StepTo(k, from) == IF Paging[k].forward THEN now
                   ELSE Sooner(from + Paging[k].rows * Width(k), now)
HasNextStep(k, from) == Cap > 1 /\ StepTo(k, from) < now
NextFrom(k, from) == StepTo(k, from) - Overlap

HistoryFill(k) ==
  [from |-> Later(HistoryFrom[k], Boot - Paging[k].reach), due |-> Boot,
   attempts |-> 0, chain |-> TRUE, pages |-> 0]

(* fill_with, fill_history and settle_every, as the live loop starts.      *)
Init ==
  /\ now = Boot
  /\ queue = [k \in DOMAIN HistoryFrom |-> HistoryFill(k)]
  /\ flight = Landed /\ nextStart = 0 /\ inStep = FALSE
  /\ settleNext = Boot + SettleEvery
  /\ settled = [k \in SettleKeys |-> Floor(k, Boot)]
  /\ losses = 0
  /\ owed = [k \in Keys |->
               IF k \in DOMAIN HistoryFrom
               THEN {b \in Bars(k) : HistoryFill(k).from <= b /\ Closed(k, b, Boot)}
               ELSE {}]
  /\ taken = [k \in Keys |-> {}] /\ named = [k \in Keys |-> {}]
  /\ holdUntil = 0

Tick == /\ ~inStep /\ now < MaxTime
        /\ now' = now + 1
        /\ UNCHANGED <<filler, settle, losses, history>>

(* session_lost: queue_fill for the gap of each pair.  Due one width after *)
(* the loss was noticed, so that the bar of that moment has closed.        *)
GapFill(k, from) ==
  [from |-> from - Overlap, due |-> now + Width(k),
   attempts |-> 0, chain |-> FALSE, pages |-> 0]

SessionLost ==
  /\ ~inStep
  /\ now <= LastEvent /\ losses < MaxLosses
  /\ losses' = losses + 1
  /\ \E from \in [GapKeys -> {now - 2, now - 1} \cap Nat] :
       /\ queue' = MergeAll(queue, [k \in GapKeys |-> GapFill(k, from[k])])
       /\ owed' = [k \in Keys |->
            IF k \in GapKeys
            THEN owed[k] \cup {b \in Bars(k) : from[k] < b + Width(k) /\ b <= now}
            ELSE owed[k]]
  /\ UNCHANGED <<now, flight, nextStart, inStep, settle, taken, named, holdUntil>>

(* settle_step: every bar closed since the key's last settle, and the one  *)
(* before.                                                                 *)
SettleFill(k) ==
  [from |-> settled[k] - Width(k), due |-> now,
   attempts |-> 0, chain |-> FALSE, pages |-> 0]

SettleStep ==
  /\ ~inStep
  /\ settleNext <= now /\ now <= LastEvent
  /\ LET due == {k \in SettleKeys : settled[k] < Floor(k, now)}
     IN  /\ queue' = MergeAll(queue, [k \in due |-> SettleFill(k)])
         /\ settled' = [k \in SettleKeys |-> Later(settled[k], Floor(k, now))]
         /\ owed' = [k \in Keys |->
              IF k \in due
              THEN owed[k] \cup {b \in Bars(k) : settled[k] <= b /\ Closed(k, b, now)}
              ELSE owed[k]]
  /\ settleNext' = now + SettleEvery
  /\ UNCHANGED <<now, flight, nextStart, inStep, losses, taken, named, holdUntil>>

-----------------------------------------------------------------------------
Name(k, from, to) == named' = [named EXCEPT ![k] = @ \cup (owed[k] \cap from .. to - 1)]

(* start_due_fill: the earliest due fill; of several due at one moment any *)
(* (the one queued first, in the code).                                    *)
DueKeys == {k \in DOMAIN queue : queue[k].due <= now}
Earliest(k) == \A j \in DueKeys : queue[k].due <= queue[j].due

(* The reach moves with the clock, for a history fill.                     *)
Clipped(k) ==
  IF queue[k].chain THEN [queue[k] EXCEPT !.from = Later(@, now - Paging[k].reach)]
  ELSE queue[k]

Ready == ~flight.out /\ nextStart <= now

StartDueFill ==
  /\ Ready
  /\ \E k \in DueKeys :
       LET fill == Clipped(k)
           started == IF fill.chain THEN [fill EXCEPT !.pages = @ + 1] ELSE fill
           rest == Without(queue, k)
       IN  /\ Earliest(k)
           /\ fill.from < now
           /\ ~(fill.chain /\ fill.pages >= Cap)
           /\ queue' = IF HasNextStep(k, fill.from)
                       THEN MergeInto(rest, k, [started EXCEPT !.from = NextFrom(k, fill.from),
                                                               !.due = now, !.attempts = 0])
                       ELSE rest
           /\ flight' = [out |-> TRUE, key |-> k, fill |-> started,
                         to |-> StepTo(k, fill.from), at |-> now]
           /\ Name(k, queue[k].from, fill.from)
  /\ nextStart' = In(Pause) /\ inStep' = FALSE
  /\ UNCHANGED <<now, settle, losses, owed, taken, holdUntil>>

(* A history chain that asked its last page stops, and says how far it     *)
(* got; a fill that has reached the present has nothing left to ask.       *)
ChainCapped ==
  /\ Ready
  /\ \E k \in DueKeys :
       /\ Earliest(k)
       /\ \/ queue[k].chain /\ queue[k].pages >= Cap
          \/ Clipped(k).from >= now
       /\ queue' = Without(queue, k)
       /\ Name(k, queue[k].from, now)
  /\ inStep' = FALSE
  /\ UNCHANGED <<now, flight, nextStart, settle, losses, owed, taken, holdUntil>>

NothingToStart ==
  /\ inStep /\ ~(Ready /\ DueKeys # {})
  /\ inStep' = FALSE
  /\ UNCHANGED <<now, queue, flight, nextStart, settle, losses, history>>

(* The venue's page: of what was asked, the oldest rows where it pages     *)
(* forward, the most recent elsewhere.                                     *)
Page ==
  LET k == flight.key
      asked == {b \in Bars(k) : flight.fill.from <= b /\ b < flight.to}
      size == Paging[k].rows
  IN  IF Paging[k].forward
      THEN {b \in asked : Cardinality({c \in asked : c < b}) < size}
      ELSE {b \in asked : Cardinality({c \in asked : c > b}) < size}

FullForward ==
  Paging[flight.key].forward /\ Cardinality(Page) >= Paging[flight.key].rows
PastPage == Max(Page) + 1

(* fill_returned, with a page: taken, and what a full page leaves queued.  *)
PageTaken ==
  /\ flight.out
  /\ LET fill == flight.fill
         k == flight.key
         capped == FullForward /\ fill.chain /\ fill.pages >= Cap
     IN  /\ taken' = [taken EXCEPT ![k] = @ \cup {b \in Page : Closed(k, b, flight.at)}]
         /\ queue' = IF FullForward /\ ~capped
                     THEN MergeInto(queue, k, [fill EXCEPT !.from = PastPage, !.due = now,
                                                           !.attempts = 0])
                     ELSE queue
         /\ IF capped THEN Name(k, PastPage, flight.to) ELSE UNCHANGED named
  /\ flight' = Landed /\ inStep' = TRUE
  /\ UNCHANGED <<now, nextStart, settle, losses, owed, holdUntil>>

(* fill_returned, without: asked again, unless that was the last attempt.  *)
AskedAgain(due) ==
  LET fill == flight.fill
  IN  [fill EXCEPT !.attempts = @ + 1, !.due = due,
                   !.pages = IF @ > 0 THEN @ - 1 ELSE 0]

RequeueOrDrop(due) ==
  LET fill == flight.fill
  IN  IF fill.attempts + 1 >= Cap
      THEN UNCHANGED queue /\ Name(flight.key, fill.from, flight.to)
      ELSE queue' = MergeInto(queue, flight.key, AskedAgain(due)) /\ UNCHANGED named

(* An error of the venue's, or no answer within FILL_TIMEOUT.              *)
RequestFails ==
  /\ flight.out
  /\ RequeueOrDrop(now)
  /\ flight' = Landed /\ inStep' = TRUE
  /\ UNCHANGED <<now, nextStart, settle, losses, owed, taken, holdUntil>>

(* The venue's limit is per IP: every fill holds off.                      *)
HoldsOffOwnOnly(until) == nextStart          \* mutant: only this fill waits
HoldsOff(until) == Later(nextStart, until)

Throttled ==
  /\ flight.out
  /\ \E wait \in Waits :
       /\ RequeueOrDrop(In(wait))
       /\ nextStart' = HoldsOff(In(wait))
       /\ holdUntil' = Later(holdUntil, In(wait))
  /\ flight' = Landed /\ inStep' = TRUE
  /\ UNCHANGED <<now, settle, losses, owed, taken>>

Returned == PageTaken \/ RequestFails \/ Throttled
FillStep == StartDueFill \/ ChainCapped \/ NothingToStart \/ Returned

Next == Tick \/ SessionLost \/ SettleStep \/ FillStep

(* Time passes, and the loop takes fill_step on every pass, which takes    *)
(* what came back and then looks for a fill to start; a request ends by    *)
(* its timeout.                                                            *)
Spec == Init /\ [][Next]_vars /\ WF_vars(Tick) /\ WF_vars(FillStep)

-----------------------------------------------------------------------------
(* Whatever order gaps, settles, pages and failures come in, a bar that    *)
(* was asked for is in the record closed, or named as given up, or a       *)
(* request that is out or queued will bring it closed.                     *)
Queued(k, b) ==
  k \in DOMAIN queue /\ queue[k].from <= b /\ Closed(k, b, Later(now, queue[k].due))
OnItsWay(k, b) ==
  /\ flight.out /\ flight.key = k
  /\ flight.fill.from <= b /\ b < flight.to /\ Closed(k, b, flight.at)
NothingForgotten ==
  \A k \in Keys : \A b \in owed[k] \ (taken[k] \cup named[k]) : Queued(k, b) \/ OnItsWay(k, b)

(* fill_returned: a refusal to pace holds off every fill.                  *)
ThrottleHonoured == [][~flight.out /\ flight'.out => holdUntil <= now]_vars

(* A venue may fail every request: what is owed is taken or given up by    *)
(* name, and nothing is asked for ever.                                    *)
EveryFillEnds == <>[](\A k \in Keys : owed[k] \subseteq taken[k] \cup named[k])
=============================================================================
