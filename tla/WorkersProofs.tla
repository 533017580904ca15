--------------------------- MODULE WorkersProofs ---------------------------
(***************************************************************************)
(* Theorems about the fills and the cursor, as Workers has them beside the *)
(* session.  Those of the cursor are ChainCursorProofs'; the fills' are    *)
(* proved here.                                                            *)
(***************************************************************************)
EXTENDS Workers, FiniteSetTheorems, WellFoundedInduction, TLAPS

-----------------------------------------------------------------------------
(* The fills.                                                              *)
FillParams ==
  /\ Filler!ShapeAssumption /\ Filler!KeysAssumption
  /\ Filler!PaceAssumption /\ Filler!BoundsAssumption

LEMMA ParamsHold == FillParams
BY InstancesAssumption DEF FillParams

Fill == [from : Int, due : Nat, attempts : Nat, chain : BOOLEAN, pages : Nat]
Request == [out : {TRUE}, key : Keys, fill : Fill, to : Int, at : Nat]

FillTypes ==
  /\ clock \in Nat /\ clock <= FillsTime
  /\ DOMAIN queue \subseteq Keys /\ queue \in [DOMAIN queue -> Fill]
  /\ flight = Filler!Landed \/ flight \in Request
  /\ nextStart \in Nat /\ holdUntil \in Nat
  /\ settled \in [SettleKeys -> Int]
  /\ owed \in [Keys -> SUBSET Nat] /\ taken \in [Keys -> SUBSET Nat]
  /\ named \in [Keys -> SUBSET Nat]
  /\ \A k \in Keys : owed[k] \subseteq Filler!Bars(k)

(* A request asks up to a moment that has been, and for no more than a page*)
(* brings where the venue pages backward.                                  *)
AsksAPage == flight.out =>
  /\ flight.at <= clock /\ flight.to <= flight.at
  /\ ~Paging[flight.key].forward =>
       flight.to <= flight.fill.from + Paging[flight.key].rows * Paging[flight.key].width

(* The venue's wait is part of every fill's.                               *)
PaceHolds == holdUntil <= nextStart

FillInv == FillTypes /\ AsksAPage /\ PaceHolds
KeptInv == FillInv /\ Filler!NothingForgotten

-----------------------------------------------------------------------------
LEMMA ShapeOf ==
  ASSUME NEW k \in Keys
  PROVE  /\ Filler!Width(k) \in Nat \ {0} /\ Paging[k].rows \in Nat \ {0}
         /\ Paging[k].forward \in BOOLEAN /\ Paging[k].reach \in Nat
         /\ Filler!Width(k) = Paging[k].width
BY ParamsHold DEF FillParams, Filler!ShapeAssumption, Filler!Shape, Filler!Width

LEMMA LaterSooner ==
  ASSUME NEW a \in Int, NEW b \in Int
  PROVE  /\ Filler!Later(a, b) \in {a, b} /\ Filler!Later(a, b) >= a /\ Filler!Later(a, b) >= b
         /\ Filler!Sooner(a, b) \in {a, b} /\ Filler!Sooner(a, b) <= a
         /\ Filler!Sooner(a, b) <= b
BY DEF Filler!Later, Filler!Sooner

LEMMA LandedIs == Filler!Landed.out = FALSE
BY DEF Filler!Landed

LEMMA BarsAre ==
  ASSUME NEW k \in Keys, NEW b \in Filler!Bars(k)
  PROVE  b \in Nat
BY ParamsHold DEF Filler!Bars, FillParams, Filler!BoundsAssumption

(* merge_into: a merged fill asks from no later, and is due no sooner, than*)
(* either.                                                                 *)
LEMMA MergedIs ==
  ASSUME NEW q \in Fill, NEW f \in Fill
  PROVE  /\ Filler!Merged(q, f) \in Fill
         /\ Filler!Merged(q, f).from <= q.from /\ Filler!Merged(q, f).from <= f.from
         /\ Filler!Merged(q, f).due >= q.due /\ Filler!Merged(q, f).due >= f.due
<1> DEFINE from == Filler!Sooner(q.from, f.from)
           due == Filler!Later(q.due, f.due)
           attempts == Filler!Later(q.attempts, f.attempts)
           pages == IF q.chain THEN q.pages ELSE f.pages
<1>1. /\ from \in Int /\ due \in Nat /\ attempts \in Nat /\ pages \in Nat
      /\ from <= q.from /\ from <= f.from /\ due >= q.due /\ due >= f.due
  BY LaterSooner DEF Fill
<1>2. Filler!Merged(q, f) = [from |-> from, due |-> due, attempts |-> attempts,
                             chain |-> q.chain \/ f.chain, pages |-> pages]
  BY DEF Filler!Merged, Fill
<1> HIDE DEF from, due, attempts, pages
<1> QED BY <1>1, <1>2 DEF Fill

(* What a batch of fills makes of a queue: MergeAll, with its keys named.  *)
Batch(q, S, g) ==
  [k \in DOMAIN q \cup S |-> IF k \notin S THEN q[k]
                             ELSE IF k \in DOMAIN q THEN Filler!Merged(q[k], g[k]) ELSE g[k]]

LEMMA BatchIs ==
  ASSUME NEW q, DOMAIN q \subseteq Keys, q \in [DOMAIN q -> Fill],
         NEW S \in SUBSET Keys, NEW g \in [S -> Fill]
  PROVE  LET r == Batch(q, S, g)
         IN  /\ DOMAIN r = DOMAIN q \cup S /\ r \in [DOMAIN r -> Fill]
             /\ \A k \in DOMAIN q : r[k].from <= q[k].from /\ r[k].due >= q[k].due
             /\ \A k \in S : r[k].from <= g[k].from /\ r[k].due >= g[k].due
<1> DEFINE r == Batch(q, S, g)
<1>1. DOMAIN r = DOMAIN q \cup S /\ r = [k \in DOMAIN r |-> r[k]]
  BY DEF Batch
<1>2. ASSUME NEW k \in DOMAIN q \cup S
      PROVE  /\ r[k] \in Fill
             /\ k \in DOMAIN q => r[k].from <= q[k].from /\ r[k].due >= q[k].due
             /\ k \in S => r[k].from <= g[k].from /\ r[k].due >= g[k].due
  <2>1. CASE k \notin S
    <3>1. r[k] = q[k] /\ k \in DOMAIN q /\ q[k] \in Fill
      BY <2>1 DEF Batch
    <3>2. q[k].from \in Int /\ q[k].due \in Nat
      BY <3>1 DEF Fill
    <3> HIDE DEF r
    <3> QED BY <2>1, <3>1, <3>2
  <2>2. CASE k \in S /\ k \in DOMAIN q
    <3>1. r[k] = Filler!Merged(q[k], g[k]) /\ q[k] \in Fill /\ g[k] \in Fill
      BY <2>2 DEF Batch
    <3> HIDE DEF r
    <3> QED BY <2>2, <3>1, MergedIs
  <2>3. CASE k \in S /\ k \notin DOMAIN q
    <3>1. r[k] = g[k] /\ g[k] \in Fill
      BY <2>3 DEF Batch
    <3>2. g[k].from \in Int /\ g[k].due \in Nat
      BY <3>1 DEF Fill
    <3> HIDE DEF r
    <3> QED BY <2>3, <3>1, <3>2
  <2> QED BY <2>1, <2>2, <2>3
<1> HIDE DEF r
<1> QED BY <1>1, <1>2 DEF r

(* The same of one fill.                                                   *)
LEMMA MergeIntoIs ==
  ASSUME NEW q, DOMAIN q \subseteq Keys, q \in [DOMAIN q -> Fill],
         NEW key \in Keys, NEW f \in Fill
  PROVE  LET r == Filler!MergeInto(q, key, f)
         IN  /\ DOMAIN r = DOMAIN q \cup {key} /\ r \in [DOMAIN r -> Fill]
             /\ \A k \in DOMAIN q : r[k].from <= q[k].from /\ r[k].due >= q[k].due
             /\ r[key].from <= f.from /\ r[key].due >= f.due
<1> DEFINE g == [k \in {key} |-> f]
<1>1. Filler!MergeInto(q, key, f) = Batch(q, {key}, g)
  BY DEF Filler!MergeInto, Filler!MergeAll, Batch
<1>2. g \in [{key} -> Fill] /\ g[key] = f /\ {key} \in SUBSET Keys
  OBVIOUS
<1> HIDE DEF g
<1> DEFINE r == Batch(q, {key}, g)
<1>3. /\ DOMAIN r = DOMAIN q \cup {key} /\ r \in [DOMAIN r -> Fill]
      /\ \A k \in DOMAIN q : r[k].from <= q[k].from /\ r[k].due >= q[k].due
      /\ \A k \in {key} : r[k].from <= g[k].from /\ r[k].due >= g[k].due
  BY <1>2, BatchIs
<1> HIDE DEF r
<1> QED BY <1>1, <1>2, <1>3 DEF r

(* Taking one out.                                                         *)
LEMMA WithoutIs ==
  ASSUME NEW q, DOMAIN q \subseteq Keys, q \in [DOMAIN q -> Fill], NEW key
  PROVE  LET r == Filler!Without(q, key)
         IN  /\ DOMAIN r = DOMAIN q \ {key} /\ r \in [DOMAIN r -> Fill]
             /\ \A k \in DOMAIN r : r[k] = q[k]
BY DEF Filler!Without

(* A queue that keeps its keys, and asks no later for each and waits no    *)
(* less, still has what it had.                                            *)
LEMMA StaysQueued ==
  ASSUME FillTypes, clock' \in Nat, clock <= clock', NEW k \in Keys,
         NEW b \in Filler!Bars(k), Filler!Queued(k, b),
         k \in DOMAIN queue', queue'[k] \in Fill,
         queue'[k].from <= queue[k].from, queue'[k].due >= queue[k].due
  PROVE  Filler!Queued(k, b)'
<1>1. /\ k \in DOMAIN queue /\ queue[k].from <= b
      /\ b + Filler!Width(k) <= Filler!Later(clock, queue[k].due)
  BY DEF Filler!Queued, Filler!Closed
<1>2. /\ queue[k].from \in Int /\ queue[k].due \in Nat /\ b \in Nat /\ clock \in Nat
      /\ queue'[k].from \in Int /\ queue'[k].due \in Nat /\ Filler!Width(k) \in Nat
  BY <1>1, BarsAre, ShapeOf DEF FillTypes, Fill
<1>3. Filler!Later(clock, queue[k].due) <= Filler!Later(clock', queue'[k].due)
  BY <1>2 DEF Filler!Later
<1>4. b + Filler!Width(k) <= Filler!Later(clock', queue'[k].due)
  <2>1. Filler!Later(clock, queue[k].due) \in Int /\ Filler!Later(clock', queue'[k].due) \in Int
    BY <1>2, LaterSooner
  <2> QED BY <1>1, <1>2, <1>3, <2>1
<1> QED BY <1>1, <1>2, <1>4 DEF Filler!Queued, Filler!Closed, Filler!Width

-----------------------------------------------------------------------------
(* The types, and what a request asks, action by action.                   *)
LEMMA ClockIs ==
  ASSUME FillTypes, NEW wait \in Nat
  PROVE  /\ Filler!In(wait) \in Nat /\ Filler!In(wait) >= clock
         /\ FillsTime \in Nat
<1>1. FillsTime \in Nat /\ clock \in Nat /\ clock <= FillsTime /\ clock + wait \in Int
  BY ParamsHold DEF FillParams, Filler!BoundsAssumption, FillTypes
<1> QED BY <1>1 DEF Filler!In, Filler!Sooner

LEMMA ClippedIs ==
  ASSUME FillTypes, NEW k \in DOMAIN queue
  PROVE  Filler!Clipped(k) \in Fill /\ Filler!Clipped(k).from >= queue[k].from
<1>1. queue[k] \in Fill /\ k \in Keys /\ clock - Paging[k].reach \in Int
  BY ShapeOf DEF FillTypes
<1>2. queue[k].from \in Int
  BY <1>1 DEF Fill
<1>3. CASE queue[k].chain
  <2> DEFINE from == Filler!Later(queue[k].from, clock - Paging[k].reach)
  <2>1. from \in Int /\ from >= queue[k].from
    BY <1>1, <1>2 DEF Filler!Later
  <2>2. Filler!Clipped(k) = [queue[k] EXCEPT !.from = from]
    BY <1>3 DEF Filler!Clipped
  <2> HIDE DEF from
  <2>3. Filler!Clipped(k) \in Fill /\ Filler!Clipped(k).from = from
    BY <1>1, <2>1, <2>2 DEF Fill
  <2> QED BY <2>1, <2>3
<1>4. CASE ~queue[k].chain
  <2>1. Filler!Clipped(k) = queue[k]
    BY <1>4 DEF Filler!Clipped
  <2> QED BY <1>1, <1>2, <2>1
<1> QED BY <1>3, <1>4

(* What one step asks, and where the next one starts.                      *)
LEMMA StepIs ==
  ASSUME FillTypes, NEW k \in Keys, NEW from \in Int
  PROVE  /\ Filler!StepTo(k, from) \in Int /\ Filler!StepTo(k, from) <= clock
         /\ Paging[k].forward => Filler!StepTo(k, from) = clock
         /\ ~Paging[k].forward =>
              Filler!StepTo(k, from) <= from + Paging[k].rows * Paging[k].width
         /\ Filler!NextFrom(k, from) = Filler!StepTo(k, from) - 1
<1> DEFINE size == Paging[k].rows * Filler!Width(k)
<1>1. clock \in Int /\ size \in Int /\ Paging[k].rows * Paging[k].width = size
  BY ShapeOf DEF FillTypes
<1>2. Filler!NextFrom(k, from) = Filler!StepTo(k, from) - 1
  BY DEF Filler!NextFrom, Filler!Overlap
<1>3. Filler!StepTo(k, from) = IF Paging[k].forward THEN clock
                               ELSE Filler!Sooner(from + size, clock)
  BY DEF Filler!StepTo
<1> HIDE DEF size
<1>4. CASE Paging[k].forward
  BY <1>1, <1>2, <1>3, <1>4
<1>5. CASE ~Paging[k].forward
  BY <1>1, <1>2, <1>3, <1>5, LaterSooner
<1> QED BY <1>4, <1>5

LEMMA NameTypes ==
  ASSUME FillTypes, NEW k \in Keys, NEW from, NEW to, Filler!Name(k, from, to)
  PROVE  /\ named' \in [Keys -> SUBSET Nat]
         /\ \A j \in Keys : named[j] \subseteq named'[j]
         /\ named'[k] = named[k] \cup (owed[k] \cap from .. to - 1)
BY DEF FillTypes, Filler!Name

(* A fill that is asked again.                                             *)
LEMMA AskedAgainIs ==
  ASSUME FillTypes, flight.out, NEW due \in Nat
  PROVE  /\ flight \in Request /\ flight.fill \in Fill /\ flight.key \in Keys
         /\ Filler!AskedAgain(due) \in Fill
         /\ Filler!AskedAgain(due).from = flight.fill.from
         /\ Filler!AskedAgain(due).due = due
<1>1. flight \in Request
  BY LandedIs DEF FillTypes
<1>2. flight.fill \in Fill /\ flight.key \in Keys
  BY <1>1 DEF Request
<1> DEFINE f == flight.fill
           pages == IF f.pages > 0 THEN f.pages - 1 ELSE 0
<1>3. f.attempts + 1 \in Nat /\ pages \in Nat /\ f.from \in Int
  BY <1>2 DEF Fill
<1>4. Filler!AskedAgain(due) = [f EXCEPT !.attempts = f.attempts + 1, !.due = due,
                                         !.pages = pages]
  BY DEF Filler!AskedAgain
<1>5. f \in Fill
  BY <1>2
<1> HIDE DEF f, pages
<1>6. /\ Filler!AskedAgain(due) \in Fill
      /\ Filler!AskedAgain(due).from = f.from /\ Filler!AskedAgain(due).due = due
  BY <1>3, <1>4, <1>5 DEF Fill
<1> QED BY <1>1, <1>2, <1>6 DEF f

(* What RequeueOrDrop does to the queue and to what is named.              *)
LEMMA RequeueOrDropIs ==
  ASSUME FillTypes, flight.out, NEW due \in Nat, Filler!RequeueOrDrop(due)
  PROVE  /\ DOMAIN queue' \subseteq Keys /\ queue' \in [DOMAIN queue' -> Fill]
         /\ DOMAIN queue \subseteq DOMAIN queue'
         /\ \A k \in DOMAIN queue : queue'[k].from <= queue[k].from /\ queue'[k].due >= queue[k].due
         /\ named' \in [Keys -> SUBSET Nat] /\ \A j \in Keys : named[j] \subseteq named'[j]
         /\ \/ /\ flight.key \in DOMAIN queue'
               /\ queue'[flight.key].from <= flight.fill.from /\ queue'[flight.key].due >= due
            \/ named'[flight.key] =
                 named[flight.key] \cup (owed[flight.key] \cap flight.fill.from .. flight.to - 1)
<1>1. /\ flight.key \in Keys /\ Filler!AskedAgain(due) \in Fill
      /\ Filler!AskedAgain(due).from = flight.fill.from /\ Filler!AskedAgain(due).due = due
  BY AskedAgainIs
<1>2. CASE /\ queue' = queue
           /\ Filler!Name(flight.key, flight.fill.from, flight.to)
  <2>1. \A k \in DOMAIN queue : queue[k].from \in Int /\ queue[k].due \in Nat
    BY DEF FillTypes, Fill
  <2>2. \A k \in DOMAIN queue : queue'[k].from <= queue[k].from /\ queue'[k].due >= queue[k].due
    BY <1>2, <2>1
  <2> QED BY <1>1, <1>2, <2>2, NameTypes DEF FillTypes
<1>3. CASE /\ queue' = Filler!MergeInto(queue, flight.key, Filler!AskedAgain(due))
           /\ named' = named
  <2> DEFINE key == flight.key
             f == Filler!AskedAgain(due)
             r == Filler!MergeInto(queue, key, f)
  <2>1. /\ DOMAIN queue \subseteq Keys /\ queue \in [DOMAIN queue -> Fill]
        /\ key \in Keys /\ f \in Fill
    BY <1>1 DEF FillTypes
  <2> HIDE DEF key, f
  <2>2. /\ DOMAIN r = DOMAIN queue \cup {key} /\ r \in [DOMAIN r -> Fill]
        /\ \A k \in DOMAIN queue : r[k].from <= queue[k].from /\ r[k].due >= queue[k].due
        /\ r[key].from <= f.from /\ r[key].due >= f.due
    BY <2>1, MergeIntoIs
  <2>3. queue' = r
    BY <1>3 DEF key, f
  <2> HIDE DEF r
  <2>4. f.from = flight.fill.from /\ f.due = due
    BY <1>1 DEF f
  <2>5. key = flight.key
    BY DEF key
  <2>6. named \in [Keys -> SUBSET Nat]
    BY DEF FillTypes
  <2> QED BY <1>3, <2>1, <2>2, <2>3, <2>4, <2>5, <2>6
<1> QED BY <1>2, <1>3 DEF Filler!RequeueOrDrop

(* What start_due_fill asks, and what it leaves queued.                    *)
LEMMA StartIs ==
  ASSUME FillTypes, Filler!StartDueFill
  PROVE  \E k \in Filler!DueKeys : \E from \in Int :
           /\ k \in Keys /\ from < clock /\ queue[k].from <= from
           /\ flight' \in Request /\ flight'.key = k /\ flight'.fill.from = from
           /\ flight'.to = Filler!StepTo(k, from) /\ flight'.at = clock
           /\ DOMAIN queue' \subseteq Keys /\ queue' \in [DOMAIN queue' -> Fill]
           /\ \A j \in DOMAIN queue \ {k} :
                /\ j \in DOMAIN queue' /\ queue'[j].from <= queue[j].from
                /\ queue'[j].due >= queue[j].due
           /\ Filler!HasNextStep(k, from) =>
                /\ k \in DOMAIN queue' /\ queue'[k].from <= Filler!NextFrom(k, from)
                /\ queue'[k].due >= clock
           /\ Filler!Name(k, queue[k].from, from)
<1> DEFINE started(fill) == IF fill.chain THEN [fill EXCEPT !.pages = @ + 1] ELSE fill
           next(k, fill) == [started(fill) EXCEPT !.from = Filler!NextFrom(k, fill.from),
                                                  !.due = clock, !.attempts = 0]
<1>1. PICK k \in Filler!DueKeys :
        /\ Filler!Clipped(k).from < clock
        /\ queue' = IF Filler!HasNextStep(k, Filler!Clipped(k).from)
                    THEN Filler!MergeInto(Filler!Without(queue, k), k, next(k, Filler!Clipped(k)))
                    ELSE Filler!Without(queue, k)
        /\ flight' = [out |-> TRUE, key |-> k, fill |-> started(Filler!Clipped(k)),
                      to |-> Filler!StepTo(k, Filler!Clipped(k).from), at |-> clock]
        /\ Filler!Name(k, queue[k].from, Filler!Clipped(k).from)
  BY DEF Filler!StartDueFill
<1> DEFINE fill == Filler!Clipped(k)
           from == fill.from
           rest == Filler!Without(queue, k)
           to == Filler!StepTo(k, from)
           nf == Filler!NextFrom(k, from)
<1>2. k \in DOMAIN queue /\ k \in Keys /\ clock \in Nat
  BY DEF Filler!DueKeys, FillTypes
<1>3. fill \in Fill /\ from >= queue[k].from
  BY <1>2, ClippedIs
<1>4. from \in Int /\ queue[k].from \in Int
  BY <1>2, <1>3 DEF Fill, FillTypes
<1>5. to \in Int /\ to <= clock /\ nf = to - 1
  BY <1>2, <1>4, StepIs
<1>6. started(fill) \in Fill /\ started(fill).from = from
  BY <1>3 DEF Fill
<1>7. next(k, fill) \in Fill /\ next(k, fill).from = nf /\ next(k, fill).due = clock
  <2> DEFINE s == started(fill)
             n == next(k, fill)
  <2>1. s \in Fill /\ nf \in Int /\ clock \in Nat
    BY <1>2, <1>5, <1>6
  <2>2. n = [s EXCEPT !.from = nf, !.due = clock, !.attempts = 0]
    OBVIOUS
  <2> HIDE DEF s, n, nf
  <2>3. n \in Fill /\ n.from = nf /\ n.due = clock
    BY <2>1, <2>2 DEF Fill
  <2> QED BY <2>3 DEF n
<1>8. /\ DOMAIN rest = DOMAIN queue \ {k} /\ rest \in [DOMAIN rest -> Fill]
      /\ \A j \in DOMAIN rest : rest[j] = queue[j]
  BY <1>2, WithoutIs DEF FillTypes
<1>9. flight' = [out |-> TRUE, key |-> k, fill |-> started(fill), to |-> to, at |-> clock]
  BY <1>1
<1>10. \A j \in DOMAIN rest : rest[j].from \in Int /\ rest[j].due \in Nat
  BY <1>8 DEF Fill
<1>11. DOMAIN queue \subseteq Keys
  BY DEF FillTypes
<1> DEFINE has == Filler!HasNextStep(k, from)
           f == next(k, fill)
           started0 == started(fill)
<1>12. queue' = IF has THEN Filler!MergeInto(rest, k, f) ELSE rest
  BY <1>1
<1>13. f \in Fill /\ f.from = nf /\ f.due = clock
  BY <1>7
<1>14. /\ flight' = [out |-> TRUE, key |-> k, fill |-> started0, to |-> to, at |-> clock]
       /\ started0 \in Fill /\ started0.from = from /\ from < clock
       /\ Filler!Name(k, queue[k].from, from)
  BY <1>1, <1>6, <1>9
<1> HIDE DEF rest, to, f, started0, next, started, nf, has
<1>15. /\ flight' \in Request /\ flight'.key = k /\ flight'.fill.from = from
       /\ flight'.to = to /\ flight'.at = clock
  BY <1>2, <1>5, <1>14 DEF Request
<1>16. /\ DOMAIN queue' \subseteq Keys /\ queue' \in [DOMAIN queue' -> Fill]
       /\ \A j \in DOMAIN queue \ {k} : /\ j \in DOMAIN queue'
                                        /\ queue'[j].from <= queue[j].from
                                        /\ queue'[j].due >= queue[j].due
       /\ has => /\ k \in DOMAIN queue' /\ queue'[k].from <= nf /\ queue'[k].due >= clock
  <2>1. CASE has
    <3> DEFINE r == Filler!MergeInto(rest, k, f)
    <3>1. DOMAIN rest \subseteq Keys
      BY <1>8, <1>11
    <3>2. /\ DOMAIN r = DOMAIN rest \cup {k} /\ r \in [DOMAIN r -> Fill]
          /\ \A j \in DOMAIN rest : r[j].from <= rest[j].from /\ r[j].due >= rest[j].due
          /\ r[k].from <= f.from /\ r[k].due >= f.due
      BY <1>2, <1>8, <1>13, <3>1, MergeIntoIs
    <3>3. queue' = r
      BY <1>12, <2>1
    <3> HIDE DEF r
    <3> QED BY <1>2, <1>8, <1>11, <1>13, <3>2, <3>3
  <2>2. CASE ~has
    BY <1>8, <1>10, <1>11, <1>12, <2>2
  <2> QED BY <2>1, <2>2
<1> HIDE DEF fill
<1>17. /\ k \in Keys /\ from < clock /\ queue[k].from <= from
  BY <1>2, <1>3, <1>4, <1>14
<1> QED BY <1>4, <1>14, <1>15, <1>16, <1>17 DEF to, has, nf

(* What a page leaves of the request it answers.                           *)
LEMMA PageIs ==
  ASSUME FillTypes, Filler!PageTaken, flight.out, NEW past \in Int, past = Filler!PastPage
  PROVE  LET k == flight.key
             capped == Filler!FullForward /\ flight.fill.chain /\ flight.fill.pages >= Cap
         IN  /\ DOMAIN queue' \subseteq Keys /\ queue' \in [DOMAIN queue' -> Fill]
             /\ \A j \in DOMAIN queue : /\ j \in DOMAIN queue'
                                        /\ queue'[j].from <= queue[j].from
                                        /\ queue'[j].due >= queue[j].due
             /\ named' \in [Keys -> SUBSET Nat] /\ \A j \in Keys : named[j] \subseteq named'[j]
             /\ Filler!FullForward =>
                  \/ k \in DOMAIN queue' /\ queue'[k].from <= past /\ queue'[k].due >= clock
                  \/ named'[k] = named[k] \cup (owed[k] \cap past .. flight.to - 1)
<1> DEFINE fill == flight.fill
           k == flight.key
           capped == Filler!FullForward /\ fill.chain /\ fill.pages >= Cap
           f == [fill EXCEPT !.from = Filler!PastPage, !.due = clock, !.attempts = 0]
           r == Filler!MergeInto(queue, k, f)
           full == Filler!FullForward
<1>1. flight \in Request /\ fill \in Fill /\ k \in Keys
  <2>1. flight \in Request
    BY LandedIs DEF FillTypes
  <2> QED BY <2>1 DEF Request
<1>2. /\ queue' = IF full /\ ~capped THEN r ELSE queue
      /\ IF capped THEN Filler!Name(k, past, flight.to) ELSE named' = named
  BY DEF Filler!PageTaken
<1>3. clock \in Nat /\ DOMAIN queue \subseteq Keys /\ queue \in [DOMAIN queue -> Fill]
  BY DEF FillTypes
<1>4. f \in Fill /\ f.from = past /\ f.due = clock
  <2> HIDE DEF fill
  <2>1. f = [fill EXCEPT !.from = past, !.due = clock, !.attempts = 0]
    OBVIOUS
  <2> HIDE DEF f
  <2> QED BY <1>1, <1>3, <2>1 DEF Fill
<1>5. \A j \in DOMAIN queue : queue[j].from \in Int /\ queue[j].due \in Nat
  BY <1>3 DEF Fill
<1> HIDE DEF f
<1>6. /\ DOMAIN r = DOMAIN queue \cup {k} /\ r \in [DOMAIN r -> Fill]
      /\ \A j \in DOMAIN queue : r[j].from <= queue[j].from /\ r[j].due >= queue[j].due
      /\ r[k].from <= past /\ r[k].due >= clock
  <2> HIDE DEF k, fill
  <2>1. /\ DOMAIN r = DOMAIN queue \cup {k} /\ r \in [DOMAIN r -> Fill]
        /\ \A j \in DOMAIN queue : r[j].from <= queue[j].from /\ r[j].due >= queue[j].due
        /\ r[k].from <= f.from /\ r[k].due >= f.due
    BY <1>1, <1>3, <1>4, MergeIntoIs
  <2> HIDE DEF r
  <2> QED BY <1>4, <2>1
<1> HIDE DEF r
<1>7. /\ DOMAIN queue' \subseteq Keys /\ queue' \in [DOMAIN queue' -> Fill]
      /\ \A j \in DOMAIN queue : /\ j \in DOMAIN queue' /\ queue'[j].from <= queue[j].from
                                 /\ queue'[j].due >= queue[j].due
      /\ full /\ ~capped => k \in DOMAIN queue' /\ queue'[k].from <= past /\ queue'[k].due >= clock
  <2>1. CASE full /\ ~capped
    <3>1. queue' = r
      BY <1>2, <2>1
    <3> QED BY <1>1, <1>3, <1>6, <3>1
  <2>2. CASE ~(full /\ ~capped)
    <3>1. queue' = queue
      BY <1>2, <2>2
    <3> QED BY <1>3, <1>5, <2>2, <3>1
  <2> QED BY <2>1, <2>2
<1>8. /\ named' \in [Keys -> SUBSET Nat] /\ \A j \in Keys : named[j] \subseteq named'[j]
      /\ capped => named'[k] = named[k] \cup (owed[k] \cap past .. flight.to - 1)
  <2>1. CASE capped
    <3>1. Filler!Name(k, past, flight.to)
      BY <1>2, <2>1
    <3> QED BY <1>1, <3>1, NameTypes
  <2>2. CASE ~capped
    <3>1. named' = named
      BY <1>2, <2>2
    <3> QED BY <2>2, <3>1 DEF FillTypes
  <2> QED BY <2>1, <2>2
<1> QED BY <1>7, <1>8

-----------------------------------------------------------------------------
(* What a session's loss, and a settle, give each key to ask.              *)
LEMMA LostIs ==
  ASSUME FillTypes, Filler!SessionLost
  PROVE  \E from \in [GapKeys -> Nat] :
           /\ \A k \in GapKeys : from[k] <= clock
           /\ DOMAIN queue' \subseteq Keys /\ queue' \in [DOMAIN queue' -> Fill]
           /\ \A k \in DOMAIN queue : /\ k \in DOMAIN queue'
                                      /\ queue'[k].from <= queue[k].from
                                      /\ queue'[k].due >= queue[k].due
           /\ \A k \in GapKeys : /\ k \in DOMAIN queue' /\ queue'[k].from <= from[k] - 1
                                 /\ queue'[k].due >= clock + Filler!Width(k)
           /\ owed' = [k \in Keys |->
                IF k \in GapKeys
                THEN owed[k] \cup {b \in Filler!Bars(k) :
                                     from[k] < b + Filler!Width(k) /\ b <= clock}
                ELSE owed[k]]
<1>1. PICK from \in [GapKeys -> {clock - 2, clock - 1} \cap Nat] :
        /\ queue' = Filler!MergeAll(queue, [k \in GapKeys |-> Filler!GapFill(k, from[k])])
        /\ owed' = [k \in Keys |->
             IF k \in GapKeys
             THEN owed[k] \cup {b \in Filler!Bars(k) : from[k] < b + Filler!Width(k) /\ b <= clock}
             ELSE owed[k]]
  BY DEF Filler!SessionLost
<1>2. clock \in Nat /\ DOMAIN queue \subseteq Keys /\ queue \in [DOMAIN queue -> Fill]
      /\ GapKeys \subseteq Keys
  BY ParamsHold DEF FillTypes, FillParams, Filler!KeysAssumption
<1>3. from \in [GapKeys -> Nat] /\ \A k \in GapKeys : from[k] \in Nat /\ from[k] <= clock
  BY <1>2
<1> DEFINE g == [k \in GapKeys |-> Filler!GapFill(k, from[k])]
           r == Batch(queue, GapKeys, g)
<1>4. queue' = r
  BY <1>1 DEF Filler!MergeAll, Batch
<1>5. \A k \in GapKeys : /\ g[k] \in Fill /\ g[k].from = from[k] - 1
                         /\ g[k].due = clock + Filler!Width(k)
  <2> TAKE k \in GapKeys
  <2>1. from[k] \in Nat /\ Filler!Width(k) \in Nat /\ clock \in Nat
    BY <1>2, <1>3, ShapeOf
  <2>2. g[k] = [from |-> from[k] - 1, due |-> clock + Filler!Width(k),
                attempts |-> 0, chain |-> FALSE, pages |-> 0]
    BY DEF Filler!GapFill, Filler!Overlap
  <2> HIDE DEF g
  <2> QED BY <2>1, <2>2 DEF Fill
<1>6. g \in [GapKeys -> Fill] /\ GapKeys \in SUBSET Keys
  BY <1>2, <1>5
<1> HIDE DEF g
<1>7. /\ DOMAIN r = DOMAIN queue \cup GapKeys /\ r \in [DOMAIN r -> Fill]
      /\ \A k \in DOMAIN queue : r[k].from <= queue[k].from /\ r[k].due >= queue[k].due
      /\ \A k \in GapKeys : r[k].from <= g[k].from /\ r[k].due >= g[k].due
  BY <1>2, <1>6, BatchIs
<1> HIDE DEF r
<1>8. \A k \in GapKeys : r[k].from <= from[k] - 1 /\ r[k].due >= clock + Filler!Width(k)
  BY <1>5, <1>7
<1> QED BY <1>1, <1>2, <1>3, <1>4, <1>7, <1>8

LEMMA SettledIs ==
  ASSUME FillTypes, Filler!SettleStep
  PROVE  LET S == {k \in SettleKeys : settled[k] < Filler!Floor(k, clock)}
         IN  /\ S \subseteq Keys
             /\ DOMAIN queue' \subseteq Keys /\ queue' \in [DOMAIN queue' -> Fill]
             /\ \A k \in DOMAIN queue : /\ k \in DOMAIN queue'
                                        /\ queue'[k].from <= queue[k].from
                                        /\ queue'[k].due >= queue[k].due
             /\ \A k \in S : /\ k \in DOMAIN queue' /\ queue'[k].from <= settled[k]
                             /\ queue'[k].due >= clock
             /\ owed' = [k \in Keys |->
                  IF k \in S
                  THEN owed[k] \cup {b \in Filler!Bars(k) :
                                       settled[k] <= b /\ Filler!Closed(k, b, clock)}
                  ELSE owed[k]]
             /\ settled' \in [SettleKeys -> Int]
<1> DEFINE S == {k \in SettleKeys : settled[k] < Filler!Floor(k, clock)}
           g == [k \in S |-> Filler!SettleFill(k)]
           r == Batch(queue, S, g)
<1>1. /\ queue' = Filler!MergeAll(queue, [k \in S |-> Filler!SettleFill(k)])
      /\ settled' = [k \in SettleKeys |-> Filler!Later(settled[k], Filler!Floor(k, clock))]
      /\ owed' = [k \in Keys |->
           IF k \in S
           THEN owed[k] \cup {b \in Filler!Bars(k) : settled[k] <= b /\ Filler!Closed(k, b, clock)}
           ELSE owed[k]]
  BY DEF Filler!SettleStep
<1>2. clock \in Nat /\ DOMAIN queue \subseteq Keys /\ queue \in [DOMAIN queue -> Fill]
      /\ SettleKeys \subseteq Keys /\ settled \in [SettleKeys -> Int]
  BY ParamsHold DEF FillTypes, FillParams, Filler!KeysAssumption
<1>3. queue' = r
  BY <1>1 DEF Filler!MergeAll, Batch
<1>4. \A k \in S : g[k] \in Fill /\ g[k].from <= settled[k] /\ g[k].due = clock
  <2> TAKE k \in S
  <2>1. settled[k] \in Int /\ Filler!Width(k) \in Nat /\ clock \in Nat
    BY <1>2, ShapeOf
  <2>2. g[k] = [from |-> settled[k] - Filler!Width(k), due |-> clock,
                attempts |-> 0, chain |-> FALSE, pages |-> 0]
    BY DEF Filler!SettleFill
  <2> HIDE DEF g
  <2> QED BY <2>1, <2>2 DEF Fill
<1>5. g \in [S -> Fill] /\ S \in SUBSET Keys
  BY <1>2, <1>4
<1>6. settled' \in [SettleKeys -> Int]
  <2>1. \A k \in SettleKeys : Filler!Floor(k, clock) \in Int
    BY <1>2, ShapeOf DEF Filler!Floor
  <2>2. \A k \in SettleKeys : Filler!Later(settled[k], Filler!Floor(k, clock)) \in Int
    BY <1>2, <2>1, LaterSooner
  <2> QED BY <1>1, <2>2
<1>7. \A k \in S : settled[k] \in Int
  BY <1>2
<1> HIDE DEF g, S
<1>8. /\ DOMAIN r = DOMAIN queue \cup S /\ r \in [DOMAIN r -> Fill]
      /\ \A k \in DOMAIN queue : r[k].from <= queue[k].from /\ r[k].due >= queue[k].due
      /\ \A k \in S : r[k].from <= g[k].from /\ r[k].due >= g[k].due
  BY <1>2, <1>5, BatchIs
<1> HIDE DEF r
<1>9. \A k \in S : r[k].from <= settled[k] /\ r[k].due >= clock
  <2> TAKE k \in S
  <2>1. g[k] \in Fill /\ r[k] \in Fill
    BY <1>4, <1>8
  <2>2. g[k].from \in Int /\ r[k].from \in Int /\ g[k].due \in Nat /\ r[k].due \in Nat
    BY <2>1 DEF Fill
  <2> QED BY <1>4, <1>7, <1>8, <2>2
<1>10. /\ S \subseteq Keys
       /\ DOMAIN queue' \subseteq Keys /\ queue' \in [DOMAIN queue' -> Fill]
       /\ \A k \in DOMAIN queue : /\ k \in DOMAIN queue' /\ queue'[k].from <= queue[k].from
                                  /\ queue'[k].due >= queue[k].due
       /\ \A k \in S : /\ k \in DOMAIN queue' /\ queue'[k].from <= settled[k]
                       /\ queue'[k].due >= clock
  BY <1>2, <1>3, <1>5, <1>8, <1>9
<1> QED BY <1>1, <1>6, <1>10 DEF S

-----------------------------------------------------------------------------
(* FillInv holds of the first state and of every step.                     *)
LEMMA FillsInitInv ==
  ASSUME Filler!Init
  PROVE  FillInv /\ Filler!NothingForgotten
<1> USE DEF Filler!Init
<1>1. /\ FillsBoot \in Nat /\ FillsBoot <= FillsTime /\ FillsTime \in Nat
      /\ DOMAIN HistoryFrom \subseteq Keys /\ SettleKeys \subseteq Keys
      /\ \A k \in DOMAIN HistoryFrom : HistoryFrom[k] \in Int
  BY ParamsHold DEF FillParams, Filler!BoundsAssumption, Filler!KeysAssumption
<1>2. \A k \in DOMAIN HistoryFrom : Filler!HistoryFill(k) \in Fill
                                    /\ Filler!HistoryFill(k).due = FillsBoot
  <2> TAKE k \in DOMAIN HistoryFrom
  <2> DEFINE from == Filler!Later(HistoryFrom[k], FillsBoot - Paging[k].reach)
  <2>1. from \in Int
    BY <1>1, ShapeOf, LaterSooner
  <2>2. Filler!HistoryFill(k) = [from |-> from, due |-> FillsBoot, attempts |-> 0,
                                 chain |-> TRUE, pages |-> 0]
    BY DEF Filler!HistoryFill
  <2> HIDE DEF from
  <2> QED BY <1>1, <2>1, <2>2 DEF Fill
<1>3. DOMAIN queue \subseteq Keys /\ queue \in [DOMAIN queue -> Fill]
  BY <1>1, <1>2
<1>4. settled \in [SettleKeys -> Int]
  <2>1. \A k \in SettleKeys : Filler!Floor(k, FillsBoot) \in Int
    BY <1>1, ShapeOf DEF Filler!Floor
  <2> QED BY <2>1
<1>5. \A k \in Keys : owed[k] \subseteq Filler!Bars(k) /\ Filler!Bars(k) \subseteq Nat
  BY BarsAre
<1>6. owed \in [Keys -> SUBSET Nat] /\ taken \in [Keys -> SUBSET Nat]
      /\ named \in [Keys -> SUBSET Nat]
  BY <1>5
<1>7. FillTypes
  BY <1>1, <1>3, <1>4, <1>5, <1>6 DEF FillTypes
<1>8. AsksAPage /\ PaceHolds
  BY LandedIs DEF AsksAPage, PaceHolds
<1>9. Filler!NothingForgotten
  <2> SUFFICES ASSUME NEW k \in Keys, NEW b \in owed[k]
               PROVE  Filler!Queued(k, b)
    BY DEF Filler!NothingForgotten
  <2>1. k \in DOMAIN HistoryFrom /\ queue[k] = Filler!HistoryFill(k)
        /\ queue[k].from <= b /\ Filler!Closed(k, b, FillsBoot)
    OBVIOUS
  <2>2. Filler!Later(clock, queue[k].due) = clock
    BY <1>1, <1>2, <2>1 DEF Filler!Later
  <2> QED BY <2>1, <2>2 DEF Filler!Queued
<1> QED BY <1>7, <1>8, <1>9 DEF FillInv

(* The instance counts as this module does.                                *)
LEMMA SameCount == \A S : Filler!Cardinality(S) = Cardinality(S)
BY DEF Filler!Cardinality, Cardinality

(* A page is some of the bars asked for, and those are finitely many.      *)
Asked == {b \in Filler!Bars(flight.key) : flight.fill.from <= b /\ b < flight.to}

LEMMA AskedIs ==
  ASSUME FillTypes, flight.out
  PROVE  /\ flight \in Request /\ flight.key \in Keys /\ flight.fill \in Fill
         /\ flight.fill.from \in Int /\ flight.to \in Int /\ flight.at \in Nat
         /\ IsFiniteSet(Asked) /\ Asked \subseteq Nat
         /\ Filler!Page \subseteq Asked /\ IsFiniteSet(Filler!Page)
         /\ Filler!Page = IF Paging[flight.key].forward
              THEN {b \in Asked : Cardinality({c \in Asked : c < b}) < Paging[flight.key].rows}
              ELSE {b \in Asked : Cardinality({c \in Asked : c > b}) < Paging[flight.key].rows}
<1>1. flight \in Request
  BY LandedIs DEF FillTypes
<1>2. flight.key \in Keys /\ flight.fill \in Fill /\ flight.to \in Int /\ flight.at \in Nat
  BY <1>1 DEF Request
<1>3. flight.fill.from \in Int
  BY <1>2 DEF Fill
<1>4. FillsTime \in Nat
  BY ParamsHold DEF FillParams, Filler!BoundsAssumption
<1>5. IsFiniteSet(0 .. FillsTime)
  BY <1>4, FS_Interval
<1>6. Asked \in SUBSET (0 .. FillsTime)
  BY DEF Asked, Filler!Bars
<1>7. IsFiniteSet(Asked) /\ Asked \subseteq Nat
  <2>1. IsFiniteSet(Asked)
    BY <1>5, <1>6, FS_Subset
  <2> QED BY <1>4, <1>6, <2>1
<1>8. Filler!Page = IF Paging[flight.key].forward
        THEN {b \in Asked : Cardinality({c \in Asked : c < b}) < Paging[flight.key].rows}
        ELSE {b \in Asked : Cardinality({c \in Asked : c > b}) < Paging[flight.key].rows}
  BY SameCount DEF Filler!Page, Asked
<1>9. Filler!Page \subseteq Asked
  BY <1>8
<1>10. IsFiniteSet(Filler!Page)
  BY <1>7, <1>9, FS_Subset
<1> QED BY <1>1, <1>2, <1>3, <1>7, <1>8, <1>9, <1>10

(* A set of naturals that is not empty has a least element, and one with   *)
(* finitely many a greatest.                                               *)
LEMMA LeastNat ==
  ASSUME NEW S \in SUBSET Nat, S # {}
  PROVE  \E m \in S : \A k \in S : m <= k
<1>1. IsWellFoundedOn(OpToRel(<, Nat), Nat)
  BY NatLessThanWellFounded
<1>2. PICK m \in S : \A k \in S : ~(<<k, m>> \in OpToRel(<, Nat))
  BY <1>1, WFMin
<1>3. \A k \in S : ~(k < m)
  BY <1>2 DEF OpToRel
<1> QED BY <1>3

LEMMA LastBar ==
  ASSUME NEW k \in Keys, NEW S \in SUBSET Filler!Bars(k), S # {}
  PROVE  Filler!Max(S) \in S /\ \A x \in S : x <= Filler!Max(S)
<1> DEFINE Above == {u \in Nat : \A x \in S : x <= u}
<1>1. S \subseteq 0 .. FillsTime /\ FillsTime \in Nat
  BY ParamsHold DEF FillParams, Filler!BoundsAssumption, Filler!Bars
<1>2. FillsTime \in Above
  BY <1>1
<1>3. PICK u \in Above : \A v \in Above : u <= v
  BY <1>2, LeastNat
<1>4. u \in S
  <2> SUFFICES ASSUME u \notin S PROVE FALSE
    OBVIOUS
  <2>1. \A x \in S : x < u
    BY <1>1
  <2>2. PICK x \in S : TRUE
    OBVIOUS
  <2>3. u - 1 \in Above /\ u \in Nat
    BY <1>1, <2>1, <2>2
  <2> QED BY <1>3, <2>3
<1>5. \E x \in S : \A y \in S : x >= y
  BY <1>1, <1>4
<1>6. Filler!Max(S) \in S /\ \A y \in S : Filler!Max(S) >= y
  BY <1>5, Zenon DEF Filler!Max
<1>7. \A y \in S : y \in Nat
  BY <1>1
<1> QED BY <1>6, <1>7

LEMMA Products ==
  ASSUME NEW a \in Int, NEW b \in Int, a <= b, NEW c \in Nat
  PROVE  a * c <= b * c /\ a * c \in Int /\ b * c \in Int
<1>1. a * c \in Int /\ b * c \in Int /\ (b - a) * c \in Int
  OBVIOUS
<1>2. b - a \in Nat /\ (b - a) * c >= 0
  OBVIOUS
<1>3. (b - a) * c = b * c - a * c
  OBVIOUS
<1> QED BY <1>1, <1>2, <1>3

(* Between a bar and the end of a page's reach there are fewer bars than a *)
(* page holds.                                                             *)
LEMMA FewerThanAPage ==
  ASSUME NEW W \in Nat \ {0}, NEW rows \in Nat \ {0}, NEW b \in Nat, b % W = 0,
         NEW D \in SUBSET Nat,
         \A c \in D : c % W = 0 /\ c > b /\ c < b + rows * W
  PROVE  IsFiniteSet(D) /\ Cardinality(D) < rows
<1> DEFINE p == b \div W
           T == (p + 1) .. (p + rows - 1)
           f == [c \in D |-> c \div W]
<1>1. p \in Int /\ b = p * W
  OBVIOUS
<1>2. \A c \in D : c \in Nat /\ f[c] \in Int /\ c = f[c] * W
  <2> TAKE c \in D
  <2>1. c \in Nat /\ c % W = 0
    OBVIOUS
  <2>2. c \div W \in Int /\ c = (c \div W) * W
    BY <2>1
  <2> QED BY <2>1, <2>2
<1> HIDE DEF p, f
<1>3. \A c \in D : f[c] \in T
  <2> SUFFICES ASSUME NEW c \in D PROVE f[c] \in T
    OBVIOUS
  <2>1. c > b /\ c < b + rows * W
    OBVIOUS
  <2> DEFINE q == f[c]
  <2>2. q \in Int /\ c = q * W
    BY <1>2
  <2> HIDE DEF q
  <2>3. q > p
    <3> SUFFICES ASSUME q <= p PROVE FALSE
      BY <1>1, <2>2
    <3>1. q * W <= p * W
      BY <1>1, <2>2, Products
    <3> QED BY <1>1, <2>1, <2>2, <3>1
  <2>4. q < p + rows
    <3> SUFFICES ASSUME p + rows <= q PROVE FALSE
      BY <1>1, <2>2
    <3>1. (p + rows) * W <= q * W
      BY <1>1, <2>2, Products
    <3>2. (p + rows) * W = p * W + rows * W /\ p * W \in Int /\ rows * W \in Int
      BY <1>1
    <3>3. q * W \in Int
      BY <2>2
    <3> QED BY <1>1, <2>1, <2>2, <3>1, <3>2, <3>3
  <2>5. q \in T
    BY <1>1, <2>2, <2>3, <2>4
  <2> QED BY <2>5 DEF q
<1>4. f \in Injection(D, T)
  <2>1. f \in [D -> T]
    BY <1>3 DEF f
  <2>2. \A c, d \in D : f[c] = f[d] => c = d
    BY <1>2
  <2> QED BY <2>1, <2>2 DEF Injection, IsInjective
<1>5. IsFiniteSet(T) /\ Cardinality(T) = rows - 1
  <2>1. p + 1 \in Int /\ p + rows - 1 \in Int
    BY <1>1
  <2>2. IsFiniteSet(T) /\ Cardinality(T) = IF p + 1 > p + rows - 1 THEN 0
                                           ELSE (p + rows - 1) - (p + 1) + 1
    BY <2>1, FS_Interval
  <2> QED BY <1>1, <2>2
<1> HIDE DEF T
<1>6. IsFiniteSet(D) /\ Cardinality(D) <= Cardinality(T)
  BY <1>4, <1>5, FS_Injection
<1>7. Cardinality(D) \in Nat
  BY <1>6, FS_CardinalityType
<1> QED BY <1>5, <1>6, <1>7

(* A page that pages backward brings all that was asked; one that pages    *)
(* forward is full when it leaves a bar out, and that bar is past it.      *)
LEMMA PageHolds ==
  ASSUME FillTypes, AsksAPage, flight.out, NEW b \in Asked, b \notin Filler!Page
  PROVE  /\ Filler!FullForward /\ Filler!PastPage \in Int /\ Filler!PastPage <= b
<1> DEFINE k == flight.key
           W == Filler!Width(k)
           rows == Paging[k].rows
           P == Filler!Page
           before(x) == {c \in Asked : c < x}
<1>1. /\ k \in Keys /\ flight.fill.from \in Int /\ flight.to \in Int
      /\ IsFiniteSet(Asked) /\ Asked \subseteq Nat /\ P \subseteq Asked /\ IsFiniteSet(P)
      /\ P = IF Paging[k].forward
             THEN {x \in Asked : Cardinality({c \in Asked : c < x}) < rows}
             ELSE {x \in Asked : Cardinality({c \in Asked : c > x}) < rows}
  BY AskedIs
<1>2. W \in Nat \ {0} /\ rows \in Nat \ {0} /\ W = Paging[k].width
  BY <1>1, ShapeOf
<1>3. \A c \in Asked : c \in Filler!Bars(k) /\ c % W = 0 /\ flight.fill.from <= c /\ c < flight.to
  BY DEF Asked, Filler!Bars
<1>4. Paging[k].forward
  <2> SUFFICES ASSUME ~Paging[k].forward PROVE FALSE
    OBVIOUS
  <2> DEFINE D == {c \in Asked : c > b}
             size == rows * W
  <2>1. flight.to <= flight.fill.from + size
    BY <1>2 DEF AsksAPage
  <2>2. size \in Int /\ b \in Nat
    BY <1>1, <1>2
  <2> HIDE DEF size
  <2>3. \A c \in D : c < b + size
    <3> TAKE c \in D
    <3>1. c \in Nat /\ c < flight.to /\ flight.fill.from <= b
      BY <1>1, <1>3
    <3> QED BY <1>1, <2>1, <2>2, <3>1
  <2>4. D \in SUBSET Nat /\ \A c \in D : c % W = 0 /\ c > b /\ c < b + rows * W
    BY <1>1, <1>3, <2>3 DEF size
  <2>5. b % W = 0
    BY <1>3
  <2> HIDE DEF D, W, rows, k
  <2>6. Cardinality(D) < rows
    BY <1>2, <2>2, <2>4, <2>5, FewerThanAPage
  <2>7. b \in P
    BY <1>1, <2>6 DEF D, k, rows
  <2> QED BY <2>7
<1>5. P = {x \in Asked : Cardinality(before(x)) < rows}
  BY <1>1, <1>4
<1>6. \A x \in Asked : IsFiniteSet(before(x)) /\ Cardinality(before(x)) \in Nat
  BY <1>1, FS_Subset, FS_CardinalityType
<1>7. Cardinality(P) \in Nat /\ Cardinality(P) >= rows
  <2>1. Asked \ P \in SUBSET Nat /\ Asked \ P # {}
    BY <1>1
  <2>2. PICK m \in Asked \ P : \A x \in Asked \ P : m <= x
    BY <2>1, LeastNat
  <2>3. before(m) \in SUBSET P
    <3> SUFFICES ASSUME NEW c \in Asked, c < m, c \notin P PROVE FALSE
      OBVIOUS
    <3> QED BY <1>1, <2>2
  <2>4. ~(Cardinality(before(m)) < rows)
    BY <1>5, <2>2
  <2> HIDE DEF before, P, rows
  <2>5. Cardinality(before(m)) <= Cardinality(P) /\ Cardinality(P) \in Nat
    BY <1>1, <2>3, FS_Subset, FS_CardinalityType
  <2>6. Cardinality(before(m)) \in Nat /\ rows \in Nat
    BY <1>2, <1>6, <2>2
  <2> QED BY <2>4, <2>5, <2>6
<1>8. P # {}
  <2> HIDE DEF P, rows
  <2>1. Cardinality({}) = 0
    BY FS_EmptySet
  <2> QED BY <1>2, <1>7, <2>1
<1>9. Filler!Max(P) \in P /\ \A x \in P : x <= Filler!Max(P)
  <2>1. P \in SUBSET Filler!Bars(k)
    BY <1>1, <1>3
  <2> HIDE DEF P, k
  <2> QED BY <1>1, <1>8, <2>1, LastBar
<1>10. Filler!Max(P) < b
  <2> DEFINE m == Filler!Max(P)
  <2>1. m \in Asked /\ m \in Nat /\ b \in Nat /\ Cardinality(before(m)) < rows
    BY <1>1, <1>5, <1>9
  <2>2. ~(Cardinality(before(b)) < rows)
    BY <1>5
  <2> SUFFICES ASSUME ~(m < b) PROVE FALSE
    OBVIOUS
  <2>3. before(b) \in SUBSET before(m)
    <3> SUFFICES ASSUME NEW c \in Asked, c < b PROVE c < m
      OBVIOUS
    <3>1. c \in Nat /\ b <= m
      BY <1>1, <2>1
    <3> HIDE DEF m
    <3> QED BY <2>1, <3>1
  <2> HIDE DEF before, m, rows
  <2>4. Cardinality(before(b)) <= Cardinality(before(m))
    BY <1>6, <2>1, <2>3, FS_Subset
  <2> QED BY <1>2, <1>6, <2>1, <2>2, <2>4
<1>11. Filler!PastPage = Filler!Max(P) + 1 /\ Filler!Max(P) \in Nat /\ b \in Nat
  BY <1>1, <1>9 DEF Filler!PastPage
<1>12. Filler!FullForward
  BY <1>2, <1>4, <1>7, SameCount DEF Filler!FullForward
<1> QED BY <1>10, <1>11, <1>12

-----------------------------------------------------------------------------
(* FillInv, action by action.                                              *)
LEMMA StartInv ==
  ASSUME FillInv, Filler!StartDueFill
  PROVE  FillInv' /\ holdUntil <= clock
<1> USE DEF FillInv
<1>1. PICK k \in Filler!DueKeys, from \in Int :
        /\ k \in Keys /\ flight' \in Request /\ flight'.key = k /\ flight'.fill.from = from
        /\ flight'.to = Filler!StepTo(k, from) /\ flight'.at = clock
        /\ DOMAIN queue' \subseteq Keys /\ queue' \in [DOMAIN queue' -> Fill]
        /\ Filler!Name(k, queue[k].from, from)
  BY StartIs
<1>2. /\ clock' = clock /\ settled' = settled /\ owed' = owed /\ taken' = taken
      /\ holdUntil' = holdUntil /\ nextStart' = Filler!In(Pause) /\ nextStart <= clock
  BY DEF Filler!StartDueFill, Filler!Ready, Filler!settle
<1>3. Pause \in Nat
  BY ParamsHold DEF FillParams, Filler!PaceAssumption
<1>4. Filler!In(Pause) \in Nat /\ Filler!In(Pause) >= clock /\ clock \in Nat
  BY <1>3, ClockIs DEF FillTypes
<1>5. named' \in [Keys -> SUBSET Nat]
  BY <1>1, NameTypes
<1>6. FillTypes'
  <2>1. \A j \in Keys : owed'[j] \subseteq Filler!Bars(j)'
    BY <1>2 DEF FillTypes, Filler!Bars, Filler!Width
  <2> QED BY <1>1, <1>2, <1>4, <1>5, <2>1 DEF FillTypes
<1>7. AsksAPage'
  BY <1>1, <1>2, <1>4, StepIs DEF AsksAPage
<1>8. PaceHolds' /\ holdUntil <= clock
  BY <1>2, <1>4 DEF PaceHolds, FillTypes
<1> QED BY <1>6, <1>7, <1>8

(* Every other step leaves the request alone or ends it.                   *)
LEMMA OthersInv ==
  ASSUME FillInv, clock' \in Nat, clock' <= FillsTime, clock <= clock',
         DOMAIN queue' \subseteq Keys, queue' \in [DOMAIN queue' -> Fill],
         flight' = flight \/ flight' = Filler!Landed,
         nextStart' \in Nat, holdUntil' \in Nat, holdUntil' <= nextStart',
         settled' \in [SettleKeys -> Int], taken' \in [Keys -> SUBSET Nat],
         named' \in [Keys -> SUBSET Nat], owed' \in [Keys -> SUBSET Nat],
         \A k \in Keys : owed'[k] \subseteq Filler!Bars(k)
  PROVE  FillInv'
<1> USE DEF FillInv
<1>1. FillTypes'
  <2>1. flight' = Filler!Landed \/ flight' \in Request
    BY DEF FillTypes
  <2>2. Filler!Landed' = Filler!Landed
    BY DEF Filler!Landed
  <2>3. \A j \in Keys : owed'[j] \subseteq Filler!Bars(j)'
    BY DEF Filler!Bars, Filler!Width
  <2> QED BY <2>1, <2>2, <2>3 DEF FillTypes
<1>2. AsksAPage'
  <2>1. CASE flight' = Filler!Landed
    BY <2>1, LandedIs DEF AsksAPage
  <2>2. CASE flight' = flight /\ flight.out
    <3>1. flight.at \in Nat /\ clock \in Nat
      BY <2>2, AskedIs DEF FillTypes
    <3> QED BY <2>2, <3>1 DEF AsksAPage
  <2>3. CASE flight' = flight /\ ~flight.out
    BY <2>3 DEF AsksAPage
  <2> QED BY <2>1, <2>2, <2>3
<1>3. PaceHolds'
  BY DEF PaceHolds
<1> QED BY <1>1, <1>2, <1>3

LEMMA TickInv ==
  ASSUME FillInv, Filler!Tick
  PROVE  FillInv'
<1>1. /\ clock' = clock + 1 /\ clock < FillsTime
      /\ queue' = queue /\ flight' = flight /\ nextStart' = nextStart /\ settled' = settled
      /\ owed' = owed /\ taken' = taken /\ named' = named /\ holdUntil' = holdUntil
  BY DEF Filler!Tick, Filler!filler, Filler!settle, Filler!history
<1>2. FillsTime \in Nat /\ clock \in Nat
  BY ParamsHold DEF FillParams, Filler!BoundsAssumption, FillInv, FillTypes
<1>3. clock' \in Nat /\ clock' <= FillsTime /\ clock <= clock'
  BY <1>1, <1>2
<1> QED BY <1>1, <1>3, OthersInv DEF FillInv, FillTypes, PaceHolds

LEMMA LostInv ==
  ASSUME FillInv, Filler!SessionLost
  PROVE  FillInv'
<1>1. /\ clock' = clock /\ flight' = flight /\ nextStart' = nextStart /\ settled' = settled
      /\ taken' = taken /\ named' = named /\ holdUntil' = holdUntil
  BY DEF Filler!SessionLost, Filler!settle
<1>2. PICK from \in [GapKeys -> Nat] :
        /\ DOMAIN queue' \subseteq Keys /\ queue' \in [DOMAIN queue' -> Fill]
        /\ owed' = [k \in Keys |->
             IF k \in GapKeys
             THEN owed[k] \cup {b \in Filler!Bars(k) : from[k] < b + Filler!Width(k) /\ b <= clock}
             ELSE owed[k]]
  BY LostIs DEF FillInv
<1>3. \A k \in Keys : owed'[k] \subseteq Filler!Bars(k)
  BY <1>2 DEF FillInv, FillTypes
<1>4. owed' \in [Keys -> SUBSET Nat]
  <2>1. \A k \in Keys : Filler!Bars(k) \subseteq Nat
    BY BarsAre
  <2>2. owed' = [k \in Keys |-> owed'[k]]
    BY <1>2
  <2> QED BY <1>3, <2>1, <2>2
<1> QED BY <1>1, <1>2, <1>3, <1>4, OthersInv DEF FillInv, FillTypes, PaceHolds

LEMMA SettleInv ==
  ASSUME FillInv, Filler!SettleStep
  PROVE  FillInv'
<1>1. /\ clock' = clock /\ flight' = flight /\ nextStart' = nextStart
      /\ taken' = taken /\ named' = named /\ holdUntil' = holdUntil
  BY DEF Filler!SettleStep
<1> DEFINE S == {k \in SettleKeys : settled[k] < Filler!Floor(k, clock)}
<1>2. /\ DOMAIN queue' \subseteq Keys /\ queue' \in [DOMAIN queue' -> Fill]
      /\ settled' \in [SettleKeys -> Int]
      /\ owed' = [k \in Keys |->
           IF k \in S
           THEN owed[k] \cup {b \in Filler!Bars(k) : settled[k] <= b /\ Filler!Closed(k, b, clock)}
           ELSE owed[k]]
  BY SettledIs DEF FillInv
<1> HIDE DEF S
<1>3. \A k \in Keys : owed'[k] \subseteq Filler!Bars(k)
  BY <1>2 DEF FillInv, FillTypes
<1>4. owed' \in [Keys -> SUBSET Nat]
  <2>1. \A k \in Keys : Filler!Bars(k) \subseteq Nat
    BY BarsAre
  <2>2. owed' = [k \in Keys |-> owed'[k]]
    BY <1>2
  <2> QED BY <1>3, <2>1, <2>2
<1> QED BY <1>1, <1>2, <1>3, <1>4, OthersInv DEF FillInv, FillTypes, PaceHolds

LEMMA CappedIs ==
  ASSUME FillInv, Filler!ChainCapped
  PROVE  /\ FillInv'
         /\ \E k \in Filler!DueKeys :
              /\ k \in Keys /\ queue' = Filler!Without(queue, k)
              /\ DOMAIN queue' = DOMAIN queue \ {k} /\ \A j \in DOMAIN queue' : queue'[j] = queue[j]
              /\ Filler!Name(k, queue[k].from, clock)
<1>1. /\ clock' = clock /\ flight' = flight /\ nextStart' = nextStart /\ settled' = settled
      /\ taken' = taken /\ owed' = owed /\ holdUntil' = holdUntil
  BY DEF Filler!ChainCapped, Filler!settle
<1>2. PICK k \in Filler!DueKeys : /\ queue' = Filler!Without(queue, k)
                                  /\ Filler!Name(k, queue[k].from, clock)
  BY DEF Filler!ChainCapped
<1>3. k \in Keys /\ DOMAIN queue \subseteq Keys /\ queue \in [DOMAIN queue -> Fill]
  BY DEF Filler!DueKeys, FillInv, FillTypes
<1>4. /\ DOMAIN queue' = DOMAIN queue \ {k} /\ queue' \in [DOMAIN queue' -> Fill]
      /\ \A j \in DOMAIN queue' : queue'[j] = queue[j]
  BY <1>2, <1>3, WithoutIs
<1>5. named' \in [Keys -> SUBSET Nat] /\ DOMAIN queue' \subseteq Keys
  BY <1>2, <1>3, <1>4, NameTypes DEF FillInv
<1>6. FillInv'
  BY <1>1, <1>4, <1>5, OthersInv DEF FillInv, FillTypes, PaceHolds
<1> QED BY <1>2, <1>3, <1>4, <1>6

LEMMA NothingToStartInv ==
  ASSUME FillInv, Filler!NothingToStart
  PROVE  FillInv'
<1>1. /\ clock' = clock /\ flight' = flight /\ nextStart' = nextStart /\ settled' = settled
      /\ queue' = queue
      /\ taken' = taken /\ owed' = owed /\ named' = named /\ holdUntil' = holdUntil
  BY DEF Filler!NothingToStart, Filler!settle, Filler!history
<1> QED BY <1>1, OthersInv DEF FillInv, FillTypes, PaceHolds

(* An empty page is not full, and what is past it is not looked at.        *)
LEMMA PastIs ==
  ASSUME FillTypes, flight.out, Filler!FullForward
  PROVE  Filler!PastPage \in Int
<1>1. /\ flight.key \in Keys /\ Asked \subseteq Filler!Bars(flight.key)
      /\ Filler!Page \subseteq Asked /\ Asked \subseteq Nat
  BY AskedIs DEF Asked
<1>2. Filler!Page # {}
  <2>1. Cardinality({}) = 0
    BY FS_EmptySet
  <2>2. Cardinality(Filler!Page) >= Paging[flight.key].rows
    BY SameCount DEF Filler!FullForward
  <2>3. Paging[flight.key].rows \in Nat \ {0}
    BY <1>1, ShapeOf
  <2> QED BY <2>1, <2>2, <2>3
<1> DEFINE P == Filler!Page
<1>3. P \in SUBSET Filler!Bars(flight.key)
  BY <1>1
<1> HIDE DEF P
<1>4. P # {}
  BY <1>2 DEF P
<1>5. Filler!Max(P) \in P
  BY <1>1, <1>3, <1>4, LastBar
<1>6. Filler!PastPage = Filler!Max(P) + 1
  BY DEF P, Filler!PastPage
<1>7. Filler!Max(P) \in Nat
  BY <1>1, <1>5 DEF P
<1> QED BY <1>6, <1>7

LEMMA PageInv ==
  ASSUME FillInv, Filler!PageTaken
  PROVE  FillInv'
<1>1. /\ clock' = clock /\ flight' = Filler!Landed /\ nextStart' = nextStart
      /\ settled' = settled /\ owed' = owed /\ holdUntil' = holdUntil /\ flight.out
      /\ taken' = [taken EXCEPT ![flight.key] =
                     @ \cup {b \in Filler!Page : Filler!Closed(flight.key, b, flight.at)}]
  BY DEF Filler!PageTaken, Filler!settle
<1>2. taken' \in [Keys -> SUBSET Nat]
  <2>1. Filler!Page \subseteq Nat /\ flight.key \in Keys
    BY <1>1, AskedIs DEF FillInv
  <2> QED BY <1>1, <2>1 DEF FillInv, FillTypes
<1>3. /\ DOMAIN queue' \subseteq Keys /\ queue' \in [DOMAIN queue' -> Fill]
      /\ named' \in [Keys -> SUBSET Nat]
  <2>1. CASE Filler!FullForward
    <3>1. Filler!PastPage \in Int
      BY <1>1, <2>1, PastIs DEF FillInv
    <3> QED BY <1>1, <3>1, PageIs DEF FillInv
  <2>2. CASE ~Filler!FullForward
    <3>1. queue' = queue /\ named' = named
      BY <2>2 DEF Filler!PageTaken
    <3> QED BY <3>1 DEF FillInv, FillTypes
  <2> QED BY <2>1, <2>2
<1> QED BY <1>1, <1>2, <1>3, OthersInv DEF FillInv, FillTypes, PaceHolds

LEMMA FailsInv ==
  ASSUME FillInv, Filler!RequestFails
  PROVE  FillInv'
<1>1. /\ clock' = clock /\ flight' = Filler!Landed /\ nextStart' = nextStart
      /\ settled' = settled /\ taken' = taken /\ owed' = owed /\ holdUntil' = holdUntil
      /\ flight.out /\ Filler!RequeueOrDrop(clock) /\ clock \in Nat
  BY DEF Filler!RequestFails, Filler!settle, FillInv, FillTypes
<1>2. /\ DOMAIN queue' \subseteq Keys /\ queue' \in [DOMAIN queue' -> Fill]
      /\ named' \in [Keys -> SUBSET Nat]
  BY <1>1, RequeueOrDropIs DEF FillInv
<1> QED BY <1>1, <1>2, OthersInv DEF FillInv, FillTypes, PaceHolds

LEMMA ThrottledIs ==
  ASSUME FillInv, Filler!Throttled
  PROVE  \E due \in Nat : /\ due >= clock /\ Filler!RequeueOrDrop(due)
                          /\ nextStart' = Filler!Later(nextStart, due)
                          /\ holdUntil' = Filler!Later(holdUntil, due)
<1>1. PICK wait \in Waits : /\ Filler!RequeueOrDrop(Filler!In(wait))
                            /\ nextStart' = Filler!Later(nextStart, Filler!In(wait))
                            /\ holdUntil' = Filler!Later(holdUntil, Filler!In(wait))
  BY DEF Filler!Throttled, Filler!HoldsOff
<1>2. wait \in Nat
  BY ParamsHold DEF FillParams, Filler!PaceAssumption
<1>3. Filler!In(wait) \in Nat /\ Filler!In(wait) >= clock
  BY <1>2, ClockIs DEF FillInv
<1> QED BY <1>1, <1>3

LEMMA ThrottledInv ==
  ASSUME FillInv, Filler!Throttled
  PROVE  FillInv'
<1>1. PICK due \in Nat : /\ Filler!RequeueOrDrop(due)
                         /\ nextStart' = Filler!Later(nextStart, due)
                         /\ holdUntil' = Filler!Later(holdUntil, due)
  BY ThrottledIs
<1>2. /\ clock' = clock /\ flight' = Filler!Landed /\ flight.out
      /\ settled' = settled /\ taken' = taken /\ owed' = owed
  BY DEF Filler!Throttled, Filler!settle
<1>3. /\ DOMAIN queue' \subseteq Keys /\ queue' \in [DOMAIN queue' -> Fill]
      /\ named' \in [Keys -> SUBSET Nat]
  BY <1>1, <1>2, RequeueOrDropIs DEF FillInv
<1>4. nextStart' \in Nat /\ holdUntil' \in Nat /\ holdUntil' <= nextStart'
  BY <1>1 DEF FillInv, FillTypes, PaceHolds, Filler!Later
<1> QED BY <1>2, <1>3, <1>4, OthersInv DEF FillInv, FillTypes, PaceHolds

(* Only start_due_fill sends a request.                                    *)
LEMMA FillsNextInv ==
  ASSUME FillInv, [Filler!Next]_(Filler!vars)
  PROVE  FillInv' /\ (~flight.out /\ flight'.out => holdUntil <= clock)
<1>1. CASE Filler!StartDueFill
  BY <1>1, StartInv
<1>2. CASE Filler!Tick
  <2>1. flight' = flight
    BY <1>2 DEF Filler!Tick, Filler!filler
  <2> QED BY <1>2, <2>1, TickInv
<1>3. CASE Filler!SessionLost
  <2>1. flight' = flight
    BY <1>3 DEF Filler!SessionLost
  <2> QED BY <1>3, <2>1, LostInv
<1>4. CASE Filler!SettleStep
  <2>1. flight' = flight
    BY <1>4 DEF Filler!SettleStep
  <2> QED BY <1>4, <2>1, SettleInv
<1>5. CASE Filler!ChainCapped
  <2>1. flight' = flight
    BY <1>5 DEF Filler!ChainCapped
  <2> QED BY <1>5, <2>1, CappedIs
<1>6. CASE Filler!NothingToStart
  <2>1. flight' = flight
    BY <1>6 DEF Filler!NothingToStart
  <2> QED BY <1>6, <2>1, NothingToStartInv
<1>7. CASE Filler!PageTaken
  <2>1. flight' = Filler!Landed
    BY <1>7 DEF Filler!PageTaken
  <2> QED BY <1>7, <2>1, PageInv, LandedIs
<1>8. CASE Filler!RequestFails
  <2>1. flight' = Filler!Landed
    BY <1>8 DEF Filler!RequestFails
  <2> QED BY <1>8, <2>1, FailsInv, LandedIs
<1>9. CASE Filler!Throttled
  <2>1. flight' = Filler!Landed
    BY <1>9 DEF Filler!Throttled
  <2> QED BY <1>9, <2>1, ThrottledInv, LandedIs
<1>10. CASE UNCHANGED Filler!vars
  <2>1. /\ clock' = clock /\ queue' = queue /\ flight' = flight /\ nextStart' = nextStart
        /\ settled' = settled /\ taken' = taken /\ owed' = owed /\ named' = named
        /\ holdUntil' = holdUntil
    BY <1>10 DEF Filler!vars, Filler!filler, Filler!settle, Filler!history
  <2> QED BY <2>1, OthersInv DEF FillInv, FillTypes, PaceHolds
<1> QED
  BY <1>1, <1>2, <1>3, <1>4, <1>5, <1>6, <1>7, <1>8, <1>9, <1>10
  DEF Filler!Next, Filler!FillStep, Filler!Returned

-----------------------------------------------------------------------------
(* NothingForgotten, action by action, where a fill may take more than one *)
(* attempt.                                                                *)
LEMMA QueuedAt ==
  ASSUME FillInv, NEW k \in Filler!DueKeys, NEW b \in Filler!Bars(k), Filler!Queued(k, b)
  PROVE  /\ k \in Keys /\ b \in Nat /\ clock \in Nat /\ queue[k].from \in Int
         /\ queue[k].from <= b /\ Filler!Closed(k, b, clock) /\ b < clock
<1>1. /\ k \in DOMAIN queue /\ k \in Keys /\ queue[k] \in Fill /\ queue[k].due <= clock
      /\ clock \in Nat
  BY DEF Filler!DueKeys, FillInv, FillTypes
<1>2. queue[k].from \in Int /\ queue[k].due \in Nat /\ b \in Nat
  BY <1>1, BarsAre DEF Fill
<1>3. Filler!Later(clock, queue[k].due) = clock
  BY <1>1, <1>2 DEF Filler!Later
<1>4. queue[k].from <= b /\ Filler!Closed(k, b, clock)
  BY <1>3 DEF Filler!Queued
<1>5. Filler!Width(k) \in Nat \ {0}
  BY <1>1, ShapeOf
<1>6. b < clock
  BY <1>1, <1>2, <1>4, <1>5 DEF Filler!Closed
<1> QED BY <1>1, <1>2, <1>4, <1>6

LEMMA StartKeeps ==
  ASSUME FillInv, Cap > 1, Filler!StartDueFill, NEW k \in Keys, NEW b \in Filler!Bars(k),
         b \in owed[k], Filler!Queued(k, b), b \notin named'[k]
  PROVE  Filler!Queued(k, b)' \/ Filler!OnItsWay(k, b)'
<1>1. PICK j \in Filler!DueKeys, from \in Int :
        /\ j \in Keys /\ from < clock /\ queue[j].from <= from
        /\ flight' \in Request /\ flight'.key = j /\ flight'.fill.from = from
        /\ flight'.to = Filler!StepTo(j, from) /\ flight'.at = clock
        /\ queue' \in [DOMAIN queue' -> Fill]
        /\ \A i \in DOMAIN queue \ {j} :
             /\ i \in DOMAIN queue' /\ queue'[i].from <= queue[i].from
             /\ queue'[i].due >= queue[i].due
        /\ Filler!HasNextStep(j, from) =>
             /\ j \in DOMAIN queue' /\ queue'[j].from <= Filler!NextFrom(j, from)
             /\ queue'[j].due >= clock
        /\ Filler!Name(j, queue[j].from, from)
  BY StartIs DEF FillInv
<1>2. clock' = clock /\ clock \in Nat
  BY DEF Filler!StartDueFill, FillInv, FillTypes
<1>3. CASE k # j
  <2>1. k \in DOMAIN queue
    BY DEF Filler!Queued
  <2>2. /\ k \in DOMAIN queue' /\ queue'[k] \in Fill
        /\ queue'[k].from <= queue[k].from /\ queue'[k].due >= queue[k].due
    BY <1>1, <1>3, <2>1
  <2>3. clock' \in Nat /\ clock <= clock'
    BY <1>2
  <2> QED BY <2>2, <2>3, StaysQueued DEF FillInv
<1>4. CASE k = j
  <2>1. /\ b \in Nat /\ queue[k].from \in Int /\ queue[k].from <= b
        /\ Filler!Closed(k, b, clock) /\ b < clock
    BY <1>4, QueuedAt
  <2>2. b >= from
    <3> SUFFICES ASSUME b < from PROVE FALSE
      BY <2>1
    <3>1. named'[k] = named[k] \cup (owed[k] \cap queue[k].from .. from - 1)
      BY <1>1, <1>4, NameTypes DEF FillInv
    <3>2. b \in queue[k].from .. from - 1
      BY <2>1
    <3> QED BY <3>1, <3>2
  <2> DEFINE to == Filler!StepTo(k, from)
  <2>3. /\ to \in Int /\ to <= clock
        /\ Filler!NextFrom(k, from) = to - 1
    BY StepIs DEF FillInv
  <2>4. CASE b < to
    <3>1. /\ flight'.out /\ flight'.key = k /\ flight'.fill.from <= b /\ b < flight'.to
          /\ flight'.at = clock
      BY <1>1, <1>4, <2>1, <2>2, <2>4 DEF Request
    <3> QED BY <2>1, <3>1 DEF Filler!OnItsWay, Filler!Closed, Filler!Width
  <2>5. CASE b >= to
    <3>1. Filler!HasNextStep(k, from)
      BY <1>2, <2>1, <2>3, <2>5 DEF Filler!HasNextStep
    <3>2. k \in DOMAIN queue' /\ queue'[k].from <= to - 1 /\ queue'[k].due >= clock
      BY <1>1, <1>4, <2>3, <3>1
    <3>3. queue'[k].from \in Int /\ queue'[k].due \in Nat
      BY <1>1, <3>2 DEF Fill
    <3> HIDE DEF to
    <3>4. queue'[k].from <= b
      BY <2>1, <2>3, <2>5, <3>2, <3>3
    <3>5. b + Filler!Width(k) <= Filler!Later(clock', queue'[k].due)
      <4>1. Filler!Width(k) \in Nat /\ b + Filler!Width(k) <= clock
        BY <2>1, ShapeOf DEF Filler!Closed
      <4>2. Filler!Later(clock', queue'[k].due) \in Int
            /\ Filler!Later(clock', queue'[k].due) >= clock
        BY <1>2, <3>3, LaterSooner
      <4> QED BY <1>2, <2>1, <4>1, <4>2
    <3> QED BY <3>2, <3>4, <3>5 DEF Filler!Queued, Filler!Closed, Filler!Width
  <2> QED BY <2>1, <2>3, <2>4, <2>5
<1> QED BY <1>3, <1>4

(* A bar on its way that did not come is asked for again.                  *)
LEMMA AskedAnew ==
  ASSUME FillInv, clock' = clock, NEW k \in Keys, NEW b \in Filler!Bars(k),
         Filler!OnItsWay(k, b), k \in DOMAIN queue', queue'[k] \in Fill,
         NEW from \in Int, from <= b, queue'[k].from <= from, queue'[k].due >= clock
  PROVE  Filler!Queued(k, b)'
<1>1. flight.out /\ flight.key = k /\ b + Filler!Width(k) <= flight.at
  BY DEF Filler!OnItsWay, Filler!Closed
<1>2. flight.at \in Nat /\ flight.at <= clock
  BY <1>1, AskedIs DEF FillInv, AsksAPage
<1>3. queue'[k].from \in Int /\ queue'[k].due \in Nat
  BY DEF Fill
<1>4. b \in Nat /\ Filler!Width(k) \in Nat /\ clock \in Nat
  BY BarsAre, ShapeOf DEF FillInv, FillTypes
<1>5. queue'[k].from <= b
  BY <1>3, <1>4
<1>6. b + Filler!Width(k) <= Filler!Later(clock', queue'[k].due)
  <2>1. Filler!Later(clock', queue'[k].due) \in Int
        /\ Filler!Later(clock', queue'[k].due) >= clock
    BY <1>3, <1>4, LaterSooner
  <2> QED BY <1>1, <1>2, <1>4, <2>1
<1> QED BY <1>5, <1>6 DEF Filler!Queued, Filler!Closed, Filler!Width

LEMMA TickKeeps ==
  ASSUME KeptInv, Filler!Tick
  PROVE  Filler!NothingForgotten'
<1>1. /\ clock' = clock + 1 /\ queue' = queue /\ flight' = flight
      /\ owed' = owed /\ taken' = taken /\ named' = named /\ clock \in Nat
  BY DEF Filler!Tick, Filler!filler, Filler!settle, Filler!history, KeptInv, FillInv, FillTypes
<1> SUFFICES ASSUME NEW k \in Keys, NEW b \in owed[k] \ (taken[k] \cup named[k])
             PROVE  Filler!Queued(k, b)' \/ Filler!OnItsWay(k, b)'
  BY <1>1 DEF Filler!NothingForgotten
<1>2. b \in Filler!Bars(k)
  BY DEF KeptInv, FillInv, FillTypes
<1>3. CASE Filler!Queued(k, b)
  <2>1. k \in DOMAIN queue /\ queue[k] \in Fill
    BY <1>3 DEF Filler!Queued, KeptInv, FillInv, FillTypes
  <2>2. queue[k].from \in Int /\ queue[k].due \in Nat
    BY <2>1 DEF Fill
  <2>3. clock' \in Nat /\ clock <= clock'
    BY <1>1
  <2> QED BY <1>1, <1>2, <1>3, <2>1, <2>2, <2>3, StaysQueued DEF KeptInv, FillInv
<1>4. CASE Filler!OnItsWay(k, b)
  BY <1>1, <1>4 DEF Filler!OnItsWay, Filler!Closed, Filler!Width
<1> QED BY <1>3, <1>4 DEF KeptInv, Filler!NothingForgotten

(* Steps that move no clock and no request, and only ask for more.         *)
LEMMA MergesKeep ==
  ASSUME KeptInv, clock' = clock, flight' = flight, taken' = taken, named' = named,
         queue' \in [DOMAIN queue' -> Fill],
         \A k \in DOMAIN queue : /\ k \in DOMAIN queue' /\ queue'[k].from <= queue[k].from
                                 /\ queue'[k].due >= queue[k].due,
         NEW k \in Keys, NEW b \in owed[k] \ (taken[k] \cup named[k])
  PROVE  Filler!Queued(k, b)' \/ Filler!OnItsWay(k, b)'
<1>1. b \in Filler!Bars(k) /\ clock \in Nat
  BY DEF KeptInv, FillInv, FillTypes
<1>2. CASE Filler!Queued(k, b)
  <2>1. k \in DOMAIN queue
    BY <1>2 DEF Filler!Queued
  <2>2. /\ k \in DOMAIN queue' /\ queue'[k] \in Fill
        /\ queue'[k].from <= queue[k].from /\ queue'[k].due >= queue[k].due
    BY <2>1
  <2>3. clock' \in Nat /\ clock <= clock'
    BY <1>1
  <2> QED BY <1>1, <1>2, <2>2, <2>3, StaysQueued DEF KeptInv, FillInv
<1>3. CASE Filler!OnItsWay(k, b)
  BY <1>3 DEF Filler!OnItsWay, Filler!Closed, Filler!Width
<1> QED BY <1>2, <1>3 DEF KeptInv, Filler!NothingForgotten

LEMMA LostKeeps ==
  ASSUME KeptInv, Filler!SessionLost
  PROVE  Filler!NothingForgotten'
<1>1. /\ clock' = clock /\ flight' = flight /\ taken' = taken /\ named' = named /\ clock \in Nat
  BY DEF Filler!SessionLost, KeptInv, FillInv, FillTypes
<1>2. PICK from \in [GapKeys -> Nat] :
        /\ queue' \in [DOMAIN queue' -> Fill]
        /\ \A k \in DOMAIN queue : /\ k \in DOMAIN queue'
                                   /\ queue'[k].from <= queue[k].from
                                   /\ queue'[k].due >= queue[k].due
        /\ \A k \in GapKeys : /\ k \in DOMAIN queue' /\ queue'[k].from <= from[k] - 1
                              /\ queue'[k].due >= clock + Filler!Width(k)
        /\ owed' = [k \in Keys |->
             IF k \in GapKeys
             THEN owed[k] \cup {b \in Filler!Bars(k) : from[k] < b + Filler!Width(k) /\ b <= clock}
             ELSE owed[k]]
  BY LostIs DEF KeptInv, FillInv
<1> SUFFICES ASSUME NEW k \in Keys, NEW b \in owed'[k] \ (taken[k] \cup named[k])
             PROVE  Filler!Queued(k, b)' \/ Filler!OnItsWay(k, b)'
  BY <1>1 DEF Filler!NothingForgotten
<1>3. CASE b \in owed[k]
  <2>1. b \in owed[k] \ (taken[k] \cup named[k])
    BY <1>3
  <2> QED BY <1>1, <1>2, <2>1, MergesKeep
<1>4. CASE b \notin owed[k]
  <2>1. k \in GapKeys /\ b \in Filler!Bars(k) /\ from[k] < b + Filler!Width(k) /\ b <= clock
    BY <1>2, <1>4
  <2>2. k \in DOMAIN queue' /\ queue'[k] \in Fill /\ queue'[k].from <= from[k] - 1
        /\ queue'[k].due >= clock + Filler!Width(k)
    BY <1>2, <2>1
  <2>3. queue'[k].from \in Int /\ queue'[k].due \in Nat /\ b \in Nat /\ from[k] \in Nat
    BY <2>1, <2>2, BarsAre DEF Fill
  <2>4. Filler!Width(k) \in Nat \ {0} /\ Filler!Width(k) <= 1
    BY <2>1, ShapeOf, ParamsHold DEF FillParams, Filler!KeysAssumption, Filler!Overlap
  <2>5. queue'[k].from <= b
    BY <2>1, <2>2, <2>3, <2>4
  <2>6. b + Filler!Width(k) <= Filler!Later(clock', queue'[k].due)
    <3>1. Filler!Later(clock', queue'[k].due) \in Int
          /\ Filler!Later(clock', queue'[k].due) >= queue'[k].due
      BY <1>1, <2>3, LaterSooner
    <3> QED BY <1>1, <2>1, <2>2, <2>3, <2>4, <3>1
  <2> QED BY <2>2, <2>5, <2>6 DEF Filler!Queued, Filler!Closed, Filler!Width
<1> QED BY <1>3, <1>4

LEMMA SettleKeeps ==
  ASSUME KeptInv, Filler!SettleStep
  PROVE  Filler!NothingForgotten'
<1> DEFINE S == {k \in SettleKeys : settled[k] < Filler!Floor(k, clock)}
<1>1. /\ clock' = clock /\ flight' = flight /\ taken' = taken /\ named' = named /\ clock \in Nat
      /\ settled \in [SettleKeys -> Int]
  BY DEF Filler!SettleStep, KeptInv, FillInv, FillTypes
<1>2. /\ queue' \in [DOMAIN queue' -> Fill]
      /\ \A k \in DOMAIN queue : /\ k \in DOMAIN queue'
                                 /\ queue'[k].from <= queue[k].from
                                 /\ queue'[k].due >= queue[k].due
      /\ \A k \in S : /\ k \in DOMAIN queue' /\ queue'[k].from <= settled[k]
                      /\ queue'[k].due >= clock
      /\ owed' = [k \in Keys |->
           IF k \in S
           THEN owed[k] \cup {b \in Filler!Bars(k) : settled[k] <= b /\ Filler!Closed(k, b, clock)}
           ELSE owed[k]]
  BY SettledIs DEF KeptInv, FillInv
<1>3. S \subseteq SettleKeys
  OBVIOUS
<1> HIDE DEF S
<1> SUFFICES ASSUME NEW k \in Keys, NEW b \in owed'[k] \ (taken[k] \cup named[k])
             PROVE  Filler!Queued(k, b)' \/ Filler!OnItsWay(k, b)'
  BY <1>1 DEF Filler!NothingForgotten
<1>4. CASE b \in owed[k]
  <2>1. b \in owed[k] \ (taken[k] \cup named[k])
    BY <1>4
  <2> QED BY <1>1, <1>2, <2>1, MergesKeep
<1>5. CASE b \notin owed[k]
  <2>1. k \in S /\ b \in Filler!Bars(k) /\ settled[k] <= b /\ b + Filler!Width(k) <= clock
    BY <1>2, <1>5 DEF Filler!Closed
  <2>2. k \in DOMAIN queue' /\ queue'[k] \in Fill /\ queue'[k].from <= settled[k]
        /\ queue'[k].due >= clock
    BY <1>2, <2>1
  <2>3. queue'[k].from \in Int /\ queue'[k].due \in Nat /\ b \in Nat /\ settled[k] \in Int
        /\ Filler!Width(k) \in Nat
    BY <1>1, <1>3, <2>1, <2>2, BarsAre, ShapeOf DEF Fill
  <2>4. queue'[k].from <= b
    BY <2>1, <2>2, <2>3
  <2>5. b + Filler!Width(k) <= Filler!Later(clock', queue'[k].due)
    <3>1. Filler!Later(clock', queue'[k].due) \in Int
          /\ Filler!Later(clock', queue'[k].due) >= queue'[k].due
      BY <1>1, <2>3, LaterSooner
    <3> QED BY <1>1, <2>1, <2>2, <2>3, <3>1
  <2> QED BY <2>2, <2>4, <2>5 DEF Filler!Queued, Filler!Closed, Filler!Width
<1> QED BY <1>4, <1>5

LEMMA StartDueKeeps ==
  ASSUME KeptInv, Cap > 1, Filler!StartDueFill
  PROVE  Filler!NothingForgotten'
<1>1. owed' = owed /\ taken' = taken /\ ~flight.out
  BY DEF Filler!StartDueFill, Filler!Ready
<1>2. \A k \in Keys : named[k] \subseteq named'[k]
  BY StartIs, NameTypes DEF KeptInv, FillInv
<1> SUFFICES ASSUME NEW k \in Keys, NEW b \in owed[k] \ (taken[k] \cup named'[k])
             PROVE  Filler!Queued(k, b)' \/ Filler!OnItsWay(k, b)'
  BY <1>1 DEF Filler!NothingForgotten
<1>3. b \in owed[k] \ (taken[k] \cup named[k]) /\ b \in Filler!Bars(k)
  BY <1>2 DEF KeptInv, FillInv, FillTypes
<1>4. Filler!Queued(k, b)
  BY <1>1, <1>3 DEF KeptInv, Filler!NothingForgotten, Filler!OnItsWay
<1> QED BY <1>3, <1>4, StartKeeps DEF KeptInv

LEMMA CappedKeeps ==
  ASSUME KeptInv, Filler!ChainCapped
  PROVE  Filler!NothingForgotten'
<1>1. PICK j \in Filler!DueKeys :
        /\ j \in Keys
        /\ DOMAIN queue' = DOMAIN queue \ {j} /\ \A i \in DOMAIN queue' : queue'[i] = queue[i]
        /\ Filler!Name(j, queue[j].from, clock)
  BY CappedIs DEF KeptInv
<1>2. owed' = owed /\ taken' = taken /\ clock' = clock /\ ~flight.out
  BY DEF Filler!ChainCapped, Filler!Ready
<1>3. /\ \A k \in Keys : named[k] \subseteq named'[k]
      /\ named'[j] = named[j] \cup (owed[j] \cap queue[j].from .. clock - 1)
  BY <1>1, NameTypes DEF KeptInv, FillInv
<1> SUFFICES ASSUME NEW k \in Keys, NEW b \in owed[k] \ (taken[k] \cup named'[k])
             PROVE  Filler!Queued(k, b)'
  BY <1>2 DEF Filler!NothingForgotten
<1>4. b \in owed[k] \ (taken[k] \cup named[k]) /\ b \in Filler!Bars(k)
  BY <1>3 DEF KeptInv, FillInv, FillTypes
<1>5. Filler!Queued(k, b)
  BY <1>2, <1>4 DEF KeptInv, Filler!NothingForgotten, Filler!OnItsWay
<1>6. k # j
  <2> SUFFICES ASSUME k = j PROVE FALSE
    OBVIOUS
  <2>1. b \in Nat /\ queue[j].from \in Int /\ queue[j].from <= b /\ b < clock /\ clock \in Nat
    BY <1>4, <1>5, QueuedAt DEF KeptInv
  <2>2. b \in queue[j].from .. clock - 1
    BY <2>1
  <2> QED BY <1>3, <2>2
<1>7. k \in DOMAIN queue
  BY <1>5 DEF Filler!Queued
<1>8. k \in DOMAIN queue' /\ queue'[k] = queue[k]
  BY <1>1, <1>6, <1>7
<1> QED BY <1>2, <1>5, <1>8 DEF Filler!Queued, Filler!Closed, Filler!Width

(* A request that came back without a page.                                *)
LEMMA RequeueKeeps ==
  ASSUME KeptInv, flight.out, NEW due \in Nat, due >= clock, Filler!RequeueOrDrop(due),
         clock' = clock, owed' = owed, taken' = taken
  PROVE  Filler!NothingForgotten'
<1>1. /\ queue' \in [DOMAIN queue' -> Fill]
      /\ DOMAIN queue \subseteq DOMAIN queue'
      /\ \A k \in DOMAIN queue : queue'[k].from <= queue[k].from /\ queue'[k].due >= queue[k].due
      /\ \A j \in Keys : named[j] \subseteq named'[j]
      /\ \/ /\ flight.key \in DOMAIN queue'
            /\ queue'[flight.key].from <= flight.fill.from /\ queue'[flight.key].due >= due
         \/ named'[flight.key] =
              named[flight.key] \cup (owed[flight.key] \cap flight.fill.from .. flight.to - 1)
  BY RequeueOrDropIs DEF KeptInv, FillInv
<1>2. /\ flight.key \in Keys /\ flight.fill.from \in Int /\ flight.to \in Int /\ clock \in Nat
  BY AskedIs DEF KeptInv, FillInv, FillTypes
<1> SUFFICES ASSUME NEW k \in Keys, NEW b \in owed[k] \ (taken[k] \cup named'[k])
             PROVE  Filler!Queued(k, b)'
  BY DEF Filler!NothingForgotten
<1>3. b \in owed[k] \ (taken[k] \cup named[k]) /\ b \in Filler!Bars(k) /\ b \in Nat
  BY <1>1, BarsAre DEF KeptInv, FillInv, FillTypes
<1>4. CASE Filler!Queued(k, b)
  <2>1. k \in DOMAIN queue
    BY <1>4 DEF Filler!Queued
  <2>2. /\ k \in DOMAIN queue' /\ queue'[k] \in Fill
        /\ queue'[k].from <= queue[k].from /\ queue'[k].due >= queue[k].due
    BY <1>1, <2>1
  <2>3. clock' \in Nat /\ clock <= clock'
    BY <1>2
  <2> QED BY <1>3, <1>4, <2>2, <2>3, StaysQueued DEF KeptInv, FillInv
<1>5. CASE Filler!OnItsWay(k, b)
  <2>1. flight.key = k /\ flight.fill.from <= b /\ b < flight.to
    BY <1>5 DEF Filler!OnItsWay
  <2>2. b \in flight.fill.from .. flight.to - 1
    BY <1>2, <1>3, <2>1
  <2>3. /\ k \in DOMAIN queue' /\ queue'[k].from <= flight.fill.from /\ queue'[k].due >= due
    BY <1>1, <1>3, <2>1, <2>2
  <2>4. queue'[k] \in Fill /\ queue'[k].due >= clock
    <3>1. queue'[k] \in Fill
      BY <1>1, <2>3
    <3>2. queue'[k].due \in Nat
      BY <3>1 DEF Fill
    <3> QED BY <1>2, <2>3, <3>1, <3>2
  <2> QED BY <1>2, <1>3, <1>5, <2>1, <2>3, <2>4, AskedAnew DEF KeptInv
<1> QED BY <1>3, <1>4, <1>5 DEF KeptInv, Filler!NothingForgotten

LEMMA PageKeeps ==
  ASSUME KeptInv, Filler!PageTaken
  PROVE  Filler!NothingForgotten'
<1>1. /\ clock' = clock /\ owed' = owed /\ flight.out
      /\ taken' = [taken EXCEPT ![flight.key] =
                     @ \cup {b \in Filler!Page : Filler!Closed(flight.key, b, flight.at)}]
  BY DEF Filler!PageTaken
<1>2. /\ flight.key \in Keys /\ flight.fill.from \in Int /\ flight.to \in Int /\ clock \in Nat
      /\ taken \in [Keys -> SUBSET Nat] /\ DOMAIN queue \subseteq Keys
      /\ queue \in [DOMAIN queue -> Fill] /\ named \in [Keys -> SUBSET Nat]
  BY <1>1, AskedIs DEF KeptInv, FillInv, FillTypes
<1>3. \A k \in Keys : taken[k] \subseteq taken'[k]
  BY <1>1, <1>2
<1>4. taken'[flight.key] = taken[flight.key]
        \cup {b \in Filler!Page : Filler!Closed(flight.key, b, flight.at)}
  BY <1>1, <1>2
<1>5. /\ queue' \in [DOMAIN queue' -> Fill]
      /\ \A j \in DOMAIN queue : /\ j \in DOMAIN queue'
                                 /\ queue'[j].from <= queue[j].from
                                 /\ queue'[j].due >= queue[j].due
      /\ \A j \in Keys : named[j] \subseteq named'[j]
  <2>1. CASE Filler!FullForward
    <3>1. Filler!PastPage \in Int
      BY <1>1, <2>1, PastIs DEF KeptInv, FillInv
    <3> QED BY <1>1, <3>1, PageIs DEF KeptInv, FillInv
  <2>2. CASE ~Filler!FullForward
    <3>1. queue' = queue /\ named' = named
      BY <2>2 DEF Filler!PageTaken
    <3>2. \A j \in DOMAIN queue : queue[j].from \in Int /\ queue[j].due \in Nat
      BY <1>2 DEF Fill
    <3> QED BY <1>2, <3>1, <3>2
  <2> QED BY <2>1, <2>2
<1> SUFFICES ASSUME NEW k \in Keys, NEW b \in owed[k] \ (taken'[k] \cup named'[k])
             PROVE  Filler!Queued(k, b)'
  BY <1>1 DEF Filler!NothingForgotten
<1>6. b \in owed[k] \ (taken[k] \cup named[k]) /\ b \in Filler!Bars(k) /\ b \in Nat
  BY <1>3, <1>5, BarsAre DEF KeptInv, FillInv, FillTypes
<1>7. CASE Filler!Queued(k, b)
  <2>1. k \in DOMAIN queue
    BY <1>7 DEF Filler!Queued
  <2>2. /\ k \in DOMAIN queue' /\ queue'[k] \in Fill
        /\ queue'[k].from <= queue[k].from /\ queue'[k].due >= queue[k].due
    BY <1>5, <2>1
  <2>3. clock' \in Nat /\ clock <= clock'
    BY <1>1, <1>2
  <2> QED BY <1>6, <1>7, <2>2, <2>3, StaysQueued DEF KeptInv, FillInv
<1>8. CASE Filler!OnItsWay(k, b)
  <2>1. /\ flight.key = k /\ flight.fill.from <= b /\ b < flight.to
        /\ Filler!Closed(k, b, flight.at)
    BY <1>8 DEF Filler!OnItsWay
  <2>2. b \in Asked
    BY <1>6, <2>1 DEF Asked
  <2>3. b \notin Filler!Page
    BY <1>4, <2>1
  <2>4. Filler!FullForward /\ Filler!PastPage \in Int /\ Filler!PastPage <= b
    BY <1>1, <2>2, <2>3, PageHolds DEF KeptInv, FillInv
  <2> DEFINE past == Filler!PastPage
  <2>5. \/ k \in DOMAIN queue' /\ queue'[k].from <= past /\ queue'[k].due >= clock
        \/ named'[k] = named[k] \cup (owed[k] \cap past .. flight.to - 1)
    BY <1>1, <2>1, <2>4, PageIs DEF KeptInv, FillInv
  <2>6. past \in Int /\ past <= b
    BY <2>4
  <2> HIDE DEF past
  <2>7. b \in past .. flight.to - 1
    BY <1>2, <1>6, <2>1, <2>6
  <2>8. k \in DOMAIN queue' /\ queue'[k].from <= past /\ queue'[k].due >= clock
    BY <1>6, <2>5, <2>7
  <2>9. queue'[k] \in Fill
    BY <1>5, <2>8
  <2> QED BY <1>1, <1>6, <1>8, <2>6, <2>8, <2>9, AskedAnew DEF KeptInv
<1> QED BY <1>6, <1>7, <1>8 DEF KeptInv, Filler!NothingForgotten

LEMMA KeptNext ==
  ASSUME KeptInv, Cap > 1, [Filler!Next]_(Filler!vars)
  PROVE  KeptInv'
<1>1. FillInv'
  BY FillsNextInv DEF KeptInv
<1>2. Filler!NothingForgotten'
  <2>1. CASE Filler!Tick
    BY <2>1, TickKeeps
  <2>2. CASE Filler!SessionLost
    BY <2>2, LostKeeps
  <2>3. CASE Filler!SettleStep
    BY <2>3, SettleKeeps
  <2>4. CASE Filler!StartDueFill
    BY <2>4, StartDueKeeps
  <2>5. CASE Filler!ChainCapped
    BY <2>5, CappedKeeps
  <2>6. CASE Filler!NothingToStart
    <3>1. /\ clock' = clock /\ queue' = queue /\ flight' = flight
          /\ owed' = owed /\ taken' = taken /\ named' = named
      BY <2>6 DEF Filler!NothingToStart, Filler!settle, Filler!history
    <3> QED BY <3>1 DEF KeptInv, Filler!NothingForgotten, Filler!Queued, Filler!OnItsWay,
                        Filler!Closed, Filler!Width
  <2>7. CASE Filler!PageTaken
    BY <2>7, PageKeeps
  <2>8. CASE Filler!RequestFails
    <3>1. /\ clock' = clock /\ owed' = owed /\ taken' = taken /\ flight.out
          /\ Filler!RequeueOrDrop(clock) /\ clock \in Nat /\ clock >= clock
      BY <2>8 DEF Filler!RequestFails, KeptInv, FillInv, FillTypes
    <3> QED BY <3>1, RequeueKeeps
  <2>9. CASE Filler!Throttled
    <3>1. clock' = clock /\ owed' = owed /\ taken' = taken /\ flight.out
      BY <2>9 DEF Filler!Throttled
    <3>2. PICK due \in Nat : due >= clock /\ Filler!RequeueOrDrop(due)
      BY <2>9, ThrottledIs DEF KeptInv
    <3> QED BY <3>1, <3>2, RequeueKeeps
  <2>10. CASE UNCHANGED Filler!vars
    <3>1. /\ clock' = clock /\ queue' = queue /\ flight' = flight
          /\ owed' = owed /\ taken' = taken /\ named' = named
      BY <2>10 DEF Filler!vars, Filler!filler, Filler!settle, Filler!history
    <3> QED BY <3>1 DEF KeptInv, Filler!NothingForgotten, Filler!Queued, Filler!OnItsWay,
                        Filler!Closed, Filler!Width
  <2> QED
    BY <2>1, <2>2, <2>3, <2>4, <2>5, <2>6, <2>7, <2>8, <2>9, <2>10
    DEF Filler!Next, Filler!FillStep, Filler!Returned
<1> QED BY <1>1, <1>2 DEF KeptInv

-----------------------------------------------------------------------------
(* A step of Workers is one of the fills or leaves them alone.             *)
LEMMA WorkersStep ==
  ASSUME [WorkersNext]_workerVars
  PROVE  /\ part' = part
         /\ part = "fills" => [Filler!Next]_(Filler!vars)
         /\ part = "cursor" => [Cursor!Next]_(Cursor!vars)
<1>1. CASE OnlySession /\ Next
  BY <1>1 DEF OnlySession
<1>2. CASE OnlyFills /\ Filler!Next
  BY <1>2 DEF OnlyFills
<1>3. CASE OnlyCursor /\ Cursor!Next
  BY <1>3 DEF OnlyCursor
<1>4. CASE UNCHANGED workerVars
  <2>1. part' = part /\ UNCHANGED fillVars /\ UNCHANGED chainVars
    BY <1>4 DEF workerVars
  <2>2. UNCHANGED Filler!vars
    BY <2>1 DEF fillVars, Filler!vars, Filler!filler, Filler!settle, Filler!history
  <2>3. UNCHANGED Cursor!vars
    BY <2>1 DEF chainVars, Cursor!vars, Cursor!node, Cursor!loop, Cursor!mishaps
  <2> QED BY <2>1, <2>2, <2>3
<1> QED BY <1>1, <1>2, <1>3, <1>4 DEF WorkersNext, AtRest

(* fill_returned: the venue's limit is per IP.  No request of any fill is  *)
(* sent before the longest wait the venue asked for is over.               *)
THEOREM WaitsAreHonoured == WorkersSpec => ThrottleHonoured
<1> DEFINE Inv == part = "fills" => FillInv
           Waits0 == part = "fills" => (~flight.out /\ flight'.out => holdUntil <= clock)
<1>1. WorkersInit => Inv
  BY FillsInitInv DEF WorkersInit, FillsInit
<1>2. Inv /\ [WorkersNext]_workerVars => Inv' /\ [Waits0]_workerVars
  BY WorkersStep, FillsNextInv
<1> QED BY <1>1, <1>2, PTL DEF WorkersSpec, ThrottleHonoured

(* fill_step: whatever order gaps, settles, pages, refusals and failures   *)
(* come in, a bar that was asked for is in the record closed, or named as  *)
(* given up, or a request that is out or queued will bring it closed.  A   *)
(* plan takes more than one step: with walk_cap at 1 what its first page   *)
(* does not reach is asked by nobody and named by nobody.                  *)
THEOREM FillsAreKept ==
  ASSUME Cap > 1
  PROVE  WorkersSpec => []NothingForgotten
<1> DEFINE Inv == part = "fills" => KeptInv
<1>1. WorkersInit => Inv
  BY FillsInitInv DEF WorkersInit, FillsInit, KeptInv
<1>2. Inv /\ [WorkersNext]_workerVars => Inv'
  BY WorkersStep, KeptNext
<1>3. Inv => NothingForgotten
  BY DEF KeptInv, NothingForgotten
<1> QED BY <1>1, <1>2, <1>3, PTL DEF WorkersSpec

-----------------------------------------------------------------------------
(* The cursor: what ChainCursorProofs proves, of the variables and the     *)
(* constants Workers gives it.                                             *)
CursorP == INSTANCE ChainCursorProofs WITH
  faults <- refused, Hazards <- CursorHazards, MaxFaults <- CursorFaults

(* Both instances are of one module, and say the same.                     *)
LEMMA SameCursor ==
  /\ Cursor!Init <=> CursorP!Init
  /\ [Cursor!Next]_(Cursor!vars) <=> [CursorP!Next]_(CursorP!vars)
  /\ Cursor!NoReorgInvented <=> CursorP!NoReorgInvented
  /\ Cursor!ReplacedIsSuperseded <=> CursorP!ReplacedIsSuperseded
  /\ Cursor!CapturedIsCurrent <=> CursorP!CapturedIsCurrent
<1> USE DEF CursorP!node, Cursor!node, CursorP!loop, Cursor!loop, CursorP!mishaps,
            Cursor!mishaps, CursorP!vars, Cursor!vars, CursorP!Cold, Cursor!Cold,
            CursorP!NoPass, Cursor!NoPass, CursorP!NoClaim, Cursor!NoClaim, CursorP!Smaller,
            Cursor!Smaller, CursorP!Larger, Cursor!Larger, CursorP!Newest, Cursor!Newest,
            CursorP!Header, Cursor!Header, CursorP!Logs, Cursor!Logs, CursorP!Reorg,
            Cursor!Reorg, CursorP!LogsRead, Cursor!LogsRead, CursorP!Reorgs, Cursor!Reorgs,
            CursorP!Contradicts, Cursor!Contradicts, CursorP!Superseded, Cursor!Superseded,
            CursorP!Final, Cursor!Final, CursorP!Mine, Cursor!Mine, CursorP!Fork,
            Cursor!Fork, CursorP!Strikes, Cursor!Strikes, CursorP!Narrowed, Cursor!Narrowed,
            CursorP!Widened, Cursor!Widened, CursorP!RewindTo, Cursor!RewindTo,
            CursorP!StepTo, Cursor!StepTo, CursorP!Ends, Cursor!Ends, CursorP!StartPass,
            Cursor!StartPass, CursorP!Heavy, Cursor!Heavy, CursorP!LogsTaken,
            Cursor!LogsTaken, CursorP!LogsRefused, Cursor!LogsRefused, CursorP!PassFails,
            Cursor!PassFails, CursorP!HeaderDone, Cursor!HeaderDone, CursorP!Asked,
            Cursor!Asked, CursorP!HeaderAgrees, Cursor!HeaderAgrees, CursorP!HeaderUnread,
            Cursor!HeaderUnread, CursorP!HeaderDisagrees, Cursor!HeaderDisagrees,
            CursorP!Held, Cursor!Held, CursorP!Readable, Cursor!Readable, CursorP!Rewind,
            Cursor!Rewind, CursorP!Recorded, Cursor!Recorded, CursorP!RecordedOrNot,
            Cursor!RecordedOrNot, CursorP!StillReplaced, Cursor!StillReplaced,
            CursorP!ForkFound, Cursor!ForkFound, CursorP!SearchEnds, Cursor!SearchEnds,
            CursorP!Restart, Cursor!Restart, CursorP!Loop, Cursor!Loop, CursorP!Next,
            Cursor!Next, CursorP!Init, Cursor!Init, CursorP!Read, Cursor!Read, CursorP!Stale,
            Cursor!Stale, CursorP!ForkPending, Cursor!ForkPending, CursorP!ForksAreSeen,
            Cursor!ForksAreSeen, CursorP!Undisturbed, Cursor!Undisturbed,
            CursorP!ReplacedIsSuperseded, Cursor!ReplacedIsSuperseded,
            CursorP!CapturedIsCurrent, Cursor!CapturedIsCurrent, CursorP!NoReorgInvented,
            Cursor!NoReorgInvented, CursorP!EmptyTrail, Cursor!EmptyTrail, CursorP!Disagrees,
            Cursor!Disagrees, CursorP!Claim, Cursor!Claim, CursorP!ForgetFrom,
            Cursor!ForgetFrom, CursorP!Trim, Cursor!Trim, CursorP!Extended, Cursor!Extended,
            CursorP!Advance, Cursor!Advance, CursorP!HeldBelow, Cursor!HeldBelow,
            CursorP!Min, Cursor!Min, CursorP!Max, Cursor!Max, CursorP!Cardinality,
            Cursor!Cardinality
<1>1. Cursor!Init <=> CursorP!Init
  OBVIOUS
<1>2. [Cursor!Next]_(Cursor!vars) <=> [CursorP!Next]_(CursorP!vars)
  OBVIOUS
<1>3. Cursor!NoReorgInvented <=> CursorP!NoReorgInvented
  OBVIOUS
<1>4. Cursor!ReplacedIsSuperseded <=> CursorP!ReplacedIsSuperseded
  OBVIOUS
<1>5. Cursor!CapturedIsCurrent <=> CursorP!CapturedIsCurrent
  OBVIOUS
<1> QED BY <1>1, <1>2, <1>3, <1>4, <1>5

LEMMA CursorParams == CursorP!Params
BY InstancesAssumption
DEF CursorP!Params, CursorP!DepthAssumption, CursorP!PagingAssumption, CursorP!BoundsAssumption,
    Cursor!DepthAssumption, Cursor!PagingAssumption, Cursor!BoundsAssumption,
    CursorP!Hazard, Cursor!Hazard

LEMMA CursorMoves ==
  /\ WorkersInit /\ part = "cursor" => CursorP!Init
  /\ [WorkersNext]_workerVars => part' = part
  /\ [WorkersNext]_workerVars /\ part = "cursor" => [CursorP!Next]_(CursorP!vars)
BY SameCursor, WorkersStep DEF WorkersInit, CursorInit

(* trail.rs, Advance::Reorganised, and cursor.rs, fork_point: whatever the *)
(* depth of the trail, whatever fails and however often capture restarts,  *)
(* no block is recorded as replaced more often than the chain forked.      *)
THEOREM ReorgsAreOfForks == WorkersSpec => []NoReorgInvented
<1> DEFINE Inv == part = "cursor" => CursorP!BaseInv /\ CursorP!ReorgInv
<1>1. WorkersInit => Inv
  BY CursorMoves, CursorParams, CursorP!BaseInit, CursorP!ReorgInit
<1>2. Inv /\ [WorkersNext]_workerVars => Inv'
  BY CursorMoves, CursorParams, CursorP!BaseNext, CursorP!ReorgNext
<1>3. Inv => NoReorgInvented
  <2>1. CursorP!BaseInv /\ CursorP!ReorgInv => CursorP!NoReorgInvented
    BY DEF CursorP!ReorgInv, CursorP!Claims, CursorP!NoReorgInvented
  <2> QED BY <2>1, SameCursor DEF NoReorgInvented
<1> QED BY <1>1, <1>2, <1>3, PTL DEF WorkersSpec

(* What the cursor is worth where the trail is deep enough.                *)
LEMMA CursorKept ==
  ASSUME CursorP!DeepTrail
  PROVE  WorkersSpec => [](part = "cursor" => CursorP!CursorInv)
<1> DEFINE Inv == part = "cursor" => CursorP!CursorInv
<1>1. WorkersInit => Inv
  BY CursorMoves, CursorParams, CursorP!BaseInit, CursorP!MainInit DEF CursorP!CursorInv
<1>2. Inv /\ [WorkersNext]_workerVars => Inv'
  BY CursorMoves, CursorParams, CursorP!BaseNext, CursorP!MainNext DEF CursorP!CursorInv
<1> QED BY <1>1, <1>2, PTL DEF WorkersSpec

(* cursor.rs, one_pass: between two passes, a row whose blocks the chain   *)
(* replaced is contradicted by a recorded reorganisation, or the trail     *)
(* still holds what the next pass will find.                               *)
THEOREM ForksAreContradicted ==
  ASSUME CursorP!DeepTrail
  PROVE  WorkersSpec => []ReplacedIsSuperseded
<1>1. (part = "cursor" => CursorP!CursorInv) => ReplacedIsSuperseded
  <2>1. CursorP!CursorInv => CursorP!ReplacedIsSuperseded
    BY CursorParams, CursorP!SeenBetweenPasses
    DEF CursorP!CursorInv, CursorP!ReplacedIsSuperseded
  <2> QED BY <2>1, SameCursor DEF ReplacedIsSuperseded
<1> QED BY <1>1, CursorKept, PTL

(* cursor.rs, one_pass: between two passes every block up to the cursor,   *)
(* from the first this process captured, has a row of the chain as it is   *)
(* that no reorganisation contradicts.                                     *)
THEOREM BlocksAreCurrent ==
  ASSUME CursorP!DeepTrail
  PROVE  WorkersSpec => []CapturedIsCurrent
<1>1. (part = "cursor" => CursorP!CursorInv) => CapturedIsCurrent
  <2>1. CursorP!CursorInv => CursorP!CapturedIsCurrent
    BY CursorParams, CursorP!CapturedBetweenPasses
    DEF CursorP!CursorInv, CursorP!CapturedIsCurrent, CursorP!Kept
  <2> QED BY <2>1, SameCursor DEF CapturedIsCurrent
<1> QED BY <1>1, CursorKept, PTL

=============================================================================
