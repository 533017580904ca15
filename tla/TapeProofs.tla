------------------------------ MODULE TapeProofs -----------------------------
(***************************************************************************)
(* Proofs about the tape, for any venues, receipts, horizons and days:     *)
(* with rebuilds replacing, failing and killed, retention expiring and a   *)
(* reader without a hold, no row the archive can produce is lost, a        *)
(* replacement that ends leaves each row once, names alone tell a row that *)
(* is there twice, and a view is whole.                                    *)
(***************************************************************************)
EXTENDS Tape, WellFoundedInduction, TLAPS

(* A non-empty set of naturals has a least element.                        *)
LEMMA LeastNat ==
  ASSUME NEW S \in SUBSET Nat, S # {}
  PROVE  Min(S) \in S /\ \A k \in S : Min(S) <= k
<1>1. IsWellFoundedOn(OpToRel(<, Nat), Nat)
  BY NatLessThanWellFounded
<1>2. PICK m \in S : \A k \in S : ~(<<k, m>> \in OpToRel(<, Nat))
  BY <1>1, WFMin
<1>3. \A k \in S : ~(k < m)
  BY <1>2 DEF OpToRel
<1>4. \E x \in S : \A y \in S : x <= y
  BY <1>3
<1> QED BY <1>4 DEF Min

(* A non-empty set of naturals with an upper bound has a greatest element. *)
LEMMA GreatestNat ==
  ASSUME NEW S \in SUBSET Nat, S # {}, NEW b \in Nat, \A k \in S : k <= b
  PROVE  Max(S) \in S /\ \A k \in S : k <= Max(S)
<1> DEFINE Bounds == {u \in Nat : \A k \in S : k <= u}
<1>1. Bounds \in SUBSET Nat /\ Bounds # {}
  OBVIOUS
<1>2. PICK u \in Bounds : \A v \in Bounds : u <= v
  BY <1>1, LeastNat
<1>3. \E x \in S : \A y \in S : x >= y
  <2>1. CASE u \in S
    BY <2>1
  <2>2. CASE u \notin S
    <3>1. \A k \in S : k < u
      BY <2>2
    <3>2. PICK k \in S : TRUE
      OBVIOUS
    <3>3. u - 1 \in Nat /\ \A j \in S : j <= u - 1
      BY <3>1, <3>2
    <3> QED BY <1>2, <3>3
  <2> QED BY <2>1, <2>2
<1>4. Max(S) \in S /\ \A y \in S : Max(S) >= y
  BY <1>3 DEF Max
<1> QED BY <1>4

-----------------------------------------------------------------------------
(***************************************************************************)
(* The record and what is derived from it.  A payload's venue and what it  *)
(* carries are settled by its sequence (Sent), its day when it is received. *)
(***************************************************************************)
Carried(q, day, kind, date) == \E c \in Sent[q].carries : c.kind = kind /\ day - c.back = date

InHand == UNION {job[j].todo : j \in Jobs}
Segments == Labelled \cup InHand

PayloadOk(p) ==
  /\ p.seq \in DOMAIN Sent /\ p.seq < next /\ p.day \in Nat /\ p.day <= today
  /\ p.venue = Sent[p.seq].venue /\ p.carries = Sent[p.seq].carries

(* Sequences are given out in order, and days follow them.                 *)
ArchiveOk ==
  /\ today \in Nat /\ next \in Nat
  /\ \A p \in archive : PayloadOk(p)
  /\ \A p, q \in archive : /\ p.seq <= q.seq => p.day <= q.day
                           /\ p.seq = q.seq => p = q

(* A segment spans what it holds, and holds what was sent to its venue.    *)
SegmentOk(s) ==
  /\ s.seqs \subseteq DOMAIN Sent /\ s.first \in s.seqs /\ s.last \in s.seqs
  /\ s.src \in Nat /\ s.src <= today /\ s.date \in Int
  /\ \A q \in s.seqs : /\ s.first <= q /\ q <= s.last /\ q < next
                       /\ Sent[q].venue = s.venue /\ Carried(q, s.src, s.kind, s.date)

(* A name is one segment.                                                  *)
SegmentsOk ==
  /\ \A s \in Segments : SegmentOk(s)
  /\ \A s \in tape : s.date \in Int
  /\ \A s, t \in tape : Path(s) = Path(t) => s = t

(* A segment's receipt day is that of all it holds, and the archive keeps  *)
(* a day of a venue whole or not at all.                                   *)
ReceivedThatDay ==
  \A s \in Segments : \A q \in s.seqs :
    /\ \A p \in archive : /\ p.seq <= q => p.day <= s.src
                          /\ q <= p.seq => s.src <= p.day
    /\ (s.src = today \/ \E p \in archive : p.venue = s.venue /\ p.day = s.src) =>
         \E p \in archive : p.seq = q

(* Between its first sequence and its last a segment leaves out no row of  *)
(* its venue and partition, archived or in another segment.                *)
WholeInArchive ==
  \A s \in Segments, p \in archive :
    /\ p.venue = s.venue /\ Carried(p.seq, p.day, s.kind, s.date)
    /\ s.first <= p.seq /\ p.seq <= s.last
    => p.seq \in s.seqs
WholeOnTape ==
  \A s, t \in Segments :
    s.venue = t.venue /\ s.kind = t.kind /\ s.date = t.date =>
      \A q \in t.seqs : s.first <= q /\ q <= s.last => q \in s.seqs

World == ArchiveOk /\ SegmentsOk /\ ReceivedThatDay /\ WholeInArchive /\ WholeOnTape

(* Two segments of one name hold the same rows: the first sequence tells   *)
(* the venue, and both are whole between the first and the last.           *)
LEMMA SameNameSameRows ==
  ASSUME World, NEW s \in Segments, NEW t \in Segments, Path(s) = Path(t)
  PROVE  s.venue = t.venue /\ RowsOf(s) = RowsOf(t)
<1>1. s.kind = t.kind /\ s.date = t.date /\ s.first = t.first /\ s.last = t.last
  BY DEF Path
<1>2. SegmentOk(s) /\ SegmentOk(t)
  BY DEF World, SegmentsOk
<1>3. s.venue = t.venue
  BY <1>1, <1>2 DEF SegmentOk
<1>4. s.seqs = t.seqs
  BY <1>1, <1>2, <1>3 DEF World, WholeOnTape, SegmentOk
<1> QED BY <1>1, <1>3, <1>4 DEF RowsOf

(* The rows a payload normalises to.                                       *)
RowOf(v, q, kind, date) == [venue |-> v, seq |-> q, kind |-> kind, date |-> date]

LEMMA DerivedIs ==
  ASSUME ArchiveOk, NEW p \in archive, NEW r
  PROVE  r \in Derived(p) <=> /\ r = RowOf(p.venue, p.seq, r.kind, r.date)
                             /\ Carried(p.seq, p.day, r.kind, r.date)
<1>1. p.carries = Sent[p.seq].carries
  BY DEF ArchiveOk, PayloadOk
<1>2. ASSUME r \in Derived(p)
      PROVE  /\ r = RowOf(p.venue, p.seq, r.kind, r.date)
             /\ Carried(p.seq, p.day, r.kind, r.date)
  <2>1. PICK c \in p.carries : r = RowOf(p.venue, p.seq, c.kind, p.day - c.back)
    BY <1>2 DEF Derived, RowOf
  <2>2. r.kind = c.kind /\ r.date = p.day - c.back
    BY <2>1 DEF RowOf
  <2> QED BY <1>1, <2>1, <2>2 DEF Carried
<1>3. ASSUME r = RowOf(p.venue, p.seq, r.kind, r.date), Carried(p.seq, p.day, r.kind, r.date)
      PROVE  r \in Derived(p)
  <2>1. PICK c \in p.carries : c.kind = r.kind /\ p.day - c.back = r.date
    BY <1>1, <1>3 DEF Carried
  <2> QED BY <1>3, <2>1 DEF Derived, RowOf
<1> QED BY <1>2, <1>3

(* group: what one commit of a receipt day's rows writes.                  *)
LEMMA GroupIs ==
  ASSUME ArchiveOk, NEW v, NEW d \in Nat, NEW read,
         \A p \in read : p \in archive /\ p.venue = v /\ p.day = d
  PROVE  /\ \A s \in Group(read, v, d) :
              /\ SegmentOk(s) /\ s.venue = v /\ s.src = d
              /\ s.seqs = {p.seq : p \in {q \in read : Carried(q.seq, d, s.kind, s.date)}}
         /\ \A s, t \in Group(read, v, d) : s.kind = t.kind /\ s.date = t.date => s = t
         /\ Rows(Group(read, v, d)) = DerivedFrom(read)
<1> DEFINE Seqs(k, e) == {r.seq : r \in {x \in DerivedFrom(read) : x.kind = k /\ x.date = e}}
<1> DEFINE Seg(k, e) == [kind |-> k, date |-> e,
                         first |-> Min(Seqs(k, e)), last |-> Max(Seqs(k, e)),
                         venue |-> v, src |-> d, seqs |-> Seqs(k, e)]
<1>1. Group(read, v, d) = {Seg(r.kind, r.date) : r \in DerivedFrom(read)}
  BY DEF Group
<1>2. ASSUME NEW r
      PROVE  r \in DerivedFrom(read) <=>
               \E p \in read : /\ r = RowOf(v, p.seq, r.kind, r.date)
                              /\ Carried(p.seq, d, r.kind, r.date)
  <2>1. \A p \in read : p \in archive /\ p.venue = v /\ p.day = d
    OBVIOUS
  <2> QED BY <2>1, DerivedIs DEF DerivedFrom
<1>3. ASSUME NEW k, NEW e
      PROVE  Seqs(k, e) = {p.seq : p \in {q \in read : Carried(q.seq, d, k, e)}}
  <2> DEFINE Those == {p.seq : p \in {q \in read : Carried(q.seq, d, k, e)}}
  <2>1. ASSUME NEW q \in Seqs(k, e)
        PROVE  q \in Those
    <3>1. PICK r \in DerivedFrom(read) : r.kind = k /\ r.date = e /\ r.seq = q
      OBVIOUS
    <3>2. PICK p \in read : r = RowOf(v, p.seq, k, e) /\ Carried(p.seq, d, k, e)
      BY <1>2, <3>1
    <3>3. p.seq = q
      BY <3>1, <3>2 DEF RowOf
    <3> QED BY <3>2, <3>3
  <2>2. ASSUME NEW q \in Those
        PROVE  q \in Seqs(k, e)
    <3>1. PICK p \in read : p.seq = q /\ Carried(p.seq, d, k, e)
      OBVIOUS
    <3> DEFINE r == RowOf(v, q, k, e)
    <3>2. r.kind = k /\ r.date = e /\ r.seq = q
      BY DEF RowOf
    <3>3. r \in DerivedFrom(read)
      BY <1>2, <3>1, <3>2
    <3> QED BY <3>2, <3>3
  <2> QED BY <2>1, <2>2
<1>4. \A p \in read : /\ p.seq \in DOMAIN Sent /\ p.seq \in Nat /\ p.seq < next
                      /\ Sent[p.seq].venue = v
  BY SentAssumption DEF ArchiveOk, PayloadOk
<1> HIDE DEF Seqs
<1>5. ASSUME NEW r \in DerivedFrom(read)
      PROVE  /\ SegmentOk(Seg(r.kind, r.date))
             /\ r \in RowsOf(Seg(r.kind, r.date))
             /\ RowsOf(Seg(r.kind, r.date)) \subseteq DerivedFrom(read)
  <2> DEFINE S == Seqs(r.kind, r.date)
  <2>1. PICK p \in read : /\ r = RowOf(v, p.seq, r.kind, r.date)
                          /\ Carried(p.seq, d, r.kind, r.date)
    BY <1>2
  <2>2. p.seq \in S /\ S = {q.seq : q \in {x \in read : Carried(x.seq, d, r.kind, r.date)}}
    BY <1>3, <2>1
  <2>3. S \in SUBSET Nat /\ S # {} /\ next \in Nat /\ \A q \in S : q <= next
    BY <1>4, <2>2 DEF ArchiveOk
  <2> HIDE DEF S
  <2>4. /\ Min(S) \in S /\ \A q \in S : Min(S) <= q
        /\ Max(S) \in S /\ \A q \in S : q <= Max(S)
    BY <2>3, LeastNat, GreatestNat
  <2>5. \A q \in S : /\ q \in DOMAIN Sent /\ q < next /\ Sent[q].venue = v
                    /\ Carried(q, d, r.kind, r.date)
    BY <1>4, <2>2
  <2>6. r.date \in Int /\ d <= today
    <3>1. \E c \in Sent[p.seq].carries : d - c.back = r.date /\ c.back \in Nat
      BY <1>4, <2>1, SentAssumption DEF Carried
    <3> QED BY <3>1 DEF ArchiveOk, PayloadOk
  <2> DEFINE s == Seg(r.kind, r.date)
  <2>7. /\ s.kind = r.kind /\ s.date = r.date /\ s.venue = v /\ s.src = d /\ s.seqs = S
        /\ s.first = Min(S) /\ s.last = Max(S)
    BY DEF S
  <2> HIDE DEF Seg
  <2>8. SegmentOk(s)
    BY <2>4, <2>5, <2>6, <2>7 DEF SegmentOk
  <2>9. r \in RowsOf(s)
    BY <2>1, <2>2, <2>7 DEF RowsOf, RowOf
  <2>10. RowsOf(s) \subseteq DerivedFrom(read)
    <3> SUFFICES ASSUME NEW q \in S
                 PROVE  RowOf(v, q, r.kind, r.date) \in DerivedFrom(read)
      BY <2>7 DEF RowsOf, RowOf
    <3>1. PICK x \in read : x.seq = q /\ Carried(x.seq, d, r.kind, r.date)
      BY <2>2
    <3>2. RowOf(v, q, r.kind, r.date).kind = r.kind /\ RowOf(v, q, r.kind, r.date).date = r.date
      BY DEF RowOf
    <3> QED BY <1>2, <3>1, <3>2
  <2> QED BY <2>8, <2>9, <2>10
<1>6. \A s \in Group(read, v, d) : \E r \in DerivedFrom(read) :
         /\ s = Seg(r.kind, r.date) /\ s.kind = r.kind /\ s.date = r.date
         /\ s.venue = v /\ s.src = d /\ s.seqs = Seqs(s.kind, s.date)
  BY <1>1
<1> HIDE DEF Seg
<1>7. \A s \in Group(read, v, d) :
        /\ SegmentOk(s) /\ s.venue = v /\ s.src = d
        /\ s.seqs = {p.seq : p \in {q \in read : Carried(q.seq, d, s.kind, s.date)}}
  BY <1>3, <1>5, <1>6
<1>8. \A s, t \in Group(read, v, d) : s.kind = t.kind /\ s.date = t.date => s = t
  BY <1>6
<1>9. Rows(Group(read, v, d)) = DerivedFrom(read)
  BY <1>1, <1>5 DEF Rows
<1> QED BY <1>7, <1>8, <1>9

-----------------------------------------------------------------------------
(***************************************************************************)
(* What kind of value each variable holds.                                 *)
(***************************************************************************)
RunFields == {"at", "venue", "from", "to", "days", "labelled", "ours", "derived", "todo", "now",
              "written", "doomed"}
ViewFields == {"at", "scopes", "kind", "bound", "dates", "segments", "got", "begun"}

Shape ==
  /\ DOMAIN job = Jobs
  /\ \A j \in Jobs : DOMAIN job[j] = RunFields
  /\ sweep = Idle \/ (DOMAIN sweep = {"at", "dirs"} /\ sweep.at = "remove")
  /\ reader = Idle \/ (DOMAIN reader = ViewFields /\ reader.at \in {"list", "taken"})

(* A job's step moves that job, and touches the tape only by writing or    *)
(* unlinking a segment.                                                    *)
Moves(j) ==
  /\ DOMAIN job' = Jobs /\ DOMAIN job'[j] = RunFields
  /\ \A i \in Jobs \ {j} : job'[i] = job[i]
  /\ UNCHANGED <<today, next, archive, sweep, reader>>

JobActs(j) ==
  \/ j = Flow /\ StartScheduled
  \/ j = Hand /\ StartByHand
  \/ JobStep(j) \/ JobDisturbed(j)

LEMMA NoRunIs ==
  /\ DOMAIN NoRun = RunFields
  /\ NoRun.at = "idle" /\ NoRun.derived = {} /\ NoRun.written = {} /\ NoRun.todo = {}
  /\ NoRun.now = {} /\ NoRun.doomed = {} /\ NoRun.days = {} /\ NoRun.ours = {}
  /\ NoRun.from = 0 /\ NoRun.to = 0 /\ NoRun.labelled = {}
BY DEF NoRun, RunFields

LEMMA GoesIs ==
  ASSUME Shape, NEW j \in Jobs, NEW to, Goes(j, to), DOMAIN to = RunFields
  PROVE  /\ job'[j] = to /\ DOMAIN job' = Jobs /\ DOMAIN job'[j] = RunFields
         /\ \A i \in Jobs \ {j} : job'[i] = job[i]
BY DEF Shape, Goes

LEMMA JobMoves ==
  ASSUME Shape, NEW j \in Jobs, JobActs(j)
  PROVE  /\ Moves(j)
         /\ ReadDay(j) \/ job'[j].todo \subseteq job[j].todo
         /\ WriteSegment(j) \/ Unlink(j) \/ UNCHANGED tape
<1>1. DOMAIN job[j] = RunFields
  BY DEF Shape
<1> USE <1>1
<1>2. CASE j = Flow /\ StartScheduled
  <2> DEFINE to == Started(VenueOrder[turn])
  <2>1. DOMAIN to = RunFields /\ to.todo = {}
    BY NoRunIs DEF Started, NoRun, RunFields
  <2>2. Goes(j, to)
    BY <1>2 DEF StartScheduled
  <2> HIDE DEF to
  <2> QED BY <1>2, <2>1, <2>2, GoesIs DEF StartScheduled, Moves
<1>3. CASE j = Hand /\ StartByHand
  <2>1. PICK v \in Venues : Goes(j, Started(v))
    BY <1>3 DEF StartByHand
  <2> DEFINE to == Started(v)
  <2>2. DOMAIN to = RunFields /\ to.todo = {}
    BY NoRunIs DEF Started, NoRun, RunFields
  <2>3. Goes(j, to)
    BY <2>1
  <2> HIDE DEF to
  <2> QED BY <1>3, <2>2, <2>3, GoesIs DEF StartByHand, UnchangedByJob, Moves
<1>4. CASE HoldArchive(j)
  <2> DEFINE to == [job[j] EXCEPT !.at = "tape"]
  <2>1. DOMAIN to = RunFields /\ to.todo = job[j].todo
    BY DEF RunFields
  <2>2. Goes(j, to)
    BY <1>4 DEF HoldArchive
  <2> HIDE DEF to
  <2> QED BY <1>4, <2>1, <2>2, GoesIs DEF HoldArchive, UnchangedByJob, Moves
<1>5. CASE HoldTape(j)
  <2> DEFINE to == [job[j] EXCEPT !.at = "plan"]
  <2>1. DOMAIN to = RunFields /\ to.todo = job[j].todo
    BY DEF RunFields
  <2>2. Goes(j, to)
    BY <1>5 DEF HoldTape
  <2> HIDE DEF to
  <2> QED BY <1>5, <2>1, <2>2, GoesIs DEF HoldTape, UnchangedByJob, Moves
<1>6. CASE Plan(j)
  <2> DEFINE to == [job[j] EXCEPT !.at = "day", !.days = DaysOf(job[j]),
                      !.labelled = {[path |-> Path(s), venue |-> s.venue, src |-> s.src] :
                                      s \in tape}]
  <2>1. DOMAIN to = RunFields /\ to.todo = job[j].todo
    BY DEF RunFields
  <2>2. Goes(j, to) \/ Goes(j, NoRun)
    BY <1>6 DEF Plan
  <2> HIDE DEF to
  <2> QED BY <1>6, <2>1, <2>2, GoesIs, NoRunIs DEF Plan, UnchangedByJob, Moves
<1>7. CASE ReadDay(j)
  <2>1. \A ours, day : Tidies(j, [job[j] EXCEPT !.ours = ours], day) =>
          Moves(j) \/ ~UnchangedByJob
    <3> SUFFICES ASSUME NEW ours, NEW day, Tidies(j, [job[j] EXCEPT !.ours = ours], day)
                 PROVE  Moves(j) \/ ~UnchangedByJob
      OBVIOUS
    <3> DEFINE to == [NoRun EXCEPT !.at = "tidy",
                                   !.doomed = Doomed([job[j] EXCEPT !.ours = ours], day)]
    <3>1. DOMAIN to = RunFields
      BY NoRunIs
    <3>2. Goes(j, to)
      BY DEF Tidies
    <3> HIDE DEF to
    <3> QED BY <3>1, <3>2, GoesIs DEF UnchangedByJob, Moves
  <2>2. \A ours, derived, todo :
          Goes(j, [job[j] EXCEPT !.at = "write", !.ours = ours, !.derived = derived,
                                 !.todo = todo]) =>
          Moves(j) \/ ~UnchangedByJob
    <3> SUFFICES ASSUME NEW ours, NEW derived, NEW todo,
                        Goes(j, [job[j] EXCEPT !.at = "write", !.ours = ours,
                                               !.derived = derived, !.todo = todo])
                 PROVE  Moves(j) \/ ~UnchangedByJob
      OBVIOUS
    <3> DEFINE to == [job[j] EXCEPT !.at = "write", !.ours = ours, !.derived = derived,
                                    !.todo = todo]
    <3>1. DOMAIN to = RunFields
      OBVIOUS
    <3>2. Goes(j, to)
      OBVIOUS
    <3> HIDE DEF to
    <3> QED BY <3>1, <3>2, GoesIs DEF UnchangedByJob, Moves
  <2> QED BY <1>7, <2>1, <2>2 DEF ReadDay
<1>8. CASE WriteSegment(j)
  <2>1. PICK segment \in job[j].todo :
          Goes(j, [job[j] EXCEPT !.todo = @ \ {segment}, !.now = @ \cup {Path(segment)}])
    BY <1>8 DEF WriteSegment
  <2> DEFINE to == [job[j] EXCEPT !.todo = @ \ {segment}, !.now = @ \cup {Path(segment)}]
  <2>2. DOMAIN to = RunFields /\ to.todo = job[j].todo \ {segment}
    BY DEF RunFields
  <2>3. Goes(j, to)
    BY <2>1
  <2> HIDE DEF to
  <2> QED BY <1>8, <2>2, <2>3, GoesIs DEF WriteSegment, UnchangedByJob, Moves
<1>9. CASE DayCommitted(j)
  <2> DEFINE to == [job[j] EXCEPT !.at = "day", !.days = @ \ {Min(@)},
                                  !.written = @ \cup job[j].now, !.now = {}]
  <2>1. DOMAIN to = RunFields /\ to.todo = job[j].todo
    BY DEF RunFields
  <2>2. Goes(j, to)
    BY <1>9 DEF DayCommitted
  <2> HIDE DEF to
  <2> QED BY <1>9, <2>1, <2>2, GoesIs DEF DayCommitted, UnchangedByJob, Moves
<1>10. CASE AllDaysCommitted(j)
  <2> DEFINE to == [job[j] EXCEPT !.at = "remove", !.doomed = Doomed(job[j], job[j].to)]
  <2>1. DOMAIN to = RunFields /\ to.todo = job[j].todo
    BY DEF RunFields
  <2>2. Goes(j, to) \/ Goes(j, NoRun)
    BY <1>10 DEF AllDaysCommitted
  <2> HIDE DEF to
  <2> QED BY <1>10, <2>1, <2>2, GoesIs, NoRunIs DEF AllDaysCommitted, UnchangedByJob, Moves
<1>11. CASE Unlink(j)
  <2>1. PICK path \in job[j].doomed : Goes(j, [job[j] EXCEPT !.doomed = @ \ {path}])
    BY <1>11 DEF Unlink
  <2> DEFINE to == [job[j] EXCEPT !.doomed = @ \ {path}]
  <2>2. DOMAIN to = RunFields /\ to.todo = job[j].todo
    BY DEF RunFields
  <2>3. Goes(j, to)
    BY <2>1
  <2> HIDE DEF to
  <2> QED BY <1>11, <2>2, <2>3, GoesIs DEF Unlink, UnchangedByJob, Moves
<1>12. CASE Removed(j)
  <2> DEFINE to == [job[j] EXCEPT !.at = "check"]
  <2>1. DOMAIN to = RunFields /\ to.todo = job[j].todo
    BY DEF RunFields
  <2>2. Goes(j, to)
    BY <1>12 DEF Removed
  <2> HIDE DEF to
  <2> QED BY <1>12, <2>1, <2>2, GoesIs DEF Removed, UnchangedByJob, Moves
<1>13. CASE WriteFails(j)
  <2> DEFINE to == [NoRun EXCEPT !.at = "tidy", !.doomed = Doomed(job[j], Min(job[j].days))]
  <2>1. DOMAIN to = RunFields /\ to.todo = {}
    BY NoRunIs DEF RunFields
  <2>2. Goes(j, to)
    BY <1>13 DEF WriteFails, Tidies
  <2> HIDE DEF to
  <2> QED BY <1>13, <2>1, <2>2, GoesIs DEF WriteFails, UnchangedByJob, Moves
<1>14. CASE \/ Tidied(j) \/ Checked(j) \/ WaitedTooLong(j) \/ ReadFails(j) \/ UnlinkFails(j)
            \/ Kill(j)
  BY <1>14, GoesIs, NoRunIs
  DEF Tidied, Checked, WaitedTooLong, ReadFails, UnlinkFails, Kill, UnchangedByJob, Moves
<1> QED
  BY <1>2, <1>3, <1>4, <1>5, <1>6, <1>7, <1>8, <1>9, <1>10, <1>11, <1>12, <1>13, <1>14
  DEF JobActs, JobStep, JobDisturbed

(* What the actions that are not a job's leave alone.                      *)
OtherActs ==
  \/ Receive \/ NextDay \/ StartSweep \/ SweepStep \/ RemoveDirFails \/ ReaderStep

LEMMA OthersLeaveJobs ==
  ASSUME OtherActs
  PROVE  UNCHANGED job
BY DEF OtherActs, Receive, NextDay, StartSweep, SweepStep, RemoveDir, SweepEnds, RemoveDirFails,
       UnchangedBySweep, ReaderStep, OpenReader, ListPartition, ReadSegment, ViewTaken,
       CloseReader, UnchangedByReader

LEMMA NextIs ==
  ASSUME Next
  PROVE  OtherActs \/ \E j \in Jobs : JobActs(j)
BY DEF Next, OtherActs, JobActs, Jobs

LEMMA ShapeStep ==
  ASSUME Shape, [Next]_vars
  PROVE  Shape'
<1>1. CASE UNCHANGED vars
  BY <1>1 DEF Shape, vars
<1>2. ASSUME NEW j \in Jobs, JobActs(j)
      PROVE  Shape'
  BY <1>2, JobMoves DEF Shape, Moves
<1>3. CASE OtherActs
  <2>1. UNCHANGED job
    BY <1>3, OthersLeaveJobs
  <2>2. sweep' = Idle \/ (DOMAIN sweep' = {"at", "dirs"} /\ sweep'.at = "remove")
    <3>1. CASE UNCHANGED sweep
      BY <3>1 DEF Shape
    <3>2. CASE StartSweep \/ SweepEnds
      BY <3>2 DEF StartSweep, SweepEnds
    <3>3. CASE RemoveDir \/ RemoveDirFails
      BY <3>3 DEF RemoveDir, RemoveDirFails, Shape, Sweeping, Idle
    <3> QED
      BY <1>3, <3>1, <3>2, <3>3
      DEF OtherActs, Receive, NextDay, SweepStep, ReaderStep, OpenReader, ListPartition,
          ReadSegment, ViewTaken, CloseReader, UnchangedByReader
  <2>3. reader' = Idle \/ (DOMAIN reader' = ViewFields /\ reader'.at \in {"list", "taken"})
    <3>1. CASE UNCHANGED reader
      BY <3>1 DEF Shape
    <3>2. CASE OpenReader
      BY <3>2 DEF OpenReader, ViewFields
    <3>3. CASE ListPartition \/ ReadSegment \/ ViewTaken
      <4>1. DOMAIN reader = ViewFields
        <5>1. reader.at = "list"
          BY <3>3 DEF ListPartition, ReadSegment, ViewTaken
        <5>2. Idle.at # "list"
          BY DEF Idle
        <5> QED BY <5>1, <5>2 DEF Shape
      <4>2. CASE ListPartition
        <5>1. PICK d \in reader.dates :
                reader' = [reader EXCEPT !.dates = @ \ {d},
                                         !.segments = {Path(s) : s \in {t \in SegmentsIn(reader.kind) :
                                                                          t.date = d}}]
          BY <4>2 DEF ListPartition
        <5> DEFINE paths == {Path(s) : s \in {t \in SegmentsIn(reader.kind) : t.date = d}}
        <5>2. reader' = [reader EXCEPT !.dates = @ \ {d}, !.segments = paths]
          BY <5>1
        <5> HIDE DEF paths
        <5> QED BY <4>1, <4>2, <5>2 DEF ListPartition, ViewFields
      <4>3. CASE ReadSegment
        BY <4>1, <4>3 DEF ReadSegment, ViewFields
      <4>4. CASE ViewTaken
        BY <4>1, <4>4 DEF ViewTaken, ViewFields
      <4> QED BY <3>3, <4>2, <4>3, <4>4
    <3>4. CASE CloseReader
      BY <3>4 DEF CloseReader
    <3> QED
      BY <1>3, <3>1, <3>2, <3>3, <3>4
      DEF OtherActs, Receive, NextDay, StartSweep, SweepStep, RemoveDir, SweepEnds,
          RemoveDirFails, UnchangedBySweep, ReaderStep
  <2> QED BY <2>1, <2>2, <2>3 DEF Shape
<1> QED BY <1>1, <1>2, <1>3, NextIs

(* What each action makes of its run, field by field.                      *)
Keeps(j, fields) == \A f \in RunFields \ fields : job'[j][f] = job[j][f]
EndsRun(j) == job'[j] = NoRun
Marks(segments) == {[path |-> Path(s), venue |-> s.venue, src |-> s.src] : s \in segments}
ReadOf(j) == {p \in archive : p.venue = job[j].venue /\ p.day = Min(job[j].days)}
OursAfter(j) == job[j].ours \cup {r.venue : r \in DerivedFrom(ReadOf(j))}
TidiesUp(j, run, day) ==
  /\ job'[j].at = "tidy" /\ job'[j].doomed = Doomed(run, day)
  /\ \A f \in RunFields \ {"at", "doomed"} : job'[j][f] = NoRun[f]

LEMMA FieldsStarting ==
  ASSUME Shape, NEW j \in Jobs,
         (j = Flow /\ StartScheduled) \/ (j = Hand /\ StartByHand)
  PROVE  /\ job[j].at = "idle" /\ job'[j].at = "archive"
         /\ job'[j].from = today - Trailing /\ job'[j].to = today + 1
         /\ \A f \in RunFields \ {"at", "venue", "from", "to"} : job'[j][f] = NoRun[f]
<1>1. PICK v : Goes(j, Started(v)) /\ job[j].at = "idle"
  BY DEF StartScheduled, StartByHand, NoHand, At
<1> DEFINE to == Started(v)
<1>2. /\ DOMAIN to = RunFields /\ to.at = "archive"
      /\ to.from = today - Trailing /\ to.to = today + 1
      /\ \A f \in RunFields \ {"at", "venue", "from", "to"} : to[f] = NoRun[f]
  BY NoRunIs DEF Started, RunFields
<1>3. Goes(j, to)
  BY <1>1
<1> HIDE DEF to
<1>4. job'[j] = to
  BY <1>2, <1>3, GoesIs
<1> QED BY <1>1, <1>2, <1>4

LEMMA FieldsMoving ==
  ASSUME Shape, NEW j \in Jobs
  PROVE  /\ HoldArchive(j) => job'[j].at = "tape" /\ Keeps(j, {"at"})
         /\ HoldTape(j) => job'[j].at = "plan" /\ Keeps(j, {"at"})
         /\ Removed(j) => job'[j].at = "check" /\ Keeps(j, {"at"})
         /\ DayCommitted(j) =>
              /\ job'[j].at = "day" /\ job'[j].days = job[j].days \ {Min(job[j].days)}
              /\ job'[j].written = job[j].written \cup job[j].now /\ job'[j].now = {}
              /\ Keeps(j, {"at", "days", "written", "now"})
         /\ AllDaysCommitted(j) =>
              \/ job[j].derived = {} /\ EndsRun(j)
              \/ /\ job[j].derived # {}
                 /\ job'[j].at = "remove" /\ job'[j].doomed = Doomed(job[j], job[j].to)
                 /\ Keeps(j, {"at", "doomed"})
<1>1. DOMAIN job[j] = RunFields
  BY DEF Shape
<1>2. ASSUME NEW place, Goes(j, [job[j] EXCEPT !.at = place])
      PROVE  job'[j].at = place /\ Keeps(j, {"at"})
  <2> DEFINE to == [job[j] EXCEPT !.at = place]
  <2>1. /\ DOMAIN to = RunFields /\ to.at = place
        /\ \A f \in RunFields \ {"at"} : to[f] = job[j][f]
    BY <1>1 DEF RunFields
  <2>2. Goes(j, to)
    BY <1>2
  <2> HIDE DEF to
  <2> QED BY <2>1, <2>2, GoesIs DEF Keeps
<1>3. ASSUME DayCommitted(j)
      PROVE  /\ job'[j].at = "day" /\ job'[j].days = job[j].days \ {Min(job[j].days)}
             /\ job'[j].written = job[j].written \cup job[j].now /\ job'[j].now = {}
             /\ Keeps(j, {"at", "days", "written", "now"})
  <2> DEFINE to == [job[j] EXCEPT !.at = "day", !.days = @ \ {Min(@)},
                                  !.written = @ \cup job[j].now, !.now = {}]
  <2>1. /\ DOMAIN to = RunFields /\ to.at = "day"
        /\ to.days = job[j].days \ {Min(job[j].days)}
        /\ to.written = job[j].written \cup job[j].now /\ to.now = {}
        /\ \A f \in RunFields \ {"at", "days", "written", "now"} : to[f] = job[j][f]
    BY <1>1 DEF RunFields
  <2>2. Goes(j, to)
    BY <1>3 DEF DayCommitted
  <2> HIDE DEF to
  <2> QED BY <2>1, <2>2, GoesIs DEF Keeps
<1>4. ASSUME AllDaysCommitted(j)
      PROVE  \/ job[j].derived = {} /\ EndsRun(j)
             \/ /\ job[j].derived # {}
                /\ job'[j].at = "remove" /\ job'[j].doomed = Doomed(job[j], job[j].to)
                /\ Keeps(j, {"at", "doomed"})
  <2>1. CASE job[j].derived = {}
    BY <1>4, <2>1, NoRunIs, GoesIs DEF AllDaysCommitted, EndsRun
  <2>2. CASE job[j].derived # {}
    <3> DEFINE to == [job[j] EXCEPT !.at = "remove", !.doomed = Doomed(job[j], job[j].to)]
    <3>1. /\ DOMAIN to = RunFields /\ to.at = "remove" /\ to.doomed = Doomed(job[j], job[j].to)
          /\ \A f \in RunFields \ {"at", "doomed"} : to[f] = job[j][f]
      BY <1>1 DEF RunFields
    <3>2. Goes(j, to)
      BY <1>4, <2>2 DEF AllDaysCommitted
    <3> HIDE DEF to
    <3> QED BY <2>2, <3>1, <3>2, GoesIs DEF Keeps
  <2> QED BY <2>1, <2>2
<1> QED BY <1>2, <1>3, <1>4 DEF HoldArchive, HoldTape, Removed

LEMMA FieldsPlanning ==
  ASSUME Shape, NEW j \in Jobs, Plan(j)
  PROVE  \/ EndsRun(j)
         \/ /\ \A s \in tape : s.venue # NoVenue
            /\ job'[j].at = "day" /\ job'[j].days = DaysOf(job[j])
            /\ job'[j].labelled = Marks(tape)
            /\ Keeps(j, {"at", "days", "labelled"})
<1>1. DOMAIN job[j] = RunFields
  BY DEF Shape
<1>2. CASE \E s \in tape : s.venue = NoVenue
  BY <1>2, NoRunIs, GoesIs DEF Plan, EndsRun
<1>3. CASE ~\E s \in tape : s.venue = NoVenue
  <2> DEFINE to == [job[j] EXCEPT !.at = "day", !.days = DaysOf(job[j]), !.labelled = Marks(tape)]
  <2>1. /\ DOMAIN to = RunFields /\ to.at = "day" /\ to.days = DaysOf(job[j])
        /\ to.labelled = Marks(tape)
        /\ \A f \in RunFields \ {"at", "days", "labelled"} : to[f] = job[j][f]
    BY <1>1 DEF RunFields
  <2>2. Goes(j, to)
    BY <1>3 DEF Plan, Marks
  <2> HIDE DEF to
  <2> QED BY <1>3, <2>1, <2>2, GoesIs DEF Keeps
<1> QED BY <1>2, <1>3

LEMMA FieldsTidying ==
  ASSUME Shape, NEW j \in Jobs, NEW run, NEW day, Tidies(j, run, day)
  PROVE  TidiesUp(j, run, day)
<1> DEFINE to == [NoRun EXCEPT !.at = "tidy", !.doomed = Doomed(run, day)]
<1>1. /\ DOMAIN to = RunFields /\ to.at = "tidy" /\ to.doomed = Doomed(run, day)
      /\ \A f \in RunFields \ {"at", "doomed"} : to[f] = NoRun[f]
  BY NoRunIs DEF RunFields
<1>2. Goes(j, to)
  BY DEF Tidies
<1> HIDE DEF to
<1> QED BY <1>1, <1>2, GoesIs DEF TidiesUp

LEMMA FieldsReading ==
  ASSUME Shape, NEW j \in Jobs, ReadDay(j)
  PROVE  \/ /\ \E p \in ReadOf(j) : p.bad
            /\ TidiesUp(j, [job[j] EXCEPT !.ours = OursAfter(j)], Min(job[j].days))
         \/ /\ job'[j].at = "write" /\ job'[j].ours = OursAfter(j)
            /\ job'[j].derived = job[j].derived \cup DerivedFrom(ReadOf(j))
            /\ job'[j].todo = Group(ReadOf(j), job[j].venue, Min(job[j].days))
            /\ Keeps(j, {"at", "ours", "derived", "todo"})
<1>1. DOMAIN job[j] = RunFields
  BY DEF Shape
<1>2. CASE \E p \in ReadOf(j) : p.bad
  <2>1. Tidies(j, [job[j] EXCEPT !.ours = OursAfter(j)], Min(job[j].days))
    BY <1>2 DEF ReadDay, ReadOf, OursAfter
  <2> QED BY <1>2, <2>1, FieldsTidying
<1>3. CASE ~\E p \in ReadOf(j) : p.bad
  <2> DEFINE to == [job[j] EXCEPT !.at = "write", !.ours = OursAfter(j),
                      !.derived = @ \cup DerivedFrom(ReadOf(j)),
                      !.todo = Group(ReadOf(j), job[j].venue, Min(job[j].days))]
  <2>1. /\ DOMAIN to = RunFields /\ to.at = "write" /\ to.ours = OursAfter(j)
        /\ to.derived = job[j].derived \cup DerivedFrom(ReadOf(j))
        /\ to.todo = Group(ReadOf(j), job[j].venue, Min(job[j].days))
        /\ \A f \in RunFields \ {"at", "ours", "derived", "todo"} : to[f] = job[j][f]
    BY <1>1 DEF RunFields
  <2>2. Goes(j, to)
    BY <1>3 DEF ReadDay, ReadOf, OursAfter
  <2> HIDE DEF to
  <2> QED BY <2>1, <2>2, GoesIs DEF Keeps
<1> QED BY <1>2, <1>3

LEMMA FieldsWriting ==
  ASSUME Shape, NEW j \in Jobs, NEW segment,
         Goes(j, [job[j] EXCEPT !.todo = @ \ {segment}, !.now = @ \cup {Path(segment)}])
  PROVE  /\ job'[j].todo = job[j].todo \ {segment}
         /\ job'[j].now = job[j].now \cup {Path(segment)}
         /\ Keeps(j, {"todo", "now"})
<1>1. DOMAIN job[j] = RunFields
  BY DEF Shape
<1> DEFINE to == [job[j] EXCEPT !.todo = @ \ {segment}, !.now = @ \cup {Path(segment)}]
<1>2. /\ DOMAIN to = RunFields /\ to.todo = job[j].todo \ {segment}
      /\ to.now = job[j].now \cup {Path(segment)}
      /\ \A f \in RunFields \ {"todo", "now"} : to[f] = job[j][f]
  BY <1>1 DEF RunFields
<1>3. Goes(j, to)
  OBVIOUS
<1> HIDE DEF to
<1> QED BY <1>2, <1>3, GoesIs DEF Keeps

LEMMA FieldsUnlinking ==
  ASSUME Shape, NEW j \in Jobs, NEW path, Goes(j, [job[j] EXCEPT !.doomed = @ \ {path}])
  PROVE  job'[j].doomed = job[j].doomed \ {path} /\ Keeps(j, {"doomed"})
<1>1. DOMAIN job[j] = RunFields
  BY DEF Shape
<1> DEFINE to == [job[j] EXCEPT !.doomed = @ \ {path}]
<1>2. /\ DOMAIN to = RunFields /\ to.doomed = job[j].doomed \ {path}
      /\ \A f \in RunFields \ {"doomed"} : to[f] = job[j][f]
  BY <1>1 DEF RunFields
<1>3. Goes(j, to)
  OBVIOUS
<1> HIDE DEF to
<1> QED BY <1>2, <1>3, GoesIs DEF Keeps

LEMMA FieldsEnding ==
  ASSUME Shape, NEW j \in Jobs,
         \/ Tidied(j) \/ Checked(j) \/ WaitedTooLong(j) \/ ReadFails(j) \/ UnlinkFails(j)
         \/ Kill(j)
  PROVE  EndsRun(j)
BY GoesIs, NoRunIs
DEF Tidied, Checked, WaitedTooLong, ReadFails, UnlinkFails, Kill, EndsRun

-----------------------------------------------------------------------------
(***************************************************************************)
(* A run by itself: what its fields hold where it is.                      *)
(***************************************************************************)
RunOk(run) ==
  /\ run.at \notin {"day", "write", "remove", "check"} => run.derived = {} /\ run.written = {}
  /\ run.at # "write" => run.todo = {} /\ run.now = {}
  /\ run.at \notin {"remove", "tidy"} => run.doomed = {}
  /\ run.ours = {r.venue : r \in run.derived}
  /\ run.days \subseteq {d \in Nat : run.from <= d /\ d < run.to}
  /\ run.at = "write" => run.days # {}
  /\ run.from \in Int /\ run.to \in Int

RunsOk == \A j \in Jobs : RunOk(job[j])

LEMMA LeastDay ==
  ASSUME NEW run, RunOk(run), run.days # {}
  PROVE  /\ Min(run.days) \in run.days /\ \A d \in run.days : Min(run.days) <= d
         /\ Min(run.days) \in Nat /\ run.from <= Min(run.days) /\ Min(run.days) < run.to
<1>1. run.days \in SUBSET Nat
  BY DEF RunOk
<1>2. Min(run.days) \in run.days /\ \A d \in run.days : Min(run.days) <= d
  BY <1>1, LeastNat
<1> QED BY <1>2 DEF RunOk

LEMMA NoRunOk ==
  ASSUME NEW run, run.from \in Int, run.to \in Int, run.at \notin {"write"},
         run.doomed = {} \/ run.at = "tidy",
         run.days = {}, run.ours = {}, run.derived = {}, run.todo = {}, run.now = {},
         run.written = {}
  PROVE  RunOk(run)
BY DEF RunOk

LEMMA RunStep ==
  ASSUME Shape, ArchiveOk, NEW j \in Jobs, RunOk(job[j]), JobActs(j)
  PROVE  RunOk(job[j])'
<1>1. CASE (j = Flow /\ StartScheduled) \/ (j = Hand /\ StartByHand)
  <2>1. /\ job'[j].from \in Int /\ job'[j].to \in Int /\ job'[j].at = "archive"
        /\ \A f \in RunFields \ {"at", "venue", "from", "to"} : job'[j][f] = NoRun[f]
    BY <1>1, FieldsStarting, DaysAssumption DEF ArchiveOk
  <2>2. /\ job'[j].days = {} /\ job'[j].ours = {} /\ job'[j].derived = {} /\ job'[j].todo = {}
        /\ job'[j].now = {} /\ job'[j].written = {} /\ job'[j].doomed = {}
    BY <2>1, NoRunIs DEF RunFields
  <2> QED BY <2>1, <2>2, NoRunOk
<1>2. CASE HoldArchive(j) \/ HoldTape(j) \/ Removed(j)
  <2>1. Keeps(j, {"at"})
    BY <1>2, FieldsMoving
  <2>2. /\ HoldArchive(j) => job[j].at = "archive" /\ job'[j].at = "tape"
        /\ HoldTape(j) => job[j].at = "tape" /\ job'[j].at = "plan"
        /\ Removed(j) => job[j].at = "remove" /\ job'[j].at = "check" /\ job[j].doomed = {}
    BY FieldsMoving DEF HoldArchive, HoldTape, Removed, At
  <2> QED BY <1>2, <2>1, <2>2 DEF Keeps, RunFields, RunOk
<1>3. CASE Plan(j)
  <2>1. CASE EndsRun(j)
    BY <2>1, NoRunIs, NoRunOk DEF EndsRun
  <2>2. CASE /\ job'[j].at = "day" /\ job'[j].days = DaysOf(job[j])
             /\ Keeps(j, {"at", "days", "labelled"})
    <3>1. job[j].at = "plan"
      BY <1>3 DEF Plan, At
    <3>2. DaysOf(job[j]) \subseteq {d \in Nat : job[j].from <= d /\ d < job[j].to}
      BY DEF DaysOf, ArchiveOk, PayloadOk
    <3> QED BY <2>2, <3>1, <3>2 DEF Keeps, RunFields, RunOk
  <2> QED BY <1>3, <2>1, <2>2, FieldsPlanning
<1>4. CASE ReadDay(j)
  <2>1. CASE TidiesUp(j, [job[j] EXCEPT !.ours = OursAfter(j)], Min(job[j].days))
    <3>1. job'[j].at = "tidy" /\ \A f \in RunFields \ {"at", "doomed"} : job'[j][f] = NoRun[f]
      BY <2>1 DEF TidiesUp
    <3>2. /\ job'[j].days = {} /\ job'[j].ours = {} /\ job'[j].derived = {} /\ job'[j].todo = {}
          /\ job'[j].now = {} /\ job'[j].written = {} /\ job'[j].from = 0 /\ job'[j].to = 0
      BY <3>1, NoRunIs DEF RunFields
    <3> QED BY <3>1, <3>2, NoRunOk
  <2>2. CASE /\ job'[j].at = "write" /\ job'[j].ours = OursAfter(j)
             /\ job'[j].derived = job[j].derived \cup DerivedFrom(ReadOf(j))
             /\ Keeps(j, {"at", "ours", "derived", "todo"})
    <3>1. job[j].at = "day" /\ job[j].days # {}
      BY <1>4 DEF ReadDay, At
    <3>2. job'[j].ours = {r.venue : r \in job'[j].derived}
      BY <2>2 DEF OursAfter, RunOk
    <3> QED BY <2>2, <3>1, <3>2 DEF Keeps, RunFields, RunOk
  <2> QED BY <1>4, <2>1, <2>2, FieldsReading
<1>5. CASE WriteSegment(j)
  <2>1. PICK segment \in job[j].todo :
          Goes(j, [job[j] EXCEPT !.todo = @ \ {segment}, !.now = @ \cup {Path(segment)}])
    BY <1>5 DEF WriteSegment
  <2>2. Keeps(j, {"todo", "now"}) /\ job[j].at = "write"
    BY <1>5, <2>1, FieldsWriting DEF WriteSegment, At
  <2> QED BY <2>2 DEF Keeps, RunFields, RunOk
<1>6. CASE WriteFails(j)
  <2>1. job'[j].at = "tidy" /\ \A f \in RunFields \ {"at", "doomed"} : job'[j][f] = NoRun[f]
    BY <1>6, FieldsTidying DEF WriteFails, TidiesUp
  <2>2. /\ job'[j].days = {} /\ job'[j].ours = {} /\ job'[j].derived = {} /\ job'[j].todo = {}
        /\ job'[j].now = {} /\ job'[j].written = {} /\ job'[j].from = 0 /\ job'[j].to = 0
    BY <2>1, NoRunIs DEF RunFields
  <2> QED BY <2>1, <2>2, NoRunOk
<1>7. CASE DayCommitted(j)
  <2>1. /\ job'[j].at = "day" /\ job'[j].days = job[j].days \ {Min(job[j].days)}
        /\ job'[j].now = {} /\ Keeps(j, {"at", "days", "written", "now"})
        /\ job[j].at = "write" /\ job[j].todo = {}
    BY <1>7, FieldsMoving DEF DayCommitted, At
  <2> QED BY <2>1 DEF Keeps, RunFields, RunOk
<1>8. CASE AllDaysCommitted(j)
  <2>1. CASE EndsRun(j)
    BY <2>1, NoRunIs, NoRunOk DEF EndsRun
  <2>2. CASE job'[j].at = "remove" /\ Keeps(j, {"at", "doomed"})
    <3>1. job[j].at = "day"
      BY <1>8 DEF AllDaysCommitted, At
    <3> QED BY <2>2, <3>1 DEF Keeps, RunFields, RunOk
  <2> QED BY <1>8, <2>1, <2>2, FieldsMoving
<1>9. CASE Unlink(j)
  <2>1. PICK path \in job[j].doomed : Goes(j, [job[j] EXCEPT !.doomed = @ \ {path}])
    BY <1>9 DEF Unlink
  <2>2. /\ Keeps(j, {"doomed"}) /\ job[j].at \in {"remove", "tidy"}
    BY <1>9, <2>1, FieldsUnlinking DEF Unlink
  <2> QED BY <2>2 DEF Keeps, RunFields, RunOk
<1>10. CASE \/ Tidied(j) \/ Checked(j) \/ WaitedTooLong(j) \/ ReadFails(j) \/ UnlinkFails(j)
            \/ Kill(j)
  BY <1>10, FieldsEnding, NoRunIs, NoRunOk DEF EndsRun
<1> QED
  BY <1>1, <1>2, <1>3, <1>4, <1>5, <1>6, <1>7, <1>8, <1>9, <1>10
  DEF JobActs, JobStep, JobDisturbed

LEMMA RunsStep ==
  ASSUME Shape, ArchiveOk, RunsOk, [Next]_vars
  PROVE  RunsOk'
<1>1. CASE UNCHANGED job
  BY <1>1 DEF RunsOk, RunOk
<1>2. ASSUME NEW j \in Jobs, JobActs(j)
      PROVE  RunsOk'
  <2>1. RunOk(job[j])'
    BY <1>2, RunStep DEF RunsOk
  <2>2. \A i \in Jobs \ {j} : RunOk(job[i])'
    BY <1>2, JobMoves DEF Moves, RunsOk, RunOk
  <2> QED BY <2>1, <2>2 DEF RunsOk
<1> QED BY <1>1, <1>2, NextIs, OthersLeaveJobs DEF vars

-----------------------------------------------------------------------------
(***************************************************************************)
(* Who holds which root, and what the segments are for as long.            *)
(***************************************************************************)
AllLabelled == \A s \in tape : s.venue # NoVenue
Planned == {"day", "write", "remove", "check"}

Locks ==
  /\ \A i, j \in Jobs : WritesTape(i) /\ WritesTape(j) => i = j
  /\ Sweeping => \A j \in Jobs : ~ReadsArchive(j)
  /\ (\E j \in Jobs : job[j].at \in Planned) => AllLabelled
  /\ Sweeping => \A d \in sweep.dirs : IF d.store = "archive" THEN d.day \in Nat /\ d.day < today
                                       ELSE d.date \in Int /\ Expired(d.date, KeepTape)

LEMMA LabelledInHand ==
  ASSUME World, NEW s \in Segments
  PROVE  s.venue # NoVenue
BY SentAssumption DEF World, SegmentsOk, SegmentOk

LEMMA WrittenIs ==
  ASSUME NEW j \in Jobs, WriteSegment(j)
  PROVE  \E segment \in job[j].todo :
           /\ segment \in Segments
           /\ tape' = {s \in tape : Path(s) # Path(segment)} \cup {segment}
           /\ Goes(j, [job[j] EXCEPT !.todo = @ \ {segment}, !.now = @ \cup {Path(segment)}])
BY DEF WriteSegment, Segments, InHand

LEMMA PlaceStep ==
  ASSUME Shape, NEW j \in Jobs, JobActs(j)
  PROVE  /\ WritesTape(j)' => WritesTape(j) \/ HoldTape(j)
         /\ ReadsArchive(j)' => ReadsArchive(j) \/ HoldArchive(j)
         /\ job'[j].at \in Planned => job[j].at \in Planned \/ (Plan(j) /\ AllLabelled)
<1> DEFINE P == /\ WritesTape(j)' => WritesTape(j) \/ HoldTape(j)
                /\ ReadsArchive(j)' => ReadsArchive(j) \/ HoldArchive(j)
                /\ job'[j].at \in Planned => job[j].at \in Planned \/ (Plan(j) /\ AllLabelled)
<1>1. ASSUME job'[j].at \in {"idle", "archive"}
      PROVE  P
  BY <1>1 DEF WritesTape, ReadsArchive, Planned
<1>2. ASSUME job[j].at \in Planned \cup {"tidy"},
             job[j].at \in Planned \/ job'[j].at \notin Planned
      PROVE  P
  BY <1>2 DEF WritesTape, ReadsArchive, Planned
<1>3. CASE (j = Flow /\ StartScheduled) \/ (j = Hand /\ StartByHand)
  BY <1>1, <1>3, FieldsStarting
<1>4. CASE HoldArchive(j) \/ HoldTape(j)
  BY <1>4, FieldsMoving DEF HoldArchive, HoldTape, At, WritesTape, ReadsArchive, Planned
<1>5. CASE Plan(j)
  BY <1>5, <1>1, FieldsPlanning, NoRunIs
  DEF Plan, At, WritesTape, ReadsArchive, EndsRun, AllLabelled
<1>6. CASE ReadDay(j) \/ WriteSegment(j) \/ DayCommitted(j) \/ AllDaysCommitted(j) \/ WriteFails(j)
           \/ Removed(j)
  BY <1>6, <1>2
  DEF ReadDay, WriteSegment, DayCommitted, AllDaysCommitted, WriteFails, Removed, At, Planned
<1>7. CASE Unlink(j)
  <2>1. PICK path \in job[j].doomed : Goes(j, [job[j] EXCEPT !.doomed = @ \ {path}])
    BY <1>7 DEF Unlink
  <2>2. job'[j].at = job[j].at /\ job[j].at \in {"remove", "tidy"}
    BY <1>7, <2>1, FieldsUnlinking DEF Unlink, Keeps, RunFields
  <2> QED BY <2>2, <1>2 DEF Planned
<1>8. CASE \/ Tidied(j) \/ Checked(j) \/ WaitedTooLong(j) \/ ReadFails(j) \/ UnlinkFails(j)
           \/ Kill(j)
  BY <1>8, <1>1, FieldsEnding, NoRunIs DEF EndsRun
<1> QED
  BY <1>3, <1>4, <1>5, <1>6, <1>7, <1>8
  DEF JobActs, JobStep, JobDisturbed

LEMMA LocksStep ==
  ASSUME Shape, World, Locks, [Next]_vars
  PROVE  Locks'
<1>1. CASE UNCHANGED vars
  BY <1>1 DEF vars, Locks, WritesTape, ReadsArchive, Sweeping, AllLabelled, Expired, Planned
<1>2. ASSUME NEW j \in Jobs, JobActs(j)
      PROVE  Locks'
  <2>1. Moves(j) /\ (WriteSegment(j) \/ Unlink(j) \/ UNCHANGED tape)
    BY <1>2, JobMoves
  <2>2. /\ WritesTape(j)' => WritesTape(j) \/ HoldTape(j)
        /\ ReadsArchive(j)' => ReadsArchive(j) \/ HoldArchive(j)
        /\ job'[j].at \in Planned => job[j].at \in Planned \/ (Plan(j) /\ AllLabelled)
    BY <1>2, PlaceStep
  <2>3. \A i \in Jobs \ {j} : (WritesTape(i)' <=> WritesTape(i))
                              /\ (ReadsArchive(i)' <=> ReadsArchive(i))
    BY <2>1 DEF Moves, WritesTape, ReadsArchive
  <2>4. (\A i, k \in Jobs : WritesTape(i) /\ WritesTape(k) => i = k)'
    BY <2>2, <2>3 DEF Locks, HoldTape, TapeIsFree
  <2>5. Sweeping' => \A i \in Jobs : ~ReadsArchive(i)'
    BY <2>1, <2>2, <2>3 DEF Locks, Moves, Sweeping, HoldArchive
  <2>6. AllLabelled => AllLabelled'
    <3>1. CASE WriteSegment(j)
      BY <3>1, WrittenIs, LabelledInHand DEF AllLabelled
    <3>2. CASE Unlink(j) \/ UNCHANGED tape
      BY <3>2 DEF Unlink, AllLabelled
    <3> QED BY <2>1, <3>1, <3>2
  <2>7. ((\E i \in Jobs : job[i].at \in Planned) => AllLabelled)'
    BY <2>1, <2>2, <2>6 DEF Moves, Locks
  <2>8. UNCHANGED <<sweep, today>>
    BY <2>1 DEF Moves
  <2> QED BY <2>4, <2>5, <2>7, <2>8 DEF Locks, Sweeping, Expired
<1>3. CASE OtherActs
  <2>1. UNCHANGED job
    BY <1>3, OthersLeaveJobs
  <2>2. (\A i, k \in Jobs : WritesTape(i) /\ WritesTape(k) => i = k)'
    BY <2>1 DEF Locks, WritesTape, ReadsArchive
  <2>3. (\E i \in Jobs : job[i].at \in Planned)' => AllLabelled'
    <3>1. tape' \subseteq tape
      BY <1>3
      DEF OtherActs, Receive, NextDay, StartSweep, SweepStep, RemoveDir, SweepEnds,
          RemoveDirFails, UnchangedBySweep, ReaderStep, OpenReader, ListPartition, ReadSegment,
          ViewTaken, CloseReader, UnchangedByReader
    <3> QED BY <2>1, <3>1 DEF Locks, AllLabelled
  <2>4. Sweeping' => \A j \in Jobs : ~ReadsArchive(j)'
    BY <1>3, <2>1
    DEF Locks, Sweeping, ReadsArchive, OtherActs, Receive, NextDay, StartSweep, SweepStep,
        RemoveDir, SweepEnds, RemoveDirFails, ReaderStep, OpenReader, ListPartition,
        ReadSegment, ViewTaken, CloseReader, UnchangedByReader
  <2>5. Sweeping' => (\A d \in sweep.dirs : IF d.store = "archive" THEN d.day \in Nat /\ d.day < today
                                            ELSE d.date \in Int /\ Expired(d.date, KeepTape))'
    <3>1. CASE StartSweep
      <4>1. sweep'.dirs = ExpiredDirs /\ today' = today
        BY <3>1 DEF StartSweep, UnchangedBySweep
      <4>2. \A p \in archive : Expired(p.day, KeepArchive) => p.day \in Nat /\ p.day < today
        BY DaysAssumption DEF World, ArchiveOk, PayloadOk, Expired
      <4>3. \A d \in ExpiredDirs : IF d.store = "archive" THEN d.day \in Nat /\ d.day < today
                                   ELSE d.date \in Int /\ Expired(d.date, KeepTape)
        BY <4>2 DEF ExpiredDirs, World, SegmentsOk
      <4> QED BY <4>1, <4>3 DEF Expired
    <3>2. CASE RemoveDir \/ RemoveDirFails
      <4>1. Sweeping /\ sweep'.dirs \subseteq sweep.dirs /\ today' = today
        BY <3>2 DEF RemoveDir, RemoveDirFails, UnchangedBySweep, Shape, Sweeping, Idle
      <4> QED BY <4>1 DEF Locks, Expired
    <3>3. CASE SweepEnds
      BY <3>3 DEF SweepEnds, Sweeping, Idle
    <3>4. CASE NextDay
      <4>1. UNCHANGED sweep /\ today' = today + 1 /\ today \in Nat
        BY <3>4 DEF NextDay, World, ArchiveOk
      <4>2. \A d \in Int : Expired(d, KeepTape) => Expired(d, KeepTape)'
        BY <4>1, DaysAssumption DEF Expired
      <4>3. Sweeping' = Sweeping
        BY <4>1 DEF Sweeping
      <4> QED BY <4>1, <4>2, <4>3 DEF Locks
    <3>5. CASE UNCHANGED <<sweep, today>>
      BY <3>5 DEF Locks, Sweeping, Expired
    <3> QED
      BY <1>3, <3>1, <3>2, <3>3, <3>4, <3>5
      DEF OtherActs, Receive, SweepStep, ReaderStep, OpenReader, ListPartition, ReadSegment,
          ViewTaken, CloseReader, UnchangedByReader
  <2> QED BY <2>2, <2>3, <2>4, <2>5 DEF Locks
<1> QED BY <1>1, <1>2, <1>3, NextIs

-----------------------------------------------------------------------------
(* The world stands when nothing is received and no segment is new.        *)
LEMMA WorldStands ==
  ASSUME World, UNCHANGED <<today, next, archive>>, Segments' \subseteq Segments,
         (\A s \in tape : s.date \in Int)', (\A s, t \in tape : Path(s) = Path(t) => s = t)'
  PROVE  World'
<1>1. ArchiveOk'
  BY DEF World, ArchiveOk, PayloadOk
<1>2. SegmentsOk'
  BY DEF World, SegmentsOk, SegmentOk
<1>3. ReceivedThatDay'
  BY DEF World, ReceivedThatDay
<1>4. WholeInArchive' /\ WholeOnTape'
  BY DEF World, WholeInArchive, WholeOnTape
<1> QED BY <1>1, <1>2, <1>3, <1>4 DEF World

LEMMA HandStands ==
  ASSUME NEW j \in Jobs, Moves(j), job'[j].todo \subseteq job[j].todo
  PROVE  InHand' \subseteq InHand
BY DEF Moves, InHand

LEMMA WorldOnJob ==
  ASSUME Shape, World, NEW j \in Jobs, JobActs(j), ~ReadDay(j)
  PROVE  World'
<1>1. /\ Moves(j) /\ InHand' \subseteq InHand
      /\ WriteSegment(j) \/ Unlink(j) \/ UNCHANGED tape
  BY JobMoves, HandStands
<1>2. CASE WriteSegment(j)
  <2>1. PICK segment \in job[j].todo :
          segment \in Segments /\ tape' = {s \in tape : Path(s) # Path(segment)} \cup {segment}
    BY <1>2, WrittenIs
  <2>2. Segments' \subseteq Segments
    BY <1>1, <2>1 DEF Segments, Labelled
  <2>3. /\ (\A s \in tape : s.date \in Int)'
        /\ (\A s, t \in tape : Path(s) = Path(t) => s = t)'
    BY <2>1 DEF World, SegmentsOk, SegmentOk
  <2> QED BY <1>1, <2>2, <2>3, WorldStands DEF Moves
<1>3. CASE Unlink(j) \/ UNCHANGED tape
  <2>1. tape' \subseteq tape
    BY <1>3 DEF Unlink
  <2>2. Segments' \subseteq Segments
    BY <1>1, <2>1 DEF Segments, Labelled
  <2>3. /\ (\A s \in tape : s.date \in Int)'
        /\ (\A s, t \in tape : Path(s) = Path(t) => s = t)'
    BY <2>1 DEF World, SegmentsOk
  <2> QED BY <1>1, <2>2, <2>3, WorldStands DEF Moves
<1> QED BY <1>1, <1>2, <1>3

(* A day is read from a listing made before: what it is grouped into fits  *)
(* beside what earlier runs left, of that day or of others.                *)
LEMMA WorldOnReading ==
  ASSUME Shape, World, RunsOk, NEW j \in Jobs, ReadDay(j)
  PROVE  World'
<1> DEFINE v == job[j].venue
           day == Min(job[j].days)
           G == Group(ReadOf(j), v, day)
<1>1. job[j].days # {} /\ RunOk(job[j]) /\ ReadDay(j) /\ JobActs(j)
  BY DEF ReadDay, RunsOk, JobActs, JobStep
<1>2. day \in Nat
  BY <1>1, LeastDay
<1>3. Moves(j) /\ UNCHANGED tape
  BY <1>1, JobMoves DEF ReadDay
<1>4. Segments' \subseteq Segments \cup G
  <2>1. job'[j].todo \subseteq G
    <3>1. CASE TidiesUp(j, [job[j] EXCEPT !.ours = OursAfter(j)], day)
      <4>1. job'[j].todo = {}
        BY <3>1, NoRunIs DEF TidiesUp, RunFields
      <4> QED BY <4>1
    <3>2. CASE job'[j].todo = G
      BY <3>2
    <3> QED BY <3>1, <3>2, FieldsReading
  <2> QED BY <1>3, <2>1 DEF Segments, Labelled, InHand, Moves
<1>5. /\ \A s \in G : /\ SegmentOk(s) /\ s.venue = v /\ s.src = day
                      /\ s.seqs = {p.seq : p \in {q \in ReadOf(j) : Carried(q.seq, day, s.kind, s.date)}}
      /\ \A s, t \in G : s.kind = t.kind /\ s.date = t.date => s = t
  BY <1>2, GroupIs DEF World, ReadOf
<1>6. \A p \in ReadOf(j) : p \in archive /\ p.venue = v /\ p.day = day
  BY DEF ReadOf
<1>7. \A p \in archive : p.venue = v /\ p.day = day => p \in ReadOf(j)
  BY DEF ReadOf
<1>8. \A p \in archive : /\ p.seq \in DOMAIN Sent /\ p.seq \in Nat /\ p.day \in Nat
                         /\ p.venue = Sent[p.seq].venue
  BY SentAssumption DEF World, ArchiveOk, PayloadOk
<1>9. \A p, q \in archive : (p.seq <= q.seq => p.day <= q.day) /\ (p.seq = q.seq => p = q)
  BY DEF World, ArchiveOk
<1> HIDE DEF G, v, day
<1>10. UNCHANGED <<today, next, archive>>
  BY <1>3 DEF Moves
(* What a segment of the group holds was received on the day.              *)
<1>11. \A s \in G : \A q \in s.seqs : \E p \in ReadOf(j) : p.seq = q /\ Carried(q, day, s.kind, s.date)
  BY <1>5
<1>12. \A s \in G : \A p \in ReadOf(j) : Carried(p.seq, day, s.kind, s.date) => p.seq \in s.seqs
  BY <1>5
<1>13. ArchiveOk'
  BY <1>10 DEF World, ArchiveOk, PayloadOk
<1>14. SegmentsOk'
  <2>1. \A s \in Segments \cup G : SegmentOk(s)
    BY <1>5 DEF World, SegmentsOk
  <2> QED BY <1>3, <1>4, <1>10, <2>1 DEF World, SegmentsOk, SegmentOk
<1>15. \A s \in G : s.first \in s.seqs /\ s.last \in s.seqs
  BY <1>5 DEF SegmentOk
<1>16. ReceivedThatDay'
  <2>1. ASSUME NEW s \in G, NEW q \in s.seqs
        PROVE  /\ \A p \in archive : /\ p.seq <= q => p.day <= s.src
                                     /\ q <= p.seq => s.src <= p.day
               /\ \E p \in archive : p.seq = q
    <3>1. PICK x \in ReadOf(j) : x.seq = q
      BY <1>11
    <3> QED BY <3>1, <1>5, <1>6, <1>9
  <2> QED BY <1>4, <1>10, <2>1 DEF World, ReceivedThatDay
(* A payload received between two of a day was received that day.          *)
<1>17. ASSUME NEW s \in G, NEW p \in archive, p.venue = v, s.first <= p.seq, p.seq <= s.last
       PROVE  p \in ReadOf(j)
  <2>1. PICK a \in ReadOf(j) : a.seq = s.first
    BY <1>11, <1>15
  <2>2. PICK b \in ReadOf(j) : b.seq = s.last
    BY <1>11, <1>15
  <2>3. day <= p.day /\ p.day <= day
    BY <1>6, <1>9, <1>17, <2>1, <2>2
  <2>4. p.day = day
    BY <1>2, <1>8, <2>3 DEF day
  <2> QED BY <1>7, <1>17, <2>4
<1>18. WholeInArchive'
  <2>1. ASSUME NEW s \in G, NEW p \in archive, p.venue = s.venue,
               Carried(p.seq, p.day, s.kind, s.date), s.first <= p.seq, p.seq <= s.last
        PROVE  p.seq \in s.seqs
    BY <2>1, <1>5, <1>6, <1>12, <1>17
  <2> QED BY <1>4, <1>10, <2>1 DEF World, WholeInArchive
<1>19. WholeOnTape'
  <2>1. ASSUME NEW s \in G, NEW t \in G, s.kind = t.kind, s.date = t.date
        PROVE  s = t
    BY <1>5, <2>1
  <2>2. ASSUME NEW s \in Segments, NEW t \in G, s.venue = t.venue, s.kind = t.kind, s.date = t.date,
               NEW q \in t.seqs, s.first <= q, q <= s.last
        PROVE  q \in s.seqs
    <3>1. PICK p \in ReadOf(j) : p.seq = q /\ Carried(q, day, t.kind, t.date)
      BY <1>11
    <3> QED BY <1>5, <1>6, <2>2, <3>1 DEF World, WholeInArchive
  <2>3. ASSUME NEW s \in G, NEW t \in Segments, s.venue = t.venue, s.kind = t.kind, s.date = t.date,
               NEW q \in t.seqs, s.first <= q, q <= s.last
        PROVE  q \in s.seqs
    <3>1. PICK a \in ReadOf(j) : a.seq = s.first
      BY <1>11, <1>15
    <3>2. PICK b \in ReadOf(j) : b.seq = s.last
      BY <1>11, <1>15
    <3>3. day <= t.src /\ t.src <= day
      BY <1>6, <2>3, <3>1, <3>2 DEF World, ReceivedThatDay
    <3>4. SegmentOk(t)
      BY DEF World, SegmentsOk
    <3>5. t.src = day
      BY <1>2, <3>3, <3>4 DEF SegmentOk, day
    <3>6. PICK p \in archive : p.seq = q
      <4>1. a \in archive /\ a.venue = t.venue /\ a.day = t.src
        BY <1>5, <1>6, <2>3, <3>5
      <4> QED BY <4>1 DEF World, ReceivedThatDay
    <3>7. p.venue = v /\ Carried(q, day, t.kind, t.date)
      BY <1>5, <1>8, <2>3, <3>4, <3>5, <3>6 DEF SegmentOk
    <3>8. p \in ReadOf(j)
      BY <1>17, <2>3, <3>6, <3>7
    <3> QED BY <1>12, <2>3, <3>6, <3>7, <3>8
  <2> QED BY <1>4, <2>1, <2>2, <2>3 DEF World, WholeOnTape
<1> QED BY <1>13, <1>14, <1>16, <1>18, <1>19 DEF World

LEMMA WorldOnReceive ==
  ASSUME World, Receive
  PROVE  World'
<1>1. PICK bad \in BOOLEAN :
        archive' = archive \cup {[seq |-> next, venue |-> Sent[next].venue, day |-> today,
                                  carries |-> Sent[next].carries, bad |-> bad]}
  BY DEF Receive
<1> DEFINE new == [seq |-> next, venue |-> Sent[next].venue, day |-> today,
                   carries |-> Sent[next].carries, bad |-> bad]
<1>2. /\ new.seq = next /\ new.day = today /\ new.venue = Sent[next].venue
      /\ new.carries = Sent[next].carries /\ archive' = archive \cup {new}
  BY <1>1
<1> HIDE DEF new
<1>3. /\ next \in DOMAIN Sent /\ next \in Nat /\ next' = next + 1 /\ today \in Nat
      /\ UNCHANGED <<today, tape, job>>
  BY SentAssumption DEF Receive, World, ArchiveOk
<1>4. Segments' = Segments
  BY <1>3 DEF Segments, Labelled, InHand
<1>5. \A p \in archive : /\ p.seq \in Nat /\ p.seq < next /\ p.day \in Nat /\ p.day <= today
  BY SentAssumption DEF World, ArchiveOk, PayloadOk
<1>6. \A s \in Segments : /\ \A q \in s.seqs : q \in Nat /\ q < next
                          /\ s.first \in s.seqs /\ s.last \in s.seqs
                          /\ s.src \in Nat /\ s.src <= today
  BY SentAssumption DEF World, SegmentsOk, SegmentOk
<1>7. ArchiveOk'
  <2>1. (\A p \in archive : PayloadOk(p))'
    BY <1>2, <1>3, <1>5 DEF World, ArchiveOk, PayloadOk
  <2>2. (\A p, q \in archive : (p.seq <= q.seq => p.day <= q.day) /\ (p.seq = q.seq => p = q))'
    BY <1>2, <1>3, <1>5 DEF World, ArchiveOk
  <2> QED BY <1>3, <2>1, <2>2 DEF ArchiveOk
<1>8. SegmentsOk'
  BY <1>3, <1>4, <1>6 DEF World, SegmentsOk, SegmentOk
<1>9. ReceivedThatDay'
  <2>1. \A s \in Segments : \A q \in s.seqs :
          \A p \in archive' : (p.seq <= q => p.day <= s.src) /\ (q <= p.seq => s.src <= p.day)
    BY <1>2, <1>3, <1>6 DEF World, ReceivedThatDay
  <2>2. ASSUME NEW s \in Segments, NEW q \in s.seqs,
               s.src = today \/ \E p \in archive' : p.venue = s.venue /\ p.day = s.src
        PROVE  \E p \in archive' : p.seq = q
    BY <1>2, <1>3, <2>2 DEF World, ReceivedThatDay
  <2> QED BY <1>3, <1>4, <2>1, <2>2 DEF ReceivedThatDay
<1>10. WholeInArchive'
  BY <1>2, <1>3, <1>4, <1>6 DEF World, WholeInArchive
<1>11. WholeOnTape'
  BY <1>4 DEF World, WholeOnTape
<1> QED BY <1>7, <1>8, <1>9, <1>10, <1>11 DEF World

LEMMA WorldOnNextDay ==
  ASSUME World, NextDay
  PROVE  World'
<1>1. /\ today \in Nat /\ today' = today + 1 /\ UNCHANGED <<next, archive, tape, job>>
  BY DEF NextDay, World, ArchiveOk
<1>2. Segments' = Segments
  BY <1>1 DEF Segments, Labelled, InHand
<1>3. \A s \in Segments : s.src \in Nat /\ s.src <= today
  BY DEF World, SegmentsOk, SegmentOk
<1>4. ArchiveOk'
  BY <1>1 DEF World, ArchiveOk, PayloadOk
<1>5. SegmentsOk'
  BY <1>1, <1>2 DEF World, SegmentsOk, SegmentOk
<1>6. ReceivedThatDay'
  BY <1>1, <1>2, <1>3 DEF World, ReceivedThatDay
<1> QED BY <1>1, <1>2, <1>4, <1>5, <1>6 DEF World, WholeInArchive, WholeOnTape

(* Retention takes a day of a venue whole, and never today.                *)
LEMMA WorldOnRemoveDir ==
  ASSUME World, Locks, RemoveDir
  PROVE  World'
<1>1. PICK d \in sweep.dirs :
        IF d.store = "archive"
        THEN archive' = {p \in archive : p.venue # d.venue \/ p.day # d.day} /\ UNCHANGED tape
        ELSE tape' = {s \in tape : s.kind # d.kind \/ s.date # d.date} /\ UNCHANGED archive
  BY DEF RemoveDir
<1>2. UNCHANGED <<today, next, job>>
  BY DEF RemoveDir, UnchangedBySweep
<1>3. tape' \subseteq tape
  BY <1>1
<1>4. Segments' \subseteq Segments
  BY <1>2, <1>3 DEF Segments, Labelled, InHand
<1>5. CASE UNCHANGED archive
  BY <1>2, <1>3, <1>4, <1>5, WorldStands DEF World, SegmentsOk
<1>6. CASE /\ d.store = "archive"
           /\ archive' = {p \in archive : p.venue # d.venue \/ p.day # d.day}
  <2>1. d.day \in Nat /\ d.day < today
    BY <1>6 DEF RemoveDir, Locks
  <2>2. archive' \subseteq archive
    BY <1>6
  <2>3. ArchiveOk'
    BY <1>2, <2>2 DEF World, ArchiveOk, PayloadOk
  <2>4. SegmentsOk'
    BY <1>2, <1>3, <1>4 DEF World, SegmentsOk, SegmentOk
  <2>5. WholeInArchive' /\ WholeOnTape'
    BY <1>4, <2>2 DEF World, WholeInArchive, WholeOnTape
  <2>6. ReceivedThatDay'
    <3>1. ASSUME NEW s \in Segments, NEW q \in s.seqs,
                 s.src = today \/ \E p \in archive' : p.venue = s.venue /\ p.day = s.src
          PROVE  \E p \in archive' : p.seq = q
      <4>1. PICK p \in archive : p.seq = q
        BY <2>2, <3>1 DEF World, ReceivedThatDay
      <4>2. SegmentOk(s) /\ PayloadOk(p) /\ q \in Nat
        BY <4>1, SentAssumption DEF World, SegmentsOk, ArchiveOk, SegmentOk
      <4>3. p.venue = s.venue
        BY <4>1, <4>2 DEF SegmentOk, PayloadOk
      <4>4. p.day <= s.src /\ s.src <= p.day
        BY <4>1, <4>2 DEF World, ReceivedThatDay
      <4>5. p.day = s.src
        BY <4>2, <4>4 DEF SegmentOk, PayloadOk
      <4>6. p.venue # d.venue \/ p.day # d.day
        BY <1>6, <2>1, <3>1, <4>2, <4>3, <4>5 DEF SegmentOk
      <4> QED BY <1>6, <4>1, <4>6
    <3> QED BY <1>2, <1>4, <2>2, <3>1 DEF World, ReceivedThatDay
  <2> QED BY <2>3, <2>4, <2>5, <2>6 DEF World
<1> QED BY <1>1, <1>5, <1>6

LEMMA WorldStep ==
  ASSUME Shape, World, RunsOk, Locks, [Next]_vars
  PROVE  World'
<1>1. CASE UNCHANGED <<today, next, archive, tape, job>>
  <2>1. Segments' = Segments
    BY <1>1 DEF Segments, Labelled, InHand
  <2> QED BY <1>1, <2>1, WorldStands DEF World, SegmentsOk
<1>2. ASSUME NEW j \in Jobs, JobActs(j)
      PROVE  World'
  BY <1>2, WorldOnJob, WorldOnReading
<1>3. CASE OtherActs
  <2>1. CASE StartSweep \/ SweepEnds \/ RemoveDirFails
    BY <1>1, <2>1 DEF StartSweep, SweepEnds, RemoveDirFails, UnchangedBySweep
  <2>2. CASE ReaderStep
    BY <1>1, <2>2
    DEF ReaderStep, OpenReader, ListPartition, ReadSegment, ViewTaken, CloseReader,
        UnchangedByReader
  <2> QED BY <1>3, <2>1, <2>2, WorldOnReceive, WorldOnNextDay, WorldOnRemoveDir
          DEF OtherActs, SweepStep
<1>4. CASE UNCHANGED vars
  BY <1>1, <1>4 DEF vars
<1> QED BY <1>2, <1>3, <1>4, NextIs

-----------------------------------------------------------------------------
(***************************************************************************)
(* A run among the segments: what it has written, what it planned to       *)
(* replace, and that whatever it comes to remove is on the tape twice.     *)
(***************************************************************************)
Mine(run) == {s \in tape : Path(s) \in run.written \cup run.now} \cup run.todo
Kept(run) == {s \in tape : Path(s) \in run.written}

(* What was read is in the run's own segments, each of a day of its own:   *)
(* of days gone by in the committed ones, of this day in the others.       *)
MineOk(run) ==
  run.at \in Planned =>
    /\ run.derived \subseteq Projection /\ run.derived = Rows(Mine(run))
    /\ \A s \in Mine(run) : s.venue = run.venue /\ run.from <= s.src /\ s.src < run.to
    /\ \A s, t \in Mine(run) : s.kind = t.kind /\ s.date = t.date /\ s.src = t.src => s = t
    /\ \A s \in Kept(run) : s.src \notin run.days
    /\ \A s \in run.todo \cup (Mine(run) \ Kept(run)) : s.src = Min(run.days)
    /\ \A path \in run.written \cup run.now : \E s \in tape : Path(s) = path

(* The plan still says of every path what is there.                        *)
PlanOk(run) ==
  run.at \in {"day", "write"} =>
    /\ \A l \in run.labelled : \E s \in tape : /\ Path(s) = l.path /\ s.venue = l.venue
                                               /\ s.src = l.src
    /\ \A s \in tape \ Mine(run) :
         [path |-> Path(s), venue |-> s.venue, src |-> s.src] \in run.labelled

(* A payload in a segment of the range that is not the run's own is of a   *)
(* day still to read, or written again.                                    *)
Superseded(run) ==
  \A s \in tape \ Mine(run), p \in archive :
    p.seq \in s.seqs /\ s.venue = run.venue /\ run.from <= s.src /\ s.src < run.to =>
      /\ run.at \in {"day", "write"} => s.src \in run.days \/ Derived(p) \subseteq Rows(Kept(run))
      /\ run.at = "write" /\ s.src = Min(run.days) => Derived(p) \subseteq Rows(Mine(run))

(* What is left when the doomed are gone.                                  *)
Spared(run) == {t \in tape : Path(t) \notin run.doomed}
DoomedOk(run) ==
  /\ \A s \in tape : Path(s) \in run.doomed =>
       RowsOf(s) \cap Projection \subseteq Rows(Spared(run))
  /\ run.at = "remove" => run.doomed \cap run.written = {}
  /\ run.at \in {"remove", "check"} => \A s \in tape :
       s.venue = run.venue /\ run.from <= s.src /\ s.src < run.to =>
         Path(s) \in run.written \cup run.doomed

RunHolds(run) == MineOk(run) /\ PlanOk(run) /\ Superseded(run) /\ DoomedOk(run)
RunsHold == \A j \in Jobs : RunHolds(job[j])

(* A payload a segment holds is of the segment's venue and receipt day.    *)
LEMMA HeldOnItsDay ==
  ASSUME World, NEW s \in Segments, NEW p \in archive, p.seq \in s.seqs
  PROVE  p.venue = s.venue /\ p.day = s.src
<1>1. SegmentOk(s) /\ PayloadOk(p) /\ p.seq \in Nat
  BY SentAssumption DEF World, SegmentsOk, ArchiveOk, PayloadOk
<1>2. p.day <= s.src /\ s.src <= p.day
  BY <1>1 DEF World, ReceivedThatDay
<1> QED BY <1>1, <1>2 DEF SegmentOk, PayloadOk

LEMMA RowIs ==
  ASSUME NEW s, NEW r
  PROVE  r \in RowsOf(s) <=> \E q \in s.seqs : r = RowOf(s.venue, q, s.kind, s.date)
BY DEF RowsOf, RowOf

(* A row that can still be derived is of a payload still archived.         *)
LEMMA StillArchived ==
  ASSUME World, NEW s, NEW r \in RowsOf(s), r \in Projection
  PROVE  /\ r.kind = s.kind /\ r.date = s.date /\ r.venue = s.venue /\ s.venue # NoVenue
         /\ \E p \in archive : p.seq = r.seq /\ p.seq \in s.seqs /\ r \in Derived(p)
<1>1. PICK q \in s.seqs : r = RowOf(s.venue, q, s.kind, s.date)
  BY RowIs
<1>2. PICK p \in archive : r \in Derived(p)
  BY DEF Projection, DerivedFrom
<1>3. r = RowOf(p.venue, p.seq, r.kind, r.date) /\ p.venue = Sent[p.seq].venue /\ p.seq \in DOMAIN Sent
  BY <1>2, DerivedIs DEF World, ArchiveOk, PayloadOk
<1>4. /\ r.kind = s.kind /\ r.date = s.date /\ r.venue = s.venue /\ r.seq = q
      /\ r.seq = p.seq /\ r.venue = p.venue
  BY <1>1, <1>3 DEF RowOf
<1> QED BY <1>2, <1>3, <1>4, SentAssumption

LEMMA SameNameSameDay ==
  ASSUME World, NEW s \in Segments, NEW t \in Segments, Path(s) = Path(t),
         RowsOf(s) \subseteq Projection
  PROVE  s.src = t.src
<1>1. s.kind = t.kind /\ s.date = t.date /\ s.first = t.first /\ s.last = t.last
  BY DEF Path
<1>2. s.first \in s.seqs /\ t.first \in t.seqs
  BY DEF World, SegmentsOk, SegmentOk
<1> DEFINE r == RowOf(s.venue, s.first, s.kind, s.date)
<1>3. r \in RowsOf(s) /\ r.seq = s.first
  BY <1>2, RowIs DEF RowOf
<1> HIDE DEF r
<1>4. PICK p \in archive : p.seq = s.first
  BY <1>3, StillArchived
<1> QED BY <1>1, <1>2, <1>4, HeldOnItsDay

(* A run that is not among its segments has nothing to keep.               *)
LEMMA QuietRun ==
  ASSUME NEW j \in Jobs, RunOk(job[j])', job'[j].at \notin Planned \cup {"tidy"}
  PROVE  RunHolds(job[j])'
BY DEF RunOk, RunHolds, MineOk, PlanOk, Superseded, DoomedOk, Planned

(* One that holds goes on holding while nothing it sees moves.             *)
LEMMA HoldsStill ==
  ASSUME NEW j \in Jobs, RunHolds(job[j]), job'[j] = job[j], UNCHANGED <<tape, archive>>
  PROVE  RunHolds(job[j])'
BY DEF RunHolds, MineOk, PlanOk, Superseded, DoomedOk, Mine, Kept, Spared, Projection, DerivedFrom

(* Of the processes only one is among the segments.                        *)
LEMMA OthersHold ==
  ASSUME Shape, World, RunsOk, Locks, RunsHold, [Next]_vars,
         NEW j \in Jobs, JobActs(j), NEW i \in Jobs \ {j}
  PROVE  RunHolds(job[i])'
<1>1. /\ Moves(j) /\ job'[i] = job[i] /\ UNCHANGED archive
      /\ WriteSegment(j) \/ Unlink(j) \/ UNCHANGED tape
  BY JobMoves DEF Moves
<1>2. CASE UNCHANGED tape
  BY <1>1, <1>2, HoldsStill DEF RunsHold
<1>3. CASE WriteSegment(j) \/ Unlink(j)
  <2>1. WritesTape(j)
    BY <1>3 DEF WriteSegment, Unlink, At, WritesTape, ReadsArchive
  <2>2. ~WritesTape(i)
    BY <2>1 DEF Locks
  <2>3. RunOk(job[i])'
    BY RunsStep DEF World, RunsOk
  <2> QED BY <1>1, <2>2, <2>3, QuietRun DEF WritesTape, ReadsArchive, Planned
<1> QED BY <1>1, <1>2, <1>3

-----------------------------------------------------------------------------
(* The steps of a run among its segments, one by one.                      *)
RunState ==
  /\ Shape /\ World /\ RunsOk /\ Locks /\ RunsHold

LEMMA MineAreSegments ==
  ASSUME RunState, NEW j \in Jobs, job[j].at \in Planned
  PROVE  Mine(job[j]) \subseteq Segments /\ tape \subseteq Segments /\ RunHolds(job[j]) /\ RunOk(job[j])
<1>1. AllLabelled /\ RunHolds(job[j]) /\ RunOk(job[j])
  BY DEF RunState, Locks, RunsHold, RunsOk
<1> QED BY <1>1 DEF AllLabelled, Mine, Segments, Labelled, InHand

(* What a run that is ending, or tidying up, dooms is on the tape twice:   *)
(* the days before the one it came to are committed.                       *)
LEMMA DoomedAreTwice ==
  ASSUME RunState, NEW j \in Jobs, job[j].at \in {"day", "write"},
         NEW run, run.labelled = job[j].labelled, run.from = job[j].from,
         run.written = job[j].written, \A v \in run.ours : v = job[j].venue,
         NEW day \in Int, day <= job[j].to, \A d \in job[j].days : day <= d,
         \A s \in Mine(job[j]) \ Kept(job[j]) : day <= s.src,
         NEW s \in tape, Path(s) \in Doomed(run, day)
  PROVE  RowsOf(s) \cap Projection \subseteq Rows({t \in tape : Path(t) \notin Doomed(run, day)})
<1>1. /\ RunOk(job[j]) /\ MineOk(job[j]) /\ PlanOk(job[j]) /\ Superseded(job[j])
      /\ job[j].at \in Planned /\ Mine(job[j]) \subseteq Segments /\ tape \subseteq Segments
  BY MineAreSegments DEF RunHolds, Planned
<1>2. PICK l \in job[j].labelled : /\ l.path = Path(s) /\ l.venue = job[j].venue
                                   /\ job[j].from <= l.src /\ l.src < day
                                   /\ l.path \notin job[j].written
  BY DEF Doomed
<1>3. s.venue = l.venue /\ s.src = l.src
  BY <1>1, <1>2 DEF PlanOk, RunState, World, SegmentsOk
<1>4. s.src \in Nat
  BY <1>1 DEF RunState, World, SegmentsOk, SegmentOk
<1>5. s \notin Kept(job[j])
  BY <1>2 DEF Kept
<1>6. s \notin Mine(job[j])
  BY <1>2, <1>3, <1>4, <1>5
<1>7. s.src \notin job[j].days
  BY <1>2, <1>3, <1>4, <1>1 DEF RunOk
<1>8. job[j].from \in Int /\ job[j].to \in Int
  BY <1>1 DEF RunOk
<1>9. s.src < job[j].to
  BY <1>2, <1>3, <1>4, <1>8
<1>10. Kept(job[j]) \subseteq {t \in tape : Path(t) \notin Doomed(run, day)}
  BY DEF Kept, Doomed
<1>11. ASSUME NEW r \in RowsOf(s), r \in Projection
       PROVE  r \in Rows(Kept(job[j]))
  <2>1. PICK p \in archive : p.seq \in s.seqs /\ r \in Derived(p)
    BY <1>11, StillArchived DEF RunState
  <2> QED BY <1>1, <1>2, <1>3, <1>6, <1>7, <1>9, <2>1 DEF Superseded
<1> QED BY <1>10, <1>11 DEF Rows

(* Only the run's venue is among the venues whose segments it may remove.  *)
LEMMA OursIs ==
  ASSUME RunState, NEW j \in Jobs, job[j].at \in Planned
  PROVE  \A v \in job[j].ours : v = job[j].venue
<1>1. /\ job[j].ours = {r.venue : r \in job[j].derived} /\ job[j].derived = Rows(Mine(job[j]))
      /\ \A s \in Mine(job[j]) : s.venue = job[j].venue
  BY MineAreSegments DEF RunOk, RunHolds, MineOk
<1>2. \A s : \A r \in RowsOf(s) : r.venue = s.venue
  BY DEF RowsOf
<1> QED BY <1>1, <1>2 DEF Rows

LEMMA HoldsOnPlan ==
  ASSUME RunState, NEW j \in Jobs, Plan(j), RunOk(job[j])'
  PROVE  RunHolds(job[j])'
<1>1. job[j].at = "plan" /\ UNCHANGED <<tape, archive>> /\ Shape /\ World
  BY DEF Plan, At, UnchangedByJob, RunState
<1>2. CASE EndsRun(j)
  BY <1>2, NoRunIs, QuietRun DEF EndsRun, Planned
<1>3. CASE /\ AllLabelled /\ job'[j].at = "day" /\ job'[j].days = DaysOf(job[j])
           /\ job'[j].labelled = Marks(tape) /\ Keeps(j, {"at", "days", "labelled"})
  <2>1. /\ job'[j].derived = {} /\ job'[j].written = {} /\ job'[j].todo = {} /\ job'[j].now = {}
        /\ job'[j].doomed = {} /\ job'[j].venue = job[j].venue
        /\ job'[j].from = job[j].from /\ job'[j].to = job[j].to
    BY <1>1, <1>3 DEF RunState, RunsOk, RunOk, Keeps, RunFields
  <2>2. Mine(job[j])' = {} /\ Kept(job[j])' = {}
    BY <2>1 DEF Mine, Kept
  <2>3. MineOk(job[j])'
    BY <2>1, <2>2 DEF MineOk, Rows
  <2>4. PlanOk(job[j])'
    BY <1>1, <1>3, <2>2 DEF PlanOk, Marks
  <2>5. Superseded(job[j])'
    <3>1. ASSUME NEW s \in tape, NEW p \in archive, p.seq \in s.seqs, s.venue = job[j].venue,
                 job[j].from <= s.src, s.src < job[j].to
          PROVE  s.src \in DaysOf(job[j])
      <4>1. s \in Segments
        BY <1>3 DEF AllLabelled, Segments, Labelled
      <4>2. p.venue = s.venue /\ p.day = s.src
        BY <1>1, <3>1, <4>1, HeldOnItsDay
      <4> QED BY <3>1, <4>2 DEF DaysOf
    <3> QED BY <1>1, <1>3, <2>1, <3>1 DEF Superseded
  <2>6. DoomedOk(job[j])'
    BY <1>3, <2>1 DEF DoomedOk
  <2> QED BY <2>3, <2>4, <2>5, <2>6 DEF RunHolds
<1> QED BY <1>1, <1>2, <1>3, FieldsPlanning DEF AllLabelled

(* A run that tidies up has only what it dooms.                            *)
LEMMA HoldsTidying ==
  ASSUME RunState, NEW j \in Jobs, job[j].at \in {"day", "write"}, job[j].days # {},
         UNCHANGED <<tape, archive>>,
         NEW run, run.labelled = job[j].labelled, run.from = job[j].from,
         run.written = job[j].written, \A v \in run.ours : v = job[j].venue,
         TidiesUp(j, run, Min(job[j].days))
  PROVE  RunHolds(job[j])'
<1>1. job'[j].at = "tidy" /\ job'[j].doomed = Doomed(run, Min(job[j].days))
  BY DEF TidiesUp
<1>2. /\ RunOk(job[j]) /\ MineOk(job[j]) /\ job[j].at \in Planned
  BY MineAreSegments DEF RunHolds, Planned
<1>3. PICK day \in Nat : day = Min(job[j].days) /\ day <= job[j].to /\ \A d \in job[j].days : day <= d
  BY <1>2, LeastDay DEF RunOk
<1>4. \A s \in Mine(job[j]) \ Kept(job[j]) : day <= s.src
  BY <1>2, <1>3 DEF MineOk
<1>5. \A s \in tape : Path(s) \in Doomed(run, day) =>
        RowsOf(s) \cap Projection \subseteq Rows({t \in tape : Path(t) \notin Doomed(run, day)})
  BY <1>3, <1>4, DoomedAreTwice
<1>6. Projection' = Projection
  BY DEF Projection
<1>7. DoomedOk(job[j])'
  BY <1>1, <1>3, <1>5, <1>6 DEF DoomedOk, Spared
<1> QED BY <1>1, <1>7 DEF RunHolds, MineOk, PlanOk, Superseded, Planned

LEMMA HoldsOnReading ==
  ASSUME RunState, NEW j \in Jobs, ReadDay(j)
  PROVE  RunHolds(job[j])'
<1> DEFINE G == Group(ReadOf(j), job[j].venue, Min(job[j].days))
<1>1. /\ job[j].at = "day" /\ job[j].days # {} /\ UNCHANGED <<tape, archive>>
      /\ Shape /\ World /\ job[j].at \in Planned
  BY DEF ReadDay, At, UnchangedByJob, RunState, Planned
<1>2. /\ RunOk(job[j]) /\ MineOk(job[j]) /\ PlanOk(job[j]) /\ Superseded(job[j])
      /\ tape \subseteq Segments
  BY <1>1, MineAreSegments DEF RunHolds
<1>3. PICK day \in Nat : day = Min(job[j].days) /\ day \in job[j].days
  BY <1>1, <1>2, LeastDay
<1>4. /\ \A s \in G : s.venue = job[j].venue /\ s.src = day
      /\ \A s, t \in G : s.kind = t.kind /\ s.date = t.date => s = t
      /\ Rows(G) = DerivedFrom(ReadOf(j))
  <2>1. ReadOf(j) = {p \in archive : p.venue = job[j].venue /\ p.day = day}
    BY <1>3 DEF ReadOf
  <2>2. ArchiveOk
    BY <1>1 DEF World
  <2>3. G = Group(ReadOf(j), job[j].venue, day)
    BY <1>3
  <2> HIDE DEF G
  <2>4. PICK v : v = job[j].venue
    OBVIOUS
  <2>5. PICK read : read = ReadOf(j)
    OBVIOUS
  <2>6. \A p \in read : p \in archive /\ p.venue = v /\ p.day = day
    BY <2>1, <2>4, <2>5
  <2>7. /\ \A s \in Group(read, v, day) :
             /\ SegmentOk(s) /\ s.venue = v /\ s.src = day
             /\ s.seqs = {p.seq : p \in {q \in read : Carried(q.seq, day, s.kind, s.date)}}
        /\ \A s, t \in Group(read, v, day) : s.kind = t.kind /\ s.date = t.date => s = t
        /\ Rows(Group(read, v, day)) = DerivedFrom(read)
    <3>1. day \in Nat
      BY <1>3
    <3> QED BY <2>2, <2>6, <3>1, GroupIs
  <2>8. G = Group(read, v, day)
    BY <2>3, <2>4, <2>5
  <2> QED BY <2>4, <2>5, <2>7, <2>8
<1>5. \A p \in ReadOf(j) : p \in archive /\ p.venue = job[j].venue
  BY DEF ReadOf
<1>6. \A v \in OursAfter(j) : v = job[j].venue
  <2>1. \A s : \A r \in RowsOf(s) : r.venue = s.venue
    BY DEF RowsOf
  <2>2. \A r \in DerivedFrom(ReadOf(j)) : r.venue = job[j].venue
    BY <1>4, <2>1 DEF Rows
  <2> QED BY <1>1, <2>2, OursIs DEF OursAfter
<1>7. CASE TidiesUp(j, [job[j] EXCEPT !.ours = OursAfter(j)], Min(job[j].days))
  <2> DEFINE run == [job[j] EXCEPT !.ours = OursAfter(j)]
  <2>1. /\ run.labelled = job[j].labelled /\ run.from = job[j].from
        /\ run.written = job[j].written /\ run.ours = OursAfter(j)
    BY <1>1 DEF Shape, RunFields
  <2>2. TidiesUp(j, run, Min(job[j].days))
    BY <1>7
  <2> HIDE DEF run
  <2> QED BY <1>1, <1>6, <2>1, <2>2, HoldsTidying
<1>8. CASE /\ job'[j].at = "write" /\ job'[j].derived = job[j].derived \cup DerivedFrom(ReadOf(j))
           /\ job'[j].todo = G /\ Keeps(j, {"at", "ours", "derived", "todo"})
  <2> HIDE DEF G
  <2>1. /\ job'[j].venue = job[j].venue /\ job'[j].from = job[j].from /\ job'[j].to = job[j].to
        /\ job'[j].days = job[j].days /\ job'[j].labelled = job[j].labelled
        /\ job'[j].written = job[j].written /\ job'[j].now = job[j].now
        /\ job'[j].doomed = job[j].doomed
    BY <1>8 DEF Keeps, RunFields
  <2>2. job[j].now = {} /\ job[j].todo = {} /\ job[j].doomed = {}
    BY <1>1, <1>2 DEF RunOk
  <2>3. /\ Mine(job[j]) = Kept(job[j]) /\ Kept(job[j])' = Kept(job[j])
        /\ Mine(job[j])' = Kept(job[j]) \cup G
    BY <1>1, <1>8, <2>1, <2>2 DEF Mine, Kept
  <2>4. Projection' = Projection /\ DerivedFrom(ReadOf(j)) \subseteq Projection
    BY <1>1, <1>5 DEF Projection, DerivedFrom
  <2>5. MineOk(job[j])'
    <3>1. (job[j].derived \subseteq Projection /\ job[j].derived = Rows(Mine(job[j])))'
      <4>1. Rows(Kept(job[j]) \cup G) = Rows(Kept(job[j])) \cup Rows(G)
        BY DEF Rows
      <4>2. job[j].derived \subseteq Projection /\ job[j].derived = Rows(Kept(job[j]))
        BY <1>1, <1>2, <2>3 DEF MineOk
      <4>3. Rows(Mine(job[j]))' = Rows(Kept(job[j]) \cup G)
        BY <2>3 DEF Rows
      <4> QED BY <1>4, <1>8, <2>4, <4>1, <4>2, <4>3
    <3>2. \A s \in Kept(job[j]) \cup G :
            s.venue = job[j].venue /\ job[j].from <= s.src /\ s.src < job[j].to
      BY <1>1, <1>2, <1>3, <1>4, <2>3 DEF MineOk, RunOk
    <3>3. \A s, t \in Kept(job[j]) \cup G :
            s.kind = t.kind /\ s.date = t.date /\ s.src = t.src => s = t
      BY <1>1, <1>2, <1>3, <1>4, <2>3 DEF MineOk
    <3>4. \A s \in G \cup ((Kept(job[j]) \cup G) \ Kept(job[j])) : s.src = Min(job[j].days)
      BY <1>3, <1>4
    <3> QED BY <1>1, <1>2, <1>8, <2>1, <2>3, <3>1, <3>2, <3>3, <3>4 DEF MineOk
  <2>6. PlanOk(job[j])'
    BY <1>1, <1>2, <2>1, <2>3 DEF PlanOk
  <2>7. Superseded(job[j])'
    <3>1. ASSUME NEW s \in tape, NEW p \in archive, p.seq \in s.seqs, s.venue = job[j].venue,
                 s.src = Min(job[j].days)
          PROVE  Derived(p) \subseteq Rows(Mine(job[j]))'
      <4>1. p.venue = s.venue /\ p.day = s.src
        BY <1>1, <1>2, <3>1, HeldOnItsDay
      <4>2. Derived(p) \subseteq Rows(G)
        BY <1>4, <3>1, <4>1 DEF ReadOf, DerivedFrom
      <4> QED BY <2>3, <4>2 DEF Rows
    <3>2. Rows(Kept(job[j]))' = Rows(Kept(job[j]))
      BY <2>3 DEF Rows
    <3> QED BY <1>1, <1>2, <2>1, <2>3, <3>1, <3>2 DEF Superseded
  <2>8. DoomedOk(job[j])'
    BY <1>8, <2>1, <2>2 DEF DoomedOk
  <2> QED BY <2>5, <2>6, <2>7, <2>8 DEF RunHolds
<1> QED BY <1>1, <1>7, <1>8, FieldsReading

LEMMA HoldsOnDayCommitted ==
  ASSUME RunState, NEW j \in Jobs, DayCommitted(j)
  PROVE  RunHolds(job[j])'
<1>1. /\ job[j].at = "write" /\ job[j].todo = {} /\ UNCHANGED <<tape, archive>>
      /\ Shape /\ job[j].at \in Planned
  BY DEF DayCommitted, At, UnchangedByJob, RunState, Planned
<1>2. /\ RunOk(job[j]) /\ MineOk(job[j]) /\ PlanOk(job[j]) /\ Superseded(job[j])
      /\ job[j].doomed = {}
  BY <1>1, MineAreSegments DEF RunHolds, RunOk
<1>3. /\ job'[j].at = "day" /\ job'[j].days = job[j].days \ {Min(job[j].days)}
      /\ job'[j].written = job[j].written \cup job[j].now /\ job'[j].now = {}
      /\ job'[j].venue = job[j].venue /\ job'[j].from = job[j].from /\ job'[j].to = job[j].to
      /\ job'[j].labelled = job[j].labelled /\ job'[j].doomed = {} /\ job'[j].todo = {}
      /\ job'[j].derived = job[j].derived
  BY <1>1, <1>2, FieldsMoving DEF Keeps, RunFields
<1>4. Mine(job[j])' = Mine(job[j]) /\ Kept(job[j])' = Mine(job[j]) /\ Kept(job[j]) \subseteq Mine(job[j])
  BY <1>1, <1>3 DEF Mine, Kept
<1>5. Rows(Mine(job[j]))' = Rows(Mine(job[j])) /\ Rows(Kept(job[j]))' = Rows(Mine(job[j]))
      /\ Rows(Kept(job[j])) \subseteq Rows(Mine(job[j])) /\ Projection' = Projection
  BY <1>1, <1>4 DEF Rows, Projection, DerivedFrom
<1>6. MineOk(job[j])'
  BY <1>1, <1>2, <1>3, <1>4, <1>5 DEF MineOk
<1>7. PlanOk(job[j])'
  BY <1>1, <1>2, <1>3, <1>4 DEF PlanOk
<1>8. Superseded(job[j])'
  <2>1. ASSUME NEW s \in tape \ Mine(job[j]), NEW p \in archive, p.seq \in s.seqs,
               s.venue = job[j].venue, job[j].from <= s.src, s.src < job[j].to,
               s.src \notin job[j].days \ {Min(job[j].days)}
        PROVE  Derived(p) \subseteq Rows(Mine(job[j]))
    BY <1>1, <1>2, <1>5, <2>1 DEF Superseded
  <2> QED BY <1>1, <1>3, <1>4, <1>5, <2>1 DEF Superseded
<1>9. DoomedOk(job[j])'
  BY <1>3 DEF DoomedOk
<1> QED BY <1>6, <1>7, <1>8, <1>9 DEF RunHolds

LEMMA HoldsOnAllDays ==
  ASSUME RunState, NEW j \in Jobs, AllDaysCommitted(j), RunOk(job[j])'
  PROVE  RunHolds(job[j])'
<1>1. /\ job[j].at = "day" /\ job[j].days = {} /\ UNCHANGED <<tape, archive>>
      /\ Shape /\ job[j].at \in Planned
  BY DEF AllDaysCommitted, At, UnchangedByJob, RunState, Planned
<1>2. /\ RunOk(job[j]) /\ MineOk(job[j]) /\ PlanOk(job[j]) /\ Superseded(job[j])
  BY <1>1, MineAreSegments DEF RunHolds
<1>3. CASE EndsRun(j)
  BY <1>3, NoRunIs, QuietRun DEF EndsRun, Planned
<1>4. CASE /\ job[j].derived # {} /\ job'[j].at = "remove"
           /\ job'[j].doomed = Doomed(job[j], job[j].to) /\ Keeps(j, {"at", "doomed"})
  <2>1. /\ job'[j].venue = job[j].venue /\ job'[j].from = job[j].from /\ job'[j].to = job[j].to
        /\ job'[j].written = job[j].written /\ job'[j].now = job[j].now
        /\ job'[j].todo = job[j].todo /\ job'[j].days = job[j].days
        /\ job'[j].derived = job[j].derived
    BY <1>4 DEF Keeps, RunFields
  <2>2. job[j].now = {} /\ job[j].todo = {} /\ job[j].to \in Int
    BY <1>1, <1>2 DEF RunOk
  <2>3. Mine(job[j]) = Kept(job[j]) /\ Mine(job[j])' = Mine(job[j]) /\ Kept(job[j])' = Kept(job[j])
    BY <1>1, <2>1, <2>2 DEF Mine, Kept
  <2>4. Rows(Mine(job[j]))' = Rows(Mine(job[j])) /\ Projection' = Projection
    BY <1>1, <2>3 DEF Rows, Projection, DerivedFrom
  <2>5. MineOk(job[j])'
    BY <1>1, <1>2, <2>1, <2>3, <2>4 DEF MineOk
  <2>6. DoomedOk(job[j])'
    <3>1. \A s \in tape : Path(s) \in Doomed(job[j], job[j].to) =>
            RowsOf(s) \cap Projection \subseteq
              Rows({t \in tape : Path(t) \notin Doomed(job[j], job[j].to)})
      <4>1. PICK run : run = job[j]
        OBVIOUS
      <4>2. PICK day \in Int : day = job[j].to
        BY <2>2
      <4>3. \A s \in tape : Path(s) \in Doomed(run, day) =>
              RowsOf(s) \cap Projection \subseteq Rows({t \in tape : Path(t) \notin Doomed(run, day)})
        BY <1>1, <2>3, <4>1, <4>2, OursIs, DoomedAreTwice
      <4> QED BY <4>1, <4>2, <4>3
    <3>2. Doomed(job[j], job[j].to) \cap job[j].written = {}
      BY DEF Doomed
    <3>3. ASSUME NEW s \in tape, s.venue = job[j].venue, job[j].from <= s.src, s.src < job[j].to,
                 Path(s) \notin job[j].written
          PROVE  Path(s) \in Doomed(job[j], job[j].to)
      <4>1. s \notin Mine(job[j])
        BY <2>3, <3>3 DEF Kept
      <4>2. [path |-> Path(s), venue |-> s.venue, src |-> s.src] \in job[j].labelled
        BY <1>1, <1>2, <4>1 DEF PlanOk
      <4>3. job[j].venue \in job[j].ours
        <5>1. PICK r \in job[j].derived : r.venue \in job[j].ours
          BY <1>2, <1>4 DEF RunOk
        <5> QED BY <1>1, <5>1, OursIs
      <4> QED BY <3>3, <4>2, <4>3 DEF Doomed
    <3> QED BY <1>1, <1>4, <2>1, <2>4, <3>1, <3>2, <3>3 DEF DoomedOk, Spared
  <2> QED BY <1>4, <2>5, <2>6 DEF RunHolds, PlanOk, Superseded
<1> QED BY <1>1, <1>3, <1>4, FieldsMoving

(* A segment of the name that is there already is the same segment, but    *)
(* for who wrote it.                                                       *)
LEMMA OverwrittenIs ==
  ASSUME RunState, NEW j \in Jobs, job[j].at = "write", NEW segment \in job[j].todo,
         NEW t \in tape, Path(t) = Path(segment)
  PROVE  /\ t.venue = segment.venue /\ t.src = segment.src /\ RowsOf(t) = RowsOf(segment)
         /\ t.kind = segment.kind /\ t.date = segment.date
<1>1. /\ segment \in Mine(job[j]) /\ MineOk(job[j]) /\ job[j].at \in Planned /\ World
      /\ segment \in Segments /\ t \in Segments
  BY MineAreSegments DEF Planned, RunHolds, Mine, RunState
<1>2. RowsOf(segment) \subseteq Projection
  BY <1>1 DEF MineOk, Rows
<1> QED BY <1>1, <1>2, SameNameSameRows, SameNameSameDay DEF Path

LEMMA HoldsOnWriting ==
  ASSUME RunState, NEW j \in Jobs, WriteSegment(j)
  PROVE  RunHolds(job[j])'
<1>1. /\ job[j].at = "write" /\ UNCHANGED archive /\ Shape /\ job[j].at \in Planned
  BY DEF WriteSegment, At, UnchangedByJob, RunState, Planned
<1>2. /\ RunOk(job[j]) /\ MineOk(job[j]) /\ PlanOk(job[j]) /\ Superseded(job[j])
      /\ job[j].doomed = {} /\ job[j].days # {}
  BY <1>1, MineAreSegments DEF RunHolds, RunOk
<1>3. PICK segment \in job[j].todo :
        /\ tape' = {s \in tape : Path(s) # Path(segment)} \cup {segment}
        /\ Goes(j, [job[j] EXCEPT !.todo = @ \ {segment}, !.now = @ \cup {Path(segment)}])
  BY WrittenIs
<1>4. /\ job'[j].todo = job[j].todo \ {segment} /\ job'[j].now = job[j].now \cup {Path(segment)}
      /\ job'[j].at = "write" /\ job'[j].days = job[j].days /\ job'[j].written = job[j].written
      /\ job'[j].venue = job[j].venue /\ job'[j].from = job[j].from /\ job'[j].to = job[j].to
      /\ job'[j].labelled = job[j].labelled /\ job'[j].doomed = {}
      /\ job'[j].derived = job[j].derived
  BY <1>1, <1>2, <1>3, FieldsWriting DEF Keeps, RunFields
<1>5. \A t \in tape : Path(t) = Path(segment) =>
        /\ t.venue = segment.venue /\ t.src = segment.src
        /\ t.kind = segment.kind /\ t.date = segment.date
  BY <1>1, OverwrittenIs
<1>6. segment \in Mine(job[j])
  BY DEF Mine
(* The path of the segment is not one of a day gone by.                    *)
<1>7. Path(segment) \notin job[j].written
  <2>1. SUFFICES ASSUME Path(segment) \in job[j].written
                 PROVE  FALSE
    OBVIOUS
  <2>2. PICK t \in tape : Path(t) = Path(segment)
    BY <1>1, <1>2, <2>1 DEF MineOk
  <2>3. t \in Kept(job[j]) /\ t \in Mine(job[j]) /\ t.src \notin job[j].days
    BY <1>1, <1>2, <2>1, <2>2 DEF Kept, Mine, MineOk
  <2>4. t = segment
    BY <1>1, <1>2, <1>5, <1>6, <2>2, <2>3 DEF MineOk
  <2>5. segment.src = Min(job[j].days) /\ Min(job[j].days) \in job[j].days
    BY <1>1, <1>2, LeastDay DEF MineOk
  <2> QED BY <2>3, <2>4, <2>5
<1>8. Kept(job[j])' = Kept(job[j])
  BY <1>3, <1>4, <1>7 DEF Kept
<1>9. Mine(job[j])' = Mine(job[j])
  <2>1. ASSUME NEW s \in Mine(job[j])
        PROVE  s \in Mine(job[j])'
    <3>1. CASE s \in job[j].todo
      BY <1>3, <1>4, <3>1 DEF Mine
    <3>2. CASE s \in tape /\ Path(s) \in job[j].written \cup job[j].now
      <4>1. CASE Path(s) = Path(segment)
        <5>1. s = segment
          BY <1>1, <1>2, <1>5, <1>6, <3>2, <4>1 DEF MineOk
        <5> QED BY <1>3, <1>4, <5>1 DEF Mine
      <4>2. CASE Path(s) # Path(segment)
        BY <1>3, <1>4, <3>2, <4>2 DEF Mine
      <4> QED BY <4>1, <4>2
    <3> QED BY <3>1, <3>2 DEF Mine
  <2>2. ASSUME NEW s \in Mine(job[j])'
        PROVE  s \in Mine(job[j])
    BY <1>3, <1>4, <2>2 DEF Mine
  <2> QED BY <2>1, <2>2
<1>10. /\ Rows(Mine(job[j]))' = Rows(Mine(job[j])) /\ Rows(Kept(job[j]))' = Rows(Kept(job[j]))
       /\ Projection' = Projection
  BY <1>1, <1>8, <1>9 DEF Rows, Projection, DerivedFrom
<1>11. MineOk(job[j])'
  <2>1. \A path \in job'[j].written \cup job'[j].now : \E s \in tape' : Path(s) = path
    BY <1>1, <1>2, <1>3, <1>4 DEF MineOk
  <2> QED BY <1>1, <1>2, <1>4, <1>8, <1>9, <1>10, <2>1 DEF MineOk
<1>12. PlanOk(job[j])'
  <2>1. \A l \in job[j].labelled : \E s \in tape' : /\ Path(s) = l.path /\ s.venue = l.venue
                                                    /\ s.src = l.src
    BY <1>1, <1>2, <1>3, <1>5 DEF PlanOk
  <2>2. \A s \in tape' \ Mine(job[j]) :
          [path |-> Path(s), venue |-> s.venue, src |-> s.src] \in job[j].labelled
    BY <1>1, <1>2, <1>3, <1>6 DEF PlanOk
  <2> QED BY <1>4, <1>9, <2>1, <2>2 DEF PlanOk
<1>13. Superseded(job[j])'
  <2>1. tape' \ Mine(job[j]) \subseteq tape \ Mine(job[j])
    BY <1>3, <1>6
  <2> QED BY <1>1, <1>2, <1>4, <1>9, <1>10, <2>1 DEF Superseded
<1>14. DoomedOk(job[j])'
  BY <1>4 DEF DoomedOk
<1> QED BY <1>11, <1>12, <1>13, <1>14 DEF RunHolds

LEMMA HoldsOnUnlink ==
  ASSUME RunState, NEW j \in Jobs, Unlink(j)
  PROVE  RunHolds(job[j])'
<1>1. /\ job[j].at \in {"remove", "tidy"} /\ UNCHANGED archive /\ Shape
      /\ RunHolds(job[j]) /\ RunOk(job[j])
  BY DEF Unlink, UnchangedByJob, RunState, RunsHold, RunsOk
<1>2. PICK path \in job[j].doomed :
        /\ tape' = {s \in tape : Path(s) # path}
        /\ Goes(j, [job[j] EXCEPT !.doomed = @ \ {path}])
  BY DEF Unlink
<1>3. /\ job'[j].doomed = job[j].doomed \ {path} /\ job'[j].at = job[j].at
      /\ job'[j].todo = job[j].todo /\ job'[j].now = job[j].now
      /\ job'[j].days = job[j].days /\ job'[j].written = job[j].written
      /\ job'[j].venue = job[j].venue /\ job'[j].from = job[j].from /\ job'[j].to = job[j].to
      /\ job'[j].derived = job[j].derived
  BY <1>1, <1>2, FieldsUnlinking DEF Keeps, RunFields
<1>4. job[j].todo = {} /\ job[j].now = {} /\ Projection' = Projection
  BY <1>1 DEF RunOk, Projection
<1>5. DoomedOk(job[j])'
  <2>1. Spared(job[j]) \subseteq Spared(job[j])'
    BY <1>2, <1>3 DEF Spared
  <2>2. Rows(Spared(job[j])) \subseteq Rows(Spared(job[j]))'
    BY <2>1 DEF Rows
  <2>3. DoomedOk(job[j])
    BY <1>1 DEF RunHolds
  <2>4. \A s \in tape' : Path(s) \in job'[j].doomed =>
          RowsOf(s) \cap Projection \subseteq Rows(Spared(job[j]))'
    BY <1>2, <1>3, <2>2, <2>3 DEF DoomedOk
  <2> QED BY <1>2, <1>3, <1>4, <2>3, <2>4 DEF DoomedOk
<1>6. MineOk(job[j])'
  <2>1. CASE job[j].at = "tidy"
    BY <1>3, <2>1 DEF MineOk, Planned
  <2>2. CASE job[j].at = "remove"
    <3>1. MineOk(job[j]) /\ path \notin job[j].written
      BY <1>1, <2>2 DEF RunHolds, DoomedOk
    <3>2. /\ Mine(job[j]) = Kept(job[j]) /\ Kept(job[j])' = Kept(job[j])
          /\ Mine(job[j])' = Mine(job[j])
      BY <1>2, <1>3, <1>4, <3>1 DEF Mine, Kept
    <3>3. Rows(Mine(job[j]))' = Rows(Mine(job[j]))
      BY <3>2 DEF Rows
    <3>4. \A q \in job[j].written \cup job[j].now : \E s \in tape' : Path(s) = q
      BY <1>2, <1>4, <2>2, <3>1 DEF MineOk, Planned
    <3> QED BY <1>3, <1>4, <2>2, <3>1, <3>2, <3>3, <3>4 DEF MineOk, Planned
  <2> QED BY <1>1, <2>1, <2>2
<1> QED BY <1>1, <1>3, <1>5, <1>6 DEF RunHolds, PlanOk, Superseded

LEMMA HoldsOnRemoved ==
  ASSUME RunState, NEW j \in Jobs, Removed(j)
  PROVE  RunHolds(job[j])'
<1>1. /\ job[j].at = "remove" /\ job[j].doomed = {} /\ UNCHANGED <<tape, archive>>
      /\ Shape /\ job[j].at \in Planned
  BY DEF Removed, At, UnchangedByJob, RunState, Planned
<1>2. RunOk(job[j]) /\ MineOk(job[j]) /\ DoomedOk(job[j])
  BY <1>1, MineAreSegments DEF RunHolds
<1>3. /\ job'[j].at = "check" /\ job'[j].doomed = {}
      /\ job'[j].todo = job[j].todo /\ job'[j].now = job[j].now
      /\ job'[j].days = job[j].days /\ job'[j].written = job[j].written
      /\ job'[j].venue = job[j].venue /\ job'[j].from = job[j].from /\ job'[j].to = job[j].to
      /\ job'[j].derived = job[j].derived
  BY <1>1, FieldsMoving DEF Keeps, RunFields
<1>4. /\ Mine(job[j])' = Mine(job[j]) /\ Kept(job[j])' = Kept(job[j])
      /\ Rows(Mine(job[j]))' = Rows(Mine(job[j])) /\ Projection' = Projection
  BY <1>1, <1>3 DEF Mine, Kept, Projection, Rows
<1>5. MineOk(job[j])'
  BY <1>1, <1>2, <1>3, <1>4 DEF MineOk
<1>6. DoomedOk(job[j])'
  BY <1>1, <1>2, <1>3 DEF DoomedOk
<1> QED BY <1>3, <1>5, <1>6 DEF RunHolds, PlanOk, Superseded

LEMMA HoldsOnJob ==
  ASSUME RunState, NEW j \in Jobs, JobActs(j), RunOk(job[j])'
  PROVE  RunHolds(job[j])'
<1>1. CASE (j = Flow /\ StartScheduled) \/ (j = Hand /\ StartByHand)
  BY <1>1, FieldsStarting, QuietRun DEF RunState, Planned
<1>2. CASE HoldArchive(j) \/ HoldTape(j)
  BY <1>2, FieldsMoving, QuietRun DEF RunState, Planned
<1>3. CASE WriteFails(j)
  <2>1. /\ TidiesUp(j, job[j], Min(job[j].days)) /\ job[j].at = "write"
        /\ UNCHANGED <<tape, archive>>
    BY <1>3, FieldsTidying DEF WriteFails, At, UnchangedByJob, RunState
  <2>2. job[j].days # {} /\ \A v \in job[j].ours : v = job[j].venue
    BY <2>1, OursIs DEF RunState, RunsOk, RunOk, Planned
  <2> QED BY <2>1, <2>2, HoldsTidying
<1>4. CASE \/ Tidied(j) \/ Checked(j) \/ WaitedTooLong(j) \/ ReadFails(j) \/ UnlinkFails(j)
           \/ Kill(j)
  BY <1>4, FieldsEnding, NoRunIs, QuietRun DEF EndsRun, RunState, Planned
<1> QED
  BY <1>1, <1>2, <1>3, <1>4, HoldsOnPlan, HoldsOnReading, HoldsOnWriting, HoldsOnDayCommitted,
     HoldsOnAllDays, HoldsOnUnlink, HoldsOnRemoved
  DEF JobActs, JobStep, JobDisturbed

LEMMA HoldsOnReceive ==
  ASSUME RunState, Receive
  PROVE  RunsHold'
<1>1. PICK bad \in BOOLEAN :
        archive' = archive \cup {[seq |-> next, venue |-> Sent[next].venue, day |-> today,
                                  carries |-> Sent[next].carries, bad |-> bad]}
  BY DEF Receive
<1> DEFINE new == [seq |-> next, venue |-> Sent[next].venue, day |-> today,
                   carries |-> Sent[next].carries, bad |-> bad]
<1>2. new.seq = next /\ new.venue = Sent[next].venue /\ archive' = archive \cup {new}
  BY <1>1
<1> HIDE DEF new
<1>3. /\ UNCHANGED <<tape, job>> /\ next \in DOMAIN Sent /\ next \in Nat
      /\ World /\ World' /\ Shape
  BY SentAssumption, WorldOnReceive DEF Receive, RunState
<1>4. \A s \in Segments : next \notin s.seqs
  BY <1>3, SentAssumption DEF World, SegmentsOk, SegmentOk
<1>5. Projection' = Projection \cup Derived(new)
  BY <1>2 DEF Projection, DerivedFrom
<1>6. \A r \in Derived(new) : r.seq = next /\ r.venue # NoVenue
  BY <1>2, <1>3, SentAssumption DEF Derived
<1>7. \A s \in tape : RowsOf(s) \cap Projection' = RowsOf(s) \cap Projection
  <2> SUFFICES ASSUME NEW s \in tape, NEW r \in RowsOf(s), r \in Derived(new)
               PROVE  FALSE
    BY <1>5
  <2>1. PICK q \in s.seqs : r = RowOf(s.venue, q, s.kind, s.date)
    BY RowIs
  <2>2. q = next /\ s.venue # NoVenue
    BY <1>6, <2>1 DEF RowOf
  <2> QED BY <1>4, <2>2 DEF Segments, Labelled
<1> SUFFICES ASSUME NEW j \in Jobs
             PROVE  RunHolds(job[j])'
  BY DEF RunsHold
<1>8. RunHolds(job[j])
  BY DEF RunState, RunsHold
<1>9. /\ Mine(job[j])' = Mine(job[j]) /\ Kept(job[j])' = Kept(job[j])
      /\ Spared(job[j])' = Spared(job[j])
  BY <1>3 DEF Mine, Kept, Spared
<1>10. /\ Rows(Mine(job[j]))' = Rows(Mine(job[j])) /\ Rows(Kept(job[j]))' = Rows(Kept(job[j]))
       /\ Rows(Spared(job[j]))' = Rows(Spared(job[j]))
  BY <1>9 DEF Rows
<1>11. MineOk(job[j])'
  BY <1>3, <1>5, <1>8, <1>9, <1>10 DEF RunHolds, MineOk
<1>12. PlanOk(job[j])'
  BY <1>3, <1>8, <1>9 DEF RunHolds, PlanOk
<1>13. Superseded(job[j])'
  <2>1. CASE job[j].at \in {"day", "write"}
    <3>1. tape \subseteq Segments
      BY <2>1, MineAreSegments DEF Planned
    <3>2. \A s \in tape, p \in archive' : p.seq \in s.seqs => p \in archive
      BY <1>2, <1>4, <3>1
    <3>3. Superseded(job[j])
      BY <1>8 DEF RunHolds
    <3> QED BY <1>3, <1>9, <1>10, <3>2, <3>3 DEF Superseded
  <2>2. CASE job[j].at \notin {"day", "write"}
    BY <1>3, <2>2 DEF Superseded
  <2> QED BY <2>1, <2>2
<1>14. DoomedOk(job[j])'
  BY <1>3, <1>7, <1>8, <1>10 DEF RunHolds, DoomedOk
<1> QED BY <1>11, <1>12, <1>13, <1>14 DEF RunHolds

LEMMA RunsHoldStep ==
  ASSUME RunState, [Next]_vars
  PROVE  RunsHold'
<1>1. RunsOk'
  BY RunsStep DEF RunState, World
<1>2. CASE UNCHANGED <<tape, archive, job>>
  BY <1>2, HoldsStill DEF RunState, RunsHold
<1>3. ASSUME NEW j \in Jobs, JobActs(j)
      PROVE  RunsHold'
  <2>1. RunHolds(job[j])'
    BY <1>1, <1>3, HoldsOnJob DEF RunsOk
  <2>2. \A i \in Jobs \ {j} : RunHolds(job[i])'
    BY <1>3, OthersHold DEF RunState
  <2> QED BY <2>1, <2>2 DEF RunsHold
<1>4. CASE RemoveDir
  <2>1. \A j \in Jobs : job'[j].at \in {"idle", "archive"}
    BY <1>4 DEF RemoveDir, UnchangedBySweep, RunState, Locks, ReadsArchive
  <2> QED BY <1>1, <2>1, QuietRun DEF RunsHold, RunsOk, Planned
<1>5. CASE OtherActs
  <2>1. CASE NextDay \/ StartSweep \/ SweepEnds \/ RemoveDirFails
    BY <1>2, <2>1 DEF NextDay, StartSweep, SweepEnds, RemoveDirFails, UnchangedBySweep
  <2>2. CASE ReaderStep
    BY <1>2, <2>2
    DEF ReaderStep, OpenReader, ListPartition, ReadSegment, ViewTaken, CloseReader,
        UnchangedByReader
  <2> QED BY <1>4, <1>5, <2>1, <2>2, HoldsOnReceive DEF OtherActs, SweepStep
<1> QED BY <1>2, <1>3, <1>5, NextIs DEF vars

LEMMA RunStateStep ==
  ASSUME RunState, [Next]_vars
  PROVE  RunState'
BY ShapeStep, WorldStep, RunsStep, LocksStep, RunsHoldStep DEF RunState, World

LEMMA RunStateInit ==
  ASSUME Init
  PROVE  RunState
<1>1. \A j \in Jobs : job[j] = NoRun
  BY DEF Init
<1>2. Labelled = {} /\ InHand = {}
  BY <1>1, NoRunIs, UnlabelledAssumption DEF Init, Labelled, InHand
<1>3. Shape
  BY NoRunIs DEF Init, Shape
<1>4. World
  <2>1. Segments = {} /\ archive = {}
    BY <1>2 DEF Segments, Init
  <2>2. \A s \in tape : s.date \in Int
    BY UnlabelledAssumption DEF Init
  <2>3. \A s, t \in tape : Path(s) = Path(t) => s = t
    BY UnlabelledAssumption DEF Init
  <2> QED BY <2>1, <2>2, <2>3
          DEF Init, World, ArchiveOk, SegmentsOk, ReceivedThatDay, WholeInArchive, WholeOnTape
<1>5. RunsOk
  BY <1>1, NoRunIs, NoRunOk DEF RunsOk
<1>6. Locks
  BY <1>1, NoRunIs DEF Locks, Init, WritesTape, ReadsArchive, Sweeping, Idle, Planned
<1>7. RunsHold
  BY <1>1, NoRunIs DEF RunsHold, RunHolds, MineOk, PlanOk, Superseded, DoomedOk, Planned
<1> QED BY <1>3, <1>4, <1>5, <1>6, <1>7 DEF RunState

(* The rebuild's holds keep every writer alone among the segments, whole   *)
(* between a first and a last sequence, its run able to say of each row    *)
(* where it is (tape/rebuild.rs rebuild_with, hold.rs).                    *)
THEOREM RunInvariant == Spec => []RunState
<1>1. RunState /\ [Next]_vars => RunState'
  BY RunStateStep
<1> QED BY <1>1, RunStateInit, PTL DEF Spec

-----------------------------------------------------------------------------
LEMMA RowsStayStep ==
  ASSUME RunState, [Next]_vars, NEW r \in Rows(tape), r \in Projection'
  PROVE  r \in Rows(tape') \/ (Sweeping /\ Expired(r.date, KeepTape))
<1>1. PICK s \in tape : r \in RowsOf(s)
  BY DEF Rows
<1>2. CASE s \in tape'
  BY <1>1, <1>2 DEF Rows
<1>3. ASSUME NEW j \in Jobs, WriteSegment(j), s \notin tape'
      PROVE  r \in Rows(tape')
  <2>1. PICK segment \in job[j].todo :
          tape' = {t \in tape : Path(t) # Path(segment)} \cup {segment}
    BY <1>3, WrittenIs
  <2>2. RowsOf(s) = RowsOf(segment)
    BY <1>3, <2>1, OverwrittenIs DEF WriteSegment, At
  <2> QED BY <1>1, <2>1, <2>2 DEF Rows
<1>4. ASSUME NEW j \in Jobs, Unlink(j), s \notin tape'
      PROVE  r \in Rows(tape')
  <2>1. PICK path \in job[j].doomed : tape' = {t \in tape : Path(t) # path}
    BY <1>4 DEF Unlink
  <2>2. Projection' = Projection
    BY <1>4 DEF Unlink, UnchangedByJob, Projection
  <2>3. r \in Rows(Spared(job[j]))
    BY <1>1, <1>4, <2>1, <2>2 DEF RunState, RunsHold, RunHolds, DoomedOk
  <2>4. Spared(job[j]) \subseteq tape'
    BY <2>1 DEF Spared
  <2> QED BY <2>3, <2>4 DEF Rows
<1>5. ASSUME RemoveDir, s \notin tape'
      PROVE  Sweeping /\ Expired(r.date, KeepTape)
  <2>1. PICK d \in sweep.dirs : /\ d.store # "archive"
                                /\ tape' = {t \in tape : t.kind # d.kind \/ t.date # d.date}
    BY <1>5 DEF RemoveDir
  <2>2. Sweeping /\ Expired(d.date, KeepTape)
    BY <1>5, <2>1 DEF RemoveDir, RunState, Locks
  <2>3. r.date = s.date /\ s.date = d.date
    BY <1>1, <1>5, <2>1 DEF RowsOf
  <2> QED BY <2>2, <2>3
<1>6. \/ UNCHANGED tape \/ RemoveDir
      \/ \E j \in Jobs : JobActs(j) /\ (WriteSegment(j) \/ Unlink(j) \/ UNCHANGED tape)
  <2>1. \A j \in Jobs : JobActs(j) => WriteSegment(j) \/ Unlink(j) \/ UNCHANGED tape
    BY JobMoves DEF RunState
  <2>2. OtherActs => RemoveDir \/ UNCHANGED tape
    BY DEF OtherActs, Receive, NextDay, StartSweep, SweepStep, SweepEnds, RemoveDirFails,
           ReaderStep, OpenReader, ListPartition, ReadSegment, ViewTaken, CloseReader,
           UnchangedByReader
  <2> QED BY <2>1, <2>2, NextIs DEF vars
<1> QED BY <1>2, <1>3, <1>4, <1>5, <1>6

(* rebuild_with writes first and removes after, and only this run's: a row *)
(* the archive can still produce leaves the tape by retention only.        *)
THEOREM RowsAreNeverLost == Spec => RowsStay
<1>1. RunState /\ [Next]_vars =>
        [\A r \in Rows(tape) \cap Projection' :
           r \in Rows(tape') \/ (Sweeping /\ Expired(r.date, KeepTape))]_vars
  BY RowsStayStep DEF Rows
<1> QED BY <1>1, RunInvariant, PTL DEF Spec, RowsStay

(* A row two of a run's segments hold was received on the day of both.     *)
LEMMA OwnSegmentsApart ==
  ASSUME RunState, NEW j \in Jobs, job[j].at \in Planned,
         NEW s \in Mine(job[j]), NEW t \in Mine(job[j]), s # t
  PROVE  RowsOf(s) \cap RowsOf(t) = {}
<1>1. World /\ MineOk(job[j]) /\ s \in Segments /\ t \in Segments
  BY MineAreSegments DEF RunState, RunHolds
<1> SUFFICES ASSUME NEW r, r \in RowsOf(s), r \in RowsOf(t)
             PROVE  FALSE
  OBVIOUS
<1>2. r \in Projection
  BY <1>1 DEF MineOk, Rows
<1>3. /\ s.kind = t.kind /\ s.date = t.date /\ \E p \in archive : p.seq = r.seq /\ p.seq \in s.seqs
      /\ \E p \in archive : p.seq = r.seq /\ p.seq \in t.seqs
  BY <1>1, <1>2, StillArchived
<1>4. s.src = t.src
  BY <1>1, <1>3, HeldOnItsDay DEF World, ArchiveOk
<1> QED BY <1>1, <1>3, <1>4 DEF MineOk

(* --replace leaves of its venue's receipt days what it read, each row     *)
(* once, however earlier runs ended.                                       *)
THEOREM ReplacingReplaces == Spec => []ReplacedWhenDone
<1>1. RunState => ReplacedWhenDone
  <2> SUFFICES ASSUME RunState, NEW j \in Jobs, job[j].at = "check"
               PROVE  LET mine == {s \in tape : /\ s.venue = job[j].venue
                                                /\ job[j].from <= s.src /\ s.src < job[j].to}
                      IN  Rows(mine) = job[j].derived /\ Once(mine)
    BY DEF ReplacedWhenDone, At
  <2> DEFINE mine == {s \in tape : /\ s.venue = job[j].venue
                                   /\ job[j].from <= s.src /\ s.src < job[j].to}
  <2>1. job[j].at \in Planned
    BY DEF Planned
  <2>2. MineOk(job[j]) /\ DoomedOk(job[j]) /\ RunOk(job[j])
    BY <2>1, MineAreSegments DEF RunHolds
  <2>3. job[j].todo = {} /\ job[j].now = {} /\ job[j].doomed = {}
    BY <2>2 DEF RunOk
  <2>4. Mine(job[j]) = mine
    <3>1. \A s \in Mine(job[j]) : s \in mine
      BY <2>1, <2>2, <2>3 DEF Mine, MineOk
    <3>2. \A s \in mine : s \in Mine(job[j])
      BY <2>2, <2>3 DEF Mine, DoomedOk
    <3> QED BY <3>1, <3>2
  <2> HIDE DEF mine
  <2>5. Rows(mine) = job[j].derived
    BY <2>1, <2>2, <2>4 DEF MineOk
  <2>6. Once(mine)
    BY <2>1, <2>4, OwnSegmentsApart DEF Once
  <2> QED BY <2>5, <2>6 DEF mine
<1> QED BY <1>1, RunInvariant, PTL

(* check_layout compares names only, and that is enough: two segments of a *)
(* venue and partition whose ranges intersect hold a row in common.        *)
THEOREM OverlapIsRepetition == Spec => []OverlapMeansTwice
<1>1. RunState => OverlapMeansTwice
  <2> SUFFICES ASSUME World, NEW s \in Labelled, NEW t \in Labelled, s # t
               PROVE  Overlap(s, t) <=> RowsOf(s) \cap RowsOf(t) # {}
    BY DEF OverlapMeansTwice, Overlapping, Once, Overlap, RunState
  <2>1. s \in Segments /\ t \in Segments
    BY DEF Segments
  <2>2. /\ SegmentOk(s) /\ SegmentOk(t) /\ s.seqs \subseteq Nat /\ t.seqs \subseteq Nat
        /\ s.first \in Nat /\ s.last \in Nat /\ t.first \in Nat /\ t.last \in Nat
    BY <2>1, SentAssumption DEF World, SegmentsOk, SegmentOk
  <2>3. ASSUME NEW r, r \in RowsOf(s), r \in RowsOf(t)
        PROVE  Overlap(s, t)
    <3>1. PICK q \in s.seqs : r = RowOf(s.venue, q, s.kind, s.date)
      BY <2>3, RowIs
    <3>2. PICK u \in t.seqs : r = RowOf(t.venue, u, t.kind, t.date)
      BY <2>3, RowIs
    <3>3. q = u /\ s.venue = t.venue /\ s.kind = t.kind /\ s.date = t.date
      BY <3>1, <3>2 DEF RowOf
    <3>4. q \in Nat /\ s.first <= q /\ q <= s.last /\ t.first <= q /\ q <= t.last
      BY <2>2, <3>1, <3>2, <3>3 DEF SegmentOk
    <3>5. s.first <= t.last /\ t.first <= s.last
      BY <2>2, <3>4
    <3> QED BY <3>3, <3>5 DEF Overlap
  <2>4. ASSUME Overlap(s, t)
        PROVE  \E r : r \in RowsOf(s) /\ r \in RowsOf(t)
    <3>1. s.kind = t.kind /\ s.date = t.date /\ s.venue = t.venue
      BY <2>4 DEF Overlap
    <3>2. \E q : q \in s.seqs /\ q \in t.seqs
      <4>1. CASE s.first <= t.first
        <5>1. t.first \in t.seqs /\ t.first <= s.last
          BY <2>2, <2>4 DEF SegmentOk, Overlap
        <5> QED BY <2>1, <3>1, <4>1, <5>1 DEF World, WholeOnTape
      <4>2. CASE t.first <= s.first
        <5>1. s.first \in s.seqs /\ s.first <= t.last
          BY <2>2, <2>4 DEF SegmentOk, Overlap
        <5> QED BY <2>1, <3>1, <4>2, <5>1 DEF World, WholeOnTape
      <4> QED BY <2>2, <4>1, <4>2
    <3> QED BY <3>1, <3>2, RowIs
  <2> QED BY <2>3, <2>4
<1> QED BY <1>1, RunInvariant, PTL

-----------------------------------------------------------------------------
(***************************************************************************)
(* The reader, who holds nothing: each row it was promised is in what it   *)
(* has, or where it has still to look.                                     *)
(***************************************************************************)
Lasting(r) == ~Expired(r.date, KeepTape)

(* A path still to read has the row, while there is a segment of the name. *)
PendingIn(r, path) ==
  /\ path.kind = r.kind /\ path.date = r.date /\ path.first <= r.seq /\ r.seq <= path.last
  /\ path.first \in DOMAIN Sent /\ Sent[path.first].venue = r.venue
  /\ \A s \in tape : Path(s) = path => r \in RowsOf(s)

Promised(r) ==
  /\ r = RowOf(r.venue, r.seq, r.kind, r.date)
  /\ r.kind = reader.kind /\ Permitted(r, reader.bound)
  /\ r.venue # NoVenue /\ r.seq \in Nat /\ r.seq < next /\ r.date \in Int

StillToLook(r) ==
  /\ reader.at = "list"
  /\ r.date \in reader.dates \/ \E path \in reader.segments : PendingIn(r, path)

ReaderOk ==
  reader.at \in {"list", "taken"} =>
    /\ \A r \in reader.begun : Promised(r)
    /\ \A r \in reader.begun \cap Projection : Lasting(r) => r \in Rows(tape)
    /\ \A r \in reader.begun \cap Rows(tape) :
         Lasting(r) => r \in reader.got \/ StillToLook(r)

LEMMA RowOfLabelled ==
  ASSUME World, NEW s \in tape, NEW r \in RowsOf(s), r.venue # NoVenue
  PROVE  /\ s \in Segments /\ r.seq \in s.seqs /\ r = RowOf(r.venue, r.seq, r.kind, r.date)
         /\ r.venue = s.venue /\ r.kind = s.kind /\ r.date = s.date
         /\ r.seq \in Nat /\ r.seq < next /\ r.date \in Int /\ PendingIn(r, Path(s))
<1>1. PICK q \in s.seqs : r = RowOf(s.venue, q, s.kind, s.date)
  BY RowIs
<1>2. r.venue = s.venue /\ r.kind = s.kind /\ r.date = s.date /\ r.seq = q
  BY <1>1 DEF RowOf
<1>3. s \in Segments
  BY <1>2 DEF Segments, Labelled
<1>4. SegmentOk(s)
  BY <1>3 DEF World, SegmentsOk
<1>5. q \in Nat /\ q < next /\ s.first <= q /\ q <= s.last /\ s.date \in Int
      /\ s.first \in DOMAIN Sent /\ Sent[s.first].venue = s.venue
  BY <1>1, <1>4, SentAssumption DEF SegmentOk
<1>6. \A t \in tape : Path(t) = Path(s) => t = s
  BY DEF World, SegmentsOk
<1>7. PendingIn(r, Path(s))
  BY <1>2, <1>5, <1>6 DEF PendingIn, Path
<1> QED BY <1>1, <1>2, <1>3, <1>5, <1>7

(* A segment written over the name of a pending one has the row too, since *)
(* it is whole between its first and its last.                             *)
LEMMA PendingStays ==
  ASSUME RunState, [Next]_vars, NEW r \in Rows(tape), r.venue # NoVenue, NEW path,
         PendingIn(r, path)
  PROVE  PendingIn(r, path)'
<1>1. CASE tape' \subseteq tape
  BY <1>1 DEF PendingIn
<1>2. ASSUME NEW j \in Jobs, WriteSegment(j)
      PROVE  PendingIn(r, path)'
  <2>1. PICK segment \in job[j].todo :
          segment \in Segments /\ tape' = {t \in tape : Path(t) # Path(segment)} \cup {segment}
    BY <1>2, WrittenIs
  <2>2. PICK s \in tape : r \in RowsOf(s)
    BY DEF Rows
  <2>3. World
    BY DEF RunState
  <2>4. /\ s \in Segments /\ r.seq \in s.seqs /\ r = RowOf(r.venue, r.seq, r.kind, r.date)
        /\ r.venue = s.venue /\ r.kind = s.kind /\ r.date = s.date
    BY <2>2, <2>3, RowOfLabelled
  <2>5. ASSUME Path(segment) = path
        PROVE  r \in RowsOf(segment)
    <3>1. /\ segment.kind = r.kind /\ segment.date = r.date
          /\ segment.first <= r.seq /\ r.seq <= segment.last
          /\ Sent[segment.first].venue = r.venue
      BY <2>5 DEF PendingIn, Path
    <3>2. segment.venue = r.venue
      BY <2>1, <2>3, <3>1 DEF World, SegmentsOk, SegmentOk
    <3>3. r.seq \in segment.seqs
      BY <2>1, <2>3, <2>4, <3>1, <3>2 DEF World, WholeOnTape
    <3> QED BY <2>4, <3>1, <3>2, <3>3, RowIs
  <2> QED BY <2>1, <2>5 DEF PendingIn
<1>3. \/ tape' \subseteq tape \/ \E j \in Jobs : WriteSegment(j)
  <2>1. \A j \in Jobs : JobActs(j) => WriteSegment(j) \/ tape' \subseteq tape
    BY JobMoves DEF RunState, Unlink
  <2>2. OtherActs => tape' \subseteq tape
    BY DEF OtherActs, Receive, NextDay, StartSweep, SweepStep, RemoveDir, SweepEnds,
           RemoveDirFails, UnchangedBySweep, ReaderStep, OpenReader, ListPartition, ReadSegment,
           ViewTaken, CloseReader, UnchangedByReader
  <2> QED BY <2>1, <2>2, NextIs DEF vars
<1> QED BY <1>1, <1>2, <1>3

(* What the writers put on the tape was derived, and the archive has it.   *)
LEMMA NewRowsAreDerived ==
  ASSUME RunState, [Next]_vars, NEW r \in Rows(tape')
  PROVE  r \in Rows(tape) \/ (r \in Projection /\ Projection' = Projection)
<1>1. CASE tape' \subseteq tape
  BY <1>1 DEF Rows
<1>2. ASSUME NEW j \in Jobs, WriteSegment(j)
      PROVE  r \in Rows(tape) \/ (r \in Projection /\ Projection' = Projection)
  <2>1. PICK segment \in job[j].todo :
          tape' = {t \in tape : Path(t) # Path(segment)} \cup {segment}
    BY <1>2, WrittenIs
  <2>2. Projection' = Projection /\ job[j].at \in Planned
    BY <1>2 DEF WriteSegment, UnchangedByJob, Projection, At, Planned
  <2>3. RowsOf(segment) \subseteq Projection
    BY <2>2, MineAreSegments DEF RunHolds, MineOk, Mine, Rows
  <2> QED BY <2>1, <2>2, <2>3 DEF Rows
<1>3. \/ tape' \subseteq tape \/ \E j \in Jobs : WriteSegment(j)
  <2>1. \A j \in Jobs : JobActs(j) => WriteSegment(j) \/ tape' \subseteq tape
    BY JobMoves DEF RunState, Unlink
  <2>2. OtherActs => tape' \subseteq tape
    BY DEF OtherActs, Receive, NextDay, StartSweep, SweepStep, RemoveDir, SweepEnds,
           RemoveDirFails, UnchangedBySweep, ReaderStep, OpenReader, ListPartition, ReadSegment,
           ViewTaken, CloseReader, UnchangedByReader
  <2> QED BY <2>1, <2>2, NextIs DEF vars
<1> QED BY <1>1, <1>2, <1>3

(* The world moves under an open view.                                     *)
LEMMA ReaderUndisturbed ==
  ASSUME RunState, ReaderOk, [Next]_vars, UNCHANGED reader
  PROVE  ReaderOk'
<1> SUFFICES ASSUME reader.at \in {"list", "taken"}
             PROVE  ReaderOk'
  BY DEF ReaderOk
<1>1. /\ next \in Nat /\ today \in Nat /\ next' \in Nat /\ next <= next'
      /\ today' \in Nat /\ today <= today'
  <2>1. next \in Nat /\ today \in Nat
    BY DEF RunState, World, ArchiveOk
  <2>2. \A j \in Jobs : JobActs(j) => UNCHANGED <<next, today>>
    BY JobMoves DEF RunState, Moves
  <2>3. OtherActs => \/ UNCHANGED <<next, today>> \/ (next' = next + 1 /\ UNCHANGED today)
                     \/ (today' = today + 1 /\ UNCHANGED next)
    BY DEF OtherActs, Receive, NextDay, StartSweep, SweepStep, RemoveDir, SweepEnds,
           RemoveDirFails, UnchangedBySweep, ReaderStep, OpenReader, ListPartition, ReadSegment,
           ViewTaken, CloseReader, UnchangedByReader
  <2> QED BY <2>1, <2>2, <2>3, NextIs DEF vars
<1>2. \A r \in reader.begun : Promised(r) /\ Promised(r)'
  BY <1>1 DEF ReaderOk, Promised, Permitted
<1>3. \A r \in reader.begun : Lasting(r)' => Lasting(r)
  BY <1>1, <1>2, DaysAssumption DEF Lasting, Expired, Promised
(* A payload received since is of no row the reader was promised.          *)
<1>4. \A r \in reader.begun : r \in Projection' => r \in Projection
  <2>1. CASE archive' \subseteq archive
    BY <2>1 DEF Projection, DerivedFrom
  <2>2. CASE Receive
    <3>1. PICK p \in archive' : p.seq = next /\ archive' = archive \cup {p}
      BY <2>2 DEF Receive
    <3>2. Projection' = Projection \cup Derived(p) /\ \A r \in Derived(p) : r.seq = next
      BY <3>1 DEF Projection, DerivedFrom, Derived
    <3> QED BY <1>1, <1>2, <3>2 DEF Promised
  <2>3. archive' \subseteq archive \/ Receive
    <3>1. \A j \in Jobs : JobActs(j) => UNCHANGED archive
      BY JobMoves DEF RunState, Moves
    <3>2. OtherActs => archive' \subseteq archive \/ Receive
      BY DEF OtherActs, NextDay, StartSweep, SweepStep, RemoveDir, SweepEnds,
             RemoveDirFails, UnchangedBySweep, ReaderStep, OpenReader, ListPartition, ReadSegment,
             ViewTaken, CloseReader, UnchangedByReader
    <3> QED BY <3>1, <3>2, NextIs DEF vars
  <2> QED BY <2>1, <2>2, <2>3
<1>5. ASSUME NEW r \in reader.begun, r \in Projection', Lasting(r)'
      PROVE  r \in Rows(tape')
  <2>1. r \in Rows(tape)
    BY <1>3, <1>4, <1>5 DEF ReaderOk
  <2> QED BY <1>3, <1>5, <2>1, RowsStayStep DEF Lasting
<1>6. ASSUME NEW r \in reader.begun, r \in Rows(tape'), Lasting(r)'
      PROVE  r \in reader.got \/ StillToLook(r)'
  <2>1. r \in Rows(tape)
    BY <1>3, <1>6, NewRowsAreDerived DEF ReaderOk
  <2>2. r \in reader.got \/ StillToLook(r)
    BY <1>3, <1>6, <2>1 DEF ReaderOk
  <2>3. r.venue # NoVenue
    BY <1>2 DEF Promised
  <2> QED BY <2>1, <2>2, <2>3, PendingStays DEF StillToLook
<1> QED BY <1>2, <1>5, <1>6 DEF ReaderOk, Rows

LEMMA ReaderOpens ==
  ASSUME RunState, OpenReader
  PROVE  ReaderOk'
<1>1. PICK scopes \in Scopes : \E kind \in scopes :
        /\ NoVenue \notin VenuesSeen(scopes)
        /\ reader' = [at |-> "list", scopes |-> scopes, kind |-> kind, bound |-> BoundOf(scopes),
                      dates |-> {s.date : s \in SegmentsIn(kind)}, segments |-> {}, got |-> {},
                      begun |-> {r \in Rows(SegmentsIn(kind)) : Permitted(r, BoundOf(scopes))}]
  BY DEF OpenReader
<1>2. PICK kind \in scopes :
        reader' = [at |-> "list", scopes |-> scopes, kind |-> kind, bound |-> BoundOf(scopes),
                   dates |-> {s.date : s \in SegmentsIn(kind)}, segments |-> {}, got |-> {},
                   begun |-> {r \in Rows(SegmentsIn(kind)) : Permitted(r, BoundOf(scopes))}]
  BY <1>1
<1>3. /\ reader'.at = "list" /\ reader'.kind = kind /\ reader'.bound = BoundOf(scopes)
      /\ reader'.dates = {s.date : s \in SegmentsIn(kind)}
      /\ reader'.begun = {r \in Rows(SegmentsIn(kind)) : Permitted(r, BoundOf(scopes))}
  BY <1>2
<1>4. UNCHANGED <<today, next, archive, tape>> /\ World
  BY DEF OpenReader, UnchangedByReader, RunState
<1>5. \A r \in reader'.begun : \E s \in tape : /\ s.kind = kind /\ r \in RowsOf(s)
                                               /\ s.venue # NoVenue /\ s.date \in reader'.dates
  BY <1>1, <1>3 DEF Rows, SegmentsIn, VenuesSeen
<1>6. ASSUME NEW r \in reader'.begun
      PROVE  Promised(r)' /\ r \in Rows(tape) /\ r.date \in reader'.dates
  <2>1. PICK s \in tape : /\ s.kind = kind /\ r \in RowsOf(s)
                          /\ s.venue # NoVenue /\ s.date \in reader'.dates
    BY <1>5
  <2>2. r.venue = s.venue
    BY <2>1 DEF RowsOf
  <2>3. /\ r = RowOf(r.venue, r.seq, r.kind, r.date) /\ r.kind = s.kind /\ r.date = s.date
        /\ r.seq \in Nat /\ r.seq < next /\ r.date \in Int
    BY <1>4, <2>1, <2>2, RowOfLabelled
  <2>4. Permitted(r, reader'.bound)
    BY <1>3
  <2> QED BY <1>3, <1>4, <2>1, <2>2, <2>3, <2>4 DEF Promised, Permitted, Rows
<1> QED BY <1>3, <1>4, <1>6 DEF ReaderOk, StillToLook, Rows

LEMMA ReaderLists ==
  ASSUME RunState, ReaderOk, ListPartition
  PROVE  ReaderOk'
<1>1. reader.at = "list" /\ reader.segments = {} /\ UNCHANGED <<today, next, archive, tape>>
  BY DEF ListPartition, UnchangedByReader
<1>2. DOMAIN reader = ViewFields /\ World
  BY <1>1 DEF RunState, Shape, Idle
<1>3. PICK d \in reader.dates :
        reader' = [reader EXCEPT !.dates = @ \ {d},
                                 !.segments = {Path(s) : s \in {t \in SegmentsIn(reader.kind) :
                                                                  t.date = d}}]
  BY DEF ListPartition
<1> DEFINE paths == {Path(s) : s \in {t \in SegmentsIn(reader.kind) : t.date = d}}
<1>4. \A s \in tape : s.kind = reader.kind /\ s.date = d => Path(s) \in paths
  BY DEF SegmentsIn
<1>5. reader' = [reader EXCEPT !.dates = @ \ {d}, !.segments = paths]
  BY <1>3
<1> HIDE DEF paths
<1>6. /\ reader'.at = "list" /\ reader'.kind = reader.kind /\ reader'.bound = reader.bound
      /\ reader'.begun = reader.begun /\ reader'.got = reader.got
      /\ reader'.dates = reader.dates \ {d} /\ reader'.segments = paths
  BY <1>1, <1>2, <1>5 DEF ViewFields
<1>7. \A r \in reader.begun : Promised(r) /\ Promised(r)'
  BY <1>1, <1>6 DEF ReaderOk, Promised, Permitted
<1>8. ASSUME NEW r \in reader.begun, r \in Rows(tape), Lasting(r), r \notin reader.got
      PROVE  StillToLook(r)'
  <2>1. r.date \in reader.dates
    BY <1>1, <1>8 DEF ReaderOk, StillToLook
  <2>2. CASE r.date # d
    BY <1>6, <2>1, <2>2 DEF StillToLook
  <2>3. CASE r.date = d
    <3>1. PICK s \in tape : r \in RowsOf(s)
      BY <1>8 DEF Rows
    <3>2. r.kind = s.kind /\ r.date = s.date /\ PendingIn(r, Path(s))
      BY <1>2, <1>7, <3>1, RowOfLabelled DEF Promised
    <3>3. Path(s) \in paths
      BY <1>4, <1>7, <2>3, <3>2 DEF Promised
    <3>4. PendingIn(r, Path(s))'
      BY <1>1, <3>2 DEF PendingIn
    <3> QED BY <1>6, <3>3, <3>4 DEF StillToLook
  <2> QED BY <2>2, <2>3
<1> QED BY <1>1, <1>6, <1>7, <1>8
        DEF ReaderOk, Projection, DerivedFrom, Rows, Lasting, Expired

LEMMA ReaderReads ==
  ASSUME RunState, ReaderOk, ReadSegment
  PROVE  ReaderOk'
<1>1. reader.at = "list" /\ UNCHANGED <<today, next, archive, tape>>
  BY DEF ReadSegment, UnchangedByReader
<1>2. DOMAIN reader = ViewFields /\ World
  BY <1>1 DEF RunState, Shape, Idle
<1>3. PICK path \in reader.segments :
        reader' = IF {s \in tape : Path(s) = path} = {} THEN Idle
                  ELSE [reader EXCEPT !.segments = @ \ {path},
                          !.got = @ \cup {r \in Rows({s \in tape : Path(s) = path}) :
                                            Permitted(r, reader.bound)}]
  BY DEF ReadSegment
<1>4. CASE {s \in tape : Path(s) = path} = {}
  BY <1>3, <1>4 DEF Idle, ReaderOk
<1>5. CASE {s \in tape : Path(s) = path} # {}
  <2> DEFINE seen == {r \in Rows({s \in tape : Path(s) = path}) : Permitted(r, reader.bound)}
  <2>1. reader' = [reader EXCEPT !.segments = @ \ {path}, !.got = @ \cup seen]
    BY <1>3, <1>5
  <2>2. \A r \in reader.begun : PendingIn(r, path) => r \in seen
    <3>1. \A r \in reader.begun : Permitted(r, reader.bound)
      BY <1>1 DEF ReaderOk, Promised
    <3>2. PICK s \in tape : Path(s) = path
      BY <1>5
    <3> QED BY <3>1, <3>2 DEF PendingIn, Rows
  <2> HIDE DEF seen
  <2>3. /\ reader'.at = "list" /\ reader'.kind = reader.kind /\ reader'.bound = reader.bound
        /\ reader'.begun = reader.begun /\ reader'.got = reader.got \cup seen
        /\ reader'.dates = reader.dates /\ reader'.segments = reader.segments \ {path}
    BY <1>1, <1>2, <2>1 DEF ViewFields
  <2>4. \A r \in reader.begun : Promised(r)'
    BY <1>1, <2>3 DEF ReaderOk, Promised, Permitted
  <2>5. ASSUME NEW r \in reader.begun, r \in Rows(tape), Lasting(r), r \notin reader'.got
        PROVE  StillToLook(r)'
    <3>1. StillToLook(r) /\ ~PendingIn(r, path)
      BY <1>1, <2>2, <2>3, <2>5 DEF ReaderOk
    <3>2. \A p : PendingIn(r, p) => PendingIn(r, p)'
      BY <1>1 DEF PendingIn
    <3> QED BY <2>3, <3>1, <3>2 DEF StillToLook
  <2> QED BY <1>1, <2>3, <2>4, <2>5
          DEF ReaderOk, Projection, DerivedFrom, Rows, Lasting, Expired
<1> QED BY <1>4, <1>5

LEMMA ReaderTakes ==
  ASSUME RunState, ReaderOk, ViewTaken
  PROVE  ReaderOk'
<1>1. /\ reader.at = "list" /\ reader.dates = {} /\ reader.segments = {}
      /\ UNCHANGED <<today, next, archive, tape>>
  BY DEF ViewTaken, UnchangedByReader
<1>2. DOMAIN reader = ViewFields
  BY <1>1 DEF RunState, Shape, Idle
<1>3. /\ reader'.at = "taken" /\ reader'.kind = reader.kind /\ reader'.bound = reader.bound
      /\ reader'.begun = reader.begun /\ reader'.got = reader.got
  BY <1>2 DEF ViewTaken, ViewFields
<1>4. \A r \in reader.begun : Promised(r)'
  BY <1>1, <1>3 DEF ReaderOk, Promised, Permitted
<1>5. \A r \in reader.begun \cap Rows(tape) : Lasting(r) => r \in reader.got
  BY <1>1 DEF ReaderOk, StillToLook
<1> QED BY <1>1, <1>3, <1>4, <1>5 DEF ReaderOk, Projection, DerivedFrom, Rows, Lasting, Expired

(* Reader::view takes no hold, and a view that was taken has every row of  *)
(* its window that was there when it began and is there when it ends.      *)
THEOREM ViewsAreWhole == Spec => []NeverNeither
<1>1. Init => ReaderOk
  BY DEF Init, ReaderOk, Idle
<1>2. RunState /\ ReaderOk /\ [Next]_vars => ReaderOk'
  <2> SUFFICES ASSUME RunState, ReaderOk, [Next]_vars
               PROVE  ReaderOk'
    OBVIOUS
  <2>1. UNCHANGED reader \/ ReaderStep
    <3>1. \A j \in Jobs : JobActs(j) => UNCHANGED reader
      BY JobMoves DEF RunState, Moves
    <3>2. OtherActs => UNCHANGED reader \/ ReaderStep
      BY DEF OtherActs, Receive, NextDay, StartSweep, SweepStep, RemoveDir, SweepEnds,
             RemoveDirFails, UnchangedBySweep
    <3> QED BY <3>1, <3>2, NextIs DEF vars
  <2>2. CASE CloseReader
    BY <2>2 DEF CloseReader, Idle, ReaderOk
  <2> QED BY <2>1, <2>2, ReaderUndisturbed, ReaderOpens, ReaderLists, ReaderReads, ReaderTakes
          DEF ReaderStep
<1>3. ReaderOk => NeverNeither
  <2> SUFFICES ASSUME ReaderOk, reader.at = "taken",
                      NEW r \in reader.begun, r \in Rows(SegmentsIn(reader.kind)), Lasting(r)
               PROVE  r \in reader.got
    BY DEF NeverNeither, Lasting
  <2>1. r \in Rows(tape)
    BY DEF Rows, SegmentsIn
  <2> QED BY <2>1 DEF ReaderOk, StillToLook
<1> QED BY <1>1, <1>2, <1>3, RunInvariant, PTL DEF Spec
=============================================================================
