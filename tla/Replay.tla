-------------------------------- MODULE Replay --------------------------------
(***************************************************************************)
(* galata_datawatch::replay: a receipt range of the archive read back one  *)
(* payload at a time, its segments merged and opened only when the merge   *)
(* reaches them, while retention or compaction may remove them.            *)
(*                                                                         *)
(* A payload is its moment of receipt and its sequence; a segment is some  *)
(* payloads of one kind and one day.                                       *)
(***************************************************************************)
EXTENDS Integers, SequencesExt, FiniteSetsExt

CONSTANTS
  Received,    \* every payload, [recv, seq]
  Kinds, Flushes,   \* a payload's segment is its kind's of one flush and one day
  DayTicks,    \* the moments of a day
  End          \* bound of the range asked for

(* What was received has a last moment.                                    *)
ReceivedAssumption ==
  /\ Received \subseteq [recv : Nat, seq : Nat]
  /\ \E last \in {r.recv : r \in Received} \cup {0} : \A r \in Received : r.recv <= last
RangeAssumption == DayTicks \in Nat \ {0} /\ End \in Nat

VARIABLES
  segments,    \* what the archive wrote: [kind, day, flush, timed, rows]
  gone,        \* the segments of them no longer on disk
  asked,       \* the half-open range of receipt, and the scopes
  pending,     \* Replay::pending: listed and not opened
  open,        \* Replay::open and heap: rows read and not yet yielded
  yielded,
  replay       \* "unasked", "replaying", "failed", "done"

vars == <<segments, gone, asked, pending, open, yielded, replay>>

Asked(row) == asked.from <= row.recv /\ row.recv < asked.to
Receipts(segment) == {r.recv : r \in segment.rows}

(* The archive's flushes: any division of what was received.  A name that  *)
(* is no receipt range (timed is FALSE) says nothing of when rows start.   *)
Divided(kind, flush, untimed) ==
  LET place(r) == [kind |-> kind[r], flush |-> flush[r], day |-> r.recv \div DayTicks]
  IN  {[kind |-> p.kind, flush |-> p.flush, day |-> p.day, timed |-> p.flush # untimed,
        rows |-> {r \in Received : place(r) = p}] : p \in {place(r) : r \in Received}}

Init ==
  /\ \E kind \in [Received -> Kinds], flush \in [Received -> Flushes],
        untimed \in Flushes \cup {"none"} : segments = Divided(kind, flush, untimed)
  /\ \E from \in 0 .. End - 1, kinds \in SUBSET Kinds \ {{}} : \E to \in from + 1 .. End :
       asked = [from |-> from, to |-> to, kinds |-> kinds]
  /\ gone = {} /\ pending = {} /\ open = {} /\ yielded = <<>> /\ replay = "unasked"

-----------------------------------------------------------------------------
(* partitions_in_range: a directory whose day cannot overlap the range is  *)
(* not opened; then a segment whose name cannot is passed over.            *)
Covers(day) == day * DayTicks < asked.to /\ (day + 1) * DayTicks > asked.from
NameOverlaps(segment) ==
  segment.timed => /\ Max(Receipts(segment)) >= asked.from
                   /\ Min(Receipts(segment)) < asked.to
First(segment) == IF segment.timed THEN Min(Receipts(segment)) ELSE -1

(* stream_range: the listing is made up front.                             *)
StreamRange ==
  /\ replay = "unasked"
  /\ pending' = {s \in segments : Covers(s.day) /\ s.kind \in asked.kinds /\ NameOverlaps(s)}
  /\ replay' = "replaying"
  /\ UNCHANGED <<segments, gone, asked, open, yielded>>

Before(r, s) == r.recv < s.recv \/ (r.recv = s.recv /\ r.seq <= s.seq)
Earliest == CHOOSE r \in open : \A s \in open : Before(r, s)
NextPending == CHOOSE s \in pending : \A t \in pending : First(s) <= First(t)

(* Replay::next opens all that could hold a row as early as any it holds.  *)
MustOpenLater ==                 \* mutant: a tie with a segment's first is not waited for
  pending # {} /\ (open # {} => Earliest.recv > First(NextPending))
MustOpen == pending # {} /\ (open # {} => Earliest.recv >= First(NextPending))

Open ==
  /\ replay = "replaying" /\ MustOpen
  /\ pending' = pending \ {NextPending}
  /\ \/ /\ NextPending \notin gone
        /\ open' = open \cup {r \in NextPending.rows : Asked(r)}
        /\ UNCHANGED replay
     \/ /\ NextPending \in gone               \* an error ends the iteration
        /\ replay' = "failed"
        /\ UNCHANGED open
  /\ UNCHANGED <<segments, gone, asked, yielded>>

Yield ==
  /\ replay = "replaying" /\ ~MustOpen /\ open # {}
  /\ yielded' = Append(yielded, Earliest)
  /\ open' = open \ {Earliest}
  /\ UNCHANGED <<segments, gone, asked, pending, replay>>

Exhausted ==
  /\ replay = "replaying" /\ pending = {} /\ open = {}
  /\ replay' = "done"
  /\ UNCHANGED <<segments, gone, asked, pending, open, yielded>>

(* Another program: a listed segment is merged or dropped before it is     *)
(* opened.                                                                 *)
Removed ==
  /\ replay = "replaying"
  /\ \E s \in pending \ gone : gone' = gone \cup {s}
  /\ UNCHANGED <<segments, asked, pending, open, yielded, replay>>

Next == StreamRange \/ Open \/ Yield \/ Exhausted \/ Removed
Spec == Init /\ [][Next]_vars

-----------------------------------------------------------------------------
(* stream_range, "the same payloads in the same order" as a sort of the    *)
(* whole range: at every step what was yielded is the beginning of the     *)
(* range in receipt order and all of it when the replay ends without an    *)
(* error, however the range was flushed, whatever was pruned or removed.   *)
InScope == {r \in UNION {s.rows : s \in {t \in segments : t.kind \in asked.kinds}} : Asked(r)}
YieldedIsPrefix ==
  /\ \A i \in 1 .. Len(yielded) - 1 : Before(yielded[i], yielded[i + 1])
  /\ \A r \in InScope : \/ \E i \in DOMAIN yielded : yielded[i] = r
                        \/ replay # "done" /\ (yielded # <<>> => Before(Last(yielded), r))
  /\ \A i \in DOMAIN yielded : yielded[i] \in InScope
=============================================================================
