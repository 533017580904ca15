------------------------------- MODULE Cadence -------------------------------
(* venue/poll.rs: where a poll has got to.  A cadence is the moment of the  *)
(* last ask that answered, Unanswered before any.                          *)
EXTENDS Integers

Unanswered == 0                 \* moments are counted from 1

(* The interval a failed ask leaves uncovered, if it leaves any.           *)
MissedOneInterval(last, at) ==  \* mutant: as if exactly one ask had been missed
  IF last = Unanswered \/ last >= at THEN {} ELSE {[from |-> at - 1, to |-> at]}
Missed(last, at) ==
  IF last = Unanswered \/ last >= at THEN {} ELSE {[from |-> last, to |-> at]}
=============================================================================
