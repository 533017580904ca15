------------------------------ MODULE Coverage ------------------------------
(***************************************************************************)
(* capture/coverage.rs: what each declared pair was covered to, and the    *)
(* gaps dated from it.  The module has no state of its own: Capture and    *)
(* StreamSession hold a ledger and apply these operators to it.            *)
(*                                                                         *)
(* A pair the process has never covered is an entry with last = Never; the *)
(* code keeps no entry for it, and every operator below skips both alike.  *)
(* The per-window message counters are left out: only a report reads them. *)
(***************************************************************************)
EXTENDS Integers

CONSTANT Pairs          \* the (ticker, series) pairs the configuration declares

Never == -1             \* Option::None for a moment
Moment == Nat \cup {Never}
Causes == {"none", "downtime", "crash_unflushed", "session_lost"}

Later(a, b) == IF a > b THEN a ELSE b

(* One pair's ledger: when it was last covered, and where its last         *)
(* published gap ended, why, and whether the stream was asked since.       *)
Entry == [last : Moment, end : Moment, cause : Causes, open : BOOLEAN]
Ledgers == [Pairs -> Entry]

Untouched == [p \in Pairs |->
                [last |-> Never, end |-> Never, cause |-> "none", open |-> FALSE]]

Known(ledger, pairs, at) ==
  [p \in Pairs |-> IF p \in pairs THEN [ledger[p] EXCEPT !.last = at] ELSE ledger[p]]

Received(ledger, pairs, at) == Known(ledger, pairs, at)

HandoverCompleted(ledger, at) ==
  Known(ledger, {p \in Pairs : ledger[p].last # Never}, at)

(* A gap starts at the later of covered and already gapped, so a second    *)
(* loss before any frame does not publish the first one's span again.      *)
GapFromCovered(entry) == entry.last         \* mutant: the gap before is forgotten
GapFrom(entry) == Later(entry.last, entry.end)

GapsFor(ledger, pairs, to, cause) ==
  {[pair |-> p, from |-> GapFrom(ledger[p]), to |-> to, cause |-> cause] :
     p \in {q \in pairs : ledger[q].last # Never /\ GapFrom(ledger[q]) < to}}

GapsForAll(ledger, to, cause) == GapsFor(ledger, Pairs, to, cause)

NoteGapped(ledger, pairs, to, cause, open) ==
  [p \in Pairs |-> IF p \in pairs
                   THEN [ledger[p] EXCEPT !.end = to, !.cause = cause, !.open = open]
                   ELSE ledger[p]]

AfterGapsForClosed(ledger, pairs, to, cause) ==  \* mutant: nothing is left open
  NoteGapped(ledger, {g.pair : g \in GapsFor(ledger, pairs, to, cause)}, to, cause, FALSE)
AfterGapsFor(ledger, pairs, to, cause) ==
  NoteGapped(ledger, {g.pair : g \in GapsFor(ledger, pairs, to, cause)}, to, cause, TRUE)

(* The tail of a gap still open, up to the moment the stream was asked.    *)
Tails(ledger, pairs, at) ==
  {[pair |-> p, from |-> ledger[p].end, to |-> at, cause |-> ledger[p].cause] :
     p \in {q \in pairs : /\ ledger[q].open
                          /\ ledger[q].last < ledger[q].end
                          /\ ledger[q].end < at}}

AfterAskedAgainTailed(ledger, pairs, at) ==      \* mutant: only what had a tail is closed
  LET tailed == {g.pair : g \in Tails(ledger, pairs, at)}
  IN  NoteGapped(ledger, tailed, at, "none", FALSE)
AfterAskedAgain(ledger, pairs, at) ==
  LET tailed == {g.pair : g \in Tails(ledger, pairs, at)}
  IN  [p \in Pairs |->
         [ledger[p] EXCEPT !.end  = IF p \in tailed THEN at ELSE @,
                           !.open = IF p \in pairs THEN FALSE ELSE @]]
=============================================================================
