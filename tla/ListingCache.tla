---------------------------- MODULE ListingCache ----------------------------
(***************************************************************************)
(* galata_segments::ListingCache: directory listings kept while a          *)
(* directory's modification time stands still, shared by concurrent walks. *)
(*                                                                         *)
(* Time is counted in ticks of the filesystem's clock, so that changes of  *)
(* one tick leave the same mtime.  What a directory holds is told apart    *)
(* only by how often it has changed.                                       *)
(***************************************************************************)
EXTENDS Integers, Sequences, FiniteSetsExt, Folds

CONSTANTS
  Dirs,        \* the directories of a tree, in the order a walk comes to them
  Walkers,
  Margin,      \* RACY_MARGIN, in ticks
  WalkTime,    \* ticks a walk may last
  MaxTime, MaxChanges, MaxWalks   \* bounds: of time, changes, walks

VARIABLES
  now,
  held,        \* per directory: its changes so far
  modified,    \* per directory: its mtime
  cache,       \* per directory: the listing kept, or Unlisted
  walk,        \* per walker: where it is
  walks        \* walks begun so far

vars == <<now, held, modified, cache, walk, walks>>

Places == DOMAIN Dirs
Unlisted == [known |-> FALSE]
Listed(mtime, entries, trusted) ==
  [known |-> TRUE, modified |-> mtime, entries |-> entries, trusted |-> trusted]
Resting == [at |-> "rest"]

Init ==
  /\ now = 1
  /\ held = [d \in Places |-> 0] /\ modified = [d \in Places |-> 0]
  /\ cache = [d \in Places |-> Unlisted]
  /\ walk = [w \in Walkers |-> Resting] /\ walks = 0

(* Bound: no walk lasts longer than WalkTime.                              *)
Tick ==
  /\ now < MaxTime
  /\ \A w \in Walkers : walk[w].at # "rest" => now < walk[w].started + WalkTime
  /\ now' = now + 1
  /\ UNCHANGED <<held, modified, cache, walk, walks>>

(* A segment is renamed in, or an original unlinked.                       *)
Change(d) ==
  /\ FoldSet(LAMBDA p, n : n + held[p], 0, Places) < MaxChanges
  /\ held' = [held EXCEPT ![d] = @ + 1]
  /\ modified' = [modified EXCEPT ![d] = now]
  /\ UNCHANGED <<now, cache, walk, walks>>

-----------------------------------------------------------------------------
Begin(w) ==
  /\ walk[w] = Resting /\ walks < MaxWalks /\ walks' = walks + 1
  /\ walk' = [walk EXCEPT ![w] = [at |-> "stat", dir |-> 1, started |-> now, begun |-> held,
                                  seen |-> <<>>, out |-> <<>>]]
  /\ UNCHANGED <<now, held, modified, cache>>

Onward(w, entries) ==
  [walk[w] EXCEPT !.out = Append(@, entries), !.dir = @ + 1,
                  !.at = IF walk[w].dir = Len(Dirs) THEN "settle" ELSE "stat"]

(* metadata, then the cache: a listing that is trusted and whose mtime has *)
(* not moved is handed out.                                                *)
UsableUntrusted(d) == cache[d].known /\ cache[d].modified = modified[d]   \* mutant
Usable(d) == /\ cache[d].known /\ cache[d].trusted
             /\ cache[d].modified = modified[d]

Stat(w) ==
  /\ walk[w].at = "stat"
  /\ LET d == walk[w].dir
         seen == Append(walk[w].seen, modified[d])
     IN  walk' = [walk EXCEPT ![w] =
           IF Usable(d) THEN [Onward(w, cache[d].entries) EXCEPT !.seen = seen]
           ELSE [walk[w] EXCEPT !.at = "read", !.seen = seen]]
  /\ UNCHANGED <<now, held, modified, cache, walks>>

Read(w) ==
  /\ walk[w].at = "read"
  /\ walk' = [walk EXCEPT ![w] = [@ EXCEPT !.at = "insert",
                                          !.out = Append(walk[w].out, held[walk[w].dir])]]
  /\ UNCHANGED <<now, held, modified, cache, walks>>

Insert(w) ==
  /\ walk[w].at = "insert"
  /\ LET d == walk[w].dir
     IN  /\ cache' = [cache EXCEPT ![d] = Listed(walk[w].seen[d], walk[w].out[d], FALSE)]
         /\ walk' = [walk EXCEPT ![w] = [@ EXCEPT !.dir = d + 1,
                                  !.at = IF d = Len(Dirs) THEN "settle" ELSE "stat"]]
  /\ UNCHANGED <<now, held, modified, walks>>

(* Which of this walk's listings the next may trust: those older than the  *)
(* newest directory it saw by more than the margin.                        *)
Newest(w) == Max({walk[w].seen[d] : d \in Places})
Settled(w, d) ==
  IF cache[d].known /\ cache[d].modified = walk[w].seen[d]
  THEN [cache[d] EXCEPT !.trusted = walk[w].seen[d] + Margin < Newest(w)]
  ELSE cache[d]

Settle(w) ==
  /\ walk[w].at = "settle"
  /\ cache' = [d \in Places |-> Settled(w, d)]
  /\ walk' = [walk EXCEPT ![w] = [@ EXCEPT !.at = "done"]]
  /\ UNCHANGED <<now, held, modified, walks>>

Finish(w) ==
  /\ walk[w].at = "done"
  /\ walk' = [walk EXCEPT ![w] = Resting]
  /\ UNCHANGED <<now, held, modified, cache, walks>>

Next ==
  \/ Tick
  \/ \E d \in Places : Change(d)
  \/ \E w \in Walkers : Begin(w) \/ Stat(w) \/ Read(w) \/ Insert(w) \/ Settle(w) \/ Finish(w)
Spec == Init /\ [][Next]_vars

-----------------------------------------------------------------------------
(* listing.rs, RACY_MARGIN: a walk's answer for a directory is what it     *)
(* held at some moment of the walk: nothing committed before it began is   *)
(* missing, however the changes fall into ticks and whoever else walks.    *)
ListingIsCurrent ==
  \A w \in Walkers : walk[w].at = "done" =>
    \A d \in Places : walk[w].begun[d] <= walk[w].out[d] /\ walk[w].out[d] <= held[d]
=============================================================================
