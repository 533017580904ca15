----------------------------- MODULE MCWorkers -----------------------------
(***************************************************************************)
(* The constants of Workers that a configuration cannot write as they are. *)
(***************************************************************************)
EXTENDS Workers

(* A venue that only closes and refuses, and one that does all.            *)
BothWorlds == {{"closed", "refused"}, HazardNames}

(* The live candle width, a wider one whose declared history takes two     *)
(* pages, and funding, which pages forward.                                *)
Pages ==
  [minute  |-> [width |-> 1, rows |-> 3, forward |-> FALSE, reach |-> 20],
   hour    |-> [width |-> 2, rows |-> 1, forward |-> FALSE, reach |-> 4],
   funding |-> [width |-> 1, rows |-> 2, forward |-> TRUE,  reach |-> 20]]
HistoryStarts == [hour |-> 0, funding |-> 1]
=============================================================================
