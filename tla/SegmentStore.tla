---------------------------- MODULE SegmentStore ----------------------------
(***************************************************************************)
(* What a partition of the segment store promises whoever writes and reads *)
(* it: rows are committed a batch at a time and, whatever compacts the     *)
(* partition or dies doing so, no committed row is ever gone.              *)
(***************************************************************************)
CONSTANT Rows           \* every row that could be written

VARIABLE rows           \* the rows a reader of the partition can find

Init == rows = {}

Commit == rows \subseteq rows' /\ rows' \subseteq Rows

Spec == Init /\ [][Commit]_rows
=============================================================================
