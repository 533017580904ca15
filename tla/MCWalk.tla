-------------------------------- MODULE MCWalk --------------------------------
(* An instance of Walk for TLC: two instruments listed before the first boot. *)
EXTENDS Walk

FirstBars == [one |-> -5, other |-> 2]
=============================================================================
