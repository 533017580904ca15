----------------------------- MODULE MCCapture ------------------------------
(* Instances of Capture for TLC: two pairs, each with its own channel.     *)
EXTENDS Capture, TLC

CONSTANTS trades, quotes

TwoPairs == {trades, quotes}
(* One channel per pair, so two partitions.                                *)
TwoKinds == {[kind |-> p, pairs |-> {p}] : p \in TwoPairs}
PairsAlike == Permutations(TwoPairs)
(* One channel whose frames cover both pairs, as a universe frame does: a  *)
(* single partition.                                                       *)
OneKind == {[kind |-> "context", pairs |-> {trades, quotes}]}
=============================================================================
