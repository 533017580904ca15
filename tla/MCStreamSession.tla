-------------------------- MODULE MCStreamSession --------------------------
(* Instances of StreamSession for TLC: two pairs of one venue.             *)
EXTENDS StreamSession, TLC

CONSTANTS trades, quotes

TwoPairs == {trades, quotes}
SlowHandover == {{"slow_replacement"}}
PairsAlike == Permutations(TwoPairs)
=============================================================================
