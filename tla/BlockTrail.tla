------------------------------ MODULE BlockTrail ----------------------------
(***************************************************************************)
(* The hashes a cursor capture holds, adapters/rh_chain/trail.rs: a        *)
(* function from some heights, two a step, to hashes.  A header is         *)
(* [number, hash, parent]; a chain that disagrees with a held hash has     *)
(* provably replaced that block.                                           *)
(***************************************************************************)
EXTENDS Integers, FiniteSetsExt

CONSTANT Depth        \* finality_lag as declared: how far below its tip the trail reaches

DepthAssumption == Depth \in Nat \ {0}

EmptyTrail == [h \in {} |-> h]

(* Advance::Reorganised; a first sight and a jump are not linked, and say  *)
(* nothing.                                                                *)
Disagrees(trail, header) ==
  header.number - 1 \in DOMAIN trail /\ trail[header.number - 1] # header.parent

(* The claim is what the evidence supports: the parent's height changed.   *)
Claim(trail, header) == [from |-> header.number - 1, to |-> Max(DOMAIN trail)]

ForgetNothing(trail, height) == trail      \* mutant: the replaced hashes stay
ForgetFrom(trail, height) == [h \in {g \in DOMAIN trail : g < height} |-> trail[h]]

Trim(trail) ==
  [h \in {g \in DOMAIN trail : g >= Max(DOMAIN trail) - Depth} |-> trail[h]]

(* BlockTrail::advance.                                                    *)
Extended(trail, header) ==
  [h \in DOMAIN trail \cup {header.number} |->
     IF h = header.number THEN header.hash ELSE trail[h]]
Advance(trail, header) ==
  Trim(Extended(IF Disagrees(trail, header) THEN ForgetFrom(trail, header.number - 1) ELSE trail,
                header))

HeldBelowNone(trail, height) == {}         \* mutant: only the boundary is compared
HeldBelow(trail, height) == {h \in DOMAIN trail : h < height}
=============================================================================
