-------------------------- MODULE MCPartialRestart --------------------------
EXTENDS PartialRestart, TLC

CONSTANTS k1, k2, p1, p2

(* One proxy of each quality type.                                         *)
OneOfEach == p1 :> ControlQm @@ p2 :> ControlB

Symmetry == Permutations(Skeletons)
=============================================================================
