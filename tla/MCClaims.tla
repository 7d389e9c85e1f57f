------------------------------- MODULE MCClaims -------------------------------
(***************************************************************************)
(* Instances of the claims for TLC: two lanes over a directory and a file  *)
(* in it.                                                                  *)
(***************************************************************************)
EXTENDS Claims, TLC

CONSTANTS a, b, dir, file

LaneSymmetry == Permutations(Lanes)

InDir == {<<dir, file>>}

============================================================================
