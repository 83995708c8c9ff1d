---------------------------- MODULE MCServerSleep ----------------------------
(***************************************************************************)
(* Instances of SimpleEngine for TLC.                                       *)
(***************************************************************************)
EXTENDS SimpleEngine

CONSTANTS c1, c2, c3

MCSymmetry == Permutations(Calls)
=============================================================================
