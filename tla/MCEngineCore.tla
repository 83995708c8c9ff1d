----------------------------- MODULE MCEngineCore -----------------------------
(***************************************************************************)
(* Instances of EngineCore for TLC: two requests with equal parameters and *)
(* no stop tokens of their own.                                            *)
(***************************************************************************)
EXTENDS EngineCore

CONSTANTS r1, r2, cold

MCSymmetry == Permutations(Requests)

SameParams == [r \in Requests |-> cold]
NoStops == [r \in Requests |-> {}]
=============================================================================
