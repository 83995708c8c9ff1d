----------------------------- MODULE MCScheduler -----------------------------
(***************************************************************************)
(* Instances of Scheduler for TLC: three requests, two of which share a    *)
(* stop token and are interchangeable.                                     *)
(***************************************************************************)
EXTENDS Scheduler

CONSTANTS r1, r2, r3, eos, x, y, warm, cold

SameParams == [r \in Requests |-> cold]
MixedParams == [r \in Requests |-> IF r = r3 THEN warm ELSE cold]

Alike == Permutations({r1, r2})

SharedStops == [r \in Requests |-> IF r = r3 THEN {y} ELSE {x}]
=============================================================================
