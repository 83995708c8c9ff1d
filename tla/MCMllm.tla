-------------------------------- MODULE MCMllm --------------------------------
(***************************************************************************)
(* Instances of Mllm for TLC: two requests, one with an image.             *)
(***************************************************************************)
EXTENDS Mllm

CONSTANTS r1, r2, eos

OneImage == r1 :> 1 @@ r2 :> 0
Callers == r1 :> "stream" @@ r2 :> "generate"
NoStops == [r \in Requests |-> {}]
=============================================================================
