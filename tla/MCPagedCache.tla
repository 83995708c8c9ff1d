---------------------------- MODULE MCPagedCache ----------------------------
(***************************************************************************)
(* Instance of PagedCache for TLC: two requests with the same prompt (hits *)
(* and forks), a third that shares only the first block, and too few       *)
(* blocks for all of them.                                                 *)
(***************************************************************************)
EXTENDS PagedCache

CONSTANTS r1, r2, r3, A, B, C

MCPrompt == (r1 :> <<A, B>>) @@ (r2 :> <<A, B>>) @@ (r3 :> <<A, C>>)

\* r1 and r2 have the same prompt.
MCSymmetry == Permutations({r1, r2})

MCHash == {<<A>>, <<A, B>>, <<A, C>>}
=============================================================================
