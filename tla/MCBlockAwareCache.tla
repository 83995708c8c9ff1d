-------------------------- MODULE MCBlockAwareCache --------------------------
(***************************************************************************)
(* An instance of BlockAwareCache for TLC, in which a content occurs after *)
(* one prefix only.                                                        *)
(***************************************************************************)
EXTENDS BlockAwareCache

CONSTANTS r1, r2, A, B, C, D

MCSymmetry == Permutations(Requests)

\* The scheduler's prompts need more blocks than there are, the library's not.
DistinctPrompts ==
  [u \in Users |-> IF u = "library" THEN {<<A, B>>, <<A>>, <<D>>}
                   ELSE {<<A, B>>, <<A, C>>, <<D>>}]

CachedPrefixes(P) == (UNION {Prefixes(s) : s \in UNION {P[u] : u \in Users}}) \ {<< >>}

DistinctHash == CachedPrefixes(DistinctPrompts)

DistinctData == DistinctHash \cup {Wrong}
=============================================================================
