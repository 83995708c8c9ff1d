--------------------------------- MODULE Lists ---------------------------------
(***************************************************************************)
(* Python's list comprehension with a condition, which the queues of the   *)
(* code are rebuilt with when something leaves them.                       *)
(***************************************************************************)
EXTENDS Naturals, SequencesExt

\* [x for x in s if x in X]
Only(s, X) ==
  LET kept[n \in 0 .. Len(s)] ==
        IF n = 0 THEN << >>
        ELSE kept[n - 1] \o (IF s[n] \in X THEN <<s[n]>> ELSE << >>)
  IN  kept[Len(s)]

\* [x for x in s if x not in X]
Without(s, X) == Only(s, ToSet(s) \ X)
=============================================================================
