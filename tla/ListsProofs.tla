----------------------------- MODULE ListsProofs -----------------------------
(***************************************************************************)
(* Lemmas about lists, and about the two ways in which the modules repeat  *)
(* something: a set of numbers that is closed under successor, and a       *)
(* function that is defined by what it does with its previous value.       *)
(***************************************************************************)
EXTENDS Lists, SequenceTheorems, FiniteSetTheorems, WellFoundedInduction, TLAPS

-----------------------------------------------------------------------------
\* Repetition.

\* Induction up to N, over a set instead of a predicate: it is what the
\* least number that is not in the set would contradict.
LEMMA UpTo ==
  ASSUME NEW N \in Nat, NEW G, 0 \in G,
         \A n \in 1 .. N : n - 1 \in G => n \in G
  PROVE  \A n \in 0 .. N : n \in G
<1> SUFFICES ASSUME NEW k \in 0 .. N, k \notin G
             PROVE  FALSE
  OBVIOUS
<1> DEFINE T == {n \in 0 .. N : n \notin G}
<1>1. T \subseteq Nat /\ T # {}
  OBVIOUS
<1>2. PICK x \in T : \A y \in T : ~ (<<y, x>> \in OpToRel(<, Nat))
  <2> HIDE DEF T
  <2> QED BY <1>1, NatLessThanWellFounded, WFMin
<1>3. \A y \in T : ~ (y < x)
  BY <1>1, <1>2 DEF OpToRel
<1>4. x \in 1 .. N /\ x - 1 \in 0 .. N
  OBVIOUS
<1>5. x - 1 \notin T
  BY <1>3, <1>4
<1> QED
  BY <1>4, <1>5

\* N steps that stay in X, and the values that they take x0 through.
StepsIn(X, N) == [1 .. N -> [X -> X]]

Iterates(X, N, x0, H, g) ==
  /\ g \in [0 .. N -> X]
  /\ g[0] = x0
  /\ \A n \in 1 .. N : g[n] = H[n][g[n - 1]]

\* Steps that stay in a set can be taken one after the other.
LEMMA Iteration ==
  ASSUME NEW X, NEW N \in Nat, NEW x0 \in X, NEW H \in StepsIn(X, N)
  PROVE  \E g : Iterates(X, N, x0, H, g)
<1>0. H \in [1 .. N -> [X -> X]]
  BY DEF StepsIn
<1> DEFINE Steps(k, g) ==
             /\ g \in [0 .. k -> X] /\ g[0] = x0
             /\ \A n \in 1 .. k : g[n] = H[n][g[n - 1]]
           G == {k \in 0 .. N : \E g : Steps(k, g)}
<1>1. 0 \in G
  <2> DEFINE h == [n \in 0 .. 0 |-> x0]
  <2>1. Steps(0, h)
    OBVIOUS
  <2> HIDE DEF h
  <2>2. \E g : Steps(0, g)
    BY <2>1
  <2> HIDE DEF Steps
  <2> QED BY <2>2
<1>2. \A k \in 1 .. N : k - 1 \in G => k \in G
  <2> SUFFICES ASSUME NEW k \in 1 .. N, NEW g, Steps(k - 1, g)
               PROVE  \E h : Steps(k, h)
    <3> HIDE DEF Steps
    <3> QED OBVIOUS
  <2> DEFINE h == [n \in 0 .. k |-> IF n = k THEN H[k][g[k - 1]] ELSE g[n]]
  <2>1. k - 1 \in 0 .. k - 1 /\ g[k - 1] \in X /\ H[k] \in [X -> X]
    BY <1>0
  <2>2. H[k][g[k - 1]] \in X
    BY <2>1
  <2>3. \A n \in 0 .. k : n # k => n \in 0 .. k - 1 /\ g[n] \in X
    OBVIOUS
  <2>4. h \in [0 .. k -> X]
    BY <2>2, <2>3
  <2>5. h[0] = x0
    OBVIOUS
  <2>6. \A n \in 1 .. k : h[n] = H[n][h[n - 1]]
    OBVIOUS
  <2>7. Steps(k, h)
    BY <2>4, <2>5, <2>6
  <2> HIDE DEF h, Steps
  <2> QED BY <2>7
<1>3. N \in G
  <2> HIDE DEF G
  <2>1. \A n \in 0 .. N : n \in G
    BY <1>1, <1>2, UpTo
  <2> QED BY <2>1
<1>4. PICK g : Steps(N, g)
  BY <1>3
<1>5. Iterates(X, N, x0, H, g)
  BY <1>4 DEF Iterates
<1> QED
  BY <1>5

-----------------------------------------------------------------------------
\* Lists that are filtered.

\* The elements of a concatenation, and when it has no element twice.
LEMMA ConcatFacts ==
  ASSUME NEW S, NEW s \in Seq(S), NEW t \in Seq(S)
  PROVE  /\ s \o t \in Seq(S)
         /\ ToSet(s \o t) = ToSet(s) \cup ToSet(t)
         /\ IsInjective(s) /\ IsInjective(t) /\ ToSet(s) \cap ToSet(t) = {}
              => IsInjective(s \o t)
<1>1. /\ s \o t \in Seq(S) /\ Len(s \o t) = Len(s) + Len(t)
      /\ \A i \in 1 .. Len(s) + Len(t) :
           (s \o t)[i] = IF i <= Len(s) THEN s[i] ELSE t[i - Len(s)]
  BY ConcatProperties
<1>2. /\ DOMAIN s = 1 .. Len(s) /\ DOMAIN t = 1 .. Len(t)
      /\ DOMAIN (s \o t) = 1 .. Len(s) + Len(t)
      /\ Len(s) \in Nat /\ Len(t) \in Nat
  BY <1>1, LenProperties
<1> DEFINE u == s \o t
<1>3. \A i \in 1 .. Len(s) : i \in DOMAIN u /\ u[i] = s[i]
  BY <1>1, <1>2
<1>4. \A i \in 1 .. Len(t) : Len(s) + i \in DOMAIN u /\ u[Len(s) + i] = t[i]
  BY <1>1, <1>2
<1>5. \A i \in DOMAIN u :
        \/ i \in DOMAIN s /\ u[i] = s[i]
        \/ i - Len(s) \in DOMAIN t /\ u[i] = t[i - Len(s)]
  BY <1>1, <1>2
<1>6. ToSet(u) = ToSet(s) \cup ToSet(t)
  <2> HIDE DEF u
  <2> QED BY <1>2, <1>3, <1>4, <1>5 DEF ToSet
<1>7. ASSUME IsInjective(s), IsInjective(t), ToSet(s) \cap ToSet(t) = {},
             NEW i \in DOMAIN u, NEW j \in DOMAIN u, u[i] = u[j]
      PROVE  i = j
  <2>1. i \in Nat /\ j \in Nat
    BY <1>2
  <2> HIDE DEF u
  <2>2. \A k \in DOMAIN s : s[k] \in ToSet(s)
    BY DEF ToSet
  <2>3. \A k \in DOMAIN t : t[k] \in ToSet(t)
    BY DEF ToSet
  <2> QED BY <1>2, <1>5, <1>7, <2>1, <2>2, <2>3 DEF IsInjective
<1> QED
  BY <1>1, <1>6, <1>7 DEF IsInjective

\* Adding an element at the back.
LEMMA AppendFacts ==
  ASSUME NEW S, NEW s \in Seq(S), NEW e \in S
  PROVE  /\ Append(s, e) \in Seq(S)
         /\ ToSet(Append(s, e)) = ToSet(s) \cup {e}
         /\ IsInjective(s) /\ e \notin ToSet(s) => IsInjective(Append(s, e))
<1>1. <<e>> \in Seq(S) /\ ToSet(<<e>>) = {e} /\ IsInjective(<<e>>)
  BY DEF ToSet, IsInjective
<1>2. Append(s, e) = s \o <<e>>
  BY AppendIsConcat
<1> DEFINE t == <<e>>
<1> HIDE DEF t
<1>3. t \in Seq(S) /\ ToSet(t) = {e} /\ IsInjective(t)
  BY <1>1 DEF t
<1>4. /\ s \o t \in Seq(S)
      /\ ToSet(s \o t) = ToSet(s) \cup {e}
      /\ IsInjective(s) /\ e \notin ToSet(s) => IsInjective(s \o t)
  BY <1>3, ConcatFacts
<1> QED
  BY <1>2, <1>4 DEF t

\* Taking the element at the front.
LEMMA TailFacts ==
  ASSUME NEW S, NEW s \in Seq(S), s # << >>
  PROVE  /\ Head(s) \in S /\ Tail(s) \in Seq(S)
         /\ ToSet(s) = {Head(s)} \cup ToSet(Tail(s))
         /\ IsInjective(s) =>
              IsInjective(Tail(s)) /\ Head(s) \notin ToSet(Tail(s))
<1> DEFINE t == Tail(s)
           N == Len(s)
<1>1. /\ Head(s) \in S /\ t \in Seq(S) /\ Len(t) = N - 1
      /\ \A i \in 1 .. Len(t) : t[i] = s[i + 1]
  BY HeadTailProperties
<1>2. N \in Nat /\ N > 0 /\ DOMAIN s = 1 .. N /\ DOMAIN t = 1 .. Len(t)
  BY <1>1, LenProperties, EmptySeq
<1>3. Head(s) = s[1]
  BY <1>2
<1>4. \A i \in DOMAIN t : t[i] = s[i + 1] /\ i + 1 \in DOMAIN s /\ i + 1 # 1
  BY <1>1, <1>2
<1>5. \A i \in DOMAIN s : i # 1 => i - 1 \in DOMAIN t /\ t[i - 1] = s[i]
  BY <1>1, <1>2
<1>6. ToSet(s) = {Head(s)} \cup ToSet(t)
  <2> HIDE DEF t, N
  <2> QED BY <1>2, <1>3, <1>4, <1>5 DEF ToSet
<1>7. ASSUME IsInjective(s)
      PROVE  IsInjective(t) /\ Head(s) \notin ToSet(t)
  <2> HIDE DEF t, N
  <2> QED BY <1>1, <1>2, <1>3, <1>4, <1>7 DEF ToSet, IsInjective
<1> QED
  BY <1>1, <1>6, <1>7

\* Turning a list round.
LEMMA ReverseFacts ==
  ASSUME NEW S, NEW s \in Seq(S)
  PROVE  /\ Reverse(s) \in Seq(S)
         /\ ToSet(Reverse(s)) = ToSet(s)
         /\ IsInjective(s) => IsInjective(Reverse(s))
<1> DEFINE t == Reverse(s)
           N == Len(s)
<1>1. N \in Nat /\ DOMAIN s = 1 .. N /\ \A i \in 1 .. N : s[i] \in S
  BY LenProperties, ElementOfSeq
<1>2. t = [i \in 1 .. N |-> s[(N - i) + 1]]
  BY DEF Reverse
<1>3. t \in Seq(S)
  <2>1. \A i \in 1 .. N : (N - i) + 1 \in 1 .. N
    BY <1>1
  <2> HIDE DEF t, N
  <2>2. t \in [1 .. N -> S]
    BY <1>1, <1>2, <2>1
  <2> QED BY <1>1, <2>2, IsASeq
<1>4. DOMAIN t = 1 .. N
  BY <1>2
<1> HIDE DEF t
<1>5. \A i \in 1 .. N : (N - i) + 1 \in 1 .. N /\ t[i] = s[(N - i) + 1]
                         /\ s[i] = t[(N - i) + 1]
  BY <1>1, <1>2
<1>6. ToSet(t) = ToSet(s)
  BY <1>1, <1>4, <1>5 DEF ToSet
<1>7. IsInjective(s) => IsInjective(t)
  BY <1>1, <1>4, <1>5 DEF IsInjective
<1> QED
  BY <1>3, <1>6, <1>7 DEF t

\* The lists that the comprehension goes through.
OnlyRun(S, s, X, f) ==
  /\ f \in [0 .. Len(s) -> Seq(S)] /\ f[0] = << >> /\ f[Len(s)] = Only(s, X)
  /\ \A n \in 1 .. Len(s) : f[n] = f[n - 1] \o (IF s[n] \in X THEN <<s[n]>> ELSE << >>)

LEMMA OnlyUnfolds ==
  ASSUME NEW S, NEW s \in Seq(S), NEW X
  PROVE  \E f : OnlyRun(S, s, X, f)
<1> DEFINE N == Len(s)
           Next1(n, t) == t \o (IF s[n] \in X THEN <<s[n]>> ELSE << >>)
           H == [n \in 1 .. N |-> [t \in Seq(S) |-> Next1(n, t)]]
           f == CHOOSE f : f = [n \in 0 .. N |->
                  IF n = 0 THEN << >>
                  ELSE f[n - 1] \o (IF s[n] \in X THEN <<s[n]>> ELSE << >>)]
<1>0. N \in Nat /\ DOMAIN s = 1 .. N /\ \A n \in 1 .. N : s[n] \in S
  BY LenProperties, ElementOfSeq
<1>1. \A n \in 1 .. N : (IF s[n] \in X THEN <<s[n]>> ELSE << >>) \in Seq(S)
  BY <1>0
<1>2. H \in [1 .. N -> [Seq(S) -> Seq(S)]]
  BY <1>1, ConcatProperties
<1>3. << >> \in Seq(S)
  OBVIOUS
<1>4. PICK g \in [0 .. N -> Seq(S)] :
        g[0] = << >> /\ \A n \in 1 .. N : g[n] = H[n][g[n - 1]]
  <2> DEFINE Y == Seq(S)
             e == << >>
  <2>1. N \in Nat /\ e \in Y /\ H \in StepsIn(Y, N)
    BY <1>0, <1>2, <1>3 DEF StepsIn
  <2> HIDE DEF H, N, Y, e
  <2>2. PICK g : Iterates(Y, N, e, H, g)
    BY <2>1, Iteration
  <2> QED BY <2>2 DEF Y, e, Iterates
<1>5. g = [n \in 0 .. N |-> IF n = 0 THEN << >>
             ELSE g[n - 1] \o (IF s[n] \in X THEN <<s[n]>> ELSE << >>)]
  <2>1. ASSUME NEW n \in 1 .. N
        PROVE  g[n] = Next1(n, g[n - 1])
    <3>1. n - 1 \in 0 .. N /\ g[n - 1] \in Seq(S)
      BY <1>0
    <3>2. H[n][g[n - 1]] = Next1(n, g[n - 1])
      <4> DEFINE t == g[n - 1]
      <4> HIDE DEF t
      <4>1. t \in Seq(S)
        BY <3>1 DEF t
      <4>2. H[n][t] = Next1(n, t)
        BY <4>1
      <4> QED BY <4>2 DEF t
    <3> QED BY <1>4, <3>2
  <2> HIDE DEF H, N
  <2>2. \A n \in 0 .. N : n # 0 => n \in 1 .. N
    BY <1>0
  <2> QED BY <1>4, <2>1, <2>2
<1>6. f = [n \in 0 .. N |-> IF n = 0 THEN << >>
             ELSE f[n - 1] \o (IF s[n] \in X THEN <<s[n]>> ELSE << >>)]
  BY <1>5
<1>7. Only(s, X) = f[N]
  BY DEF Only
<1> HIDE DEF f
<1>8. f[0] = << >> /\ \A n \in 1 .. N : f[n] = Next1(n, f[n - 1])
  <2> HIDE DEF N
  <2>1. 0 \in 0 .. N /\ \A n \in 1 .. N : n \in 0 .. N /\ n # 0
    BY <1>0
  <2>2. f[0] = << >>
    BY <1>6, <2>1
  <2>3. ASSUME NEW n \in 1 .. N
        PROVE  f[n] = Next1(n, f[n - 1])
    BY <1>6, <2>1
  <2> QED BY <2>2, <2>3
<1>9. f \in [0 .. N -> Seq(S)]
  <2> DEFINE F == {n \in 0 .. N : f[n] \in Seq(S)}
  <2>1. 0 \in F
    <3>1. f[0] \in Seq(S) /\ 0 \in 0 .. N
      BY <1>0, <1>3, <1>8
    <3> HIDE DEF N
    <3> QED BY <3>1
  <2>2. ASSUME NEW n \in 1 .. N, n - 1 \in F PROVE n \in F
    <3>1. f[n] = f[n - 1] \o (IF s[n] \in X THEN <<s[n]>> ELSE << >>)
      BY <1>8
    <3>2. f[n - 1] \in Seq(S)
      BY <2>2
    <3> HIDE DEF N
    <3>3. f[n] \in Seq(S) /\ n \in 0 .. N
      BY <1>1, <3>1, <3>2, ConcatProperties
    <3> QED BY <3>3
  <2>3. \A n \in 0 .. N : n \in F
    <3> HIDE DEF F, N
    <3> QED BY <1>0, <2>1, <2>2, UpTo
  <2> HIDE DEF N
  <2> QED BY <1>6, <2>3
<1> QED
  BY <1>7, <1>8, <1>9 DEF OnlyRun

\* What the list comprehension keeps: the elements in X, none of them twice
\* when the list holds none twice.
LEMMA OnlyFacts ==
  ASSUME NEW S, NEW s \in Seq(S), NEW X
  PROVE  /\ Only(s, X) \in Seq(S)
         /\ ToSet(Only(s, X)) = ToSet(s) \cap X
         /\ IsInjective(s) => IsInjective(Only(s, X))
<1> DEFINE N == Len(s)
           Up(n) == {s[i] : i \in 1 .. n} \cap X
<1>0. N \in Nat /\ DOMAIN s = 1 .. N /\ \A n \in 1 .. N : s[n] \in S
  BY LenProperties, ElementOfSeq
<1>1. PICK f : OnlyRun(S, s, X, f)
  BY OnlyUnfolds
<1>7. Only(s, X) = f[N]
  BY <1>1 DEF OnlyRun
<1>8. f[0] = << >> /\ \A n \in 1 .. N :
        f[n] = f[n - 1] \o (IF s[n] \in X THEN <<s[n]>> ELSE << >>)
  BY <1>1 DEF OnlyRun
<1> DEFINE G == {n \in 0 .. N : /\ f[n] \in Seq(S) /\ ToSet(f[n]) = Up(n)
                                /\ IsInjective(s) => IsInjective(f[n])}
<1>9. 0 \in G
  <2>1. << >> \in Seq(S) /\ ToSet(<< >>) = {} /\ IsInjective(<< >>)
    BY DEF ToSet, IsInjective
  <2>2. Up(0) = {} /\ 0 \in 0 .. N
    BY <1>0
  <2>3. f[0] = << >>
    BY <1>8
  <2> HIDE DEF N, Up
  <2> QED BY <2>1, <2>2, <2>3
<1>10. ASSUME NEW n \in 1 .. N, n - 1 \in G
       PROVE  n \in G
  <2> DEFINE t == f[n - 1]
             e == IF s[n] \in X THEN <<s[n]>> ELSE << >>
  <2>1. t \in Seq(S) /\ ToSet(t) = Up(n - 1) /\ f[n] = t \o e
        /\ (IsInjective(s) => IsInjective(t))
    BY <1>8, <1>10
  <2>2. e \in Seq(S) /\ ToSet(e) = {s[n]} \cap X /\ IsInjective(e)
    BY <1>0 DEF ToSet, IsInjective
  <2>3. Up(n) = Up(n - 1) \cup ({s[n]} \cap X)
    BY <1>0
  <2>4. IsInjective(s) => s[n] \notin Up(n - 1)
    BY <1>0 DEF IsInjective
  <2>5. /\ t \o e \in Seq(S)
        /\ ToSet(t \o e) = Up(n)
        /\ IsInjective(s) => IsInjective(t \o e)
    <3> HIDE DEF t, e, Up
    <3> QED BY <2>1, <2>2, <2>3, <2>4, ConcatFacts
  <2>6. f[n] = t \o e
    BY <2>1
  <2>7. n \in 0 .. N
    OBVIOUS
  <2> HIDE DEF t, e, Up, N
  <2> QED BY <2>5, <2>6, <2>7
<1>11. N \in G
  <2> HIDE DEF G, N
  <2>1. \A n \in 1 .. N : n - 1 \in G => n \in G
    BY <1>10
  <2>2. \A n \in 0 .. N : n \in G
    BY <1>0, <1>9, <2>1, UpTo
  <2> QED BY <1>0, <2>2
<1>12. Up(N) = ToSet(s) \cap X
  BY <1>0 DEF ToSet
<1> QED
  BY <1>7, <1>11, <1>12

\* What is kept keeps its order.
LEMMA OnlyOrder ==
  ASSUME NEW S, NEW s \in Seq(S), NEW X, NEW k \in Seq(S), k = Only(s, X)
  PROVE  \A i, j \in DOMAIN k : i < j =>
           \E a, b \in DOMAIN s : a < b /\ s[a] = k[i] /\ s[b] = k[j]
<1> DEFINE N == Len(s)
<1>0. N \in Nat /\ DOMAIN s = 1 .. N /\ \A n \in 1 .. N : s[n] \in S
  BY LenProperties, ElementOfSeq
<1>1. PICK f : OnlyRun(S, s, X, f)
  BY OnlyUnfolds
<1> DEFINE From(n, t) == /\ t \in Seq(S)
                         /\ \A i \in DOMAIN t : \E a \in 1 .. n : s[a] = t[i]
                         /\ \A i, j \in DOMAIN t : i < j =>
                              \E a, b \in 1 .. n : a < b /\ s[a] = t[i] /\ s[b] = t[j]
           G == {n \in 0 .. N : From(n, f[n])}
<1>2. 0 \in G
  <2>1. f[0] = << >> /\ << >> \in Seq(S) /\ DOMAIN << >> = {} /\ 0 \in 0 .. N
    BY <1>0, <1>1 DEF OnlyRun
  <2> QED BY <2>1
<1>3. ASSUME NEW n \in 1 .. N, n - 1 \in G PROVE n \in G
  <2>1. PICK t : t = f[n - 1] /\ From(n - 1, t)
    BY <1>3
  <2>2. f[n] = t \o (IF s[n] \in X THEN <<s[n]>> ELSE << >>)
    BY <1>1, <2>1 DEF OnlyRun
  <2>3. n \in 0 .. N /\ n \in 1 .. n /\ \A a \in 1 .. n - 1 : a \in 1 .. n /\ a < n
    BY <1>0
  <2>4. CASE s[n] \notin X
    <3>1. f[n] = t
      BY <2>1, <2>2, <2>4, ConcatEmptySeq
    <3>2. From(n, t)
      <4>1. \A i \in DOMAIN t : \E a \in 1 .. n : s[a] = t[i]
        BY <2>1, <2>3
      <4>2. ASSUME NEW i \in DOMAIN t, NEW j \in DOMAIN t, i < j
            PROVE  \E a, b \in 1 .. n : a < b /\ s[a] = t[i] /\ s[b] = t[j]
        <5>1. PICK a \in 1 .. n - 1, b \in 1 .. n - 1 : a < b /\ s[a] = t[i] /\ s[b] = t[j]
          BY <2>1, <4>2
        <5> QED BY <2>3, <5>1
      <4> QED BY <2>1, <4>1, <4>2
    <3> HIDE DEF From, N
    <3> QED BY <2>3, <3>1, <3>2
  <2>5. CASE s[n] \in X
    <3> DEFINE u == Append(t, s[n])
    <3>1. f[n] = u
      BY <1>0, <2>1, <2>2, <2>5, AppendIsConcat
    <3>2. /\ u \in Seq(S) /\ DOMAIN t = 1 .. Len(t) /\ Len(t) \in Nat
          /\ DOMAIN u = 1 .. Len(t) + 1 /\ u[Len(t) + 1] = s[n]
          /\ \A i \in 1 .. Len(t) : u[i] = t[i]
      <4>1. /\ u \in Seq(S) /\ Len(u) = Len(t) + 1 /\ u[Len(t) + 1] = s[n]
            /\ \A i \in 1 .. Len(t) : u[i] = t[i]
        BY <1>0, <2>1, AppendProperties
      <4>2. DOMAIN t = 1 .. Len(t) /\ Len(t) \in Nat
        BY <2>1, LenProperties
      <4>3. DOMAIN u = 1 .. Len(u)
        BY <4>1, LenProperties
      <4> QED BY <4>1, <4>2, <4>3
    <3> HIDE DEF u
    <3>3. \A i \in DOMAIN u : (i \in DOMAIN t /\ u[i] = t[i]) \/ (i = Len(t) + 1 /\ u[i] = s[n])
      BY <3>2
    <3>4. \A i \in DOMAIN t : \E a \in 1 .. n - 1 : s[a] = t[i]
      BY <2>1
    <3>5. \A i \in DOMAIN u : \E a \in 1 .. n : s[a] = u[i]
      BY <2>3, <3>3, <3>4
    <3>6. ASSUME NEW i \in DOMAIN u, NEW j \in DOMAIN u, i < j
          PROVE  \E a, b \in 1 .. n : a < b /\ s[a] = u[i] /\ s[b] = u[j]
      <4>1. i \in DOMAIN t /\ u[i] = t[i]
        <5>1. i # Len(t) + 1
          BY <3>2, <3>6
        <5> QED BY <3>3, <5>1
      <4>2. CASE j \in DOMAIN t /\ u[j] = t[j]
        <5>1. PICK a \in 1 .. n - 1, b \in 1 .. n - 1 : a < b /\ s[a] = t[i] /\ s[b] = t[j]
          BY <2>1, <3>6, <4>1, <4>2
        <5> QED BY <2>3, <4>1, <4>2, <5>1
      <4>3. CASE u[j] = s[n]
        <5>1. PICK a \in 1 .. n - 1 : s[a] = t[i]
          BY <3>4, <4>1
        <5> QED BY <2>3, <4>1, <4>3, <5>1
      <4> QED BY <3>3, <4>2, <4>3
    <3>7. From(n, u)
      BY <3>2, <3>5, <3>6
    <3> HIDE DEF From, N
    <3> QED BY <2>3, <3>1, <3>7
  <2> QED BY <2>4, <2>5
<1>4. N \in G
  <2> HIDE DEF G, N
  <2>1. \A n \in 0 .. N : n \in G
    BY <1>0, <1>2, <1>3, UpTo
  <2> QED BY <1>0, <2>1
<1>5. k = f[N]
  BY <1>1 DEF OnlyRun
<1>6. From(N, k)
  <2> HIDE DEF From, N
  <2> QED BY <1>4, <1>5
<1> HIDE DEF N, G
<1>7. \A i, j \in DOMAIN k : i < j =>
        \E a, b \in 1 .. N : a < b /\ s[a] = k[i] /\ s[b] = k[j]
  BY <1>6
<1>8. DOMAIN s = 1 .. N
  BY <1>0
<1> HIDE DEF From
<1> QED
  BY <1>7, <1>8

\* What is left of a list without the elements in X.
LEMMA WithoutFacts ==
  ASSUME NEW S, NEW s \in Seq(S), NEW X
  PROVE  /\ Without(s, X) \in Seq(S)
         /\ ToSet(Without(s, X)) = ToSet(s) \ X
         /\ IsInjective(s) => IsInjective(Without(s, X))
BY OnlyFacts DEF Without

\* A list keeps its head when the head is kept.
LEMMA WithoutHead ==
  ASSUME NEW S, NEW s \in Seq(S), s # << >>, NEW X, Head(s) \notin X
  PROVE  Without(s, X) # << >> /\ Head(Without(s, X)) = Head(s)
<1> DEFINE N == Len(s)
           Y == ToSet(s) \ X
<1>1. /\ N \in Nat /\ N # 0 /\ Head(s) = s[1] /\ DOMAIN s = 1 .. N
      /\ \A n \in 1 .. N : s[n] \in S
  BY LenProperties, EmptySeq, ElementOfSeq
<1>2. s[1] \in Y
  BY <1>1 DEF ToSet
<1>3. PICK f : OnlyRun(S, s, Y, f)
  BY OnlyUnfolds
<1> DEFINE G == {n \in 0 .. N : n # 0 => Len(f[n]) > 0 /\ f[n][1] = s[1]}
<1>4. 0 \in G
  BY <1>1
<1>5. ASSUME NEW n \in 1 .. N, n - 1 \in G
      PROVE  n \in G
  <2> DEFINE t == f[n - 1]
             e == IF s[n] \in Y THEN <<s[n]>> ELSE << >>
  <2>1. n - 1 \in 0 .. N /\ n \in 0 .. N /\ e \in Seq(S)
    BY <1>1
  <2>2. t \in Seq(S) /\ f[n] = t \o e
    <3> HIDE DEF Y
    <3> QED BY <1>3, <2>1 DEF OnlyRun
  <2>3. CASE n = 1
    <3>1. t = << >> /\ e = <<s[1]>>
      BY <1>2, <1>3, <2>3 DEF OnlyRun
    <3>2. f[n] = <<s[1]>>
      BY <2>2, <3>1
    <3> QED BY <2>1, <3>2
  <2>4. CASE n # 1
    <3>1. Len(t) > 0 /\ t[1] = s[1]
      BY <1>5, <2>1, <2>4
    <3> HIDE DEF t, e, Y, N
    <3>2. Len(t \o e) > 0 /\ (t \o e)[1] = t[1]
      BY <2>1, <2>2, <3>1, ConcatProperties, LenProperties
    <3> QED BY <2>1, <2>2, <3>1, <3>2
  <2> QED BY <2>3, <2>4
<1>6. N \in G
  <2> HIDE DEF G, N
  <2>1. \A n \in 1 .. N : n - 1 \in G => n \in G
    BY <1>5
  <2>2. \A n \in 0 .. N : n \in G
    BY <1>1, <1>4, <2>1, UpTo
  <2> QED BY <1>1, <2>2
<1>7. Without(s, X) = f[N] /\ f[N] \in Seq(S)
  BY <1>1, <1>3 DEF OnlyRun, Without
<1>8. Len(f[N]) > 0 /\ f[N][1] = s[1]
  BY <1>1, <1>6
<1> HIDE DEF N
<1> QED
  BY <1>1, <1>7, <1>8
-----------------------------------------------------------------------------
\* Lists that are cut, and their lengths.

\* Cutting a list in two.
LEMMA SplitFacts ==
  ASSUME NEW S, NEW s \in Seq(S), NEW k \in 0 .. Len(s)
  PROVE  /\ SubSeq(s, 1, k) \in Seq(S) /\ SubSeq(s, k + 1, Len(s)) \in Seq(S)
         /\ Len(SubSeq(s, 1, k)) = k
         /\ ToSet(s) = ToSet(SubSeq(s, 1, k)) \cup ToSet(SubSeq(s, k + 1, Len(s)))
         /\ IsInjective(s) =>
              /\ IsInjective(SubSeq(s, 1, k)) /\ IsInjective(SubSeq(s, k + 1, Len(s)))
              /\ ToSet(SubSeq(s, 1, k)) \cap ToSet(SubSeq(s, k + 1, Len(s))) = {}
<1> DEFINE N == Len(s)
           u == SubSeq(s, 1, k)
           v == SubSeq(s, k + 1, N)
<1>1. N \in Nat /\ k \in Nat /\ k <= N /\ DOMAIN s = 1 .. N /\ \A i \in 1 .. N : s[i] \in S
  BY LenProperties, ElementOfSeq
<1>2. u \in Seq(S) /\ Len(u) = k /\ \A i \in 1 .. k : u[i] = s[i]
  <2>1. Len(u) = IF 1 <= k THEN k - 1 + 1 ELSE 0
    BY <1>1, SubSeqProperties
  <2>2. u \in Seq(S) /\ \A i \in 1 .. k - 1 + 1 : u[i] = s[1 + i - 1]
    BY <1>1, SubSeqProperties
  <2> HIDE DEF u, N
  <2> QED BY <1>1, <2>1, <2>2
<1>3. v \in Seq(S) /\ Len(v) = N - k /\ \A i \in 1 .. N - k : v[i] = s[k + i]
  <2>0. \A i \in k + 1 .. N : s[i] \in S
    BY <1>1
  <2>1. Len(v) = IF k + 1 <= N THEN N - (k + 1) + 1 ELSE 0
    BY <1>1, <2>0, SubSeqProperties
  <2>2. v \in Seq(S) /\ \A i \in 1 .. N - (k + 1) + 1 : v[i] = s[(k + 1) + i - 1]
    BY <1>1, <2>0, SubSeqProperties
  <2> HIDE DEF v, N
  <2> QED BY <1>1, <2>1, <2>2
<1> HIDE DEF u, v, N
<1>4. DOMAIN u = 1 .. k /\ DOMAIN v = 1 .. N - k
  BY <1>2, <1>3, LenProperties
<1>5. \A i \in 1 .. N : \/ i \in DOMAIN u /\ s[i] = u[i]
                        \/ i - k \in DOMAIN v /\ s[i] = v[i - k]
  <2> SUFFICES ASSUME NEW i \in 1 .. N, ~ (i \in DOMAIN u /\ s[i] = u[i])
               PROVE  i - k \in DOMAIN v /\ s[i] = v[i - k]
    OBVIOUS
  <2>1. i \notin 1 .. k
    BY <1>2, <1>4
  <2>2. i - k \in 1 .. N - k /\ k + (i - k) = i
    BY <1>1, <2>1
  <2> QED BY <1>3, <1>4, <2>2
<1>6. /\ \A i \in DOMAIN u : i \in 1 .. N /\ u[i] = s[i]
      /\ \A i \in DOMAIN v : k + i \in 1 .. N /\ v[i] = s[k + i]
  <2>1. \A i \in 1 .. k : i \in 1 .. N
    BY <1>1
  <2>2. \A i \in 1 .. N - k : k + i \in 1 .. N
    BY <1>1
  <2> QED BY <1>2, <1>3, <1>4, <2>1, <2>2
<1>7. ToSet(s) = ToSet(u) \cup ToSet(v)
  BY <1>1, <1>4, <1>5, <1>6 DEF ToSet
<1>8. ASSUME IsInjective(s)
      PROVE  IsInjective(u) /\ IsInjective(v) /\ ToSet(u) \cap ToSet(v) = {}
  <2>1. IsInjective(u)
    BY <1>1, <1>6, <1>8 DEF IsInjective
  <2>2. IsInjective(v)
    BY <1>1, <1>4, <1>6, <1>8 DEF IsInjective
  <2>3. ASSUME NEW i \in DOMAIN u, NEW j \in DOMAIN v, u[i] = v[j] PROVE FALSE
    <3>1. i = k + j
      BY <1>1, <1>6, <1>8, <2>3 DEF IsInjective
    <3> QED BY <1>1, <1>4, <3>1
  <2> QED BY <2>1, <2>2, <2>3 DEF ToSet
<1> QED
  BY <1>2, <1>3, <1>7, <1>8 DEF u, v, N

\* The least of some numbers.
LEMMA Least ==
  ASSUME NEW T, T \subseteq Nat, T # {}
  PROVE  \E x \in T : \A y \in T : x <= y
<1>1. PICK x \in T : \A y \in T : ~ (<<y, x>> \in OpToRel(<, Nat))
  BY NatLessThanWellFounded, WFMin
<1>2. \A y \in T : ~ (y < x)
  BY <1>1 DEF OpToRel
<1> QED
  BY <1>2

\* A list without repetition is as long as the set of its elements.
LEMMA InjectiveLen ==
  ASSUME NEW S, NEW s \in Seq(S), IsInjective(s)
  PROVE  IsFiniteSet(ToSet(s)) /\ Cardinality(ToSet(s)) = Len(s)
<1>1. Len(s) \in Nat /\ s \in [1 .. Len(s) -> S] /\ DOMAIN s = 1 .. Len(s)
  BY LenProperties
<1>2. s \in [1 .. Len(s) -> ToSet(s)]
  BY <1>1 DEF ToSet
<1>3. s \in Bijection(1 .. Len(s), ToSet(s))
  BY <1>1, <1>2 DEF Bijection, Injection, Surjection, IsInjective, ToSet
<1>4. ExistsBijection(1 .. Len(s), ToSet(s))
  BY <1>3 DEF ExistsBijection
<1> QED
  BY <1>1, <1>4, FS_CountingElements, FS_NatBijection

\* The list comprehension makes no list longer.
LEMMA OnlyLen ==
  ASSUME NEW S, NEW s \in Seq(S), NEW X
  PROVE  Len(Only(s, X)) <= Len(s)
<1> DEFINE N == Len(s)
<1>0. N \in Nat /\ \A n \in 1 .. N : s[n] \in S
  BY LenProperties, ElementOfSeq
<1>1. PICK f : OnlyRun(S, s, X, f)
  BY OnlyUnfolds
<1> DEFINE G == {n \in 0 .. N : Len(f[n]) \in Nat /\ Len(f[n]) <= n}
<1>2. 0 \in G
  BY <1>0, <1>1, EmptySeq DEF OnlyRun
<1>3. ASSUME NEW n \in 1 .. N, n - 1 \in G PROVE n \in G
  <2> DEFINE e == IF s[n] \in X THEN <<s[n]>> ELSE << >>
  <2>0. n - 1 \in 0 .. N /\ n \in 0 .. N
    BY <1>0
  <2>1. f[n - 1] \in Seq(S) /\ f[n] = f[n - 1] \o e
    <3> HIDE DEF N
    <3>1. f \in [0 .. N -> Seq(S)]
      BY <1>1 DEF OnlyRun, N
    <3>2. f[n] = f[n - 1] \o e
      BY <1>1 DEF OnlyRun, N
    <3> QED BY <2>0, <3>1, <3>2
  <2>2. e \in Seq(S) /\ Len(e) \in 0 .. 1
    BY <1>0
  <2> HIDE DEF e
  <2>3. Len(f[n]) = Len(f[n - 1]) + Len(e)
    BY <2>1, <2>2, ConcatProperties
  <2>4. Len(f[n - 1]) \in Nat /\ Len(f[n - 1]) <= n - 1
    BY <1>3
  <2> HIDE DEF N
  <2>5. Len(f[n]) \in Nat /\ Len(f[n]) <= n
    <3> DEFINE a == Len(f[n - 1])
               b == Len(e)
    <3>1. a \in Nat /\ a <= n - 1 /\ b \in 0 .. 1 /\ n \in Nat /\ Len(f[n]) = a + b
      BY <1>0, <2>0, <2>2, <2>3, <2>4
    <3> HIDE DEF a, b
    <3> QED BY <3>1
  <2> QED BY <2>0, <2>5
<1>4. N \in G
  <2> HIDE DEF G
  <2>1. \A n \in 0 .. N : n \in G
    BY <1>0, <1>2, <1>3, UpTo
  <2> QED BY <1>0, <2>1
<1> QED
  BY <1>1, <1>4 DEF OnlyRun

\* Taking the element out of place i.
LEMMA RemoveAtFacts ==
  ASSUME NEW S, NEW s \in Seq(S), NEW i \in 1 .. Len(s)
  PROVE  /\ RemoveAt(s, i) = SubSeq(s, 1, i - 1) \o SubSeq(s, i + 1, Len(s))
         /\ RemoveAt(s, i) \in Seq(S) /\ Len(RemoveAt(s, i)) = Len(s) - 1
         /\ s[i] \in S
         /\ ToSet(s) = ToSet(RemoveAt(s, i)) \cup {s[i]}
         /\ IsInjective(s) =>
              IsInjective(RemoveAt(s, i)) /\ s[i] \notin ToSet(RemoveAt(s, i))
<1> DEFINE u == SubSeq(s, 1, i - 1)
           w == SubSeq(s, i, Len(s))
           v == SubSeq(s, i + 1, Len(s))
<1>1. Len(s) \in Nat /\ i - 1 \in 0 .. Len(s) /\ i - 1 + 1 = i /\ i \in Int
  BY LenProperties
<1>2. /\ u \in Seq(S) /\ w \in Seq(S) /\ Len(u) = i - 1
      /\ ToSet(s) = ToSet(u) \cup ToSet(w)
      /\ IsInjective(s) =>
           /\ IsInjective(u) /\ IsInjective(w) /\ ToSet(u) \cap ToSet(w) = {}
  <2> DEFINE k == i - 1
  <2>1. k \in 0 .. Len(s) /\ k + 1 = i
    BY <1>1
  <2> HIDE DEF k
  <2>2. u = SubSeq(s, 1, k) /\ w = SubSeq(s, k + 1, Len(s))
    BY <2>1 DEF k
  <2> HIDE DEF u, w
  <2> QED BY <1>1, <2>1, <2>2, SplitFacts DEF k
<1>3. /\ Len(w) = Len(s) - i + 1 /\ w # << >> /\ Head(w) = s[i] /\ Tail(w) = v
  <2>0. \A j \in i .. Len(s) : s[j] \in S
    BY ElementOfSeq
  <2>1. Len(w) = IF i <= Len(s) THEN Len(s) - i + 1 ELSE 0
    BY <1>1, <2>0, SubSeqProperties
  <2>2. \A j \in 1 .. Len(s) - i + 1 : w[j] = s[i + j - 1]
    BY <1>1, <2>0, SubSeqProperties
  <2>3. Len(w) = Len(s) - i + 1 /\ 1 \in 1 .. Len(s) - i + 1 /\ i + 1 - 1 = i
    BY <1>1, <2>1
  <2>4. w # << >> /\ w[1] = s[i]
    BY <1>1, <2>2, <2>3, EmptySeq
  <2>5. Tail(w) = v
    <3> DEFINE t == Tail(w)
    <3>1. t \in Seq(S) /\ Len(t) = Len(w) - 1 /\ \A j \in 1 .. Len(t) : t[j] = w[j + 1]
      BY <1>2, <2>4, HeadTailProperties
    <3>2. v \in Seq(S) /\ Len(v) = Len(s) - i /\ \A j \in 1 .. Len(s) - i : v[j] = s[i + j]
      <4> DEFINE k == i + 1
      <4>0. \A j \in k .. Len(s) : s[j] \in S
        BY ElementOfSeq
      <4>1. k \in Int /\ Len(v) = IF k <= Len(s) THEN Len(s) - k + 1 ELSE 0
        BY <1>1, <4>0, SubSeqProperties
      <4>2. v \in Seq(S) /\ \A j \in 1 .. Len(s) - k + 1 : v[j] = s[k + j - 1]
        BY <1>1, <4>0, SubSeqProperties
      <4> HIDE DEF v
      <4> QED BY <1>1, <4>1, <4>2
    <3> HIDE DEF t, v, w
    <3>3. Len(t) = Len(v)
      BY <1>1, <2>3, <3>1, <3>2
    <3>4. ASSUME NEW j \in 1 .. Len(t) PROVE t[j] = v[j]
      <4>1. /\ j \in 1 .. Len(s) - i /\ j + 1 \in 1 .. Len(s) - i + 1
            /\ i + (j + 1) - 1 = i + j
        BY <1>1, <3>2, <3>3
      <4>2. w[j + 1] = s[i + (j + 1) - 1]
        BY <2>2, <4>1
      <4> QED BY <3>1, <3>2, <4>1, <4>2
    <3>5. t = v
      BY <3>1, <3>2, <3>3, <3>4, SeqEqual
    <3> QED BY <3>5 DEF t
  <2> HIDE DEF w, v
  <2>6. Head(w) = w[1]
    BY <1>2, <2>4
  <2> QED BY <2>3, <2>4, <2>5, <2>6
<1> HIDE DEF u, v, w
<1>4. /\ s[i] \in S /\ v \in Seq(S) /\ ToSet(w) = {s[i]} \cup ToSet(v)
      /\ IsInjective(w) => IsInjective(v) /\ s[i] \notin ToSet(v)
  <2>1. /\ Head(w) \in S /\ Tail(w) \in Seq(S)
        /\ ToSet(w) = {Head(w)} \cup ToSet(Tail(w))
        /\ IsInjective(w) => IsInjective(Tail(w)) /\ Head(w) \notin ToSet(Tail(w))
    BY <1>2, <1>3, TailFacts
  <2>2. Head(w) = s[i] /\ Tail(w) = v
    BY <1>3
  <2> QED BY <2>1, <2>2
<1>5. Len(v) = Len(s) - i
  BY <1>1, <1>2, <1>3, HeadTailProperties
<1> DEFINE r == u \o v
<1>6. r \in Seq(S) /\ ToSet(r) = ToSet(u) \cup ToSet(v) /\ Len(r) = Len(s) - 1
  <2>1. Len(r) = Len(u) + Len(v)
    <3>1. u \in Seq(S) /\ v \in Seq(S)
      BY <1>2, <1>4
    <3> QED BY <3>1, ConcatProperties
  <2>2. Len(r) = Len(s) - 1
    BY <1>1, <1>2, <1>5, <2>1
  <2> QED BY <1>2, <1>4, <2>2, ConcatFacts
<1>7. ASSUME IsInjective(s) PROVE IsInjective(r) /\ s[i] \notin ToSet(r)
  <2>1. ToSet(u) \cap ToSet(v) = {} /\ s[i] \notin ToSet(u)
    BY <1>2, <1>4, <1>7
  <2>2. IsInjective(r)
    BY <1>2, <1>4, <1>7, <2>1, ConcatFacts
  <2> QED BY <1>2, <1>4, <1>6, <1>7, <2>1, <2>2
<1>8. RemoveAt(s, i) = r
  BY <1>2, <1>3 DEF RemoveAt, u, v
<1> HIDE DEF r
<1> QED BY <1>2, <1>4, <1>6, <1>7, <1>8 DEF u, v, r

=============================================================================
