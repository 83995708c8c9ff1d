-------------------------- MODULE PromptCacheProofs --------------------------
(***************************************************************************)
(* Proofs about the caches of whole prompts: that both caches in memory    *)
(* and the index on disk keep count of what they hold (Budget), and that a *)
(* request continues the KV of its own prompt (OwnPrompt) when no prompt   *)
(* is the beginning of another.  First the operators, then one lemma for   *)
(* every part of the invariant and group of actions.                       *)
(***************************************************************************)
EXTENDS PromptCache, ListsProofs

-----------------------------------------------------------------------------
\* What the entries of the memory-aware cache cost.

\* An entry costs what its KV is long.
EntrySet == {e \in [key : Prompts, kv : KVs, cost : Nat] : e.cost = Len(e.kv)}

LEMMA EntryFields ==
  ASSUME NEW e \in EntrySet
  PROVE  /\ e = [key |-> e.key, kv |-> e.kv, cost |-> e.cost]
         /\ e.key \in Prompts /\ e.kv \in KVs /\ e.cost \in Nat /\ e.cost = Len(e.kv)
BY DEF EntrySet

\* The sums that CostOf goes through.
CostRun(s, h) ==
  /\ h \in [0 .. Len(s) -> Nat] /\ h[0] = 0 /\ h[Len(s)] = CostOf(s)
  /\ \A n \in 1 .. Len(s) : h[n] = h[n - 1] + s[n].cost

LEMMA CostUnfolds ==
  ASSUME NEW s \in Seq(EntrySet)
  PROVE  \E h : CostRun(s, h)
<1> DEFINE N == Len(s)
           H == [n \in 1 .. N |-> [t \in Nat |-> t + s[n].cost]]
           h == CHOOSE h : h = [n \in 0 .. N |->
                  IF n = 0 THEN 0 ELSE h[n - 1] + s[n].cost]
<1>0. N \in Nat /\ \A n \in 1 .. N : s[n].cost \in Nat
  BY LenProperties, ElementOfSeq, EntryFields
<1>1. H \in StepsIn(Nat, N)
  BY <1>0 DEF StepsIn
<1>2. PICK g : Iterates(Nat, N, 0, H, g)
  <2> HIDE DEF H, N
  <2> QED BY <1>0, <1>1, Iteration
<1>3. /\ g \in [0 .. N -> Nat] /\ g[0] = 0
      /\ \A n \in 1 .. N : g[n] = g[n - 1] + s[n].cost
  <2>1. /\ g \in [0 .. N -> Nat] /\ g[0] = 0 /\ \A n \in 1 .. N : g[n] = H[n][g[n - 1]]
    <3> HIDE DEF H, N
    <3> QED BY <1>2 DEF Iterates
  <2>2. ASSUME NEW n \in 1 .. N PROVE H[n][g[n - 1]] = g[n - 1] + s[n].cost
    <3>1. n - 1 \in 0 .. N
      BY <1>0
    <3>2. g[n - 1] \in Nat
      BY <2>1, <3>1
    <3> QED BY <3>2
  <2> HIDE DEF H
  <2> QED BY <2>1, <2>2
<1>4. g = [n \in 0 .. N |-> IF n = 0 THEN 0 ELSE g[n - 1] + s[n].cost]
  <2> HIDE DEF N, H
  <2>1. \A n \in 0 .. N : n # 0 => n \in 1 .. N
    BY <1>0
  <2> QED BY <1>3, <2>1
<1>5. h = [n \in 0 .. N |-> IF n = 0 THEN 0 ELSE h[n - 1] + s[n].cost]
  BY <1>4
<1>6. CostOf(s) = h[N]
  BY DEF CostOf
<1> HIDE DEF h, H
<1>7. h[0] = 0 /\ \A n \in 1 .. N : h[n] = h[n - 1] + s[n].cost
  <2> HIDE DEF N
  <2>1. 0 \in 0 .. N /\ \A n \in 1 .. N : n \in 0 .. N /\ n # 0
    BY <1>0
  <2>2. h[0] = 0
    BY <1>5, <2>1
  <2>3. ASSUME NEW n \in 1 .. N PROVE h[n] = h[n - 1] + s[n].cost
    BY <1>5, <2>1
  <2> QED BY <2>2, <2>3
<1>8. h \in [0 .. N -> Nat]
  <2> DEFINE F == {n \in 0 .. N : h[n] \in Nat}
  <2>1. 0 \in F
    BY <1>0, <1>7
  <2>2. ASSUME NEW n \in 1 .. N, n - 1 \in F PROVE n \in F
    <3> HIDE DEF N
    <3>1. n \in 0 .. N /\ h[n - 1] \in Nat
      BY <1>0, <2>2
    <3>2. h[n] = h[n - 1] + s[n].cost /\ s[n].cost \in Nat
      BY <1>0, <1>7
    <3> QED BY <3>1, <3>2
  <2>3. \A n \in 0 .. N : n \in F
    <3> HIDE DEF F, N
    <3> QED BY <1>0, <2>1, <2>2, UpTo
  <2> HIDE DEF N
  <2> QED BY <1>5, <2>3
<1> QED
  BY <1>6, <1>7, <1>8 DEF CostRun

\* The cost of no entry and of one.
LEMMA CostOfFew ==
  /\ CostOf(<< >>) = 0
  /\ \A e \in EntrySet : CostOf(<<e>>) = e.cost
<1>1. CostOf(<< >>) = 0
  <2>1. << >> \in Seq(EntrySet) /\ Len(<< >>) = 0
    OBVIOUS
  <2>2. PICK h : CostRun(<< >>, h)
    BY <2>1, CostUnfolds
  <2> QED BY <2>1, <2>2 DEF CostRun
<1>2. ASSUME NEW e \in EntrySet PROVE CostOf(<<e>>) = e.cost
  <2> DEFINE s == <<e>>
  <2>1. s \in Seq(EntrySet) /\ Len(s) = 1 /\ s[1] = e /\ e.cost \in Nat
    BY EntryFields
  <2> HIDE DEF s
  <2>2. PICK h : CostRun(s, h)
    BY <2>1, CostUnfolds
  <2>3. h[1] = h[1 - 1] + e.cost /\ h[0] = 0 /\ h[1] = CostOf(s)
    BY <2>1, <2>2 DEF CostRun
  <2> QED BY <2>1, <2>3 DEF s
<1> QED
  BY <1>1, <1>2

\* Costs add up.
LEMMA CostOfConcat ==
  ASSUME NEW s \in Seq(EntrySet), NEW t \in Seq(EntrySet)
  PROVE  /\ CostOf(s) \in Nat /\ CostOf(t) \in Nat
         /\ CostOf(s \o t) = CostOf(s) + CostOf(t)
<1> DEFINE M == Len(s)
           N == Len(t)
           u == s \o t
<1>1. /\ M \in Nat /\ N \in Nat
      /\ \A n \in 1 .. M : s[n].cost \in Nat
      /\ \A n \in 1 .. N : t[n].cost \in Nat
  BY LenProperties, ElementOfSeq, EntryFields
<1>2. u \in Seq(EntrySet) /\ Len(u) = M + N
  BY ConcatProperties
<1>3. /\ \A n \in 1 .. M : u[n] = s[n]
      /\ \A n \in 1 .. N : u[M + n] = t[n]
  <2>1. \A i \in 1 .. M + N : u[i] = IF i <= M THEN s[i] ELSE t[i - M]
    BY ConcatProperties
  <2> HIDE DEF u, M, N
  <2>2. ASSUME NEW n \in 1 .. M PROVE u[n] = s[n]
    BY <1>1, <2>1
  <2>3. ASSUME NEW n \in 1 .. N PROVE u[M + n] = t[n]
    <3>1. M + n \in 1 .. M + N /\ ~ (M + n <= M) /\ (M + n) - M = n
      BY <1>1
    <3> QED BY <2>1, <3>1
  <2> QED BY <2>2, <2>3
<1> HIDE DEF u
<1>4. PICK f : CostRun(s, f)
  BY CostUnfolds
<1>5. PICK g : CostRun(t, g)
  BY CostUnfolds
<1>6. PICK h : CostRun(u, h)
  BY <1>2, CostUnfolds
<1>7. /\ f \in [0 .. M -> Nat] /\ f[0] = 0 /\ f[M] = CostOf(s)
      /\ \A n \in 1 .. M : f[n] = f[n - 1] + s[n].cost
      /\ g \in [0 .. N -> Nat] /\ g[0] = 0 /\ g[N] = CostOf(t)
      /\ \A n \in 1 .. N : g[n] = g[n - 1] + t[n].cost
  BY <1>4, <1>5 DEF CostRun
<1>8. /\ h[0] = 0 /\ h[M + N] = CostOf(u)
      /\ \A n \in 1 .. M + N : h[n] = h[n - 1] + u[n].cost
  BY <1>2, <1>6 DEF CostRun
<1> HIDE DEF M, N
<1>9. h[M] = f[M]
  <2> DEFINE G == {n \in 0 .. M : h[n] = f[n]}
  <2>1. 0 \in G
    BY <1>1, <1>7, <1>8
  <2>2. ASSUME NEW n \in 1 .. M, n - 1 \in G PROVE n \in G
    <3>1. n \in 1 .. M + N /\ n \in 0 .. M /\ h[n - 1] = f[n - 1]
      BY <1>1, <2>2
    <3>2. h[n] = h[n - 1] + u[n].cost /\ f[n] = f[n - 1] + s[n].cost /\ u[n] = s[n]
      BY <1>3, <1>7, <1>8, <3>1
    <3>3. h[n] = f[n]
      BY <3>1, <3>2
    <3> QED BY <3>1, <3>3
  <2>3. \A n \in 0 .. M : n \in G
    <3> HIDE DEF G
    <3> QED BY <1>1, <2>1, <2>2, UpTo
  <2>4. M \in 0 .. M
    BY <1>1
  <2> QED BY <2>3, <2>4
<1>10. h[M + N] = f[M] + g[N]
  <2> DEFINE G == {n \in 0 .. N : h[M + n] = f[M] + g[n]}
  <2>1. 0 \in G
    BY <1>1, <1>7, <1>8, <1>9
  <2>2. ASSUME NEW n \in 1 .. N, n - 1 \in G PROVE n \in G
    <3>1. /\ M + n \in 1 .. M + N /\ n \in 0 .. N /\ n - 1 \in 0 .. N /\ M \in 0 .. M
          /\ (M + n) - 1 = M + (n - 1)
      BY <1>1
    <3>2. h[M + (n - 1)] = f[M] + g[n - 1]
      BY <2>2
    <3>3. h[M + n] = h[M + (n - 1)] + t[n].cost /\ g[n] = g[n - 1] + t[n].cost
      BY <1>3, <1>7, <1>8, <3>1
    <3>4. f[M] \in Nat /\ g[n - 1] \in Nat /\ t[n].cost \in Nat
      BY <1>1, <1>7, <3>1
    <3>5. h[M + n] = f[M] + g[n]
      <4> HIDE DEF G
      <4> QED BY <3>2, <3>3, <3>4
    <3> QED BY <3>1, <3>5
  <2>3. \A n \in 0 .. N : n \in G
    <3> HIDE DEF G
    <3> QED BY <1>1, <2>1, <2>2, UpTo
  <2>4. N \in 0 .. N
    BY <1>1
  <2> QED BY <2>3, <2>4
<1>11. CostOf(s) \in Nat /\ CostOf(t) \in Nat
  <2>1. M \in 0 .. M /\ N \in 0 .. N
    BY <1>1
  <2> QED BY <1>7, <2>1
<1> QED
  BY <1>7, <1>8, <1>10, <1>11 DEF u

\* What is kept and what is dropped cost together what the list cost.
LEMMA CostSplit ==
  ASSUME NEW s \in Seq(EntrySet), NEW X
  PROVE  /\ CostOf(Only(s, X)) \in Nat /\ CostOf(Without(s, X)) \in Nat
         /\ CostOf(s) = CostOf(Only(s, X)) + CostOf(Without(s, X))
<1> DEFINE N == Len(s)
           Y == ToSet(s) \ X
           in(n) == IF s[n] \in X THEN <<s[n]>> ELSE << >>
           out(n) == IF s[n] \in Y THEN <<s[n]>> ELSE << >>
<1>1. /\ N \in Nat /\ DOMAIN s = 1 .. N
      /\ \A n \in 1 .. N : s[n] \in EntrySet /\ s[n].cost \in Nat
  BY LenProperties, ElementOfSeq, EntryFields
<1>2. PICK f : OnlyRun(EntrySet, s, X, f)
  BY OnlyUnfolds
<1>3. PICK g : OnlyRun(EntrySet, s, Y, g)
  BY OnlyUnfolds
<1>4. PICK h : CostRun(s, h)
  BY CostUnfolds
<1>5. /\ f \in [0 .. N -> Seq(EntrySet)] /\ f[0] = << >> /\ f[N] = Only(s, X)
      /\ \A n \in 1 .. N : f[n] = f[n - 1] \o in(n)
      /\ g \in [0 .. N -> Seq(EntrySet)] /\ g[0] = << >> /\ g[N] = Without(s, X)
      /\ \A n \in 1 .. N : g[n] = g[n - 1] \o out(n)
  BY <1>2, <1>3 DEF OnlyRun, Without
<1>6. h[0] = 0 /\ h[N] = CostOf(s) /\ \A n \in 1 .. N : h[n] = h[n - 1] + s[n].cost
  BY <1>4 DEF CostRun
<1>7. ASSUME NEW n \in 1 .. N
      PROVE  /\ in(n) \in Seq(EntrySet) /\ out(n) \in Seq(EntrySet)
             /\ CostOf(in(n)) + CostOf(out(n)) = s[n].cost
  <2>1. s[n] \in ToSet(s)
    BY <1>1 DEF ToSet
  <2>2. <<s[n]>> \in Seq(EntrySet) /\ CostOf(<<s[n]>>) = s[n].cost /\ CostOf(<< >>) = 0
    BY <1>1, CostOfFew
  <2>3. CASE s[n] \in X
    <3>1. in(n) = <<s[n]>> /\ out(n) = << >>
      BY <2>3
    <3> QED BY <1>1, <2>2, <3>1
  <2>4. CASE s[n] \notin X
    <3>1. in(n) = << >> /\ out(n) = <<s[n]>>
      BY <2>1, <2>4
    <3> QED BY <1>1, <2>2, <3>1
  <2> QED BY <2>3, <2>4
<1> HIDE DEF N, Y, in, out
<1> DEFINE G == {n \in 0 .. N : CostOf(f[n]) + CostOf(g[n]) = h[n]}
<1>8. 0 \in G
  BY <1>1, <1>5, <1>6, CostOfFew
<1>9. ASSUME NEW n \in 1 .. N, n - 1 \in G PROVE n \in G
  <2>1. n \in 0 .. N /\ n - 1 \in 0 .. N
    BY <1>1
  <2>2. f[n - 1] \in Seq(EntrySet) /\ g[n - 1] \in Seq(EntrySet)
    BY <1>5, <2>1
  <2>3. /\ CostOf(f[n]) = CostOf(f[n - 1]) + CostOf(in(n))
        /\ CostOf(f[n - 1]) \in Nat /\ CostOf(in(n)) \in Nat
    <3>1. f[n] = f[n - 1] \o in(n) /\ in(n) \in Seq(EntrySet)
      BY <1>5, <1>7
    <3> QED BY <2>2, <3>1, CostOfConcat
  <2>4. /\ CostOf(g[n]) = CostOf(g[n - 1]) + CostOf(out(n))
        /\ CostOf(g[n - 1]) \in Nat /\ CostOf(out(n)) \in Nat
    <3>1. g[n] = g[n - 1] \o out(n) /\ out(n) \in Seq(EntrySet)
      BY <1>5, <1>7
    <3> QED BY <2>2, <3>1, CostOfConcat
  <2>5. CostOf(f[n - 1]) + CostOf(g[n - 1]) = h[n - 1] /\ h[n] = h[n - 1] + s[n].cost
    BY <1>6, <1>9
  <2>6. CostOf(f[n]) + CostOf(g[n]) = h[n]
    <3> DEFINE a == CostOf(f[n - 1])
               b == CostOf(g[n - 1])
               c == CostOf(in(n))
               d == CostOf(out(n))
    <3>1. /\ a \in Nat /\ b \in Nat /\ c \in Nat /\ d \in Nat
          /\ CostOf(f[n]) = a + c /\ CostOf(g[n]) = b + d
          /\ h[n] = (a + b) + (c + d)
      BY <1>7, <2>3, <2>4, <2>5
    <3> HIDE DEF a, b, c, d
    <3> QED BY <3>1
  <2> QED BY <2>1, <2>6
<1>10. N \in G
  <2>1. \A n \in 0 .. N : n \in G
    <3> HIDE DEF G
    <3> QED BY <1>1, <1>8, <1>9, UpTo
  <2> QED BY <1>1, <2>1
<1>11. f[N] \in Seq(EntrySet) /\ g[N] \in Seq(EntrySet)
  BY <1>1, <1>5
<1> QED
  BY <1>5, <1>6, <1>10, <1>11, CostOfConcat

\* An entry that moves to the end costs what it did.
LEMMA CostMoved ==
  ASSUME NEW s \in Seq(EntrySet), NEW i \in 1 .. Len(s)
  PROVE  CostOf(Append(RemoveAt(s, i), s[i])) = CostOf(s)
<1> DEFINE u == SubSeq(s, 1, i - 1)
           v == SubSeq(s, i + 1, Len(s))
           e == s[i]
<1>0. Len(s) \in Nat /\ e \in EntrySet /\ <<e>> \in Seq(EntrySet)
  BY LenProperties, ElementOfSeq
<1>1. RemoveAt(s, i) = u \o v /\ u \o v \in Seq(EntrySet)
  <2>1. /\ RemoveAt(s, i) = SubSeq(s, 1, i - 1) \o SubSeq(s, i + 1, Len(s))
        /\ RemoveAt(s, i) \in Seq(EntrySet)
    BY RemoveAtFacts
  <2> QED BY <2>1
<1>2. u \in Seq(EntrySet) /\ v \in Seq(EntrySet)
  <2>1. (\A j \in 1 .. i - 1 : s[j] \in EntrySet) /\ (\A j \in i + 1 .. Len(s) : s[j] \in EntrySet)
    BY <1>0, ElementOfSeq
  <2>2. i - 1 \in Int /\ i + 1 \in Int
    BY <1>0
  <2> QED BY <1>0, <2>1, <2>2, SubSeqProperties
<1>3. s = u \o (<<e>> \o v)
  <2>1. SubSeq(s, i, Len(s)) = <<e>> \o v
    BY <1>0, SubSeqRecursiveFirst
  <2>2. SubSeq(s, 1, i - 1) \o SubSeq(s, (i - 1) + 1, Len(s)) = SubSeq(s, 1, Len(s))
    <3> DEFINE k == i - 1
    <3>1. 1 \in 1 .. Len(s) + 1 /\ k \in 1 - 1 .. Len(s) /\ Len(s) \in k .. Len(s)
      BY <1>0
    <3> HIDE DEF k
    <3>2. SubSeq(s, 1, k) \o SubSeq(s, k + 1, Len(s)) = SubSeq(s, 1, Len(s))
      BY <3>1, ConcatAdjacentSubSeq
    <3> QED BY <3>2 DEF k
  <2>3. (i - 1) + 1 = i
    BY <1>0
  <2> QED BY <2>1, <2>2, <2>3, SubSeqFull
<1> HIDE DEF u, v
<1>4. /\ CostOf(u \o (<<e>> \o v)) = CostOf(u) + CostOf(<<e>> \o v)
      /\ CostOf(<<e>> \o v) = CostOf(<<e>>) + CostOf(v)
      /\ CostOf(u) \in Nat /\ CostOf(v) \in Nat /\ CostOf(<<e>>) \in Nat
  <2>1. <<e>> \o v \in Seq(EntrySet)
    BY <1>0, <1>2, ConcatProperties
  <2> QED BY <1>0, <1>2, <2>1, CostOfConcat
<1>5. Append(u \o v, e) = (u \o v) \o <<e>>
  BY <1>0, <1>1, AppendIsConcat
<1>6. CostOf((u \o v) \o <<e>>) = (CostOf(u) + CostOf(v)) + CostOf(<<e>>)
  BY <1>0, <1>1, <1>2, CostOfConcat
<1> HIDE DEF e
<1>7. CostOf(s) = CostOf(u) + (CostOf(<<e>>) + CostOf(v))
  BY <1>3, <1>4
<1>8. CostOf(Append(RemoveAt(s, i), e)) = (CostOf(u) + CostOf(v)) + CostOf(<<e>>)
  BY <1>1, <1>5, <1>6
<1>9. CostOf(s) = CostOf(Append(RemoveAt(s, i), e))
  BY <1>4, <1>7, <1>8
<1> QED
  BY <1>9 DEF e

-----------------------------------------------------------------------------
\* The memory-aware cache.

\* The cache counts what it holds, and holds no key twice.
GoodMem(m) ==
  /\ m \in [entries : Seq(EntrySet), total : Nat, limit : {Limit, Reduced}]
  /\ IsInjective(m.entries)
  /\ \A e, f \in ToSet(m.entries) : e.key = f.key => e = f
  /\ m.total = CostOf(m.entries) /\ m.total <= Limit
  /\ Len(m.entries) <= MaxEntries

LEMMA Numbers ==
  /\ Limit \in Nat /\ Reduced \in Nat /\ Reduced <= Limit
  /\ MaxEntries \in Nat /\ MaxEntries > 0 /\ MaxQueue \in Nat /\ MaxQueue > 0
  /\ MaxRows \in Nat /\ MaxRows > 0
BY PromptCacheAssumption

LEMMA PromptFacts ==
  ASSUME NEW p \in Prompts
  PROVE  p \in Seq(Nat) /\ p # << >> /\ Len(p) \in Nat /\ Len(p) > 0
<1>1. p \in Seq(Nat) /\ p # << >>
  BY PromptCacheAssumption
<1> QED BY <1>1, EmptySeq

LEMMA EmptyMemGood == GoodMem(EmptyMem)
<1>1. << >> \in Seq(EntrySet) /\ Len(<< >>) = 0 /\ ToSet(<< >>) = {} /\ IsInjective(<< >>)
  BY DEF ToSet, IsInjective
<1>2. CostOf(<< >>) = 0
  BY CostOfFew
<1> QED
  BY <1>1, <1>2, Numbers DEF GoodMem, EmptyMem

LEMMA GoodMemFields ==
  ASSUME NEW m, GoodMem(m)
  PROVE  /\ m = [entries |-> m.entries, total |-> m.total, limit |-> m.limit]
         /\ m.entries \in Seq(EntrySet) /\ m.total \in Nat /\ m.limit \in {Limit, Reduced}
         /\ Len(m.entries) \in Nat /\ DOMAIN m.entries = 1 .. Len(m.entries)
         /\ \A i \in DOMAIN m.entries : m.entries[i] \in ToSet(m.entries) /\ m.entries[i] \in EntrySet
         /\ \A e \in ToSet(m.entries) : e \in EntrySet /\ \E i \in DOMAIN m.entries : e = m.entries[i]
<1>1. /\ m = [entries |-> m.entries, total |-> m.total, limit |-> m.limit]
      /\ m.entries \in Seq(EntrySet) /\ m.total \in Nat /\ m.limit \in {Limit, Reduced}
  BY DEF GoodMem
<1>2. Len(m.entries) \in Nat /\ DOMAIN m.entries = 1 .. Len(m.entries)
  BY <1>1, LenProperties
<1>3. \A i \in DOMAIN m.entries : m.entries[i] \in EntrySet
  BY <1>1, <1>2, ElementOfSeq
<1> QED
  BY <1>1, <1>2, <1>3 DEF ToSet

\* A cache is as good when its entries are those of a good one, in any order
\* and fewer, and its count is theirs.
LEMMA GoodMemFrom ==
  ASSUME NEW m, GoodMem(m), NEW s \in Seq(EntrySet), NEW limit \in {Limit, Reduced},
         IsInjective(s), ToSet(s) \subseteq ToSet(m.entries), Len(s) <= Len(m.entries),
         NEW total \in Nat, total = CostOf(s), total <= m.total
  PROVE  GoodMem([entries |-> s, total |-> total, limit |-> limit])
<1> DEFINE w == [entries |-> s, total |-> total, limit |-> limit]
<1>1. /\ w \in [entries : Seq(EntrySet), total : Nat, limit : {Limit, Reduced}]
      /\ w.entries = s /\ w.total = total
  OBVIOUS
<1>2. \A e, f \in ToSet(s) : e.key = f.key => e = f
  BY DEF GoodMem
<1>3. m.total \in Nat /\ m.total <= Limit /\ Len(m.entries) <= MaxEntries /\ Len(m.entries) \in Nat
  BY GoodMemFields DEF GoodMem
<1>4. Len(s) \in Nat
  BY LenProperties
<1>5. total <= Limit /\ Len(s) <= MaxEntries
  BY <1>3, <1>4, Numbers
<1> HIDE DEF w
<1> QED
  BY <1>1, <1>2, <1>5 DEF GoodMem, w

\* The limit is none of the counts.
LEMMA LimitChanged ==
  ASSUME NEW m, GoodMem(m), NEW limit \in {m.limit, Reduced, Limit}
  PROVE  /\ GoodMem([m EXCEPT !.limit = limit])
         /\ [m EXCEPT !.limit = limit].entries = m.entries
         /\ [m EXCEPT !.limit = limit].limit = limit
<1>1. [m EXCEPT !.limit = limit] = [entries |-> m.entries, total |-> m.total, limit |-> limit]
  BY GoodMemFields
<1>2. limit \in {Limit, Reduced}
  BY GoodMemFields
<1>3. /\ IsInjective(m.entries) /\ m.total = CostOf(m.entries) /\ m.entries \in Seq(EntrySet)
      /\ m.total \in Nat /\ Len(m.entries) \in Nat
  BY GoodMemFields DEF GoodMem
<1>4. GoodMem([entries |-> m.entries, total |-> m.total, limit |-> limit])
  <2>1. m.total <= m.total /\ Len(m.entries) <= Len(m.entries)
    BY <1>3
  <2> QED BY <1>2, <1>3, <2>1, GoodMemFrom
<1> QED
  BY <1>1, <1>4

\* Entries that go take their cost with them.
LEMMA DroppedFacts ==
  ASSUME NEW m, GoodMem(m), NEW K
  PROVE  /\ GoodMem(Dropped(m, K)) /\ Dropped(m, K).limit = m.limit
         /\ ToSet(Dropped(m, K).entries) = {e \in ToSet(m.entries) : e.key \notin K}
<1> DEFINE gone == {e \in ToSet(m.entries) : e.key \in K}
           s == Without(m.entries, gone)
           total == m.total - CostOf(Only(m.entries, gone))
<1>0. /\ m.entries \in Seq(EntrySet) /\ m.limit \in {Limit, Reduced} /\ IsInjective(m.entries)
      /\ m.total \in Nat /\ m.total = CostOf(m.entries)
  BY GoodMemFields DEF GoodMem
<1>1. Dropped(m, K) = [entries |-> s, total |-> total, limit |-> m.limit]
  <2>1. Dropped(m, K) = [m EXCEPT !.entries = s, !.total = total]
    BY DEF Dropped
  <2>2. m = [entries |-> m.entries, total |-> m.total, limit |-> m.limit]
    BY GoodMemFields
  <2> DEFINE w == [m EXCEPT !.entries = s]
  <2>3. Dropped(m, K) = [w EXCEPT !.total = total]
    BY <2>1
  <2> HIDE DEF s, total
  <2>4. w = [entries |-> s, total |-> m.total, limit |-> m.limit]
    BY <2>2
  <2> HIDE DEF w
  <2> QED BY <2>3, <2>4
<1>2. /\ s \in Seq(EntrySet) /\ ToSet(s) = ToSet(m.entries) \ gone /\ IsInjective(s)
      /\ Len(s) <= Len(m.entries)
  <2> HIDE DEF gone
  <2>1. s \in Seq(EntrySet) /\ ToSet(s) = ToSet(m.entries) \ gone /\ IsInjective(s)
    BY <1>0, WithoutFacts
  <2>2. Len(s) <= Len(m.entries)
    BY <1>0, OnlyLen DEF Without
  <2> QED BY <2>1, <2>2
<1>3. total \in Nat /\ total <= m.total /\ total = CostOf(s)
  <2>1. /\ CostOf(Only(m.entries, gone)) \in Nat /\ CostOf(s) \in Nat
        /\ CostOf(m.entries) = CostOf(Only(m.entries, gone)) + CostOf(s)
    <3> HIDE DEF gone
    <3> QED BY <1>0, CostSplit
  <2> QED BY <1>0, <2>1
<1> HIDE DEF s, total
<1>4. GoodMem([entries |-> s, total |-> total, limit |-> m.limit])
  BY <1>0, <1>2, <1>3, GoodMemFrom
<1> QED
  BY <1>1, <1>2, <1>4

\* An entry that is used moves to the end.
LEMMA UsedFacts ==
  ASSUME NEW m, GoodMem(m), NEW i \in DOMAIN m.entries
  PROVE  /\ GoodMem(Used(m, i)) /\ Used(m, i).limit = m.limit
         /\ ToSet(Used(m, i).entries) = ToSet(m.entries)
<1> DEFINE s == m.entries
           r == RemoveAt(s, i)
           u == Append(r, s[i])
<1>0. /\ s \in Seq(EntrySet) /\ m.limit \in {Limit, Reduced} /\ IsInjective(s)
      /\ m.total \in Nat /\ m.total = CostOf(s) /\ i \in 1 .. Len(s) /\ Len(s) \in Nat
  BY GoodMemFields DEF GoodMem
<1>1. Used(m, i) = [entries |-> u, total |-> m.total, limit |-> m.limit]
  <2>1. Used(m, i) = [m EXCEPT !.entries = u]
    BY DEF Used
  <2>2. m = [entries |-> m.entries, total |-> m.total, limit |-> m.limit]
    BY GoodMemFields
  <2> HIDE DEF u
  <2>3. [m EXCEPT !.entries = u] = [entries |-> u, total |-> m.total, limit |-> m.limit]
    BY <2>2
  <2> QED BY <2>1, <2>3
<1>2. /\ r \in Seq(EntrySet) /\ Len(r) = Len(s) - 1 /\ s[i] \in EntrySet
      /\ ToSet(s) = ToSet(r) \cup {s[i]} /\ IsInjective(r) /\ s[i] \notin ToSet(r)
  <2> HIDE DEF s
  <2> QED BY <1>0, RemoveAtFacts
<1>3. CostOf(u) = CostOf(s)
  <2> HIDE DEF s
  <2> QED BY <1>0, CostMoved
<1> HIDE DEF r, s
<1>4. /\ u \in Seq(EntrySet) /\ ToSet(u) = ToSet(s) /\ IsInjective(u)
  BY <1>2, AppendFacts
<1>5. Len(u) = Len(s)
  <2>1. Len(u) = Len(r) + 1
    BY <1>2, AppendProperties
  <2> QED BY <1>0, <1>2, <2>1
<1> HIDE DEF u
<1>6. GoodMem([entries |-> u, total |-> m.total, limit |-> m.limit])
  <2>1. /\ ToSet(u) \subseteq ToSet(m.entries) /\ Len(u) <= Len(m.entries)
        /\ m.total = CostOf(u) /\ m.total <= m.total
    BY <1>0, <1>3, <1>4, <1>5 DEF s
  <2> QED BY <1>0, <1>4, <2>1, GoodMemFrom
<1> QED
  BY <1>1, <1>4, <1>6 DEF s

\* The least place, and the place of the longest key, among some.
LEMMA LongestKey ==
  ASSUME NEW m, GoodMem(m), NEW I, I \subseteq DOMAIN m.entries, I # {}, NEW N \in Nat,
         \A i \in I : Len(m.entries[i].key) <= N
  PROVE  \E j \in I : \A k \in I : Len(m.entries[k].key) <= Len(m.entries[j].key)
<1> DEFINE len(i) == Len(m.entries[i].key)
           T == {N - len(i) : i \in I}
<1>1. \A i \in I : len(i) \in Nat /\ len(i) <= N
  BY GoodMemFields, EntryFields, PromptFacts
<1> HIDE DEF len
<1>2. T \subseteq Nat /\ T # {}
  BY <1>1
<1>3. PICK x \in T : \A y \in T : x <= y
  <2> HIDE DEF T
  <2> QED BY <1>2, Least
<1>4. PICK j \in I : x = N - len(j)
  BY <1>3
<1>5. \A k \in I : N - len(j) <= N - len(k)
  BY <1>3, <1>4
<1>6. \A k \in I : len(k) <= len(j)
  BY <1>1, <1>5
<1> QED
  BY <1>6 DEF len

\* What a fetch hands out: the KV of an entry that it found by its key, and
\* the cache with its entries in another order.
LEMMA MemFetchFacts ==
  ASSUME NEW m, GoodMem(m), NEW tokens \in Prompts, NEW hit, hit = MemFetch(m, tokens)
  PROVE  /\ GoodMem(hit.cache) /\ ToSet(hit.cache.entries) = ToSet(m.entries)
         /\ hit.how \in {"miss", "exact", "shorter", "longer"}
         /\ hit.how # "miss" => \E e \in ToSet(m.entries) :
              \/ hit.how = "exact" /\ e.key = tokens /\ hit.kv = e.kv /\ hit.rest = << >>
              \/ /\ hit.how = "shorter" /\ IsStrictPrefix(e.key, tokens) /\ hit.kv = e.kv
                 /\ hit.rest = SubSeq(tokens, Len(e.key) + 1, Len(tokens))
              \/ /\ hit.how = "longer" /\ IsStrictPrefix(tokens, e.key)
                 /\ hit.kv = Cut(e.kv, Len(tokens)) /\ hit.rest = << >>
<1> DEFINE key(i) == m.entries[i].key
           kv(i) == m.entries[i].kv
           shorter == {i \in DOMAIN m.entries : IsStrictPrefix(key(i), tokens)}
           longer == {i \in DOMAIN m.entries : IsStrictPrefix(tokens, key(i))}
           found(i, k, rest, how) ==
             [cache |-> Used(m, i), kv |-> k, rest |-> rest, how |-> how]
           Good(i) == GoodMem(Used(m, i)) /\ ToSet(Used(m, i).entries) = ToSet(m.entries)
<1>1. \A i \in DOMAIN m.entries : Good(i) /\ m.entries[i] \in ToSet(m.entries)
  BY UsedFacts, GoodMemFields
<1>2. CASE tokens \in Keys(m)
  <2> DEFINE i == CHOOSE j \in DOMAIN m.entries : key(j) = tokens
  <2>1. i \in DOMAIN m.entries /\ key(i) = tokens
    BY <1>2 DEF Keys
  <2>2. hit = found(i, kv(i), << >>, "exact")
    BY <1>2 DEF MemFetch
  <2> HIDE DEF i
  <2>3. /\ hit.cache = Used(m, i) /\ hit.how = "exact" /\ hit.kv = kv(i)
        /\ hit.rest = << >>
    BY <2>2
  <2> QED BY <1>1, <2>1, <2>3
<1>3. CASE tokens \notin Keys(m) /\ shorter # {}
  <2> DEFINE i == CHOOSE j \in shorter : \A k \in shorter : Len(key(k)) <= Len(key(j))
  <2>1. \E j \in shorter : \A k \in shorter : Len(key(k)) <= Len(key(j))
    <3>1. \A j \in shorter : Len(key(j)) <= Len(tokens)
      BY DEF IsStrictPrefix, IsPrefix
    <3>2. Len(tokens) \in Nat /\ shorter \subseteq DOMAIN m.entries
      BY PromptFacts
    <3>3. \A j \in shorter : Len(m.entries[j].key) <= Len(tokens)
      BY <3>1
    <3> HIDE DEF shorter
    <3> QED BY <1>3, <3>2, <3>3, LongestKey
  <2>2. i \in shorter
    <3> HIDE DEF shorter, key
    <3> QED BY <2>1
  <2>3. hit = found(i, kv(i), SubSeq(tokens, Len(key(i)) + 1, Len(tokens)), "shorter")
    BY <1>3 DEF MemFetch
  <2> HIDE DEF i
  <2>4. /\ hit.cache = Used(m, i) /\ hit.how = "shorter" /\ hit.kv = kv(i)
        /\ hit.rest = SubSeq(tokens, Len(key(i)) + 1, Len(tokens))
    BY <2>3
  <2> QED BY <1>1, <2>2, <2>4
<1>4. CASE tokens \notin Keys(m) /\ shorter = {} /\ longer # {}
  <2> DEFINE i == CHOOSE j \in longer : \A k \in longer : j <= k
  <2>1. \E j \in longer : \A k \in longer : j <= k
    <3>1. longer \subseteq Nat
      BY GoodMemFields
    <3> HIDE DEF longer
    <3> QED BY <1>4, <3>1, Least
  <2>2. i \in longer
    <3> HIDE DEF longer
    <3> QED BY <2>1
  <2>3. hit = found(i, Cut(kv(i), Len(tokens)), << >>, "longer")
    BY <1>4 DEF MemFetch
  <2> HIDE DEF i
  <2>4. /\ hit.cache = Used(m, i) /\ hit.how = "longer"
        /\ hit.kv = Cut(kv(i), Len(tokens)) /\ hit.rest = << >>
    BY <2>3
  <2> QED BY <1>1, <2>2, <2>4
<1>5. CASE tokens \notin Keys(m) /\ shorter = {} /\ longer = {}
  <2>1. hit = Miss(m, tokens)
    BY <1>5 DEF MemFetch
  <2> QED BY <2>1 DEF Miss
<1> QED
  BY <1>2, <1>3, <1>4, <1>5

\* The loop ends: when everything is gone there is room.
LEMMA MakeRoomFacts ==
  ASSUME NEW m, GoodMem(m), NEW cost, NEW w, w = MakeRoom(m, cost)
  PROVE  /\ GoodMem(w) /\ w.limit = m.limit /\ ToSet(w.entries) \subseteq ToSet(m.entries)
         /\ \/ w.entries = << >>
            \/ w.total + cost <= m.limit /\ Len(w.entries) < MaxEntries
<1> DEFINE N == Len(m.entries)
           at(n) == Dropped(m, Oldest(m, n))
           fits(n) == \/ at(n).entries = << >>
                      \/ at(n).total + cost <= m.limit /\ Len(at(n).entries) < MaxEntries
           F == {n \in 0 .. N : fits(n)}
           n0 == CHOOSE n \in 0 .. N : fits(n) /\ \A k \in 0 .. n - 1 : ~ fits(k)
<1>1. N \in Nat /\ DOMAIN m.entries = 1 .. N
  BY GoodMemFields
<1>2. N \in F
  <2> DEFINE s == at(N).entries
  <2>1. \A e \in ToSet(m.entries) : e.key \in Oldest(m, N)
    BY <1>1, GoodMemFields DEF Oldest
  <2>2. ToSet(s) = {e \in ToSet(m.entries) : e.key \notin Oldest(m, N)} /\ GoodMem(at(N))
    BY DroppedFacts
  <2>3. ToSet(s) = {} /\ s \in Seq(EntrySet)
    BY <2>1, <2>2, GoodMemFields
  <2> HIDE DEF s
  <2>4. s = << >>
    <3>1. CASE s # << >>
      <4>1. Head(s) \in ToSet(s)
        BY <2>3, <3>1, TailFacts
      <4> QED BY <2>3, <4>1
    <3> QED BY <3>1
  <2>5. N \in 0 .. N
    BY <1>1
  <2> QED BY <2>4, <2>5 DEF s
<1>3. \E n \in 0 .. N : fits(n) /\ \A k \in 0 .. n - 1 : ~ fits(k)
  <2>1. F \subseteq Nat /\ F # {}
    <3> HIDE DEF fits
    <3> QED BY <1>1, <1>2
  <2>2. PICK x \in F : \A y \in F : x <= y
    <3> HIDE DEF F
    <3> QED BY <2>1, Least
  <2> HIDE DEF fits, N
  <2>3. x \in 0 .. N /\ fits(x)
    BY <2>2
  <2>4. ASSUME NEW k \in 0 .. x - 1 PROVE ~ fits(k)
    <3>1. k \in 0 .. N /\ ~ (x <= k)
      BY <1>1, <2>3
    <3> QED BY <2>2, <3>1
  <2> QED BY <2>3, <2>4
<1>4. n0 \in 0 .. N /\ fits(n0)
  <2> HIDE DEF fits, N
  <2> QED BY <1>3
<1>5. w = at(n0)
  BY DEF MakeRoom
<1> HIDE DEF n0
<1>6. GoodMem(w) /\ w.limit = m.limit /\ ToSet(w.entries) \subseteq ToSet(m.entries)
  BY <1>5, DroppedFacts
<1> QED
  BY <1>4, <1>5, <1>6

\* 95 % of a limit are within it.
LEMMA Share ==
  ASSUME NEW x \in Nat, NEW n \in Nat, x <= (95 * n) \div 100
  PROVE  x <= n
OBVIOUS

\* A store keeps the count, and what it adds is what it was given.
LEMMA MemStoreFacts ==
  ASSUME NEW m0, GoodMem(m0), NEW tokens \in Prompts, NEW kv \in KVs,
         NEW limit \in Limits(m0), NEW X, NEW w, w = MemStore(m0, tokens, kv, limit, X)
  PROVE  /\ GoodMem(w)
         /\ \A e \in ToSet(w.entries) :
              e \in ToSet(m0.entries) \/ (e.key = tokens /\ e.kv = kv)
<1> DEFINE m == [m0 EXCEPT !.limit = limit]
           live == Dropped(m, X)
           room == MakeRoom(live, Cost(kv))
           e0 == [key |-> tokens, kv |-> kv, cost |-> Cost(kv)]
           s == Append(room.entries, e0)
           total == room.total + Cost(kv)
<1>1. limit \in {m0.limit, Reduced, Limit}
  BY DEF Limits
<1>2. GoodMem(m) /\ m.entries = m0.entries /\ m.limit = limit
  BY <1>1, LimitChanged
<1> HIDE DEF m
<1>3. /\ GoodMem(live) /\ live.limit = limit
      /\ ToSet(live.entries) = {e \in ToSet(m0.entries) : e.key \notin X}
  BY <1>2, DroppedFacts
<1>4. CASE tokens \in Keys(m)
  <2> DEFINE i == CHOOSE j \in DOMAIN m.entries : m.entries[j].key = tokens
  <2>1. i \in DOMAIN m.entries
    BY <1>4 DEF Keys
  <2>2. w = Used(m, i)
    BY <1>4 DEF MemStore, m
  <2> HIDE DEF i
  <2> QED BY <1>2, <2>1, <2>2, UsedFacts
<1>5. CASE tokens \notin Keys(m) /\ Cost(kv) > (95 * limit) \div 100
  <2>1. w = live
    BY <1>5 DEF MemStore, m
  <2> QED BY <1>3, <2>1
<1>6. CASE tokens \notin Keys(m) /\ ~ (Cost(kv) > (95 * limit) \div 100)
  <2>1. w = [room EXCEPT !.entries = s, !.total = total]
    BY <1>6 DEF MemStore, m
  <2> HIDE DEF live
  <2>2. /\ GoodMem(room) /\ room.limit = limit
        /\ ToSet(room.entries) \subseteq ToSet(live.entries)
        /\ \/ room.entries = << >>
           \/ room.total + Cost(kv) <= limit /\ Len(room.entries) < MaxEntries
    BY <1>3, MakeRoomFacts
  <2>3. Cost(kv) \in Nat /\ e0 \in EntrySet
    BY LenProperties DEF Cost, EntrySet, KVs
  <2> HIDE DEF room
  <2>4. /\ room.entries \in Seq(EntrySet) /\ IsInjective(room.entries)
        /\ room.total = CostOf(room.entries) /\ room.total \in Nat
        /\ Len(room.entries) \in Nat
        /\ \A e, f \in ToSet(room.entries) : e.key = f.key => e = f
    BY <2>2, GoodMemFields DEF GoodMem
  <2>5. \A e \in ToSet(room.entries) : e \in ToSet(m0.entries) /\ e.key # tokens
    <3>1. \A e \in ToSet(m.entries) : e.key \in Keys(m)
      BY <1>2, GoodMemFields DEF Keys
    <3> QED BY <1>2, <1>3, <1>6, <2>2, <3>1
  <2> HIDE DEF e0
  <2>6. e0.key = tokens /\ e0.kv = kv /\ e0.cost = Cost(kv)
    BY DEF e0
  <2>7. /\ s \in Seq(EntrySet) /\ ToSet(s) = ToSet(room.entries) \cup {e0}
        /\ IsInjective(s) /\ Len(s) = Len(room.entries) + 1
    <3>1. e0 \notin ToSet(room.entries)
      BY <2>5, <2>6
    <3> QED BY <2>3, <2>4, <3>1, AppendFacts, AppendProperties
  <2>8. total = CostOf(s) /\ total \in Nat
    <3>1. <<e0>> \in Seq(EntrySet) /\ CostOf(<<e0>>) = Cost(kv)
      BY <2>3, <2>6, CostOfFew
    <3>2. CostOf(room.entries \o <<e0>>) = CostOf(room.entries) + CostOf(<<e0>>)
      BY <2>4, <3>1, CostOfConcat
    <3>3. s = room.entries \o <<e0>>
      BY <2>3, <2>4, AppendIsConcat
    <3> QED BY <2>3, <2>4, <3>1, <3>2, <3>3
  <2>9. total <= Limit /\ Len(s) <= MaxEntries
    <3>1. limit \in Nat /\ limit <= Limit
      BY <1>2, GoodMemFields, Numbers
    <3>2. CASE room.entries = << >>
      <4>1. room.total = 0 /\ Len(room.entries) = 0
        BY <2>4, <3>2, CostOfFew
      <4>2. Cost(kv) <= limit
        <5>1. (95 * limit) \div 100 \in Nat
          BY <3>1
        <5>2. Cost(kv) <= (95 * limit) \div 100
          BY <1>6, <2>3, <5>1
        <5> QED BY <2>3, <3>1, <5>2, Share
      <4> QED BY <2>3, <2>7, <3>1, <4>1, <4>2, Numbers
    <3>3. CASE room.total + Cost(kv) <= limit /\ Len(room.entries) < MaxEntries
      BY <2>3, <2>4, <2>7, <3>1, <3>3, Numbers
    <3> QED BY <2>2, <3>2, <3>3
  <2>10. w = [entries |-> s, total |-> total, limit |-> limit]
    <3> DEFINE v == [room EXCEPT !.entries = s]
    <3>1. w = [v EXCEPT !.total = total]
      BY <2>1
    <3>2. room = [entries |-> room.entries, total |-> room.total, limit |-> limit]
      BY <2>2, GoodMemFields
    <3> HIDE DEF s, total
    <3>3. v = [entries |-> s, total |-> room.total, limit |-> limit]
      BY <3>2
    <3> HIDE DEF v
    <3> QED BY <3>1, <3>3
  <2> HIDE DEF s, total
  <2>11. \A e, f \in ToSet(s) : e.key = f.key => e = f
    BY <2>4, <2>5, <2>6, <2>7
  <2>12. limit \in {Limit, Reduced}
    BY <1>2, GoodMemFields
  <2>13. /\ w \in [entries : Seq(EntrySet), total : Nat, limit : {Limit, Reduced}]
         /\ w.entries = s /\ w.total = total
    BY <2>7, <2>8, <2>10, <2>12
  <2>14. GoodMem(w)
    BY <2>7, <2>8, <2>9, <2>11, <2>13 DEF GoodMem
  <2> QED BY <2>5, <2>6, <2>7, <2>13, <2>14
<1> QED
  BY <1>4, <1>5, <1>6

\* A good cache has as many keys as entries.
LEMMA KeysCounted ==
  ASSUME NEW m, GoodMem(m)
  PROVE  Cardinality(Keys(m)) = Len(m.entries)
<1> DEFINE N == Len(m.entries)
           ks == [i \in 1 .. N |-> m.entries[i].key]
<1>1. N \in Nat /\ DOMAIN m.entries = 1 .. N /\ \A i \in 1 .. N : m.entries[i] \in EntrySet
  BY GoodMemFields
<1>2. ks \in [1 .. N -> Prompts]
  BY <1>1, EntryFields
<1>3. ks \in Seq(Prompts) /\ Len(ks) = N
  <2> HIDE DEF ks, N
  <2>1. ks \in Seq(Prompts)
    BY <1>1, <1>2, SeqDef
  <2>2. DOMAIN ks = 1 .. Len(ks) /\ DOMAIN ks = 1 .. N /\ Len(ks) \in Nat
    BY <1>2, <2>1, LenProperties
  <2> QED BY <1>1, <2>1, <2>2
<1>4. IsInjective(ks)
  <2>1. \A i, j \in 1 .. N : m.entries[i].key = m.entries[j].key => m.entries[i] = m.entries[j]
    BY <1>1, GoodMemFields DEF GoodMem
  <2>2. \A i, j \in 1 .. N : m.entries[i] = m.entries[j] => i = j
    BY <1>1 DEF GoodMem, IsInjective
  <2> QED BY <1>1, <2>1, <2>2 DEF IsInjective
<1>5. ToSet(ks) = Keys(m)
  BY <1>1 DEF ToSet, Keys
<1> HIDE DEF ks
<1> QED
  BY <1>3, <1>4, <1>5, InjectiveLen

-----------------------------------------------------------------------------
\* The trie.

\* What it is to be the beginning of a sequence.
LEMMA PrefixMeans ==
  ASSUME NEW p \in Seq(Nat), NEW q \in Seq(Nat)
  PROVE  IsPrefix(p, q) <=> Len(p) <= Len(q) /\ \A i \in 1 .. Len(p) : p[i] = q[i]
<1> DEFINE N == Len(p)
           u == SubSeq(q, 1, N)
<1>1. N \in Nat /\ Len(q) \in Nat /\ SubSeq(p, 1, N) = p
  BY LenProperties, SubSeqFull
<1>2. ASSUME N <= Len(q)
      PROVE  u \in Seq(Nat) /\ Len(u) = N /\ \A i \in 1 .. N : u[i] = q[i]
  <2>1. \A i \in 1 .. N : q[i] \in Nat
    BY <1>1, <1>2, ElementOfSeq
  <2>2. u \in Seq(Nat) /\ Len(u) = (IF 1 <= N THEN N - 1 + 1 ELSE 0)
    BY <1>1, <2>1, SubSeqProperties
  <2>3. \A i \in 1 .. N - 1 + 1 : u[i] = q[1 + i - 1]
    BY <1>1, <2>1, SubSeqProperties
  <2> HIDE DEF u, N
  <2> QED BY <1>1, <2>2, <2>3
<1> HIDE DEF u
<1>3. IsPrefix(p, q) <=> N <= Len(q) /\ p = u
  BY <1>1 DEF IsPrefix, u
<1>4. ASSUME N <= Len(q), \A i \in 1 .. N : p[i] = q[i] PROVE p = u
  BY <1>2, <1>4, SeqEqual
<1> QED
  BY <1>2, <1>3, <1>4

LEMMA PrefixTransitive ==
  ASSUME NEW p \in Seq(Nat), NEW q \in Seq(Nat), NEW k \in Seq(Nat),
         IsPrefix(p, q), IsPrefix(q, k)
  PROVE  IsPrefix(p, k)
<1>1. Len(p) \in Nat /\ Len(q) \in Nat /\ Len(k) \in Nat
  BY LenProperties
<1>2. Len(p) <= Len(q) /\ \A i \in 1 .. Len(p) : p[i] = q[i]
  BY PrefixMeans
<1>3. Len(q) <= Len(k) /\ \A i \in 1 .. Len(q) : q[i] = k[i]
  BY PrefixMeans
<1>4. Len(p) <= Len(k) /\ \A i \in 1 .. Len(p) : p[i] = k[i]
  BY <1>1, <1>2, <1>3
<1> QED
  BY <1>4, PrefixMeans

\* The paths of a sequence are its beginnings that are not empty.
LEMMA PathsFacts ==
  ASSUME NEW k \in Seq(Nat), NEW p
  PROVE  /\ p \in PathsOf(k) =>
              /\ Len(p) \in 1 .. Len(k) /\ p = SubSeq(k, 1, Len(p))
         /\ p \in PathsOf(k) <=> p \in Seq(Nat) /\ p # << >> /\ IsPrefix(p, k)
<1>0. Len(k) \in Nat
  BY LenProperties
<1>1. ASSUME NEW n \in 1 .. Len(k), p = SubSeq(k, 1, n)
      PROVE  /\ Len(p) = n /\ p \in Seq(Nat) /\ p # << >> /\ IsPrefix(p, k)
  <2>1. \A i \in 1 .. n : k[i] \in Nat
    BY <1>0, ElementOfSeq
  <2>2. p \in Seq(Nat) /\ Len(p) = (IF 1 <= n THEN n - 1 + 1 ELSE 0)
    BY <1>0, <1>1, <2>1, SubSeqProperties
  <2>3. \A i \in 1 .. n - 1 + 1 : p[i] = k[1 + i - 1]
    BY <1>0, <1>1, <2>1, SubSeqProperties
  <2>4. Len(p) = n /\ \A i \in 1 .. n : p[i] = k[i]
    BY <1>0, <2>2, <2>3
  <2>5. IsPrefix(p, k)
    BY <1>0, <2>2, <2>4, PrefixMeans
  <2>6. p # << >>
    BY <2>4
  <2> QED BY <2>2, <2>4, <2>5, <2>6
<1>2. ASSUME p \in Seq(Nat), p # << >>, IsPrefix(p, k)
      PROVE  p \in PathsOf(k)
  <2>1. Len(p) \in Nat \ {0} /\ Len(p) <= Len(k)
    BY <1>2, EmptySeq DEF IsPrefix
  <2> DEFINE n == Len(p)
  <2>2. p = SubSeq(k, 1, n)
    BY <1>2, SubSeqFull DEF IsPrefix
  <2>3. n \in 1 .. Len(k)
    BY <1>0, <2>1
  <2> HIDE DEF n
  <2> QED BY <2>2, <2>3 DEF PathsOf
<1>3. ASSUME p \in PathsOf(k)
      PROVE  /\ Len(p) \in 1 .. Len(k) /\ p = SubSeq(k, 1, Len(p))
             /\ p \in Seq(Nat) /\ p # << >> /\ IsPrefix(p, k)
  <2>1. PICK n \in 1 .. Len(k) : p = SubSeq(k, 1, n)
    BY <1>3 DEF PathsOf
  <2> QED BY <1>1, <2>1
<1> QED
  BY <1>2, <1>3

LEMMA OwnPath ==
  ASSUME NEW k \in Prompts
  PROVE  k \in PathsOf(k) /\ IsPrefix(k, k)
<1>1. k \in Seq(Nat) /\ k # << >> /\ Len(k) \in Nat
  BY PromptFacts
<1>2. IsPrefix(k, k)
  BY <1>1 DEF IsPrefix
<1> QED
  BY <1>1, <1>2, PathsFacts

\* As many paths as tokens, at most.
LEMMA PathsCounted ==
  ASSUME NEW k \in Seq(Nat), NEW P, P \subseteq PathsOf(k)
  PROVE  Cardinality(P) \in Nat
<1> DEFINE N == Len(k)
           f == [n \in 1 .. N |-> SubSeq(k, 1, n)]
<1>1. f \in Surjection(1 .. N, PathsOf(k))
  BY DEF Surjection, PathsOf
<1>2. N \in Nat
  BY LenProperties
<1> HIDE DEF f, N
<1>3. IsFiniteSet(1 .. N)
  BY <1>2, FS_Interval
<1>4. IsFiniteSet(PathsOf(k))
  BY <1>1, <1>3, FS_Surjection
<1> QED
  BY <1>4, FS_Subset, FS_CardinalityType

\* The nodes that lead to the prompts in K.
Leading(K) == UNION {PathsOf(k) : k \in K}

\* The order names the prompts with a cache, each once, and the nodes are the
\* beginnings of those.
GoodTrie(t) ==
  /\ t = [nodes |-> t.nodes, cached |-> t.cached, lru |-> t.lru]
  /\ t.lru \in Seq(Prompts) /\ IsInjective(t.lru) /\ Len(t.lru) <= MaxEntries
  /\ t.cached \in [ToSet(t.lru) -> KVs]
  /\ t.nodes = Leading(ToSet(t.lru))

LEMMA EmptyTrieGood == GoodTrie(EmptyTrie)
<1>1. << >> \in Seq(Prompts) /\ Len(<< >>) = 0 /\ ToSet(<< >>) = {} /\ IsInjective(<< >>)
  BY DEF ToSet, IsInjective
<1>2. << >> \in [{} -> KVs]
  OBVIOUS
<1> QED
  BY <1>1, <1>2, Numbers DEF GoodTrie, EmptyTrie, Leading

LEMMA GoodTrieFields ==
  ASSUME NEW t, GoodTrie(t)
  PROVE  /\ t = [nodes |-> t.nodes, cached |-> t.cached, lru |-> t.lru]
         /\ t.lru \in Seq(Prompts) /\ ToSet(t.lru) \subseteq Prompts
         /\ DOMAIN t.cached = ToSet(t.lru) /\ \A k \in ToSet(t.lru) : t.cached[k] \in KVs
<1>1. t.lru \in Seq(Prompts)
  BY DEF GoodTrie
<1>2. ToSet(t.lru) \subseteq Prompts
  BY <1>1, LenProperties, ElementOfSeq DEF ToSet
<1> QED
  BY <1>1, <1>2 DEF GoodTrie

\* A key that is touched is the last one.
LEMMA TouchedFacts ==
  ASSUME NEW s \in Seq(Prompts), IsInjective(s), NEW key \in Prompts
  PROVE  /\ Touched(s, key) \in Seq(Prompts) /\ Touched(s, key) # << >>
         /\ IsInjective(Touched(s, key)) /\ ToSet(Touched(s, key)) = ToSet(s) \cup {key}
         /\ Len(Touched(s, key)) <= Len(s) + 1
         /\ key \in ToSet(s) => Len(Touched(s, key)) = Len(s)
<1> DEFINE r == Without(s, {key})
           u == Append(r, key)
<1>1. r \in Seq(Prompts) /\ ToSet(r) = ToSet(s) \ {key} /\ IsInjective(r)
  BY WithoutFacts
<1>2. Len(r) <= Len(s) /\ Len(r) \in Nat /\ Len(s) \in Nat
  BY <1>1, OnlyLen, LenProperties DEF Without
<1> HIDE DEF r
<1>3. u \in Seq(Prompts) /\ ToSet(u) = ToSet(s) \cup {key} /\ IsInjective(u)
  BY <1>1, AppendFacts
<1>4. u # << >> /\ Len(u) = Len(r) + 1
  BY <1>1, AppendProperties
<1> HIDE DEF u
<1>5. ASSUME key \in ToSet(s) PROVE Len(u) = Len(s)
  <2>1. ToSet(u) = ToSet(s)
    BY <1>3, <1>5
  <2> QED BY <1>3, <2>1, InjectiveLen
<1>6. Touched(s, key) = u
  BY DEF Touched, u, r
<1>7. Len(u) <= Len(s) + 1
  BY <1>2, <1>4
<1> QED
  BY <1>3, <1>4, <1>5, <1>6, <1>7

\* The order changes only by touching what is there.
LEMMA TrieTouched ==
  ASSUME NEW t, GoodTrie(t), NEW key \in ToSet(t.lru), NEW w,
         w = [t EXCEPT !.lru = Touched(t.lru, key)]
  PROVE  GoodTrie(w) /\ ToSet(w.lru) = ToSet(t.lru) /\ w.cached = t.cached
<1> DEFINE u == Touched(t.lru, key)
<1>1. key \in Prompts /\ t.lru \in Seq(Prompts) /\ IsInjective(t.lru)
  BY GoodTrieFields DEF GoodTrie
<1>2. /\ u \in Seq(Prompts) /\ IsInjective(u) /\ ToSet(u) = ToSet(t.lru)
      /\ Len(u) = Len(t.lru)
  <2>1. /\ u \in Seq(Prompts) /\ IsInjective(u) /\ ToSet(u) = ToSet(t.lru) \cup {key}
        /\ key \in ToSet(t.lru) => Len(u) = Len(t.lru)
    BY <1>1, TouchedFacts
  <2> HIDE DEF u
  <2> QED BY <2>1
<1> HIDE DEF u
<1>3. w = [nodes |-> t.nodes, cached |-> t.cached, lru |-> u]
  BY GoodTrieFields DEF u
<1> QED
  BY <1>2, <1>3 DEF GoodTrie

\* What a fetch hands out: the KV of a cache that it found by its key, and
\* the trie with its caches.
LEMMA TrieFetchFacts ==
  ASSUME NEW t, GoodTrie(t), NEW tokens \in Prompts, NEW hit \in TrieFetch(t, tokens)
  PROVE  /\ GoodTrie(hit.cache) /\ ToSet(hit.cache.lru) = ToSet(t.lru)
         /\ hit.cache.cached = t.cached
         /\ hit.how \in {"miss", "exact", "shorter", "longer"}
         /\ hit.how # "miss" => \E k \in ToSet(t.lru) :
              \/ hit.how = "exact" /\ k = tokens /\ hit.kv = t.cached[k] /\ hit.rest = << >>
              \/ /\ hit.how = "shorter" /\ IsPrefix(k, tokens) /\ k # tokens
                 /\ hit.kv = t.cached[k]
                 /\ hit.rest = SubSeq(tokens, Len(k) + 1, Len(tokens))
              \/ /\ hit.how = "longer" /\ IsPrefix(tokens, k)
                 /\ tokens \notin ToSet(t.lru) /\ hit.rest = << >>
                 /\ hit.kv = SubSeq(t.cached[k], 1,
                                    Len(t.cached[k]) - (Len(k) - Len(tokens)))
<1> DEFINE walked == {p \in PathsOf(tokens) : p \in t.nodes}
           depth == Cardinality(walked)
           at == SubSeq(tokens, 1, depth)
           below == {k \in DOMAIN t.cached : IsPrefix(tokens, k)}
           nearest == {k \in below : \A l \in below : Len(k) <= Len(l)}
           cut(k) == SubSeq(t.cached[k], 1, Len(t.cached[k]) - (Len(k) - Len(tokens)))
           found(lru, kv, rest, how) ==
             [cache |-> [t EXCEPT !.lru = lru], kv |-> kv, rest |-> rest, how |-> how]
<1>0. tokens \in Seq(Nat) /\ Len(tokens) \in Nat /\ depth \in Nat
  BY PromptFacts, PathsCounted
<1>1. DOMAIN t.cached = ToSet(t.lru) /\ ToSet(t.lru) \subseteq Prompts
  BY GoodTrieFields
<1>2. [t EXCEPT !.lru = t.lru] = t
  BY GoodTrieFields
<1>3. CASE depth = Len(tokens) /\ tokens \in DOMAIN t.cached
  <2>1. hit = found(Touched(t.lru, tokens), t.cached[tokens], << >>, "exact")
    BY <1>3 DEF TrieFetch
  <2>2. /\ hit.cache = [t EXCEPT !.lru = Touched(t.lru, tokens)]
        /\ hit.how = "exact" /\ hit.kv = t.cached[tokens] /\ hit.rest = << >>
    BY <2>1
  <2> DEFINE c == hit.cache
  <2>3. tokens \in ToSet(t.lru) /\ c = [t EXCEPT !.lru = Touched(t.lru, tokens)]
    BY <1>1, <1>3, <2>2
  <2> HIDE DEF c
  <2>4. GoodTrie(c) /\ ToSet(c.lru) = ToSet(t.lru) /\ c.cached = t.cached
    BY <2>3, TrieTouched
  <2> QED BY <2>2, <2>3, <2>4 DEF c
<1>4. CASE ~ (depth = Len(tokens) /\ tokens \in DOMAIN t.cached)
           /\ depth < Len(tokens) /\ at \in DOMAIN t.cached
  <2>1. hit = found(Touched(t.lru, at), t.cached[at],
                    SubSeq(tokens, depth + 1, Len(tokens)), "shorter")
    BY <1>4 DEF TrieFetch
  <2> HIDE DEF walked, depth
  <2>2. /\ hit.cache = [t EXCEPT !.lru = Touched(t.lru, at)]
        /\ hit.how = "shorter" /\ hit.kv = t.cached[at]
        /\ hit.rest = SubSeq(tokens, depth + 1, Len(tokens))
    BY <2>1
  <2>3. at \in ToSet(t.lru) /\ at \in Prompts /\ at # << >>
    BY <1>1, <1>4, PromptFacts
  <2>4. depth \in 1 .. Len(tokens)
    <3>1. CASE depth = 0
      <4>1. at = << >>
        BY <1>0, <3>1, SubSeqEmpty
      <4> QED BY <2>3, <4>1
    <3> QED BY <1>0, <1>4, <3>1
  <2>5. at \in PathsOf(tokens)
    BY <2>4 DEF PathsOf
  <2>6. IsPrefix(at, tokens) /\ Len(at) = depth
    <3>1. \A i \in 1 .. depth : tokens[i] \in Nat
      BY <1>0, <2>4, ElementOfSeq
    <3>2. Len(at) = (IF 1 <= depth THEN depth - 1 + 1 ELSE 0)
      BY <1>0, <3>1, SubSeqProperties
    <3> QED BY <1>0, <2>4, <2>5, <3>2, PathsFacts
  <2>7. at # tokens
    BY <1>0, <1>4, <2>6
  <2>8. /\ GoodTrie(hit.cache) /\ ToSet(hit.cache.lru) = ToSet(t.lru)
        /\ hit.cache.cached = t.cached
    <3> DEFINE c == hit.cache
    <3>1. c = [t EXCEPT !.lru = Touched(t.lru, at)]
      BY <2>2
    <3> HIDE DEF c, at
    <3>2. GoodTrie(c) /\ ToSet(c.lru) = ToSet(t.lru) /\ c.cached = t.cached
      BY <2>3, <3>1, TrieTouched
    <3> QED BY <3>2 DEF c
  <2> HIDE DEF at
  <2> QED BY <2>2, <2>3, <2>6, <2>7, <2>8
<1>5. CASE /\ ~ (depth = Len(tokens) /\ tokens \in DOMAIN t.cached)
           /\ ~ (depth < Len(tokens) /\ at \in DOMAIN t.cached)
           /\ depth = Len(tokens) /\ below # {}
  <2>1. hit \in {found(t.lru, cut(k), << >>, "longer") : k \in nearest}
    BY <1>5 DEF TrieFetch
  <2>2. PICK k \in nearest : hit = found(t.lru, cut(k), << >>, "longer")
    <3> HIDE DEF found, nearest, cut
    <3> QED BY <2>1
  <2>3. /\ hit.cache = t /\ hit.how = "longer" /\ hit.kv = cut(k) /\ hit.rest = << >>
    BY <1>2, <2>2
  <2>4. k \in ToSet(t.lru) /\ IsPrefix(tokens, k) /\ tokens \notin ToSet(t.lru)
    BY <1>1, <1>5
  <2> QED BY <2>3, <2>4
<1>6. CASE /\ ~ (depth = Len(tokens) /\ tokens \in DOMAIN t.cached)
           /\ ~ (depth < Len(tokens) /\ at \in DOMAIN t.cached)
           /\ ~ (depth = Len(tokens) /\ below # {})
  <2>1. hit = Miss(t, tokens)
    BY <1>6 DEF TrieFetch
  <2> QED BY <2>1 DEF Miss
<1> QED
  BY <1>3, <1>4, <1>5, <1>6

\* A trie whose order has lost one key, which is to be deleted.
OneTooMany(t, key) ==
  /\ t = [nodes |-> t.nodes, cached |-> t.cached, lru |-> t.lru]
  /\ t.lru \in Seq(Prompts) /\ IsInjective(t.lru) /\ Len(t.lru) <= MaxEntries
  /\ key \in Prompts /\ key \notin ToSet(t.lru)
  /\ t.cached \in [ToSet(t.lru) \cup {key} -> KVs]
  /\ t.nodes = Leading(ToSet(t.lru) \cup {key})

\* A cache that goes takes with it the nodes that lead to no other.
LEMMA TrieDeleteFacts ==
  ASSUME NEW t, NEW key, OneTooMany(t, key), NEW w, w = TrieDelete(t, key)
  PROVE  /\ GoodTrie(w) /\ w.lru = t.lru
         /\ \A k \in ToSet(t.lru) : w.cached[k] = t.cached[k]
<1> DEFINE s == t.lru
           cached == t.cached
<1>0. /\ t = [nodes |-> t.nodes, cached |-> t.cached, lru |-> t.lru]
      /\ s \in Seq(Prompts) /\ IsInjective(s) /\ Len(s) <= MaxEntries
      /\ key \in Prompts /\ key \notin ToSet(s)
      /\ cached \in [ToSet(s) \cup {key} -> KVs]
      /\ t.nodes = Leading(ToSet(s) \cup {key})
  BY DEF OneTooMany
<1> DEFINE left == [k \in DOMAIN t.cached \ {key} |-> t.cached[k]]
           empty == {p \in PathsOf(key) :
                       \A q \in t.nodes : IsPrefix(p, q) =>
                         q \in PathsOf(key) /\ q \notin DOMAIN left}
           nodes == t.nodes \ empty
           leading == UNION {PathsOf(k) : k \in ToSet(s)}
<1>1. t.nodes = UNION {PathsOf(k) : k \in ToSet(s) \cup {key}}
  BY <1>0 DEF Leading
<1>2. DOMAIN left = ToSet(s) /\ left \in [ToSet(s) -> KVs]
      /\ \A k \in ToSet(s) : left[k] = cached[k]
  BY <1>0
<1>3. w = [nodes |-> nodes, cached |-> left, lru |-> s]
  <2>1. w = [t EXCEPT !.cached = left, !.nodes = nodes]
    BY DEF TrieDelete
  <2> DEFINE v == [t EXCEPT !.cached = left]
  <2>2. w = [v EXCEPT !.nodes = nodes]
    BY <2>1
  <2> HIDE DEF left, nodes
  <2>3. v = [nodes |-> t.nodes, cached |-> left, lru |-> s]
    BY <1>0
  <2> HIDE DEF v
  <2> QED BY <2>2, <2>3
<1>4. ToSet(s) \subseteq Prompts
  BY <1>0, LenProperties, ElementOfSeq DEF ToSet
<1>5. key \in Seq(Nat) /\ \A k \in ToSet(s) : k \in Seq(Nat) /\ k \in PathsOf(k)
  BY <1>0, <1>4, PromptFacts, OwnPath
<1> HIDE DEF left
<1>6. \A p \in t.nodes : p \in leading \/ p \in PathsOf(key)
  BY <1>1
<1>7. leading \subseteq t.nodes
  BY <1>1
<1>8. ASSUME NEW p \in leading PROVE p \in nodes
  <2>1. PICK k \in ToSet(s) : p \in PathsOf(k)
    OBVIOUS
  <2>2. IsPrefix(p, k)
    BY <1>5, <2>1, PathsFacts
  <2>3. k \in t.nodes /\ k \in DOMAIN left
    BY <1>1, <1>2, <1>5, <2>1
  <2>4. p \notin empty
    BY <2>2, <2>3
  <2> QED BY <1>7, <2>4
<1>9. ASSUME NEW p \in nodes PROVE p \in leading
  <2> SUFFICES ASSUME p \in PathsOf(key) PROVE p \in leading
    BY <1>6
  <2>1. PICK q \in t.nodes : IsPrefix(p, q) /\ ~ (q \in PathsOf(key) /\ q \notin DOMAIN left)
    OBVIOUS
  <2>2. p \in Seq(Nat) /\ p # << >>
    BY <1>5, PathsFacts
  <2>3. CASE q \in DOMAIN left
    <3>1. p \in PathsOf(q) /\ q \in ToSet(s)
      BY <1>2, <1>5, <2>1, <2>2, <2>3, PathsFacts
    <3> QED BY <3>1
  <2>4. CASE q \notin PathsOf(key)
    <3>1. PICK k \in ToSet(s) : q \in PathsOf(k)
      BY <1>6, <2>1, <2>4
    <3>2. q \in Seq(Nat) /\ IsPrefix(q, k) /\ k \in Seq(Nat)
      BY <1>5, <3>1, PathsFacts
    <3>3. IsPrefix(p, k)
      BY <2>1, <2>2, <3>2, PrefixTransitive
    <3>4. p \in PathsOf(k)
      BY <2>2, <3>2, <3>3, PathsFacts
    <3> QED BY <3>4
  <2> QED BY <2>1, <2>3, <2>4
<1>10. nodes = leading
  BY <1>8, <1>9
<1> HIDE DEF nodes, empty
<1> HIDE DEF leading
<1>11. leading = Leading(ToSet(s))
  BY DEF Leading, leading
<1>12. w.lru = s /\ w.cached = left /\ w.nodes = nodes
  BY <1>3
<1>13. w = [nodes |-> w.nodes, cached |-> w.cached, lru |-> w.lru]
  BY <1>3
<1>14. GoodTrie(w)
  BY <1>0, <1>2, <1>10, <1>11, <1>12, <1>13 DEF GoodTrie
<1> QED
  BY <1>2, <1>12, <1>14

\* A store keeps every cache that stays as it was, and adds what it was given.
LEMMA TrieStoreFacts ==
  ASSUME NEW t, GoodTrie(t), NEW tokens \in Prompts, NEW kv \in KVs, NEW w,
         w = TrieStore(t, tokens, kv)
  PROVE  /\ GoodTrie(w)
         /\ \A k \in ToSet(w.lru) :
              \/ k \in ToSet(t.lru) /\ w.cached[k] = t.cached[k]
              \/ k = tokens /\ w.cached[k] = kv
<1> DEFINE s == Touched(t.lru, tokens)
           cached == [k \in DOMAIN t.cached \cup {tokens} |->
                        IF k \in DOMAIN t.cached THEN t.cached[k] ELSE kv]
           nodes == t.nodes \cup PathsOf(tokens)
           put == [nodes |-> nodes, cached |-> cached, lru |-> s]
<1>1. /\ t.lru \in Seq(Prompts) /\ IsInjective(t.lru) /\ Len(t.lru) <= MaxEntries
      /\ Len(t.lru) \in Nat
      /\ DOMAIN t.cached = ToSet(t.lru) /\ \A k \in ToSet(t.lru) : t.cached[k] \in KVs
      /\ t.nodes = Leading(ToSet(t.lru))
  BY GoodTrieFields, LenProperties DEF GoodTrie
<1>2. /\ s \in Seq(Prompts) /\ s # << >> /\ IsInjective(s) /\ Len(s) <= Len(t.lru) + 1
      /\ ToSet(s) = ToSet(t.lru) \cup {tokens} /\ Len(s) \in Nat
  <2>1. /\ s \in Seq(Prompts) /\ s # << >> /\ IsInjective(s) /\ Len(s) <= Len(t.lru) + 1
        /\ ToSet(s) = ToSet(t.lru) \cup {tokens}
    BY <1>1, TouchedFacts
  <2> HIDE DEF s
  <2> QED BY <2>1, LenProperties
<1>3. /\ cached \in [ToSet(s) -> KVs]
      /\ \A k \in ToSet(s) : \/ k \in ToSet(t.lru) /\ cached[k] = t.cached[k]
                             \/ k = tokens /\ cached[k] = kv
  <2> HIDE DEF s
  <2> QED BY <1>1, <1>2
<1>4. nodes = Leading(ToSet(s))
  <2> HIDE DEF s
  <2> QED BY <1>1, <1>2 DEF Leading
<1>5. w = IF Len(s) <= MaxEntries THEN put
          ELSE TrieDelete([put EXCEPT !.lru = Tail(s)], Head(s))
  BY DEF TrieStore
<1> HIDE DEF s, cached, nodes
<1>6. CASE Len(s) <= MaxEntries
  <2>1. w = put
    BY <1>5, <1>6
  <2>2. GoodTrie(put)
    BY <1>2, <1>3, <1>4, <1>6 DEF GoodTrie
  <2> QED BY <1>3, <2>1, <2>2
<1>7. CASE ~ (Len(s) <= MaxEntries)
  <2> DEFINE key == Head(s)
             r == Tail(s)
  <2>1. /\ key \in Prompts /\ r \in Seq(Prompts) /\ ToSet(s) = {key} \cup ToSet(r)
        /\ IsInjective(r) /\ key \notin ToSet(r)
    BY <1>2, TailFacts
  <2>2. Len(r) <= MaxEntries
    <3>1. Len(r) = Len(s) - 1
      BY <1>2, HeadTailProperties
    <3> QED BY <1>1, <1>2, <3>1, Numbers
  <2>3. w = TrieDelete([put EXCEPT !.lru = r], key)
    BY <1>5, <1>7
  <2> HIDE DEF key, r
  <2>4. [put EXCEPT !.lru = r] = [nodes |-> nodes, cached |-> cached, lru |-> r]
    OBVIOUS
  <2>5. /\ ToSet(s) = ToSet(r) \cup {key}
        /\ cached \in [ToSet(r) \cup {key} -> KVs]
        /\ nodes = Leading(ToSet(r) \cup {key})
    <3>1. ToSet(s) = ToSet(r) \cup {key}
      BY <2>1
    <3> QED BY <1>3, <1>4, <3>1
  <2>6. /\ GoodTrie(w) /\ w.lru = r
        /\ \A k \in ToSet(r) : w.cached[k] = cached[k]
    <3> DEFINE d == [put EXCEPT !.lru = r]
    <3>1. /\ d = [nodes |-> d.nodes, cached |-> d.cached, lru |-> d.lru]
          /\ d.nodes = nodes /\ d.cached = cached /\ d.lru = r
      BY <2>4
    <3>2. w = TrieDelete(d, key)
      BY <2>3
    <3> HIDE DEF d
    <3>3. OneTooMany(d, key)
      BY <2>1, <2>2, <2>5, <3>1 DEF OneTooMany
    <3> QED BY <3>1, <3>2, <3>3, TrieDeleteFacts
  <2> QED BY <1>3, <2>5, <2>6
<1> QED
  BY <1>6, <1>7

-----------------------------------------------------------------------------
\* The invariant, in parts.

\* What the caches in memory hold.
L1Type == GoodMem(mem) /\ GoodTrie(trie)

\* The main thread is between two things, or within one: at a prompt that it
\* looks up on disk, or in a clear or a shutdown.
MainStates ==
  [pc : {"idle", "clear", "join", "flush", "closed"}]
    \cup [pc : {"lookup", "exists", "unrow", "load", "unlink"}, prompt : Prompts]

MainType ==
  /\ reqs \subseteq [prompt : Prompts, kv : KVs, rest : KVs]
  /\ main \in MainStates /\ starts \in Nat

\* A writer that is not at a pause has an item.
Items == [prompt : Prompts, kv : KVs]
Pauses == {"get", "ended"}
Working == {"save", "rename", "insert", "evict", "commit", "cleanup"}
WriterStates ==
  {w \in [pc : Pauses \cup Working, item : {None} \cup Items, gone : SUBSET Prompts] :
     w.pc \notin Pauses => w.item \in Items}

DiskType ==
  /\ rows \subseteq Prompts /\ IsFiniteSet(rows)
  /\ final \in [Prompts -> Files] /\ tmp \in [Prompts -> Files]
  /\ queue \in Seq(Items) /\ Len(queue) <= MaxQueue
  /\ wr \in [Actors -> WriterStates]

\* The main thread writes only in shutdown, and then the background thread has
\* ended unless the main thread did not wait for it.
OneWriter ==
  /\ wr["main"].pc # "get" => main.pc = "flush"
  /\ main.pc \in {"flush", "closed"} /\ "overlap" \notin faults => wr["thread"].pc = "ended"

\* Until its row goes in, the item that is written has none.
NewItem ==
  faults \cap {"db", "overlap"} = {} =>
    \A a \in Actors : wr[a].pc \in {"save", "rename", "insert", "cleanup"} =>
      wr[a].item.prompt \notin rows

\* The first half of RowsExact.
RowsHaveFiles ==
  faults \cap {"db", "overlap"} = {} /\ starts = 0 =>
    \A p \in rows : final[p] = None =>
      \/ main.pc = "clear" \/ p \in stray
      \/ \E a \in Actors : wr[a].pc = "commit" /\ p \in wr[a].gone

\* An index that is over its budget is about to be cut to it.
RowsBounded ==
  "db" \notin faults /\ starts = 0 =>
    \/ \E a \in Actors : wr[a].pc = "evict"
    \/ \E a \in Actors : wr[a].pc = "commit" /\ Cardinality(rows \ wr[a].gone) <= MaxRows
    \/ Cardinality(rows) <= MaxRows

CacheIInv ==
  L1Type /\ MainType /\ DiskType /\ OneWriter /\ NewItem /\ RowsHaveFiles /\ RowsBounded

LEMMA CacheInitSound == Init => CacheIInv
<1> SUFFICES ASSUME Init PROVE CacheIInv
  OBVIOUS
<1>1. L1Type
  BY EmptyMemGood, EmptyTrieGood DEF Init, L1Type
<1>2. MainType
  BY DEF Init, MainType, MainStates, Idle
<1>3. DiskType
  <2>1. rows \subseteq Prompts /\ IsFiniteSet(rows)
    BY FS_EmptySet DEF Init
  <2>2. final \in [Prompts -> Files] /\ tmp \in [Prompts -> Files]
    BY DEF Init, Files
  <2>3. queue \in Seq(Items) /\ Len(queue) <= MaxQueue
    BY Numbers DEF Init
  <2>4. Free \in WriterStates
    BY DEF Free, WriterStates, Pauses, Working
  <2>5. wr \in [Actors -> WriterStates]
    BY <2>4 DEF Init
  <2> QED BY <2>1, <2>2, <2>3, <2>5 DEF DiskType
<1>4. \A a \in Actors : wr[a].pc = "get"
  BY DEF Init, Free
<1>5. OneWriter /\ NewItem /\ RowsHaveFiles
  BY <1>4 DEF OneWriter, NewItem, RowsHaveFiles, Actors, Init, Idle
<1>6. RowsBounded
  BY Numbers, FS_EmptySet DEF Init, RowsBounded
<1> QED
  BY <1>1, <1>2, <1>3, <1>5, <1>6 DEF CacheIInv

\* Pieces of KV are KV.
LEMMA KVFacts ==
  ASSUME NEW kv \in KVs, NEW n \in Int
  PROVE  /\ n <= Len(kv) => SubSeq(kv, 1, n) \in KVs
         /\ n \in Nat => Cut(kv, n) \in KVs /\ SubSeq(kv, n + 1, Len(kv)) \in KVs
<1>1. Len(kv) \in Nat /\ kv \in Seq(Nat) /\ \A i \in 1 .. Len(kv) : kv[i] \in Nat
  BY LenProperties, ElementOfSeq DEF KVs
<1>2. ASSUME NEW k \in Int, k <= Len(kv) PROVE SubSeq(kv, 1, k) \in KVs
  <2>1. \A i \in 1 .. k : kv[i] \in Nat
    BY <1>1, <1>2
  <2> QED BY <2>1, SubSeqProperties DEF KVs
<1>3. ASSUME n \in Nat PROVE SubSeq(kv, n + 1, Len(kv)) \in KVs
  <2>1. n + 1 \in Int /\ Len(kv) \in Int /\ \A i \in n + 1 .. Len(kv) : kv[i] \in Nat
    BY <1>1, <1>3
  <2> DEFINE k == n + 1
  <2> HIDE DEF k
  <2>2. k \in Int /\ Len(kv) \in Int /\ \A i \in k .. Len(kv) : kv[i] \in Nat
    BY <2>1 DEF k
  <2>3. SubSeq(kv, k, Len(kv)) \in Seq(Nat)
    BY <2>2, SubSeqProperties
  <2> QED BY <2>3 DEF k, KVs
<1>4. ASSUME n \in Nat PROVE Cut(kv, n) \in KVs
  <2> DEFINE k == IF n < Len(kv) THEN n ELSE Len(kv)
  <2>1. k \in Int /\ k <= Len(kv)
    BY <1>1, <1>4
  <2>2. Cut(kv, n) = SubSeq(kv, 1, k)
    BY DEF Cut
  <2> HIDE DEF k
  <2> QED BY <1>2, <2>1, <2>2
<1> QED
  BY <1>2, <1>3, <1>4

\* What is handed out is KV, with a rest.
LEMMA MemHitTyped ==
  ASSUME NEW m, GoodMem(m), NEW tokens \in Prompts, MemFetch(m, tokens).how # "miss"
  PROVE  MemFetch(m, tokens).kv \in KVs /\ MemFetch(m, tokens).rest \in KVs
<1> DEFINE hit == MemFetch(m, tokens)
<1> HIDE DEF hit
<1>1. PICK e \in ToSet(m.entries) :
        \/ hit.how = "exact" /\ e.key = tokens /\ hit.kv = e.kv /\ hit.rest = << >>
        \/ /\ hit.how = "shorter" /\ IsStrictPrefix(e.key, tokens) /\ hit.kv = e.kv
           /\ hit.rest = SubSeq(tokens, Len(e.key) + 1, Len(tokens))
        \/ /\ hit.how = "longer" /\ IsStrictPrefix(tokens, e.key)
           /\ hit.kv = Cut(e.kv, Len(tokens)) /\ hit.rest = << >>
  BY MemFetchFacts DEF hit
<1>2. e.kv \in KVs /\ e.key \in Prompts
  BY GoodMemFields, EntryFields
<1>3. tokens \in KVs /\ Len(tokens) \in Nat /\ Len(e.key) \in Nat /\ << >> \in KVs
  BY <1>2, PromptFacts DEF KVs
<1>4. Cut(e.kv, Len(tokens)) \in KVs /\ SubSeq(tokens, Len(e.key) + 1, Len(tokens)) \in KVs
  <2> DEFINE n == Len(tokens)
             k == Len(e.key)
             kv == e.kv
  <2>1. n \in Nat /\ k \in Nat /\ kv \in KVs /\ n \in Int /\ k \in Int
    BY <1>2, <1>3
  <2> HIDE DEF n, k, kv
  <2>2. Cut(kv, n) \in KVs
    BY <2>1, KVFacts
  <2>3. SubSeq(tokens, k + 1, Len(tokens)) \in KVs
    BY <1>3, <2>1, KVFacts
  <2> QED BY <2>2, <2>3 DEF n, k, kv
<1>5. hit.kv \in KVs /\ hit.rest \in KVs
  BY <1>1, <1>2, <1>3, <1>4
<1> QED
  BY <1>5 DEF hit

LEMMA TrieHitTyped ==
  ASSUME NEW t, GoodTrie(t), NEW tokens \in Prompts, NEW hit \in TrieFetch(t, tokens),
         hit.how # "miss"
  PROVE  hit.kv \in KVs /\ hit.rest \in KVs
<1>1. PICK k \in ToSet(t.lru) :
        \/ hit.how = "exact" /\ k = tokens /\ hit.kv = t.cached[k] /\ hit.rest = << >>
        \/ /\ hit.how = "shorter" /\ IsPrefix(k, tokens) /\ k # tokens
           /\ hit.kv = t.cached[k]
           /\ hit.rest = SubSeq(tokens, Len(k) + 1, Len(tokens))
        \/ /\ hit.how = "longer" /\ IsPrefix(tokens, k)
           /\ tokens \notin ToSet(t.lru) /\ hit.rest = << >>
           /\ hit.kv = SubSeq(t.cached[k], 1, Len(t.cached[k]) - (Len(k) - Len(tokens)))
  BY TrieFetchFacts
<1>2. t.cached[k] \in KVs /\ k \in Prompts
  BY GoodTrieFields
<1> DEFINE kv == t.cached[k]
<1> HIDE DEF kv
<1>3. /\ tokens \in KVs /\ Len(tokens) \in Nat /\ Len(k) \in Nat /\ << >> \in KVs
      /\ kv \in KVs /\ Len(kv) \in Nat
  BY <1>2, PromptFacts, LenProperties DEF KVs, kv
<1>4. SubSeq(tokens, Len(k) + 1, Len(tokens)) \in KVs
  BY <1>3, KVFacts
<1>5. ASSUME IsPrefix(tokens, k)
      PROVE  SubSeq(kv, 1, Len(kv) - (Len(k) - Len(tokens))) \in KVs
  <2> DEFINE n == Len(kv) - (Len(k) - Len(tokens))
  <2>1. n \in Int /\ n <= Len(kv)
    BY <1>3, <1>5 DEF IsPrefix
  <2> HIDE DEF n
  <2>2. SubSeq(kv, 1, n) \in KVs
    BY <1>3, <2>1, KVFacts
  <2> QED BY <2>2 DEF n
<1> QED
  BY <1>1, <1>3, <1>4, <1>5 DEF kv

\* A store in either cache.
LEMMA StoreSound ==
  ASSUME L1Type, NEW tokens \in Prompts, NEW kv \in KVs, L1Store(mem, trie, tokens, kv)
  PROVE  L1Type'
<1>1. CASE kind = "trie"
  BY <1>1, TrieStoreFacts DEF L1Type, L1Store
<1>2. CASE kind # "trie"
  <2>1. PICK limit \in Limits(mem), X \in Expired(mem) :
          mem' = MemStore(mem, tokens, kv, limit, X) /\ trie' = trie
    BY <1>2 DEF L1Store
  <2> QED BY <2>1, MemStoreFacts DEF L1Type
<1> QED
  BY <1>1, <1>2

\* What the main thread knows of its prompt.
LEMMA MainFacts ==
  ASSUME main \in MainStates
  PROVE  /\ main.pc \in {"lookup", "exists", "unrow", "load", "unlink"} =>
              /\ main.prompt \in Prompts
              /\ \A pc \in {"lookup", "exists", "unrow", "load", "unlink"} :
                   [main EXCEPT !.pc = pc] = [pc |-> pc, prompt |-> main.prompt]
         /\ main.pc \in {"idle", "clear", "join", "flush", "closed",
                         "lookup", "exists", "unrow", "load", "unlink"}
         /\ Idle \in MainStates /\ Idle.pc = "idle"
BY DEF MainStates, Idle

\* What a finished request stores is KV.
LEMMA FinishedTyped ==
  ASSUME NEW r \in [prompt : Prompts, kv : KVs, rest : KVs]
  PROVE  /\ Fed(r) \in KVs /\ RawCache(r) \in KVs
         /\ LET kv == Truncated(RawCache(r), Len(r.prompt)) IN kv # None => kv \in KVs
<1>1. r.prompt \in Prompts /\ r.kv \in KVs /\ r.rest \in KVs
  OBVIOUS
<1>2. /\ r.prompt \in Seq(Nat) /\ Len(r.prompt) \in Nat /\ Len(r.prompt) > 0
      /\ Last(r.prompt) \in Nat
  <2>1. r.prompt \in Seq(Nat) /\ Len(r.prompt) \in Nat /\ Len(r.prompt) > 0
    BY <1>1, PromptFacts
  <2> QED BY <2>1, ElementOfSeq DEF Last
<1>3. Fed(r) \in KVs
  BY <1>1, <1>2 DEF Fed, KVs
<1>4. RawCache(r) \in KVs
  <2>1. <<0>> \in KVs
    BY DEF KVs
  <2> QED BY <1>1, <1>3, <2>1, ConcatProperties DEF RawCache, KVs
<1>5. ASSUME Truncated(RawCache(r), Len(r.prompt)) # None
      PROVE  Truncated(RawCache(r), Len(r.prompt)) \in KVs
  <2> DEFINE n == Len(r.prompt) - 1
  <2>1. n \in Nat
    BY <1>2
  <2>2. Truncated(RawCache(r), Len(r.prompt)) = Cut(RawCache(r), n)
    BY <1>5 DEF Truncated
  <2> HIDE DEF n
  <2> QED BY <1>4, <2>1, <2>2, KVFacts
<1> QED
  BY <1>3, <1>4, <1>5

-----------------------------------------------------------------------------
\* Every step keeps the parts: first the caches in memory and the requests.

\* The steps that leave the caches in memory alone.
LEMMA L1Kept ==
  ASSUME \/ DiskLookup \/ DiskExists \/ DiskUnrow \/ DiskDrop \/ DiskUnlink
         \/ \E r \in reqs : Refuse(r) \/ FinishUnstored(r)
         \/ ClearFiles \/ ClearRows \/ Shutdown \/ Joined \/ Flushed
         \/ ThreadEnds \/ (\E a \in Actors : Writer(a)) \/ UNCHANGED vars
  PROVE  mem' = mem /\ trie' = trie
<1>1. CASE DiskLookup \/ DiskExists \/ DiskUnrow \/ DiskDrop \/ DiskUnlink
  BY <1>1 DEF DiskLookup, DiskExists, DiskUnrow, DiskDrop, DiskUnlink
<1>2. CASE \E r \in reqs : Refuse(r) \/ FinishUnstored(r)
  BY <1>2 DEF Refuse, FinishUnstored
<1>3. CASE ClearFiles \/ ClearRows \/ Shutdown \/ Joined \/ Flushed
  BY <1>3 DEF ClearFiles, ClearRows, Shutdown, Joined, Flushed, aside
<1>4. CASE ThreadEnds
  BY <1>4 DEF ThreadEnds, writes, l1vars
<1>5. CASE \E a \in Actors : Writer(a)
  BY <1>5 DEF Writer, Take, Save, Rename, Insert, Evict, Commit, Cleanup, writes, l1vars
<1>6. CASE UNCHANGED vars
  BY <1>6 DEF vars, l1vars
<1> QED
  BY <1>1, <1>2, <1>3, <1>4, <1>5, <1>6

LEMMA L1TypeSound ==
  ASSUME L1Type, MainType, DiskType, [Next]_vars
  PROVE  L1Type'
<1>1. CASE \E p \in Prompts : Arrive(p)
  <2>1. PICK p \in Prompts : Arrive(p)
    BY <1>1
  <2>2. CASE kind = "trie" /\ (\E hit \in TrieFetch(trie, p) : trie' = hit.cache) /\ mem' = mem
    BY <2>2, TrieFetchFacts DEF L1Type
  <2>3. CASE trie' = trie /\ \E X \in Expired(mem) : mem' = MemFetch(Dropped(mem, X), p).cache
    <3>1. PICK X : mem' = MemFetch(Dropped(mem, X), p).cache
      BY <2>3
    <3>2. GoodMem(Dropped(mem, X))
      BY DroppedFacts DEF L1Type
    <3> QED BY <2>3, <3>1, <3>2, MemFetchFacts DEF L1Type
  <2> QED BY <2>1, <2>2, <2>3 DEF Arrive
<1>2. CASE DiskHit
  <2>1. main.prompt \in Prompts
    BY <1>2, MainFacts DEF DiskHit, MainType
  <2>2. final[main.prompt].kv \in KVs
    BY <1>2, <2>1 DEF DiskHit, DiskType, Files
  <2> QED BY <1>2, <2>1, <2>2, StoreSound DEF DiskHit
<1>3. CASE \E r \in reqs : Finish(r)
  <2>1. PICK r \in reqs : Finish(r)
    BY <1>3
  <2> DEFINE kv == Truncated(RawCache(r), Len(r.prompt))
  <2>2. r \in [prompt : Prompts, kv : KVs, rest : KVs] /\ r.prompt \in Prompts
    BY DEF MainType
  <2>3. kv # None => kv \in KVs
    BY <2>2, FinishedTyped
  <2>4. \/ kv = None /\ mem' = mem /\ trie' = trie
        \/ kv # None /\ L1Store(mem, trie, r.prompt, kv)
    BY <2>1 DEF Finish
  <2> HIDE DEF kv
  <2> QED BY <2>2, <2>3, <2>4, StoreSound DEF L1Type
<1>4. CASE ClearL1
  <2>1. [EmptyMem EXCEPT !.limit = mem.limit] = [entries |-> << >>, total |-> 0, limit |-> mem.limit]
    BY DEF EmptyMem
  <2>2. GoodMem([EmptyMem EXCEPT !.limit = mem.limit])
    <3>1. mem.limit \in {EmptyMem.limit, Reduced, Limit}
      BY GoodMemFields DEF L1Type
    <3> QED BY <3>1, EmptyMemGood, LimitChanged
  <2> QED BY <1>4, <2>2, EmptyTrieGood DEF ClearL1, L1Type
<1>5. CASE Started
  BY <1>5, EmptyMemGood, EmptyTrieGood DEF Started, L1Type
<1>6. CASE \/ DiskLookup \/ DiskExists \/ DiskUnrow \/ DiskDrop \/ DiskUnlink
           \/ \E r \in reqs : Refuse(r) \/ FinishUnstored(r)
           \/ ClearFiles \/ ClearRows \/ Shutdown \/ Joined \/ Flushed
           \/ ThreadEnds \/ (\E a \in Actors : Writer(a)) \/ UNCHANGED vars
  <2>1. mem' = mem /\ trie' = trie
    BY <1>6, L1Kept
  <2> QED BY <2>1 DEF L1Type
<1> QED
  BY <1>1, <1>2, <1>3, <1>4, <1>5, <1>6 DEF Next, MainThread, Restart, Crash

\* The request that an answer of the caches in memory makes, and the prompt
\* that a miss takes to the disk.
LEMMA ArriveFacts ==
  ASSUME L1Type, MainType, NEW p \in Prompts, Arrive(p)
  PROVE  \/ main' = [pc |-> "lookup", prompt |-> p] /\ reqs' = reqs
         \/ /\ main' = main
            /\ \E kv \in KVs, rest \in KVs : reqs' = reqs \cup {Request(p, kv, rest)}
<1>1. CASE kind = "trie" /\ \E hit \in TrieFetch(trie, p) : Asked(p, hit)
  <2>1. PICK hit \in TrieFetch(trie, p) : Asked(p, hit)
    BY <1>1
  <2>2. hit.how # "miss" => hit.kv \in KVs /\ hit.rest \in KVs
    BY TrieHitTyped DEF L1Type
  <2> QED BY <2>1, <2>2 DEF Asked, Enqueued
<1>2. CASE \E X \in Expired(mem) : Asked(p, MemFetch(Dropped(mem, X), p))
  <2>1. PICK X : Asked(p, MemFetch(Dropped(mem, X), p))
    BY <1>2
  <2> DEFINE hit == MemFetch(Dropped(mem, X), p)
  <2>2. hit.how # "miss" => hit.kv \in KVs /\ hit.rest \in KVs
    BY DroppedFacts, MemHitTyped DEF L1Type
  <2> HIDE DEF hit
  <2>3. Asked(p, hit)
    BY <2>1 DEF hit
  <2> QED BY <2>2, <2>3 DEF Asked, Enqueued
<1> QED
  BY <1>1, <1>2 DEF Arrive

LEMMA RequestTyped ==
  ASSUME NEW p \in Prompts, NEW kv \in KVs, NEW rest \in KVs
  PROVE  Request(p, kv, rest) \in [prompt : Prompts, kv : KVs, rest : KVs]
BY DEF Request

\* A request that gets nothing from the disk.
LEMMA DiskMissFacts ==
  ASSUME MainType, main.prompt \in Prompts, DiskMiss
  PROVE  /\ reqs' \subseteq [prompt : Prompts, kv : KVs, rest : KVs]
         /\ main' = Idle /\ main' \in MainStates
<1>1. main.prompt \in KVs /\ << >> \in KVs
  BY PromptFacts DEF KVs
<1>2. reqs' = reqs \cup {Request(main.prompt, << >>, main.prompt)} /\ main' = Idle
  BY DEF DiskMiss, Enqueued
<1> QED
  BY <1>1, <1>2, RequestTyped, MainFacts DEF MainType

LEMMA MainTypeSound ==
  ASSUME L1Type, MainType, DiskType, [Next]_vars
  PROVE  MainType'
<1> DEFINE Reqs == [prompt : Prompts, kv : KVs, rest : KVs]
<1>0. reqs \subseteq Reqs /\ main \in MainStates /\ starts \in Nat
  BY DEF MainType
<1>1. CASE \E p \in Prompts : Arrive(p)
  <2>1. PICK p \in Prompts : Arrive(p)
    BY <1>1
  <2>2. starts' = starts
    BY <2>1 DEF Arrive
  <2>3. main' \in MainStates
    BY <1>0, <2>1, ArriveFacts DEF MainStates
  <2>4. reqs' \subseteq Reqs
    BY <1>0, <2>1, ArriveFacts, RequestTyped
  <2> QED BY <1>0, <2>2, <2>3, <2>4 DEF MainType
<1>2. CASE DiskLookup \/ DiskUnrow \/ DiskUnlink
  <2>1. starts' = starts
    BY <1>2 DEF DiskLookup, DiskUnrow, DiskUnlink, mainstep, others
  <2>2. main.pc \in {"lookup", "unrow", "unlink"} /\ main.prompt \in Prompts
    BY <1>0, <1>2, MainFacts DEF DiskLookup, DiskUnrow, DiskUnlink
  <2>3. CASE DiskMiss
    BY <1>0, <2>1, <2>2, <2>3, DiskMissFacts DEF MainType
  <2>4. CASE main' = [main EXCEPT !.pc = "exists"] /\ reqs' = reqs
    <3>1. main' = [pc |-> "exists", prompt |-> main.prompt]
      BY <1>0, <2>2, <2>4, MainFacts
    <3>2. main' \in MainStates
      BY <2>2, <3>1 DEF MainStates
    <3> QED BY <1>0, <2>1, <2>4, <3>2 DEF MainType
  <2> QED BY <1>2, <2>3, <2>4 DEF DiskLookup, DiskUnrow, DiskUnlink
<1>3. CASE DiskExists \/ DiskDrop
  <2>1. starts' = starts /\ reqs' = reqs
    BY <1>3 DEF DiskExists, DiskDrop, mainstep, others
  <2>2. main.pc \in {"exists", "load"} /\ main.prompt \in Prompts
    BY <1>0, <1>3, MainFacts DEF DiskExists, DiskDrop
  <2>3. \E pc \in {"unrow", "load", "unlink"} : main' = [main EXCEPT !.pc = pc]
    BY <1>3 DEF DiskExists, DiskDrop
  <2>4. PICK pc \in {"unrow", "load", "unlink"} : main' = [pc |-> pc, prompt |-> main.prompt]
    BY <1>0, <2>2, <2>3, MainFacts
  <2>5. main' \in MainStates
    BY <2>2, <2>4 DEF MainStates
  <2> QED BY <1>0, <2>1, <2>5 DEF MainType
<1>4. CASE DiskHit
  <2>1. starts' = starts /\ main' = Idle
    BY <1>4 DEF DiskHit, mainstep, others
  <2>2. main.prompt \in Prompts
    BY <1>0, <1>4, MainFacts DEF DiskHit
  <2>3. final[main.prompt].kv \in KVs
    BY <1>4, <2>2 DEF DiskHit, DiskType, Files
  <2>4. <<Last(main.prompt)>> \in KVs
    BY <2>2, PromptFacts, ElementOfSeq DEF Last, KVs
  <2>5. reqs' = reqs \cup {Request(main.prompt, final[main.prompt].kv, <<Last(main.prompt)>>)}
    BY <1>4 DEF DiskHit, Enqueued
  <2>6. reqs' \subseteq Reqs
    BY <1>0, <2>2, <2>3, <2>4, <2>5, RequestTyped
  <2> QED BY <1>0, <2>1, <2>6, MainFacts DEF MainType
<1>5. CASE \E r \in reqs : Refuse(r) \/ Finish(r) \/ FinishUnstored(r)
  <2>1. PICK r \in reqs : Refuse(r) \/ Finish(r) \/ FinishUnstored(r)
    BY <1>5
  <2>2. starts' = starts /\ main' = main
    BY <2>1 DEF Refuse, Finish, FinishUnstored, mainstep, others
  <2>3. WithoutCache(r) \in Reqs
    <3>1. r \in Reqs
      BY <1>0
    <3>2. r.prompt \in KVs /\ << >> \in KVs
      BY <3>1, PromptFacts DEF KVs
    <3>3. \A rr \in Reqs, k \in KVs, l \in KVs : [rr EXCEPT !.kv = k, !.rest = l] \in Reqs
      OBVIOUS
    <3> HIDE DEF Reqs
    <3> QED BY <3>1, <3>2, <3>3 DEF WithoutCache
  <2>4. reqs' \subseteq Reqs
    <3>1. reqs' \subseteq reqs \cup {WithoutCache(r)}
      BY <2>1 DEF Refuse, Finish, FinishUnstored
    <3> HIDE DEF Reqs
    <3> QED BY <1>0, <2>3, <3>1
  <2> QED BY <1>0, <2>2, <2>4 DEF MainType
<1>6. CASE ClearL1 \/ ClearFiles \/ ClearRows \/ Shutdown \/ Joined \/ Flushed
  <2>1. starts' = starts /\ reqs' = reqs
    BY <1>6 DEF ClearL1, ClearFiles, ClearRows, Shutdown, Joined, Flushed, aside, mainstep, others
  <2>2. main' = main \/ main' = Idle \/ \E pc \in {"clear", "join", "flush", "closed"} : main' = [pc |-> pc]
    BY <1>6 DEF ClearL1, ClearFiles, ClearRows, Shutdown, Joined, Flushed
  <2>3. main' \in MainStates
    BY <1>0, <2>2, MainFacts DEF MainStates
  <2> QED BY <1>0, <2>1, <2>3 DEF MainType
<1>7. CASE Started
  <2>1. reqs' = {} /\ main' = Idle /\ starts' = starts + 1
    BY <1>7 DEF Started
  <2> QED BY <1>0, <2>1, MainFacts DEF MainType
<1>8. CASE ThreadEnds \/ (\E a \in Actors : Writer(a)) \/ UNCHANGED vars
  <2>1. starts' = starts /\ main' = main /\ reqs' = reqs
    BY <1>8 DEF ThreadEnds, Writer, Take, Save, Rename, Insert, Evict, Commit, Cleanup,
      writes, vars
  <2> QED BY <2>1 DEF MainType
<1> QED
  BY <1>1, <1>2, <1>3, <1>4, <1>5, <1>6, <1>7, <1>8 DEF Next, MainThread, Restart, Crash

-----------------------------------------------------------------------------
\* The writers.

\* Writer a goes on to pc, with item, about to remove the rows gone.
Turns(a, pc, item, gone) ==
  /\ wr' \in [Actors -> WriterStates]
  /\ wr'[a].pc = pc /\ wr'[a].item = item /\ wr'[a].gone = gone
  /\ \A b \in Actors : b # a => wr'[b] = wr[b]

LEMMA WriterFields ==
  ASSUME NEW w \in WriterStates
  PROVE  /\ w = [pc |-> w.pc, item |-> w.item, gone |-> w.gone]
         /\ w.pc \in Pauses \cup Working /\ w.item \in {None} \cup Items
         /\ w.gone \in SUBSET Prompts
         /\ w.pc \notin Pauses => w.item \in Items /\ w.item.prompt \in Prompts /\ w.item.kv \in KVs
BY DEF WriterStates, Items

LEMMA Replaced ==
  ASSUME wr \in [Actors -> WriterStates], NEW a \in Actors, NEW pc \in Pauses \cup Working,
         NEW item \in {None} \cup Items, NEW gone \in SUBSET Prompts,
         pc \notin Pauses => item \in Items,
         wr' = [wr EXCEPT ![a] = [pc |-> pc, item |-> item, gone |-> gone]]
  PROVE  Turns(a, pc, item, gone)
<1> DEFINE w == [pc |-> pc, item |-> item, gone |-> gone]
<1>1. w \in WriterStates /\ w.pc = pc /\ w.item = item /\ w.gone = gone
  BY DEF WriterStates
<1> HIDE DEF w
<1>2. wr' = [wr EXCEPT ![a] = w]
  BY DEF w
<1>3. wr' \in [Actors -> WriterStates] /\ wr'[a] = w /\ \A b \in Actors : b # a => wr'[b] = wr[b]
  BY <1>1, <1>2
<1> QED
  BY <1>1, <1>3 DEF Turns

\* The assignments that the writers make.
LEMMA Assigned ==
  ASSUME wr \in [Actors -> WriterStates], NEW a \in Actors
  PROVE  /\ wr' = [wr EXCEPT ![a] = Free] => Turns(a, "get", None, {})
         /\ \A item \in Items :
              wr' = [wr EXCEPT ![a] = [Free EXCEPT !.pc = "save", !.item = item]]
                => Turns(a, "save", item, {})
         /\ \A pc \in Pauses \cup Working :
              wr' = [wr EXCEPT ![a].pc = pc] /\ (pc \in Pauses \/ wr[a].pc \notin Pauses)
                => Turns(a, pc, wr[a].item, wr[a].gone)
         /\ \A V \in SUBSET Prompts :
              wr' = [wr EXCEPT ![a].pc = "commit", ![a].gone = V] /\ wr[a].pc \notin Pauses
                => Turns(a, "commit", wr[a].item, V)
<1>0. /\ wr[a] \in WriterStates
      /\ wr[a] = [pc |-> wr[a].pc, item |-> wr[a].item, gone |-> wr[a].gone]
      /\ wr[a].item \in {None} \cup Items /\ wr[a].gone \in SUBSET Prompts
      /\ wr[a].pc \notin Pauses => wr[a].item \in Items
  BY WriterFields
<1>1. ASSUME wr' = [wr EXCEPT ![a] = Free] PROVE Turns(a, "get", None, {})
  BY <1>1, Replaced DEF Free, Pauses
<1>2. ASSUME NEW item \in Items,
             wr' = [wr EXCEPT ![a] = [Free EXCEPT !.pc = "save", !.item = item]]
      PROVE  Turns(a, "save", item, {})
  <2>1. [Free EXCEPT !.pc = "save", !.item = item] = [pc |-> "save", item |-> item, gone |-> {}]
    <3> DEFINE u == [Free EXCEPT !.pc = "save"]
    <3>0. Free = [pc |-> "get", item |-> None, gone |-> {}]
      BY DEF Free
    <3>1. u = [pc |-> "save", item |-> None, gone |-> {}]
      BY <3>0
    <3>2. [Free EXCEPT !.pc = "save", !.item = item] = [u EXCEPT !.item = item]
      OBVIOUS
    <3> HIDE DEF u
    <3> QED BY <3>1, <3>2
  <2> QED BY <1>2, <2>1, Replaced DEF Working
<1>3. ASSUME NEW pc \in Pauses \cup Working, wr' = [wr EXCEPT ![a].pc = pc],
             pc \in Pauses \/ wr[a].pc \notin Pauses
      PROVE  Turns(a, pc, wr[a].item, wr[a].gone)
  <2> DEFINE w == [pc |-> pc, item |-> wr[a].item, gone |-> wr[a].gone]
  <2>1. [wr[a] EXCEPT !.pc = pc] = w
    BY <1>0
  <2>2. wr' = [wr EXCEPT ![a] = w]
    <3> HIDE DEF w
    <3>1. wr' = [wr EXCEPT ![a] = [wr[a] EXCEPT !.pc = pc]]
      BY <1>3
    <3> QED BY <2>1, <3>1
  <2> QED BY <1>0, <1>3, <2>2, Replaced
<1>4. ASSUME NEW V \in SUBSET Prompts,
             wr' = [wr EXCEPT ![a].pc = "commit", ![a].gone = V], wr[a].pc \notin Pauses
      PROVE  Turns(a, "commit", wr[a].item, V)
  <2> DEFINE u == [pc |-> "commit", item |-> wr[a].item, gone |-> wr[a].gone]
             w == [pc |-> "commit", item |-> wr[a].item, gone |-> V]
             f == [wr EXCEPT ![a].pc = "commit"]
  <2>1. wr' = [f EXCEPT ![a].gone = V]
    BY <1>4
  <2>2. f = [wr EXCEPT ![a] = u]
    <3>1. [wr[a] EXCEPT !.pc = "commit"] = u
      BY <1>0
    <3>2. f = [wr EXCEPT ![a] = [wr[a] EXCEPT !.pc = "commit"]]
      OBVIOUS
    <3> HIDE DEF u, f
    <3> QED BY <3>1, <3>2
  <2>3. [u EXCEPT !.gone = V] = w
    OBVIOUS
  <2> HIDE DEF f, u
  <2>4. f[a] = u /\ wr' = [f EXCEPT ![a] = [f[a] EXCEPT !.gone = V]]
    BY <2>1, <2>2
  <2> HIDE DEF w
  <2>5. wr' = [f EXCEPT ![a] = w]
    BY <2>3, <2>4
  <2>6. wr' = [wr EXCEPT ![a] = w]
    BY <2>2, <2>5
  <2> QED BY <1>0, <1>4, <2>6, Replaced DEF w, Working
<1> QED
  BY <1>1, <1>2, <1>3, <1>4

\* What each of their actions does to the writers, with what it finds.
LEMMA WriterSteps ==
  ASSUME DiskType, NEW a \in Actors
  PROVE  /\ Take(a) => /\ wr[a].pc = "get" /\ (a = "main" => main.pc = "flush")
                       /\ queue # << >> /\ Head(queue) \in Items /\ queue' = Tail(queue)
                       /\ \/ UNCHANGED <<wr, tmp>>
                          \/ /\ Head(queue).prompt \notin rows
                             /\ Turns(a, "save", Head(queue), {})
         /\ Save(a) => wr[a].pc = "save" /\ \E pc \in {"rename", "cleanup"} :
                         Turns(a, pc, wr[a].item, wr[a].gone)
         /\ Rename(a) => wr[a].pc = "rename" /\ \E pc \in {"insert", "cleanup"} :
                           Turns(a, pc, wr[a].item, wr[a].gone)
         /\ Insert(a) => /\ wr[a].pc = "insert"
                         /\ \/ /\ final[Item(a)] # None /\ rows' = rows \cup {Item(a)}
                               /\ Turns(a, "evict", wr[a].item, wr[a].gone)
                            \/ /\ rows' = rows
                               /\ Turns(a, "cleanup", wr[a].item, wr[a].gone)
         /\ Evict(a) => /\ wr[a].pc = "evict"
                        /\ \/ Excess = 0 /\ final' = final /\ Turns(a, "get", None, {})
                           \/ \E V \in SUBSET rows :
                                /\ Excess # 0 /\ Cardinality(V) = Excess
                                /\ final' = [p \in Prompts |-> IF p \in V THEN None ELSE final[p]]
                                /\ Turns(a, "commit", wr[a].item, V)
         /\ Commit(a) => /\ wr[a].pc = "commit"
                         /\ \/ rows' = rows \ wr[a].gone /\ Turns(a, "get", None, {})
                            \/ /\ "db" \in faults /\ rows' = rows
                               /\ Turns(a, "cleanup", wr[a].item, wr[a].gone)
         /\ Cleanup(a) => wr[a].pc = "cleanup" /\ Turns(a, "get", None, {})
<1>0. wr \in [Actors -> WriterStates] /\ rows \subseteq Prompts /\ queue \in Seq(Items)
  BY DEF DiskType
<1>1. /\ Done(a) => Turns(a, "get", None, {})
      /\ \A V \in SUBSET rows : wr' = [wr EXCEPT ![a].pc = "commit", ![a].gone = V]
           /\ wr[a].pc \notin Pauses => Turns(a, "commit", wr[a].item, V)
      /\ Failed(a) /\ wr[a].pc \notin Pauses
           => Turns(a, "cleanup", wr[a].item, wr[a].gone)
      /\ \A pc \in {"rename", "insert", "evict"} :
           wr' = [wr EXCEPT ![a].pc = pc] /\ wr[a].pc \notin Pauses
             => Turns(a, pc, wr[a].item, wr[a].gone)
      /\ \A item \in Items :
           wr' = [wr EXCEPT ![a] = [Free EXCEPT !.pc = "save", !.item = item]]
             => Turns(a, "save", item, {})
  BY <1>0, Assigned DEF Done, Failed, Working
<1>2. ASSUME Take(a)
      PROVE  /\ wr[a].pc = "get" /\ (a = "main" => main.pc = "flush")
             /\ queue # << >> /\ Head(queue) \in Items /\ queue' = Tail(queue)
             /\ \/ UNCHANGED <<wr, tmp>>
                \/ /\ Head(queue).prompt \notin rows
                   /\ Turns(a, "save", Head(queue), {})
  <2>1. queue # << >> /\ Head(queue) \in Items
    BY <1>0, <1>2, TailFacts DEF Take
  <2> QED BY <1>1, <1>2, <2>1 DEF Take
<1>3. ASSUME Save(a)
      PROVE  wr[a].pc = "save" /\ \E pc \in {"rename", "cleanup"} :
               Turns(a, pc, wr[a].item, wr[a].gone)
  BY <1>1, <1>3 DEF Save, Pauses
<1>4. ASSUME Rename(a)
      PROVE  wr[a].pc = "rename" /\ \E pc \in {"insert", "cleanup"} :
               Turns(a, pc, wr[a].item, wr[a].gone)
  BY <1>1, <1>4 DEF Rename, Pauses
<1>5. ASSUME Insert(a)
      PROVE  /\ wr[a].pc = "insert"
             /\ \/ /\ final[Item(a)] # None /\ rows' = rows \cup {Item(a)}
                   /\ Turns(a, "evict", wr[a].item, wr[a].gone)
                \/ rows' = rows /\ Turns(a, "cleanup", wr[a].item, wr[a].gone)
  BY <1>1, <1>5 DEF Insert, Pauses
<1>6. ASSUME Evict(a)
      PROVE  /\ wr[a].pc = "evict"
             /\ \/ Excess = 0 /\ final' = final /\ Turns(a, "get", None, {})
                \/ \E V \in SUBSET rows :
                     /\ Excess # 0 /\ Cardinality(V) = Excess
                     /\ final' = [p \in Prompts |-> IF p \in V THEN None ELSE final[p]]
                     /\ Turns(a, "commit", wr[a].item, V)
  BY <1>1, <1>6 DEF Evict, Pauses
<1>7. ASSUME Commit(a)
      PROVE  /\ wr[a].pc = "commit"
             /\ \/ rows' = rows \ wr[a].gone /\ Turns(a, "get", None, {})
                \/ /\ "db" \in faults /\ rows' = rows
                   /\ Turns(a, "cleanup", wr[a].item, wr[a].gone)
  BY <1>1, <1>7 DEF Commit, Pauses
<1>8. ASSUME Cleanup(a) PROVE wr[a].pc = "cleanup" /\ Turns(a, "get", None, {})
  BY <1>1, <1>8 DEF Cleanup
<1> QED
  BY <1>2, <1>3, <1>4, <1>5, <1>6, <1>7, <1>8

\* The steps that leave the disk and its writers alone.
LEMMA DiskKept ==
  ASSUME \/ (\E p \in Prompts : Arrive(p)) \/ DiskLookup \/ DiskExists \/ DiskHit
         \/ \E r \in reqs : Refuse(r) \/ FinishUnstored(r)
         \/ ClearL1 \/ Shutdown \/ Joined \/ Flushed \/ UNCHANGED vars
  PROVE  rows' = rows /\ final' = final /\ tmp' = tmp /\ queue' = queue /\ wr' = wr
         /\ stray' = stray
<1>1. CASE (\E p \in Prompts : Arrive(p)) \/ DiskLookup \/ DiskExists \/ DiskHit
  BY <1>1 DEF Arrive, DiskLookup, DiskExists, DiskHit, mainstep, others, disk
<1>2. CASE \E r \in reqs : Refuse(r) \/ FinishUnstored(r)
  BY <1>2 DEF Refuse, FinishUnstored, mainstep, others, disk
<1>3. CASE ClearL1 \/ Shutdown \/ Joined \/ Flushed
  BY <1>3 DEF ClearL1, Shutdown, Joined, Flushed, aside, mainstep, others, disk
<1>4. CASE UNCHANGED vars
  BY <1>4 DEF vars, disk
<1> QED
  BY <1>1, <1>2, <1>3, <1>4

\* A file that is replaced, in a map of files.
LEMMA FilePut ==
  ASSUME NEW F \in [Prompts -> Files], NEW p \in Prompts, NEW f \in Files
  PROVE  [F EXCEPT ![p] = f] \in [Prompts -> Files]
OBVIOUS

LEMMA FileFacts ==
  /\ None \in Files
  /\ \A kv \in KVs, a \in Actors, whole \in BOOLEAN :
       [kv |-> kv, by |-> a, whole |-> whole] \in Files
BY DEF Files

\* Data that is written under a name leaves there the file that was there.
LEMMA WholeFacts ==
  ASSUME NEW f \in Files, NEW a \in Actors
  PROVE  /\ Whole(f, a) \in Files /\ (Whole(f, a) = None <=> f = None)
         /\ f # None => f.kv \in KVs /\ Whole(f, a).kv = f.kv
<1> DEFINE Written == [kv : KVs, by : Actors, whole : BOOLEAN]
<1>1. Files = {None} \cup Written /\ None \notin Written
  BY PromptCacheAssumption DEF Files, Actors, KVs
<1>2. /\ \A g \in Written : [g EXCEPT !.whole = TRUE] \in Written /\ g.kv \in KVs
      /\ \A g \in Written : [g EXCEPT !.whole = TRUE].kv = g.kv
  OBVIOUS
<1> HIDE DEF Written
<1>3. CASE f = None
  BY <1>1, <1>3 DEF Whole
<1>4. CASE f # None
  <2>1. f \in Written
    BY <1>1, <1>4
  <2>2. Whole(f, a) = f \/ Whole(f, a) = [f EXCEPT !.whole = TRUE]
    BY DEF Whole
  <2>3. Whole(f, a) \in Written /\ f.kv \in KVs /\ Whole(f, a).kv = f.kv
    BY <1>2, <2>1, <2>2
  <2> QED BY <1>1, <1>4, <2>3
<1> QED
  BY <1>3, <1>4

LEMMA DiskTypeSound ==
  ASSUME MainType, DiskType, [Next]_vars
  PROVE  DiskType'
<1>0. /\ rows \subseteq Prompts /\ IsFiniteSet(rows)
      /\ final \in [Prompts -> Files] /\ tmp \in [Prompts -> Files]
      /\ queue \in Seq(Items) /\ Len(queue) <= MaxQueue /\ Len(queue) \in Nat
      /\ wr \in [Actors -> WriterStates]
  <2>1. queue \in Seq(Items)
    BY DEF DiskType
  <2>2. Len(queue) \in Nat
    BY <2>1, LenProperties
  <2> QED BY <2>2 DEF DiskType
<1>1. CASE \/ (\E p \in Prompts : Arrive(p)) \/ DiskLookup \/ DiskExists \/ DiskHit
           \/ \E r \in reqs : Refuse(r) \/ FinishUnstored(r)
           \/ ClearL1 \/ Shutdown \/ Joined \/ Flushed \/ UNCHANGED vars
  BY <1>1, DiskKept DEF DiskType
<1>2. CASE DiskUnrow \/ DiskDrop \/ ClearRows
  <2>1. rows' \subseteq rows /\ final' = final /\ tmp' = tmp /\ queue' = queue /\ wr' = wr
    BY <1>2 DEF DiskUnrow, DiskDrop, ClearRows, mainstep, others, aside
  <2>2. IsFiniteSet(rows')
    BY <1>0, <2>1, FS_Subset
  <2> QED BY <1>0, <2>1, <2>2 DEF DiskType
<1>3. CASE DiskUnlink \/ ClearFiles
  <2>1. rows' = rows /\ tmp' = tmp /\ queue' = queue /\ wr' = wr
    BY <1>3 DEF DiskUnlink, ClearFiles, mainstep, others, aside
  <2>2. final' \in [Prompts -> Files]
    BY <1>0, <1>3, FileFacts DEF DiskUnlink, ClearFiles
  <2> QED BY <1>0, <2>1, <2>2 DEF DiskType
<1>4. CASE \E r \in reqs : Finish(r)
  <2>1. PICK r \in reqs : Finish(r)
    BY <1>4
  <2>2. rows' = rows /\ final' = final /\ tmp' = tmp /\ wr' = wr
    BY <2>1 DEF Finish, disk
  <2>3. r \in [prompt : Prompts, kv : KVs, rest : KVs]
    BY DEF MainType
  <2> DEFINE kv == Truncated(RawCache(r), Len(r.prompt))
             item == [prompt |-> r.prompt, kv |-> kv]
  <2>4. kv # None => item \in Items
    BY <2>3, FinishedTyped DEF Items
  <2>5. queue' = queue \/ (item \in Items /\ queue' = Offered(queue, item))
    BY <2>1, <2>4 DEF Finish
  <2>6. queue' \in Seq(Items) /\ Len(queue') <= MaxQueue
    <3> HIDE DEF item
    <3>1. CASE item \in Items /\ Len(queue) < MaxQueue /\ queue' = Append(queue, item)
      <4>1. queue' \in Seq(Items) /\ Len(queue') = Len(queue) + 1
        BY <1>0, <3>1, AppendProperties
      <4> QED BY <1>0, <3>1, <4>1, Numbers
    <3> QED BY <1>0, <2>5, <3>1 DEF Offered
  <2> QED BY <1>0, <2>2, <2>6 DEF DiskType
<1>5. CASE Started
  <2>1. rows' = rows /\ final' = final /\ queue' = << >>
        /\ tmp' = [p \in Prompts |-> None] /\ wr' = [a \in Actors |-> Free]
    BY <1>5 DEF Started
  <2>2. Free \in WriterStates
    BY DEF Free, WriterStates, Pauses, Working
  <2>3. << >> \in Seq(Items) /\ Len(<< >>) <= MaxQueue
    BY Numbers
  <2> QED BY <1>0, <2>1, <2>2, <2>3, FileFacts DEF DiskType
<1>6. CASE ThreadEnds
  <2>1. rows' = rows /\ final' = final /\ tmp' = tmp /\ queue' = queue
    BY <1>6 DEF ThreadEnds, disk
  <2>2. wr' \in [Actors -> WriterStates]
    <3>1. "thread" \in Actors /\ "ended" \in Pauses
      BY DEF Actors, Pauses
    <3>2. wr' = [wr EXCEPT !["thread"].pc = "ended"]
      BY <1>6 DEF ThreadEnds
    <3> QED BY <1>0, <3>1, <3>2, Assigned DEF Turns
  <2> QED BY <1>0, <2>1, <2>2 DEF DiskType
<1>7. ASSUME NEW a \in Actors, Take(a) PROVE DiskType'
  <2>1. rows' = rows /\ final' = final
    BY <1>7 DEF Take
  <2> DEFINE item == Head(queue)
  <2>2. queue # << >> /\ item \in Items /\ queue' = Tail(queue)
        /\ (UNCHANGED <<wr, tmp>> \/ Turns(a, "save", item, {}))
    BY <1>7, WriterSteps
  <2>3. tmp' = tmp \/ tmp' = [tmp EXCEPT ![item.prompt] = [kv |-> item.kv, by |-> a, whole |-> FALSE]]
    BY <1>7 DEF Take
  <2> HIDE DEF item
  <2>4. tmp' \in [Prompts -> Files]
    <3> DEFINE f == [kv |-> item.kv, by |-> a, whole |-> FALSE]
    <3>1. item.prompt \in Prompts /\ item.kv \in KVs
      BY <2>2 DEF Items
    <3>2. f \in Files
      BY <3>1, FileFacts
    <3> HIDE DEF f
    <3>3. tmp' = tmp \/ tmp' = [tmp EXCEPT ![item.prompt] = f]
      BY <2>3 DEF f
    <3> QED BY <1>0, <3>1, <3>2, <3>3, FilePut
  <2>5. wr' \in [Actors -> WriterStates]
    BY <1>0, <2>2 DEF Turns
  <2>6. queue' \in Seq(Items) /\ Len(queue') <= MaxQueue
    <3>1. Tail(queue) \in Seq(Items) /\ Len(Tail(queue)) = Len(queue) - 1
      BY <1>0, <2>2, HeadTailProperties
    <3> QED BY <1>0, <2>2, <3>1, Numbers
  <2> QED BY <1>0, <2>1, <2>4, <2>5, <2>6 DEF DiskType
<1>8. ASSUME NEW a \in Actors, wr[a].pc \notin Pauses
      PROVE  Item(a) \in Prompts
  BY <1>0, <1>8, WriterFields DEF Item
<1>9. ASSUME NEW a \in Actors, Save(a) \/ Rename(a) \/ Cleanup(a) PROVE DiskType'
  <2>1. rows' = rows /\ queue' = queue
    BY <1>9 DEF Save, Rename, Cleanup
  <2>2. wr' \in [Actors -> WriterStates] /\ wr[a].pc \notin Pauses
    BY <1>9, WriterSteps DEF Turns, Pauses
  <2>3. /\ Item(a) \in Prompts /\ Whole(tmp[Item(a)], a) \in Files
        /\ Whole(final[Item(a)], a) \in Files /\ None \in Files
        /\ tmp[Item(a)] \in Files
    <3>1. Item(a) \in Prompts
      BY <1>8, <2>2
    <3> DEFINE f == tmp[Item(a)]
               g == final[Item(a)]
    <3>2. f \in Files /\ g \in Files
      BY <1>0, <3>1
    <3> HIDE DEF f, g
    <3>3. Whole(f, a) \in Files /\ Whole(g, a) \in Files /\ None \in Files
      BY <3>2, WholeFacts, FileFacts
    <3> QED BY <3>1, <3>2, <3>3 DEF f, g
  <2>4. \E f \in Files, g \in Files :
          /\ final' = final \/ final' = [final EXCEPT ![Item(a)] = f]
          /\ tmp' = tmp \/ tmp' = [tmp EXCEPT ![Item(a)] = g]
    BY <1>9, <2>3 DEF Save, Rename, Cleanup
  <2>5. final' \in [Prompts -> Files] /\ tmp' \in [Prompts -> Files]
    BY <1>0, <2>3, <2>4, FilePut
  <2> QED BY <1>0, <2>1, <2>2, <2>5 DEF DiskType
<1>10. ASSUME NEW a \in Actors, Insert(a) \/ Commit(a) PROVE DiskType'
  <2>1. final' = final /\ tmp' = tmp /\ queue' = queue
    BY <1>10 DEF Insert, Commit
  <2>2. wr' \in [Actors -> WriterStates] /\ wr[a].pc \notin Pauses
    BY <1>10, WriterSteps DEF Turns, Pauses
  <2>3. Item(a) \in Prompts /\ rows' \subseteq rows \cup {Item(a)}
    BY <1>8, <1>10, <2>2 DEF Insert, Commit
  <2>4. IsFiniteSet(rows \cup {Item(a)})
    BY <1>0, FS_AddElement
  <2>5. IsFiniteSet(rows')
    BY <2>3, <2>4, FS_Subset
  <2> QED BY <1>0, <2>1, <2>2, <2>3, <2>5 DEF DiskType
<1>11. ASSUME NEW a \in Actors, Evict(a) PROVE DiskType'
  <2>1. rows' = rows /\ tmp' = tmp /\ queue' = queue
    BY <1>11 DEF Evict
  <2>2. wr' \in [Actors -> WriterStates]
    BY <1>11, WriterSteps DEF Turns
  <2>3. final' \in [Prompts -> Files]
    BY <1>0, <1>11, WriterSteps, FileFacts
  <2> QED BY <1>0, <2>1, <2>2, <2>3 DEF DiskType
<1> QED
  BY <1>1, <1>2, <1>3, <1>4, <1>5, <1>6, <1>7, <1>9, <1>10, <1>11
  DEF Next, MainThread, Restart, Crash, Writer

-----------------------------------------------------------------------------
\* The index and the files.

\* What the main thread does while it is not shutting down.
Serves ==
  \/ \E p \in Prompts : Arrive(p)
  \/ DiskLookup \/ DiskExists \/ DiskUnrow \/ DiskHit \/ DiskDrop \/ DiskUnlink
  \/ \E r \in reqs : Refuse(r) \/ Finish(r) \/ FinishUnstored(r)
  \/ ClearL1 \/ ClearFiles \/ ClearRows \/ Shutdown

\* The same behaviour, and the same faults, until it starts over.
LEMMA Fixed ==
  ASSUME [Next]_vars
  PROVE  faults' = faults /\ (starts' = starts \/ Started)
<1>1. CASE \/ (\E p \in Prompts : Arrive(p)) \/ DiskLookup \/ DiskExists \/ DiskUnrow \/ DiskHit
           \/ DiskDrop \/ DiskUnlink
           \/ \E r \in reqs : Refuse(r) \/ Finish(r) \/ FinishUnstored(r)
  BY <1>1 DEF Arrive, DiskLookup, DiskExists, DiskUnrow, DiskHit, DiskDrop, DiskUnlink,
    Refuse, Finish, FinishUnstored, mainstep, others
<1>2. CASE ClearL1 \/ ClearFiles \/ ClearRows \/ Shutdown \/ Joined \/ Flushed
  BY <1>2 DEF ClearL1, ClearFiles, ClearRows, Shutdown, Joined, Flushed, aside, mainstep, others
<1>3. CASE Started
  BY <1>3 DEF Started
<1>4. CASE ThreadEnds \/ (\E a \in Actors : Writer(a)) \/ UNCHANGED vars
  BY <1>4 DEF ThreadEnds, Writer, Take, Save, Rename, Insert, Evict, Commit, Cleanup,
    writes, l1vars, vars
<1> QED
  BY <1>1, <1>2, <1>3, <1>4 DEF Next, MainThread, Restart, Crash

LEMMA ServesFacts ==
  ASSUME MainType, Serves
  PROVE  /\ wr' = wr /\ rows' \subseteq rows
         /\ main.pc \notin {"join", "flush", "closed"} /\ main'.pc \notin {"flush", "closed"}
         /\ main.pc = "clear" => rows' = {}
         /\ stray \subseteq stray'
         /\ \A p \in rows' : p \in Prompts /\ final \in [Prompts -> Files] =>
              final'[p] = final[p] \/ main'.pc = "clear" \/ p \in stray'
<1>0. main \in MainStates
  BY DEF MainType
<1>1. CASE \E p \in Prompts : Arrive(p)
  BY <1>1 DEF Arrive, Asked, disk
<1>2. CASE DiskLookup \/ DiskExists \/ DiskHit
  <2>1. main.pc \in {"lookup", "exists", "load"}
    BY <1>2 DEF DiskLookup, DiskExists, DiskHit
  <2>2. main'.pc \in {"idle", "exists", "unrow", "load"}
    BY <1>0, <1>2, <2>1, MainFacts DEF DiskLookup, DiskExists, DiskHit, DiskMiss
  <2>3. wr' = wr /\ rows' = rows /\ final' = final /\ stray' = stray
    BY <1>2 DEF DiskLookup, DiskExists, DiskHit, mainstep, others, disk
  <2> QED BY <2>1, <2>2, <2>3
<1>3. CASE DiskUnrow \/ DiskDrop
  <2>1. main.pc \in {"unrow", "load"}
    BY <1>3 DEF DiskUnrow, DiskDrop
  <2>2. main'.pc \in {"idle", "unlink"}
    BY <1>0, <1>3, <2>1, MainFacts DEF DiskUnrow, DiskDrop, DiskMiss
  <2>3. wr' = wr /\ rows' \subseteq rows /\ final' = final /\ stray' = stray
    BY <1>3 DEF DiskUnrow, DiskDrop, mainstep, others
  <2> QED BY <2>1, <2>2, <2>3
<1>4. CASE DiskUnlink
  <2>1. /\ main.pc = "unlink" /\ main'.pc = "idle" /\ wr' = wr /\ rows' = rows
        /\ stray' = stray \cup (rows \cap {main.prompt})
        /\ final' = [final EXCEPT ![main.prompt] = None]
    BY <1>4 DEF DiskUnlink, DiskMiss, Idle, others
  <2> QED BY <2>1
<1>5. CASE \E r \in reqs : Refuse(r) \/ Finish(r) \/ FinishUnstored(r)
  BY <1>5 DEF Refuse, Finish, FinishUnstored, mainstep, others, disk
<1>6. CASE ClearL1 \/ Shutdown
  BY <1>6 DEF ClearL1, Shutdown, aside, mainstep, others, disk
<1>7. CASE ClearFiles
  BY <1>7 DEF ClearFiles, aside
<1>8. CASE ClearRows
  BY <1>8 DEF ClearRows, aside, Idle
<1> QED
  BY <1>1, <1>2, <1>3, <1>4, <1>5, <1>6, <1>7, <1>8 DEF Serves

\* The writers and the end of the thread leave the main thread where it is.
LEMMA WriterAside ==
  ASSUME ThreadEnds \/ \E a \in Actors : Writer(a)
  PROVE  main' = main /\ stray' = stray
BY DEF ThreadEnds, Writer, Take, Save, Rename, Insert, Evict, Commit, Cleanup, writes

LEMMA ThreadEndsFacts ==
  ASSUME DiskType, ThreadEnds
  PROVE  /\ wr["thread"].pc = "get" /\ rows' = rows /\ final' = final
         /\ Turns("thread", "ended", wr["thread"].item, wr["thread"].gone)
<1>1. "thread" \in Actors /\ "ended" \in Pauses /\ wr \in [Actors -> WriterStates]
  BY DEF Actors, Pauses, DiskType
<1>2. wr' = [wr EXCEPT !["thread"].pc = "ended"] /\ wr["thread"].pc = "get"
      /\ rows' = rows /\ final' = final
  BY DEF ThreadEnds, disk
<1> QED
  BY <1>1, <1>2, Assigned

LEMMA StartedFacts ==
  ASSUME Started
  PROVE  /\ \A a \in Actors : wr'[a].pc = "get"
         /\ main'.pc = "idle" /\ rows' = rows
BY DEF Started, Free, Idle

\* A writer at work is alone, when the main thread waits for the other.
LEMMA Alone ==
  ASSUME OneWriter, "overlap" \notin faults, NEW a \in Actors, DiskType,
         Writer(a), NEW b \in Actors, b # a
  PROVE  wr[b].pc \in Pauses
<1>1. \/ wr[a].pc \in Working
      \/ wr[a].pc = "get" /\ (a = "main" => main.pc = "flush")
  BY WriterSteps DEF Writer, Working
<1>2. CASE a = "main" /\ b = "thread"
  BY <1>1, <1>2 DEF OneWriter, Working, Pauses
<1>3. CASE a = "thread" /\ b = "main"
  BY <1>1, <1>3 DEF OneWriter, Working, Pauses
<1> QED
  BY <1>2, <1>3 DEF Actors

LEMMA OneWriterSound ==
  ASSUME MainType, DiskType, OneWriter, [Next]_vars
  PROVE  OneWriter'
<1>0. faults' = faults
  BY Fixed
<1>1. CASE Serves
  BY <1>1, ServesFacts DEF OneWriter
<1>2. CASE Joined
  BY <1>0, <1>2 DEF Joined, OneWriter
<1>3. CASE Flushed
  BY <1>0, <1>3 DEF Flushed, OneWriter
<1>4. CASE Started
  BY <1>4, StartedFacts DEF OneWriter, Actors
<1>5. CASE ThreadEnds
  <2>1. /\ main' = main /\ wr'["thread"].pc = "ended" /\ wr'["main"] = wr["main"]
    BY <1>5, WriterAside, ThreadEndsFacts DEF Turns, Actors
  <2> QED BY <1>0, <2>1 DEF OneWriter
<1>6. ASSUME NEW a \in Actors, Writer(a) PROVE OneWriter'
  <2>1. main' = main
    BY <1>6, WriterAside
  <2>2. /\ \A b \in Actors : b # a => wr'[b] = wr[b]
        /\ \/ wr[a].pc \in Working
           \/ wr[a].pc = "get" /\ (a = "main" => main.pc = "flush")
    BY <1>6, WriterSteps DEF Writer, Working, Turns
  <2>3. CASE a = "main"
    <3>1. main.pc = "flush" /\ wr'["thread"] = wr["thread"]
      BY <2>2, <2>3 DEF OneWriter, Actors, Working
    <3> QED BY <1>0, <2>1, <3>1 DEF OneWriter
  <2>4. CASE a = "thread"
    <3>1. wr["thread"].pc # "ended" /\ wr'["main"] = wr["main"]
      BY <2>2, <2>4 DEF Actors, Working
    <3> QED BY <1>0, <2>1, <3>1 DEF OneWriter
  <2> QED BY <2>3, <2>4 DEF Actors
<1>7. CASE UNCHANGED vars
  BY <1>7 DEF vars, l1vars, OneWriter
<1> QED
  BY <1>1, <1>2, <1>3, <1>4, <1>5, <1>6, <1>7 DEF Next, MainThread, Serves, Restart, Crash

LEMMA NewItemSound ==
  ASSUME MainType, DiskType, OneWriter, NewItem, [Next]_vars
  PROVE  NewItem'
<1> DEFINE Fresh == {"save", "rename", "insert", "cleanup"}
<1> SUFFICES ASSUME faults \cap {"db", "overlap"} = {}, NEW b \in Actors,
                    wr'[b].pc \in Fresh
             PROVE  wr'[b].item.prompt \notin rows'
  BY Fixed DEF NewItem
<1>0. /\ \A a \in Actors : wr[a].pc \in Fresh => wr[a].item.prompt \notin rows
      /\ "overlap" \notin faults /\ "db" \notin faults
  BY DEF NewItem
<1>1. CASE Serves
  BY <1>0, <1>1, ServesFacts
<1>2. CASE Joined \/ Flushed \/ UNCHANGED vars
  <2>1. wr' = wr /\ rows' = rows
    BY <1>2 DEF Joined, Flushed, vars, disk
  <2> QED BY <1>0, <2>1
<1>3. CASE Started
  BY <1>3, StartedFacts
<1>4. CASE ThreadEnds
  <2>1. /\ wr'["thread"].pc = "ended" /\ rows' = rows
        /\ \A a \in Actors : a # "thread" => wr'[a] = wr[a]
    BY <1>4, ThreadEndsFacts DEF Turns
  <2> QED BY <1>0, <2>1
<1>5. ASSUME NEW a \in Actors, Writer(a)
      PROVE  wr'[b].item.prompt \notin rows'
  <2>1. CASE b # a
    <3>1. wr[b].pc \in Pauses
      BY <1>0, <1>5, <2>1, Alone
    <3>2. wr'[b] = wr[b]
      BY <1>5, <2>1, WriterSteps DEF Writer, Turns
    <3> QED BY <3>1, <3>2 DEF Pauses
  <2>2. CASE b = a /\ Take(a)
    <3>1. rows' = rows
      BY <2>2 DEF Take
    <3>2. CASE UNCHANGED <<wr, tmp>>
      BY <1>0, <3>1, <3>2
    <3>3. CASE Head(queue).prompt \notin rows /\ Turns(a, "save", Head(queue), {})
      BY <2>2, <3>1, <3>3 DEF Turns
    <3> QED BY <2>2, <3>2, <3>3, WriterSteps
  <2>3. CASE b = a /\ (Save(a) \/ Rename(a))
    <3>1. rows' = rows /\ wr[a].pc \in Fresh /\ wr'[a].item = wr[a].item
      BY <2>3, WriterSteps DEF Save, Rename, Turns
    <3> QED BY <1>0, <2>3, <3>1
  <2>4. CASE b = a /\ Insert(a)
    <3>1. wr[a].pc = "insert" /\ wr'[a].item = wr[a].item
          /\ (wr'[a].pc = "evict" \/ rows' = rows)
      BY <2>4, WriterSteps DEF Turns
    <3> QED BY <1>0, <2>4, <3>1
  <2>5. CASE b = a /\ (Evict(a) \/ Commit(a) \/ Cleanup(a))
    <3>1. wr'[a].pc \in {"get", "commit"}
      BY <1>0, <2>5, WriterSteps DEF Turns
    <3> QED BY <2>5, <3>1
  <2> QED BY <1>5, <2>1, <2>2, <2>3, <2>4, <2>5 DEF Writer
<1> QED
  BY <1>1, <1>2, <1>3, <1>4, <1>5 DEF Next, MainThread, Serves, Restart, Crash

\* Files change where a writer writes, moves or removes them.
LEMMA WriterFiles ==
  ASSUME DiskType, NEW a \in Actors
  PROVE  /\ Take(a) \/ Save(a) \/ Rename(a) \/ Insert(a) \/ Commit(a) =>
              \A p \in Prompts : final'[p] = None => final[p] = None
         /\ Cleanup(a) => \A p \in Prompts : p # Item(a) => final'[p] = final[p]
         /\ Take(a) \/ Save(a) \/ Rename(a) \/ Evict(a) \/ Cleanup(a) => rows' = rows
<1>1. Take(a) \/ Insert(a) \/ Commit(a) => final' = final
  BY DEF Take, Insert, Commit
<1>2. ASSUME Save(a)
      PROVE  \A p \in Prompts : final'[p] = None => final[p] = None
  <2>1. final' = final \/ final' = [final EXCEPT ![Item(a)] = Whole(@, a)]
    BY <1>2 DEF Save
  <2>2. \A p \in Prompts : Whole(final[p], a) = None => final[p] = None
    BY WholeFacts DEF DiskType
  <2> QED BY <2>1, <2>2 DEF DiskType
<1>3. ASSUME Rename(a)
      PROVE  \A p \in Prompts : final'[p] = None => final[p] = None
  <2>1. \/ final' = final
        \/ tmp[Item(a)] # None /\ final' = [final EXCEPT ![Item(a)] = tmp[Item(a)]]
    BY <1>3 DEF Rename
  <2> QED BY <2>1 DEF DiskType
<1>4. Cleanup(a) => \A p \in Prompts : p # Item(a) => final'[p] = final[p]
  BY DEF Cleanup, DiskType
<1>5. Take(a) \/ Save(a) \/ Rename(a) \/ Evict(a) \/ Cleanup(a) => rows' = rows
  BY DEF Take, Save, Rename, Evict, Cleanup
<1> QED
  BY <1>1, <1>2, <1>3, <1>4, <1>5

LEMMA RowsHaveFilesSound ==
  ASSUME MainType, DiskType, OneWriter, NewItem, RowsHaveFiles, [Next]_vars
  PROVE  RowsHaveFiles'
<1> SUFFICES ASSUME faults \cap {"db", "overlap"} = {}, starts' = 0,
                    NEW p \in rows', final'[p] = None
             PROVE  \/ main'.pc = "clear" \/ p \in stray'
                    \/ \E a \in Actors : wr'[a].pc = "commit" /\ p \in wr'[a].gone
  BY Fixed DEF RowsHaveFiles
<1>0. /\ "overlap" \notin faults /\ "db" \notin faults
      /\ rows \subseteq Prompts /\ final \in [Prompts -> Files] /\ starts \in Nat
  BY DEF DiskType, MainType
<1>1. ~ Started /\ starts = 0
  <2>1. Started => starts' = starts + 1
    BY DEF Started
  <2> QED BY <1>0, <2>1, Fixed
<1>2. ASSUME p \in rows, final[p] = None
      PROVE  \/ main.pc = "clear" \/ p \in stray
             \/ \E a \in Actors : wr[a].pc = "commit" /\ p \in wr[a].gone
  BY <1>1, <1>2 DEF RowsHaveFiles
<1>3. CASE Serves
  <2>1. /\ wr' = wr /\ p \in rows /\ p \in Prompts /\ main.pc # "clear"
        /\ stray \subseteq stray'
        /\ final'[p] = final[p] \/ main'.pc = "clear" \/ p \in stray'
    BY <1>0, <1>3, ServesFacts
  <2> QED BY <1>2, <2>1
<1>4. CASE Joined \/ Flushed \/ UNCHANGED vars
  <2>1. rows' = rows /\ final' = final /\ wr' = wr /\ stray' = stray
    BY <1>4, DiskKept
  <2>2. main' = main \/ main.pc \in {"join", "flush"}
    BY <1>4 DEF Joined, Flushed, vars
  <2> QED BY <1>2, <2>1, <2>2
<1>5. CASE ThreadEnds
  <2>1. /\ wr["thread"].pc = "get" /\ rows' = rows /\ final' = final
        /\ \A a \in Actors : a # "thread" => wr'[a] = wr[a]
    BY <1>5, ThreadEndsFacts DEF Turns
  <2>2. main' = main /\ stray' = stray
    BY <1>5, WriterAside
  <2> QED BY <1>2, <2>1, <2>2
<1>6. ASSUME NEW a \in Actors, Writer(a)
      PROVE  \/ main'.pc = "clear" \/ p \in stray'
             \/ \E b \in Actors : wr'[b].pc = "commit" /\ p \in wr'[b].gone
  <2>1. /\ main' = main /\ stray' = stray
        /\ \A b \in Actors : b # a => wr'[b] = wr[b]
    <3>1. main' = main /\ stray' = stray
      BY <1>6, WriterAside
    <3>2. \A b \in Actors : b # a => wr'[b] = wr[b]
      BY <1>6, WriterSteps DEF Writer, Turns
    <3> QED BY <3>1, <3>2
  <2>2. ASSUME p \in rows, final[p] = None, wr[a].pc # "commit"
        PROVE  \/ main'.pc = "clear" \/ p \in stray'
               \/ \E b \in Actors : wr'[b].pc = "commit" /\ p \in wr'[b].gone
    BY <1>2, <2>1, <2>2
  <2>3. CASE Take(a) \/ Save(a) \/ Rename(a)
    <3>1. p \in rows /\ final[p] = None
      BY <1>0, <2>3, WriterFiles
    <3>2. wr[a].pc # "commit"
      BY <2>3 DEF Take, Save, Rename
    <3> QED BY <2>2, <3>1, <3>2
  <2>4. CASE Insert(a)
    <3>1. final' = final /\ wr[a].pc = "insert"
      BY <2>4 DEF Insert
    <3>2. p \in rows
      BY <2>4, <3>1, WriterSteps
    <3> QED BY <2>2, <3>1, <3>2
  <2>5. CASE Evict(a)
    <3>1. rows' = rows /\ wr[a].pc = "evict" /\ p \in Prompts
      BY <1>0, <2>5, WriterFiles DEF Evict
    <3>2. CASE final' = final
      BY <2>2, <3>1, <3>2
    <3>3. ASSUME NEW V \in SUBSET rows,
                 final' = [q \in Prompts |-> IF q \in V THEN None ELSE final[q]],
                 Turns(a, "commit", wr[a].item, V)
          PROVE  \/ main'.pc = "clear" \/ p \in stray'
                 \/ \E b \in Actors : wr'[b].pc = "commit" /\ p \in wr'[b].gone
      <4>1. CASE p \in V
        BY <3>3, <4>1 DEF Turns
      <4>2. CASE p \notin V
        BY <2>2, <3>1, <3>3, <4>2
      <4> QED BY <4>1, <4>2
    <3> QED BY <2>5, <3>2, <3>3, WriterSteps
  <2>6. CASE Commit(a)
    <3>1. final' = final /\ rows' = rows \ wr[a].gone
      BY <1>0, <2>6, WriterSteps DEF Commit
    <3> QED BY <1>2, <2>1, <3>1
  <2>7. CASE Cleanup(a)
    <3>1. rows' = rows /\ wr[a].pc = "cleanup" /\ p \in Prompts
      BY <1>0, <2>7, WriterFiles DEF Cleanup
    <3>2. p # Item(a)
      BY <3>1 DEF NewItem, Item
    <3>3. final[p] = None
      BY <2>7, <3>1, <3>2, WriterFiles
    <3> QED BY <2>2, <3>1, <3>3
  <2> QED BY <1>6, <2>3, <2>4, <2>5, <2>6, <2>7 DEF Writer
<1> QED
  BY <1>1, <1>3, <1>4, <1>5, <1>6 DEF Next, MainThread, Serves, Restart, Crash

LEMMA RowsBoundedSound ==
  ASSUME MainType, DiskType, RowsBounded, [Next]_vars
  PROVE  RowsBounded'
<1> DEFINE Cut1(a) == wr[a].pc = "commit" /\ Cardinality(rows \ wr[a].gone) <= MaxRows
           Cut2(a) == wr'[a].pc = "commit" /\ Cardinality(rows' \ wr'[a].gone) <= MaxRows
<1> SUFFICES ASSUME "db" \notin faults, starts' = 0
             PROVE  \/ \E a \in Actors : wr'[a].pc = "evict"
                    \/ \E a \in Actors : Cut2(a)
                    \/ Cardinality(rows') <= MaxRows
  BY Fixed DEF RowsBounded
<1>0. IsFiniteSet(rows) /\ starts \in Nat /\ MaxRows \in Nat
  BY Numbers DEF DiskType, MainType
<1>1. ~ Started /\ starts = 0
  <2>1. Started => starts' = starts + 1
    BY DEF Started
  <2> QED BY <1>0, <2>1, Fixed
<1>2. \/ \E a \in Actors : wr[a].pc = "evict"
      \/ \E a \in Actors : Cut1(a)
      \/ Cardinality(rows) <= MaxRows
  BY <1>1 DEF RowsBounded
<1>3. ASSUME NEW gone, rows' \subseteq rows
      PROVE  /\ Cardinality(rows \ gone) <= MaxRows => Cardinality(rows' \ gone) <= MaxRows
             /\ Cardinality(rows) <= MaxRows => Cardinality(rows') <= MaxRows
  <2> DEFINE S == rows \ gone
             T == rows' \ gone
  <2>1. IsFiniteSet(S) /\ T \in SUBSET S /\ rows' \in SUBSET rows
    BY <1>0, <1>3, FS_Difference
  <2> HIDE DEF S, T
  <2>2. /\ IsFiniteSet(T) /\ Cardinality(T) <= Cardinality(S)
        /\ IsFiniteSet(rows') /\ Cardinality(rows') <= Cardinality(rows)
    BY <1>0, <2>1, FS_Subset
  <2>3. /\ Cardinality(T) \in Nat /\ Cardinality(S) \in Nat
        /\ Cardinality(rows) \in Nat /\ Cardinality(rows') \in Nat
    BY <1>0, <2>1, <2>2, FS_CardinalityType
  <2> QED BY <1>0, <2>2, <2>3 DEF S, T
<1>4. ASSUME NEW a \in Actors, wr'[a] = wr[a], rows' \subseteq rows, Cut1(a)
      PROVE  Cut2(a)
  BY <1>3, <1>4
<1>5. CASE Serves \/ Joined \/ Flushed \/ UNCHANGED vars
  <2>1. wr' = wr /\ rows' \subseteq rows
    BY <1>5, ServesFacts, DiskKept
  <2>2. CASE \E a \in Actors : Cut1(a)
    <3>1. PICK a \in Actors : Cut1(a)
      BY <2>2
    <3> HIDE DEF Cut1, Cut2
    <3> QED BY <1>4, <2>1, <3>1
  <2>3. CASE ~ \E a \in Actors : Cut1(a)
    <3> HIDE DEF Cut1, Cut2
    <3> QED BY <1>2, <1>3, <2>1, <2>3
  <2> QED BY <2>2, <2>3
<1>6. CASE ThreadEnds
  <2>1. /\ wr["thread"].pc = "get" /\ rows' = rows
        /\ \A a \in Actors : a # "thread" => wr'[a] = wr[a]
    BY <1>6, ThreadEndsFacts DEF Turns
  <2> QED BY <1>2, <2>1
<1>7. ASSUME NEW a \in Actors, Writer(a)
      PROVE  \/ \E b \in Actors : wr'[b].pc = "evict"
             \/ \E b \in Actors : Cut2(b)
             \/ Cardinality(rows') <= MaxRows
  <2>1. \A b \in Actors : b # a => wr'[b] = wr[b]
    BY <1>7, WriterSteps DEF Writer, Turns
  <2>2. ASSUME rows' \subseteq rows, wr[a].pc \notin {"evict", "commit"}
        PROVE  \/ \E b \in Actors : wr'[b].pc = "evict"
               \/ \E b \in Actors : Cut2(b)
               \/ Cardinality(rows') <= MaxRows
    <3>1. CASE \E b \in Actors : wr[b].pc = "evict"
      BY <2>1, <2>2, <3>1
    <3>2. CASE \E b \in Actors : Cut1(b)
      <4>1. PICK b \in Actors : Cut1(b)
        BY <3>2
      <4>2. wr'[b] = wr[b]
        BY <2>1, <2>2, <4>1
      <4> HIDE DEF Cut1, Cut2
      <4> QED BY <1>4, <2>2, <4>1, <4>2
    <3>3. CASE Cardinality(rows) <= MaxRows
      BY <1>3, <2>2, <3>3
    <3> HIDE DEF Cut1, Cut2
    <3> QED BY <1>2, <3>1, <3>2, <3>3
  <2> HIDE DEF Cut1, Cut2
  <2>3. CASE Take(a) \/ Save(a) \/ Rename(a) \/ Cleanup(a)
    <3>1. rows' \subseteq rows /\ wr[a].pc \notin {"evict", "commit"}
      BY <2>3 DEF Take, Save, Rename, Cleanup
    <3> QED BY <2>2, <3>1
  <2>4. CASE Insert(a)
    <3>1. wr[a].pc = "insert" /\ (rows' = rows \/ wr'[a].pc = "evict")
      BY <2>4, WriterSteps DEF Turns
    <3> QED BY <2>2, <3>1
  <2>5. CASE Evict(a)
    <3>1. rows' = rows
      BY <2>5, WriterFiles
    <3>2. CASE Excess = 0
      <4>1. Cardinality(rows) <= MaxRows
        BY <1>0, <3>2, FS_CardinalityType DEF Excess
      <4> QED BY <3>1, <4>1
    <3>3. ASSUME NEW V \in SUBSET rows, Excess # 0, Cardinality(V) = Excess,
                 Turns(a, "commit", wr[a].item, V)
          PROVE  Cut2(a)
      <4>1. rows \cap V = V
        OBVIOUS
      <4>2. Cardinality(rows \ V) = Cardinality(rows) - Cardinality(V)
        BY <1>0, <4>1, FS_Difference
      <4>3. Cardinality(V) = Cardinality(rows) - MaxRows /\ Cardinality(rows) \in Nat
        BY <1>0, <3>3, FS_CardinalityType DEF Excess
      <4>4. Cardinality(rows \ V) <= MaxRows
        BY <1>0, <4>2, <4>3
      <4> QED BY <3>1, <3>3, <4>4 DEF Turns, Cut2
    <3> QED BY <2>5, <3>2, <3>3, WriterSteps
  <2>6. CASE Commit(a)
    <3>1. wr[a].pc = "commit" /\ rows' = rows \ wr[a].gone
      BY <2>6, WriterSteps
    <3>2. CASE Cut1(a)
      BY <3>1, <3>2 DEF Cut1
    <3>3. CASE \E b \in Actors : b # a /\ wr[b].pc = "evict"
      BY <2>1, <3>3
    <3>4. CASE \E b \in Actors : b # a /\ Cut1(b)
      BY <1>4, <2>1, <3>1, <3>4
    <3>5. CASE Cardinality(rows) <= MaxRows
      BY <1>3, <3>1, <3>5
    <3> QED BY <1>2, <3>1, <3>2, <3>3, <3>4, <3>5
  <2> QED BY <1>7, <2>3, <2>4, <2>5, <2>6 DEF Writer
<1> QED
  BY <1>1, <1>5, <1>6, <1>7 DEF Next, MainThread, Serves, Restart, Crash

LEMMA CacheNextSound == CacheIInv /\ [Next]_vars => CacheIInv'
BY L1TypeSound, MainTypeSound, DiskTypeSound, OneWriterSound, NewItemSound, RowsHaveFilesSound,
  RowsBoundedSound DEF CacheIInv

\* What the caches in memory have counted.
LEMMA L1Counted ==
  ASSUME L1Type
  PROVE  MemoryExact /\ TrieExact
<1>1. MemoryExact
  BY KeysCounted DEF L1Type, GoodMem, MemoryExact
<1>2. TrieExact
  <2>1. /\ trie.lru \in Seq(Prompts) /\ IsInjective(trie.lru) /\ Len(trie.lru) <= MaxEntries
        /\ DOMAIN trie.cached = ToSet(trie.lru) /\ trie.nodes = Leading(ToSet(trie.lru))
    BY DEF L1Type, GoodTrie
  <2>2. Cardinality(ToSet(trie.lru)) = Len(trie.lru)
    BY <2>1, InjectiveLen
  <2> QED BY <2>1, <2>2 DEF TrieExact, Leading
<1> QED
  BY <1>1, <1>2

LEMMA CacheTyped ==
  ASSUME CacheIInv
  PROVE  TypeOK
<1>1. /\ mem.limit \in {Limit, Reduced} /\ mem.total \in Nat
      /\ \A e \in ToSet(mem.entries) : e.key \in Prompts /\ e.kv \in KVs /\ e.cost = Len(e.kv)
  BY GoodMemFields, EntryFields DEF CacheIInv, L1Type
<1>2. ToSet(trie.lru) \subseteq Prompts /\ DOMAIN trie.cached \subseteq Prompts
  BY GoodTrieFields DEF CacheIInv, L1Type
<1>3. \A r \in reqs : r.prompt \in Prompts /\ r.kv \in KVs /\ r.rest \in KVs
  BY DEF CacheIInv, MainType
<1>4. /\ rows \subseteq Prompts
      /\ \A p \in Prompts : final[p] \in Files /\ tmp[p] \in Files
      /\ Len(queue) <= MaxQueue
  BY DEF CacheIInv, DiskType
<1>5. \A q \in ToSet(queue) : q.prompt \in Prompts /\ q.kv \in KVs
  <2>1. queue \in Seq(Items)
    BY DEF CacheIInv, DiskType
  <2>2. \A q \in ToSet(queue) : q \in Items
    BY <2>1, ElementOfSeq DEF ToSet
  <2> QED BY <2>2 DEF Items
<1> QED
  BY <1>1, <1>2, <1>3, <1>4, <1>5 DEF TypeOK

LEMMA RowsCounted ==
  ASSUME CacheIInv
  PROVE  RowsExact
<1>1. ASSUME faults \cap {"db", "overlap"} = {}, starts = 0, NEW p \in rows, final[p] = None
      PROVE  \/ main.pc = "clear" \/ p \in stray
             \/ wr["thread"].pc = "commit" /\ p \in wr["thread"].gone
             \/ wr["main"].pc = "commit" /\ p \in wr["main"].gone
  BY <1>1 DEF CacheIInv, RowsHaveFiles, Actors
<1>2. ASSUME "db" \notin faults, starts = 0, \A a \in Actors : wr[a].pc \in {"get", "ended"}
      PROVE  Cardinality(rows) <= MaxRows
  BY <1>2 DEF CacheIInv, RowsBounded
<1> QED
  BY <1>1, <1>2 DEF RowsExact

\* Neither the caches in memory nor the index on disk lose count of what they
\* hold, with any prompts and any limits (Budget; store, fetch and the evictions
\* of memory_cache.py, prefix_cache.py and disk_cache.py).
THEOREM BudgetKept == Spec => []Budget
<1>1. CacheIInv => Budget
  BY L1Counted, CacheTyped, RowsCounted DEF CacheIInv, Budget
<1> QED
  BY <1>1, CacheInitSound, CacheNextSound, PTL DEF Spec

-----------------------------------------------------------------------------
\* A request continues its own prompt.

\* No prompt is the beginning of another.  A stored prompt that begins another
\* one is matched as if its KV had its last token, which the N - 1 rule of
\* _truncate_cache_to_prompt_length left out.
PrefixFree == \A p, q \in Prompts : IsPrefix(p, q) => p = q

\* The KV that is stored for a prompt, and what is left to feed.
Base(p) == SubSeq(p, 1, Len(p) - 1)

\* What a request holds: nothing, or all of its prompt but the last token.
OwnRequest(r) ==
  \/ r.kv = << >> /\ r.rest = r.prompt
  \/ r.kv = Base(r.prompt) /\ r.rest \in {<< >>, <<Last(r.prompt)>>}
OwnRequests == \A r \in reqs : OwnRequest(r)

\* Every cache holds the KV of the prompt it is under.
OwnL1 ==
  /\ \A e \in ToSet(mem.entries) : e.kv = Base(e.key)
  /\ \A k \in ToSet(trie.lru) : trie.cached[k] = Base(k)

OwnFile(p, f) == f # None => f.kv = Base(p)
OwnDisk ==
  /\ \A p \in Prompts : OwnFile(p, final[p]) /\ OwnFile(p, tmp[p])
  /\ \A q \in ToSet(queue) : q.kv = Base(q.prompt)

OwnIInv == OwnRequests /\ OwnL1 /\ OwnDisk

LEMMA BaseFacts ==
  ASSUME NEW p \in Prompts
  PROVE  /\ Base(p) \in KVs /\ <<Last(p)>> \in KVs
         /\ Base(p) \o <<Last(p)>> = p
<1>1. p \in Seq(Nat) /\ Len(p) \in Nat /\ Len(p) > 0
  BY PromptFacts
<1> DEFINE N == Len(p)
<1>2. SubSeq(p, 1, N) = SubSeq(p, 1, N - 1) \o <<p[N]>>
  <2>1. 1 \in 1 .. Len(p) /\ N \in 1 .. Len(p)
    BY <1>1
  <2> HIDE DEF N
  <2> QED BY <1>1, <2>1, SubSeqRecursiveSecond
<1>3. SubSeq(p, 1, N) = p
  BY <1>1, SubSeqFull
<1>4. SubSeq(p, 1, N - 1) \in KVs
  <2>1. p \in KVs /\ N - 1 \in Int /\ N - 1 <= Len(p)
    BY <1>1 DEF KVs
  <2> DEFINE k == N - 1
  <2> HIDE DEF k
  <2>2. k \in Int /\ k <= Len(p)
    BY <2>1 DEF k
  <2>3. SubSeq(p, 1, k) \in KVs
    BY <2>1, <2>2, KVFacts
  <2> QED BY <2>3 DEF k
<1>5. p[N] \in Nat
  BY <1>1, ElementOfSeq
<1>6. <<p[N]>> \in KVs
  BY <1>5 DEF KVs
<1> QED
  BY <1>2, <1>3, <1>4, <1>6 DEF Base, Last

\* What is fed to such a request completes its prompt.
LEMMA OwnCompletes ==
  ASSUME NEW r \in [prompt : Prompts, kv : KVs, rest : KVs], OwnRequest(r)
  PROVE  r.kv \o Fed(r) = r.prompt
<1>1. r.prompt \in Prompts /\ r.prompt \in Seq(Nat) /\ r.prompt # << >>
  BY PromptFacts
<1>2. CASE r.kv = << >> /\ r.rest = r.prompt
  <2>1. Fed(r) = r.prompt
    BY <1>1, <1>2 DEF Fed
  <2> QED BY <1>1, <1>2, <2>1, ConcatEmptySeq
<1>3. CASE r.kv = Base(r.prompt) /\ r.rest \in {<< >>, <<Last(r.prompt)>>}
  <2>1. Fed(r) = <<Last(r.prompt)>>
    BY <1>3 DEF Fed
  <2> QED BY <1>1, <1>3, <2>1, BaseFacts
<1> QED
  BY <1>2, <1>3 DEF OwnRequest

\* So what it leaves to be stored is the KV of its prompt.
LEMMA OwnFinished ==
  ASSUME NEW r \in [prompt : Prompts, kv : KVs, rest : KVs], OwnRequest(r),
         Truncated(RawCache(r), Len(r.prompt)) # None
  PROVE  Truncated(RawCache(r), Len(r.prompt)) = Base(r.prompt)
<1> DEFINE p == r.prompt
           n == Len(p) - 1
<1>1. p \in Prompts /\ p \in Seq(Nat) /\ Len(p) \in Nat /\ Len(p) > 0
  BY PromptFacts
<1>2. RawCache(r) = p \o <<0>>
  BY OwnCompletes DEF RawCache
<1>3. n > 0 /\ Truncated(RawCache(r), Len(p)) = Cut(p \o <<0>>, n)
  BY <1>1, <1>2 DEF Truncated
<1>4. <<0>> \in Seq(Nat) /\ Len(<<0>>) = 1
  OBVIOUS
<1>5. Len(p \o <<0>>) = Len(p) + 1
  BY <1>1, <1>4, ConcatProperties
<1>6. 1 \in 1 .. Len(p) /\ n \in 1 .. Len(p) /\ n < Len(p \o <<0>>)
  BY <1>1, <1>3, <1>5
<1>7. Cut(p \o <<0>>, n) = SubSeq(p \o <<0>>, 1, n)
  BY <1>6 DEF Cut
<1>8. SubSeq(p \o <<0>>, 1, n) = SubSeq(p, 1, n)
  <2> HIDE DEF n
  <2> QED BY <1>1, <1>4, <1>6, SubSeqOfConcat1
<1> QED
  BY <1>3, <1>7, <1>8 DEF Base

\* With no prompt the beginning of another, a hit is an exact one.
LEMMA OwnMemHit ==
  ASSUME PrefixFree, NEW m, GoodMem(m), \A e \in ToSet(m.entries) : e.kv = Base(e.key),
         NEW p \in Prompts, MemFetch(m, p).how # "miss"
  PROVE  MemFetch(m, p).kv = Base(p) /\ MemFetch(m, p).rest = << >>
<1> DEFINE hit == MemFetch(m, p)
<1> HIDE DEF hit
<1>1. PICK e \in ToSet(m.entries) :
        \/ hit.how = "exact" /\ e.key = p /\ hit.kv = e.kv /\ hit.rest = << >>
        \/ /\ hit.how = "shorter" /\ IsStrictPrefix(e.key, p) /\ hit.kv = e.kv
           /\ hit.rest = SubSeq(p, Len(e.key) + 1, Len(p))
        \/ /\ hit.how = "longer" /\ IsStrictPrefix(p, e.key)
           /\ hit.kv = Cut(e.kv, Len(p)) /\ hit.rest = << >>
  BY MemFetchFacts DEF hit
<1>2. e.key \in Prompts
  BY GoodMemFields, EntryFields
<1>3. ~ IsStrictPrefix(e.key, p) /\ ~ IsStrictPrefix(p, e.key)
  BY <1>2 DEF PrefixFree, IsStrictPrefix
<1>4. hit.kv = Base(p) /\ hit.rest = << >>
  BY <1>1, <1>3
<1> QED
  BY <1>4 DEF hit

LEMMA OwnTrieHit ==
  ASSUME PrefixFree, NEW t, GoodTrie(t), \A k \in ToSet(t.lru) : t.cached[k] = Base(k),
         NEW p \in Prompts, NEW hit \in TrieFetch(t, p), hit.how # "miss"
  PROVE  hit.kv = Base(p) /\ hit.rest = << >>
<1>1. PICK k \in ToSet(t.lru) :
        \/ hit.how = "exact" /\ k = p /\ hit.kv = t.cached[k] /\ hit.rest = << >>
        \/ hit.how = "shorter" /\ IsPrefix(k, p) /\ k # p
        \/ hit.how = "longer" /\ IsPrefix(p, k) /\ p \notin ToSet(t.lru)
  BY TrieFetchFacts
<1>2. k \in Prompts
  BY GoodTrieFields
<1> QED
  BY <1>1, <1>2 DEF PrefixFree

\* What a store adds to the cache is the KV of the prompt it is under.
LEMMA OwnStored ==
  ASSUME L1Type, OwnL1, NEW p \in Prompts, L1Store(mem, trie, p, Base(p))
  PROVE  OwnL1'
<1> DEFINE kv == Base(p)
<1>0. kv \in KVs
  BY BaseFacts
<1>1. CASE kind = "trie"
  <2>1. trie' = TrieStore(trie, p, kv) /\ mem' = mem
    BY <1>1 DEF L1Store
  <2> HIDE DEF kv
  <2>2. \A k \in ToSet(trie'.lru) :
          \/ k \in ToSet(trie.lru) /\ trie'.cached[k] = trie.cached[k]
          \/ k = p /\ trie'.cached[k] = kv
    BY <1>0, <2>1, TrieStoreFacts DEF L1Type
  <2> QED BY <2>1, <2>2 DEF OwnL1, kv
<1>2. CASE kind # "trie"
  <2>1. PICK limit \in Limits(mem), X \in Expired(mem) :
          mem' = MemStore(mem, p, kv, limit, X) /\ trie' = trie
    BY <1>2 DEF L1Store
  <2> HIDE DEF kv
  <2>2. \A e \in ToSet(mem'.entries) :
          e \in ToSet(mem.entries) \/ (e.key = p /\ e.kv = kv)
    BY <1>0, <2>1, MemStoreFacts DEF L1Type
  <2> QED BY <2>1, <2>2 DEF OwnL1, kv
<1> QED
  BY <1>1, <1>2

LEMMA OwnL1Sound ==
  ASSUME CacheIInv, OwnIInv, [Next]_vars
  PROVE  OwnL1'
<1>0. L1Type /\ MainType /\ DiskType /\ OwnL1 /\ OwnDisk /\ OwnRequests
  BY DEF CacheIInv, OwnIInv
<1>1. CASE \E p \in Prompts : Arrive(p)
  <2>1. PICK p \in Prompts : Arrive(p)
    BY <1>1
  <2>2. CASE mem' = mem /\ \E hit \in TrieFetch(trie, p) : trie' = hit.cache
    <3>1. ToSet(trie'.lru) = ToSet(trie.lru) /\ trie'.cached = trie.cached
      BY <1>0, <2>2, TrieFetchFacts DEF L1Type
    <3> QED BY <1>0, <2>2, <3>1 DEF OwnL1
  <2>3. CASE trie' = trie /\ \E X \in Expired(mem) : mem' = MemFetch(Dropped(mem, X), p).cache
    <3>1. PICK X : mem' = MemFetch(Dropped(mem, X), p).cache
      BY <2>3
    <3> DEFINE m == Dropped(mem, X)
               hit == MemFetch(m, p)
    <3>2. GoodMem(m) /\ ToSet(m.entries) \subseteq ToSet(mem.entries)
      BY <1>0, DroppedFacts DEF L1Type
    <3> HIDE DEF m
    <3>3. ToSet(hit.cache.entries) = ToSet(m.entries)
      BY <3>2, MemFetchFacts
    <3>4. mem' = hit.cache
      BY <3>1 DEF m
    <3> HIDE DEF hit
    <3>5. ToSet(mem'.entries) \subseteq ToSet(mem.entries)
      BY <3>2, <3>3, <3>4
    <3> QED BY <1>0, <2>3, <3>5 DEF OwnL1
  <2> QED BY <2>1, <2>2, <2>3 DEF Arrive
<1>2. CASE DiskHit
  <2>1. main.prompt \in Prompts
    BY <1>0, <1>2, MainFacts DEF DiskHit, MainType
  <2>2. final[main.prompt].kv = Base(main.prompt)
    BY <1>0, <1>2, <2>1 DEF DiskHit, OwnDisk, OwnFile
  <2> QED BY <1>0, <1>2, <2>1, <2>2, OwnStored DEF DiskHit
<1>3. CASE \E r \in reqs : Finish(r)
  <2>1. PICK r \in reqs : Finish(r)
    BY <1>3
  <2> DEFINE kv == Truncated(RawCache(r), Len(r.prompt))
  <2>2. r \in [prompt : Prompts, kv : KVs, rest : KVs] /\ r.prompt \in Prompts /\ OwnRequest(r)
    BY <1>0 DEF MainType, OwnRequests
  <2>3. kv # None => kv = Base(r.prompt)
    BY <2>2, OwnFinished
  <2>4. \/ kv = None /\ mem' = mem /\ trie' = trie
        \/ kv # None /\ L1Store(mem, trie, r.prompt, kv)
    BY <2>1 DEF Finish
  <2> HIDE DEF kv
  <2>5. CASE mem' = mem /\ trie' = trie
    BY <1>0, <2>5 DEF OwnL1
  <2> QED BY <1>0, <2>2, <2>3, <2>4, <2>5, OwnStored
<1>4. CASE ClearL1 \/ Started
  <2>1. mem'.entries = << >> /\ trie'.lru = << >>
    BY <1>4 DEF ClearL1, Started, EmptyMem, EmptyTrie
  <2>2. ToSet(<< >>) = {}
    BY DEF ToSet
  <2> QED BY <2>1, <2>2 DEF OwnL1
<1>5. CASE \/ DiskLookup \/ DiskExists \/ DiskUnrow \/ DiskDrop \/ DiskUnlink
           \/ \E r \in reqs : Refuse(r) \/ FinishUnstored(r)
           \/ ClearFiles \/ ClearRows \/ Shutdown \/ Joined \/ Flushed
           \/ ThreadEnds \/ (\E a \in Actors : Writer(a)) \/ UNCHANGED vars
  <2>1. mem' = mem /\ trie' = trie
    BY <1>5, L1Kept
  <2> QED BY <1>0, <2>1 DEF OwnL1
<1> QED
  BY <1>1, <1>2, <1>3, <1>4, <1>5 DEF Next, MainThread, Restart, Crash

LEMMA OwnRequestMade ==
  ASSUME NEW p \in Prompts
  PROVE  /\ OwnRequest(Request(p, << >>, p))
         /\ \A rest \in {<< >>, <<Last(p)>>} : OwnRequest(Request(p, Base(p), rest))
BY DEF OwnRequest, Request

\* What the caches in memory hand out.
LEMMA OwnArrives ==
  ASSUME PrefixFree, CacheIInv, OwnIInv, NEW p \in Prompts, Arrive(p)
  PROVE  reqs' = reqs \/ reqs' = reqs \cup {Request(p, Base(p), << >>)}
<1>0. L1Type /\ OwnL1
  BY DEF CacheIInv, OwnIInv
<1>1. CASE kind = "trie" /\ \E hit \in TrieFetch(trie, p) : Asked(p, hit)
  <2>1. PICK hit \in TrieFetch(trie, p) : Asked(p, hit)
    BY <1>1
  <2>2. hit.how # "miss" => hit.kv = Base(p) /\ hit.rest = << >>
    BY <1>0, OwnTrieHit DEF L1Type, OwnL1
  <2> QED BY <2>1, <2>2 DEF Asked, Enqueued
<1>2. CASE \E X \in Expired(mem) : Asked(p, MemFetch(Dropped(mem, X), p))
  <2>1. PICK X : Asked(p, MemFetch(Dropped(mem, X), p))
    BY <1>2
  <2> DEFINE m == Dropped(mem, X)
             hit == MemFetch(m, p)
  <2>2. GoodMem(m) /\ ToSet(m.entries) \subseteq ToSet(mem.entries)
    BY <1>0, DroppedFacts DEF L1Type
  <2>3. \A e \in ToSet(m.entries) : e.kv = Base(e.key)
    BY <1>0, <2>2 DEF OwnL1
  <2> HIDE DEF m
  <2>4. hit.how # "miss" => hit.kv = Base(p) /\ hit.rest = << >>
    BY <2>2, <2>3, OwnMemHit
  <2> HIDE DEF hit
  <2>5. Asked(p, hit)
    BY <2>1 DEF hit, m
  <2> QED BY <2>4, <2>5 DEF Asked, Enqueued
<1> QED
  BY <1>1, <1>2 DEF Arrive

LEMMA OwnRequestsSound ==
  ASSUME PrefixFree, CacheIInv, OwnIInv, [Next]_vars
  PROVE  OwnRequests'
<1>0. /\ MainType /\ OwnDisk /\ OwnRequests
      /\ reqs \subseteq [prompt : Prompts, kv : KVs, rest : KVs]
  BY DEF CacheIInv, OwnIInv, MainType
<1>1. CASE \E p \in Prompts : Arrive(p)
  <2>1. PICK p \in Prompts : Arrive(p)
    BY <1>1
  <2>2. \A r \in reqs' : r \in reqs \/ r = Request(p, Base(p), << >>)
    BY <2>1, OwnArrives
  <2> QED BY <1>0, <2>2, OwnRequestMade DEF OwnRequests
<1>2. CASE DiskLookup \/ DiskUnrow \/ DiskUnlink
  <2>1. main.prompt \in Prompts
    BY <1>0, <1>2, MainFacts DEF DiskLookup, DiskUnrow, DiskUnlink, MainType
  <2>2. \A r \in reqs' : r \in reqs \/ r = Request(main.prompt, << >>, main.prompt)
    BY <1>2 DEF DiskLookup, DiskUnrow, DiskUnlink, DiskMiss, Enqueued
  <2> QED BY <1>0, <2>1, <2>2, OwnRequestMade DEF OwnRequests
<1>3. CASE DiskHit
  <2>1. main.prompt \in Prompts
    BY <1>0, <1>3, MainFacts DEF DiskHit, MainType
  <2>2. final[main.prompt].kv = Base(main.prompt)
    BY <1>0, <1>3, <2>1 DEF DiskHit, OwnDisk, OwnFile
  <2>3. reqs' = reqs \cup {Request(main.prompt, Base(main.prompt), <<Last(main.prompt)>>)}
    BY <1>3, <2>2 DEF DiskHit, Enqueued
  <2>4. \A r \in reqs' :
          r \in reqs \/ r = Request(main.prompt, Base(main.prompt), <<Last(main.prompt)>>)
    BY <2>3
  <2> QED BY <1>0, <2>1, <2>4, OwnRequestMade DEF OwnRequests
<1>4. CASE \E r \in reqs : Refuse(r) \/ Finish(r) \/ FinishUnstored(r)
  <2>1. PICK r \in reqs : Refuse(r) \/ Finish(r) \/ FinishUnstored(r)
    BY <1>4
  <2>2. \A q \in reqs' : q \in reqs \/ q = WithoutCache(r)
    BY <2>1 DEF Refuse, Finish, FinishUnstored
  <2>3. OwnRequest(WithoutCache(r))
    <3>1. r \in [prompt : Prompts, kv : KVs, rest : KVs]
      BY <1>0
    <3>2. \A q \in [prompt : Prompts, kv : KVs, rest : KVs] : \A k, l :
            LET w == [q EXCEPT !.kv = k, !.rest = l]
            IN  w.kv = k /\ w.rest = l /\ w.prompt = q.prompt
      OBVIOUS
    <3> QED BY <3>1, <3>2 DEF OwnRequest, WithoutCache
  <2> QED BY <1>0, <2>2, <2>3 DEF OwnRequests
<1>5. CASE Started
  <2>1. reqs' = {}
    BY <1>5 DEF Started
  <2> QED BY <2>1 DEF OwnRequests
<1>6. CASE DiskExists \/ DiskDrop \/ ClearL1 \/ ClearFiles \/ ClearRows \/ Shutdown \/ Joined
           \/ Flushed
  <2>1. reqs' = reqs
    BY <1>6 DEF DiskExists, DiskDrop, ClearL1, ClearFiles, ClearRows, Shutdown, Joined, Flushed,
      aside
  <2> QED BY <1>0, <2>1 DEF OwnRequests
<1>7. CASE ThreadEnds \/ (\E a \in Actors : Writer(a)) \/ UNCHANGED vars
  <2>1. reqs' = reqs
    BY <1>7 DEF ThreadEnds, Writer, Take, Save, Rename, Insert, Evict, Commit, Cleanup,
      writes, vars
  <2> QED BY <1>0, <2>1 DEF OwnRequests
<1> QED
  BY <1>1, <1>2, <1>3, <1>4, <1>5, <1>6, <1>7 DEF Next, MainThread, Restart, Crash

\* A file that is put in the place of another.
LEMMA OwnPut ==
  ASSUME NEW F \in [Prompts -> Files], NEW G, NEW p \in Prompts, NEW f,
         \A q \in Prompts : OwnFile(q, F[q]), OwnFile(p, f), G = [F EXCEPT ![p] = f]
  PROVE  \A q \in Prompts : OwnFile(q, G[q])
OBVIOUS

LEMMA OwnDiskSound ==
  ASSUME CacheIInv, OwnIInv, [Next]_vars
  PROVE  OwnDisk'
<1>0. /\ MainType /\ DiskType /\ OwnDisk /\ OwnRequests
      /\ final \in [Prompts -> Files] /\ tmp \in [Prompts -> Files]
      /\ queue \in Seq(Items)
      /\ \A p \in Prompts : OwnFile(p, final[p])
      /\ \A p \in Prompts : OwnFile(p, tmp[p])
      /\ \A q \in ToSet(queue) : q.kv = Base(q.prompt)
      /\ \A p \in Prompts : OwnFile(p, None)
  BY DEF CacheIInv, OwnIInv, DiskType, OwnDisk, OwnFile
<1>1. CASE \/ (\E p \in Prompts : Arrive(p)) \/ DiskLookup \/ DiskExists \/ DiskHit
           \/ \E r \in reqs : Refuse(r) \/ FinishUnstored(r)
           \/ ClearL1 \/ Shutdown \/ Joined \/ Flushed \/ UNCHANGED vars
  <2>1. final' = final /\ tmp' = tmp /\ queue' = queue
    BY <1>1, DiskKept
  <2> QED BY <1>0, <2>1 DEF OwnDisk
<1>2. CASE DiskUnrow \/ DiskDrop \/ ClearRows \/ ThreadEnds
           \/ \E a \in Actors : Insert(a) \/ Commit(a)
  <2>1. final' = final /\ tmp' = tmp /\ queue' = queue
    BY <1>2 DEF DiskUnrow, DiskDrop, ClearRows, ThreadEnds, Insert, Commit, mainstep, others,
      aside, disk
  <2> QED BY <1>0, <2>1 DEF OwnDisk
<1>3. CASE DiskUnlink \/ ClearFiles \/ \E a \in Actors : Evict(a)
  <2>1. tmp' = tmp /\ queue' = queue
    BY <1>3 DEF DiskUnlink, ClearFiles, Evict, mainstep, others, aside
  <2>2. \A p \in Prompts : final'[p] = final[p] \/ final'[p] = None
    BY <1>0, <1>3 DEF DiskUnlink, ClearFiles, Evict
  <2> QED BY <1>0, <2>1, <2>2 DEF OwnDisk
<1>4. CASE \E r \in reqs : Finish(r)
  <2>1. PICK r \in reqs : Finish(r)
    BY <1>4
  <2>2. final' = final /\ tmp' = tmp
    BY <2>1 DEF Finish, disk
  <2>3. r \in [prompt : Prompts, kv : KVs, rest : KVs] /\ OwnRequest(r)
    BY <1>0 DEF MainType, OwnRequests
  <2> DEFINE kv == Truncated(RawCache(r), Len(r.prompt))
             item == [prompt |-> r.prompt, kv |-> kv]
  <2>4. kv # None => item \in Items /\ item.kv = Base(item.prompt)
    BY <2>3, FinishedTyped, OwnFinished DEF Items
  <2>5. queue' = queue \/ (kv # None /\ queue' = Append(queue, item))
    BY <2>1 DEF Finish, Offered
  <2>6. \A q \in ToSet(queue') : q \in ToSet(queue) \/ (kv # None /\ q = item)
    <3> HIDE DEF item, kv
    <3>1. kv # None => ToSet(Append(queue, item)) = ToSet(queue) \cup {item}
      BY <1>0, <2>4, AppendFacts
    <3> QED BY <2>5, <3>1
  <2> HIDE DEF item, kv
  <2> QED BY <1>0, <2>2, <2>4, <2>6 DEF OwnDisk
<1>5. CASE Started
  <2>1. final' = final /\ queue' = << >> /\ tmp' = [p \in Prompts |-> None]
    BY <1>5 DEF Started
  <2>2. ToSet(<< >>) = {}
    BY DEF ToSet
  <2> QED BY <1>0, <2>1, <2>2 DEF OwnDisk
<1>6. ASSUME NEW a \in Actors, Take(a) PROVE OwnDisk'
  <2> DEFINE item == Head(queue)
             f == [kv |-> item.kv, by |-> a, whole |-> FALSE]
  <2>1. /\ final' = final /\ queue # << >> /\ queue' = Tail(queue)
        /\ tmp' = tmp \/ tmp' = [tmp EXCEPT ![item.prompt] = f]
    BY <1>6 DEF Take
  <2>2. /\ item \in Items /\ item \in ToSet(queue)
        /\ ToSet(queue') \subseteq ToSet(queue)
    BY <1>0, <2>1, TailFacts
  <2>3. item.prompt \in Prompts /\ f.kv = item.kv /\ item.kv = Base(item.prompt)
    BY <1>0, <2>2 DEF Items
  <2> HIDE DEF f, item
  <2>4. OwnFile(item.prompt, f)
    BY <2>3 DEF OwnFile
  <2>5. \A p \in Prompts : OwnFile(p, tmp'[p])
    BY <1>0, <2>1, <2>3, <2>4, OwnPut
  <2> QED BY <1>0, <2>1, <2>2, <2>5 DEF OwnDisk
<1>7. ASSUME NEW a \in Actors, Save(a) \/ Rename(a) \/ Cleanup(a) PROVE OwnDisk'
  <2> DEFINE p == Item(a)
  <2>1. queue' = queue
    BY <1>7 DEF Save, Rename, Cleanup
  <2>2. p \in Prompts
    <3>1. wr[a] \in WriterStates /\ wr[a].pc \notin Pauses
      BY <1>0, <1>7 DEF DiskType, Save, Rename, Cleanup, Pauses
    <3> QED BY <3>1, WriterFields DEF Item
  <2>3. \A f \in Files : OwnFile(p, f) => OwnFile(p, Whole(f, a))
    BY WholeFacts DEF OwnFile
  <2>4. /\ OwnFile(p, Whole(tmp[p], a)) /\ OwnFile(p, Whole(final[p], a))
        /\ OwnFile(p, tmp[p]) /\ OwnFile(p, None)
    BY <1>0, <2>2, <2>3
  <2>5. \E f, g : /\ OwnFile(p, f) /\ OwnFile(p, g)
                  /\ final' = final \/ final' = [final EXCEPT ![p] = f]
                  /\ tmp' = tmp \/ tmp' = [tmp EXCEPT ![p] = g]
    BY <1>7, <2>4 DEF Save, Rename, Cleanup
  <2> HIDE DEF p
  <2>6. /\ \A q \in Prompts : OwnFile(q, final'[q])
        /\ \A q \in Prompts : OwnFile(q, tmp'[q])
    BY <1>0, <2>2, <2>5, OwnPut
  <2> QED BY <1>0, <2>1, <2>6 DEF OwnDisk
<1> QED
  BY <1>1, <1>2, <1>3, <1>4, <1>5, <1>6, <1>7 DEF Next, MainThread, Restart, Crash, Writer

LEMMA OwnInitSound == Init => OwnIInv
<1>1. ToSet(<< >>) = {}
  BY DEF ToSet
<1> QED
  BY <1>1 DEF Init, EmptyMem, EmptyTrie, OwnIInv, OwnRequests, OwnL1, OwnDisk, OwnFile

LEMMA OwnNextSound ==
  ASSUME PrefixFree
  PROVE  CacheIInv /\ OwnIInv /\ [Next]_vars => OwnIInv'
BY OwnL1Sound, OwnRequestsSound, OwnDiskSound DEF OwnIInv

\* A request continues the KV of its own prompt, whichever cache it came from
\* and whatever happened meanwhile, when no prompt is the beginning of another
\* (OwnPrompt; add_request, _schedule_waiting and _cleanup_finished).
THEOREM OwnPromptKept ==
  ASSUME PrefixFree
  PROVE  Spec => []OwnPrompt
<1>1. CacheIInv /\ OwnIInv => OwnPrompt
  BY OwnCompletes DEF CacheIInv, MainType, OwnIInv, OwnRequests, OwnPrompt
<1>2. CacheIInv /\ OwnIInv /\ [Next]_vars => OwnIInv'
  BY OwnNextSound
<1> QED
  BY <1>1, <1>2, CacheInitSound, CacheNextSound, OwnInitSound, PTL DEF Spec
=============================================================================
