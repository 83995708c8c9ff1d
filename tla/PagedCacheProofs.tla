--------------------------- MODULE PagedCacheProofs ---------------------------
(***************************************************************************)
(* Every property of PagedCache holds for any number of requests, any      *)
(* prompts and any pool size.  The properties support each other: blocks   *)
(* are freed in time because the counts are exact, the counts stay exact   *)
(* because a table never holds a block twice, it holds no block twice      *)
(* because its blocks hold different prefixes, and they do because the     *)
(* index is sound.  The inductive invariant is their conjunction with what *)
(* the running loop may rely on.                                           *)
(*                                                                         *)
(* Lemmas about the operators of BlockPool come first: each keeps a pool   *)
(* well-formed, and what it changes.                                       *)
(***************************************************************************)
EXTENDS PagedCache, SequenceTheorems, FiniteSetTheorems, TLAPS

-----------------------------------------------------------------------------
\* Sequences without repetition.

\* Contains is membership in the set of elements.
LEMMA ContainsToSet ==
  ASSUME NEW S, NEW s \in Seq(S), NEW e
  PROVE  Contains(s, e) <=> e \in ToSet(s)
BY DEF Contains, ToSet

\* Adding an element at the back.
LEMMA AppendToSet ==
  ASSUME NEW S, NEW s \in Seq(S), NEW e \in S
  PROVE  ToSet(Append(s, e)) = ToSet(s) \cup {e}
<1> DEFINE t == Append(s, e)
<1>1. /\ t \in Seq(S) /\ Len(t) = Len(s) + 1
      /\ \A i \in 1 .. Len(s) : t[i] = s[i]
      /\ t[Len(s) + 1] = e
  BY AppendProperties
<1>2. DOMAIN s = 1 .. Len(s) /\ DOMAIN t = 1 .. Len(s) + 1 /\ Len(s) \in Nat
  BY <1>1, LenProperties
<1> QED BY <1>1, <1>2 DEF ToSet

\* Adding an element at the back of a queue that does not hold it.
LEMMA AppendInjectiveSeq ==
  ASSUME NEW S, NEW s \in Seq(S), IsInjective(s),
         NEW e \in S, e \notin ToSet(s)
  PROVE  /\ Append(s, e) \in Seq(S)
         /\ IsInjective(Append(s, e))
         /\ ToSet(Append(s, e)) = ToSet(s) \cup {e}
<1> DEFINE t == Append(s, e)
<1>1. /\ t \in Seq(S) /\ Len(t) = Len(s) + 1
      /\ \A i \in 1 .. Len(s) : t[i] = s[i]
      /\ t[Len(s) + 1] = e
  BY AppendProperties
<1>2. DOMAIN s = 1 .. Len(s) /\ DOMAIN t = 1 .. Len(s) + 1 /\ Len(s) \in Nat
  BY <1>1, LenProperties
<1>3. \A i \in 1 .. Len(s) : s[i] # e
  BY <1>2 DEF ToSet
<1>4. IsInjective(t)
  BY <1>1, <1>2, <1>3 DEF IsInjective
<1>5. ToSet(t) = ToSet(s) \cup {e}
  BY AppendToSet
<1> QED
  BY <1>1, <1>4, <1>5

\* Taking the element at the front of a queue.
LEMMA TailInjectiveSeq ==
  ASSUME NEW S, NEW s \in Seq(S), IsInjective(s), s # << >>
  PROVE  /\ Tail(s) \in Seq(S)
         /\ IsInjective(Tail(s))
         /\ Head(s) \in ToSet(s) /\ Head(s) \in S
         /\ ToSet(Tail(s)) = ToSet(s) \ {Head(s)}
         /\ Len(Tail(s)) = Len(s) - 1
<1> DEFINE t == Tail(s)
<1>1. /\ Head(s) \in S /\ t \in Seq(S) /\ Len(t) = Len(s) - 1
      /\ \A i \in 1 .. Len(t) : t[i] = s[i + 1]
  BY HeadTailProperties
<1>2. DOMAIN s = 1 .. Len(s) /\ DOMAIN t = 1 .. Len(s) - 1 /\ Len(s) \in Nat \ {0}
  BY <1>1, LenProperties, EmptySeq
<1>3. Head(s) = s[1]
  BY <1>2
<1>4. IsInjective(t)
  BY <1>1, <1>2 DEF IsInjective
<1>5. \A i \in 2 .. Len(s) : s[i] = t[i - 1] /\ i - 1 \in 1 .. Len(t) /\ s[i] # s[1]
  BY <1>1, <1>2 DEF IsInjective
<1>6. ASSUME NEW x PROVE x \in ToSet(t) <=> x \in ToSet(s) \ {Head(s)}
  <2>1. ASSUME NEW i \in 1 .. Len(t), x = t[i] PROVE x \in ToSet(s) \ {Head(s)}
    <3>1. i + 1 \in 2 .. Len(s) /\ x = s[i + 1]
      BY <2>1, <1>1, <1>2
    <3> QED BY <3>1, <1>2, <1>3, <1>5 DEF ToSet
  <2>2. ASSUME NEW i \in 1 .. Len(s), x = s[i], x # Head(s) PROVE x \in ToSet(t)
    <3>1. i \in 2 .. Len(s)
      BY <2>2, <1>2, <1>3
    <3> QED BY <3>1, <2>2, <1>1, <1>2, <1>5 DEF ToSet
  <2> QED BY <2>1, <2>2, <1>1, <1>2 DEF ToSet
<1> QED
  BY <1>1, <1>2, <1>3, <1>4, <1>6 DEF ToSet

\* Removing an element from the middle of a queue.
LEMMA UnlinkedInjectiveSeq ==
  ASSUME NEW S, NEW s \in Seq(S), IsInjective(s), NEW e
  PROVE  /\ Unlinked(s, e) \in Seq(S)
         /\ IsInjective(Unlinked(s, e))
         /\ ToSet(Unlinked(s, e)) = ToSet(s) \ {e}
<1>1. CASE ~ Contains(s, e)
  BY <1>1, ContainsToSet DEF Unlinked
<1>2. CASE Contains(s, e)
  <2> DEFINE k == CHOOSE i \in 1 .. Len(s) : s[i] = e
             u == SubSeq(s, 1, k - 1)
             v == SubSeq(s, k + 1, Len(s))
             t == u \o v
             n == Len(s)
  <2>1. k \in 1 .. n /\ s[k] = e
    BY <1>2 DEF Contains
  <2>2. DOMAIN s = 1 .. n /\ n \in Nat /\ \A i \in 1 .. n : s[i] \in S
    BY LenProperties
  <2> HIDE DEF k, n
  <2>3. Unlinked(s, e) = t
    BY <1>2 DEF Unlinked, RemoveAt, k, n
  <2>4. /\ u \in Seq(S) /\ Len(u) = k - 1
        /\ \A i \in 1 .. k - 1 : u[i] = s[i]
    <3>1. \A i \in 1 .. k - 1 : s[i] \in S
      BY <2>1, <2>2
    <3>2. 1 \in Int /\ k - 1 \in Int
      BY <2>1, <2>2
    <3>3. /\ u \in Seq(S)
          /\ Len(u) = IF 1 <= k - 1 THEN k - 1 - 1 + 1 ELSE 0
          /\ \A i \in 1 .. k - 1 - 1 + 1 : u[i] = s[1 + i - 1]
      BY <3>1, <3>2, SubSeqProperties
    <3> QED BY <3>3, <2>1, <2>2
  <2>5. /\ v \in Seq(S) /\ Len(v) = n - k
        /\ \A i \in 1 .. n - k : v[i] = s[k + i]
    <3>1. \A i \in k + 1 .. n : s[i] \in S
      BY <2>1, <2>2
    <3>2. k + 1 \in Int /\ n \in Int
      BY <2>1, <2>2
    <3>3. /\ v \in Seq(S)
          /\ Len(v) = IF k + 1 <= n THEN n - (k + 1) + 1 ELSE 0
          /\ \A i \in 1 .. n - (k + 1) + 1 : v[i] = s[(k + 1) + i - 1]
      BY <3>1, <3>2, SubSeqProperties DEF n
    <3> QED BY <3>3, <2>1, <2>2
  <2> HIDE DEF u, v
  <2>6. /\ t \in Seq(S) /\ Len(t) = n - 1
        /\ \A i \in 1 .. n - 1 : t[i] = IF i <= k - 1 THEN u[i] ELSE v[i - (k - 1)]
    <3>1. /\ t \in Seq(S) /\ Len(t) = Len(u) + Len(v)
          /\ \A i \in 1 .. Len(u) + Len(v) :
               t[i] = IF i <= Len(u) THEN u[i] ELSE v[i - Len(u)]
      BY <2>4, <2>5, ConcatProperties
    <3>2. Len(u) + Len(v) = n - 1 /\ Len(u) = k - 1
      BY <2>1, <2>2, <2>4, <2>5
    <3> QED BY <3>1, <3>2
  <2> HIDE DEF t
  <2>7. \A i \in 1 .. n - 1 : t[i] = IF i < k THEN s[i] ELSE s[i + 1]
    <3> TAKE i \in 1 .. n - 1
    <3>1. CASE i < k
      BY <3>1, <2>1, <2>2, <2>4, <2>6
    <3>2. CASE ~ (i < k)
      <4>1. i - (k - 1) \in 1 .. n - k /\ k + (i - (k - 1)) = i + 1
        BY <3>2, <2>1, <2>2
      <4> QED BY <4>1, <3>2, <2>1, <2>2, <2>5, <2>6
    <3> QED BY <3>1, <3>2
  <2>8. DOMAIN t = 1 .. n - 1
    BY <2>6, LenProperties
  <2>9. \A i, j \in 1 .. n : s[i] = s[j] => i = j
    BY <2>2 DEF IsInjective
  <2>10. IsInjective(t)
    <3> SUFFICES ASSUME NEW i \in 1 .. n - 1, NEW j \in 1 .. n - 1, t[i] = t[j]
                 PROVE  i = j
      BY <2>8 DEF IsInjective
    <3> DEFINE at(x) == IF x < k THEN x ELSE x + 1
    <3>1. /\ at(i) \in 1 .. n /\ at(j) \in 1 .. n
          /\ t[i] = s[at(i)] /\ t[j] = s[at(j)]
      BY <2>1, <2>2, <2>7
    <3>2. at(i) = at(j)
      BY <3>1, <2>9
    <3> QED BY <3>2, <2>1, <2>2
  <2>11. ASSUME NEW x PROVE x \in ToSet(t) <=> x \in ToSet(s) \ {e}
    <3>1. ASSUME NEW i \in 1 .. n - 1, x = t[i] PROVE x \in ToSet(s) \ {e}
      <4> DEFINE j == IF i < k THEN i ELSE i + 1
      <4>1. j \in 1 .. n /\ j # k /\ x = s[j]
        BY <3>1, <2>1, <2>2, <2>7
      <4> QED BY <4>1, <2>1, <2>2, <2>9 DEF ToSet
    <3>2. ASSUME NEW j \in 1 .. n, x = s[j], x # e PROVE x \in ToSet(t)
      <4> DEFINE i == IF j < k THEN j ELSE j - 1
      <4>1. j # k
        BY <3>2, <2>1
      <4>2. i \in 1 .. n - 1 /\ t[i] = s[j]
        BY <4>1, <2>1, <2>2, <2>7
      <4> QED BY <4>2, <3>2, <2>8 DEF ToSet
    <3> QED BY <3>1, <3>2, <2>2, <2>8 DEF ToSet
  <2> QED
    BY <2>3, <2>6, <2>10, <2>11
<1> QED
  BY <1>1, <1>2

-----------------------------------------------------------------------------
\* Well-formed pools.

GoodPool(p) == p \in Pools /\ FreeExact(p) /\ IndexExact(p)

\* The fields of a well-formed pool.
LEMMA PoolFields ==
  ASSUME NEW p, p \in Pools
  PROVE  /\ p.free \in Seq(Blocks)
         /\ p.alloc \in SUBSET Blocks
         /\ p.ref \in [Blocks -> Nat]
         /\ p.hash \in [Blocks -> Hash \cup {None}]
         /\ p.hval \in [Blocks -> Legacy \cup {None}]
         /\ p.data \in [Blocks -> Data \cup {None}]
         /\ p.hmap \in [Hash -> Seq(Blocks)]
         /\ p.lmap \in [Legacy -> Blocks \cup {None}]
BY DEF Pools

\* A record with these fields is a pool.
IsRecord(q) ==
  q = [free |-> q.free, alloc |-> q.alloc, ref |-> q.ref,
       hash |-> q.hash, hval |-> q.hval, data |-> q.data,
       hmap |-> q.hmap, lmap |-> q.lmap]

\* A record of fields of the right types is a pool.
LEMMA PoolFromFields ==
  ASSUME NEW q, IsRecord(q),
         q.free \in Seq(Blocks),
         q.alloc \in SUBSET Blocks,
         q.ref \in [Blocks -> Nat],
         q.hash \in [Blocks -> Hash \cup {None}],
         q.hval \in [Blocks -> Legacy \cup {None}],
         q.data \in [Blocks -> Data \cup {None}],
         q.hmap \in [Hash -> Seq(Blocks)],
         q.lmap \in [Legacy -> Blocks \cup {None}]
  PROVE  q \in Pools
BY DEF IsRecord, Pools

\* A pool is a record of exactly its eight fields.
LEMMA PoolIsRecord ==
  ASSUME NEW p, p \in Pools
  PROVE  IsRecord(p)
BY DEF IsRecord, Pools

\* The block that get_block finds was published under the hash.
LEMMA GetBlockFinds ==
  ASSUME NEW p, GoodPool(p), NEW h \in Hash, GetBlock(p, h) # None
  PROVE  GetBlock(p, h) \in Blocks /\ p.hash[GetBlock(p, h)] = h
<1>1. p.hmap[h] \in Seq(Blocks) /\ p.hmap[h] # << >> /\ GetBlock(p, h) = Head(p.hmap[h])
  BY PoolFields DEF GoodPool, GetBlock
<1>2. Head(p.hmap[h]) \in Blocks /\ Len(p.hmap[h]) \in Nat \ {0}
  BY <1>1, HeadTailProperties, EmptySeq
<1>3. Head(p.hmap[h]) = p.hmap[h][1]
  BY <1>1, <1>2
<1>4. Contains(p.hmap[h], Head(p.hmap[h]))
  BY <1>2, <1>3 DEF Contains
<1> QED
  BY <1>1, <1>2, <1>4 DEF GoodPool, IndexExact

\* _maybe_evict_cached_block only concerns the block it is given, and leaves
\* it without a hash.
LEMMA MaybeEvictGood ==
  ASSUME NEW p, GoodPool(p), NEW b \in Blocks, NEW q, q = MaybeEvict(p, b)
  PROVE  /\ GoodPool(q)
         /\ q.free = p.free /\ q.alloc = p.alloc /\ q.ref = p.ref
         /\ q.hash[b] = None
         /\ \A c \in Blocks \ {b} : q.hash[c] = p.hash[c] /\ q.data[c] = p.data[c]
         /\ \A v \in Legacy : q.lmap[v] # None =>
              q.lmap[v] = p.lmap[v] /\ q.lmap[v] # b
<1> DEFINE h == p.hash[b]
<1>1. /\ p.free \in Seq(Blocks)
      /\ p.alloc \in SUBSET Blocks
      /\ p.ref \in [Blocks -> Nat]
      /\ p.hash \in [Blocks -> Hash \cup {None}]
      /\ p.hval \in [Blocks -> Legacy \cup {None}]
      /\ p.data \in [Blocks -> Data \cup {None}]
      /\ p.hmap \in [Hash -> Seq(Blocks)]
      /\ p.lmap \in [Legacy -> Blocks \cup {None}]
  BY PoolFields DEF GoodPool
<1>2. CASE h = None
  <2>1. q = p
    BY <1>2 DEF MaybeEvict
  <2>2. \A v \in Legacy : p.lmap[v] # None => p.lmap[v] # b
    BY <1>2 DEF GoodPool, IndexExact
  <2> QED
    BY <1>2, <2>1, <2>2
<1>3. CASE h # None
  <2>1. h \in Hash /\ Contains(p.hmap[h], b)
    BY <1>1, <1>3 DEF GoodPool, IndexExact
  <2> DEFINE w == Unlinked(p.hmap[h], b)
  <2>2. /\ w \in Seq(Blocks) /\ IsInjective(w)
        /\ ToSet(w) = ToSet(p.hmap[h]) \ {b}
    BY <1>1, <2>1, UnlinkedInjectiveSeq DEF GoodPool, IndexExact
  <2>3. /\ q.free = p.free /\ q.alloc = p.alloc /\ q.ref = p.ref
        /\ q.hash = [p.hash EXCEPT ![b] = None]
        /\ q.hval = [p.hval EXCEPT ![b] = None]
        /\ q.data = [p.data EXCEPT ![b] = None]
        /\ q.hmap = [p.hmap EXCEPT ![h] = w]
        /\ q.lmap = [u \in Legacy |-> IF u = p.hval[b] /\ p.lmap[u] = b
                                      THEN None ELSE p.lmap[u]]
        /\ IsRecord(q)
    BY <1>3, <2>1 DEF MaybeEvict, GoodPool, Pools, IsRecord
  <2> HIDE DEF w
  <2>4. q \in Pools
    <3>1. /\ q.hash \in [Blocks -> Hash \cup {None}]
          /\ q.hval \in [Blocks -> Legacy \cup {None}]
          /\ q.data \in [Blocks -> Data \cup {None}]
          /\ q.lmap \in [Legacy -> Blocks \cup {None}]
      BY <1>1, <2>3
    <3>2. q.hmap \in [Hash -> Seq(Blocks)]
      BY <1>1, <2>1, <2>2, <2>3
    <3> QED
      BY <1>1, <2>3, <3>1, <3>2, PoolFromFields
  <2>5. FreeExact(q)
    BY <2>3 DEF FreeExact, GoodPool
  <2>6. \A v \in Legacy : q.lmap[v] # None => q.lmap[v] = p.lmap[v] /\ q.lmap[v] # b
    BY <1>1, <2>3 DEF GoodPool, IndexExact
  <2>7. IndexExact(q)
    <3>1. ASSUME NEW g \in Hash PROVE IsInjective(q.hmap[g])
      BY <1>1, <2>1, <2>2, <2>3 DEF GoodPool, IndexExact
    <3>2. ASSUME NEW g \in Hash, NEW c \in Blocks
          PROVE  Contains(q.hmap[g], c) <=> q.hash[c] = g
      <4>1. CASE g = h
        <5>1. q.hmap[g] = w
          BY <4>1, <1>1, <2>1, <2>3
        <5>2. Contains(q.hmap[g], c) <=> Contains(p.hmap[g], c) /\ c # b
          BY <4>1, <5>1, <2>2, <1>1, ContainsToSet
        <5> QED
          BY <4>1, <5>2, <1>1, <2>3, PoolAssumption DEF GoodPool, IndexExact
      <4>2. CASE g # h
        BY <4>2, <1>1, <2>3, PoolAssumption DEF GoodPool, IndexExact
      <4> QED BY <4>1, <4>2
    <3>3. ASSUME NEW v \in Legacy, q.lmap[v] # None
          PROVE  q.hash[q.lmap[v]] # None /\ q.hval[q.lmap[v]] = v
      BY <3>3, <2>6, <1>1, <2>3 DEF GoodPool, IndexExact
    <3> QED BY <3>1, <3>2, <3>3 DEF IndexExact
  <2> QED
    BY <1>1, <2>3, <2>4, <2>5, <2>6, <2>7 DEF GoodPool
<1> QED
  BY <1>2, <1>3

\* allocate_block hands out a block nobody refers to, with one reference and
\* without a hash, and disturbs no other block.
LEMMA AllocateGood ==
  ASSUME NEW p, GoodPool(p), p.free # << >>, NEW q, q = Allocate(p),
         NEW b, b = NextFree(p)
  PROVE  /\ GoodPool(q)
         /\ b \in Blocks \ p.alloc /\ p.ref[b] = 0
         /\ Len(q.free) = Len(p.free) - 1
         /\ q.alloc = p.alloc \cup {b}
         /\ q.ref = [p.ref EXCEPT ![b] = 1]
         /\ q.hash[b] = None
         /\ \A c \in Blocks \ {b} : q.hash[c] = p.hash[c] /\ q.data[c] = p.data[c]
         /\ \A v \in Legacy : q.lmap[v] # None =>
              q.lmap[v] = p.lmap[v] /\ q.lmap[v] # b
<1>1. /\ p.free \in Seq(Blocks) /\ p.alloc \in SUBSET Blocks
      /\ p.ref \in [Blocks -> Nat]
  BY PoolFields DEF GoodPool
<1>2. IsInjective(p.free) /\ ToSet(p.free) = Blocks \ p.alloc
  BY DEF GoodPool, FreeExact
<1>3. /\ Tail(p.free) \in Seq(Blocks) /\ IsInjective(Tail(p.free))
      /\ b \in Blocks \ p.alloc
      /\ ToSet(Tail(p.free)) = (Blocks \ p.alloc) \ {b}
      /\ Len(Tail(p.free)) = Len(p.free) - 1
  BY <1>1, <1>2, TailInjectiveSeq DEF NextFree
<1> DEFINE m == MaybeEvict(p, b)
<1>m. m = MaybeEvict(p, b) /\ b \in Blocks
  BY <1>3
<1>q. q = [m EXCEPT !.free = Tail(@), !.alloc = @ \cup {b}, !.ref[b] = 1]
  BY DEF Allocate
<1> HIDE DEF m
<1>4. /\ GoodPool(m)
      /\ m.free = p.free /\ m.alloc = p.alloc /\ m.ref = p.ref
      /\ m.hash[b] = None
      /\ \A c \in Blocks \ {b} : m.hash[c] = p.hash[c] /\ m.data[c] = p.data[c]
      /\ \A v \in Legacy : m.lmap[v] # None => m.lmap[v] = p.lmap[v] /\ m.lmap[v] # b
  BY <1>m, MaybeEvictGood
<1>5. m \in Pools /\ IsRecord(m)
  BY <1>4, PoolIsRecord DEF GoodPool
<1>6. /\ q.free = Tail(p.free) /\ q.alloc = p.alloc \cup {b}
      /\ q.ref = [p.ref EXCEPT ![b] = 1]
      /\ q.hash = m.hash /\ q.hval = m.hval /\ q.data = m.data
      /\ q.hmap = m.hmap /\ q.lmap = m.lmap
      /\ IsRecord(q)
  <2>1. /\ q.free = Tail(m.free) /\ q.alloc = m.alloc \cup {b}
        /\ q.ref = [m.ref EXCEPT ![b] = 1]
        /\ q.hash = m.hash /\ q.hval = m.hval /\ q.data = m.data
        /\ q.hmap = m.hmap /\ q.lmap = m.lmap
        /\ IsRecord(q)
    BY <1>5, <1>q DEF Pools, IsRecord
  <2> QED BY <2>1, <1>4
<1>7. q \in Pools
  <2>1. q.ref \in [Blocks -> Nat] /\ q.alloc \in SUBSET Blocks
    BY <1>1, <1>3, <1>6
  <2> QED
    BY ZenonT(40), <2>1, <1>3, <1>4, <1>6, PoolFields, PoolFromFields DEF GoodPool
<1>8. FreeExact(q)
  BY <1>1, <1>2, <1>3, <1>6 DEF FreeExact, GoodPool
<1>9. IndexExact(q)
  BY <1>4, <1>6 DEF GoodPool, IndexExact
<1> QED
  BY <1>1, <1>3, <1>4, <1>6, <1>7, <1>8, <1>9 DEF GoodPool, FreeExact

\* A round of evict_lru_blocks keeps every block where it is, free or not.
LEMMA EvictFrontGood ==
  ASSUME NEW p, GoodPool(p), p.free # << >>, NEW q, q = EvictFront(p)
  PROVE  /\ GoodPool(q)
         /\ Len(q.free) = Len(p.free) /\ q.alloc = p.alloc /\ q.ref = p.ref
         /\ \A c \in p.alloc : q.hash[c] = p.hash[c] /\ q.data[c] = p.data[c]
         /\ \A c \in Blocks : q.hash[c] # None =>
              q.hash[c] = p.hash[c] /\ q.data[c] = p.data[c]
         /\ \A v \in Legacy : q.lmap[v] # None =>
              q.lmap[v] = p.lmap[v] /\ q.hash[q.lmap[v]] = p.hash[q.lmap[v]]
<1> DEFINE b == NextFree(p)
           m == MaybeEvict(p, b)
<1>1. /\ p.free \in Seq(Blocks) /\ p.alloc \in SUBSET Blocks
      /\ p.lmap \in [Legacy -> Blocks \cup {None}]
  BY PoolFields DEF GoodPool
<1>2. IsInjective(p.free) /\ ToSet(p.free) = Blocks \ p.alloc
  BY DEF GoodPool, FreeExact
<1>3. /\ Tail(p.free) \in Seq(Blocks) /\ IsInjective(Tail(p.free))
      /\ b \in Blocks \ p.alloc
      /\ ToSet(Tail(p.free)) = (Blocks \ p.alloc) \ {b}
      /\ Len(Tail(p.free)) = Len(p.free) - 1
  BY <1>1, <1>2, TailInjectiveSeq DEF NextFree
<1> HIDE DEF b
<1> DEFINE f == Append(Tail(p.free), b)
<1>4. /\ f \in Seq(Blocks) /\ IsInjective(f)
      /\ ToSet(f) = Blocks \ p.alloc
      /\ Len(f) = Len(p.free)
  <2>1. b \notin ToSet(Tail(p.free)) /\ b \in Blocks
    BY <1>3
  <2>2. /\ f \in Seq(Blocks) /\ IsInjective(f)
        /\ ToSet(f) = ToSet(Tail(p.free)) \cup {b}
    <3>1. ASSUME NEW t, t = Tail(p.free)
          PROVE  /\ Append(t, b) \in Seq(Blocks) /\ IsInjective(Append(t, b))
                 /\ ToSet(Append(t, b)) = ToSet(t) \cup {b}
      <4>1. t \in Seq(Blocks) /\ IsInjective(t) /\ b \notin ToSet(t)
        BY <1>3, <2>1, <3>1
      <4> QED BY <4>1, <2>1, AppendInjectiveSeq
    <3> QED BY <3>1
  <2>3. Len(f) = Len(Tail(p.free)) + 1 /\ Len(p.free) \in Nat
    BY <1>1, <1>3, <2>1, AppendProperties, LenProperties
  <2> QED BY <2>2, <2>3, <1>3
<1>5. /\ GoodPool(m)
      /\ m.free = p.free /\ m.alloc = p.alloc /\ m.ref = p.ref
      /\ m.hash[b] = None
      /\ \A c \in Blocks \ {b} : m.hash[c] = p.hash[c] /\ m.data[c] = p.data[c]
      /\ \A v \in Legacy : m.lmap[v] # None => m.lmap[v] = p.lmap[v] /\ m.lmap[v] # b
  BY SMTT(40), <1>3, MaybeEvictGood
<1>6. q = [m EXCEPT !.free = Append(Tail(@), b)]
  BY DEF EvictFront, b
<1> HIDE DEF m
<1>7. /\ q.free = f /\ q.alloc = p.alloc /\ q.ref = p.ref
      /\ q.hash = m.hash /\ q.hval = m.hval /\ q.data = m.data
      /\ q.hmap = m.hmap /\ q.lmap = m.lmap
      /\ IsRecord(q)
  BY <1>5, <1>6 DEF GoodPool, Pools, IsRecord
<1> HIDE DEF f
<1>8. q \in Pools
  BY <1>4, <1>5, <1>7, PoolFields, PoolFromFields DEF GoodPool
<1>9. FreeExact(q)
  BY <1>4, <1>7 DEF FreeExact, GoodPool
<1>10. IndexExact(q)
  BY <1>5, <1>7 DEF GoodPool, IndexExact
<1>11. \A v \in Legacy : q.lmap[v] # None => q.lmap[v] \in Blocks \ {b}
  BY <1>1, <1>5, <1>7
<1> QED
  BY <1>1, <1>3, <1>4, <1>5, <1>7, <1>8, <1>9, <1>10, <1>11 DEF GoodPool

\* Freeing a block that is in use takes one reference and nothing else.
LEMMA FreeBlockGood ==
  ASSUME NEW p, GoodPool(p), NEW b \in p.alloc, NEW q, q = FreeBlock(p, b)
  PROVE  /\ GoodPool(q)
         /\ q.ref[b] = p.ref[b] - 1 /\ \A c \in Blocks \ {b} : q.ref[c] = p.ref[c]
         /\ q.hash = p.hash /\ q.data = p.data /\ q.lmap = p.lmap
<1>1. /\ p.free \in Seq(Blocks) /\ p.alloc \in SUBSET Blocks
      /\ p.ref \in [Blocks -> Nat]
  BY PoolFields DEF GoodPool
<1>2. /\ IsInjective(p.free) /\ ToSet(p.free) = Blocks \ p.alloc
      /\ \A c \in Blocks : c \in p.alloc <=> p.ref[c] > 0
  BY DEF GoodPool, FreeExact
<1>3. b \in Blocks /\ p.ref[b] \in Nat /\ p.ref[b] > 0
  BY <1>1, <1>2
<1>4. /\ q.hash = p.hash /\ q.hval = p.hval /\ q.data = p.data
      /\ q.hmap = p.hmap /\ q.lmap = p.lmap
      /\ IsRecord(q)
  <2>1. p \in Pools /\ IsRecord(p)
    BY PoolIsRecord DEF GoodPool
  <2>2. CASE p.ref[b] > 1
    BY <2>1, <2>2 DEF FreeBlock, IsRecord
  <2>3. CASE ~ (p.ref[b] > 1)
    BY <2>1, <2>3 DEF FreeBlock, IsRecord
  <2> QED BY <2>2, <2>3
<1>5. CASE p.ref[b] > 1
  <2>1. /\ q.free = p.free /\ q.alloc = p.alloc
        /\ q.ref = [p.ref EXCEPT ![b] = @ - 1]
    BY <1>5, <1>4 DEF FreeBlock, GoodPool, Pools
  <2>2. q.ref \in [Blocks -> Nat]
    BY <1>1, <1>3, <1>5, <2>1
  <2>3. q \in Pools
    BY <1>4, <2>1, <2>2, PoolFields, PoolFromFields DEF GoodPool
  <2>4. FreeExact(q)
    BY <1>1, <1>2, <1>3, <1>5, <2>1 DEF FreeExact
  <2>5. IndexExact(q)
    BY <1>4 DEF GoodPool, IndexExact
  <2> QED BY <1>1, <1>3, <1>4, <2>1, <2>3, <2>4, <2>5 DEF GoodPool
<1>6. CASE ~ (p.ref[b] > 1)
  <2>1. /\ q.free = Append(p.free, b) /\ q.alloc = p.alloc \ {b}
        /\ q.ref = [p.ref EXCEPT ![b] = 0]
    BY <1>6 DEF FreeBlock, GoodPool, Pools
  <2>2. p.ref[b] = 1
    BY <1>3, <1>6
  <2>3. q.ref = [p.ref EXCEPT ![b] = @ - 1] /\ q.ref \in [Blocks -> Nat]
    BY <1>1, <1>3, <2>1, <2>2
  <2>4. /\ q.free \in Seq(Blocks) /\ IsInjective(q.free)
        /\ ToSet(q.free) = (Blocks \ p.alloc) \cup {b}
    BY <1>1, <1>2, <1>3, <2>1, AppendInjectiveSeq
  <2>5. q \in Pools
    BY <1>1, <1>4, <2>1, <2>3, <2>4, PoolFields, PoolFromFields DEF GoodPool
  <2>6. FreeExact(q)
    BY <1>1, <1>2, <1>3, <2>1, <2>4 DEF FreeExact
  <2>7. IndexExact(q)
    BY <1>4 DEF GoodPool, IndexExact
  <2> QED BY <1>1, <1>3, <1>4, <2>3, <2>5, <2>6, <2>7 DEF GoodPool
<1> QED BY <1>5, <1>6

\* A reference on an allocated block.
LEMMA IncrementRefGood ==
  ASSUME NEW p, GoodPool(p), NEW b \in p.alloc, NEW q, q = IncrementRef(p, b)
  PROVE  /\ GoodPool(q)
         /\ q.ref[b] = p.ref[b] + 1 /\ \A c \in Blocks \ {b} : q.ref[c] = p.ref[c]
         /\ q.hash = p.hash /\ q.data = p.data /\ q.lmap = p.lmap
<1>1. p \in Pools /\ IsRecord(p)
  BY PoolIsRecord DEF GoodPool
<1>2. /\ q.free = p.free /\ q.alloc = p.alloc
      /\ q.ref = [p.ref EXCEPT ![b] = @ + 1]
      /\ q.hash = p.hash /\ q.hval = p.hval /\ q.data = p.data
      /\ q.hmap = p.hmap /\ q.lmap = p.lmap
      /\ IsRecord(q)
  BY <1>1 DEF IncrementRef, IsRecord
<1>3. /\ p.alloc \in SUBSET Blocks /\ p.ref \in [Blocks -> Nat] /\ b \in Blocks
      /\ p.ref[b] \in Nat
  BY <1>1, PoolFields
<1>4. q \in Pools
  <2>1. q.ref \in [Blocks -> Nat]
    BY <1>2, <1>3
  <2> QED BY <1>1, <1>2, <2>1, PoolFields, PoolFromFields
<1>5. FreeExact(q)
  BY <1>2, <1>3 DEF GoodPool, FreeExact
<1>6. IndexExact(q)
  BY <1>2 DEF GoodPool, IndexExact
<1> QED BY <1>2, <1>3, <1>4, <1>5, <1>6 DEF GoodPool

\* A hit takes one reference and keeps what the block caches, whether the
\* block was in use or waiting in the free queue.
LEMMA TouchGood ==
  ASSUME NEW p, GoodPool(p), NEW b \in Blocks, NEW q, q = Touch(p, b)
  PROVE  /\ GoodPool(q)
         /\ q.ref[b] = p.ref[b] + 1 /\ \A c \in Blocks \ {b} : q.ref[c] = p.ref[c]
         /\ q.hash = p.hash /\ q.data = p.data /\ q.lmap = p.lmap
<1>1. p \in Pools /\ IsRecord(p)
  BY PoolIsRecord DEF GoodPool
<1>2. /\ p.free \in Seq(Blocks) /\ p.alloc \in SUBSET Blocks
      /\ p.ref \in [Blocks -> Nat] /\ p.ref[b] \in Nat
  BY <1>1, PoolFields
<1>3. /\ IsInjective(p.free) /\ ToSet(p.free) = Blocks \ p.alloc
      /\ \A c \in Blocks : c \in p.alloc <=> p.ref[c] > 0
  BY DEF GoodPool, FreeExact
<1>4. CASE p.ref[b] = 0
  <2>1. b \in ToSet(p.free) /\ Contains(p.free, b)
    BY <1>2, <1>3, <1>4, ContainsToSet
  <2> DEFINE f == Unlinked(p.free, b)
  <2>2. f \in Seq(Blocks) /\ IsInjective(f) /\ ToSet(f) = ToSet(p.free) \ {b}
    BY <1>2, <1>3, UnlinkedInjectiveSeq
  <2>3. /\ q.free = f /\ q.alloc = p.alloc \cup {b}
        /\ q.ref = [p.ref EXCEPT ![b] = 1]
        /\ q.hash = p.hash /\ q.hval = p.hval /\ q.data = p.data
        /\ q.hmap = p.hmap /\ q.lmap = p.lmap
        /\ IsRecord(q)
    BY <1>1, <1>4, <2>1 DEF Touch, IsRecord
  <2> HIDE DEF f
  <2>4. q.ref = [p.ref EXCEPT ![b] = @ + 1] /\ q.ref \in [Blocks -> Nat]
    BY <1>2, <1>4, <2>3
  <2>5. q \in Pools
    <3>1. q.alloc \in SUBSET Blocks
      BY <1>2, <2>3
    <3> QED BY <1>1, <2>2, <2>3, <2>4, <3>1, PoolFields, PoolFromFields
  <2>6. FreeExact(q)
    BY <1>2, <1>3, <2>2, <2>3 DEF FreeExact
  <2>7. IndexExact(q)
    BY <2>3 DEF GoodPool, IndexExact
  <2> QED BY <1>2, <2>3, <2>4, <2>5, <2>6, <2>7 DEF GoodPool
<1>5. CASE p.ref[b] # 0
  <2>1. b \in p.alloc
    BY <1>2, <1>3, <1>5
  <2>2. q = IncrementRef(p, b)
    BY <1>5, <2>1 DEF Touch, IncrementRef
  <2> QED BY <2>1, <2>2, IncrementRefGood
<1> QED BY <1>4, <1>5

\* Storing tensors in a block that has no hash, or the tensors of its hash.
LEMMA SetDataGood ==
  ASSUME NEW p, GoodPool(p), NEW b \in Blocks, NEW d \in Data,
         NEW q, q = SetData(p, b, d)
  PROVE  /\ GoodPool(q)
         /\ q.free = p.free /\ q.alloc = p.alloc /\ q.ref = p.ref
         /\ q.hash = p.hash /\ q.lmap = p.lmap
         /\ q.data = [p.data EXCEPT ![b] = d]
<1>1. p \in Pools /\ IsRecord(p)
  BY PoolIsRecord DEF GoodPool
<1>2. /\ q.free = p.free /\ q.alloc = p.alloc /\ q.ref = p.ref
      /\ q.hash = p.hash /\ q.hval = p.hval
      /\ q.data = [p.data EXCEPT ![b] = d]
      /\ q.hmap = p.hmap /\ q.lmap = p.lmap
      /\ IsRecord(q)
  BY <1>1 DEF IsRecord, SetData
<1>3. q.data \in [Blocks -> Data \cup {None}]
  BY <1>1, <1>2, PoolFields
<1>4. q \in Pools
  BY <1>1, <1>2, <1>3, PoolFields, PoolFromFields
<1>5. FreeExact(q) /\ IndexExact(q)
  BY <1>2 DEF GoodPool, FreeExact, IndexExact
<1> QED BY <1>2, <1>4, <1>5 DEF GoodPool

\* A copy-on-write copy moves one reference from the shared block to a
\* private copy of it.
LEMMA CowCopyGood ==
  ASSUME NEW p, GoodPool(p), p.free # << >>, NEW b \in p.alloc, p.ref[b] > 1,
         NEW q, q = CowCopy(p, b), NEW n, n = NextFree(p)
  PROVE  /\ GoodPool(q)
         /\ n \in Blocks \ p.alloc /\ n # b
         /\ q.ref = [p.ref EXCEPT ![n] = 1, ![b] = @ - 1]
         /\ q.hash[n] = None /\ q.data[n] = p.data[b]
         /\ \A c \in Blocks \ {n} : q.hash[c] = p.hash[c] /\ q.data[c] = p.data[c]
         /\ \A v \in Legacy : q.lmap[v] # None =>
              q.lmap[v] = p.lmap[v] /\ q.lmap[v] # n
<1> DEFINE a == Allocate(p)
<1>a. a = Allocate(p)
  OBVIOUS
<1>q. q = [a EXCEPT !.data[n] = p.data[b], !.ref[b] = @ - 1]
  BY DEF CowCopy
<1> HIDE DEF a
<1>1. /\ GoodPool(a)
      /\ n \in Blocks \ p.alloc
      /\ a.alloc = p.alloc \cup {n}
      /\ a.ref = [p.ref EXCEPT ![n] = 1]
      /\ a.hash[n] = None
      /\ \A c \in Blocks \ {n} : a.hash[c] = p.hash[c] /\ a.data[c] = p.data[c]
      /\ \A v \in Legacy : a.lmap[v] # None => a.lmap[v] = p.lmap[v] /\ a.lmap[v] # n
  BY <1>a, AllocateGood
<1>2. a \in Pools /\ IsRecord(a)
  BY <1>1, PoolIsRecord DEF GoodPool
<1>3. /\ q.free = a.free /\ q.alloc = a.alloc
      /\ q.ref = [a.ref EXCEPT ![b] = @ - 1]
      /\ q.hash = a.hash /\ q.hval = a.hval
      /\ q.data = [a.data EXCEPT ![n] = p.data[b]]
      /\ q.hmap = a.hmap /\ q.lmap = a.lmap
      /\ IsRecord(q)
  BY <1>2, <1>q DEF IsRecord
<1>4. /\ p.ref \in [Blocks -> Nat] /\ p.alloc \in SUBSET Blocks
      /\ p.data \in [Blocks -> Data \cup {None}] /\ b \in Blocks /\ b # n
      /\ a.ref \in [Blocks -> Nat] /\ a.data \in [Blocks -> Data \cup {None}]
  BY <1>1, <1>2, PoolFields DEF GoodPool
<1>5. a.ref[b] = p.ref[b] /\ p.ref[b] \in Nat
  BY <1>1, <1>4
<1>6. q.ref = [p.ref EXCEPT ![n] = 1, ![b] = @ - 1]
  BY <1>1, <1>3, <1>4, <1>5
<1>7. q \in Pools
  <2>1. a.ref[b] - 1 \in Nat /\ p.data[b] \in Data \cup {None}
    BY <1>4, <1>5
  <2>2. q.ref \in [Blocks -> Nat]
    BY <2>1, <1>3, <1>4
  <2>3. q.data \in [Blocks -> Data \cup {None}]
    BY <2>1, <1>1, <1>3, <1>4
  <2> QED BY <1>2, <1>3, <2>2, <2>3, PoolFields, PoolFromFields
<1>8. FreeExact(q)
  BY <1>1, <1>3, <1>4, <1>5 DEF GoodPool, FreeExact
<1>9. IndexExact(q)
  BY <1>1, <1>3 DEF GoodPool, IndexExact
<1> QED BY <1>1, <1>3, <1>4, <1>6, <1>7, <1>8, <1>9 DEF GoodPool

\* Publishing a block that has no hash under its chain hash and its content.
LEMMA PublishGood ==
  ASSUME NEW p, GoodPool(p), NEW b \in Blocks, p.hash[b] = None,
         NEW h \in Hash, NEW v \in Legacy,
         NEW q, q = Publish(p, b, h, v)
  PROVE  /\ GoodPool(q)
         /\ q.free = p.free /\ q.alloc = p.alloc /\ q.ref = p.ref
         /\ q.data = p.data
         /\ q.hash[b] = h /\ \A c \in Blocks \ {b} : q.hash[c] = p.hash[c]
         /\ q.lmap[v] = b /\ \A u \in Legacy \ {v} : q.lmap[u] = p.lmap[u]
<1>1. p \in Pools /\ IsRecord(p)
  BY PoolIsRecord DEF GoodPool
<1>2. /\ p.hash \in [Blocks -> Hash \cup {None}]
      /\ p.hval \in [Blocks -> Legacy \cup {None}]
      /\ p.hmap \in [Hash -> Seq(Blocks)]
      /\ p.lmap \in [Legacy -> Blocks \cup {None}]
  BY <1>1, PoolFields
<1>3. \A g \in Hash : ~ Contains(p.hmap[g], b)
  BY PoolAssumption DEF GoodPool, IndexExact
<1> DEFINE w == Append(p.hmap[h], b)
<1>4. w \in Seq(Blocks) /\ IsInjective(w) /\ ToSet(w) = ToSet(p.hmap[h]) \cup {b}
  <2>1. p.hmap[h] \in Seq(Blocks) /\ IsInjective(p.hmap[h]) /\ b \notin ToSet(p.hmap[h])
    BY <1>2, <1>3, ContainsToSet DEF GoodPool, IndexExact
  <2> QED BY <2>1, AppendInjectiveSeq
<1>5. /\ q.free = p.free /\ q.alloc = p.alloc /\ q.ref = p.ref
      /\ q.hash = [p.hash EXCEPT ![b] = h] /\ q.data = p.data
      /\ q.hval = [p.hval EXCEPT ![b] = v]
      /\ q.hmap = [p.hmap EXCEPT ![h] = w]
      /\ q.lmap = [p.lmap EXCEPT ![v] = b]
      /\ IsRecord(q)
  BY <1>1, <1>3 DEF Publish, InsertHash, RegisterLegacy, IsRecord
<1> HIDE DEF w
<1>6. q \in Pools
  <2>1. /\ q.hash \in [Blocks -> Hash \cup {None}]
        /\ q.hval \in [Blocks -> Legacy \cup {None}]
        /\ q.hmap \in [Hash -> Seq(Blocks)]
        /\ q.lmap \in [Legacy -> Blocks \cup {None}]
    BY <1>2, <1>4, <1>5
  <2> QED BY <1>1, <1>5, <2>1, PoolFields, PoolFromFields
<1>7. FreeExact(q)
  BY <1>5 DEF GoodPool, FreeExact
<1>8. IndexExact(q)
  <2>1. ASSUME NEW g \in Hash PROVE IsInjective(q.hmap[g])
    BY <1>2, <1>4, <1>5 DEF GoodPool, IndexExact
  <2>2. ASSUME NEW g \in Hash, NEW c \in Blocks
        PROVE  Contains(q.hmap[g], c) <=> q.hash[c] = g
    <3>1. CASE g = h
      <4>1. q.hmap[g] = w
        BY <3>1, <1>2, <1>5
      <4>2. Contains(q.hmap[g], c) <=> Contains(p.hmap[g], c) \/ c = b
        BY <3>1, <4>1, <1>2, <1>4, ContainsToSet
      <4> QED BY <3>1, <4>2, <1>2, <1>5 DEF GoodPool, IndexExact
    <3>2. CASE g # h
      BY <3>2, <1>2, <1>3, <1>5 DEF GoodPool, IndexExact
    <3> QED BY <3>1, <3>2
  <2>3. ASSUME NEW u \in Legacy, q.lmap[u] # None
        PROVE  q.hash[q.lmap[u]] # None /\ q.hval[q.lmap[u]] = u
    <3>1. CASE u = v
      BY <3>1, <1>2, <1>5, PoolAssumption
    <3>2. CASE u # v
      <4>1. q.lmap[u] = p.lmap[u] /\ p.hash[p.lmap[u]] # None /\ p.hval[p.lmap[u]] = u
        BY <2>3, <3>2, <1>2, <1>5 DEF GoodPool, IndexExact
      <4>2. p.lmap[u] # b
        BY <4>1
      <4> QED BY <2>3, <4>1, <4>2, <1>2, <1>5
    <3> QED BY <3>1, <3>2
  <2> QED BY <2>1, <2>2, <2>3 DEF IndexExact
<1> QED BY <1>2, <1>5, <1>6, <1>7, <1>8 DEF GoodPool

\* A new pool.
LEMMA EmptyPoolGood ==
  /\ GoodPool(EmptyPool)
  /\ EmptyPool.alloc = {}
  /\ \A b \in Blocks : EmptyPool.ref[b] = 0 /\ EmptyPool.hash[b] = None
  /\ \A v \in Legacy : EmptyPool.lmap[v] = None
<1> DEFINE f == [i \in 1 .. NumBlocks |-> i]
<1>1. NumBlocks \in Nat /\ f \in Seq(Blocks)
  <2>1. NumBlocks \in Nat
    BY PoolAssumption
  <2>2. f \in [1 .. NumBlocks -> Blocks]
    BY DEF Blocks
  <2> QED BY <2>1, <2>2, SeqDef
<1>2. IsInjective(f) /\ ToSet(f) = Blocks
  BY DEF IsInjective, ToSet, Blocks
<1>3. \A S, T : << >> \in Seq(S) /\ IsInjective(<< >>)
  BY DEF IsInjective
<1>4. \A e : ~ Contains(<< >>, e)
  BY DEF Contains
<1>5. EmptyPool \in Pools
  BY <1>1, <1>3 DEF EmptyPool, Pools
<1>6. FreeExact(EmptyPool)
  <2>1. EmptyPool.free = f /\ EmptyPool.alloc = {}
    BY DEF EmptyPool
  <2>2. \A b \in Blocks : EmptyPool.ref[b] = 0
    BY DEF EmptyPool
  <2> QED BY <1>2, <2>1, <2>2 DEF FreeExact
<1>7. IndexExact(EmptyPool)
  BY <1>3, <1>4, PoolAssumption DEF EmptyPool, IndexExact
<1> QED BY <1>5, <1>6, <1>7 DEF GoodPool, EmptyPool

\* A full free queue means that no block is in use.
LEMMA AllFree ==
  ASSUME NEW p, GoodPool(p), Len(p.free) = NumBlocks
  PROVE  p.alloc = {}
<1>1. /\ p.free \in Seq(Blocks) /\ p.alloc \in SUBSET Blocks
      /\ IsInjective(p.free) /\ ToSet(p.free) = Blocks \ p.alloc
  BY PoolFields DEF GoodPool, FreeExact
<1>2. NumBlocks \in Nat /\ p.free \in [1 .. NumBlocks -> Blocks]
  BY <1>1, LenProperties, PoolAssumption
<1>3. /\ IsFiniteSet(Blocks) /\ Cardinality(Blocks) = NumBlocks
      /\ IsFiniteSet(1 .. NumBlocks) /\ Cardinality(1 .. NumBlocks) = NumBlocks
  BY <1>2, FS_Interval DEF Blocks
<1>4. ToSet(p.free) \subseteq Blocks /\ IsFiniteSet(ToSet(p.free))
  BY <1>1, <1>3, FS_Subset
<1>5. p.free \in Bijection(1 .. NumBlocks, ToSet(p.free))
  BY <1>1, <1>2 DEF Bijection, Injection, Surjection, IsInjective, ToSet
<1>6. Cardinality(ToSet(p.free)) = NumBlocks
  BY <1>3, <1>4, <1>5, FS_Bijection DEF ExistsBijection
<1>7. ToSet(p.free) = Blocks
  BY <1>3, <1>4, <1>6, FS_Subset
<1> QED BY <1>1, <1>7

\* reset_prefix_cache, with every block free.
LEMMA ForgetAllGood ==
  ASSUME NEW p, GoodPool(p), NEW q, q = ForgetAll(p)
  PROVE  /\ GoodPool(q) /\ q.alloc = p.alloc /\ q.ref = p.ref
         /\ \A b \in Blocks : q.hash[b] = None
         /\ \A v \in Legacy : q.lmap[v] = None
<1>1. EmptyPool \in Pools /\ IsRecord(EmptyPool) /\ IndexExact(EmptyPool)
  BY EmptyPoolGood, PoolIsRecord DEF GoodPool
<1>2. /\ q.free = p.free /\ q.alloc = p.alloc /\ q.ref = p.ref
      /\ q.hash = EmptyPool.hash /\ q.hval = EmptyPool.hval
      /\ q.data = EmptyPool.data
      /\ q.hmap = EmptyPool.hmap /\ q.lmap = EmptyPool.lmap
      /\ IsRecord(q)
  BY <1>1 DEF ForgetAll, IsRecord
<1>3. q \in Pools
  BY <1>1, <1>2, PoolFields, PoolFromFields DEF GoodPool
<1>4. FreeExact(q)
  BY <1>2 DEF GoodPool, FreeExact
<1>5. IndexExact(q)
  BY <1>1, <1>2 DEF IndexExact
<1> QED BY <1>2, <1>3, <1>4, <1>5, EmptyPoolGood DEF GoodPool

-----------------------------------------------------------------------------
\* What the running loop may rely on.

\* No table is longer than the prompt it belongs to.
TablesFit ==
  \A r \in Requests : Dropped(r) + Len(tables[r]) <= Len(Prompt[r])

GrowOK(r) ==
  /\ op.pos <= op.last + 1
  /\ Len(tables[r]) + (op.last - op.pos + 1) <= Len(Prompt[r])
  /\ op.last - op.pos + 1 <= Len(pool.free)

CacheOK(r) ==
  /\ op.pos <= op.last + 1 /\ op.last <= Len(tables[r])
  /\ op.pos > 1 => pool.hash[tables[r][op.pos - 1]] # None

LookupOK(r) ==
  /\ tables[r] = << >>
  /\ op.last = Len(Prompt[r]) /\ op.pos <= op.last + 1
  /\ op.pos = Len(op.hits) + 1
  /\ \A i \in 1 .. Len(op.hits) : pool.hash[op.hits[i]] = Chain(r, i)

TouchOK(r) ==
  /\ Len(tables[r]) + Len(op.hits) <= Len(Prompt[r])
  /\ \A i \in 1 .. Len(op.hits) :
       pool.hash[op.hits[i]] = Chain(r, Len(tables[r]) + i)

ForkOK(r) ==
  /\ op.src \in Requests \ {r}
  /\ op.last = Len(tables[op.src]) /\ op.last <= Len(Prompt[r])
  /\ op.pos = Len(tables[r]) + 1 /\ op.pos <= op.last + 1
  /\ \A i \in 1 .. op.last : Chain(op.src, i) = Chain(r, i)

\* What the loop that holds the lock relies on.
LoopOK ==
  /\ op.pos >= 1
  /\ op.kind \notin {"idle", "evict"} => op.req \in Requests
  /\ op.kind = "grow" => GrowOK(op.req)
  /\ op.kind = "cache" => CacheOK(op.req)
  /\ op.kind = "lookup" => LookupOK(op.req)
  /\ op.kind = "touch" => TouchOK(op.req)
  /\ op.kind = "fork" => ForkOK(op.req)
  /\ op.kind = "cow" => op.last = Len(tables[op.req])
  /\ op.kind = "delete" =>
       op.pos <= op.last + 1 /\ Len(tables[op.req]) = op.last - op.pos + 1
  /\ op.kind = "evict" => op.last <= Len(pool.free)

\* The inductive invariant.
IInv ==
  /\ TypeOK
  /\ FreeListExact
  /\ RefCountExact
  /\ TablesHoldOwnPrefix
  /\ IndexSound
  /\ TablesFit
  /\ LoopOK

-----------------------------------------------------------------------------
\* Chain hashes.

\* The chain hash of the first i blocks has length i and ends with block i.
LEMMA ChainFacts ==
  ASSUME NEW r \in Requests, NEW i \in 1 .. Len(Prompt[r])
  PROVE  /\ Chain(r, i) \in Hash /\ Chain(r, i) \in Data /\ Chain(r, i) # None
         /\ Len(Chain(r, i)) = i
         /\ Chain(r, i)[i] = Prompt[r][i]
         /\ Prompt[r][i] \in Legacy
         /\ Chain(r, i) =
              Append(IF i = 1 THEN << >> ELSE Chain(r, i - 1), Prompt[r][i])
<1> DEFINE P == Prompt[r]
<1>1. P \in Seq(Legacy)
  BY RequestAssumption
<1>2. Chain(r, i) \in Hash /\ Hash \subseteq Data /\ None \notin Hash
  BY RequestAssumption, PoolAssumption
<1>3. Len(P) \in Nat /\ \A j \in 1 .. Len(P) : P[j] \in Legacy
  BY <1>1, LenProperties
<1>4. Len(SubSeq(P, 1, i)) = i /\ \A j \in 1 .. i : SubSeq(P, 1, i)[j] = P[j]
  <2>1. \A j \in 1 .. i : P[j] \in Legacy
    BY <1>3
  <2>2. 1 \in Int /\ i \in Int
    OBVIOUS
  <2>3. /\ Len(SubSeq(P, 1, i)) = IF 1 <= i THEN i - 1 + 1 ELSE 0
        /\ \A j \in 1 .. i - 1 + 1 : SubSeq(P, 1, i)[j] = P[1 + j - 1]
    BY <2>1, <2>2, SubSeqProperties
  <2> QED BY <2>3, <1>3
<1>5. SubSeq(P, 1, i) = SubSeq(P, 1, i - 1) \o <<P[i]>>
  <2>1. 1 \in 1 .. Len(P) /\ i \in 1 .. Len(P)
    BY <1>3
  <2> QED BY <1>1, <2>1, SubSeqRecursiveSecond
<1>6. SubSeq(P, 1, i - 1) \in Seq(Legacy) /\ P[i] \in Legacy
  <2>1. \A j \in 1 .. i - 1 : P[j] \in Legacy
    BY <1>3
  <2> QED BY <2>1, <1>3, SubSeqProperties
<1>7. SubSeq(P, 1, i) = Append(SubSeq(P, 1, i - 1), P[i])
  BY <1>5, <1>6, AppendIsConcat
<1>8. i = 1 => SubSeq(P, 1, i - 1) = << >>
  BY <1>1, SubSeqEmpty
<1>9. Chain(r, i) = Append(IF i = 1 THEN << >> ELSE Chain(r, i - 1), P[i])
  <2>1. CASE i = 1
    BY <2>1, <1>7, <1>8 DEF Chain
  <2>2. CASE i # 1
    BY <2>2, <1>7 DEF Chain
  <2> QED BY <2>1, <2>2
<1>10. Len(Chain(r, i)) = i /\ Chain(r, i)[i] = P[i]
  BY <1>4 DEF Chain
<1> QED
  BY <1>2, <1>3, <1>9, <1>10

\* Two prompts with the same first n blocks have the same shorter prefixes.
LEMMA ChainPrefix ==
  ASSUME NEW r \in Requests, NEW s \in Requests, NEW n \in Nat,
         n <= Len(Prompt[r]), n <= Len(Prompt[s]), Chain(r, n) = Chain(s, n),
         NEW i \in 1 .. n
  PROVE  Chain(r, i) = Chain(s, i)
<1>1. Prompt[r] \in Seq(Legacy) /\ Prompt[s] \in Seq(Legacy)
  BY RequestAssumption
<1>2. ASSUME NEW P \in Seq(Legacy), NEW m \in 0 .. Len(P)
      PROVE  /\ SubSeq(P, 1, m) \in Seq(Legacy)
             /\ Len(SubSeq(P, 1, m)) = m
             /\ \A j \in 1 .. m : SubSeq(P, 1, m)[j] = P[j]
  <2>1. Len(P) \in Nat /\ \A j \in 1 .. Len(P) : P[j] \in Legacy
    BY LenProperties
  <2>2. 1 \in Int /\ m \in Int /\ \A j \in 1 .. m : P[j] \in Legacy
    BY <2>1
  <2>3. /\ SubSeq(P, 1, m) \in Seq(Legacy)
        /\ Len(SubSeq(P, 1, m)) = IF 1 <= m THEN m - 1 + 1 ELSE 0
        /\ \A j \in 1 .. m - 1 + 1 : SubSeq(P, 1, m)[j] = P[1 + j - 1]
    BY <2>2, SubSeqProperties
  <2> QED BY <2>1, <2>3
<1>3. n \in 0 .. Len(Prompt[r]) /\ n \in 0 .. Len(Prompt[s])
      /\ i \in 0 .. Len(Prompt[r]) /\ i \in 0 .. Len(Prompt[s])
  BY <1>1, LenProperties
<1>4. \A j \in 1 .. n : Prompt[r][j] = Prompt[s][j]
  BY <1>1, <1>2, <1>3 DEF Chain
<1>5. \A j \in 1 .. i : SubSeq(Prompt[r], 1, i)[j] = SubSeq(Prompt[s], 1, i)[j]
  BY <1>1, <1>2, <1>3, <1>4
<1>6. /\ SubSeq(Prompt[r], 1, i) \in Seq(Legacy)
      /\ SubSeq(Prompt[s], 1, i) \in Seq(Legacy)
      /\ Len(SubSeq(Prompt[r], 1, i)) = i /\ Len(SubSeq(Prompt[s], 1, i)) = i
  BY <1>1, <1>2, <1>3
<1> QED BY <1>5, <1>6, SeqEqual DEF Chain

-----------------------------------------------------------------------------
\* What the invariant says of the tables.

\* The invariant gives every variable its type and a well-formed pool.
LEMMA InvFields ==
  ASSUME IInv
  PROVE  /\ GoodPool(pool)
         /\ tables \in [Requests -> Seq(Blocks)]
         /\ lost \in [Blocks -> Nat]
         /\ op \in Ops
BY DEF IInv, TypeOK, FreeListExact, IndexSound, GoodPool

\* Counting the requests that hold a block.
LEMMA UsersCount ==
  ASSUME NEW U, U \subseteq Requests
  PROVE  /\ Cardinality(U) \in Nat
         /\ Cardinality(U) = 0 <=> U = {}
         /\ \A r \in Requests \ U : Cardinality(U \cup {r}) = Cardinality(U) + 1
         /\ \A r \in U : Cardinality(U \ {r}) = Cardinality(U) - 1
<1>1. IsFiniteSet(U)
  BY RequestAssumption, FS_Subset
<1> QED
  BY <1>1, FS_CardinalityType, FS_EmptySet, FS_AddElement, FS_RemoveElement

\* A table position holds an allocated block, counted for its request.
LEMMA HeldAllocated ==
  ASSUME IInv, NEW r \in Requests, NEW i \in 1 .. Len(tables[r])
  PROVE  /\ tables[r][i] \in Blocks /\ tables[r][i] \in pool.alloc
         /\ pool.ref[tables[r][i]] \in Nat /\ pool.ref[tables[r][i]] > 0
         /\ tables[r][i] \in Held(r) /\ r \in Users(tables[r][i])
         /\ pool.data[tables[r][i]] = Chain(r, Dropped(r) + i)
<1> DEFINE b == tables[r][i]
<1>1. tables[r] \in Seq(Blocks) /\ DOMAIN tables[r] = 1 .. Len(tables[r])
      /\ b \in Blocks
  BY InvFields, LenProperties
<1>2. b \in Held(r) /\ r \in Users(b)
  BY <1>1 DEF Held, ToSet, Users
<1>3. lost[b] \in Nat /\ pool.ref[b] = Cardinality(Users(b)) + lost[b]
  BY <1>1, InvFields DEF IInv, RefCountExact
<1>4. Cardinality(Users(b)) \in Nat \ {0}
  <2>1. Users(b) \subseteq Requests /\ Users(b) # {}
    BY <1>2 DEF Users
  <2> QED BY <2>1, UsersCount
<1>5. pool.ref[b] \in Nat /\ pool.ref[b] > 0
  BY <1>3, <1>4
<1>6. b \in pool.alloc
  BY <1>1, <1>5 DEF IInv, FreeListExact, FreeExact
<1> QED
  BY <1>1, <1>2, <1>5, <1>6 DEF IInv, TablesHoldOwnPrefix

\* The lengths of the tables and how far a deletion got.
LEMMA Lengths ==
  ASSUME IInv, NEW r \in Requests
  PROVE  /\ Len(tables[r]) \in Nat /\ DOMAIN tables[r] = 1 .. Len(tables[r])
         /\ Len(Prompt[r]) \in Nat
         /\ Dropped(r) \in Nat
         /\ Dropped(r) + Len(tables[r]) <= Len(Prompt[r])
         /\ op.kind # "delete" \/ op.req # r => Dropped(r) = 0
<1>1. tables[r] \in Seq(Blocks) /\ Prompt[r] \in Seq(Legacy)
  BY InvFields, RequestAssumption
<1>2. op.pos \in Nat /\ op.pos >= 1
  BY InvFields DEF IInv, LoopOK, Ops
<1> QED
  BY <1>1, <1>2, LenProperties DEF IInv, TablesFit, Dropped

\* A table holds a block at most once.
LEMMA TableInjective ==
  ASSUME IInv, NEW r \in Requests,
         NEW i \in 1 .. Len(tables[r]), NEW j \in 1 .. Len(tables[r]),
         tables[r][i] = tables[r][j]
  PROVE  i = j
<1> DEFINE d == Dropped(r)
<1>1. Chain(r, d + i) = Chain(r, d + j)
  BY HeldAllocated
<1>2. d \in Nat /\ d + i \in 1 .. Len(Prompt[r]) /\ d + j \in 1 .. Len(Prompt[r])
  BY SMTT(40), Lengths
<1>3. Len(Chain(r, d + i)) = d + i /\ Len(Chain(r, d + j)) = d + j
  BY <1>2, ChainFacts
<1> QED BY <1>1, <1>2, <1>3

\* A step of the lock holder that changes neither the pool nor a table.
LEMMA QuietStep ==
  ASSUME IInv, UNCHANGED <<pool, tables, lost>>, op' \in Ops, LoopOK',
         \A r \in Requests :
           \/ Dropped(r)' = Dropped(r)
           \/ Dropped(r)' = 0 /\ tables[r] = << >>
  PROVE  IInv'
<1>1. TypeOK'
  BY DEF IInv, TypeOK
<1>2. FreeListExact' /\ IndexSound'
  BY DEF IInv, FreeListExact, IndexSound
<1>3. RefCountExact'
  BY DEF IInv, RefCountExact, Users, Held
<1>4. TablesHoldOwnPrefix'
  <2> SUFFICES ASSUME NEW r \in Requests, NEW i \in 1 .. Len(tables[r])
               PROVE  pool.data[tables[r][i]] = Chain(r, Dropped(r)' + i)
    BY DEF TablesHoldOwnPrefix, Chain
  <2>1. tables[r] # << >>
    BY Lengths
  <2> QED BY <2>1, HeldAllocated
<1>5. TablesFit'
  <2> SUFFICES ASSUME NEW r \in Requests
               PROVE  Dropped(r)' + Len(tables[r]) <= Len(Prompt[r])
    BY DEF TablesFit
  <2>1. Len(<< >>) = 0
    BY EmptySeq
  <2> QED BY <2>1, Lengths
<1> QED BY <1>1, <1>2, <1>3, <1>4, <1>5 DEF IInv

-----------------------------------------------------------------------------
\* Methods that take the lock.

\* What Begin sets, whatever the method.
LEMMA BeginFacts ==
  ASSUME IInv, NEW kind \in Kinds \ {"idle"},
         NEW r \in Requests \cup {None}, NEW s \in Requests \cup {None},
         NEW f \in Nat, NEW l \in Nat, Begin(kind, r, s, f, l)
  PROVE  /\ op' \in Ops
         /\ op'.kind = kind /\ op'.req = r /\ op'.src = s
         /\ op'.pos = f /\ op'.last = l /\ op'.hits = << >>
         /\ \A t \in Requests : Dropped(t) = 0
         /\ kind # "delete" \/ f = 1 => \A t \in Requests : Dropped(t)' = 0
<1>1. op' = [kind |-> kind, req |-> r, src |-> s, pos |-> f, last |-> l, hits |-> << >>]
  BY DEF Begin
<1>2. << >> \in Seq(Blocks)
  BY EmptySeq
<1>3. op' \in Ops
  BY <1>1, <1>2 DEF Ops
<1>4. op.kind = "idle"
  BY DEF Begin, Idle
<1>5. \A t \in Requests : Dropped(t) = 0
  BY <1>4 DEF Dropped
<1> QED BY <1>1, <1>3, <1>5 DEF Dropped

\* Starting to allocate: enough blocks are free for the whole loop.
LEMMA GetNewBlocksKeeps ==
  ASSUME IInv, NEW r \in Requests, NEW n \in 1 .. NumBlocks, GetNewBlocks(r, n)
  PROVE  IInv'
<1>1. /\ n \in Nat /\ Begin("grow", r, r, 1, n)
      /\ n <= Len(pool.free) /\ Len(tables[r]) + n <= Len(Prompt[r])
      /\ UNCHANGED <<pool, tables, lost>>
  BY DEF GetNewBlocks
<1>2. /\ op' \in Ops /\ op'.kind = "grow" /\ op'.req = r
      /\ op'.pos = 1 /\ op'.last = n
      /\ \A t \in Requests : Dropped(t)' = Dropped(t)
  BY <1>1, BeginFacts DEF Kinds
<1>3. Len(tables[r]) \in Nat
  BY Lengths
<1>4. LoopOK'
  BY <1>1, <1>2, <1>3 DEF LoopOK, GrowOK
<1> QED BY <1>1, <1>2, <1>4, QuietStep

\* Starting to publish: the block before the first one is published.
LEMMA CacheFullBlocksKeeps ==
  ASSUME IInv, NEW r \in Requests, NEW n \in 1 .. NumBlocks, NEW k \in 0 .. n - 1,
         CacheFullBlocks(r, k, n)
  PROVE  IInv'
<1>1. /\ n \in Nat /\ k \in Nat /\ k < n /\ n <= Len(tables[r])
      /\ k > 0 => pool.hash[tables[r][k]] # None
      /\ Begin("cache", r, r, k + 1, n)
      /\ UNCHANGED <<pool, tables, lost>>
  BY DEF CacheFullBlocks
<1>2. /\ op' \in Ops /\ op'.kind = "cache" /\ op'.req = r
      /\ op'.pos = k + 1 /\ op'.last = n
      /\ \A t \in Requests : Dropped(t)' = Dropped(t)
  <2>1. k + 1 \in Nat /\ "cache" \in Kinds \ {"idle"}
    BY <1>1 DEF Kinds
  <2> QED BY <1>1, <2>1, BeginFacts
<1>3. LoopOK'
  BY <1>1, <1>2 DEF LoopOK, CacheOK
<1> QED BY <1>1, <1>2, <1>3, QuietStep

\* Starting a lookup: nothing is found yet.
LEMMA LookupKeeps ==
  ASSUME IInv, NEW r \in Requests, Lookup(r)
  PROVE  IInv'
<1>1. /\ tables[r] = << >> /\ Begin("lookup", r, r, 1, Len(Prompt[r]))
      /\ UNCHANGED <<pool, tables, lost>>
  BY DEF Lookup
<1>2. Len(Prompt[r]) \in Nat
  BY Lengths
<1>3. /\ op' \in Ops /\ op'.kind = "lookup" /\ op'.req = r
      /\ op'.pos = 1 /\ op'.last = Len(Prompt[r]) /\ op'.hits = << >>
      /\ \A t \in Requests : Dropped(t)' = Dropped(t)
  BY <1>1, <1>2, BeginFacts DEF Kinds
<1>4. LoopOK'
  BY <1>1, <1>2, <1>3, EmptySeq DEF LoopOK, LookupOK
<1> QED BY <1>1, <1>3, <1>4, QuietStep

\* Starting a fork: both prompts agree on the blocks to be shared.
LEMMA ForkBlockTableKeeps ==
  ASSUME IInv, NEW r \in Requests, NEW s \in Requests, ForkBlockTable(r, s)
  PROVE  IInv'
<1>1. /\ tables[r] # << >> /\ tables[s] = << >>
      /\ Len(tables[r]) <= Len(Prompt[s])
      /\ Chain(r, Len(tables[r])) = Chain(s, Len(tables[r]))
      /\ Begin("fork", s, r, 1, Len(tables[r]))
      /\ UNCHANGED <<pool, tables, lost>>
  BY DEF ForkBlockTable
<1>2. /\ Len(tables[r]) \in Nat /\ Len(tables[r]) <= Len(Prompt[r])
      /\ Len(Prompt[r]) \in Nat /\ Len(Prompt[s]) \in Nat
      /\ Len(tables[s]) = 0 /\ r # s
  BY <1>1, Lengths, EmptySeq
<1>3. /\ op' \in Ops /\ op'.kind = "fork" /\ op'.req = s /\ op'.src = r
      /\ op'.pos = 1 /\ op'.last = Len(tables[r])
      /\ \A t \in Requests : Dropped(t)' = Dropped(t)
  BY <1>1, <1>2, BeginFacts DEF Kinds
<1>4. \A i \in 1 .. Len(tables[r]) : Chain(r, i) = Chain(s, i)
  BY <1>1, <1>2, ChainPrefix
<1>5. LoopOK'
  BY <1>1, <1>2, <1>3, <1>4 DEF LoopOK, ForkOK, Chain
<1> QED BY <1>1, <1>3, <1>5, QuietStep

\* Starting to make blocks private.
LEMMA GetBlocksForGenerationKeeps ==
  ASSUME IInv, NEW r \in Requests, GetBlocksForGeneration(r)
  PROVE  IInv'
<1>1. /\ Begin("cow", r, r, 1, Len(tables[r]))
      /\ UNCHANGED <<pool, tables, lost>> /\ Len(tables[r]) \in Nat
  BY Lengths DEF GetBlocksForGeneration
<1>2. /\ op' \in Ops /\ op'.kind = "cow" /\ op'.req = r
      /\ op'.pos = 1 /\ op'.last = Len(tables[r])
      /\ \A t \in Requests : Dropped(t)' = Dropped(t)
  BY <1>1, BeginFacts DEF Kinds
<1>3. LoopOK'
  BY <1>1, <1>2 DEF LoopOK
<1> QED BY <1>1, <1>2, <1>3, QuietStep

\* Starting to delete: no block is dropped yet.
LEMMA DeleteBlockTableKeeps ==
  ASSUME IInv, NEW r \in Requests, DeleteBlockTable(r)
  PROVE  IInv'
<1>1. /\ Begin("delete", r, r, 1, Len(tables[r]))
      /\ UNCHANGED <<pool, tables, lost>> /\ Len(tables[r]) \in Nat
  BY Lengths DEF DeleteBlockTable
<1>2. /\ op' \in Ops /\ op'.kind = "delete" /\ op'.req = r
      /\ op'.pos = 1 /\ op'.last = Len(tables[r])
      /\ \A t \in Requests : Dropped(t)' = Dropped(t)
  BY <1>1, BeginFacts DEF Kinds
<1>3. LoopOK'
  BY <1>1, <1>2 DEF LoopOK
<1> QED BY <1>1, <1>2, <1>3, QuietStep

\* Starting to evict: there is a free block for each round.
LEMMA HandleMemoryPressureKeeps ==
  ASSUME IInv, NEW k \in 1 .. NumBlocks, HandleMemoryPressure(k)
  PROVE  IInv'
<1> DEFINE m == k - Len(pool.free)
           l == IF m < Len(pool.free) THEN m ELSE Len(pool.free)
<1>1. /\ m > 0 /\ Begin("evict", None, None, 1, l)
      /\ UNCHANGED <<pool, tables, lost>>
  BY DEF HandleMemoryPressure
<1>2. Len(pool.free) \in Nat
  BY InvFields, PoolFields, LenProperties DEF GoodPool
<1>3. l \in Nat /\ l <= Len(pool.free)
  BY <1>1, <1>2
<1> HIDE DEF l
<1>4. /\ op' \in Ops /\ op'.kind = "evict" /\ op'.pos = 1 /\ op'.last = l
      /\ \A t \in Requests : Dropped(t)' = Dropped(t)
  BY <1>1, <1>3, BeginFacts DEF Kinds
<1>5. LoopOK'
  BY <1>1, <1>3, <1>4 DEF LoopOK
<1> QED BY <1>1, <1>4, <1>5, QuietStep

-----------------------------------------------------------------------------
\* The steps of the loops.

\* The fields of the running method.
LEMMA OpFields ==
  ASSUME IInv
  PROVE  /\ op.kind \in Kinds /\ op.pos \in Nat /\ op.last \in Nat
         /\ op.req \in Requests \cup {None} /\ op.src \in Requests \cup {None}
         /\ op.hits \in Seq(Blocks)
         /\ op = [kind |-> op.kind, req |-> op.req, src |-> op.src,
                  pos |-> op.pos, last |-> op.last, hits |-> op.hits]
BY InvFields DEF Ops

\* The loop goes on to the next position.
LEMMA NextPosition ==
  ASSUME IInv, op' = [op EXCEPT !.pos = @ + 1]
  PROVE  /\ op' \in Ops
         /\ op'.kind = op.kind /\ op'.req = op.req /\ op'.src = op.src
         /\ op'.last = op.last /\ op'.hits = op.hits /\ op'.pos = op.pos + 1
<1>1. op'.pos = op.pos + 1 /\ op.pos + 1 \in Nat
  BY OpFields
<1> QED BY <1>1, OpFields DEF Ops

\* The invariant, put together from a well-formed pool.
LEMMA InvFromParts ==
  ASSUME GoodPool(pool'), tables' \in [Requests -> Seq(Blocks)],
         lost' \in [Blocks -> Nat], op' \in Ops,
         \A b \in Blocks : pool'.hash[b] # None => pool'.data[b] = pool'.hash[b],
         \A v \in Legacy : pool'.lmap[v] # None =>
           LET h == pool'.hash[pool'.lmap[v]] IN h[Len(h)] = v,
         RefCountExact', TablesHoldOwnPrefix', TablesFit', LoopOK'
  PROVE  IInv'
BY DEF IInv, TypeOK, FreeListExact, IndexSound, GoodPool

\* A block that holds the next prefix of a request is not in its table yet.
LEMMA NextNotHeld ==
  ASSUME IInv, NEW r \in Requests, Dropped(r) = 0,
         Len(tables[r]) + 1 <= Len(Prompt[r]),
         NEW b \in Blocks, pool.data[b] = Chain(r, Len(tables[r]) + 1)
  PROVE  b \notin Held(r)
<1> DEFINE n == Len(tables[r])
<1>1. n \in Nat /\ DOMAIN tables[r] = 1 .. n /\ Len(Prompt[r]) \in Nat
  BY Lengths
<1> SUFFICES ASSUME NEW i \in 1 .. n, tables[r][i] = b
             PROVE  FALSE
  BY <1>1 DEF Held, ToSet
<1>2. Chain(r, i) = Chain(r, n + 1)
  BY HeldAllocated
<1>3. Len(Chain(r, i)) = i /\ Len(Chain(r, n + 1)) = n + 1
  BY <1>1, ChainFacts
<1> QED BY <1>1, <1>2, <1>3

\* A request that is not being deleted gets one more block, which holds the
\* next prefix of its prompt and gains a reference.
LEMMA TableGrows ==
  ASSUME IInv, NEW r \in Requests, NEW b \in Blocks, b \notin Held(r),
         Len(tables[r]) + 1 <= Len(Prompt[r]),
         op.kind # "delete", op'.kind # "delete",
         tables' = [tables EXCEPT ![r] = Append(@, b)], lost' = lost,
         pool'.ref[b] = pool.ref[b] + 1,
         \A c \in Blocks \ {b} : pool'.ref[c] = pool.ref[c],
         \A c \in pool.alloc : pool'.data[c] = pool.data[c],
         pool'.data[b] = Chain(r, Len(tables[r]) + 1)
  PROVE  /\ tables' \in [Requests -> Seq(Blocks)]
         /\ Len(tables'[r]) = Len(tables[r]) + 1
         /\ \A s \in Requests \ {r} : tables'[s] = tables[s]
         /\ RefCountExact' /\ TablesHoldOwnPrefix' /\ TablesFit'
<1> DEFINE n == Len(tables[r])
           t == Append(tables[r], b)
<1>1. /\ tables \in [Requests -> Seq(Blocks)] /\ lost \in [Blocks -> Nat]
      /\ tables[r] \in Seq(Blocks)
      /\ pool.ref \in [Blocks -> Nat]
  BY InvFields, PoolFields DEF GoodPool
<1>2. /\ t \in Seq(Blocks) /\ Len(t) = n + 1 /\ DOMAIN t = 1 .. n + 1
      /\ \A i \in 1 .. n : t[i] = tables[r][i]
      /\ t[n + 1] = b
  BY <1>1, AppendProperties, LenProperties
<1>3. n \in Nat /\ DOMAIN tables[r] = 1 .. n
  BY Lengths
<1>4. tables'[r] = t /\ \A s \in Requests \ {r} : tables'[s] = tables[s]
  BY <1>1
<1>t. ToSet(t) = ToSet(tables[r]) \cup {b}
  BY <1>1, AppendToSet
<1> HIDE DEF t, n
<1>5. tables' \in [Requests -> Seq(Blocks)]
  BY <1>1, <1>2, <1>4
<1>6. \A s \in Requests : Dropped(s) = 0 /\ Dropped(s)' = 0
  BY DEF Dropped
<1>7. RefCountExact'
  <2>1. ToSet(t) = ToSet(tables[r]) \cup {b}
    BY <1>t
  <2>2. r \notin Users(b) /\ Users(b) \subseteq Requests
    BY DEF Users
  <2>3. Users(b)' = Users(b) \cup {r}
    BY <1>4, <2>1 DEF Users, Held
  <2>4. \A c \in Blocks \ {b} : Users(c)' = Users(c)
    BY <1>4, <2>1 DEF Users, Held
  <2>5. Cardinality(Users(b)') = Cardinality(Users(b)) + 1 /\ Cardinality(Users(b)) \in Nat
    BY <2>2, <2>3, UsersCount
  <2>6. pool.ref[b] = Cardinality(Users(b)) + lost[b] /\ lost[b] \in Nat
    BY <1>1 DEF IInv, RefCountExact
  <2>7. pool'.ref[b] = Cardinality(Users(b)') + lost'[b]
    BY <1>1, <2>5, <2>6
  <2>8. ASSUME NEW c \in Blocks \ {b}
        PROVE  pool'.ref[c] = Cardinality(Users(c)') + lost'[c]
    BY <1>1, <2>4 DEF IInv, RefCountExact
  <2> QED BY <2>7, <2>8 DEF RefCountExact
<1>8. TablesHoldOwnPrefix'
  <2> SUFFICES ASSUME NEW s \in Requests, NEW i \in 1 .. Len(tables'[s])
               PROVE  pool'.data[tables'[s][i]] = Chain(s, i)
    BY <1>6, <1>5, LenProperties DEF TablesHoldOwnPrefix, Chain
  <2>1. CASE s = r /\ i = n + 1
    BY <2>1, <1>2, <1>4 DEF n
  <2>2. CASE ~ (s = r /\ i = n + 1)
    <3>1. i \in 1 .. Len(tables[s]) /\ tables'[s][i] = tables[s][i]
      BY <2>2, <1>2, <1>3, <1>4 DEF n
    <3>2. /\ tables[s][i] \in pool.alloc
          /\ pool.data[tables[s][i]] = Chain(s, Dropped(s) + i)
      BY <3>1, HeldAllocated
    <3> QED BY <3>1, <3>2, <1>6
  <2> QED BY <2>1, <2>2
<1>9. TablesFit'
  <2> SUFFICES ASSUME NEW s \in Requests
               PROVE  Len(tables'[s]) <= Len(Prompt[s])
    BY <1>5, <1>6, LenProperties DEF TablesFit
  <2> QED BY <1>2, <1>4, <1>6, Lengths DEF n
<1> QED BY <1>2, <1>4, <1>5, <1>7, <1>8, <1>9 DEF n

\* Allocating one block gives the request the next block of its prompt.
LEMMA GrowStepKeeps ==
  ASSUME IInv, GrowStep
  PROVE  IInv'
<1> DEFINE r == op.req
           b == NextFree(pool)
           n == Len(tables[r])
           d == Chain(r, n + 1)
<1>1. op.kind = "grow" /\ op.pos <= op.last /\ r \in Requests /\ GrowOK(r)
  BY DEF GrowStep, IInv, LoopOK
<1>2. /\ pool' = SetData(Allocate(pool), b, d)
      /\ tables' = [tables EXCEPT ![r] = Append(@, b)]
      /\ op' = [op EXCEPT !.pos = @ + 1]
      /\ lost' = lost
  BY DEF GrowStep
<1>3. /\ op.pos \in Nat /\ op.last \in Nat /\ n \in Nat
      /\ Len(Prompt[r]) \in Nat /\ n + 1 <= Len(Prompt[r])
  BY <1>1, OpFields, Lengths DEF GrowOK
<1>4. GoodPool(pool) /\ pool.free \in Seq(Blocks) /\ Len(pool.free) \in Nat
      /\ pool.free # << >> /\ lost \in [Blocks -> Nat]
  BY <1>1, <1>3, InvFields, PoolFields, LenProperties, EmptySeq DEF GrowOK, GoodPool
<1>5. d \in Data
  BY <1>1, <1>3, ChainFacts
<1> HIDE DEF d
<1> DEFINE a == Allocate(pool)
<1>6. /\ GoodPool(a)
      /\ b \in Blocks \ pool.alloc /\ pool.ref[b] = 0
      /\ Len(a.free) = Len(pool.free) - 1
      /\ a.ref = [pool.ref EXCEPT ![b] = 1]
      /\ a.hash[b] = None
      /\ \A c \in Blocks \ {b} : a.hash[c] = pool.hash[c] /\ a.data[c] = pool.data[c]
      /\ \A v \in Legacy : a.lmap[v] # None => a.lmap[v] = pool.lmap[v] /\ a.lmap[v] # b
  BY <1>4, AllocateGood
<1>7. pool' = SetData(a, b, d)
  BY <1>2
<1> HIDE DEF a, b
<1>8. /\ GoodPool(pool')
      /\ pool'.free = a.free /\ pool'.alloc = a.alloc /\ pool'.ref = a.ref
      /\ pool'.hash = a.hash /\ pool'.lmap = a.lmap
      /\ pool'.data = [a.data EXCEPT ![b] = d]
  <2>1. GoodPool(a) /\ b \in Blocks
    BY <1>6
  <2> QED BY <2>1, <1>5, <1>7, SetDataGood
<1>9. /\ pool'.data[b] = d
      /\ \A c \in Blocks \ {b} : pool'.data[c] = pool.data[c]
  BY <1>6, <1>8, PoolFields DEF GoodPool
<1>10. pool.alloc \subseteq Blocks /\ pool.ref \in [Blocks -> Nat]
       /\ pool.lmap \in [Legacy -> Blocks \cup {None}]
  BY <1>4, PoolFields DEF GoodPool
<1>11. b \notin Held(r)
  <2>1. \A i \in 1 .. n : tables[r][i] \in pool.alloc
    BY <1>1, HeldAllocated
  <2>2. DOMAIN tables[r] = 1 .. n
    BY <1>1, Lengths
  <2> QED BY <2>1, <2>2, <1>6 DEF Held, ToSet
<1>12. op' \in Ops /\ op'.kind = op.kind /\ op'.req = r
       /\ op'.last = op.last /\ op'.pos = op.pos + 1
  BY <1>2, NextPosition
<1>13. /\ tables' \in [Requests -> Seq(Blocks)]
       /\ Len(tables'[r]) = n + 1
       /\ RefCountExact' /\ TablesHoldOwnPrefix' /\ TablesFit'
  <2>1. op.kind # "delete" /\ op'.kind # "delete"
    BY <1>1, <1>12
  <2>2. pool'.ref[b] = pool.ref[b] + 1 /\ \A c \in Blocks \ {b} : pool'.ref[c] = pool.ref[c]
    BY <1>6, <1>8, <1>10
  <2>3. \A c \in pool.alloc : pool'.data[c] = pool.data[c]
    BY <1>6, <1>9, <1>10
  <2>4. pool'.data[b] = Chain(r, Len(tables[r]) + 1)
    BY <1>9 DEF d
  <2> QED BY <1>1, <1>2, <1>3, <1>6, <1>11, <2>1, <2>2, <2>3, <2>4, TableGrows DEF b
<1>14. LoopOK'
  <2>1. op'.pos >= 1 /\ op'.pos <= op'.last + 1
    BY <1>1, <1>3, <1>12
  <2>2. Len(tables'[r]) + (op'.last - op'.pos + 1) = n + (op.last - op.pos + 1)
    <3>1. /\ Len(tables'[r]) = n + 1
          /\ op'.last = op.last /\ op'.pos = op.pos + 1
      BY <1>12, <1>13
    <3>2. n \in Nat /\ op.pos \in Nat /\ op.last \in Nat
      BY <1>3
    <3>3. ASSUME NEW x \in Nat, NEW y \in Nat, NEW z \in Nat
          PROVE  (x + 1) + (y - (z + 1) + 1) = x + (y - z + 1)
      OBVIOUS
    <3>4. (n + 1) + (op.last - (op.pos + 1) + 1) = n + (op.last - op.pos + 1)
      BY <3>2, <3>3
    <3> QED BY <3>1, <3>4
  <2>3. Len(tables'[r]) + (op'.last - op'.pos + 1) <= Len(Prompt[r])
    BY <2>2, <1>1 DEF GrowOK
  <2>4. op'.last - op'.pos + 1 <= Len(pool'.free)
    BY <1>1, <1>3, <1>4, <1>6, <1>8, <1>12 DEF GrowOK
  <2> QED BY <2>1, <2>3, <2>4, <1>1, <1>12 DEF LoopOK, GrowOK
<1>15. \A c \in Blocks : pool'.hash[c] # None => pool'.data[c] = pool'.hash[c]
  BY <1>6, <1>8, <1>9 DEF IInv, IndexSound
<1>16. \A v \in Legacy : pool'.lmap[v] # None =>
         pool'.lmap[v] = pool.lmap[v] /\ pool'.hash[pool'.lmap[v]] = pool.hash[pool.lmap[v]]
  BY <1>6, <1>8, <1>10
<1>17. \A v \in Legacy : pool'.lmap[v] # None =>
         LET h == pool'.hash[pool'.lmap[v]] IN h[Len(h)] = v
  BY <1>16 DEF IInv, IndexSound
<1> QED
  BY <1>2, <1>4, <1>8, <1>12, <1>13, <1>14, <1>15, <1>17, InvFromParts

\* Publishing a block of a table indexes it under the prefix it holds.
LEMMA PublishKeeps ==
  ASSUME IInv, NEW r \in Requests, NEW i \in 1 .. Len(tables[r]),
         NEW b, b = tables[r][i], pool.hash[b] = None,
         NEW h, h = Chain(r, i), NEW v, v = Prompt[r][i],
         pool' = Publish(pool, b, h, v),
         tables' = tables, lost' = lost, op' \in Ops,
         \A s \in Requests : Dropped(s) = 0 /\ Dropped(s)' = 0,
         pool'.hash[b] # None => LoopOK'
  PROVE  IInv'
<1>1. b \in Blocks /\ pool.data[b] = h /\ i \in 1 .. Len(Prompt[r])
  BY HeldAllocated, Lengths
<1>2. h \in Hash /\ v \in Legacy /\ h[Len(h)] = v /\ h # None
  BY <1>1, ChainFacts
<1>3. /\ GoodPool(pool')
      /\ pool'.free = pool.free /\ pool'.alloc = pool.alloc /\ pool'.ref = pool.ref
      /\ pool'.data = pool.data
      /\ pool'.hash[b] = h /\ \A c \in Blocks \ {b} : pool'.hash[c] = pool.hash[c]
      /\ pool'.lmap[v] = b /\ \A u \in Legacy \ {v} : pool'.lmap[u] = pool.lmap[u]
  <2>1. GoodPool(pool)
    BY InvFields
  <2> QED BY <2>1, <1>1, <1>2, PublishGood
<1>4. /\ pool.hash \in [Blocks -> Hash \cup {None}]
      /\ pool.lmap \in [Legacy -> Blocks \cup {None}]
  BY InvFields, PoolFields DEF GoodPool
<1>5. \A c \in Blocks : pool'.hash[c] # None => pool'.data[c] = pool'.hash[c]
  BY <1>1, <1>3, <1>4 DEF IInv, IndexSound
<1>6. ASSUME NEW u \in Legacy, pool'.lmap[u] # None
      PROVE  LET g == pool'.hash[pool'.lmap[u]] IN g[Len(g)] = u
  <2>1. CASE u = v
    <3>1. pool'.lmap[u] = b /\ pool'.hash[b] = h
      BY <2>1, <1>1, <1>2, <1>3, <1>4
    <3> QED BY <2>1, <3>1, <1>2
  <2>2. CASE u # v
    <3>1. pool'.lmap[u] = pool.lmap[u] /\ pool.lmap[u] \in Blocks
      BY <2>2, <1>3, <1>4, <1>6
    <3>2. pool.hash[pool.lmap[u]] # None
      BY <3>1, <1>6 DEF IInv, IndexSound, IndexExact
    <3>3. pool'.hash[pool'.lmap[u]] = pool.hash[pool.lmap[u]]
      BY <3>1, <3>2, <1>3, <1>4
    <3> QED BY <3>1, <3>3, <1>6 DEF IInv, IndexSound
  <2> QED BY <2>1, <2>2
<1>7. RefCountExact'
  BY <1>3 DEF IInv, RefCountExact, Users, Held
<1>8. TablesHoldOwnPrefix'
  <2> SUFFICES ASSUME NEW s \in Requests, NEW j \in 1 .. Len(tables[s])
               PROVE  pool.data[tables[s][j]] = Chain(s, Dropped(s)' + j)
    BY ZenonT(40), <1>3 DEF TablesHoldOwnPrefix, Chain
  <2> QED BY HeldAllocated
<1>9. TablesFit'
  BY DEF IInv, TablesFit
<1>10. pool'.hash[b] # None
  BY <1>1, <1>2, <1>3, <1>4
<1>11. tables' \in [Requests -> Seq(Blocks)] /\ lost' \in [Blocks -> Nat]
  BY InvFields
<1> QED
  BY <1>3, <1>5, <1>6, <1>7, <1>8, <1>9, <1>10, <1>11, InvFromParts

\* A block is published under the chain hash of what it holds.
LEMMA CacheStepKeeps ==
  ASSUME IInv, CacheStep
  PROVE  IInv'
<1> DEFINE r == op.req
           i == op.pos
           b == tables[r][i]
           parent == IF i = 1 THEN << >> ELSE pool.hash[tables[r][i - 1]]
           v == Prompt[r][i]
<1>1. /\ op.kind = "cache" /\ i <= op.last /\ i >= 1 /\ r \in Requests /\ CacheOK(r)
      /\ op' = [op EXCEPT !.pos = @ + 1]
      /\ tables' = tables /\ lost' = lost
      /\ pool' = IF pool.hash[b] # None THEN pool
                 ELSE Publish(pool, b, Append(parent, v), v)
  BY DEF CacheStep, IInv, LoopOK
<1>2. /\ i \in Nat /\ op.last \in Nat /\ i \in 1 .. Len(tables[r])
      /\ i \in 1 .. Len(Prompt[r]) /\ Dropped(r) = 0
  BY <1>1, OpFields, Lengths DEF CacheOK
<1>4. op' \in Ops /\ op'.kind = "cache" /\ op'.req = r
      /\ op'.last = op.last /\ op'.pos = i + 1
  BY <1>1, NextPosition
<1>5. \A s \in Requests : Dropped(s)' = 0 /\ Dropped(s) = 0
  BY <1>1, <1>4 DEF Dropped
<1>6. pool'.hash[b] # None => LoopOK'
  <2>1. op'.pos - 1 = i /\ op'.pos >= 1 /\ op'.pos <= op'.last + 1
        /\ op'.last <= Len(tables'[r])
    BY <1>1, <1>2, <1>4 DEF CacheOK
  <2> QED BY <1>1, <1>4, <2>1 DEF LoopOK, CacheOK
<1>7. CASE pool.hash[b] # None
  <2>1. pool' = pool
    BY <1>1, <1>7
  <2> QED BY <1>1, <1>4, <1>5, <1>6, <1>7, <2>1, QuietStep
<1>8. CASE pool.hash[b] = None
  <2>1. parent = IF i = 1 THEN << >> ELSE Chain(r, i - 1)
    <3>1. CASE i = 1
      BY <3>1
    <3>2. CASE i # 1
      <4>1. i - 1 \in 1 .. Len(tables[r]) /\ i > 1
        BY <1>2, <3>2
      <4>2. tables[r][i - 1] \in Blocks /\ pool.data[tables[r][i - 1]] = Chain(r, i - 1)
        BY <4>1, <1>1, <1>2, HeldAllocated
      <4>3. pool.hash[tables[r][i - 1]] # None
        BY <4>1, <1>1 DEF CacheOK
      <4> QED BY <3>2, <4>2, <4>3 DEF IInv, IndexSound
    <3> QED BY <3>1, <3>2
  <2>2. pool' = Publish(pool, b, Append(parent, v), v)
    BY <1>1, <1>8
  <2> HIDE DEF parent
  <2>3. Append(parent, v) = Chain(r, i)
    BY <1>1, <1>2, <2>1, ChainFacts
  <2>4. pool' = Publish(pool, b, Chain(r, i), v)
    BY <2>2, <2>3
  <2> QED
    BY <1>1, <1>2, <1>4, <1>5, <1>6, <1>8, <2>4, PublishKeeps
<1> QED BY <1>7, <1>8

\* A lookup only collects blocks that are indexed under r's own chain.
LEMMA LookupStepKeeps ==
  ASSUME IInv, LookupStep
  PROVE  IInv'
<1> DEFINE r == op.req
           b == GetBlock(pool, Chain(r, op.pos))
           n == Len(op.hits)
<1>1. /\ op.kind = "lookup" /\ r \in Requests /\ LookupOK(r)
      /\ UNCHANGED <<pool, tables, lost>>
      /\ op' = IF op.pos <= op.last /\ b # None
               THEN [op EXCEPT !.pos = @ + 1, !.hits = Append(@, b)]
               ELSE [op EXCEPT !.kind = "touch"]
  BY DEF LookupStep, IInv, LoopOK
<1>2. /\ op.hits \in Seq(Blocks) /\ n \in Nat /\ op.pos = n + 1
      /\ op.last = Len(Prompt[r]) /\ Len(Prompt[r]) \in Nat
      /\ op.pos <= op.last + 1
      /\ \A i \in 1 .. n : pool.hash[op.hits[i]] = Chain(r, i)
      /\ tables[r] = << >> /\ Len(tables[r]) = 0
  BY <1>1, OpFields, Lengths, LenProperties, EmptySeq DEF LookupOK
<1>3. CASE op.pos <= op.last /\ b # None
  <2> DEFINE t == Append(op.hits, b)
  <2>1. op' = [op EXCEPT !.pos = @ + 1, !.hits = t]
    BY <1>1, <1>3
  <2>2. op.pos \in 1 .. Len(Prompt[r])
    BY <1>2, <1>3
  <2>3. b \in Blocks /\ pool.hash[b] = Chain(r, op.pos)
    BY <1>1, <1>3, <2>2, InvFields, ChainFacts, GetBlockFinds
  <2> HIDE DEF b
  <2>4. /\ t \in Seq(Blocks) /\ Len(t) = n + 1
        /\ \A i \in 1 .. n : t[i] = op.hits[i]
        /\ t[n + 1] = b
    BY <1>2, <2>3, AppendProperties
  <2> HIDE DEF t
  <2>5. /\ op' \in Ops /\ op'.kind = "lookup" /\ op'.req = r /\ op'.last = op.last
        /\ op'.pos = op.pos + 1 /\ op'.hits = t
    <3>1. op.pos + 1 \in Nat
      BY OpFields
    <3> QED BY <1>1, <2>1, <2>4, <3>1, OpFields DEF Ops
  <2>6. \A i \in 1 .. n + 1 : pool.hash[t[i]] = Chain(r, i)
    BY <1>2, <2>3, <2>4
  <2>7. LoopOK'
    <3>1. op'.pos >= 1 /\ op'.pos <= op'.last + 1 /\ op'.pos = Len(op'.hits) + 1
      BY <1>2, <1>3, <2>4, <2>5
    <3>2. \A i \in 1 .. Len(op'.hits) : pool'.hash[op'.hits[i]] = Chain(r, i)
      BY <1>1, <2>4, <2>5, <2>6
    <3> QED BY <1>1, <1>2, <2>5, <3>1, <3>2 DEF LoopOK, LookupOK, Chain
  <2>8. \A s \in Requests : Dropped(s)' = Dropped(s)
    BY <1>1, <2>5 DEF Dropped
  <2> QED BY <1>1, <2>5, <2>7, <2>8, QuietStep
<1>4. CASE ~ (op.pos <= op.last /\ b # None)
  <2>1. op' = [op EXCEPT !.kind = "touch"]
    BY <1>1, <1>4
  <2>2. /\ op' \in Ops /\ op'.kind = "touch" /\ op'.req = r /\ op'.hits = op.hits
        /\ op'.pos = op.pos
    BY <2>1, OpFields DEF Ops, Kinds
  <2>3. LoopOK'
    <3>1. op'.pos >= 1 /\ Len(tables'[r]) + Len(op'.hits) <= Len(Prompt[r])
      BY <1>1, <1>2, <2>2
    <3>2. \A i \in 1 .. Len(op'.hits) :
            pool'.hash[op'.hits[i]] = Chain(r, Len(tables'[r]) + i)
      BY <1>1, <1>2, <2>2
    <3> QED BY <1>1, <2>2, <3>1, <3>2 DEF LoopOK, TouchOK, Chain
  <2>4. \A s \in Requests : Dropped(s)' = Dropped(s)
    BY <1>1, <2>2 DEF Dropped
  <2> QED BY <1>1, <2>2, <2>3, <2>4, QuietStep
<1> QED BY <1>3, <1>4

\* A hit is taken over by the table of the request.
LEMMA TakeOverKeeps ==
  ASSUME IInv, NEW r \in Requests, NEW b \in Blocks,
         pool.data[b] = Chain(r, Len(tables[r]) + 1),
         Len(tables[r]) + 1 <= Len(Prompt[r]),
         op.kind # "delete", op'.kind # "delete", op' \in Ops,
         GoodPool(pool'), pool'.ref[b] = pool.ref[b] + 1,
         \A c \in Blocks \ {b} : pool'.ref[c] = pool.ref[c],
         pool'.hash = pool.hash, pool'.data = pool.data, pool'.lmap = pool.lmap,
         tables' = [tables EXCEPT ![r] = Append(@, b)], lost' = lost,
         /\ Len(tables'[r]) = Len(tables[r]) + 1
         /\ \A s \in Requests \ {r} : tables'[s] = tables[s]
         => LoopOK'
  PROVE  IInv'
<1>1. Dropped(r) = 0
  BY DEF Dropped
<1>2. b \notin Held(r)
  BY <1>1, NextNotHeld
<1>3. /\ tables' \in [Requests -> Seq(Blocks)]
      /\ Len(tables'[r]) = Len(tables[r]) + 1
      /\ \A s \in Requests \ {r} : tables'[s] = tables[s]
      /\ RefCountExact' /\ TablesHoldOwnPrefix' /\ TablesFit'
  BY <1>2, TableGrows
<1>4. /\ \A c \in Blocks : pool'.hash[c] # None => pool'.data[c] = pool'.hash[c]
      /\ \A v \in Legacy : pool'.lmap[v] # None =>
           LET h == pool'.hash[pool'.lmap[v]] IN h[Len(h)] = v
  BY DEF IInv, IndexSound
<1>5. lost' \in [Blocks -> Nat]
  BY InvFields
<1> QED BY <1>3, <1>4, <1>5, InvFromParts

\* A hit that is taken over leaves the free queue and is counted.
LEMMA TouchStepKeeps ==
  ASSUME IInv, TouchStep
  PROVE  IInv'
<1> DEFINE r == op.req
           b == Head(op.hits)
           n == Len(tables[r])
           t == Tail(op.hits)
<1>1. /\ op.kind = "touch" /\ op.hits # << >> /\ r \in Requests /\ TouchOK(r)
      /\ pool' = Touch(pool, b)
      /\ tables' = [tables EXCEPT ![r] = Append(@, b)]
      /\ op' = [op EXCEPT !.hits = t]
      /\ lost' = lost
  BY DEF TouchStep, IInv, LoopOK
<1>2. /\ op.hits \in Seq(Blocks) /\ Len(op.hits) \in Nat \ {0}
      /\ n \in Nat /\ Len(Prompt[r]) \in Nat
      /\ b \in Blocks /\ b = op.hits[1]
      /\ t \in Seq(Blocks) /\ Len(t) = Len(op.hits) - 1
      /\ \A i \in 1 .. Len(t) : t[i] = op.hits[i + 1]
  BY <1>1, OpFields, Lengths, LenProperties, EmptySeq, HeadTailProperties
<1>r. r = op.req /\ n = Len(tables[r])
  OBVIOUS
<1> HIDE DEF r, b, n, t
<1>3. n + Len(op.hits) <= Len(Prompt[r])
  BY <1>1, <1>r DEF TouchOK
<1>4. n + 1 <= Len(Prompt[r])
  BY <1>2, <1>3
<1>5. pool.hash[b] = Chain(r, n + 1)
  <2>1. 1 \in 1 .. Len(op.hits)
    BY <1>2
  <2> QED BY <2>1, <1>1, <1>2, <1>r DEF TouchOK
<1>6. pool.data[b] = Chain(r, n + 1)
  <2>1. n + 1 \in 1 .. Len(Prompt[r])
    BY <1>2, <1>4
  <2>2. Chain(r, n + 1) # None
    BY <1>1, <2>1, ChainFacts
  <2> QED BY <1>2, <1>5, <2>2 DEF IInv, IndexSound
<1>7. /\ GoodPool(pool') /\ pool'.ref[b] = pool.ref[b] + 1
      /\ \A c \in Blocks \ {b} : pool'.ref[c] = pool.ref[c]
      /\ pool'.hash = pool.hash /\ pool'.data = pool.data /\ pool'.lmap = pool.lmap
  <2>1. GoodPool(pool) /\ b \in Blocks /\ pool' = Touch(pool, b)
    BY <1>1, <1>2, InvFields
  <2> QED BY <2>1, TouchGood
<1>8. /\ op' \in Ops /\ op'.kind = "touch" /\ op'.req = r /\ op'.hits = t
      /\ op'.pos = op.pos
  BY <1>1, <1>2, <1>r, OpFields DEF Ops
<1>9. ASSUME Len(tables'[r]) = n + 1
      PROVE  LoopOK'
  <2>1. op'.pos >= 1
    BY <1>8 DEF IInv, LoopOK
  <2>2. Len(tables'[r]) + Len(op'.hits) <= Len(Prompt[r])
    <3>1. Len(tables'[r]) + Len(op'.hits) = n + Len(op.hits)
      <4>1. ASSUME NEW x \in Nat, NEW y \in Nat PROVE (x + 1) + (y - 1) = x + y
        OBVIOUS
      <4>2. n \in Nat /\ Len(op.hits) \in Nat
        BY <1>2
      <4>3. Len(tables'[r]) = n + 1
        BY <1>9
      <4>4. Len(op'.hits) = Len(op.hits) - 1
        BY <1>2, <1>8
      <4> QED BY <4>1, <4>2, <4>3, <4>4
    <3> QED BY <3>1, <1>3
  <2>3. ASSUME NEW i \in 1 .. Len(op'.hits)
        PROVE  pool'.hash[op'.hits[i]] = Chain(r, Len(tables'[r]) + i)
    <3>1. i \in Nat /\ i + 1 \in 1 .. Len(op.hits) /\ op'.hits[i] = op.hits[i + 1]
      BY <1>2, <1>8
    <3>2. pool.hash[op.hits[i + 1]] = Chain(r, n + (i + 1))
      BY <3>1, <1>1, <1>r DEF TouchOK
    <3>3. n + (i + 1) = (n + 1) + i
      BY <3>1, <1>2
    <3> QED BY <3>1, <3>2, <3>3, <1>7, <1>9
  <2> QED BY <1>1, <1>8, <2>1, <2>2, <2>3 DEF LoopOK, TouchOK, Chain
<1> QED BY ZenonT(40), <1>1, <1>2, <1>r, <1>4, <1>6, <1>7, <1>8, <1>9, TakeOverKeeps

\* A block that is shared by a fork is counted once more.
LEMMA ForkStepKeeps ==
  ASSUME IInv, ForkStep
  PROVE  IInv'
<1> DEFINE r == op.req
           q == op.src
           i == op.pos
           b == tables[q][i]
           n == Len(tables[r])
<1>1. /\ op.kind = "fork" /\ i <= op.last /\ i >= 1 /\ r \in Requests /\ ForkOK(r)
      /\ pool' = IncrementRef(pool, b)
      /\ tables' = [tables EXCEPT ![r] = Append(@, b)]
      /\ op' = [op EXCEPT !.pos = @ + 1]
      /\ lost' = lost
  BY DEF ForkStep, IInv, LoopOK
<1>2. /\ q \in Requests \ {r} /\ op.last = Len(tables[q]) /\ i = n + 1
      /\ op.last <= Len(Prompt[r])
      /\ \A j \in 1 .. op.last : Chain(q, j) = Chain(r, j)
  BY <1>1 DEF ForkOK
<1>3. /\ i \in Nat /\ op.last \in Nat /\ n \in Nat /\ Len(Prompt[r]) \in Nat
      /\ i \in 1 .. Len(tables[q]) /\ n + 1 <= Len(Prompt[r])
      /\ Dropped(q) = 0
  BY <1>1, <1>2, OpFields, Lengths
<1>4. /\ b \in Blocks /\ b \in pool.alloc /\ pool.data[b] = Chain(q, i)
  BY <1>2, <1>3, HeldAllocated
<1>r. r = op.req /\ q = op.src /\ i = op.pos /\ n = Len(tables[r])
  OBVIOUS
<1>5. pool.data[b] = Chain(r, n + 1)
  BY <1>2, <1>3, <1>4
<1> HIDE DEF r, q, i, b, n
<1>6. /\ GoodPool(pool') /\ pool'.ref[b] = pool.ref[b] + 1
      /\ \A c \in Blocks \ {b} : pool'.ref[c] = pool.ref[c]
      /\ pool'.hash = pool.hash /\ pool'.data = pool.data /\ pool'.lmap = pool.lmap
  BY <1>1, <1>4, InvFields, IncrementRefGood
<1>7. op' \in Ops /\ op'.kind = "fork" /\ op'.req = r /\ op'.src = q
      /\ op'.last = op.last /\ op'.pos = i + 1
  BY <1>1, <1>r, NextPosition
<1>8. ASSUME Len(tables'[r]) = n + 1, \A s \in Requests \ {r} : tables'[s] = tables[s]
      PROVE  LoopOK'
  <2>1. /\ op'.pos >= 1 /\ op'.pos <= op'.last + 1
        /\ op'.pos = Len(tables'[r]) + 1
    BY <1>1, <1>2, <1>3, <1>7, <1>8
  <2>2. op'.last = Len(tables'[q])
    BY <1>2, <1>7, <1>8
  <2> QED BY <1>1, <1>2, <1>7, <2>1, <2>2 DEF LoopOK, ForkOK, Chain
<1> QED BY <1>1, <1>r, <1>3, <1>4, <1>5, <1>6, <1>7, <1>8, TakeOverKeeps

\* A copy-on-write copy replaces a shared block by a block of its own.
LEMMA CowKeeps ==
  ASSUME IInv, NEW r \in Requests, NEW k \in 1 .. Len(tables[r]),
         NEW b, b = tables[r][k], NEW n, n = NextFree(pool),
         b \in pool.alloc, pool.ref[b] > 1, pool.free # << >>,
         pool' = CowCopy(pool, b),
         tables' = [tables EXCEPT ![r][k] = n], lost' = lost,
         op.kind = "cow", op'.kind = "cow", op' \in Ops,
         Len(tables'[r]) = Len(tables[r]) => LoopOK'
  PROVE  IInv'
<1> DEFINE t == [tables[r] EXCEPT ![k] = n]
<1>1. /\ GoodPool(pool) /\ tables \in [Requests -> Seq(Blocks)]
      /\ lost \in [Blocks -> Nat] /\ pool.ref \in [Blocks -> Nat]
      /\ pool.alloc \subseteq Blocks /\ pool.lmap \in [Legacy -> Blocks \cup {None}]
  BY InvFields, PoolFields DEF GoodPool
<1>2. b \in Blocks /\ pool.ref[n] = 0 /\ pool.ref[b] \in Nat
  <2>1. n \notin pool.alloc /\ n \in Blocks
    BY <1>1, AllocateGood
  <2> QED BY <2>1, <1>1 DEF GoodPool, FreeExact
<1>3. /\ GoodPool(pool')
      /\ n \in Blocks \ pool.alloc /\ n # b
      /\ pool'.ref = [pool.ref EXCEPT ![n] = 1, ![b] = @ - 1]
      /\ pool'.hash[n] = None /\ pool'.data[n] = pool.data[b]
      /\ \A c \in Blocks \ {n} : pool'.hash[c] = pool.hash[c] /\ pool'.data[c] = pool.data[c]
      /\ \A v \in Legacy : pool'.lmap[v] # None =>
           pool'.lmap[v] = pool.lmap[v] /\ pool'.lmap[v] # n
  BY SMTT(40), <1>1, CowCopyGood
<1>4. /\ pool'.ref[n] = 1 /\ pool'.ref[b] = pool.ref[b] - 1
      /\ \A c \in Blocks \ {n, b} : pool'.ref[c] = pool.ref[c]
  BY <1>1, <1>2, <1>3
<1>5. /\ t \in Seq(Blocks) /\ Len(t) = Len(tables[r])
      /\ \A j \in 1 .. Len(tables[r]) : t[j] = IF j = k THEN n ELSE tables[r][j]
  BY <1>1, <1>3, ExceptSeq
<1>6. tables'[r] = t /\ \A s \in Requests \ {r} : tables'[s] = tables[s]
  BY <1>1
<1>7. DOMAIN t = 1 .. Len(tables[r]) /\ DOMAIN tables[r] = 1 .. Len(tables[r])
  BY <1>5, Lengths, LenProperties
<1> HIDE DEF t
<1>8. tables' \in [Requests -> Seq(Blocks)]
  BY <1>1, <1>5, <1>6
<1>9. \A s \in Requests : Dropped(s) = 0 /\ Dropped(s)' = 0
  BY DEF Dropped
<1>10. \A j \in 1 .. Len(tables[r]) : j # k => tables[r][j] # b
  BY TableInjective
<1>11. \A s \in Requests : \A j \in 1 .. Len(tables[s]) : tables[s][j] # n
  BY <1>3, HeldAllocated
<1>12. ToSet(t) = (ToSet(tables[r]) \ {b}) \cup {n}
  BY <1>5, <1>7, <1>10 DEF ToSet
<1>13. \A s \in Requests : n \notin ToSet(tables[s])
  BY <1>11, Lengths DEF ToSet
<1>14. RefCountExact'
  <2>1. r \in Users(b) /\ Users(b) \subseteq Requests
    BY HeldAllocated DEF Users
  <2>2. Users(n) = {}
    BY <1>13 DEF Users, Held
  <2>3. Users(n)' = {r}
    BY <1>6, <1>12, <1>13 DEF Users, Held
  <2>4. Users(b)' = Users(b) \ {r}
    BY <1>3, <1>6, <1>12 DEF Users, Held
  <2>5. \A c \in Blocks \ {n, b} : Users(c)' = Users(c)
    BY <1>6, <1>12 DEF Users, Held
  <2>6. Cardinality(Users(n)) = 0 /\ Cardinality({} \cup {r}) = Cardinality({}) + 1
        /\ Cardinality({}) = 0
    BY <2>2, UsersCount
  <2>7. Cardinality(Users(b)') = Cardinality(Users(b)) - 1 /\ Cardinality(Users(b)) \in Nat
    BY <2>1, <2>4, UsersCount
  <2>8. \A c \in Blocks : pool.ref[c] = Cardinality(Users(c)) + lost[c] /\ lost[c] \in Nat
    BY <1>1 DEF IInv, RefCountExact
  <2>9. lost[n] = 0 /\ Cardinality(Users(n)') = 1
    <3>1. {} \cup {r} = {r}
      OBVIOUS
    <3> QED BY <1>2, <1>3, <2>3, <2>6, <2>8, <3>1
  <2>10. pool'.ref[n] = Cardinality(Users(n)') + lost'[n]
    BY <1>4, <2>9
  <2>11. pool'.ref[b] = Cardinality(Users(b)') + lost'[b]
    <3>1. ASSUME NEW x \in Nat, NEW y \in Nat PROVE (x + y) - 1 = (x - 1) + y
      OBVIOUS
    <3>2. pool.ref[b] = Cardinality(Users(b)) + lost[b] /\ lost[b] \in Nat
      BY <1>2, <2>8
    <3>3. pool.ref[b] - 1 = (Cardinality(Users(b)) - 1) + lost[b]
      BY <2>7, <3>1, <3>2
    <3> QED BY <1>4, <2>7, <3>3
  <2>12. \A c \in Blocks \ {n, b} : pool'.ref[c] = Cardinality(Users(c)') + lost'[c]
    BY <1>4, <2>5, <2>8
  <2> QED BY <2>10, <2>11, <2>12 DEF RefCountExact
<1>15. TablesHoldOwnPrefix'
  <2> SUFFICES ASSUME NEW s \in Requests, NEW j \in 1 .. Len(tables'[s])
               PROVE  pool'.data[tables'[s][j]] = Chain(s, j)
    BY <1>8, <1>9, LenProperties DEF TablesHoldOwnPrefix, Chain
  <2>1. j \in 1 .. Len(tables[s])
    BY <1>5, <1>6
  <2>2. tables[s][j] \in Blocks \ {n} /\ pool.data[tables[s][j]] = Chain(s, j)
    BY <2>1, <1>9, <1>11, HeldAllocated
  <2>3. CASE s = r /\ j = k
    BY <2>2, <2>3, <1>3, <1>5, <1>6
  <2>4. CASE ~ (s = r /\ j = k)
    <3>1. tables'[s][j] = tables[s][j]
      BY <2>1, <2>4, <1>5, <1>6
    <3> QED BY <3>1, <2>2, <1>3
  <2> QED BY <2>3, <2>4
<1>16. TablesFit'
  <2> SUFFICES ASSUME NEW s \in Requests
               PROVE  Len(tables'[s]) <= Len(Prompt[s])
    BY <1>8, <1>9, LenProperties DEF TablesFit
  <2>1. Len(tables'[s]) = Len(tables[s])
    BY <1>5, <1>6
  <2> QED BY <2>1, <1>9, Lengths
<1>17. \A c \in Blocks : pool'.hash[c] # None => pool'.data[c] = pool'.hash[c]
  BY <1>3 DEF IInv, IndexSound
<1>18. \A v \in Legacy : pool'.lmap[v] # None =>
         pool'.lmap[v] = pool.lmap[v] /\ pool'.hash[pool'.lmap[v]] = pool.hash[pool.lmap[v]]
  BY SMTT(40), <1>1, <1>3
<1>19. \A v \in Legacy : pool'.lmap[v] # None =>
         LET h == pool'.hash[pool'.lmap[v]] IN h[Len(h)] = v
  BY <1>18 DEF IInv, IndexSound
<1>20. LoopOK'
  BY <1>5, <1>6
<1> QED
  BY <1>1, <1>3, <1>8, <1>14, <1>15, <1>16, <1>17, <1>19, <1>20, InvFromParts

\* Each round makes one shared block private or leaves it.
LEMMA CowStepKeeps ==
  ASSUME IInv, CowStep
  PROVE  IInv'
<1> DEFINE r == op.req
           k == op.pos
           b == tables[r][k]
<1>1. /\ op.kind = "cow" /\ k <= op.last /\ k >= 1 /\ r \in Requests
      /\ op.last = Len(tables[r])
      /\ IF b \in pool.alloc /\ pool.ref[b] > 1 /\ pool.free # << >>
         THEN /\ pool' = CowCopy(pool, b)
              /\ tables' = [tables EXCEPT ![r][k] = NextFree(pool)]
         ELSE UNCHANGED <<pool, tables>>
      /\ op' = [op EXCEPT !.pos = @ + 1]
      /\ lost' = lost
  BY DEF CowStep, IInv, LoopOK
<1>2. /\ k \in 1 .. Len(tables[r]) /\ k \in Nat
  BY <1>1, OpFields, Lengths
<1>3. op' \in Ops /\ op'.kind = "cow" /\ op'.req = r
      /\ op'.last = op.last /\ op'.pos = k + 1
  BY <1>1, NextPosition
<1>4. Len(tables'[r]) = Len(tables[r]) => LoopOK'
  <2>1. op'.pos >= 1
    BY <1>2, <1>3
  <2> QED BY <1>1, <1>3, <2>1 DEF LoopOK
<1>5. CASE b \in pool.alloc /\ pool.ref[b] > 1 /\ pool.free # << >>
  BY <1>1, <1>2, <1>3, <1>4, <1>5, CowKeeps
<1>6. CASE ~ (b \in pool.alloc /\ pool.ref[b] > 1 /\ pool.free # << >>)
  <2>1. UNCHANGED <<pool, tables, lost>> /\ LoopOK'
    BY <1>1, <1>4, <1>6
  <2>2. \A s \in Requests : Dropped(s)' = Dropped(s)
    BY <1>1, <1>3 DEF Dropped
  <2> QED BY <1>3, <2>1, <2>2, QuietStep
<1> QED BY <1>5, <1>6

\* Deleting a table frees its first block, once.
LEMMA DropHeadKeeps ==
  ASSUME IInv, NEW r \in Requests, tables[r] # << >>,
         op.kind = "delete", op.req = r, op'.kind = "delete", op'.req = r,
         op' \in Ops, op'.pos = op.pos + 1,
         NEW b, b = Head(tables[r]),
         pool' = FreeBlock(pool, b),
         tables' = [tables EXCEPT ![r] = Tail(@)], lost' = lost,
         Len(tables'[r]) = Len(tables[r]) - 1 => LoopOK'
  PROVE  IInv'
<1> DEFINE t == Tail(tables[r])
           n == Len(tables[r])
<1>1. /\ GoodPool(pool) /\ tables \in [Requests -> Seq(Blocks)]
      /\ tables[r] \in Seq(Blocks)
      /\ lost \in [Blocks -> Nat] /\ pool.ref \in [Blocks -> Nat]
      /\ pool.alloc \subseteq Blocks
  BY InvFields, PoolFields DEF GoodPool
<1>2. /\ t \in Seq(Blocks) /\ Len(t) = n - 1 /\ n \in Nat \ {0}
      /\ \A j \in 1 .. Len(t) : t[j] = tables[r][j + 1]
      /\ b = tables[r][1]
  BY <1>1, HeadTailProperties, EmptySeq, LenProperties
<1>3. DOMAIN t = 1 .. n - 1 /\ DOMAIN tables[r] = 1 .. n
  BY <1>1, <1>2, LenProperties
<1>4. tables'[r] = t /\ \A s \in Requests \ {r} : tables'[s] = tables[s]
  BY <1>1
<1> HIDE DEF t
<1>5. tables' \in [Requests -> Seq(Blocks)]
  BY <1>1, <1>2, <1>4
<1>6. b \in pool.alloc /\ b \in Blocks /\ r \in Users(b)
  <2>1. 1 \in 1 .. Len(tables[r])
    BY <1>2
  <2> QED BY <2>1, <1>2, HeldAllocated
<1>7. /\ GoodPool(pool')
      /\ pool'.ref[b] = pool.ref[b] - 1 /\ \A c \in Blocks \ {b} : pool'.ref[c] = pool.ref[c]
      /\ pool'.hash = pool.hash /\ pool'.data = pool.data /\ pool'.lmap = pool.lmap
  BY <1>1, <1>6, FreeBlockGood
<1>8. op.pos \in Nat /\ op.pos >= 1
  BY OpFields DEF IInv, LoopOK
<1>9. /\ Dropped(r) = op.pos - 1 /\ Dropped(r)' = op.pos
      /\ \A s \in Requests \ {r} : Dropped(s) = 0 /\ Dropped(s)' = 0
  <2>1. Dropped(r) = op.pos - 1 /\ Dropped(r)' = op'.pos - 1
    BY DEF Dropped
  <2>2. \A s \in Requests \ {r} : Dropped(s) = 0 /\ Dropped(s)' = 0
    BY DEF Dropped
  <2> QED BY <2>1, <2>2, <1>8
<1>10. \A j \in 2 .. n : tables[r][j] # b
  <2> SUFFICES ASSUME NEW j \in 2 .. n, tables[r][j] = b PROVE FALSE
    OBVIOUS
  <2>1. 1 \in 1 .. n /\ j \in 1 .. n /\ j # 1
    BY <1>2
  <2>2. tables[r][1] = tables[r][j]
    BY <1>2
  <2>3. 1 = j
    BY <2>1, <2>2, TableInjective
  <2> QED BY <2>1, <2>3
<1>11. ToSet(t) = ToSet(tables[r]) \ {b}
  <2>1. ASSUME NEW j \in 1 .. n - 1
        PROVE  j + 1 \in 2 .. n /\ j + 1 \in 1 .. n /\ t[j] = tables[r][j + 1]
    BY <1>2
  <2>2. ASSUME NEW j \in 1 .. n, tables[r][j] # b
        PROVE  j - 1 \in 1 .. n - 1 /\ t[j - 1] = tables[r][j]
    <3>1. j # 1
      BY <1>2, <2>2
    <3>2. j - 1 \in 1 .. n - 1 /\ (j - 1) + 1 = j
      BY <1>2, <3>1
    <3> QED BY <2>1, <3>2
  <2>3. ASSUME NEW x PROVE x \in ToSet(t) <=> x \in ToSet(tables[r]) \ {b}
    <3>1. ASSUME x \in ToSet(t) PROVE x \in ToSet(tables[r]) \ {b}
      <4>1. PICK j \in 1 .. n - 1 : x = t[j]
        BY <1>3, <3>1 DEF ToSet
      <4> QED BY <4>1, <2>1, <1>3, <1>10 DEF ToSet
    <3>2. ASSUME x \in ToSet(tables[r]), x # b PROVE x \in ToSet(t)
      <4>1. PICK j \in 1 .. n : x = tables[r][j]
        BY <1>3, <3>2 DEF ToSet
      <4> QED BY <4>1, <2>2, <3>2, <1>3 DEF ToSet
    <3> QED BY <3>1, <3>2
  <2> QED BY <2>3
<1>12. RefCountExact'
  <2>1. Users(b) \subseteq Requests
    BY DEF Users
  <2>2. Users(b)' = Users(b) \ {r}
    BY <1>4, <1>11 DEF Users, Held
  <2>3. \A c \in Blocks \ {b} : Users(c)' = Users(c)
    BY <1>4, <1>11 DEF Users, Held
  <2>4. Cardinality(Users(b)') = Cardinality(Users(b)) - 1 /\ Cardinality(Users(b)) \in Nat
    BY <1>6, <2>1, <2>2, UsersCount
  <2>5. \A c \in Blocks : pool.ref[c] = Cardinality(Users(c)) + lost[c] /\ lost[c] \in Nat
    BY <1>1 DEF IInv, RefCountExact
  <2>6. pool'.ref[b] = Cardinality(Users(b)') + lost'[b]
    <3>1. ASSUME NEW x \in Nat, NEW y \in Nat PROVE (x + y) - 1 = (x - 1) + y
      OBVIOUS
    <3>2. pool.ref[b] - 1 = (Cardinality(Users(b)) - 1) + lost[b]
      BY <1>6, <2>4, <2>5, <3>1
    <3> QED BY <1>7, <2>4, <3>2
  <2>7. \A c \in Blocks \ {b} : pool'.ref[c] = Cardinality(Users(c)') + lost'[c]
    BY <1>7, <2>3, <2>5
  <2> QED BY <2>6, <2>7 DEF RefCountExact
<1>13. TablesHoldOwnPrefix'
  <2>d. pool'.data = pool.data
    BY <1>7
  <2> HIDE <1>7
  <2> SUFFICES ASSUME NEW s \in Requests, NEW j \in 1 .. Len(tables'[s])
               PROVE  pool.data[tables'[s][j]] = Chain(s, Dropped(s)' + j)
    BY <2>d DEF TablesHoldOwnPrefix, Chain
  <2>1. CASE s = r
    <3>1. j \in 1 .. n - 1 /\ j + 1 \in 1 .. n /\ tables'[s][j] = tables[r][j + 1]
      BY <2>1, <1>2, <1>4
    <3>2. pool.data[tables[r][j + 1]] = Chain(r, (op.pos - 1) + (j + 1))
      BY <3>1, <1>9, HeldAllocated
    <3>3. ASSUME NEW x \in Nat, NEW y \in Nat PROVE (x - 1) + (y + 1) = x + y
      OBVIOUS
    <3>4. (op.pos - 1) + (j + 1) = op.pos + j
      <4>1. j \in Nat
        BY <1>2
      <4> QED BY <1>8, <3>3, <4>1
    <3> QED BY <2>1, <3>1, <3>2, <3>4, <1>9
  <2>2. CASE s # r
    BY <2>2, <1>4, <1>9, HeldAllocated
  <2> QED BY <2>1, <2>2
<1>14. TablesFit'
  <2> SUFFICES ASSUME NEW s \in Requests
               PROVE  Dropped(s)' + Len(tables'[s]) <= Len(Prompt[s])
    BY DEF TablesFit
  <2>1. CASE s = r
    <3>1. (op.pos - 1) + n <= Len(Prompt[r]) /\ Len(Prompt[r]) \in Nat
      BY <1>9, Lengths
    <3>2. op.pos + (n - 1) = (op.pos - 1) + n
      BY <1>2, <1>8
    <3> QED BY <2>1, <3>1, <3>2, <1>2, <1>4, <1>9
  <2>2. CASE s # r
    BY <2>2, <1>4, <1>9, Lengths
  <2> QED BY <2>1, <2>2
<1>15. /\ \A c \in Blocks : pool'.hash[c] # None => pool'.data[c] = pool'.hash[c]
       /\ \A v \in Legacy : pool'.lmap[v] # None =>
            LET h == pool'.hash[pool'.lmap[v]] IN h[Len(h)] = v
  BY <1>7 DEF IInv, IndexSound
<1>16. LoopOK'
  BY <1>2, <1>4
<1> QED
  BY <1>1, <1>5, <1>7, <1>12, <1>13, <1>14, <1>15, <1>16, InvFromParts

\* Each round of a deletion frees the head of the table.
LEMMA DeleteStepKeeps ==
  ASSUME IInv, DeleteStep
  PROVE  IInv'
<1> DEFINE r == op.req
<1>1. /\ op.kind = "delete" /\ op.pos <= op.last /\ op.pos >= 1 /\ r \in Requests
      /\ Len(tables[r]) = op.last - op.pos + 1
      /\ pool' = FreeBlock(pool, Head(tables[r]))
      /\ tables' = [tables EXCEPT ![r] = Tail(@)]
      /\ op' = [op EXCEPT !.pos = @ + 1]
      /\ lost' = lost
  BY DEF DeleteStep, IInv, LoopOK
<1>2. op.pos \in Nat /\ op.last \in Nat /\ tables[r] # << >>
  BY <1>1, OpFields, EmptySeq
<1>3. op' \in Ops /\ op'.kind = "delete" /\ op'.req = r
      /\ op'.last = op.last /\ op'.pos = op.pos + 1
  BY <1>1, NextPosition
<1>4. Len(tables'[r]) = Len(tables[r]) - 1 => LoopOK'
  <2> SUFFICES ASSUME Len(tables'[r]) = Len(tables[r]) - 1 PROVE LoopOK'
    OBVIOUS
  <2>1. Len(tables'[r]) = op.last - op.pos
    BY <1>1, <1>2
  <2>2. op'.pos >= 1 /\ op'.pos <= op'.last + 1
    <3>1. ASSUME NEW x \in Nat PROVE x + 1 >= 1
      OBVIOUS
    <3>2. ASSUME NEW x \in Nat, NEW y \in Nat, x <= y PROVE x + 1 <= y + 1
      BY <3>2
    <3> QED BY <1>1, <1>2, <1>3, <3>1, <3>2
  <2>3. op'.last - op'.pos + 1 = op.last - op.pos
    <3>1. ASSUME NEW x \in Nat, NEW y \in Nat
          PROVE  y - (x + 1) + 1 = y - x
      OBVIOUS
    <3> QED BY <1>2, <1>3, <3>1
  <2> QED BY <1>1, <1>3, <2>1, <2>2, <2>3 DEF LoopOK
<1> QED BY <1>1, <1>2, <1>3, <1>4, DropHeadKeeps

\* Each round of an eviction forgets a free block.
LEMMA EvictStepKeeps ==
  ASSUME IInv, EvictStep
  PROVE  IInv'
<1>1. /\ op.kind = "evict" /\ op.pos <= op.last /\ op.pos >= 1
      /\ op.last <= Len(pool.free)
      /\ pool' = EvictFront(pool)
      /\ op' = [op EXCEPT !.pos = @ + 1]
      /\ UNCHANGED <<tables, lost>>
  BY DEF EvictStep, IInv, LoopOK
<1>2. /\ op.pos \in Nat /\ op.last \in Nat
      /\ GoodPool(pool) /\ pool.free \in Seq(Blocks) /\ Len(pool.free) \in Nat
  BY OpFields, InvFields, PoolFields, LenProperties DEF GoodPool
<1>3. pool.free # << >>
  BY <1>1, <1>2, EmptySeq
<1>4. /\ GoodPool(pool')
      /\ Len(pool'.free) = Len(pool.free) /\ pool'.ref = pool.ref
      /\ \A c \in pool.alloc : pool'.hash[c] = pool.hash[c] /\ pool'.data[c] = pool.data[c]
      /\ \A c \in Blocks : pool'.hash[c] # None =>
           pool'.hash[c] = pool.hash[c] /\ pool'.data[c] = pool.data[c]
      /\ \A v \in Legacy : pool'.lmap[v] # None =>
           pool'.lmap[v] = pool.lmap[v] /\ pool'.hash[pool'.lmap[v]] = pool.hash[pool.lmap[v]]
  BY <1>1, <1>2, <1>3, EvictFrontGood
<1>5. op' \in Ops /\ op'.kind = "evict" /\ op'.last = op.last /\ op'.pos = op.pos + 1
  BY <1>1, NextPosition
<1>6. \A s \in Requests : Dropped(s) = 0 /\ Dropped(s)' = 0
  BY <1>1, <1>5 DEF Dropped
<1>7. LoopOK'
  <2>1. op'.pos >= 1 /\ op'.last <= Len(pool'.free)
    BY <1>1, <1>2, <1>4, <1>5
  <2> QED BY <1>5, <2>1 DEF LoopOK
<1>8. RefCountExact'
  BY <1>1, <1>4 DEF IInv, RefCountExact, Users, Held
<1>9. TablesHoldOwnPrefix'
  <2> SUFFICES ASSUME NEW s \in Requests, NEW j \in 1 .. Len(tables[s])
               PROVE  pool'.data[tables[s][j]] = Chain(s, Dropped(s)' + j)
    BY <1>1 DEF TablesHoldOwnPrefix, Chain
  <2> QED BY <1>4, <1>6, HeldAllocated
<1>10. TablesFit'
  BY <1>1, <1>6 DEF IInv, TablesFit
<1>11. /\ \A c \in Blocks : pool'.hash[c] # None => pool'.data[c] = pool'.hash[c]
       /\ \A v \in Legacy : pool'.lmap[v] # None =>
            LET h == pool'.hash[pool'.lmap[v]] IN h[Len(h)] = v
  BY <1>4 DEF IInv, IndexSound
<1>12. tables' \in [Requests -> Seq(Blocks)] /\ lost' \in [Blocks -> Nat]
  BY <1>1, InvFields
<1> QED
  BY <1>4, <1>5, <1>7, <1>8, <1>9, <1>10, <1>11, <1>12, InvFromParts

\* A method returns with its loop finished.
LEMMA ReturnKeeps ==
  ASSUME IInv, Return
  PROVE  IInv'
<1>1. op' = IdleOp /\ UNCHANGED <<pool, tables, lost>>
  BY DEF Return
<1>2. op' \in Ops /\ op'.kind = "idle" /\ op'.pos = 1
  BY <1>1, EmptySeq DEF IdleOp, Ops, Kinds
<1>3. LoopOK'
  BY <1>2 DEF LoopOK
<1>4. ASSUME NEW s \in Requests
      PROVE  Dropped(s)' = 0 /\ (Dropped(s)' = Dropped(s) \/ tables[s] = << >>)
  <2>1. Dropped(s)' = 0
    BY <1>2 DEF Dropped
  <2>2. CASE op.kind = "delete" /\ op.req = s
    <3>1. op.pos > op.last /\ op.pos <= op.last + 1
          /\ Len(tables[s]) = op.last - op.pos + 1
      BY <2>2 DEF Return, IInv, LoopOK
    <3>2. Len(tables[s]) = 0 /\ tables[s] \in Seq(Blocks)
      BY <3>1, OpFields, InvFields
    <3> QED BY <2>1, <3>2, EmptySeq
  <2>3. CASE ~ (op.kind = "delete" /\ op.req = s)
    BY <2>1, <2>3 DEF Dropped
  <2> QED BY <2>2, <2>3
<1> QED BY <1>1, <1>2, <1>3, <1>4, QuietStep

-----------------------------------------------------------------------------
\* The methods without a loop.

\* Detaching keeps every reference: the request no longer counts as a user
\* of its blocks, and one reference more is lost on each of them.
LEMMA DetachKeeps ==
  ASSUME IInv, NEW r \in Requests, DetachRequest(r)
  PROVE  IInv'
<1>1. /\ op.kind = "idle" /\ pool' = pool /\ op' = op
      /\ tables' = [tables EXCEPT ![r] = << >>]
      /\ lost' = [b \in Blocks |-> IF b \in Held(r) THEN lost[b] + 1 ELSE lost[b]]
  BY DEF DetachRequest, Idle
<1>2. /\ GoodPool(pool) /\ tables \in [Requests -> Seq(Blocks)]
      /\ lost \in [Blocks -> Nat] /\ op \in Ops
  BY InvFields
<1>3. tables'[r] = << >> /\ \A s \in Requests \ {r} : tables'[s] = tables[s]
  BY <1>1, <1>2
<1>4. /\ tables' \in [Requests -> Seq(Blocks)] /\ lost' \in [Blocks -> Nat]
  <2>1. << >> \in Seq(Blocks)
    BY EmptySeq
  <2> QED BY <1>1, <1>2, <2>1
<1>5. \A s \in Requests : Dropped(s) = 0 /\ Dropped(s)' = 0
  BY <1>1 DEF Dropped
<1>6. Held(r)' = {} /\ \A s \in Requests \ {r} : Held(s)' = Held(s)
  <2>1. DOMAIN << >> = {}
    BY EmptySeq
  <2> QED BY <1>3, <2>1 DEF Held, ToSet
<1>7. RefCountExact'
  <2> SUFFICES ASSUME NEW b \in Blocks
               PROVE  pool.ref[b] = Cardinality(Users(b)') + lost'[b]
    BY <1>1 DEF RefCountExact
  <2>1. /\ Users(b) \subseteq Requests
        /\ pool.ref[b] = Cardinality(Users(b)) + lost[b] /\ lost[b] \in Nat
    BY <1>2 DEF Users, IInv, RefCountExact
  <2>2. CASE b \in Held(r)
    <3>1. r \in Users(b) /\ Users(b)' = Users(b) \ {r}
      BY <1>6, <2>2 DEF Users
    <3>2. Cardinality(Users(b)') = Cardinality(Users(b)) - 1
          /\ Cardinality(Users(b)) \in Nat
      BY <2>1, <3>1, UsersCount
    <3>3. lost'[b] = lost[b] + 1
      BY <1>1, <2>2
    <3>4. ASSUME NEW x \in Nat, NEW y \in Nat PROVE (x - 1) + (y + 1) = x + y
      OBVIOUS
    <3> QED BY <2>1, <3>2, <3>3, <3>4
  <2>3. CASE b \notin Held(r)
    <3>1. Users(b)' = Users(b)
      BY <1>6, <2>3 DEF Users
    <3> QED BY <1>1, <2>1, <2>3, <3>1
  <2> QED BY <2>2, <2>3
<1>8. Len(tables'[r]) = 0
  BY <1>3, EmptySeq
<1>9. TablesHoldOwnPrefix'
  <2> SUFFICES ASSUME NEW s \in Requests, NEW j \in 1 .. Len(tables'[s])
               PROVE  pool.data[tables'[s][j]] = Chain(s, Dropped(s)' + j)
    BY <1>1 DEF TablesHoldOwnPrefix, Chain
  <2>1. s # r
    BY <1>8
  <2> QED BY <2>1, <1>3, <1>5, HeldAllocated
<1>10. TablesFit'
  <2> SUFFICES ASSUME NEW s \in Requests
               PROVE  Dropped(s)' + Len(tables'[s]) <= Len(Prompt[s])
    BY DEF TablesFit
  <2>1. Len(Prompt[s]) \in Nat /\ 0 + Len(tables[s]) <= Len(Prompt[s])
    BY <1>5, Lengths
  <2>2. CASE s = r
    BY <2>1, <2>2, <1>5, <1>8
  <2>3. CASE s # r
    BY <2>1, <2>3, <1>3, <1>5
  <2> QED BY <2>2, <2>3
<1>11. LoopOK'
  BY <1>1 DEF IInv, LoopOK
<1>12. /\ GoodPool(pool') /\ op' \in Ops
       /\ \A b \in Blocks : pool'.hash[b] # None => pool'.data[b] = pool'.hash[b]
       /\ \A v \in Legacy : pool'.lmap[v] # None =>
            LET h == pool'.hash[pool'.lmap[v]] IN h[Len(h)] = v
  BY <1>1, <1>2 DEF IInv, IndexSound
<1> QED BY <1>4, <1>7, <1>9, <1>10, <1>11, <1>12, InvFromParts

\* With no block allocated no request has a table and nothing is lost.
LEMMA NothingHeld ==
  ASSUME IInv, pool.alloc = {}
  PROVE  /\ \A r \in Requests : tables[r] = << >>
         /\ \A b \in Blocks : lost[b] = 0 /\ pool.ref[b] = 0
<1>1. ASSUME NEW r \in Requests PROVE tables[r] = << >>
  <2>1. tables[r] \in Seq(Blocks) /\ Len(tables[r]) \in Nat
    BY InvFields, Lengths
  <2>2. Len(tables[r]) = 0
    <3> SUFFICES ASSUME Len(tables[r]) # 0 PROVE FALSE
      OBVIOUS
    <3>1. 1 \in 1 .. Len(tables[r])
      BY <2>1
    <3> QED BY <3>1, HeldAllocated
  <2> QED BY <2>1, <2>2, EmptySeq
<1>2. ASSUME NEW b \in Blocks PROVE lost[b] = 0 /\ pool.ref[b] = 0
  <2>1. pool.ref[b] \in Nat /\ lost[b] \in Nat
    BY InvFields, PoolFields DEF GoodPool
  <2>2. ~ (pool.ref[b] > 0)
    BY DEF IInv, FreeListExact, FreeExact
  <2>3. Cardinality(Users(b)) \in Nat
    BY UsersCount DEF Users
  <2>4. pool.ref[b] = Cardinality(Users(b)) + lost[b]
    BY DEF IInv, RefCountExact
  <2> QED BY <2>1, <2>2, <2>3, <2>4
<1> QED BY <1>1, <1>2

\* Resetting happens only when nothing is held.
LEMMA ResetPrefixCacheKeeps ==
  ASSUME IInv, ResetPrefixCache
  PROVE  IInv'
<1>1. /\ op.kind = "idle" /\ Len(pool.free) = NumBlocks
      /\ pool' = ForgetAll(pool) /\ UNCHANGED <<tables, lost, op>>
  BY DEF ResetPrefixCache, Idle
<1>2. /\ GoodPool(pool) /\ tables \in [Requests -> Seq(Blocks)]
      /\ lost \in [Blocks -> Nat] /\ op \in Ops
  BY InvFields
<1>3. pool.alloc = {}
  BY <1>1, <1>2, AllFree
<1>4. /\ GoodPool(pool') /\ pool'.ref = pool.ref
      /\ \A b \in Blocks : pool'.hash[b] = None
      /\ \A v \in Legacy : pool'.lmap[v] = None
  BY <1>1, <1>2, ForgetAllGood
<1>5. LoopOK'
  BY <1>1 DEF IInv, LoopOK
<1>6. /\ RefCountExact' /\ TablesHoldOwnPrefix' /\ TablesFit'
  <2>1. \A r \in Requests : tables'[r] = << >>
    BY <1>1, <1>3, NothingHeld
  <2>2. Len(<< >>) = 0
    BY EmptySeq
  <2>3. RefCountExact'
    BY <1>1, <1>4 DEF IInv, RefCountExact, Users, Held
  <2>4. TablesHoldOwnPrefix'
    BY <2>1, <2>2 DEF TablesHoldOwnPrefix
  <2>5. TablesFit'
    BY <1>1 DEF IInv, TablesFit, Dropped
  <2> QED BY <2>3, <2>4, <2>5
<1> QED BY <1>1, <1>2, <1>4, <1>5, <1>6, InvFromParts

\* Clearing starts over.
LEMMA ClearKeeps ==
  ASSUME IInv, Clear
  PROVE  IInv'
<1>1. /\ op.kind = "idle" /\ pool' = EmptyPool /\ op' = op
      /\ tables' = [r \in Requests |-> << >>]
      /\ lost' = [b \in Blocks |-> 0]
  BY DEF Clear, Idle
<1>2. << >> \in Seq(Blocks)
  BY EmptySeq
<1>3. /\ tables' \in [Requests -> Seq(Blocks)] /\ lost' \in [Blocks -> Nat]
      /\ \A r \in Requests : tables'[r] = << >>
      /\ \A b \in Blocks : lost'[b] = 0
  BY <1>1, <1>2
<1>4. /\ RefCountExact' /\ TablesHoldOwnPrefix' /\ TablesFit'
  <2>1. Len(<< >>) = 0 /\ DOMAIN << >> = {}
    BY EmptySeq
  <2>2. \A b \in Blocks : Users(b)' = {}
    BY <1>3, <2>1 DEF Users, Held, ToSet
  <2>3. RefCountExact'
    <3>1. Cardinality({}) = 0
      BY FS_EmptySet
    <3>2. \A b \in Blocks : pool'.ref[b] = 0 /\ lost'[b] = 0
      BY <1>1, <1>3, EmptyPoolGood
    <3>3. \A b \in Blocks : pool'.ref[b] = Cardinality(Users(b)') + lost'[b]
      BY <2>2, <3>1, <3>2
    <3> QED BY <3>3 DEF RefCountExact
  <2>4. TablesHoldOwnPrefix'
    BY <1>3, <2>1 DEF TablesHoldOwnPrefix
  <2>5. \A r \in Requests : Dropped(r)' = 0 /\ Len(tables'[r]) = 0
                           /\ Len(Prompt[r]) \in Nat
    BY <1>1, <1>3, <2>1, Lengths DEF Dropped
  <2>6. TablesFit'
    BY <2>5 DEF TablesFit
  <2> QED BY <2>3, <2>4, <2>6
<1>5. LoopOK'
  BY <1>1 DEF IInv, LoopOK
<1> QED BY <1>1, <1>3, <1>4, <1>5, EmptyPoolGood, InvFields, InvFromParts

-----------------------------------------------------------------------------
\* The invariant.

\* The invariant holds of the manager that was just constructed.
LEMMA InitHolds ==
  ASSUME Init
  PROVE  IInv
<1>1. /\ pool = EmptyPool /\ op = IdleOp
      /\ tables = [r \in Requests |-> << >>]
      /\ lost = [b \in Blocks |-> 0]
  BY DEF Init
<1>2. << >> \in Seq(Blocks) /\ Len(<< >>) = 0 /\ DOMAIN << >> = {}
  BY EmptySeq
<1>3. op \in Ops /\ op.kind = "idle" /\ op.pos = 1
  BY <1>1, <1>2 DEF IdleOp, Ops, Kinds
<1>4. /\ tables \in [Requests -> Seq(Blocks)] /\ lost \in [Blocks -> Nat]
      /\ \A r \in Requests : tables[r] = << >>
      /\ \A b \in Blocks : lost[b] = 0
  BY <1>1, <1>2
<1>5. TypeOK /\ FreeListExact /\ IndexSound
  BY <1>1, <1>3, <1>4, EmptyPoolGood
  DEF TypeOK, FreeListExact, IndexSound, GoodPool
<1>6. RefCountExact
  <2>1. \A b \in Blocks : Users(b) = {}
    BY <1>4, <1>2 DEF Users, Held, ToSet
  <2>2. Cardinality({}) = 0
    BY FS_EmptySet
  <2>3. \A b \in Blocks : pool.ref[b] = 0 /\ lost[b] = 0
    BY <1>1, <1>4, EmptyPoolGood
  <2>4. \A b \in Blocks : pool.ref[b] = Cardinality(Users(b)) + lost[b]
    BY <2>1, <2>2, <2>3
  <2> QED BY <2>4 DEF RefCountExact
<1>7. TablesHoldOwnPrefix
  BY <1>4, <1>2 DEF TablesHoldOwnPrefix
<1>8. TablesFit
  <2>1. \A r \in Requests : Dropped(r) = 0 /\ Len(tables[r]) = 0
    BY <1>3, <1>4, <1>2 DEF Dropped
  <2>2. \A r \in Requests : Len(Prompt[r]) \in Nat
    BY RequestAssumption, LenProperties
  <2> QED BY <2>1, <2>2 DEF TablesFit
<1>9. LoopOK
  BY <1>3 DEF LoopOK
<1> QED BY <1>5, <1>6, <1>7, <1>8, <1>9 DEF IInv

\* Every step of every method keeps the invariant.
LEMMA NextKeeps ==
  ASSUME IInv, [Next]_vars
  PROVE  IInv'
<1>1. CASE UNCHANGED vars
  <2>1. UNCHANGED <<pool, tables, lost>> /\ op' = op
    BY <1>1 DEF vars
  <2>2. op' \in Ops /\ \A r \in Requests : Dropped(r)' = Dropped(r)
    BY <2>1, InvFields DEF Dropped
  <2>3. LoopOK'
    BY ZenonT(40), <2>1 DEF IInv, LoopOK, GrowOK, CacheOK, LookupOK, TouchOK, ForkOK
  <2> QED BY <2>1, <2>2, <2>3, QuietStep
<1>2. CASE Loop
  BY <1>2, GrowStepKeeps, CacheStepKeeps, LookupStepKeeps, TouchStepKeeps,
    ForkStepKeeps, CowStepKeeps, DeleteStepKeeps, EvictStepKeeps, ReturnKeeps
  DEF Loop
<1>3. ASSUME NEW r \in Requests,
             \/ \E n \in 1 .. NumBlocks : GetNewBlocks(r, n)
             \/ \E n \in 1 .. NumBlocks : \E k \in 0 .. n - 1 :
                  CacheFullBlocks(r, k, n)
             \/ Lookup(r)
             \/ \E s \in Requests : ForkBlockTable(r, s)
             \/ GetBlocksForGeneration(r)
             \/ DeleteBlockTable(r)
             \/ DetachRequest(r)
      PROVE  IInv'
  BY <1>3, GetNewBlocksKeeps, CacheFullBlocksKeeps, LookupKeeps,
    ForkBlockTableKeeps, GetBlocksForGenerationKeeps, DeleteBlockTableKeeps,
    DetachKeeps
<1>4. CASE \E k \in 1 .. NumBlocks : HandleMemoryPressure(k)
  BY <1>4, HandleMemoryPressureKeeps
<1>5. CASE ResetPrefixCache \/ Clear
  BY <1>5, ResetPrefixCacheKeeps, ClearKeeps
<1> QED BY <1>1, <1>2, <1>3, <1>4, <1>5 DEF Next

\* The inductive invariant holds in every state the manager reaches.
THEOREM Invariance == Spec => []IInv
<1>1. Init => IInv
  BY InitHolds
<1>2. IInv /\ [Next]_vars => IInv'
  BY NextKeeps
<1> QED BY <1>1, <1>2, PTL DEF Spec

\* The variables keep their types.
THEOREM TypeCorrect == Spec => []TypeOK
<1>1. IInv => TypeOK
  BY DEF IInv
<1> QED BY <1>1, Invariance, PTL

\* No block is in the free queue and in use at once, none is lost and none is
\* there twice, after every step of every loop of the manager.
THEOREM FreeListCorrect == Spec => []FreeListExact
<1>1. IInv => FreeListExact
  BY DEF IInv
<1> QED BY <1>1, Invariance, PTL

\* The reference counts are exactly the tables that hold a block plus the
\* references that detach_request abandoned.
THEOREM RefCountCorrect == Spec => []RefCountExact
<1>1. IInv => RefCountExact
  BY DEF IInv
<1> QED BY <1>1, Invariance, PTL

\* A request never sees the KV of another prompt in its table.
THEOREM TablesCorrect == Spec => []TablesHoldOwnPrefix
<1>1. IInv => TablesHoldOwnPrefix
  BY DEF IInv
<1> QED BY <1>1, Invariance, PTL

\* A hit in either index leads to a block with the indexed contents.
THEOREM IndexCorrect == Spec => []IndexSound
<1>1. IInv => IndexSound
  BY DEF IInv
<1> QED BY <1>1, Invariance, PTL

-----------------------------------------------------------------------------
\* The tensors of a held block.

\* The operations that only move references and publish hashes leave every
\* block's tensors alone.
LEMMA DataUntouched ==
  ASSUME NEW p, p \in Pools, NEW b
  PROVE  /\ FreeBlock(p, b).data = p.data
         /\ IncrementRef(p, b).data = p.data
         /\ Touch(p, b).data = p.data
         /\ \A h, v : Publish(p, b, h, v).data = p.data
BY DEF Pools, FreeBlock, IncrementRef, Touch, Publish, InsertHash, RegisterLegacy

\* The tensors of block b survive the step if b is referenced before and after.
DataKept ==
  \A b \in Blocks :
    pool.ref[b] > 0 /\ pool'.ref[b] > 0 => pool'.data[b] = pool.data[b]

\* A new block had no references, so nobody's tensors are overwritten.
LEMMA GrowKeepsData ==
  ASSUME IInv, GrowStep
  PROVE  DataKept
<1> DEFINE r == op.req
           b == NextFree(pool)
           n == Len(tables[r])
           d == Chain(r, n + 1)
<1>1. op.kind = "grow" /\ op.pos <= op.last /\ r \in Requests /\ GrowOK(r)
  BY DEF GrowStep, IInv, LoopOK
<1>2. pool' = SetData(Allocate(pool), b, d)
  BY DEF GrowStep
<1>3. /\ op.pos \in Nat /\ op.last \in Nat /\ n \in Nat
      /\ Len(Prompt[r]) \in Nat /\ n + 1 <= Len(Prompt[r])
  BY <1>1, OpFields, Lengths DEF GrowOK
<1>4. GoodPool(pool) /\ pool.free \in Seq(Blocks) /\ Len(pool.free) \in Nat
      /\ pool.free # << >>
  BY <1>1, <1>3, InvFields, PoolFields, LenProperties, EmptySeq DEF GrowOK, GoodPool
<1>5. d \in Data
  <2>1. n + 1 \in 1 .. Len(Prompt[r])
    BY <1>3
  <2> QED BY <1>1, <2>1, ChainFacts
<1> HIDE DEF d
<1> DEFINE a == Allocate(pool)
<1>6. /\ GoodPool(a)
      /\ b \in Blocks \ pool.alloc /\ pool.ref[b] = 0
      /\ Len(a.free) = Len(pool.free) - 1
      /\ a.ref = [pool.ref EXCEPT ![b] = 1]
      /\ a.hash[b] = None
      /\ \A c \in Blocks \ {b} : a.hash[c] = pool.hash[c] /\ a.data[c] = pool.data[c]
      /\ \A v \in Legacy : a.lmap[v] # None => a.lmap[v] = pool.lmap[v] /\ a.lmap[v] # b
  BY <1>4, AllocateGood
<1>7. pool' = SetData(a, b, d)
  BY <1>2
<1> HIDE DEF a, b
<1>8. pool'.data = [a.data EXCEPT ![b] = d]
  <2>1. GoodPool(a) /\ b \in Blocks
    BY <1>6
  <2> QED BY <2>1, <1>5, <1>7, SetDataGood
<1>9. \A c \in Blocks \ {b} : pool'.data[c] = pool.data[c]
  BY <1>6, <1>8, PoolFields DEF GoodPool
<1> QED BY <1>6, <1>9 DEF DataKept

\* A private copy goes to a block that had no references.
LEMMA CopyKeepsData ==
  ASSUME IInv, NEW b \in pool.alloc, NEW n, n = NextFree(pool),
         pool.ref[b] > 1, pool.free # << >>, pool' = CowCopy(pool, b)
  PROVE  DataKept
<1>1. GoodPool(pool)
  BY InvFields
<1>2. /\ GoodPool(pool')
      /\ n \in Blocks \ pool.alloc /\ n # b
      /\ pool'.ref = [pool.ref EXCEPT ![n] = 1, ![b] = @ - 1]
      /\ pool'.hash[n] = None /\ pool'.data[n] = pool.data[b]
      /\ \A c \in Blocks \ {n} : pool'.hash[c] = pool.hash[c] /\ pool'.data[c] = pool.data[c]
      /\ \A v \in Legacy : pool'.lmap[v] # None =>
           pool'.lmap[v] = pool.lmap[v] /\ pool'.lmap[v] # n
  BY <1>1, CowCopyGood
<1>3. ~ (pool.ref[n] > 0)
  BY <1>2 DEF IInv, FreeListExact, FreeExact
<1> QED BY <1>2, <1>3 DEF DataKept

\* A copy-on-write step makes such a copy or leaves the pool alone.
LEMMA CowKeepsData ==
  ASSUME IInv, CowStep
  PROVE  DataKept
<1> DEFINE b == tables[op.req][op.pos]
<1>1. CASE b \in pool.alloc /\ pool.ref[b] > 1 /\ pool.free # << >>
  <2>1. pool' = CowCopy(pool, b)
    BY <1>1 DEF CowStep
  <2> QED BY <1>1, <2>1, CopyKeepsData
<1>2. CASE ~ (b \in pool.alloc /\ pool.ref[b] > 1 /\ pool.free # << >>)
  BY <1>2 DEF CowStep, DataKept
<1> QED BY <1>1, <1>2

\* Eviction forgets the tensors of a free block only.
LEMMA EvictKeepsData ==
  ASSUME IInv, EvictStep
  PROVE  DataKept
<1>1. /\ op.pos <= op.last /\ op.pos >= 1 /\ op.last <= Len(pool.free)
      /\ pool' = EvictFront(pool)
  BY DEF EvictStep, IInv, LoopOK
<1>2. /\ op.pos \in Nat /\ op.last \in Nat
      /\ GoodPool(pool) /\ pool.free \in Seq(Blocks) /\ Len(pool.free) \in Nat
  BY OpFields, InvFields, PoolFields, LenProperties DEF GoodPool
<1>3. pool.free # << >>
  BY <1>1, <1>2, EmptySeq
<1>4. \A c \in pool.alloc : pool'.data[c] = pool.data[c]
  BY <1>1, <1>2, <1>3, EvictFrontGood
<1> QED BY <1>4 DEF DataKept, IInv, FreeListExact, FreeExact

\* No step of the manager changes the tensors of a block that is in use
\* before and after it.
LEMMA NextKeepsData ==
  ASSUME IInv, Next
  PROVE  DataKept
<1>1. pool \in Pools
  BY DEF IInv, TypeOK
<1>2. CASE pool'.data = pool.data
  BY <1>2 DEF DataKept
<1>3. CASE \A b \in Blocks : ~ (pool'.ref[b] > 0)
  BY <1>3 DEF DataKept
<1>4. CASE Loop
  <2>1. CASE CacheStep
    <3>1. PICK b, h, v : pool' = IF pool.hash[b] # None THEN pool ELSE Publish(pool, b, h, v)
      BY <2>1 DEF CacheStep
    <3>2. Publish(pool, b, h, v).data = pool.data
      BY <1>1, DataUntouched
    <3> QED BY <1>2, <3>1, <3>2
  <2>2. CASE TouchStep
    BY <1>1, <1>2, <2>2, DataUntouched DEF TouchStep
  <2>3. CASE ForkStep
    BY <1>1, <1>2, <2>3, DataUntouched DEF ForkStep
  <2>4. CASE DeleteStep
    BY <1>1, <1>2, <2>4, DataUntouched DEF DeleteStep
  <2>5. CASE LookupStep \/ Return
    BY <1>2, <2>5 DEF LookupStep, Return
  <2> QED
    BY <1>4, <2>1, <2>2, <2>3, <2>4, <2>5, GrowKeepsData, CowKeepsData,
      EvictKeepsData DEF Loop
<1>5. CASE ResetPrefixCache
  <2>1. GoodPool(pool) /\ Len(pool.free) = NumBlocks /\ pool' = ForgetAll(pool)
    BY <1>5, InvFields DEF ResetPrefixCache
  <2>2. pool.alloc = {} /\ pool'.ref = pool.ref
    BY <2>1, AllFree, ForgetAllGood
  <2>3. \A b \in Blocks : ~ (pool'.ref[b] > 0)
    BY <2>2 DEF IInv, FreeListExact, FreeExact
  <2> QED BY <1>3, <2>3
<1>6. CASE Clear
  <2>1. \A b \in Blocks : pool'.ref[b] = 0
    BY <1>6, EmptyPoolGood DEF Clear
  <2> QED BY <1>3, <2>1
<1>7. ASSUME NEW r \in Requests,
             \/ \E n \in 1 .. NumBlocks : GetNewBlocks(r, n)
             \/ \E n \in 1 .. NumBlocks : \E k \in 0 .. n - 1 :
                  CacheFullBlocks(r, k, n)
             \/ Lookup(r)
             \/ \E s \in Requests : ForkBlockTable(r, s)
             \/ GetBlocksForGeneration(r)
             \/ DeleteBlockTable(r)
             \/ DetachRequest(r)
      PROVE  DataKept
  <2>1. pool' = pool
    BY <1>7 DEF GetNewBlocks, CacheFullBlocks, Lookup, ForkBlockTable,
      GetBlocksForGeneration, DeleteBlockTable, DetachRequest
  <2> QED BY <1>2, <2>1
<1>8. CASE \E k \in 1 .. NumBlocks : HandleMemoryPressure(k)
  BY <1>2, <1>8 DEF HandleMemoryPressure
<1> QED BY <1>4, <1>5, <1>6, <1>7, <1>8 DEF Next

\* The tensors of a block never change while somebody holds a reference.
THEOREM DataCorrect == Spec => DataStable
<1>1. IInv /\ [Next]_vars => [DataKept]_vars
  BY NextKeepsData
<1>2. DataStable <=> [][DataKept]_vars
  BY DEF DataStable, DataKept
<1> QED BY <1>1, <1>2, Invariance, PTL DEF Spec
=============================================================================
