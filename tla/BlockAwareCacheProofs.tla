------------------------ MODULE BlockAwareCacheProofs ------------------------
(***************************************************************************)
(* Under the scheduler's protocol nobody decodes from foreign KV and what  *)
(* is cached stays, for any requests, prompts and pool size, as long as no *)
(* content occurs after two different prefixes: find_shared_prefix does    *)
(* not see what a content follows.                                         *)
(***************************************************************************)
EXTENDS BlockAwareCache, ListsProofs

\* No content occurs after two different prefixes.
Distinct ==
  \A u \in Users : \A s, t \in Prompts[u] :
    \A i \in 1 .. Len(s), j \in 1 .. Len(t) : s[i] = t[j] => Chain(s, i) = Chain(t, j)

-----------------------------------------------------------------------------
\* The inductive invariant.

\* Block b of pool p holds the KV of a prefix of a prompt, under its hashes.
Holds(p, b) ==
  \E s \in Prompts[user] : \E i \in 1 .. Len(s) :
    /\ p.hash[b] = Chain(s, i) /\ p.data[b] = Chain(s, i) /\ p.hval[b] = s[i]

\* Block b is the only one with its chain hash.
Sole(p, h, b) == p.hmap[h] = <<b>> /\ \A c \in Blocks : p.hash[c] = h <=> c = b

\* No block has chain hash h.
Unused(p, h) == p.hmap[h] = << >> /\ \A c \in Blocks : p.hash[c] # h

\* A block in use is published at once, and never leaves the indexes.
Stocked(p) ==
  /\ p \in Pools
  /\ IsInjective(p.free) /\ ToSet(p.free) = Blocks \ p.alloc
  /\ \A b \in Blocks : b \in p.alloc <=> p.hash[b] # None
  /\ \A b \in p.alloc : Holds(p, b) /\ p.ref[b] > 0
  /\ \A h \in Hash : Unused(p, h) \/ \E b \in Blocks : Sole(p, h, b)
  /\ \A v \in Legacy : p.lmap[v] # None =>
       p.lmap[v] \in p.alloc /\ p.hval[p.lmap[v]] = v

\* The blocks ids hold the beginning of s.
Begins(p, ids, s) ==
  /\ ids \in Seq(Blocks) /\ Len(ids) <= Len(s)
  /\ \A i \in 1 .. Len(ids) : ids[i] \in p.alloc /\ p.data[ids[i]] = Chain(s, i)

\* The running requests whose table holds block b.
Holders(b) == {r \in Requests : req[r].phase = "running" /\ b \in ToSet(tables[r])}

\* Whoever stored a block left a reference behind.
Referenced == \A b \in pool.alloc : pool.ref[b] > Cardinality(Holders(b))

SchedulerIInv ==
  /\ TypeOK /\ Stocked(pool) /\ Referenced
  /\ \A r \in Requests : Begins(pool, tables[r], req[r].prompt) /\ req[r].right
  /\ \A h \in Hash : Begins(pool, index[h], h)

IInv == user \in Users /\ (user = "scheduler" => SchedulerIInv)

-----------------------------------------------------------------------------
\* Prompts and what is held of them.

\* A prompt and its prefixes.
LEMMA PromptFacts ==
  ASSUME user \in Users, NEW s \in Prompts[user]
  PROVE  /\ s \in Seq(Legacy) /\ Len(s) \in Nat
         /\ \A i \in 1 .. Len(s) :
              /\ s[i] \in Legacy /\ Chain(s, i) \in Hash /\ Chain(s, i) \in Data
              /\ Len(Chain(s, i)) = i
              /\ \A j \in 1 .. i : Chain(Chain(s, i), j) = Chain(s, j)
<1>1. /\ s \in Seq(Legacy) /\ Hash \subseteq Data
      /\ \A i \in 1 .. Len(s) : Chain(s, i) \in Hash
  BY CacheAssumption
<1>2. Len(s) \in Nat /\ \A i \in 1 .. Len(s) : s[i] \in Legacy
  BY <1>1, LenProperties, ElementOfSeq
<1>3. ASSUME NEW i \in 1 .. Len(s)
      PROVE  /\ Len(Chain(s, i)) = i
             /\ \A j \in 1 .. i : Chain(Chain(s, i), j) = Chain(s, j)
  <2>1. \A k \in 1 .. i : s[k] \in Legacy
    BY <1>2
  <2>2. Len(SubSeq(s, 1, i)) = i /\ SubSeq(s, 1, i) \in Seq(Legacy)
    BY <1>2, <2>1, SubSeqProperties
  <2>3. ASSUME NEW j \in 1 .. i
        PROVE  SubSeq(SubSeq(s, 1, i), 1, j) = SubSeq(s, 1, j)
    <3>1. 1 \in 1 .. Len(s) /\ 1 \in 1 .. i - 1 + 1 /\ j \in 1 .. i - 1 + 1
      BY <1>2
    <3>2. SubSeq(SubSeq(s, 1, i), 1, j) = SubSeq(s, 1 + 1 - 1, 1 + j - 1)
      BY <1>1, <3>1, SubSeqOfSubSeq
    <3> QED BY <1>2, <3>2
  <2> QED BY <2>2, <2>3 DEF Chain
<1> QED
  BY <1>1, <1>2, <1>3

\* The block found under a content is the one with the prefix.
LEMMA HeldByContent ==
  ASSUME user \in Users, Distinct, NEW p, Stocked(p),
         NEW s \in Prompts[user], NEW i \in 1 .. Len(s),
         NEW b, b = FindCached(p, s[i]), b # None
  PROVE  b \in p.alloc /\ p.data[b] = Chain(s, i)
<1>1. s[i] \in Legacy
  BY PromptFacts
<1>2. b = p.lmap[s[i]] /\ b \in p.alloc /\ p.hval[b] = s[i]
  BY <1>1 DEF FindCached, Stocked
<1>3. PICK t \in Prompts[user] : \E j \in 1 .. Len(t) :
        p.data[b] = Chain(t, j) /\ p.hval[b] = t[j]
  BY <1>2 DEF Stocked, Holds
<1>4. PICK j \in 1 .. Len(t) : p.data[b] = Chain(t, j) /\ p.hval[b] = t[j]
  BY <1>3
<1>5. Chain(s, i) = Chain(t, j)
  <2>1. s[i] = t[j]
    BY <1>2, <1>4
  <2>2. \A k \in 1 .. Len(s), l \in 1 .. Len(t) :
          s[k] = t[l] => Chain(s, k) = Chain(t, l)
    BY DEF Distinct
  <2> QED BY <2>1, <2>2
<1> QED
  BY <1>2, <1>4, <1>5

\* The block found under a chain hash is the one with the prefix.
LEMMA HeldByHash ==
  ASSUME NEW p, Stocked(p), NEW h \in Hash, NEW b, b = GetBlock(p, h), b # None
  PROVE  b \in p.alloc /\ p.data[b] = h
<1>1. p.hmap[h] # << >> /\ b = Head(p.hmap[h])
  BY DEF GetBlock
<1>2. PICK c \in Blocks : Sole(p, h, c)
  BY <1>1 DEF Stocked, Unused
<1>3. b = c /\ p.hash[b] = h
  BY <1>1, <1>2 DEF Sole
<1>4. b \in p.alloc
  BY <1>2, <1>3, PoolAssumption DEF Stocked
<1>5. p.data[b] = p.hash[b]
  BY <1>4 DEF Stocked, Holds
<1> QED
  BY <1>3, <1>4, <1>5

\* Blocks that hold a prompt's beginning differ, for their data do.
LEMMA BeginsInjective ==
  ASSUME user \in Users, NEW p, NEW ids, NEW s \in Prompts[user], Begins(p, ids, s)
  PROVE  IsInjective(ids) /\ ToSet(ids) \subseteq p.alloc
<1>1. ids \in Seq(Blocks) /\ Len(ids) \in Nat /\ DOMAIN ids = 1 .. Len(ids)
  BY LenProperties DEF Begins
<1>2. \A i \in 1 .. Len(ids) :
        i \in 1 .. Len(s) /\ ids[i] \in p.alloc /\ p.data[ids[i]] = Chain(s, i)
  BY <1>1, PromptFacts DEF Begins
<1>3. \A i \in 1 .. Len(s) : Len(Chain(s, i)) = i
  BY PromptFacts
<1>4. \A i, j \in 1 .. Len(ids) : ids[i] = ids[j] => i = j
  BY <1>2, <1>3
<1> QED
  BY <1>1, <1>2, <1>4 DEF IsInjective, ToSet

-----------------------------------------------------------------------------
\* fetch_cache: what is matched is the prompt's beginning.

LEMMA SharedBlocksBegin ==
  ASSUME user \in Users, Distinct, Stocked(pool), NEW s \in Prompts[user]
  PROVE  Begins(pool, SharedBlocks(s), s)
<1> DEFINE N == Len(s)
           hits(k) == \A i \in 1 .. k : FindCached(pool, s[i]) # None
           n == CHOOSE k \in 0 .. N : hits(k) /\ (k < N => ~ hits(k + 1))
           ids == [i \in 1 .. n |-> FindCached(pool, s[i])]
<1>1. N \in Nat
  BY PromptFacts
<1>2. \E k \in 0 .. N : hits(k) /\ (k < N => ~ hits(k + 1))
  <2> SUFFICES ASSUME \A k \in 0 .. N : hits(k) => k < N /\ hits(k + 1)
               PROVE  FALSE
    OBVIOUS
  <2> DEFINE G == {k \in 0 .. N : hits(k)}
  <2>1. hits(0)
    OBVIOUS
  <2> HIDE DEF hits, N
  <2>2. 0 \in G /\ \A k \in 1 .. N : k - 1 \in G => k \in G
    BY <1>1, <2>1
  <2>3. \A k \in 0 .. N : k \in G
    <3> HIDE DEF G
    <3> QED BY <1>1, <2>2, UpTo
  <2> QED BY <1>1, <2>3
<1>3. n \in 0 .. N /\ hits(n)
  <2> HIDE DEF hits, N
  <2> QED BY <1>2
<1>4. SharedBlocks(s) = ids
  BY DEF SharedBlocks
<1> HIDE DEF n, N
<1>5. \A i \in 1 .. n : ids[i] \in pool.alloc /\ pool.data[ids[i]] = Chain(s, i)
  <2> SUFFICES ASSUME NEW i \in 1 .. n
               PROVE  ids[i] \in pool.alloc /\ pool.data[ids[i]] = Chain(s, i)
    OBVIOUS
  <2>1. i \in 1 .. Len(s) /\ ids[i] = FindCached(pool, s[i]) /\ ids[i] # None
    BY <1>1, <1>3 DEF N
  <2> HIDE DEF ids
  <2> QED BY <2>1, HeldByContent
<1>6. pool.alloc \subseteq Blocks
  BY DEF Stocked, Pools
<1>7. ids \in [1 .. n -> Blocks] /\ n \in Nat
  BY <1>1, <1>3, <1>5, <1>6
<1>8. ids \in Seq(Blocks) /\ Len(ids) = n
  <2> HIDE DEF ids
  <2> QED BY <1>7, IsASeq, LenProperties
<1> HIDE DEF ids
<1> QED
  BY <1>1, <1>3, <1>4, <1>5, <1>8 DEF Begins, N

\* A set of numbers up to N that is not empty has a greatest one.
LEMMA Greatest ==
  ASSUME NEW N \in Nat, NEW T \in SUBSET (1 .. N), T # {}
  PROVE  \E k \in T : \A j \in T : j <= k
<1> SUFFICES ASSUME \A k \in T : \E j \in T : j > k
             PROVE  FALSE
  OBVIOUS
<1> DEFINE G == {n \in 0 .. N : \E j \in T : j > n}
<1>1. 0 \in G
  <2>1. PICK j \in T : j \in 1 .. N
    OBVIOUS
  <2> QED BY <2>1
<1>2. \A n \in 1 .. N : n - 1 \in G => n \in G
  <2> SUFFICES ASSUME NEW n \in 1 .. N, NEW j \in T, j > n - 1
               PROVE  \E k \in T : k > n
    OBVIOUS
  <2>1. CASE j > n
    BY <2>1
  <2>2. CASE j = n
    BY <2>2
  <2> QED BY <2>1, <2>2
<1>3. N \in G
  <2> HIDE DEF G
  <2>1. \A n \in 0 .. N : n \in G
    BY <1>1, <1>2, UpTo
  <2> QED BY <2>1
<1> QED
  BY <1>3

LEMMA BestMatchBegins ==
  ASSUME user \in Users, NEW s \in Prompts[user],
         \A h \in Hash : Begins(pool, index[h], h)
  PROVE  Begins(pool, BestMatch(s), s)
<1> DEFINE good == {k \in 1 .. Len(s) :
                      /\ index[Chain(s, k)] # << >>
                      /\ AllAllocated(index[Chain(s, k)])}
           n == CHOOSE k \in good : \A j \in good : j <= k
<1>1. CASE good = {}
  <2>1. BestMatch(s) = << >>
    BY <1>1 DEF BestMatch
  <2>2. << >> \in Seq(Blocks) /\ Len(<< >>) = 0 /\ Len(s) \in Nat
    BY EmptySeq, PromptFacts
  <2> QED BY <2>1, <2>2 DEF Begins
<1>2. CASE good # {}
  <2>1. BestMatch(s) = index[Chain(s, n)]
    BY <1>2 DEF BestMatch
  <2>2. n \in good
    <3>1. good \in SUBSET (1 .. Len(s)) /\ Len(s) \in Nat
      BY PromptFacts
    <3> HIDE DEF good
    <3> QED BY <1>2, <3>1, Greatest
  <2>3. n \in 1 .. Len(s) /\ Len(s) \in Nat
    BY <2>2, PromptFacts
  <2> HIDE DEF n, good
  <2>4. /\ Chain(s, n) \in Hash /\ Len(Chain(s, n)) = n
        /\ \A j \in 1 .. n : Chain(Chain(s, n), j) = Chain(s, j)
    BY <2>3, PromptFacts
  <2>5. Begins(pool, BestMatch(s), Chain(s, n))
    BY <2>1, <2>4
  <2>6. Len(BestMatch(s)) \in Nat
    BY <2>5, LenProperties DEF Begins
  <2> QED BY <2>3, <2>4, <2>5, <2>6 DEF Begins
<1> QED
  BY <1>1, <1>2

\* What a fetch hands out is right.
LEMMA MatchedBegins ==
  ASSUME user \in Users, Distinct, SchedulerIInv, NEW s \in Prompts[user]
  PROVE  Begins(pool, Matched(s), s) /\ HoldsPrefix(Matched(s), s)
<1>1. Begins(pool, Matched(s), s)
  BY SharedBlocksBegin, BestMatchBegins DEF Matched, SchedulerIInv
<1> QED
  BY <1>1 DEF Begins, HoldsPrefix

-----------------------------------------------------------------------------
\* The loops over the blocks of a table.

IsPool(p) ==
  p = [free |-> p.free, alloc |-> p.alloc, ref |-> p.ref, hash |-> p.hash,
       hval |-> p.hval, data |-> p.data, hmap |-> p.hmap, lmap |-> p.lmap]

PoolTyped(p) ==
  /\ p.free \in Seq(Blocks) /\ p.alloc \in SUBSET Blocks
  /\ p.ref \in [Blocks -> Nat] /\ p.hash \in [Blocks -> Hash \cup {None}]
  /\ p.hval \in [Blocks -> Legacy \cup {None}]
  /\ p.data \in [Blocks -> Data \cup {None}]
  /\ p.hmap \in [Hash -> Seq(Blocks)] /\ p.lmap \in [Legacy -> Blocks \cup {None}]

\* A pool is a record of its fields.
LEMMA PoolParts ==
  ASSUME NEW p
  PROVE  p \in Pools <=> IsPool(p) /\ PoolTyped(p)
BY DEF Pools, IsPool, PoolTyped

\* Nothing but counts tells q from p.
Recount(p, q) ==
  /\ q \in Pools /\ q.free = p.free /\ q.alloc = p.alloc /\ q.hash = p.hash
  /\ q.hval = p.hval /\ q.data = p.data /\ q.hmap = p.hmap /\ q.lmap = p.lmap

LEMMA OneShared ==
  ASSUME NEW p, p \in Pools, NEW b \in Blocks, NEW q, q = IncrementRef(p, b)
  PROVE  /\ q \in Pools
         /\ b \in p.alloc => Recount(p, q) /\ q.ref = [p.ref EXCEPT ![b] = @ + 1]
<1>1. IsPool(p) /\ PoolTyped(p)
  BY PoolParts
<1>2. CASE b \notin p.alloc
  BY <1>2 DEF IncrementRef
<1>3. CASE b \in p.alloc
  <2>1. /\ IsPool(q) /\ q.ref = [p.ref EXCEPT ![b] = @ + 1]
        /\ q.free = p.free /\ q.alloc = p.alloc /\ q.hash = p.hash
        /\ q.hval = p.hval /\ q.data = p.data /\ q.hmap = p.hmap /\ q.lmap = p.lmap
    BY <1>1, <1>3 DEF IsPool, IncrementRef
  <2>2. q.ref \in [Blocks -> Nat]
    BY <1>1, <2>1 DEF PoolTyped
  <2>3. q \in Pools
    BY <1>1, <2>1, <2>2, PoolParts DEF PoolTyped
  <2> QED BY <2>1, <2>3 DEF Recount
<1> QED
  BY <1>2, <1>3

LEMMA OneFreed ==
  ASSUME NEW p, p \in Pools, NEW b \in Blocks, NEW q, q = FreeBlock(p, b)
  PROVE  /\ q \in Pools
         /\ b \in p.alloc /\ p.ref[b] > 1 =>
              Recount(p, q) /\ q.ref = [p.ref EXCEPT ![b] = @ - 1]
<1>1. IsPool(p) /\ PoolTyped(p)
  BY PoolParts
<1>2. CASE b \notin p.alloc
  BY <1>2 DEF FreeBlock
<1>3. CASE b \in p.alloc /\ p.ref[b] > 1
  <2>1. /\ IsPool(q) /\ q.ref = [p.ref EXCEPT ![b] = @ - 1]
        /\ q.free = p.free /\ q.alloc = p.alloc /\ q.hash = p.hash
        /\ q.hval = p.hval /\ q.data = p.data /\ q.hmap = p.hmap /\ q.lmap = p.lmap
    BY <1>1, <1>3 DEF IsPool, FreeBlock
  <2>2. q.ref \in [Blocks -> Nat]
    BY <1>1, <1>3, <2>1 DEF PoolTyped
  <2>3. q \in Pools
    BY <1>1, <2>1, <2>2, PoolParts DEF PoolTyped
  <2> QED BY <2>1, <2>3 DEF Recount
<1>4. CASE b \in p.alloc /\ ~ (p.ref[b] > 1)
  <2>1. /\ IsPool(q) /\ q.ref = [p.ref EXCEPT ![b] = 0]
        /\ q.free = Append(p.free, b) /\ q.alloc = p.alloc \ {b} /\ q.hash = p.hash
        /\ q.hval = p.hval /\ q.data = p.data /\ q.hmap = p.hmap /\ q.lmap = p.lmap
    BY <1>1, <1>4 DEF IsPool, FreeBlock
  <2>2. q.ref \in [Blocks -> Nat]
    BY <1>1, <2>1 DEF PoolTyped
  <2>3. q.free \in Seq(Blocks)
    BY <1>1, <2>1, AppendFacts DEF PoolTyped
  <2>4. q \in Pools
    BY <1>1, <2>1, <2>2, <2>3, PoolParts DEF PoolTyped
  <2> QED BY <1>4, <2>4
<1> QED
  BY <1>2, <1>3, <1>4

\* b is one of the first n of ids.
Among(ids, n, b) == \E i \in 1 .. n : ids[i] = b

LEMMA AmongSteps ==
  ASSUME NEW S, NEW ids \in Seq(S), IsInjective(ids), NEW n \in 1 .. Len(ids)
  PROVE  /\ ids[n] \in S /\ ~ Among(ids, n - 1, ids[n]) /\ n - 1 \in 0 .. Len(ids)
         /\ \A b : Among(ids, n, b) <=> b = ids[n] \/ Among(ids, n - 1, b)
         /\ ids[n] \in ToSet(ids)
<1>1. Len(ids) \in Nat /\ DOMAIN ids = 1 .. Len(ids)
  BY LenProperties
<1>2. \A i \in 1 .. n - 1 : i \in 1 .. Len(ids) /\ i # n
  BY <1>1
<1>3. ids[n] \in S
  BY ElementOfSeq
<1>4. ~ Among(ids, n - 1, ids[n])
  BY <1>1, <1>2 DEF Among, IsInjective
<1>5. \A b : Among(ids, n, b) <=> b = ids[n] \/ Among(ids, n - 1, b)
  <2>1. \A i \in 1 .. n : i = n \/ i \in 1 .. n - 1
    BY <1>1
  <2>2. n \in 1 .. n /\ \A i \in 1 .. n - 1 : i \in 1 .. n
    BY <1>1
  <2> QED BY <2>1, <2>2 DEF Among
<1> QED
  BY <1>1, <1>3, <1>4, <1>5 DEF ToSet

LEMMA AmongAll ==
  ASSUME NEW S, NEW ids \in Seq(S)
  PROVE  \A b : Among(ids, Len(ids), b) <=> b \in ToSet(ids)
<1>1. DOMAIN ids = 1 .. Len(ids)
  BY LenProperties
<1> QED
  BY <1>1 DEF Among, ToSet

\* A fetch counts each block of its hit once more.
LEMMA SharingFacts ==
  ASSUME NEW p, p \in Pools, NEW ids \in Seq(Blocks), IsInjective(ids),
         ToSet(ids) \subseteq p.alloc, NEW q, q = Sharing(p, ids)
  PROVE  /\ Recount(p, q)
         /\ \A b \in Blocks : q.ref[b] = p.ref[b] + (IF b \in ToSet(ids) THEN 1 ELSE 0)
<1> DEFINE N == Len(ids)
           X == Pools
           H == [n \in 1 .. N |-> [w \in X |-> IncrementRef(w, ids[n])]]
           f == CHOOSE f : f = [n \in 0 .. N |->
                  IF n = 0 THEN p ELSE IncrementRef(f[n - 1], ids[n])]
<1>1. N \in Nat /\ \A n \in 1 .. N : ids[n] \in Blocks
  BY LenProperties, ElementOfSeq
<1>2. \A w \in X, n \in 1 .. N : IncrementRef(w, ids[n]) \in X
  <2> HIDE DEF N
  <2> QED BY <1>1, OneShared
<1>3. H \in StepsIn(X, N)
  <2> HIDE DEF X, N
  <2> QED BY <1>1, <1>2 DEF StepsIn
<1>4. PICK g : Iterates(X, N, p, H, g)
  <2> HIDE DEF N, H
  <2> QED BY <1>1, <1>3, Iteration
<1>5. g = [n \in 0 .. N |-> IF n = 0 THEN p ELSE IncrementRef(g[n - 1], ids[n])]
  <2>1. /\ g \in [0 .. N -> X] /\ g[0] = p
        /\ \A n \in 1 .. N : g[n] = H[n][g[n - 1]]
    <3> HIDE DEF X, N, H
    <3> QED BY <1>4 DEF Iterates
  <2>2. \A n \in 1 .. N : g[n] = IncrementRef(g[n - 1], ids[n])
    <3> SUFFICES ASSUME NEW n \in 1 .. N
                 PROVE  g[n] = IncrementRef(g[n - 1], ids[n])
      OBVIOUS
    <3> HIDE DEF X, N
    <3>1. n - 1 \in 0 .. N
      BY <1>1
    <3>2. g[n - 1] \in X
      BY <2>1, <3>1
    <3> QED BY <2>1, <3>2
  <2>3. \A n \in 0 .. N : n # 0 => n \in 1 .. N
    BY <1>1
  <2> HIDE DEF X, N, H
  <2> QED BY <2>1, <2>2, <2>3
<1>6. f = [n \in 0 .. N |-> IF n = 0 THEN p ELSE IncrementRef(f[n - 1], ids[n])]
  <2> HIDE DEF X, N, H
  <2> QED BY <1>5 DEF f
<1>7. q = f[N]
  BY DEF Sharing
<1> HIDE DEF f
<1> DEFINE At(n) ==
             /\ Recount(p, f[n])
             /\ \A b \in Blocks :
                  f[n].ref[b] = p.ref[b] + (IF Among(ids, n, b) THEN 1 ELSE 0)
           G == {n \in 0 .. N : At(n)}
<1>8. At(0)
  <2>1. f[0] = p
    BY <1>1, <1>6
  <2>2. \A b : ~ Among(ids, 0, b)
    BY DEF Among
  <2>3. p.ref \in [Blocks -> Nat]
    BY PoolParts DEF PoolTyped
  <2> QED BY <2>1, <2>2, <2>3 DEF Recount
<1>9. ASSUME NEW n \in 1 .. N, At(n - 1)
      PROVE  At(n)
  <2>1. f[n] = IncrementRef(f[n - 1], ids[n])
    BY <1>1, <1>6
  <2>2. /\ ids[n] \in Blocks /\ ~ Among(ids, n - 1, ids[n]) /\ n - 1 \in 0 .. Len(ids)
        /\ \A b : Among(ids, n, b) <=> b = ids[n] \/ Among(ids, n - 1, b)
        /\ ids[n] \in ToSet(ids)
    BY AmongSteps
  <2>3. PICK x, y : x = f[n - 1] /\ y = f[n]
    OBVIOUS
  <2>4. Recount(p, x) /\ x \in Pools /\ ids[n] \in x.alloc
    BY <1>9, <2>2, <2>3 DEF Recount
  <2>5. y \in Pools /\ Recount(x, y) /\ y.ref = [x.ref EXCEPT ![ids[n]] = @ + 1]
    BY <2>1, <2>2, <2>3, <2>4, OneShared
  <2>6. Recount(p, y)
    BY <2>4, <2>5 DEF Recount
  <2>7. \A b \in Blocks : y.ref[b] = p.ref[b] + (IF Among(ids, n, b) THEN 1 ELSE 0)
    <3> SUFFICES ASSUME NEW b \in Blocks
                 PROVE  y.ref[b] = p.ref[b] + (IF Among(ids, n, b) THEN 1 ELSE 0)
      OBVIOUS
    <3>1. /\ x.ref \in [Blocks -> Nat] /\ p.ref[b] \in Nat
          /\ x.ref[b] = p.ref[b] + (IF Among(ids, n - 1, b) THEN 1 ELSE 0)
      BY <1>9, <2>3, <2>4, PoolParts DEF PoolTyped
    <3>2. y.ref[b] = IF b = ids[n] THEN x.ref[b] + 1 ELSE x.ref[b]
      BY <2>5, <3>1
    <3> QED BY <2>2, <3>1, <3>2
  <2> QED BY <2>3, <2>6, <2>7
<1>10. At(N)
  <2>1. 0 \in G /\ \A n \in 1 .. N : n - 1 \in G => n \in G
    <3> HIDE DEF At
    <3> QED BY <1>1, <1>8, <1>9
  <2> HIDE DEF G, N
  <2>2. \A n \in 0 .. N : n \in G
    BY <1>1, <2>1, UpTo
  <2>3. N \in G
    BY <1>1, <2>2
  <2> QED BY <2>3 DEF G
<1>11. \A b : Among(ids, N, b) <=> b \in ToSet(ids)
  BY AmongAll
<1> QED
  BY <1>7, <1>10, <1>11

\* An abort counts each block of its table once less, and frees none that has
\* other references.
LEMMA FreeingFacts ==
  ASSUME NEW p, p \in Pools, NEW ids \in Seq(Blocks), IsInjective(ids),
         ToSet(ids) \subseteq p.alloc, \A b \in ToSet(ids) : p.ref[b] > 1,
         NEW q, q = Freeing(p, ids)
  PROVE  /\ Recount(p, q)
         /\ \A b \in Blocks : q.ref[b] = p.ref[b] - (IF b \in ToSet(ids) THEN 1 ELSE 0)
<1> DEFINE N == Len(ids)
           X == Pools
           H == [n \in 1 .. N |-> [w \in X |-> FreeBlock(w, ids[n])]]
           f == CHOOSE f : f = [n \in 0 .. N |->
                  IF n = 0 THEN p ELSE FreeBlock(f[n - 1], ids[n])]
<1>1. N \in Nat /\ \A n \in 1 .. N : ids[n] \in Blocks
  BY LenProperties, ElementOfSeq
<1>2. \A w \in X, n \in 1 .. N : FreeBlock(w, ids[n]) \in X
  <2> HIDE DEF N
  <2> QED BY <1>1, OneFreed
<1>3. H \in StepsIn(X, N)
  <2> HIDE DEF X, N
  <2> QED BY <1>1, <1>2 DEF StepsIn
<1>4. PICK g : Iterates(X, N, p, H, g)
  <2> HIDE DEF N, H
  <2> QED BY <1>1, <1>3, Iteration
<1>5. g = [n \in 0 .. N |-> IF n = 0 THEN p ELSE FreeBlock(g[n - 1], ids[n])]
  <2>1. /\ g \in [0 .. N -> X] /\ g[0] = p
        /\ \A n \in 1 .. N : g[n] = H[n][g[n - 1]]
    <3> HIDE DEF X, N, H
    <3> QED BY <1>4 DEF Iterates
  <2>2. \A n \in 1 .. N : g[n] = FreeBlock(g[n - 1], ids[n])
    <3> SUFFICES ASSUME NEW n \in 1 .. N
                 PROVE  g[n] = FreeBlock(g[n - 1], ids[n])
      OBVIOUS
    <3> HIDE DEF X, N
    <3>1. n - 1 \in 0 .. N
      BY <1>1
    <3>2. g[n - 1] \in X
      BY <2>1, <3>1
    <3> QED BY <2>1, <3>2
  <2>3. \A n \in 0 .. N : n # 0 => n \in 1 .. N
    BY <1>1
  <2> HIDE DEF X, N, H
  <2> QED BY <2>1, <2>2, <2>3
<1>6. f = [n \in 0 .. N |-> IF n = 0 THEN p ELSE FreeBlock(f[n - 1], ids[n])]
  <2> HIDE DEF X, N, H
  <2> QED BY <1>5 DEF f
<1>7. q = f[N]
  BY DEF Freeing
<1> HIDE DEF f
<1> DEFINE At(n) ==
             /\ Recount(p, f[n])
             /\ \A b \in Blocks :
                  f[n].ref[b] = p.ref[b] - (IF Among(ids, n, b) THEN 1 ELSE 0)
           G == {n \in 0 .. N : At(n)}
<1>8. At(0)
  <2>1. f[0] = p
    BY <1>1, <1>6
  <2>2. \A b : ~ Among(ids, 0, b)
    BY DEF Among
  <2>3. p.ref \in [Blocks -> Nat]
    BY PoolParts DEF PoolTyped
  <2> QED BY <2>1, <2>2, <2>3 DEF Recount
<1>9. ASSUME NEW n \in 1 .. N, At(n - 1)
      PROVE  At(n)
  <2>1. f[n] = FreeBlock(f[n - 1], ids[n])
    BY <1>1, <1>6
  <2>2. /\ ids[n] \in Blocks /\ ~ Among(ids, n - 1, ids[n]) /\ n - 1 \in 0 .. Len(ids)
        /\ \A b : Among(ids, n, b) <=> b = ids[n] \/ Among(ids, n - 1, b)
        /\ ids[n] \in ToSet(ids)
    BY AmongSteps
  <2>3. PICK x, y : x = f[n - 1] /\ y = f[n]
    OBVIOUS
  <2>4. Recount(p, x) /\ x \in Pools /\ ids[n] \in x.alloc /\ x.ref[ids[n]] > 1
    <3>1. p.ref[ids[n]] \in Nat /\ p.ref[ids[n]] > 1
      BY <2>2, PoolParts DEF PoolTyped
    <3> QED BY <1>9, <2>2, <2>3, <3>1 DEF Recount
  <2>5. y \in Pools /\ Recount(x, y) /\ y.ref = [x.ref EXCEPT ![ids[n]] = @ - 1]
    BY <2>1, <2>2, <2>3, <2>4, OneFreed
  <2>6. Recount(p, y)
    BY <2>4, <2>5 DEF Recount
  <2>7. \A b \in Blocks : y.ref[b] = p.ref[b] - (IF Among(ids, n, b) THEN 1 ELSE 0)
    <3> SUFFICES ASSUME NEW b \in Blocks
                 PROVE  y.ref[b] = p.ref[b] - (IF Among(ids, n, b) THEN 1 ELSE 0)
      OBVIOUS
    <3>1. /\ x.ref \in [Blocks -> Nat] /\ p.ref[b] \in Nat
          /\ x.ref[b] = p.ref[b] - (IF Among(ids, n - 1, b) THEN 1 ELSE 0)
      BY <1>9, <2>3, <2>4, PoolParts DEF PoolTyped
    <3>2. y.ref[b] = IF b = ids[n] THEN x.ref[b] - 1 ELSE x.ref[b]
      BY <2>5, <3>1
    <3> QED BY <2>2, <3>1, <3>2
  <2> QED BY <2>3, <2>6, <2>7
<1>10. At(N)
  <2>1. 0 \in G /\ \A n \in 1 .. N : n - 1 \in G => n \in G
    <3> HIDE DEF At
    <3> QED BY <1>1, <1>8, <1>9
  <2> HIDE DEF G, N
  <2>2. \A n \in 0 .. N : n \in G
    BY <1>1, <2>1, UpTo
  <2>3. N \in G
    BY <1>1, <2>2
  <2> QED BY <2>3 DEF G
<1>11. \A b : Among(ids, N, b) <=> b \in ToSet(ids)
  BY AmongAll
<1> QED
  BY <1>7, <1>10, <1>11

-----------------------------------------------------------------------------
\* store_cache.

\* q keeps what p has.
Grown(p, q) ==
  /\ p.alloc \subseteq q.alloc
  /\ \A b \in p.alloc :
       q.hash[b] = p.hash[b] /\ q.data[b] = p.data[b] /\ q.ref[b] >= p.ref[b]

LEMMA GrownTransitive ==
  ASSUME NEW p \in Pools, NEW q \in Pools, NEW w \in Pools, Grown(p, q), Grown(q, w)
  PROVE  Grown(p, w)
<1>1. \A b \in p.alloc : p.ref[b] \in Nat /\ q.ref[b] \in Nat /\ w.ref[b] \in Nat
  BY PoolParts DEF PoolTyped
<1> QED
  BY <1>1 DEF Grown

LEMMA GrownReflexive == ASSUME NEW p \in Pools PROVE Grown(p, p)
<1>1. \A b \in p.alloc : p.ref[b] \in Nat
  BY PoolParts DEF PoolTyped
<1> QED
  BY <1>1 DEF Grown

\* What begins a prompt still does when the pool has grown.
LEMMA BeginsGrown ==
  ASSUME NEW p, NEW q, Grown(p, q), NEW ids, NEW s, Begins(p, ids, s)
  PROVE  Begins(q, ids, s)
BY DEF Begins, Grown

LEMMA RecountStocked ==
  ASSUME NEW p, Stocked(p), NEW q, Recount(p, q), \A b \in p.alloc : q.ref[b] > 0
  PROVE  Stocked(q)
<1>1. \A b \in p.alloc : Holds(p, b)
  BY DEF Stocked
<1>2. /\ q.free = p.free /\ q.alloc = p.alloc /\ q.hash = p.hash /\ q.hval = p.hval
      /\ q.data = p.data /\ q.hmap = p.hmap /\ q.lmap = p.lmap /\ q \in Pools
  BY DEF Recount
<1>3. \A b \in q.alloc : Holds(q, b)
  BY <1>1, <1>2 DEF Holds
<1>4. \A h \in Hash : Unused(q, h) \/ \E b \in Blocks : Sole(q, h, b)
  <2>1. \A h \in Hash : Unused(p, h) \/ \E b \in Blocks : Sole(p, h, b)
    BY DEF Stocked
  <2>2. \A h, b : (Sole(p, h, b) => Sole(q, h, b)) /\ (Unused(p, h) => Unused(q, h))
    BY <1>2 DEF Sole, Unused
  <2> QED BY <1>2, <2>1, <2>2
<1>5. IsInjective(q.free) /\ ToSet(q.free) = Blocks \ q.alloc
  BY <1>2 DEF Stocked
<1>6. \A b \in Blocks : b \in q.alloc <=> q.hash[b] # None
  BY <1>2 DEF Stocked
<1>7. \A v \in Legacy : q.lmap[v] # None =>
        q.lmap[v] \in q.alloc /\ q.hval[q.lmap[v]] = v
  BY <1>2 DEF Stocked
<1> QED
  BY <1>2, <1>3, <1>4, <1>5, <1>6, <1>7 DEF Stocked

\* A block that is cached is counted once more.
LEMMA HitStocked ==
  ASSUME NEW p, Stocked(p), NEW b \in p.alloc, NEW q, q = [p EXCEPT !.ref[b] = @ + 1]
  PROVE  Stocked(q) /\ Grown(p, q) /\ q.data = p.data /\ q.alloc = p.alloc
<1>1. p \in Pools /\ b \in Blocks /\ q = IncrementRef(p, b)
  BY PoolParts DEF Stocked, IncrementRef, PoolTyped
<1>2. Recount(p, q) /\ q.ref = [p.ref EXCEPT ![b] = @ + 1]
  BY <1>1, OneShared
<1>3. p.ref \in [Blocks -> Nat] /\ p.alloc \subseteq Blocks
  BY <1>1, PoolParts DEF PoolTyped
<1>4. \A c \in p.alloc : q.ref[c] >= p.ref[c] /\ q.ref[c] > 0
  <2>1. \A c \in p.alloc : p.ref[c] > 0
    BY DEF Stocked
  <2> QED BY <1>2, <1>3, <2>1
<1>5. Grown(p, q)
  BY <1>2, <1>4 DEF Grown, Recount
<1> QED
  BY <1>2, <1>4, <1>5, RecountStocked DEF Recount

\* A new block is taken from the front of the queue and published: q is what
\* becomes of p.
Taken(p, q, b, h, v) ==
  /\ IsPool(q)
  /\ q.free = Tail(p.free) /\ q.alloc = p.alloc \cup {b}
  /\ q.ref = [p.ref EXCEPT ![b] = 1] /\ q.hash = [p.hash EXCEPT ![b] = h]
  /\ q.hval = [p.hval EXCEPT ![b] = v] /\ q.data = [p.data EXCEPT ![b] = h]
  /\ q.hmap = [p.hmap EXCEPT ![h] = <<b>>] /\ q.lmap = [p.lmap EXCEPT ![v] = b]

LEMMA TakeNew ==
  ASSUME NEW p, Stocked(p), p.free # << >>, NEW h \in Hash, GetBlock(p, h) = None,
         NEW v \in Legacy, NEW b, b = NextFree(p),
         NEW q, q = Publish(SetData(Allocate(p), b, h), b, h, v)
  PROVE  Taken(p, q, b, h, v) /\ b \in Blocks /\ b \notin p.alloc
<1>1. IsPool(p) /\ PoolTyped(p)
  BY PoolParts DEF Stocked
<1>2. /\ b \in Blocks /\ b \in ToSet(p.free)
  BY <1>1, TailFacts DEF PoolTyped, NextFree
<1>3. b \notin p.alloc /\ p.hash[b] = None
  BY <1>2 DEF Stocked
<1>4. p.hmap[h] = << >>
  <2> SUFFICES ASSUME p.hmap[h] # << >>
               PROVE  FALSE
    OBVIOUS
  <2>1. p.hmap[h] \in Seq(Blocks)
    BY <1>1 DEF PoolTyped
  <2>2. Head(p.hmap[h]) \in Blocks
    BY <2>1, TailFacts
  <2> QED BY <2>2, PoolAssumption DEF GetBlock
<1>5. MaybeEvict(p, b) = p
  BY <1>3 DEF MaybeEvict
<1> DEFINE a == Allocate(p)
           d == SetData(a, b, h)
           i == InsertHash(d, b, h)
<1>6. a = [p EXCEPT !.free = Tail(@), !.alloc = @ \cup {b}, !.ref[b] = 1]
  BY <1>5 DEF Allocate
<1> HIDE DEF a
<1>7. /\ IsPool(a) /\ a.free = Tail(p.free) /\ a.alloc = p.alloc \cup {b}
      /\ a.ref = [p.ref EXCEPT ![b] = 1] /\ a.hash = p.hash /\ a.hval = p.hval
      /\ a.data = p.data /\ a.hmap = p.hmap /\ a.lmap = p.lmap
  BY <1>1, <1>6 DEF IsPool
<1>8. d = [a EXCEPT !.data[b] = h]
  BY DEF SetData
<1> HIDE DEF d
<1>9. /\ IsPool(d) /\ d.free = a.free /\ d.alloc = a.alloc
      /\ d.ref = a.ref /\ d.hash = a.hash /\ d.hval = a.hval
      /\ d.data = [a.data EXCEPT ![b] = h] /\ d.hmap = a.hmap /\ d.lmap = a.lmap
  BY <1>7, <1>8 DEF IsPool
<1>10. ~ Contains(d.hmap[h], b) /\ Append(d.hmap[h], b) = <<b>>
  <2>1. d.hmap[h] = << >>
    BY <1>4, <1>7, <1>9
  <2>2. Append(<< >>, b) = <<b>> /\ Len(<< >>) = 0
    OBVIOUS
  <2> QED BY <2>1, <2>2 DEF Contains
<1>11. /\ i = [d EXCEPT !.hash[b] = h, !.hmap[h] = <<b>>]
  BY <1>1, <1>7, <1>9, <1>10 DEF InsertHash, PoolTyped
<1> HIDE DEF i
<1>12. /\ IsPool(i) /\ i.free = d.free /\ i.alloc = d.alloc
       /\ i.ref = d.ref /\ i.hash = [d.hash EXCEPT ![b] = h] /\ i.hval = d.hval
       /\ i.data = d.data /\ i.hmap = [d.hmap EXCEPT ![h] = <<b>>] /\ i.lmap = d.lmap
  BY <1>9, <1>11 DEF IsPool
<1>13. q = [i EXCEPT !.hval[b] = v, !.lmap[v] = b]
  BY DEF Publish, RegisterLegacy, i, d, a
<1>14. /\ IsPool(q) /\ q.free = i.free /\ q.alloc = i.alloc
       /\ q.ref = i.ref /\ q.hash = i.hash /\ q.hval = [i.hval EXCEPT ![b] = v]
       /\ q.data = i.data /\ q.hmap = i.hmap /\ q.lmap = [i.lmap EXCEPT ![v] = b]
  BY <1>12, <1>13 DEF IsPool
<1> QED
  BY <1>2, <1>3, <1>7, <1>9, <1>12, <1>14 DEF Taken

LEMMA TakenStocked ==
  ASSUME user \in Users, NEW p, Stocked(p), p.free # << >>,
         NEW s \in Prompts[user], NEW i \in 1 .. Len(s),
         NEW h, h = Chain(s, i), p.hmap[h] = << >>,
         NEW b \in Blocks, b = NextFree(p), b \notin p.alloc,
         NEW q, Taken(p, q, b, h, s[i])
  PROVE  Stocked(q) /\ Grown(p, q) /\ b \in q.alloc /\ q.data[b] = h
<1>1. IsPool(p) /\ PoolTyped(p)
  BY PoolParts DEF Stocked
<1>2. s[i] \in Legacy /\ h \in Hash /\ h \in Data /\ h # None
  BY PromptFacts, PoolAssumption
<1> DEFINE v == s[i]
<1>3. /\ Tail(p.free) \in Seq(Blocks) /\ IsInjective(Tail(p.free))
      /\ ToSet(Tail(p.free)) = ToSet(p.free) \ {b}
  <2>1. IsInjective(p.free) /\ p.free \in Seq(Blocks)
    BY <1>1 DEF Stocked, PoolTyped
  <2> QED BY <2>1, TailFacts DEF NextFree
<1>4. q \in Pools
  <2>1. <<b>> \in Seq(Blocks)
    OBVIOUS
  <2>2. /\ q.ref \in [Blocks -> Nat] /\ q.hash \in [Blocks -> Hash \cup {None}]
        /\ q.hval \in [Blocks -> Legacy \cup {None}]
        /\ q.data \in [Blocks -> Data \cup {None}]
        /\ q.lmap \in [Legacy -> Blocks \cup {None}]
    BY <1>1, <1>2 DEF PoolTyped, Taken
  <2>3. q.hmap \in [Hash -> Seq(Blocks)]
    BY <1>1, <1>2, <2>1 DEF PoolTyped, Taken
  <2>4. PoolTyped(q)
    BY <1>1, <1>3, <2>2, <2>3 DEF PoolTyped, Taken
  <2> QED BY <2>4, PoolParts DEF Taken
<1>5. /\ q.hash[b] = h /\ q.data[b] = h /\ q.hval[b] = v /\ q.ref[b] = 1
      /\ \A c \in Blocks : c # b =>
           /\ q.hash[c] = p.hash[c] /\ q.data[c] = p.data[c]
           /\ q.hval[c] = p.hval[c] /\ q.ref[c] = p.ref[c]
      /\ q.hmap[h] = <<b>> /\ \A g \in Hash : g # h => q.hmap[g] = p.hmap[g]
      /\ q.lmap[v] = b /\ \A u \in Legacy : u # v => q.lmap[u] = p.lmap[u]
      /\ q.alloc = p.alloc \cup {b} /\ p.alloc \subseteq Blocks /\ q.free = Tail(p.free)
  BY <1>1, <1>2 DEF Taken, PoolTyped
<1>6. IsInjective(q.free) /\ ToSet(q.free) = Blocks \ q.alloc
  <2>1. ToSet(p.free) = Blocks \ p.alloc
    BY DEF Stocked
  <2> QED BY <1>3, <1>5, <2>1
<1>7. \A c \in Blocks : c \in q.alloc <=> q.hash[c] # None
  <2>1. \A c \in Blocks : c \in p.alloc <=> p.hash[c] # None
    BY DEF Stocked
  <2> QED BY <1>2, <1>5, <2>1
<1>8. \A c \in q.alloc : Holds(q, c) /\ q.ref[c] > 0
  <2>1. Holds(q, b)
    BY <1>5 DEF Holds
  <2>2. \A c \in p.alloc : Holds(p, c) /\ p.ref[c] > 0 /\ c # b
    BY DEF Stocked
  <2>3. \A c \in p.alloc : Holds(q, c)
    BY <1>5, <2>2 DEF Holds
  <2>4. \A c \in p.alloc : q.ref[c] > 0
    BY <1>5, <2>2
  <2> QED BY <1>5, <2>1, <2>3, <2>4
<1>9. \A g \in Hash : Unused(q, g) \/ \E c \in Blocks : Sole(q, g, c)
  <2>1. \A g \in Hash : Unused(p, g) \/ \E c \in Blocks : Sole(p, g, c)
    BY DEF Stocked
  <2>2. \A c \in Blocks : p.hash[c] # h
    BY <1>2, <2>1 DEF Sole, Unused
  <2>3. Sole(q, h, b)
    BY <1>5, <2>2 DEF Sole
  <2>4. ASSUME NEW g \in Hash, g # h
        PROVE  Unused(q, g) \/ \E c \in Blocks : Sole(q, g, c)
    <3>1. q.hmap[g] = p.hmap[g] /\ p.hash[b] # g
      <4>1. p.hash[b] = None
        BY DEF Stocked
      <4> QED BY <1>5, <2>4, <4>1, PoolAssumption
    <3>2. CASE Unused(p, g)
      BY <1>5, <2>4, <3>1, <3>2 DEF Unused
    <3>3. CASE \E c \in Blocks : Sole(p, g, c)
      <4>1. PICK c \in Blocks : Sole(p, g, c)
        BY <3>3
      <4>2. Sole(q, g, c)
        BY <1>5, <2>4, <3>1, <4>1 DEF Sole
      <4> QED BY <4>2
    <3> QED BY <2>1, <3>2, <3>3
  <2> QED BY <2>3, <2>4
<1>10. \A u \in Legacy : q.lmap[u] # None =>
         q.lmap[u] \in q.alloc /\ q.hval[q.lmap[u]] = u
  <2>1. \A u \in Legacy : p.lmap[u] # None =>
          p.lmap[u] \in p.alloc /\ p.hval[p.lmap[u]] = u
    BY DEF Stocked
  <2> HIDE DEF v
  <2> QED BY <1>5, <2>1
<1>11. Grown(p, q)
  <2>1. \A c \in p.alloc : p.ref[c] \in Nat /\ c # b
    BY <1>1, <1>5 DEF PoolTyped
  <2> QED BY <1>5, <2>1 DEF Grown
<1> QED
  BY <1>4, <1>5, <1>6, <1>7, <1>8, <1>9, <1>10, <1>11 DEF Stocked

\* The states of the loop over the blocks of a prompt.
Shelf(p) ==
  {st \in [pool : Pools, ids : Seq(Blocks), room : BOOLEAN] :
     Stocked(st.pool) /\ Grown(p, st.pool)}

\* t is the state with these fields.
Shelved(p, q, ids, room, t) ==
  t \in Shelf(p) /\ t.pool = q /\ t.ids = ids /\ (t.room <=> room)

LEMMA OnShelf ==
  ASSUME NEW p, NEW q, Stocked(q), Grown(p, q), NEW ids \in Seq(Blocks),
         NEW room \in BOOLEAN, NEW t, t = [pool |-> q, ids |-> ids, room |-> room]
  PROVE  Shelved(p, q, ids, room, t)
<1>1. t.pool = q /\ t.ids = ids /\ (t.room <=> room)
  OBVIOUS
<1>2. q \in Pools
  BY DEF Stocked
<1>3. t \in [pool : Pools, ids : Seq(Blocks), room : BOOLEAN]
  BY <1>2
<1> QED
  BY <1>1, <1>3 DEF Shelf, Shelved

\* Block b, which holds h, follows those of st in t.
Follows(st, t, b, h) ==
  /\ t.ids = Append(st.ids, b) /\ b \in t.pool.alloc /\ t.pool.data[b] = h
  /\ (t.room <=> st.room)

\* A round of the loop, by a request whose KV is right.
LEMMA StoreBlockFacts ==
  ASSUME user \in Users, Distinct, NEW p \in Pools, NEW st \in Shelf(p),
         NEW s \in Prompts[user], NEW i \in 1 .. Len(s),
         NEW t, t = StoreBlock(s, TRUE, st, i)
  PROVE  /\ t \in Shelf(p) /\ Grown(st.pool, t.pool)
         /\ \/ t.ids = st.ids /\ ~ t.room
            \/ st.room /\ \E b \in Blocks : Follows(st, t, b, Chain(s, i))
<1> DEFINE o == st.pool
           h == Chain(s, i)
           v == s[i]
           same == GetBlock(o, h)
           alike == FindCached(o, v)
           n == NextFree(o)
<1>1. /\ st = [pool |-> st.pool, ids |-> st.ids, room |-> st.room]
      /\ o \in Pools /\ st.ids \in Seq(Blocks) /\ st.room \in BOOLEAN
      /\ Stocked(o) /\ Grown(p, o)
  BY DEF Shelf
<1>2. h \in Hash /\ v \in Legacy
  BY PromptFacts
<1>3. ASSUME NEW b \in Blocks, NEW q, Stocked(q), Grown(o, q), b \in q.alloc,
             q.data[b] = h, st.room,
             t = [pool |-> q, ids |-> Append(st.ids, b), room |-> st.room]
      PROVE  /\ t \in Shelf(p) /\ Grown(st.pool, t.pool)
             /\ st.room /\ Follows(st, t, b, Chain(s, i))
  <2>1. q \in Pools
    BY <1>3 DEF Stocked
  <2>2. Grown(p, q)
    BY <1>1, <1>3, <2>1, GrownTransitive
  <2>3. Append(st.ids, b) \in Seq(Blocks)
    BY <1>1, AppendFacts
  <2> DEFINE ids == Append(st.ids, b)
             room == st.room
  <2>4. t = [pool |-> q, ids |-> ids, room |-> room]
    BY <1>3
  <2> HIDE DEF ids, room
  <2>5. Shelved(p, q, ids, room, t)
    <3>1. ids \in Seq(Blocks) /\ room \in BOOLEAN
      BY <1>1, <2>3 DEF ids, room
    <3> QED BY <1>3, <2>2, <2>4, <3>1, OnShelf
  <2> QED BY <1>3, <2>5 DEF Follows, Shelved, ids, room
<1>4. ASSUME NEW b \in o.alloc, o.data[b] = h, st.room,
             t = [st EXCEPT !.pool.ref[b] = @ + 1, !.ids = Append(@, b)]
      PROVE  /\ t \in Shelf(p) /\ Grown(st.pool, t.pool)
             /\ st.room /\ Follows(st, t, b, Chain(s, i)) /\ b \in Blocks
  <2> DEFINE q == [o EXCEPT !.ref[b] = @ + 1]
  <2>1. Stocked(q) /\ Grown(o, q) /\ q.data = o.data /\ q.alloc = o.alloc
    BY <1>1, HitStocked
  <2>2. t = [pool |-> q, ids |-> Append(st.ids, b), room |-> st.room]
    BY <1>1, <1>4
  <2>3. b \in Blocks
    BY <1>1 DEF Stocked, Pools
  <2>4. b \in q.alloc /\ q.data[b] = h
    BY <1>4, <2>1
  <2> HIDE DEF q, h, o
  <2> QED BY <1>3, <1>4, <2>1, <2>2, <2>3, <2>4
<1>5. CASE ~ st.room
  <2>1. t = st
    BY <1>5 DEF StoreBlock
  <2> QED BY <1>1, <1>5, <2>1, GrownReflexive
<1>6. CASE st.room /\ same # None
  <2>1. same \in o.alloc /\ o.data[same] = h
    BY <1>1, <1>2, <1>6, HeldByHash
  <2>2. t = [st EXCEPT !.pool.ref[same] = @ + 1, !.ids = Append(@, same)]
    BY <1>6 DEF StoreBlock
  <2> HIDE DEF same, h, o
  <2> QED BY <1>4, <1>6, <2>1, <2>2
<1>7. CASE st.room /\ same = None /\ alike # None
  <2>1. alike \in o.alloc /\ o.data[alike] = h
    BY <1>1, <1>7, HeldByContent
  <2>2. t = [st EXCEPT !.pool.ref[alike] = @ + 1, !.ids = Append(@, alike)]
    BY <1>7 DEF StoreBlock
  <2> HIDE DEF alike, h, o
  <2> QED BY <1>4, <1>7, <2>1, <2>2
<1>8. CASE st.room /\ same = None /\ alike = None /\ o.free = << >>
  <2>1. t = [st EXCEPT !.room = FALSE]
    BY <1>8 DEF StoreBlock
  <2>2. t = [pool |-> st.pool, ids |-> st.ids, room |-> FALSE]
    BY <1>1, <2>1
  <2> DEFINE ids == st.ids
             room == FALSE
  <2>3. t = [pool |-> o, ids |-> ids, room |-> room]
    BY <2>2
  <2>4. ids \in Seq(Blocks) /\ room \in BOOLEAN /\ ~ room
    BY <1>1
  <2> HIDE DEF ids, room, o
  <2>5. Shelved(p, o, ids, room, t)
    BY <1>1, <2>3, <2>4, OnShelf
  <2>6. Grown(o, o)
    BY <1>1, GrownReflexive
  <2> QED BY <2>4, <2>5, <2>6 DEF Shelved, ids, o
<1>9. CASE st.room /\ same = None /\ alike = None /\ o.free # << >>
  <2> DEFINE q == Publish(SetData(Allocate(o), n, h), n, h, v)
  <2>1. t = [st EXCEPT !.pool = q, !.ids = Append(@, n)]
    BY <1>9 DEF StoreBlock
  <2>2. t = [pool |-> q, ids |-> Append(st.ids, n), room |-> st.room]
    BY <1>1, <2>1
  <2>3. Taken(o, q, n, h, v) /\ n \in Blocks /\ n \notin o.alloc
    BY <1>1, <1>2, <1>9, TakeNew
  <2>4. o.hmap[h] = << >>
    <3>1. Unused(o, h) \/ \E c \in Blocks : Sole(o, h, c)
      BY <1>1, <1>2 DEF Stocked
    <3>2. ASSUME NEW c \in Blocks, Sole(o, h, c)
          PROVE  FALSE
      <4>1. o.hmap[h] = <<c>> /\ <<c>> # << >> /\ Head(<<c>>) = c
        BY <3>2 DEF Sole
      <4> QED BY <1>9, <4>1, PoolAssumption DEF GetBlock
    <3> QED BY <3>1, <3>2 DEF Unused
  <2> HIDE DEF q
  <2>5. Stocked(q) /\ Grown(o, q) /\ n \in q.alloc /\ q.data[n] = h
    BY <1>1, <1>9, <2>3, <2>4, TakenStocked
  <2> HIDE DEF n, h, o
  <2> QED BY <1>3, <1>9, <2>2, <2>3, <2>5
<1> QED
  BY <1>5, <1>6, <1>7, <1>8, <1>9

\* The loop.
LEMMA StoreLoopFacts ==
  ASSUME user \in Users, Distinct, Stocked(pool), NEW s \in Prompts[user],
         NEW st, st = StoreLoop(s, TRUE, << >>)
  PROVE  /\ st \in Shelf(pool) /\ Begins(st.pool, st.ids, s)
<1> DEFINE e == << >>
           N == Len(s) - Len(e)
           X == Shelf(pool)
           x0 == [pool |-> pool, ids |-> e, room |-> TRUE]
           Round(w, n) == StoreBlock(s, TRUE, w, Len(e) + n)
           H == [n \in 1 .. N |-> [w \in X |-> Round(w, n)]]
           f == CHOOSE f : f = [n \in 0 .. N |->
                  IF n = 0 THEN x0 ELSE Round(f[n - 1], n)]
<1>1. Len(s) \in Nat /\ Len(e) = 0 /\ N = Len(s) /\ e \in Seq(Blocks)
  BY PromptFacts
<1>2. st = f[N]
  BY DEF StoreLoop
<1> HIDE DEF e, N
<1>3. \A n \in 1 .. N : n \in 1 .. Len(s) /\ Len(e) + n = n
  BY <1>1
<1>4. x0 \in X
  <2>1. pool \in Pools
    BY DEF Stocked
  <2> QED BY <1>1, <2>1, GrownReflexive DEF Shelf
<1>5. \A w \in X, n \in 1 .. N :
        /\ Round(w, n) \in X /\ Grown(w.pool, Round(w, n).pool)
        /\ \/ Round(w, n).ids = w.ids /\ ~ Round(w, n).room
           \/ w.room /\ \E b \in Blocks : Follows(w, Round(w, n), b, Chain(s, n))
  <2> SUFFICES ASSUME NEW w \in X, NEW n \in 1 .. N
               PROVE  /\ Round(w, n) \in X /\ Grown(w.pool, Round(w, n).pool)
                      /\ \/ Round(w, n).ids = w.ids /\ ~ Round(w, n).room
                         \/ w.room /\ \E b \in Blocks :
                              Follows(w, Round(w, n), b, Chain(s, n))
    OBVIOUS
  <2>1. Round(w, n) = StoreBlock(s, TRUE, w, n)
    BY <1>3
  <2>2. pool \in Pools
    BY DEF Stocked
  <2> HIDE DEF Round
  <2> QED BY <1>3, <2>1, <2>2, StoreBlockFacts
<1> HIDE DEF Round, X, x0
<1>6. H \in StepsIn(X, N)
  BY <1>5 DEF StepsIn
<1>7. PICK g : Iterates(X, N, x0, H, g)
  <2> HIDE DEF H
  <2> QED BY <1>1, <1>4, <1>6, Iteration
<1>8. g = [n \in 0 .. N |-> IF n = 0 THEN x0 ELSE Round(g[n - 1], n)]
  <2>1. /\ g \in [0 .. N -> X] /\ g[0] = x0
        /\ \A n \in 1 .. N : g[n] = H[n][g[n - 1]]
    <3> HIDE DEF H
    <3> QED BY <1>7 DEF Iterates
  <2>2. \A n \in 1 .. N : g[n] = Round(g[n - 1], n)
    <3> SUFFICES ASSUME NEW n \in 1 .. N
                 PROVE  g[n] = Round(g[n - 1], n)
      OBVIOUS
    <3>1. n - 1 \in 0 .. N
      BY <1>1
    <3>2. g[n - 1] \in X
      BY <2>1, <3>1
    <3> QED BY <2>1, <3>2
  <2>3. \A n \in 0 .. N : n # 0 => n \in 1 .. N
    BY <1>1
  <2> HIDE DEF H
  <2> QED BY <2>1, <2>2, <2>3
<1>9. f = [n \in 0 .. N |-> IF n = 0 THEN x0 ELSE Round(f[n - 1], n)]
  <2> HIDE DEF H
  <2> QED BY <1>8 DEF f
<1> HIDE DEF f
<1> DEFINE At(n) ==
             /\ f[n] \in X /\ Begins(f[n].pool, f[n].ids, s)
             /\ Len(f[n].ids) <= n /\ (f[n].room => Len(f[n].ids) = n)
           G == {n \in 0 .. N : At(n)}
<1>10. At(0)
  <2>1. f[0] = x0
    BY <1>1, <1>9
  <2>2. x0.ids = e /\ x0.room = TRUE
    BY DEF x0
  <2>3. Begins(x0.pool, x0.ids, s)
    BY <1>1, <2>2 DEF Begins
  <2> QED BY <1>1, <1>4, <2>1, <2>2, <2>3
<1>11. ASSUME NEW n \in 1 .. N, At(n - 1)
       PROVE  At(n)
  <2>1. PICK w, t : w = f[n - 1] /\ t = f[n]
    OBVIOUS
  <2>2. t = Round(w, n) /\ n - 1 \in Nat
    BY <1>1, <1>9, <2>1
  <2>3. w \in X /\ Begins(w.pool, w.ids, s) /\ Len(w.ids) <= n - 1
        /\ (w.room => Len(w.ids) = n - 1)
    BY <1>11, <2>1
  <2>4. /\ t \in X /\ Grown(w.pool, t.pool)
        /\ \/ t.ids = w.ids /\ ~ t.room
           \/ w.room /\ \E b \in Blocks : Follows(w, t, b, Chain(s, n))
    BY <1>5, <2>2, <2>3
  <2>5. Begins(t.pool, w.ids, s)
    BY <2>3, <2>4, BeginsGrown
  <2>6. Len(w.ids) \in Nat /\ w.ids \in Seq(Blocks)
    BY <2>3, LenProperties DEF Begins
  <2>7. CASE t.ids = w.ids /\ ~ t.room
    <3>1. Len(w.ids) <= n
      BY <2>2, <2>3, <2>6
    <3> QED BY <2>1, <2>4, <2>5, <2>7, <3>1
  <2>8. CASE w.room /\ \E b \in Blocks : Follows(w, t, b, Chain(s, n))
    <3>1. PICK b \in Blocks : Follows(w, t, b, Chain(s, n))
      BY <2>8
    <3>2. Len(w.ids) = n - 1
      BY <2>3, <2>8
    <3>3. /\ t.ids \in Seq(Blocks) /\ Len(t.ids) = n /\ t.ids[n] = b
          /\ \A k \in 1 .. n - 1 : t.ids[k] = w.ids[k]
      <4>1. /\ Append(w.ids, b) \in Seq(Blocks) /\ Len(Append(w.ids, b)) = Len(w.ids) + 1
            /\ \A k \in 1 .. Len(w.ids) : Append(w.ids, b)[k] = w.ids[k]
            /\ Append(w.ids, b)[Len(w.ids) + 1] = b
        BY <2>6, AppendProperties
      <4>2. t.ids = Append(w.ids, b) /\ Len(w.ids) + 1 = n
        BY <2>2, <3>1, <3>2 DEF Follows
      <4> QED BY <3>2, <4>1, <4>2
    <3>4. \A k \in 1 .. n : t.ids[k] \in t.pool.alloc /\ t.pool.data[t.ids[k]] = Chain(s, k)
      <4> SUFFICES ASSUME NEW k \in 1 .. n
                   PROVE  t.ids[k] \in t.pool.alloc /\ t.pool.data[t.ids[k]] = Chain(s, k)
        OBVIOUS
      <4>1. CASE k = n
        BY <3>1, <3>3, <4>1 DEF Follows
      <4>2. CASE k # n
        <5>1. k \in 1 .. n - 1
          BY <2>2, <4>2
        <5> QED BY <2>5, <3>2, <3>3, <5>1 DEF Begins
      <4> QED BY <4>1, <4>2
    <3>5. n <= Len(s)
      BY <1>1
    <3>6. Begins(t.pool, t.ids, s)
      BY <3>3, <3>4, <3>5 DEF Begins
    <3> QED BY <2>1, <2>4, <3>3, <3>6
  <2> QED BY <2>4, <2>7, <2>8
<1>12. N \in G
  <2>1. 0 \in G /\ \A n \in 1 .. N : n - 1 \in G => n \in G
    <3> HIDE DEF At
    <3> QED BY <1>1, <1>10, <1>11
  <2> HIDE DEF G
  <2>2. \A n \in 0 .. N : n \in G
    BY <1>1, <2>1, UpTo
  <2> QED BY <1>1, <2>2
<1>13. At(N)
  BY <1>12
<1> QED
  BY <1>2, <1>13 DEF X

-----------------------------------------------------------------------------
\* The actions.

\* Every block in use in p is in use in q, and holds what it held.
Kept(p, q) ==
  /\ p.alloc \subseteq q.alloc
  /\ \A b \in p.alloc : q.hash[b] = p.hash[b] /\ q.data[b] = p.data[b]

LEMMA BeginsKept ==
  ASSUME NEW p, NEW q, Kept(p, q), NEW ids, NEW s, Begins(p, ids, s)
  PROVE  Begins(q, ids, s)
BY DEF Begins, Kept

LEMMA EmptyBegins ==
  ASSUME NEW p, NEW s, Len(s) \in Nat, NEW ids, ids = << >>
  PROVE  Begins(p, ids, s) /\ ToSet(ids) = {} /\ ids \in Seq(Blocks)
<1>1. ids \in Seq(Blocks) /\ Len(ids) = 0
  OBVIOUS
<1>2. DOMAIN ids = 1 .. Len(ids)
  BY <1>1, LenProperties
<1> QED
  BY <1>1, <1>2 DEF Begins, ToSet

\* The requests that hold block b when r has changed, and holds it if on.
Moved(b, r, on) == (Holders(b) \ {r}) \cup (IF on THEN {r} ELSE {})

LEMMA HolderCounts ==
  ASSUME NEW b, NEW r
  PROVE  /\ Cardinality(Holders(b)) \in Nat
         /\ r \notin Holders(b) =>
              Cardinality(Moved(b, r, TRUE)) = Cardinality(Holders(b)) + 1
         /\ r \notin Holders(b) =>
              Cardinality(Moved(b, r, FALSE)) = Cardinality(Holders(b))
         /\ r \in Holders(b) =>
              Cardinality(Moved(b, r, FALSE)) = Cardinality(Holders(b)) - 1
         /\ Cardinality(Moved(b, r, FALSE)) <= Cardinality(Holders(b))
         /\ Cardinality(Moved(b, r, FALSE)) \in Nat
         /\ Holders(b) = {} => Cardinality(Moved(b, r, FALSE)) = 0
<1> DEFINE S == Holders(b)
<1>1. IsFiniteSet(S)
  <2>1. S \subseteq Requests
    BY DEF Holders
  <2> QED BY <2>1, CacheAssumption, FS_Subset
<1> HIDE DEF S
<1>2. Cardinality(S) \in Nat
  BY <1>1, FS_CardinalityType
<1>3. r \notin S => Cardinality(S \cup {r}) = Cardinality(S) + 1
  BY <1>1, FS_AddElement
<1>4. r \in S => Cardinality(S \ {r}) = Cardinality(S) - 1
  BY <1>1, FS_RemoveElement
<1>5. S = {} => Cardinality(S) = 0
  BY FS_EmptySet
<1>6. Moved(b, r, FALSE) = S \ {r} /\ Moved(b, r, TRUE) = (S \ {r}) \cup {r}
  BY DEF Moved, S
<1>7. r \notin S => S \ {r} = S /\ (S \ {r}) \cup {r} = S \cup {r}
  OBVIOUS
<1> HIDE DEF S
<1>8. /\ r \notin S => Cardinality(Moved(b, r, TRUE)) = Cardinality(S) + 1
      /\ r \notin S => Cardinality(Moved(b, r, FALSE)) = Cardinality(S)
      /\ r \in S => Cardinality(Moved(b, r, FALSE)) = Cardinality(S) - 1
  BY <1>3, <1>4, <1>6, <1>7
<1>9. Cardinality(Moved(b, r, FALSE)) \in Nat
  <2>1. IsFiniteSet(S \ {r})
    BY <1>1, FS_Subset
  <2> QED BY <1>6, <2>1, FS_CardinalityType
<1>10. Cardinality(Moved(b, r, FALSE)) <= Cardinality(S)
  <2>1. PICK m, n : m = Cardinality(Moved(b, r, FALSE)) /\ n = Cardinality(S)
    OBVIOUS
  <2>2. m = n - 1 \/ m = n
    BY <1>8, <2>1
  <2>3. m \in Nat /\ n \in Nat
    BY <1>2, <1>9, <2>1
  <2>4. m <= n
    BY <2>2, <2>3
  <2> QED BY <2>1, <2>4
<1>11. S = {} => Cardinality(Moved(b, r, FALSE)) = 0
  BY <1>5, <1>8
<1> QED
  BY <1>2, <1>8, <1>9, <1>10, <1>11 DEF S

\* Only blocks in use have holders.
LEMMA HoldersUse ==
  ASSUME SchedulerIInv, NEW b, b \notin pool.alloc
  PROVE  Holders(b) = {}
<1> SUFFICES ASSUME NEW r \in Requests, b \in ToSet(tables[r])
             PROVE  FALSE
  BY DEF Holders
<1>1. Begins(pool, tables[r], req[r].prompt)
  BY DEF SchedulerIInv
<1>2. DOMAIN tables[r] = 1 .. Len(tables[r])
  BY <1>1, LenProperties DEF Begins
<1> QED
  BY <1>1, <1>2 DEF Begins, ToSet

Reqs == [phase  : {"none", "running", "stored", "finished"},
         prompt : Prompts[user] \cup {<< >>}, right : BOOLEAN]

\* The references in q are enough when request r is w and has the table ids.
Enough(q, r, w, ids) ==
  \A b \in q.alloc :
    q.ref[b] > Cardinality(Moved(b, r, w.phase = "running" /\ b \in ToSet(ids)))

\* A pool that is in order stays so when it becomes the state.
LEMMA StockedNext ==
  ASSUME user' = user, NEW q, pool' = q, Stocked(q)
  PROVE  Stocked(pool)'
<1>1. \A b : Holds(pool, b)' <=> Holds(q, b)
  BY DEF Holds
<1>2. \A h, b : /\ Sole(pool, h, b)' <=> Sole(q, h, b)
                /\ Unused(pool, h)' <=> Unused(q, h)
  BY DEF Sole, Unused
<1>3. \A h \in Hash : Unused(q, h) \/ \E b \in Blocks : Sole(q, h, b)
  BY DEF Stocked
<1>4. (\A h \in Hash : Unused(pool, h) \/ \E b \in Blocks : Sole(pool, h, b))'
  BY <1>2, <1>3
<1>5. (\A b \in pool.alloc : Holds(pool, b) /\ pool.ref[b] > 0)'
  BY <1>1 DEF Stocked
<1> QED
  BY <1>4, <1>5 DEF Stocked

\* What a step does for request r keeps the invariant.
LEMMA StepSound ==
  ASSUME SchedulerIInv, user' = user, NEW r \in Requests,
         NEW q, pool' = q, Stocked(q), Kept(pool, q),
         NEW w \in Reqs, req' = [req EXCEPT ![r] = w], w.right,
         NEW ids, tables' = [tables EXCEPT ![r] = ids], Begins(q, ids, w.prompt),
         Enough(q, r, w, ids), entries' \subseteq Requests,
         index' \in [Hash -> Seq(Blocks)], \A h \in Hash : Begins(q, index'[h], h)
  PROVE  SchedulerIInv' /\ Kept(pool, pool')
<1>1. /\ req \in [Requests -> Reqs] /\ tables \in [Requests -> Seq(Blocks)]
      /\ ids \in Seq(Blocks)
  BY DEF SchedulerIInv, TypeOK, Reqs, Begins
<1>2. /\ req' \in [Requests -> Reqs] /\ tables' \in [Requests -> Seq(Blocks)]
      /\ req'[r] = w /\ tables'[r] = ids
      /\ \A p \in Requests : p # r => req'[p] = req[p] /\ tables'[p] = tables[p]
  BY <1>1
<1>3. TypeOK'
  <2>1. pool' \in Pools
    BY DEF Stocked
  <2> QED BY <1>2, <2>1 DEF TypeOK, Reqs
<1>4. Stocked(pool)'
  BY StockedNext
<1>5. Referenced'
  <2> SUFFICES ASSUME NEW b \in q.alloc
               PROVE  q.ref[b] > Cardinality(Holders(b)')
    BY DEF Referenced
  <2> DEFINE on == w.phase = "running" /\ b \in ToSet(ids)
  <2>1. Holders(b)' = Moved(b, r, on)
    BY <1>2 DEF Holders, Moved
  <2> QED BY <2>1 DEF Enough
<1>6. (\A p \in Requests : Begins(pool, tables[p], req[p].prompt) /\ req[p].right)'
  <2> SUFFICES ASSUME NEW p \in Requests
               PROVE  Begins(q, tables'[p], req'[p].prompt) /\ req'[p].right
    OBVIOUS
  <2>1. CASE p = r
    BY <1>2, <2>1
  <2>2. CASE p # r
    <3>1. Begins(pool, tables[p], req[p].prompt) /\ req[p].right
      BY DEF SchedulerIInv
    <3>2. Begins(q, tables[p], req[p].prompt)
      BY <3>1, BeginsKept
    <3> QED BY <1>2, <2>2, <3>1, <3>2
  <2> QED BY <2>1, <2>2
<1>7. (\A h \in Hash : Begins(pool, index[h], h))'
  OBVIOUS
<1> QED
  BY <1>3, <1>4, <1>5, <1>6, <1>7 DEF SchedulerIInv

\* The index after a store.
LEMMA IndexedBegins ==
  ASSUME user \in Users, SchedulerIInv, NEW s \in Prompts[user], NEW q, Kept(pool, q),
         NEW ids, Begins(q, ids, s), NEW x, x = Indexed(s, ids)
  PROVE  x \in [Hash -> Seq(Blocks)] /\ \A h \in Hash : Begins(q, x[h], h)
<1>1. index \in [Hash -> Seq(Blocks)]
  BY DEF SchedulerIInv, TypeOK
<1>2. ids \in Seq(Blocks) /\ Len(ids) \in Nat /\ Len(ids) <= Len(s)
  BY LenProperties DEF Begins
<1>3. ASSUME NEW h \in Hash
      PROVE  x[h] \in Seq(Blocks) /\ Begins(q, x[h], h)
  <2>1. CASE \E i \in 1 .. Len(ids) : h = Chain(s, i)
    <3>1. PICK i \in 1 .. Len(ids) : h = Chain(s, i)
      BY <2>1
    <3>2. i \in 1 .. Len(s) /\ i \in Nat
      BY <1>1, <1>2, PromptFacts
    <3>3. Len(h) = i /\ \A j \in 1 .. i : Chain(h, j) = Chain(s, j)
      BY <1>1, <3>1, <3>2, PromptFacts
    <3>4. x[h] = SubSeq(ids, 1, i)
      BY <3>1, <3>3 DEF Indexed
    <3>5. /\ SubSeq(ids, 1, i) \in Seq(Blocks) /\ Len(SubSeq(ids, 1, i)) = i
          /\ \A j \in 1 .. i : SubSeq(ids, 1, i)[j] = ids[j]
      <4>1. \A k \in 1 .. i : ids[k] \in Blocks
        BY <1>2, <3>1, ElementOfSeq
      <4>2. \A j \in 1 .. i : 1 + j - 1 = j
        BY <3>2
      <4>3. i - 1 + 1 = i
        BY <3>2
      <4> QED BY <1>2, <3>1, <3>2, <4>1, <4>2, <4>3, SubSeqProperties
    <3>6. \A j \in 1 .. i : j \in 1 .. Len(ids)
      BY <1>2, <3>1
    <3> QED BY <3>2, <3>3, <3>4, <3>5, <3>6 DEF Begins
  <2>2. CASE ~ \E i \in 1 .. Len(ids) : h = Chain(s, i)
    <3>1. x[h] = index[h]
      BY <2>2 DEF Indexed
    <3>2. Begins(pool, index[h], h)
      BY DEF SchedulerIInv
    <3>3. Begins(q, index[h], h)
      BY <3>2, BeginsKept
    <3> QED BY <1>1, <3>1, <3>3
  <2> QED BY <2>1, <2>2
<1>4. DOMAIN x = Hash /\ x = [h \in Hash |-> x[h]]
  BY DEF Indexed
<1> QED
  BY <1>3, <1>4

\* The index after a fetch.
LEMMA FetchedBegins ==
  ASSUME SchedulerIInv, NEW s, NEW q, Kept(pool, q),
         NEW x, x = index \/ x = WithoutStale(s)
  PROVE  x \in [Hash -> Seq(Blocks)] /\ \A h \in Hash : Begins(q, x[h], h)
<1>1. index \in [Hash -> Seq(Blocks)] /\ \A h \in Hash : h \in Seq(Legacy)
  BY CacheAssumption DEF SchedulerIInv, TypeOK
<1>2. DOMAIN x = Hash /\ x = [h \in Hash |-> x[h]]
  BY <1>1 DEF WithoutStale
<1>3. ASSUME NEW h \in Hash
      PROVE  x[h] \in Seq(Blocks) /\ Begins(q, x[h], h)
  <2>1. x[h] = index[h] \/ x[h] = << >>
    BY DEF WithoutStale
  <2>2. Begins(pool, index[h], h)
    BY DEF SchedulerIInv
  <2>3. Begins(q, index[h], h)
    BY <2>2, BeginsKept
  <2>4. Len(h) \in Nat
    BY <1>1, LenProperties
  <2>5. x[h] = << >> => Begins(q, x[h], h) /\ x[h] \in Seq(Blocks)
    BY <2>4, EmptyBegins
  <2> QED BY <1>1, <2>1, <2>3, <2>5
<1> QED
  BY <1>2, <1>3

LEMMA RecountKept ==
  ASSUME NEW p, p \in Pools, NEW q, Recount(p, q)
  PROVE  Kept(p, q)
BY DEF Recount, Kept

\* A request that has no blocks, or does not run, needs no references.
LEMMA EnoughGrown ==
  ASSUME SchedulerIInv, NEW r, NEW q, Stocked(q), Grown(pool, q), NEW w,
         NEW ids, (ToSet(ids) = {}) \/ w.phase # "running"
  PROVE  Enough(q, r, w, ids)
<1> SUFFICES ASSUME NEW b, b \in q.alloc
             PROVE  q.ref[b] > Cardinality(Moved(b, r, FALSE))
  <2>1. \A b \in q.alloc :
          (w.phase = "running" /\ b \in ToSet(ids)) = FALSE
    OBVIOUS
  <2> QED BY <2>1 DEF Enough
<1>1. /\ Cardinality(Moved(b, r, FALSE)) <= Cardinality(Holders(b))
      /\ Cardinality(Moved(b, r, FALSE)) \in Nat /\ Cardinality(Holders(b)) \in Nat
      /\ Holders(b) = {} => Cardinality(Moved(b, r, FALSE)) = 0
  BY HolderCounts
<1>2. q.ref \in [Blocks -> Nat] /\ pool.ref \in [Blocks -> Nat] /\ b \in Blocks
  BY PoolParts DEF Stocked, PoolTyped, SchedulerIInv
<1>3. CASE b \in pool.alloc
  <2>1. q.ref[b] >= pool.ref[b] /\ pool.ref[b] > Cardinality(Holders(b))
    BY <1>3 DEF Grown, SchedulerIInv, Referenced
  <2>2. PICK m, n, k, l : /\ m = Cardinality(Moved(b, r, FALSE))
                          /\ n = Cardinality(Holders(b))
                          /\ k = pool.ref[b] /\ l = q.ref[b]
    OBVIOUS
  <2>3. m \in Nat /\ n \in Nat /\ k \in Nat /\ l \in Nat
    BY <1>1, <1>2, <2>2
  <2>4. m <= n /\ l >= k /\ k > n
    BY <1>1, <2>1, <2>2
  <2>5. l > m
    BY <2>3, <2>4
  <2> QED BY <2>2, <2>5
<1>4. CASE b \notin pool.alloc
  <2>1. Holders(b) = {} /\ q.ref[b] > 0
    BY <1>4, HoldersUse DEF Stocked
  <2> QED BY <1>1, <2>1
<1> QED
  BY <1>3, <1>4

-----------------------------------------------------------------------------
\* add_request.
LEMMA AddRequestSound ==
  ASSUME user \in Users, Distinct, SchedulerIInv, user' = user,
         NEW r \in Requests, NEW s \in Prompts[user], AddRequest(r, s)
  PROVE  SchedulerIInv' /\ Kept(pool, pool')
<1> DEFINE ids == Matched(s)
           w == [phase |-> "running", prompt |-> s, right |-> TRUE]
<1>1. Begins(pool, ids, s) /\ HoldsPrefix(ids, s)
  BY MatchedBegins
<1>2. /\ pool' = Sharing(pool, ids) /\ tables' = [tables EXCEPT ![r] = ids]
      /\ index' = index \/ index' = WithoutStale(s)
      /\ entries' = entries \ {r} /\ req[r].phase \in {"none", "finished"}
  BY DEF AddRequest, FetchCache
<1>3. req' = [req EXCEPT ![r] = w]
  <2>1. (Reconstructs(ids) => HoldsPrefix(ids, s)) = TRUE
    BY <1>1
  <2>2. req' = [req EXCEPT ![r] =
                   [phase |-> "running", prompt |-> s,
                    right |-> Reconstructs(ids) => HoldsPrefix(ids, s)]]
    BY DEF AddRequest, FetchCache
  <2> QED BY <2>1, <2>2
<1> HIDE DEF ids
<1>4. PICK q : q = pool'
  OBVIOUS
<1>5. PICK d : d = ids
  OBVIOUS
<1>6. IsInjective(d) /\ ToSet(d) \subseteq pool.alloc /\ d \in Seq(Blocks)
  BY <1>1, <1>5, BeginsInjective DEF Begins
<1>7. Stocked(pool) /\ pool \in Pools
  BY DEF SchedulerIInv, Stocked
<1>8. /\ Recount(pool, q)
      /\ \A b \in Blocks : q.ref[b] = pool.ref[b] + (IF b \in ToSet(d) THEN 1 ELSE 0)
  BY <1>2, <1>4, <1>5, <1>6, <1>7, SharingFacts
<1>9. pool.ref \in [Blocks -> Nat] /\ pool.alloc \subseteq Blocks
  BY <1>7, PoolParts DEF PoolTyped
<1>10. Stocked(q) /\ Kept(pool, q)
  <2>1. \A b \in pool.alloc : q.ref[b] > 0
    <3>1. \A b \in pool.alloc : pool.ref[b] > 0
      BY <1>7 DEF Stocked
    <3> QED BY <1>8, <1>9, <3>1
  <2> QED BY <1>7, <1>8, <2>1, RecountStocked, RecountKept
<1>11. w \in Reqs /\ w.right /\ w.prompt = s /\ w.phase = "running"
  BY DEF Reqs
<1> HIDE DEF w
<1>12. Begins(q, d, w.prompt)
  BY <1>1, <1>5, <1>10, <1>11, BeginsKept
<1>13. Enough(q, r, w, d)
  <2> SUFFICES ASSUME NEW b, b \in q.alloc
               PROVE  q.ref[b] > Cardinality(Moved(b, r, w.phase = "running" /\ b \in ToSet(d)))
    BY DEF Enough
  <2>1. PICK n, k : n = Cardinality(Holders(b)) /\ k = pool.ref[b]
    OBVIOUS
  <2>2. b \in pool.alloc /\ b \in Blocks /\ r \notin Holders(b)
    BY <1>2, <1>8, <1>9 DEF Recount, Holders
  <2>3. k \in Nat /\ n \in Nat /\ k > n
    BY <1>9, <2>1, <2>2, HolderCounts DEF SchedulerIInv, Referenced
  <2>4. CASE b \in ToSet(d)
    <3>1. (w.phase = "running" /\ b \in ToSet(d)) = TRUE
      BY <1>11, <2>4
    <3>2. Cardinality(Moved(b, r, TRUE)) = Cardinality(Holders(b)) + 1
      BY <2>2, HolderCounts
    <3>3. q.ref[b] = k + 1 /\ k + 1 > n + 1
      BY <1>8, <2>1, <2>2, <2>3, <2>4
    <3> QED BY <2>1, <3>1, <3>2, <3>3
  <2>5. CASE b \notin ToSet(d)
    <3>1. (w.phase = "running" /\ b \in ToSet(d)) = FALSE
      BY <2>5
    <3>2. Cardinality(Moved(b, r, FALSE)) = Cardinality(Holders(b))
      BY <2>2, HolderCounts
    <3>3. q.ref[b] = k
      BY <1>8, <2>1, <2>2, <2>3, <2>5
    <3> QED BY <2>1, <2>3, <3>1, <3>2, <3>3
  <2> QED BY <2>4, <2>5
<1>14. index' \in [Hash -> Seq(Blocks)] /\ \A h \in Hash : Begins(q, index'[h], h)
  <2>1. PICK x : x = index'
    OBVIOUS
  <2>2. x \in [Hash -> Seq(Blocks)] /\ \A h \in Hash : Begins(q, x[h], h)
    BY <1>2, <1>10, <2>1, FetchedBegins
  <2> QED BY <2>1, <2>2
<1>15. entries' \subseteq Requests
  BY <1>2 DEF SchedulerIInv, TypeOK
<1> QED
  BY <1>2, <1>3, <1>4, <1>5, <1>10, <1>11, <1>12, <1>13, <1>14, <1>15, StepSound

LEMMA GrownKept ==
  ASSUME NEW p, NEW q, Grown(p, q)
  PROVE  Kept(p, q)
BY DEF Grown, Kept

LEMMA AddFromDiskSound ==
  ASSUME user \in Users, Distinct, SchedulerIInv, user' = user,
         NEW r \in Requests, NEW s \in Prompts[user], AddFromDisk(r, s)
  PROVE  SchedulerIInv' /\ Kept(pool, pool')
<1>1. PICK st : st = StoreLoop(s, TRUE, << >>)
  OBVIOUS
<1>2. PICK w, d, q : /\ w = [phase |-> "running", prompt |-> s, right |-> TRUE]
                     /\ d = << >> /\ q = st.pool
  OBVIOUS
<1>3. /\ pool' = q /\ index' = Indexed(s, st.ids) /\ entries' = entries \ {r}
      /\ tables' = [tables EXCEPT ![r] = d] /\ req' = [req EXCEPT ![r] = w]
  BY <1>1, <1>2 DEF AddFromDisk
<1>4. st \in Shelf(pool) /\ Begins(q, st.ids, s)
  BY <1>1, <1>2, StoreLoopFacts DEF SchedulerIInv
<1>5. Stocked(q) /\ Grown(pool, q) /\ Kept(pool, q)
  BY <1>2, <1>4, GrownKept DEF Shelf
<1>6. w \in Reqs /\ w.right /\ w.prompt = s /\ Len(s) \in Nat
  BY <1>2, PromptFacts DEF Reqs
<1>7. Begins(q, d, w.prompt) /\ ToSet(d) = {}
  BY <1>2, <1>6, EmptyBegins
<1>8. Enough(q, r, w, d)
  BY <1>5, <1>7, EnoughGrown
<1>9. index' \in [Hash -> Seq(Blocks)] /\ \A h \in Hash : Begins(q, index'[h], h)
  <2>1. PICK x, ids : x = index' /\ ids = st.ids
    OBVIOUS
  <2>2. x \in [Hash -> Seq(Blocks)] /\ \A h \in Hash : Begins(q, x[h], h)
    BY <1>3, <1>4, <1>5, <2>1, IndexedBegins
  <2> QED BY <2>1, <2>2
<1>10. entries' \subseteq Requests
  BY <1>3 DEF SchedulerIInv, TypeOK
<1> QED
  BY <1>3, <1>5, <1>6, <1>7, <1>8, <1>9, <1>10, StepSound

\* What a request becomes when it ends.
LEMMA Ended ==
  ASSUME SchedulerIInv, NEW r \in Requests,
         NEW w, w = [req[r] EXCEPT !.phase = "finished"]
  PROVE  /\ w \in Reqs /\ w.right /\ w.prompt = req[r].prompt
         /\ w.phase = "finished" /\ req[r].right = TRUE
<1>1. req[r] \in Reqs /\ req[r].right
  BY DEF SchedulerIInv, TypeOK, Reqs
<1> QED
  BY <1>1 DEF Reqs

\* A prompt has a length, and the prompt of a request that runs is one.
LEMMA LengthOfPrompt ==
  ASSUME user \in Users, NEW w \in Reqs
  PROVE  Len(w.prompt) \in Nat /\ (w.prompt \in Prompts[user] \/ w.prompt = << >>)
<1>1. w.prompt \in Prompts[user] \/ w.prompt = << >>
  BY DEF Reqs
<1>2. \A s \in Prompts[user] : Len(s) \in Nat
  BY PromptFacts
<1>3. Len(<< >>) = 0
  OBVIOUS
<1> QED
  BY <1>1, <1>2, <1>3

\* A step that leaves the pool and the index alone, and takes request r's
\* table away or keeps it.
LEMMA EndedSound ==
  ASSUME user \in Users, SchedulerIInv, user' = user, NEW r \in Requests,
         pool' = pool, index' = index, entries' \subseteq Requests,
         req' = [req EXCEPT ![r].phase = "finished"],
         \/ tables' = [tables EXCEPT ![r] = << >>]
         \/ tables' = tables
  PROVE  SchedulerIInv' /\ Kept(pool, pool')
<1>1. PICK w, q : w = [req[r] EXCEPT !.phase = "finished"] /\ q = pool
  OBVIOUS
<1>2. w \in Reqs /\ w.right /\ w.prompt = req[r].prompt /\ w.phase # "running"
  BY <1>1, Ended
<1>3. Stocked(q) /\ Grown(pool, q) /\ Kept(pool, q)
  BY <1>1, GrownReflexive, GrownKept DEF SchedulerIInv, Stocked
<1>4. tables \in [Requests -> Seq(Blocks)]
  BY DEF SchedulerIInv, TypeOK
<1>5. PICK d : tables' = [tables EXCEPT ![r] = d] /\ (d = << >> \/ d = tables[r])
  BY <1>4
<1>6. Begins(q, d, w.prompt)
  <2>1. Begins(q, tables[r], w.prompt)
    BY <1>1, <1>2 DEF SchedulerIInv
  <2>2. Len(w.prompt) \in Nat
    BY <1>2, LengthOfPrompt
  <2>3. d = << >> => Begins(q, d, w.prompt)
    BY <2>2, EmptyBegins
  <2> QED BY <1>5, <2>1, <2>3
<1>7. Enough(q, r, w, d)
  BY <1>2, <1>3, EnoughGrown
<1>8. index' \in [Hash -> Seq(Blocks)] /\ \A h \in Hash : Begins(q, index'[h], h)
  BY <1>1 DEF SchedulerIInv, TypeOK
<1>9. pool' = q /\ req' = [req EXCEPT ![r] = w]
  BY <1>1
<1> QED
  BY <1>2, <1>3, <1>5, <1>6, <1>7, <1>8, <1>9, StepSound

\* _cleanup_finished.
LEMMA FinishSound ==
  ASSUME user \in Users, Distinct, SchedulerIInv, user' = user,
         NEW r \in Requests, FinishWithoutStore(r) \/ FinishAndStore(r)
  PROVE  SchedulerIInv' /\ Kept(pool, pool')
<1>1. entries \subseteq Requests /\ req[r].right = TRUE
  BY Ended DEF SchedulerIInv, TypeOK
<1>2. CASE FinishWithoutStore(r)
  <2>1. /\ pool' = pool /\ index' = index /\ entries' \subseteq Requests
        /\ req' = [req EXCEPT ![r].phase = "finished"]
        /\ tables' = [tables EXCEPT ![r] = << >>]
    BY <1>1, <1>2 DEF FinishWithoutStore
  <2> QED BY <2>1, EndedSound
<1>3. CASE FinishAndStore(r)
  <2>1. PICK s : s = req[r].prompt
    OBVIOUS
  <2>2. s \in Prompts[user] \/ s = << >>
    <3>1. req[r] \in Reqs
      BY DEF SchedulerIInv, TypeOK, Reqs
    <3> QED BY <2>1, <3>1, LengthOfPrompt
  <2>3. req' = [req EXCEPT ![r].phase = "finished"] /\ Len(<< >>) = 0
    BY <1>3 DEF FinishAndStore
  <2>4. CASE ~ (0 < Len(s))
    <3>1. /\ pool' = pool /\ index' = index /\ entries' = entries /\ tables' = tables
      BY <1>3, <2>1, <2>3, <2>4 DEF FinishAndStore, StoreCache
    <3> QED BY <1>1, <2>3, <3>1, EndedSound
  <2>5. CASE 0 < Len(s)
    <3>1. PICK st : st = StoreLoop(s, TRUE, << >>)
      OBVIOUS
    <3>2. PICK w, d, q : /\ w = [req[r] EXCEPT !.phase = "finished"]
                         /\ d = st.ids /\ q = st.pool
      OBVIOUS
    <3>3. /\ pool' = q /\ index' = Indexed(s, d) /\ entries' = entries \cup {r}
          /\ tables' = [tables EXCEPT ![r] = d]
      <4>1. StoreLoop(s, req[r].right, << >>) = st
        BY <1>1, <3>1
      <4> QED BY <1>3, <2>1, <2>3, <2>5, <3>2, <4>1 DEF FinishAndStore, StoreCache
    <3>4. s \in Prompts[user]
      BY <2>2, <2>3, <2>5
    <3>5. st \in Shelf(pool) /\ Begins(q, d, s)
      BY <3>1, <3>2, <3>4, StoreLoopFacts DEF SchedulerIInv
    <3>6. Stocked(q) /\ Grown(pool, q) /\ Kept(pool, q)
      BY <3>2, <3>5, GrownKept DEF Shelf
    <3>7. w \in Reqs /\ w.right /\ w.prompt = s /\ w.phase # "running"
      BY <2>1, <3>2, Ended
    <3>8. Enough(q, r, w, d)
      BY <3>6, <3>7, EnoughGrown
    <3>9. index' \in [Hash -> Seq(Blocks)] /\ \A h \in Hash : Begins(q, index'[h], h)
      <4>1. PICK x : x = index'
        OBVIOUS
      <4>2. x \in [Hash -> Seq(Blocks)] /\ \A h \in Hash : Begins(q, x[h], h)
        BY <3>3, <3>4, <3>5, <3>6, <4>1, IndexedBegins
      <4> QED BY <4>1, <4>2
    <3>10. entries' \subseteq Requests
      BY <1>1, <3>3
    <3>11. req' = [req EXCEPT ![r] = w]
      BY <2>3, <3>2
    <3> QED
      BY <3>3, <3>5, <3>6, <3>7, <3>8, <3>9, <3>10, <3>11, StepSound
  <2> QED BY <2>4, <2>5
<1> QED
  BY <1>2, <1>3

\* abort_request: whoever stored a block left a reference, so none is freed.
LEMMA AbortSound ==
  ASSUME user \in Users, SchedulerIInv, user' = user,
         NEW r \in Requests, AbortRequest(r)
  PROVE  SchedulerIInv' /\ Kept(pool, pool')
<1>1. PICK w, d, q, e : /\ w = NoRequest /\ d = tables[r] /\ q = Freeing(pool, d)
                        /\ e = << >>
  OBVIOUS
<1>2. /\ pool' = q /\ tables' = [tables EXCEPT ![r] = e] /\ req' = [req EXCEPT ![r] = w]
      /\ index' = index /\ entries' = entries \ {r} /\ req[r].phase = "running"
  BY <1>1 DEF AbortRequest
<1>3. Begins(pool, d, req[r].prompt) /\ d \in Seq(Blocks) /\ Stocked(pool) /\ pool \in Pools
  BY <1>1 DEF SchedulerIInv, Stocked, Begins
<1>4. req[r].prompt \in Prompts[user] \/ req[r].prompt = << >>
  <2>1. req[r] \in Reqs
    BY DEF SchedulerIInv, TypeOK, Reqs
  <2> QED BY <2>1, LengthOfPrompt
<1>5. IsInjective(d) /\ ToSet(d) \subseteq pool.alloc
  <2>1. CASE req[r].prompt \in Prompts[user]
    <3>1. PICK s \in Prompts[user] : s = req[r].prompt
      BY <2>1
    <3> QED BY <1>3, <3>1, BeginsInjective
  <2>2. CASE req[r].prompt = << >>
    <3>1. Len(d) <= 0 /\ Len(d) \in Nat /\ DOMAIN d = 1 .. Len(d)
      BY <1>3, <2>2, LenProperties DEF Begins
    <3>2. DOMAIN d = {}
      BY <3>1
    <3> QED BY <3>2 DEF IsInjective, ToSet
  <2> QED BY <1>4, <2>1, <2>2
<1>6. pool.ref \in [Blocks -> Nat] /\ pool.alloc \subseteq Blocks
  BY <1>3, PoolParts DEF PoolTyped
<1>7. \A b \in pool.alloc : pool.ref[b] > Cardinality(Holders(b))
  BY DEF SchedulerIInv, Referenced
<1>8. \A b \in ToSet(d) : r \in Holders(b)
  BY <1>1, <1>2 DEF Holders
<1>9. \A b \in ToSet(d) : pool.ref[b] > 1
  <2> SUFFICES ASSUME NEW b \in ToSet(d)
               PROVE  pool.ref[b] > 1
    OBVIOUS
  <2>1. /\ Cardinality(Moved(b, r, FALSE)) = Cardinality(Holders(b)) - 1
        /\ Cardinality(Moved(b, r, FALSE)) \in Nat /\ Cardinality(Holders(b)) \in Nat
    BY <1>8, HolderCounts
  <2>2. PICK m, n, k : /\ m = Cardinality(Moved(b, r, FALSE))
                       /\ n = Cardinality(Holders(b)) /\ k = pool.ref[b]
    OBVIOUS
  <2>3. m \in Nat /\ n \in Nat /\ k \in Nat /\ m = n - 1 /\ k > n
    BY <1>5, <1>6, <1>7, <2>1, <2>2
  <2>4. k > 1
    BY <2>3
  <2> QED BY <2>2, <2>4
<1>10. /\ Recount(pool, q)
       /\ \A b \in Blocks : q.ref[b] = pool.ref[b] - (IF b \in ToSet(d) THEN 1 ELSE 0)
  BY <1>1, <1>3, <1>5, <1>9, FreeingFacts
<1>11. Stocked(q) /\ Kept(pool, q)
  <2>1. \A b \in pool.alloc : q.ref[b] > 0
    <3>1. \A b \in pool.alloc : pool.ref[b] > 0
      BY <1>3 DEF Stocked
    <3> QED BY <1>6, <1>9, <1>10, <3>1
  <2> QED BY <1>3, <1>10, <2>1, RecountStocked, RecountKept
<1>12. w \in Reqs /\ w.right /\ w.prompt = e /\ w.phase # "running" /\ Len(e) = 0
  BY <1>1 DEF Reqs, NoRequest
<1>13. Begins(q, e, w.prompt)
  BY <1>1, <1>12, EmptyBegins
<1>14. Enough(q, r, w, e)
  <2> SUFFICES ASSUME NEW b, b \in q.alloc
               PROVE  q.ref[b] > Cardinality(Moved(b, r, FALSE))
    <3>1. \A b \in q.alloc : (w.phase = "running" /\ b \in ToSet(e)) = FALSE
      BY <1>12
    <3> QED BY <3>1 DEF Enough
  <2>1. PICK m, n, k, l : /\ m = Cardinality(Moved(b, r, FALSE))
                          /\ n = Cardinality(Holders(b))
                          /\ k = pool.ref[b] /\ l = q.ref[b]
    OBVIOUS
  <2>2. b \in pool.alloc /\ b \in Blocks
    BY <1>6, <1>10 DEF Recount
  <2>3. m \in Nat /\ n \in Nat /\ k \in Nat /\ k > n /\ m <= n
    BY <1>6, <1>7, <2>1, <2>2, HolderCounts
  <2>4. CASE b \in ToSet(d)
    <3>1. l = k - 1 /\ m = n - 1
      BY <1>8, <1>10, <2>1, <2>2, <2>4, HolderCounts
    <3>2. l > m
      BY <2>3, <3>1
    <3> QED BY <2>1, <3>2
  <2>5. CASE b \notin ToSet(d)
    <3>1. l = k
      BY <1>10, <2>1, <2>2, <2>3, <2>5
    <3>2. l > m
      BY <2>3, <3>1
    <3> QED BY <2>1, <3>2
  <2> QED BY <2>4, <2>5
<1>15. index' \in [Hash -> Seq(Blocks)] /\ \A h \in Hash : Begins(q, index'[h], h)
  <2>1. \A h \in Hash : Begins(q, index[h], h)
    <3> SUFFICES ASSUME NEW h \in Hash
                 PROVE  Begins(q, index[h], h)
      OBVIOUS
    <3>1. Begins(pool, index[h], h)
      BY DEF SchedulerIInv
    <3> QED BY <1>11, <3>1, BeginsKept
  <2> QED BY <1>2, <2>1 DEF SchedulerIInv, TypeOK
<1>16. entries' \subseteq Requests
  BY <1>2 DEF SchedulerIInv, TypeOK
<1> QED
  BY <1>2, <1>11, <1>12, <1>13, <1>14, <1>15, <1>16, StepSound

\* An empty cache.
LEMMA EmptyStocked == Stocked(EmptyPool)
<1> DEFINE ids == [i \in 1 .. NumBlocks |-> i]
<1>1. ids \in Seq(Blocks) /\ IsInjective(ids) /\ ToSet(ids) = Blocks
  <2>1. NumBlocks \in Nat
    BY PoolAssumption
  <2>2. ids \in [1 .. NumBlocks -> Blocks]
    BY DEF Blocks
  <2>3. ids \in Seq(Blocks)
    <3> HIDE DEF ids
    <3> QED BY <2>1, <2>2, IsASeq
  <2>4. IsInjective(ids)
    BY DEF IsInjective
  <2>5. ToSet(ids) = Blocks
    BY DEF ToSet, Blocks
  <2> QED BY <2>3, <2>4, <2>5
<1>2. /\ EmptyPool.free = ids /\ EmptyPool.alloc = {}
      /\ EmptyPool.hash = [b \in Blocks |-> None]
      /\ EmptyPool.hmap = [h \in Hash |-> << >>]
      /\ EmptyPool.lmap = [v \in Legacy |-> None]
  BY DEF EmptyPool
<1>3. EmptyPool \in Pools
  <2>1. << >> \in Seq(Blocks)
    OBVIOUS
  <2> HIDE DEF ids
  <2>2. EmptyPool = [free |-> ids, alloc |-> {}, ref |-> [b \in Blocks |-> 0],
                     hash |-> [b \in Blocks |-> None], hval |-> [b \in Blocks |-> None],
                     data |-> [b \in Blocks |-> None],
                     hmap |-> [h \in Hash |-> << >>], lmap |-> [v \in Legacy |-> None]]
    BY DEF EmptyPool, ids
  <2> QED BY <1>1, <2>1, <2>2 DEF Pools
<1>4. \A h \in Hash : Unused(EmptyPool, h)
  BY <1>2, PoolAssumption DEF Unused
<1> HIDE DEF ids
<1> QED
  BY <1>1, <1>2, <1>3, <1>4 DEF Stocked

\* A cache without blocks, whatever the requests were.
LEMMA ClearedSound ==
  ASSUME pool = EmptyPool, tables = [r \in Requests |-> << >>], entries = {},
         index = [h \in Hash |-> << >>], req \in [Requests -> Reqs],
         \A r \in Requests : req[r].right, user \in Users
  PROVE  SchedulerIInv
<1>1. Stocked(pool) /\ pool.alloc = {} /\ pool \in Pools
  BY EmptyStocked DEF Stocked, EmptyPool
<1>2. /\ << >> \in Seq(Blocks)
      /\ \A r \in Requests : Len(req[r].prompt) \in Nat /\ tables[r] = << >>
      /\ \A h \in Hash : Len(h) \in Nat /\ index[h] = << >>
  <2>1. \A h \in Hash : Len(h) \in Nat
    BY CacheAssumption, LenProperties
  <2> QED BY <2>1, LengthOfPrompt
<1>3. \A r \in Requests : Begins(pool, tables[r], req[r].prompt)
  BY <1>2, EmptyBegins
<1>4. \A h \in Hash : Begins(pool, index[h], h)
  BY <1>2, EmptyBegins
<1>5. TypeOK
  BY <1>1, <1>2 DEF TypeOK, Reqs
<1> QED
  BY <1>1, <1>3, <1>4, <1>5 DEF SchedulerIInv, Referenced

\* clear.
LEMMA ClearSound ==
  ASSUME user \in Users, SchedulerIInv, user' = user, Clear
  PROVE  SchedulerIInv' /\ pool' = EmptyPool
<1>1. /\ pool' = EmptyPool /\ tables' = [r \in Requests |-> << >>] /\ entries' = {}
      /\ index' = [h \in Hash |-> << >>] /\ req' = req
  BY DEF Clear
<1>2. req \in [Requests -> Reqs] /\ \A r \in Requests : req[r].right
  BY DEF SchedulerIInv, TypeOK, Reqs
<1>3. PICK q, e : q = EmptyPool /\ e = << >>
  OBVIOUS
<1>4. Stocked(q) /\ q.alloc = {}
  BY <1>3, EmptyStocked DEF EmptyPool
<1>5. Stocked(pool)'
  BY <1>1, <1>3, <1>4, StockedNext
<1>6. /\ e \in Seq(Blocks)
      /\ \A r \in Requests : Len(req[r].prompt) \in Nat /\ tables'[r] = e
      /\ \A h \in Hash : Len(h) \in Nat /\ index'[h] = e
  <2>1. \A h \in Hash : Len(h) \in Nat
    BY CacheAssumption, LenProperties
  <2>2. << >> \in Seq(Blocks)
    OBVIOUS
  <2> QED BY <1>1, <1>2, <1>3, <2>1, <2>2, LengthOfPrompt
<1>7. \A r \in Requests : Begins(q, tables'[r], req'[r].prompt) /\ req'[r].right
  <2>1. \A r \in Requests : Begins(q, e, req[r].prompt)
    BY <1>3, <1>6, EmptyBegins
  <2> QED BY <1>1, <1>2, <1>6, <2>1
<1>8. \A h \in Hash : Begins(q, index'[h], h)
  <2>1. \A h \in Hash : Begins(q, e, h)
    BY <1>3, <1>6, EmptyBegins
  <2> QED BY <1>6, <2>1
<1>9. TypeOK'
  <2>1. q \in Pools
    BY <1>4 DEF Stocked
  <2>2. tables' \in [Requests -> Seq(Blocks)] /\ index' \in [Hash -> Seq(Blocks)]
    BY <1>1, <1>3, <1>6
  <2> QED BY <1>1, <1>2, <1>3, <2>1, <2>2 DEF TypeOK, Reqs
<1>10. Referenced'
  BY <1>1, <1>3, <1>4 DEF Referenced
<1> QED
  BY <1>1, <1>3, <1>5, <1>7, <1>8, <1>9, <1>10 DEF SchedulerIInv

LEMMA InitSound == ASSUME Init PROVE IInv
<1>1. NoRequest \in Reqs /\ NoRequest.right
  BY DEF NoRequest, Reqs
<1>2. req \in [Requests -> Reqs] /\ \A r \in Requests : req[r].right
  BY <1>1 DEF Init
<1>3. SchedulerIInv
  BY <1>2, ClearedSound DEF Init
<1> QED
  BY <1>3 DEF IInv, Init

\* A step for nobody.
LEMMA StutterSound ==
  ASSUME SchedulerIInv, UNCHANGED vars
  PROVE  SchedulerIInv' /\ Kept(pool, pool')
<1>1. /\ pool' = pool /\ tables' = tables /\ entries' = entries /\ index' = index
      /\ req' = req /\ user' = user
  BY DEF vars, cache
<1>2. TypeOK' <=> TypeOK
  BY <1>1 DEF TypeOK
<1>3. \A b : Holds(pool, b)' <=> Holds(pool, b)
  BY <1>1 DEF Holds
<1>4. Stocked(pool)' <=> Stocked(pool)
  BY <1>1, <1>3 DEF Stocked, Sole, Unused
<1>5. Referenced' <=> Referenced
  <2>1. \A b : Holders(b)' = Holders(b)
    BY <1>1 DEF Holders
  <2> QED BY <1>1, <2>1 DEF Referenced
<1>6. \A ids, s : Begins(pool, ids, s)' <=> Begins(pool, ids, s)
  BY <1>1 DEF Begins
<1>7. SchedulerIInv' <=> SchedulerIInv
  BY <1>1, <1>2, <1>4, <1>5 DEF SchedulerIInv, Begins
<1> QED
  BY <1>1, <1>7 DEF Kept

\* A step either keeps what is cached or clears everything.
LEMMA NextSound ==
  ASSUME Distinct, user = "scheduler", IInv, [Next]_vars
  PROVE  IInv' /\ (Kept(pool, pool') \/ pool' = EmptyPool)
<1>1. user \in Users /\ SchedulerIInv
  BY DEF IInv
<1>2. CASE UNCHANGED vars
  <2>1. user' = user
    BY <1>2 DEF vars
  <2> QED BY <1>1, <1>2, <2>1, StutterSound DEF IInv
<1>3. CASE Next
  <2>1. user' = user /\ SchedulerNext
    BY <1>3 DEF Next
  <2>2. SchedulerIInv' /\ (Kept(pool, pool') \/ pool' = EmptyPool)
    <3>1. ASSUME NEW r \in Requests, NEW s \in Prompts[user], AddRequest(r, s)
          PROVE  SchedulerIInv' /\ Kept(pool, pool')
      BY <1>1, <2>1, <3>1, AddRequestSound
    <3>2. ASSUME NEW r \in Requests, NEW s \in Prompts[user], AddFromDisk(r, s)
          PROVE  SchedulerIInv' /\ Kept(pool, pool')
      BY <1>1, <2>1, <3>2, AddFromDiskSound
    <3>3. ASSUME NEW r \in Requests, FinishWithoutStore(r) \/ FinishAndStore(r)
          PROVE  SchedulerIInv' /\ Kept(pool, pool')
      BY <1>1, <2>1, <3>3, FinishSound
    <3>4. ASSUME NEW r \in Requests, AbortRequest(r)
          PROVE  SchedulerIInv' /\ Kept(pool, pool')
      BY <1>1, <2>1, <3>4, AbortSound
    <3>5. CASE Clear
      BY <1>1, <2>1, <3>5, ClearSound
    <3> QED BY <2>1, <3>1, <3>2, <3>3, <3>4, <3>5 DEF SchedulerNext
  <2> QED BY <1>1, <2>1, <2>2 DEF IInv
<1> QED
  BY <1>2, <1>3

LEMMA IInvHolds ==
  ASSUME Distinct
  PROVE  Spec => []IInv
<1>1. Init => IInv
  BY InitSound
<1>2. IInv /\ [Next]_vars => IInv'
  <2> SUFFICES ASSUME IInv, [Next]_vars PROVE IInv'
    OBVIOUS
  <2>1. user' = user
    BY DEF Next, vars
  <2>2. CASE user = "scheduler"
    BY <2>2, NextSound
  <2>3. CASE user # "scheduler"
    BY <2>1, <2>3 DEF IInv
  <2> QED BY <2>2, <2>3
<1> QED
  BY <1>1, <1>2, PTL DEF Spec

-----------------------------------------------------------------------------
\* The results.

\* Under the scheduler's protocol a request decodes from the KV of its own
\* prompt only (fetch_cache and reconstruct_cache after any stores and aborts).
THEOREM SchedulerOwnKV ==
  ASSUME Distinct
  PROVE  Spec => [](user = "scheduler" => OwnKV)
<1>1. IInv => (user = "scheduler" => OwnKV)
  BY DEF IInv, SchedulerIInv, OwnKV
<1> QED
  BY <1>1, IInvHolds, PTL

\* And the prefix index leads from a prefix to the blocks with its KV, which
\* are in one place each (_update_prefix_index, _find_best_prefix_match).
THEOREM SchedulerIndexResolves ==
  ASSUME Distinct
  PROVE  Spec => [](user = "scheduler" => IndexResolves)
<1>1. ASSUME IInv, user = "scheduler"
      PROVE  IndexResolves
  <2>1. SchedulerIInv
    BY <1>1 DEF IInv
  <2> SUFFICES ASSUME NEW h \in Hash
               PROVE  HoldsPrefix(index[h], h) /\ Len(pool.hmap[h]) <= 1
    BY <2>1 DEF IndexResolves, SchedulerIInv
  <2>2. HoldsPrefix(index[h], h)
    BY <2>1 DEF SchedulerIInv, Begins, HoldsPrefix
  <2>3. Unused(pool, h) \/ \E b \in Blocks : Sole(pool, h, b)
    BY <2>1 DEF SchedulerIInv, Stocked
  <2>4. pool.hmap[h] = << >> \/ \E b \in Blocks : pool.hmap[h] = <<b>>
    BY <2>3 DEF Unused, Sole
  <2>5. Len(<< >>) = 0 /\ \A b : Len(<<b>>) = 1
    OBVIOUS
  <2>6. Len(pool.hmap[h]) = 0 \/ Len(pool.hmap[h]) = 1
    BY <2>4, <2>5
  <2>7. Len(pool.hmap[h]) <= 1
    <3>1. PICK n : n = Len(pool.hmap[h])
      OBVIOUS
    <3>2. n = 0 \/ n = 1
      BY <2>6, <3>1
    <3>3. n \in Nat
      BY <3>2
    <3>4. n <= 1
      BY <3>2, <3>3
    <3> QED BY <3>1, <3>4
  <2> QED BY <2>2, <2>7
<1> QED
  BY <1>1, IInvHolds, PTL

\* What the scheduler has cached stays until clear, whoever aborts, finishes
\* or stores (free_block in abort_request never takes the last reference).
THEOREM CachedBlocksStay ==
  ASSUME Distinct
  PROVE  Spec => CachedStays
<1> DEFINE A == user = "scheduler" /\ pool' # EmptyPool =>
                  \A b \in Blocks : pool.hash[b] # None =>
                    /\ b \in pool'.alloc
                    /\ pool'.hash[b] = pool.hash[b] /\ pool'.data[b] = pool.data[b]
<1>1. ASSUME IInv, [Next]_vars
      PROVE  A
  <2> SUFFICES ASSUME user = "scheduler", pool' # EmptyPool, NEW b \in Blocks,
                      pool.hash[b] # None
               PROVE  /\ b \in pool'.alloc
                      /\ pool'.hash[b] = pool.hash[b] /\ pool'.data[b] = pool.data[b]
    OBVIOUS
  <2>1. Kept(pool, pool')
    BY <1>1, NextSound
  <2>2. b \in pool.alloc
    BY <1>1 DEF IInv, SchedulerIInv, Stocked
  <2> QED BY <2>1, <2>2 DEF Kept
<1>2. IInv /\ [Next]_vars => [A]_vars
  BY <1>1
<1> QED
  BY <1>2, IInvHolds, PTL DEF Spec, CachedStays
=============================================================================
