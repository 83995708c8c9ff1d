------------------------------ MODULE MllmProofs ------------------------------
(***************************************************************************)
(* The requests, uids and rows of MLLMScheduler agree, its callers wait    *)
(* for nothing that is gone, and get the tokens of their request in order. *)
(***************************************************************************)
EXTENDS Mllm, ListsProofs

-----------------------------------------------------------------------------
\* The inductive invariant.

\* What a request's record, a row, the generator and a queue may be.
Reqs == [status : {"new", "waiting", "running"}, made : Nat, retries : Nat,
         added : SUBSET UNION {StopIds[r] : r \in Requests}]
Entries == [uid : Nat, req : Requests, n : Nat]
Generators == [pend : Seq(Entries), batch : Seq(Entries), next : Nat,
               shared : BOOLEAN,
               own : SUBSET UNION {StopIds[r] : r \in Requests}]
Queues == {q \in Seq(Items \cup {None}) : Len(q) <= QueueCap}

\* The types of the variables.
MllmTyped ==
  /\ known \subseteq Requests /\ untold \subseteq Requests
  /\ waiting \in Seq(Requests) /\ running \in Seq(Requests)
  /\ uid \in [Requests -> Nat \cup {None}]
  /\ req \in [Requests -> Reqs]
  /\ gen \in Generators \cup {None}
  /\ queue \in [Requests -> Queues \cup {None}]
  /\ client \in [Requests -> {"none", "stream", "generate", "gone", "ghost"}]
  /\ last \in [Requests -> Items \cup {None}]
  /\ thread = [at |-> thread.at, outs |-> thread.outs]
  /\ thread.at \in Phases
  /\ thread.at = "resp" => thread.outs \in Seq(Responses)
  /\ thread.at = "done" => thread.outs \in Seq(Items)
  /\ aborting \in Requests \cup {None} /\ alive \in BOOLEAN
  /\ faults \in Nat

\* The requests that are queued or running.
Here == ToSet(waiting) \cup ToSet(running)

\* A request is in one place, and only a running one has a uid.  Nothing is kept
\* for a caller that has not come, and one that reads has a queue.
Placed ==
  /\ IsInjective(waiting) /\ IsInjective(running)
  /\ ToSet(waiting) \cap ToSet(running) = {}
  /\ \A r \in Requests : uid[r] # None => r \in ToSet(running)
  /\ \A r \in ToSet(waiting) : req[r].status = "waiting"
  /\ \A r \in Requests : client[r] = "none" =>
       r \notin Here /\ queue[r] = None /\ last[r] = None
  /\ \A r \in Requests : Reading(r) => queue[r] # None

\* The rows of a generator lead to requests by their uids and back.
RowsOf(g) == ToSet(g.pend) \cup ToSet(g.batch)

Rowed(g, u) ==
  /\ IsInjective(g.pend) /\ IsInjective(g.batch)
  /\ ToSet(g.pend) \cap ToSet(g.batch) = {}
  /\ \A e, f \in RowsOf(g) : e.uid = f.uid => e = f
  /\ \A e \in RowsOf(g) : e.uid < g.next /\ u[e.req] = e.uid

\* A step that has failed has no generator, and a response that ends a request has
\* taken its row with it.
Answering ==
  /\ thread.at = "failed" => gen = None
  /\ thread.at = "resp" =>
       /\ \A i, j \in DOMAIN thread.outs :
            thread.outs[i].uid = thread.outs[j].uid => i = j
       /\ gen # None => \A o \in ToSet(thread.outs) : o.fin # "none" =>
            \A e \in RowsOf(gen) : e.uid # o.uid

\* The invariant of requests, uids and rows.
MllmIInv ==
  /\ MllmTyped /\ Placed /\ Answering
  /\ gen # None => Rowed(gen, uid)

\* Whoever reads an output that ends its request finds None after it.
Closed(q) == \A i \in DOMAIN q : q[i] # None /\ q[i].fin # "none" =>
               \E j \in DOMAIN q : i < j /\ q[j] = None

\* What a queue holds tells its consumer that this is the end.
Tells(q) == \E i \in DOMAIN q : q[i] = None \/ q[i].fin # "none"

\* The outputs that are about to be dispatched will.
Telling(r) ==
  thread.at = "done" /\ \E i \in DOMAIN thread.outs :
    thread.outs[i].req = r /\ thread.outs[i].fin # "none"

\* What runs is known and has a consumer, and who reads waits for what runs or is
\* told.  It needs the table of known requests, which decides who is told.
Attended(r) ==
  /\ queue[r] # None => Closed(queue[r])
  /\ r \in Here /\ r \notin untold /\ aborting # r => r \in known \/ client[r] = "ghost"
  /\ r \in Here /\ r \notin untold => Reading(r) \/ client[r] = "ghost" \/ aborting = r
  /\ r \notin untold /\ Reading(r) /\ alive /\ aborting # r =>
       r \in Here \/ Tells(queue[r]) \/ Telling(r)

ConsumersIInv == MllmIInv /\ \A r \in Requests : Attended(r)

-----------------------------------------------------------------------------
\* The members of a list.
LEMMA Members ==
  ASSUME NEW S, NEW s \in Seq(S)
  PROVE  /\ ToSet(s) \subseteq S /\ DOMAIN s = 1 .. Len(s) /\ Len(s) \in Nat
         /\ \A i \in DOMAIN s : s[i] \in ToSet(s)
         /\ \A x \in ToSet(s) : \E i \in DOMAIN s : s[i] = x
         /\ s = << >> <=> ToSet(s) = {}
<1>1. /\ \A i \in 1 .. Len(s) : s[i] \in S
      /\ DOMAIN s = 1 .. Len(s) /\ Len(s) \in Nat
      /\ s = << >> <=> Len(s) = 0
  BY LenProperties, ElementOfSeq, EmptySeq
<1>2. ToSet(s) = {s[i] : i \in DOMAIN s}
  BY DEF ToSet
<1>3. Len(s) # 0 => 1 \in DOMAIN s
  BY <1>1
<1>4. Len(s) = 0 => DOMAIN s = {}
  BY <1>1
<1> QED
  BY <1>1, <1>2, <1>3, <1>4

-----------------------------------------------------------------------------
\* The generator.

\* A record with the fields of a generator, and what they hold.
IsGenerator(g) ==
  g = [pend |-> g.pend, batch |-> g.batch, next |-> g.next,
       shared |-> g.shared, own |-> g.own]

GeneratorTyped(g) ==
  /\ g.pend \in Seq(Entries) /\ g.batch \in Seq(Entries) /\ g.next \in Nat
  /\ g.shared \in BOOLEAN
  /\ g.own \in SUBSET UNION {StopIds[r] : r \in Requests}

\* A generator is a record of its fields.
LEMMA GeneratorFields ==
  ASSUME NEW g
  PROVE  g \in Generators <=> IsGenerator(g) /\ GeneratorTyped(g)
BY DEF Generators, IsGenerator, GeneratorTyped

\* An entry is a record of its fields.
LEMMA EntryFields ==
  ASSUME NEW e \in Entries
  PROVE  /\ e.uid \in Nat /\ e.req \in Requests /\ e.n \in Nat
         /\ [e EXCEPT !.n = @ + 1] \in Entries
         /\ [e EXCEPT !.n = @ + 1].uid = e.uid
         /\ [e EXCEPT !.n = @ + 1].req = e.req
BY DEF Entries

\* A new generator has no rows.
LEMMA NewGeneratorFacts ==
  ASSUME NEW u
  PROVE  NewGenerator \in Generators /\ Rowed(NewGenerator, u)
<1>1. NewGenerator \in Generators
  BY DEF NewGenerator, Generators
<1>2. NewGenerator.pend = << >> /\ NewGenerator.batch = << >>
  BY DEF NewGenerator
<1>3. ToSet(<< >>) = {} /\ IsInjective(<< >>)
  BY DEF ToSet, IsInjective
<1> QED
  BY <1>1, <1>2, <1>3 DEF Rowed, RowsOf

\* Removing uids.
LEMMA DropFacts ==
  ASSUME NEW g \in Generators, NEW us
  PROVE  /\ Drop(g, us) \in Generators
         /\ RowsOf(Drop(g, us)) = {e \in RowsOf(g) : e.uid \notin us}
         /\ Drop(g, us).next = g.next /\ Drop(g, us).shared = g.shared
         /\ Drop(g, us).own = g.own
         /\ \A u : Rowed(g, u) => Rowed(Drop(g, us), u)
<1> DEFINE P == {e \in ToSet(g.pend) : e.uid \notin us}
           B == {e \in ToSet(g.batch) : e.uid \notin us}
           h == Drop(g, us)
<1>1. g.pend \in Seq(Entries) /\ g.batch \in Seq(Entries) /\ IsGenerator(g)
      /\ GeneratorTyped(g)
  BY GeneratorFields DEF GeneratorTyped
<1>2. h.pend = Only(g.pend, P) /\ h.batch = Only(g.batch, B) /\ h.next = g.next
      /\ h.shared = g.shared /\ h.own = g.own
  <2> DEFINE p == Only(g.pend, P)
             b == Only(g.batch, B)
  <2>1. h = [g EXCEPT !.pend = p, !.batch = b]
    BY DEF Drop
  <2> HIDE DEF p, b, h
  <2>2. h.pend = p /\ h.batch = b /\ h.next = g.next
        /\ h.shared = g.shared /\ h.own = g.own
    BY <1>1, <2>1 DEF IsGenerator
  <2> QED BY <2>2 DEF p, b
<1>3. /\ h.pend \in Seq(Entries) /\ ToSet(h.pend) = P
      /\ IsInjective(g.pend) => IsInjective(h.pend)
  <2> DEFINE q == g.pend
  <2>1. ToSet(q) \cap P = P /\ q \in Seq(Entries) /\ h.pend = Only(q, P)
    BY <1>1, <1>2
  <2> HIDE DEF h, P, q
  <2>2. /\ Only(q, P) \in Seq(Entries) /\ ToSet(Only(q, P)) = P
        /\ IsInjective(q) => IsInjective(Only(q, P))
    BY <2>1, OnlyFacts
  <2> QED BY <2>1, <2>2 DEF q
<1>4. /\ h.batch \in Seq(Entries) /\ ToSet(h.batch) = B
      /\ IsInjective(g.batch) => IsInjective(h.batch)
  <2> DEFINE q == g.batch
  <2>1. ToSet(q) \cap B = B /\ q \in Seq(Entries) /\ h.batch = Only(q, B)
    BY <1>1, <1>2
  <2> HIDE DEF h, B, q
  <2>2. /\ Only(q, B) \in Seq(Entries) /\ ToSet(Only(q, B)) = B
        /\ IsInjective(q) => IsInjective(Only(q, B))
    BY <2>1, OnlyFacts
  <2> QED BY <2>1, <2>2 DEF q
<1>5. h \in Generators
  <2> DEFINE p == Only(g.pend, P)
             b == Only(g.batch, B)
  <2>1. h = [g EXCEPT !.pend = p, !.batch = b] /\ p \in Seq(Entries) /\ b \in Seq(Entries)
    BY <1>2, <1>3, <1>4 DEF Drop
  <2> HIDE DEF p, b, h
  <2> QED BY <2>1 DEF Generators
<1>6. RowsOf(h) = {e \in RowsOf(g) : e.uid \notin us}
  BY <1>3, <1>4 DEF RowsOf
<1>7. ASSUME NEW u, Rowed(g, u) PROVE Rowed(h, u)
  <2>1. P \cap B = {} /\ RowsOf(h) \subseteq RowsOf(g)
    BY <1>6, <1>7 DEF Rowed
  <2> HIDE DEF h, P, B
  <2> QED BY <1>2, <1>3, <1>4, <1>7, <2>1 DEF Rowed
<1> QED
  BY <1>2, <1>5, <1>6, <1>7

\* The rows that the k first numbers of images select, one number after the
\* other.
SortRun(s, f) ==
  /\ f \in [0 .. MaxImages + 1 -> Seq(Entries)] /\ f[0] = << >>
  /\ f[MaxImages + 1] = FewerFirst(s)
  /\ \A k \in 1 .. MaxImages + 1 :
       f[k] = f[k - 1] \o Only(s, {e \in ToSet(s) : Images[e.req] = k - 1})

\* FewerFirst is computed one number of images after the other.
LEMMA SortUnfolds ==
  ASSUME NEW s \in Seq(Entries)
  PROVE  \E f : SortRun(s, f)
<1> DEFINE N == MaxImages + 1
           With(k) == Only(s, {e \in ToSet(s) : Images[e.req] = k - 1})
           H == [k \in 1 .. N |-> [t \in Seq(Entries) |-> t \o With(k)]]
           f == CHOOSE f : f = [k \in 0 .. N |->
                  IF k = 0 THEN << >>
                  ELSE f[k - 1] \o Only(s, {e \in ToSet(s) : Images[e.req] = k - 1})]
<1>0. N \in Nat /\ N # 0
  BY MllmAssumption
<1>1. \A k : With(k) \in Seq(Entries)
  BY OnlyFacts
<1>2. H \in StepsIn(Seq(Entries), N)
  <2> HIDE DEF With, N
  <2> QED BY <1>1, ConcatProperties DEF StepsIn
<1>3. PICK g : Iterates(Seq(Entries), N, << >>, H, g)
  <2> DEFINE Y == Seq(Entries)
             e == << >>
  <2>1. e \in Y /\ H \in StepsIn(Y, N)
    BY <1>2
  <2> HIDE DEF H, N, Y, e
  <2>2. PICK g : Iterates(Y, N, e, H, g)
    BY <1>0, <2>1, Iteration
  <2> QED BY <2>2 DEF Y, e
<1>4. g \in [0 .. N -> Seq(Entries)] /\ g[0] = << >>
      /\ \A k \in 1 .. N : g[k] = H[k][g[k - 1]]
  BY <1>3 DEF Iterates
<1>5. \A k \in 1 .. N : g[k] = g[k - 1] \o With(k)
  <2> SUFFICES ASSUME NEW k \in 1 .. N PROVE g[k] = g[k - 1] \o With(k)
    OBVIOUS
  <2>1. k - 1 \in 0 .. N /\ g[k - 1] \in Seq(Entries)
    BY <1>0, <1>4
  <2> DEFINE t == g[k - 1]
  <2> HIDE DEF t, With, N
  <2>2. t \in Seq(Entries)
    BY <2>1 DEF t
  <2>3. H[k][t] = t \o With(k)
    BY <2>2
  <2>4. g[k] = H[k][t]
    BY <1>4 DEF t
  <2> QED BY <2>3, <2>4 DEF t
<1>6. g = [k \in 0 .. N |-> IF k = 0 THEN << >> ELSE g[k - 1] \o With(k)]
  <2> HIDE DEF With, N, H
  <2>1. \A k \in 0 .. N : k # 0 => k \in 1 .. N
    BY <1>0
  <2> QED BY <1>4, <1>5, <2>1
<1>7. f = [k \in 0 .. N |-> IF k = 0 THEN << >> ELSE f[k - 1] \o With(k)]
  BY <1>6
<1>8. FewerFirst(s) = f[N]
  BY DEF FewerFirst
<1> HIDE DEF f
<1>9. f[0] = << >> /\ \A k \in 1 .. N : f[k] = f[k - 1] \o With(k)
  <2> HIDE DEF With, N
  <2>1. 0 \in 0 .. N /\ \A k \in 1 .. N : k \in 0 .. N /\ k # 0
    BY <1>0
  <2>2. f[0] = << >>
    BY <1>7, <2>1
  <2>3. ASSUME NEW k \in 1 .. N PROVE f[k] = f[k - 1] \o With(k)
    BY <1>7, <2>1
  <2> QED BY <2>2, <2>3
<1>10. f \in [0 .. N -> Seq(Entries)]
  <2> DEFINE F == {k \in 0 .. N : f[k] \in Seq(Entries)}
  <2>1. 0 \in F
    <3> HIDE DEF N
    <3>1. << >> \in Seq(Entries) /\ f[0] = << >>
      BY <1>9
    <3>2. f[0] \in Seq(Entries)
      BY <3>1
    <3>3. 0 \in 0 .. N
      BY <1>0
    <3> QED BY <3>2, <3>3
  <2>2. ASSUME NEW k \in 1 .. N, k - 1 \in F PROVE k \in F
    <3> DEFINE t == f[k - 1]
               w == With(k)
    <3> HIDE DEF With, N
    <3>1. t \in Seq(Entries) /\ w \in Seq(Entries) /\ f[k] = t \o w
      BY <1>1, <1>9, <2>2
    <3> HIDE DEF t, w
    <3>2. f[k] \in Seq(Entries)
      BY <3>1, ConcatProperties
    <3> QED BY <3>2
  <2>3. \A k \in 0 .. N : k \in F
    <3> HIDE DEF F, N
    <3> QED BY <1>0, <2>1, <2>2, UpTo
  <2> HIDE DEF N, With
  <2> QED BY <1>7, <2>3
<1> HIDE DEF With
<1> QED
  BY <1>8, <1>9, <1>10 DEF SortRun, With

\* Sorting loses no row and doubles none.
LEMMA SortFacts ==
  ASSUME NEW s \in Seq(Entries)
  PROVE  /\ FewerFirst(s) \in Seq(Entries) /\ ToSet(FewerFirst(s)) = ToSet(s)
         /\ IsInjective(s) => IsInjective(FewerFirst(s))
<1> DEFINE N == MaxImages + 1
           Up(k) == {e \in ToSet(s) : Images[e.req] < k}
<1>0. N \in Nat /\ ToSet(s) \subseteq Entries /\ \A e \in Entries : Images[e.req] \in 0 .. MaxImages
  <2>1. \A e \in Entries : e.req \in Requests
    BY EntryFields
  <2> QED BY <2>1, MllmAssumption, Members
<1>1. PICK f : SortRun(s, f)
  BY SortUnfolds
<1> DEFINE G == {k \in 0 .. N : /\ f[k] \in Seq(Entries) /\ ToSet(f[k]) = Up(k)
                                /\ IsInjective(s) => IsInjective(f[k])}
<1>2. 0 \in G
  <2>1. Up(0) = {} /\ 0 \in 0 .. N
    BY <1>0
  <2>2. f[0] = << >> /\ << >> \in Seq(Entries) /\ ToSet(<< >>) = {} /\ IsInjective(<< >>)
    BY <1>1 DEF SortRun, ToSet, IsInjective
  <2> HIDE DEF N, Up
  <2> QED BY <2>1, <2>2
<1>3. ASSUME NEW k \in 1 .. N, k - 1 \in G PROVE k \in G
  <2> DEFINE X == {e \in ToSet(s) : Images[e.req] = k - 1}
             t == f[k - 1]
             w == Only(s, X)
  <2>1. t \in Seq(Entries) /\ ToSet(t) = Up(k - 1) /\ (IsInjective(s) => IsInjective(t))
    BY <1>3
  <2>2. w \in Seq(Entries) /\ ToSet(w) = X /\ (IsInjective(s) => IsInjective(w))
    <3>1. ToSet(s) \cap X = X
      OBVIOUS
    <3> HIDE DEF X
    <3> QED BY <3>1, OnlyFacts
  <2>3. Up(k - 1) \cap X = {} /\ Up(k) = Up(k - 1) \cup X
    <3>1. \A e \in ToSet(s) : Images[e.req] \in Nat
      BY <1>0
    <3> QED BY <3>1
  <2>4. /\ t \o w \in Seq(Entries) /\ ToSet(t \o w) = Up(k)
        /\ IsInjective(s) => IsInjective(t \o w)
    <3> HIDE DEF t, w, Up, X
    <3> QED BY <2>1, <2>2, <2>3, ConcatFacts
  <2>5. f[k] = t \o w /\ k \in 0 .. N
    BY <1>1 DEF SortRun
  <2> HIDE DEF t, w, Up, X, N
  <2> QED BY <2>4, <2>5
<1>4. N \in G
  <2> HIDE DEF G, N
  <2>1. \A k \in 1 .. N : k - 1 \in G => k \in G
    BY <1>3
  <2>2. \A k \in 0 .. N : k \in G
    BY <1>0, <1>2, <2>1, UpTo
  <2> QED BY <1>0, <2>2
<1>5. Up(N) = ToSet(s)
  <2>1. \A e \in ToSet(s) : Images[e.req] \in 0 .. MaxImages
    BY <1>0
  <2>2. \A i \in 0 .. MaxImages : i < N
    BY MllmAssumption
  <2> HIDE DEF N
  <2> QED BY <2>1, <2>2
<1>6. f[N] = FewerFirst(s)
  BY <1>1 DEF SortRun
<1> QED
  BY <1>4, <1>5, <1>6

\* The rows that insert adds.
LEMMA EnteredFacts ==
  ASSUME NEW g \in Generators, NEW rs \in Seq(Requests)
  PROVE  /\ Entered(g, rs) \in Seq(Entries) /\ IsInjective(Entered(g, rs))
         /\ DOMAIN Entered(g, rs) = DOMAIN rs
         /\ \A i \in DOMAIN rs : /\ Entered(g, rs)[i].uid = g.next + i - 1
                                 /\ Entered(g, rs)[i].req = rs[i]
         /\ \A e \in ToSet(Entered(g, rs)) :
              g.next <= e.uid /\ e.uid < g.next + Len(rs) /\ e.req \in ToSet(rs)
         /\ \A e, f \in ToSet(Entered(g, rs)) : e.uid = f.uid => e = f
<1> DEFINE t == Entered(g, rs)
           N == Len(rs)
           b == g.next
<1>1. N \in Nat /\ DOMAIN rs = 1 .. N /\ \A i \in 1 .. N : rs[i] \in Requests
  BY Members
<1>2. b \in Nat
  BY GeneratorFields DEF GeneratorTyped
<1>3. t = [i \in 1 .. N |-> [uid |-> b + i - 1, req |-> rs[i], n |-> 0]]
  BY DEF Entered
<1> HIDE DEF b, N, t
<1>4. \A i \in 1 .. N : t[i].uid = b + i - 1 /\ t[i].req = rs[i] /\ t[i] \in Entries
  <2> SUFFICES ASSUME NEW i \in 1 .. N
               PROVE  t[i].uid = b + i - 1 /\ t[i].req = rs[i] /\ t[i] \in Entries
    OBVIOUS
  <2>1. t[i] = [uid |-> b + i - 1, req |-> rs[i], n |-> 0]
    BY <1>3
  <2>2. b + i - 1 \in Nat /\ rs[i] \in Requests
    BY <1>1, <1>2
  <2> QED BY <2>1, <2>2 DEF Entries
<1>5. t \in Seq(Entries) /\ DOMAIN t = 1 .. N
  <2>1. t \in [1 .. N -> Entries]
    BY <1>3, <1>4
  <2> QED BY <1>1, <2>1, IsASeq
<1>6. IsInjective(t)
  <2>1. ASSUME NEW i \in 1 .. N, NEW j \in 1 .. N, t[i] = t[j] PROVE i = j
    <3>1. b + i - 1 = b + j - 1
      BY <1>4, <2>1
    <3> QED BY <1>1, <1>2, <3>1
  <2> QED BY <1>5, <2>1 DEF IsInjective
<1>7. \A e \in ToSet(t) : \E i \in 1 .. N : e = t[i]
  BY <1>5 DEF ToSet
<1>8. \A e \in ToSet(t) : b <= e.uid /\ e.uid < b + N /\ e.req \in ToSet(rs)
  <2> SUFFICES ASSUME NEW e \in ToSet(t)
               PROVE  b <= e.uid /\ e.uid < b + N /\ e.req \in ToSet(rs)
    OBVIOUS
  <2>1. PICK i \in 1 .. N : e = t[i]
    BY <1>7
  <2>2. e.uid = b + i - 1 /\ e.req = rs[i]
    BY <1>4, <2>1
  <2>3. rs[i] \in ToSet(rs)
    BY <1>1 DEF ToSet
  <2> QED BY <1>1, <1>2, <2>2, <2>3
<1>9. \A e, f \in ToSet(t) : e.uid = f.uid => e = f
  <2> SUFFICES ASSUME NEW e \in ToSet(t), NEW f \in ToSet(t), e.uid = f.uid
               PROVE  e = f
    OBVIOUS
  <2>1. PICK i \in 1 .. N : e = t[i]
    BY <1>7
  <2>2. PICK j \in 1 .. N : f = t[j]
    BY <1>7
  <2>3. b + i - 1 = b + j - 1
    BY <1>4, <2>1, <2>2
  <2>4. i = j
    BY <1>1, <1>2, <2>3
  <2> QED BY <2>1, <2>2, <2>4
<1> QED
  BY <1>1, <1>4, <1>5, <1>6, <1>8, <1>9 DEF b, N, t

\* insert.
LEMMA InsertedFacts ==
  ASSUME NEW g \in Generators, NEW rs \in Seq(Requests)
  PROVE  /\ Inserted(g, rs) \in Generators
         /\ Inserted(g, rs).batch = g.batch
         /\ Inserted(g, rs).next = g.next + Len(rs)
         /\ Inserted(g, rs).shared = g.shared /\ Inserted(g, rs).own = g.own
         /\ ToSet(Inserted(g, rs).pend) = ToSet(g.pend) \cup ToSet(Entered(g, rs))
         /\ IsInjective(g.pend) /\ (\A e \in ToSet(g.pend) : e.uid < g.next)
              => IsInjective(Inserted(g, rs).pend)
<1> DEFINE t == Entered(g, rs)
           a == g.pend \o t
           p == FewerFirst(a)
           n == g.next + Len(rs)
           h == Inserted(g, rs)
<1>1. IsGenerator(g) /\ GeneratorTyped(g)
  BY GeneratorFields
<1>2. g.pend \in Seq(Entries) /\ g.next \in Nat /\ Len(rs) \in Nat
  BY <1>1, Members DEF GeneratorTyped
<1>3. /\ t \in Seq(Entries) /\ IsInjective(t)
      /\ \A e \in ToSet(t) : g.next <= e.uid /\ e.uid \in Nat
  <2>1. /\ t \in Seq(Entries) /\ IsInjective(t)
        /\ \A e \in ToSet(t) : g.next <= e.uid
    BY EnteredFacts
  <2>2. \A e \in ToSet(t) : e.uid \in Nat
    BY <2>1, Members, EntryFields
  <2> QED BY <2>1, <2>2
<1>4. /\ a \in Seq(Entries) /\ ToSet(a) = ToSet(g.pend) \cup ToSet(t)
      /\ IsInjective(g.pend) /\ (\A e \in ToSet(g.pend) : e.uid < g.next) => IsInjective(a)
  <2>1. (\A e \in ToSet(g.pend) : e.uid < g.next) => ToSet(g.pend) \cap ToSet(t) = {}
    <3> SUFFICES ASSUME \A e \in ToSet(g.pend) : e.uid < g.next,
                        NEW e \in ToSet(g.pend), e \in ToSet(t)
                 PROVE  FALSE
      OBVIOUS
    <3>1. e.uid < g.next /\ g.next <= e.uid /\ e.uid \in Nat
      BY <1>3
    <3> QED BY <1>2, <3>1
  <2> DEFINE q == g.pend
  <2>2. q \in Seq(Entries)
    BY <1>2
  <2> HIDE DEF t, q
  <2>3. /\ q \o t \in Seq(Entries) /\ ToSet(q \o t) = ToSet(q) \cup ToSet(t)
        /\ IsInjective(q) /\ IsInjective(t) /\ ToSet(q) \cap ToSet(t) = {}
             => IsInjective(q \o t)
    BY <1>3, <2>2, ConcatFacts
  <2> QED BY <1>3, <2>1, <2>3 DEF q
<1>5. p \in Seq(Entries) /\ ToSet(p) = ToSet(a) /\ (IsInjective(a) => IsInjective(p))
  <2> HIDE DEF a
  <2> QED BY <1>4, SortFacts
<1>6. h = [g EXCEPT !.pend = p, !.next = n]
  BY DEF Inserted
<1> HIDE DEF p, n, h
<1>7. h.pend = p /\ h.next = n /\ h.batch = g.batch /\ h.shared = g.shared /\ h.own = g.own
  BY <1>1, <1>6 DEF IsGenerator
<1>8. n \in Nat
  BY <1>2 DEF n
<1>9. h \in Generators
  BY <1>5, <1>6, <1>8 DEF Generators
<1> QED
  BY <1>4, <1>5, <1>7, <1>9 DEF n, h

\* The stop tokens that a generator has of its own do not matter for its rows.
LEMMA OwnFacts ==
  ASSUME NEW g \in Generators, NEW X, X \subseteq UNION {StopIds[r] : r \in Requests}
  PROVE  /\ [g EXCEPT !.own = X] \in Generators
         /\ RowsOf([g EXCEPT !.own = X]) = RowsOf(g)
         /\ \A u : Rowed(g, u) => Rowed([g EXCEPT !.own = X], u)
<1> DEFINE h == [g EXCEPT !.own = X]
<1>1. h \in Generators
  BY DEF Generators
<1>2. h.pend = g.pend /\ h.batch = g.batch /\ h.next = g.next
  BY DEF Generators
<1> HIDE DEF h
<1>3. RowsOf(h) = RowsOf(g)
  BY <1>2 DEF RowsOf
<1>4. \A u : Rowed(g, u) => Rowed(h, u)
  BY <1>2, <1>3 DEF Rowed
<1> QED
  BY <1>1, <1>3, <1>4 DEF h

\* The rows after insert, when v has the uids of the requests of rs.
LEMMA InsertedRowed ==
  ASSUME NEW g \in Generators, NEW rs \in Seq(Requests), NEW u, NEW v,
         Rowed(g, u),
         \A i \in DOMAIN rs : v[rs[i]] = g.next + i - 1,
         \A r \in Requests \ ToSet(rs) : v[r] = u[r],
         \A e \in RowsOf(g) : e.req \notin ToSet(rs)
  PROVE  Rowed(Inserted(g, rs), v)
<1> DEFINE h == Inserted(g, rs)
           t == Entered(g, rs)
           b == g.next
           N == Len(rs)
<1>1. /\ h.batch = g.batch /\ h.next = b + N
      /\ ToSet(h.pend) = ToSet(g.pend) \cup ToSet(t)
      /\ IsInjective(g.pend) /\ (\A e \in ToSet(g.pend) : e.uid < b)
           => IsInjective(h.pend)
  BY InsertedFacts
<1>2. /\ DOMAIN t = DOMAIN rs
      /\ \A i \in DOMAIN rs : t[i].uid = b + i - 1 /\ t[i].req = rs[i]
      /\ \A e \in ToSet(t) : b <= e.uid /\ e.uid < b + N /\ e.req \in ToSet(rs)
      /\ \A e, f \in ToSet(t) : e.uid = f.uid => e = f
      /\ t \in Seq(Entries)
  BY EnteredFacts
<1>3. b \in Nat /\ N \in Nat
  BY GeneratorFields, Members DEF GeneratorTyped
<1>4. ToSet(g.pend) \subseteq Entries /\ ToSet(g.batch) \subseteq Entries
  BY GeneratorFields, Members DEF GeneratorTyped
<1>5. \A e \in RowsOf(g) : e.uid < b /\ u[e.req] = e.uid /\ e.uid \in Nat /\ e.req \in Requests
  BY <1>4, EntryFields DEF Rowed, RowsOf
<1>6. \A e \in ToSet(t) : v[e.req] = e.uid /\ e.uid \in Nat
  <2> SUFFICES ASSUME NEW e \in ToSet(t) PROVE v[e.req] = e.uid /\ e.uid \in Nat
    OBVIOUS
  <2>1. PICK i \in DOMAIN t : e = t[i]
    BY DEF ToSet
  <2>2. e.uid \in Nat
    BY <1>2, Members, EntryFields
  <2> QED BY <1>2, <2>1, <2>2
<1>7. RowsOf(h) = RowsOf(g) \cup ToSet(t)
  <2> HIDE DEF h, t
  <2> QED BY <1>1 DEF RowsOf
<1> HIDE DEF h, t, b, N
<1>8. \A e \in RowsOf(g), f \in ToSet(t) : e.uid # f.uid
  BY <1>2, <1>3, <1>5, <1>6
<1>9. IsInjective(h.pend) /\ IsInjective(h.batch)
  <2>1. \A e \in ToSet(g.pend) : e.uid < b
    BY <1>5 DEF RowsOf
  <2> QED BY <1>1, <2>1 DEF Rowed
<1>10. ToSet(h.pend) \cap ToSet(h.batch) = {}
  <2>1. ToSet(t) \cap ToSet(g.batch) = {}
    BY <1>8 DEF RowsOf
  <2> QED BY <1>1, <2>1 DEF Rowed
<1>11. \A e, f \in RowsOf(h) : e.uid = f.uid => e = f
  BY <1>2, <1>7, <1>8 DEF Rowed
<1>12. \A e \in RowsOf(g) : e.uid < b + N /\ v[e.req] = e.uid
  <2> SUFFICES ASSUME NEW e \in RowsOf(g) PROVE e.uid < b + N /\ v[e.req] = e.uid
    OBVIOUS
  <2>1. e.uid < b /\ e.uid \in Nat
    BY <1>5
  <2>2. e.uid < b + N
    BY <1>3, <2>1
  <2> QED BY <1>5, <2>2
<1>13. \A e \in RowsOf(h) : e.uid < h.next /\ v[e.req] = e.uid
  BY <1>1, <1>2, <1>6, <1>7, <1>12
<1> QED
  BY <1>9, <1>10, <1>11, <1>13 DEF Rowed, h

\* Counting the tokens of rows changes nothing else in them.
Counted(s, t) ==
  /\ t \in Seq(Entries) /\ DOMAIN t = DOMAIN s
  /\ \A i \in DOMAIN s : t[i].uid = s[i].uid /\ t[i].req = s[i].req
  /\ \A i, j \in DOMAIN t : t[i].uid = t[j].uid => i = j
  /\ IsInjective(t)
  /\ \A e \in ToSet(t) : \E f \in ToSet(s) : e.uid = f.uid /\ e.req = f.req
  /\ \A e, f \in ToSet(t) : e.uid = f.uid => e = f

\* Counting a token in every row changes no uid and no request.
LEMMA CountedRows ==
  ASSUME NEW s \in Seq(Entries), IsInjective(s),
         \A e, f \in ToSet(s) : e.uid = f.uid => e = f,
         NEW t, t = [i \in DOMAIN s |-> [s[i] EXCEPT !.n = @ + 1]]
  PROVE  Counted(s, t)
<1>1. /\ DOMAIN s = 1 .. Len(s) /\ Len(s) \in Nat
      /\ \A i \in DOMAIN s : s[i] \in Entries /\ s[i] \in ToSet(s)
  BY Members
<1>2. \A i \in DOMAIN s : /\ t[i] = [s[i] EXCEPT !.n = @ + 1] /\ t[i] \in Entries
                          /\ t[i].uid = s[i].uid /\ t[i].req = s[i].req
  BY <1>1, EntryFields
<1>3. DOMAIN t = DOMAIN s
  OBVIOUS
<1>4. t \in Seq(Entries)
  <2>1. t \in [1 .. Len(s) -> Entries]
    BY <1>1, <1>2
  <2> QED BY <1>1, <2>1, IsASeq
<1>5. \A i, j \in DOMAIN t : t[i].uid = t[j].uid => i = j
  BY <1>1, <1>2, <1>3 DEF IsInjective
<1>6. IsInjective(t)
  BY <1>5 DEF IsInjective
<1>7. \A e \in ToSet(t) : \E i \in DOMAIN t : e = t[i]
  BY DEF ToSet
<1>8. \A e \in ToSet(t) : \E f \in ToSet(s) : e.uid = f.uid /\ e.req = f.req
  BY <1>1, <1>2, <1>3, <1>7
<1>9. ASSUME NEW e \in ToSet(t), NEW f \in ToSet(t), e.uid = f.uid PROVE e = f
  <2>1. PICK i \in DOMAIN t : e = t[i]
    BY <1>7
  <2>2. PICK j \in DOMAIN t : f = t[j]
    BY <1>7
  <2>3. i = j
    BY <1>5, <1>9, <2>1, <2>2
  <2> QED BY <2>1, <2>2, <2>3
<1> QED
  BY <1>2, <1>3, <1>4, <1>5, <1>6, <1>8, <1>9 DEF Counted

\* What next returns.
GeneratedWell(g, u, res) ==
  /\ res.gen \in Generators /\ Rowed(res.gen, u)
  /\ res.outs \in Seq(Responses)
  /\ \A i, j \in DOMAIN res.outs : res.outs[i].uid = res.outs[j].uid => i = j
  /\ \A o \in ToSet(res.outs) : o.fin # "none" =>
       \A e \in RowsOf(res.gen) : e.uid # o.uid

\* The rows that are prefilled are taken from the front.
Room(g) == BatchSize - Len(g.batch)
\* The rows that are taken for their prefill.
TakenRows(g) ==
  IF Room(g) > 0
  THEN SubSeq(g.pend, 1, IF Room(g) < Len(g.pend) THEN Room(g) ELSE Len(g.pend))
  ELSE << >>

\* They are the first of those that wait for it.
LEMMA TakenFacts ==
  ASSUME NEW g \in Generators
  PROVE  \E k \in 0 .. Len(g.pend) : TakenRows(g) = SubSeq(g.pend, 1, k)
<1>1. Len(g.pend) \in Nat /\ Len(g.batch) \in Nat /\ BatchSize \in Nat
  BY GeneratorFields, Members, MllmAssumption DEF GeneratorTyped
<1> DEFINE r == Room(g)
           n == Len(g.pend)
<1>2. r \in Int /\ n \in Nat
  BY <1>1 DEF Room
<1> HIDE DEF r, n
<1>3. CASE r > 0
  <2>1. (IF r < n THEN r ELSE n) \in 0 .. n
    BY <1>2, <1>3
  <2> QED BY <1>3, <2>1 DEF TakenRows, r, n
<1>4. CASE ~ (r > 0)
  <2>1. SubSeq(g.pend, 1, 0) = << >>
    BY SubSeqEmpty
  <2>2. 0 \in 0 .. n
    BY <1>2
  <2> QED BY <1>4, <2>1, <2>2 DEF TakenRows, r, n
<1> QED
  BY <1>3, <1>4

\* next() keeps the rows' uids, and answers once for each.
LEMMA GeneratedFacts ==
  ASSUME NEW g \in Generators, NEW u, Rowed(g, u), NEW bad, NEW ending
  PROVE  GeneratedWell(g, u, Generated(g, bad, ending))
<1> DEFINE taken == TakenRows(g)
           ok == Only(taken, {e \in ToSet(taken) : e.req \notin bad})
           failed == Only(taken, {e \in ToSet(taken) : e.req \in bad})
           active == g.batch \o ok
           batch == [i \in DOMAIN active |-> [active[i] EXCEPT !.n = @ + 1]]
           fin(e) == IF e.req \in ending THEN "stop"
                     ELSE IF e.n >= MaxTokens THEN "length" ELSE "none"
           rest == SubSeq(g.pend, Len(taken) + 1, Len(g.pend))
           stay == Only(batch, {e \in ToSet(batch) : fin(e) = "none"})
           h == [g EXCEPT !.pend = rest, !.batch = stay]
           bads == [i \in DOMAIN failed |->
                      [uid |-> failed[i].uid, fin |-> "stop", bad |-> TRUE]]
           goods == [i \in DOMAIN batch |-> Response(batch[i], fin(batch[i]))]
           outs == bads \o goods
<1>0. Generated(g, bad, ending) = [gen |-> h, outs |-> outs]
  BY DEF Generated, TakenRows, Room
<1>1. /\ g.pend \in Seq(Entries) /\ g.batch \in Seq(Entries) /\ g.next \in Nat
      /\ IsGenerator(g)
  BY GeneratorFields DEF GeneratorTyped
<1>2. /\ IsInjective(g.pend) /\ IsInjective(g.batch)
      /\ ToSet(g.pend) \cap ToSet(g.batch) = {}
      /\ \A e, f \in RowsOf(g) : e.uid = f.uid => e = f
      /\ \A e \in RowsOf(g) : e.uid < g.next /\ u[e.req] = e.uid
  BY DEF Rowed
<1>3. /\ taken \in Seq(Entries) /\ rest \in Seq(Entries)
      /\ ToSet(g.pend) = ToSet(taken) \cup ToSet(rest)
      /\ IsInjective(taken) /\ IsInjective(rest)
      /\ ToSet(taken) \cap ToSet(rest) = {}
  <2>1. PICK k \in 0 .. Len(g.pend) : taken = SubSeq(g.pend, 1, k)
    BY TakenFacts
  <2> DEFINE p == g.pend
             a == SubSeq(p, 1, k)
             b == SubSeq(p, k + 1, Len(p))
  <2>2. p \in Seq(Entries) /\ IsInjective(p) /\ k \in 0 .. Len(p)
    BY <1>1, <1>2
  <2> HIDE DEF p
  <2>3. /\ a \in Seq(Entries) /\ b \in Seq(Entries) /\ Len(a) = k
        /\ ToSet(p) = ToSet(a) \cup ToSet(b)
        /\ IsInjective(a) /\ IsInjective(b) /\ ToSet(a) \cap ToSet(b) = {}
    BY <2>2, SplitFacts
  <2>4. taken = a /\ rest = b
    BY <2>1, <2>3 DEF p
  <2> HIDE DEF a, b, taken, rest
  <2> QED BY <2>3, <2>4 DEF p
<1> HIDE DEF taken, rest
<1>4. /\ ok \in Seq(Entries) /\ IsInjective(ok)
      /\ ToSet(ok) = {e \in ToSet(taken) : e.req \notin bad}
  <2> DEFINE X == {e \in ToSet(taken) : e.req \notin bad}
  <2>1. ToSet(taken) \cap X = X
    OBVIOUS
  <2> HIDE DEF X
  <2> QED BY <1>3, <2>1, OnlyFacts
<1>5. /\ failed \in Seq(Entries) /\ IsInjective(failed)
      /\ ToSet(failed) = {e \in ToSet(taken) : e.req \in bad}
  <2> DEFINE X == {e \in ToSet(taken) : e.req \in bad}
  <2>1. ToSet(taken) \cap X = X
    OBVIOUS
  <2> HIDE DEF X
  <2> QED BY <1>3, <2>1, OnlyFacts
<1> HIDE DEF ok, failed
<1>6. /\ active \in Seq(Entries) /\ IsInjective(active)
      /\ ToSet(active) = ToSet(g.batch) \cup ToSet(ok)
  <2> DEFINE q == g.batch
  <2>1. q \in Seq(Entries) /\ IsInjective(q) /\ ToSet(q) \cap ToSet(ok) = {}
    BY <1>1, <1>2, <1>3, <1>4
  <2> HIDE DEF q
  <2>2. q \o ok \in Seq(Entries) /\ ToSet(q \o ok) = ToSet(q) \cup ToSet(ok)
        /\ IsInjective(q \o ok)
    BY <1>4, <2>1, ConcatFacts
  <2> QED BY <2>2 DEF q
<1>7. ToSet(active) \subseteq RowsOf(g) /\ ToSet(failed) \subseteq RowsOf(g)
      /\ ToSet(rest) \subseteq RowsOf(g)
      /\ ToSet(active) \cap ToSet(failed) = {} /\ ToSet(active) \cap ToSet(rest) = {}
      /\ ToSet(failed) \cap ToSet(rest) = {}
  BY <1>2, <1>3, <1>4, <1>5, <1>6 DEF RowsOf
<1> HIDE DEF active
<1>8. /\ batch \in Seq(Entries) /\ IsInjective(batch)
      /\ \A i, j \in DOMAIN batch : batch[i].uid = batch[j].uid => i = j
      /\ \A e \in ToSet(batch) : \E f \in ToSet(active) : e.uid = f.uid /\ e.req = f.req
      /\ \A e, f \in ToSet(batch) : e.uid = f.uid => e = f
  <2>1. \A e, f \in ToSet(active) : e.uid = f.uid => e = f
    BY <1>2, <1>7
  <2>2. batch = [i \in DOMAIN active |-> [active[i] EXCEPT !.n = @ + 1]]
    OBVIOUS
  <2> HIDE DEF batch
  <2>3. Counted(active, batch)
    BY <1>6, <2>1, <2>2, CountedRows
  <2> QED BY <2>3 DEF Counted
<1> HIDE DEF batch, fin
<1>9. /\ stay \in Seq(Entries) /\ IsInjective(stay)
      /\ ToSet(stay) = {e \in ToSet(batch) : fin(e) = "none"}
  <2> DEFINE X == {e \in ToSet(batch) : fin(e) = "none"}
  <2>1. ToSet(batch) \cap X = X
    OBVIOUS
  <2> HIDE DEF X
  <2> QED BY <1>8, <2>1, OnlyFacts
<1> HIDE DEF stay
<1>10. h \in Generators /\ h.pend = rest /\ h.batch = stay /\ h.next = g.next
  <2>1. h \in Generators
    BY <1>3, <1>9 DEF Generators
  <2> QED BY <1>1, <2>1 DEF IsGenerator
<1> HIDE DEF h
<1>11. \A e \in ToSet(batch) : \E f \in RowsOf(g) \ (ToSet(failed) \cup ToSet(rest)) :
         e.uid = f.uid /\ e.req = f.req
  BY <1>7, <1>8
<1>12. RowsOf(h) = ToSet(rest) \cup {e \in ToSet(batch) : fin(e) = "none"}
  BY <1>9, <1>10 DEF RowsOf
<1>13. \A e \in ToSet(batch), f \in ToSet(failed) \cup ToSet(rest) : e.uid # f.uid
  <2> SUFFICES ASSUME NEW e \in ToSet(batch), NEW f \in ToSet(failed) \cup ToSet(rest),
                      e.uid = f.uid
               PROVE  FALSE
    OBVIOUS
  <2>1. PICK d \in RowsOf(g) \ (ToSet(failed) \cup ToSet(rest)) : e.uid = d.uid
    BY <1>11
  <2>2. f \in RowsOf(g)
    BY <1>7
  <2>3. d = f
    BY <1>2, <2>1, <2>2
  <2> QED BY <2>1, <2>3
<1>14. Rowed(h, u)
  <2>1. IsInjective(h.pend) /\ IsInjective(h.batch)
    BY <1>3, <1>9, <1>10
  <2>2. ToSet(h.pend) \cap ToSet(h.batch) = {}
    BY <1>9, <1>10, <1>13
  <2>3. \A e, f \in RowsOf(h) : e.uid = f.uid => e = f
    <3>1. \A e, f \in ToSet(rest) : e.uid = f.uid => e = f
      BY <1>2, <1>7
    <3> QED BY <1>8, <1>12, <1>13, <3>1
  <2>4. \A e \in RowsOf(h) : e.uid < h.next /\ u[e.req] = e.uid
    <3>1. \A e \in ToSet(rest) : e.uid < h.next /\ u[e.req] = e.uid
      BY <1>2, <1>7, <1>10
    <3>2. \A e \in ToSet(batch) : e.uid < h.next /\ u[e.req] = e.uid
      BY <1>2, <1>10, <1>11
    <3> QED BY <1>12, <3>1, <3>2
  <2> QED BY <2>1, <2>2, <2>3, <2>4 DEF Rowed
<1>15. \A e : fin(e) \in Fins
  BY DEF fin, Fins
<1>16. /\ goods \in Seq(Responses) /\ DOMAIN goods = DOMAIN batch
       /\ \A i \in DOMAIN batch : goods[i].uid = batch[i].uid /\ goods[i].fin = fin(batch[i])
  <2>1. \A i \in DOMAIN batch : batch[i] \in Entries /\ batch[i].uid \in Nat
    BY <1>8, Members, EntryFields
  <2>2. \A i \in DOMAIN batch : Response(batch[i], fin(batch[i])) \in Responses
    BY <1>15, <2>1 DEF Response, Responses
  <2>3. goods \in [DOMAIN batch -> Responses]
    BY <2>2
  <2>4. DOMAIN batch = 1 .. Len(batch) /\ Len(batch) \in Nat
    BY <1>8, Members
  <2>5. goods \in Seq(Responses)
    BY <2>3, <2>4, IsASeq
  <2> QED BY <2>5 DEF Response
<1>17. /\ bads \in Seq(Responses) /\ DOMAIN bads = DOMAIN failed
       /\ \A i \in DOMAIN failed : bads[i].uid = failed[i].uid
  <2>1. \A i \in DOMAIN failed : failed[i] \in Entries /\ failed[i].uid \in Nat
    BY <1>5, Members, EntryFields
  <2>2. \A i \in DOMAIN failed :
          [uid |-> failed[i].uid, fin |-> "stop", bad |-> TRUE] \in Responses
    BY <2>1 DEF Responses, Fins
  <2>3. bads \in [DOMAIN failed -> Responses]
    BY <2>2
  <2>4. DOMAIN failed = 1 .. Len(failed) /\ Len(failed) \in Nat
    BY <1>5, Members
  <2>5. bads \in Seq(Responses)
    BY <2>3, <2>4, IsASeq
  <2> QED BY <2>5
<1>18. \A i, j \in DOMAIN bads : bads[i].uid = bads[j].uid => i = j
  <2> SUFFICES ASSUME NEW i \in DOMAIN bads, NEW j \in DOMAIN bads,
                      bads[i].uid = bads[j].uid
               PROVE  i = j
    OBVIOUS
  <2>1. failed[i] \in RowsOf(g) /\ failed[j] \in RowsOf(g)
    BY <1>5, <1>7, <1>17, Members
  <2>2. failed[i] = failed[j]
    BY <1>2, <1>17, <2>1
  <2> QED BY <1>5, <1>17, <2>2 DEF IsInjective
<1>19. \A i, j \in DOMAIN goods : goods[i].uid = goods[j].uid => i = j
  BY <1>8, <1>16
<1>20. \A i \in DOMAIN bads, j \in DOMAIN goods : bads[i].uid # goods[j].uid
  <2> SUFFICES ASSUME NEW i \in DOMAIN bads, NEW j \in DOMAIN goods
               PROVE  bads[i].uid # goods[j].uid
    OBVIOUS
  <2>1. failed[i] \in ToSet(failed) /\ batch[j] \in ToSet(batch)
    BY <1>5, <1>8, <1>16, <1>17, Members
  <2>2. bads[i].uid = failed[i].uid /\ goods[j].uid = batch[j].uid
    BY <1>16, <1>17
  <2> QED BY <1>13, <2>1, <2>2
<1> HIDE DEF bads, goods
<1>21. /\ outs \in Seq(Responses) /\ ToSet(outs) = ToSet(bads) \cup ToSet(goods)
       /\ \A i \in DOMAIN outs : \/ i \in DOMAIN bads /\ outs[i] = bads[i]
                                 \/ i - Len(bads) \in DOMAIN goods
                                    /\ outs[i] = goods[i - Len(bads)]
  <2>1. outs \in Seq(Responses) /\ ToSet(outs) = ToSet(bads) \cup ToSet(goods)
    BY <1>16, <1>17, ConcatFacts
  <2>2. /\ Len(outs) = Len(bads) + Len(goods)
        /\ \A i \in 1 .. Len(bads) + Len(goods) : outs[i] =
             IF i <= Len(bads) THEN bads[i] ELSE goods[i - Len(bads)]
    BY <1>16, <1>17, ConcatProperties
  <2>3. /\ DOMAIN outs = 1 .. Len(outs) /\ DOMAIN bads = 1 .. Len(bads)
        /\ DOMAIN goods = 1 .. Len(goods) /\ Len(bads) \in Nat /\ Len(goods) \in Nat
    BY <1>16, <1>17, <2>1, Members
  <2> HIDE DEF outs
  <2> QED BY <2>1, <2>2, <2>3
<1>22. Len(bads) \in Nat /\ DOMAIN outs = 1 .. Len(outs) /\ Len(outs) \in Nat
  BY <1>17, <1>21, Members
<1> HIDE DEF outs
<1>23. \A i, j \in DOMAIN outs : outs[i].uid = outs[j].uid => i = j
  BY <1>18, <1>19, <1>20, <1>21, <1>22
<1>24. \A o \in ToSet(outs) : o.fin # "none" => \A e \in RowsOf(h) : e.uid # o.uid
  <2> SUFFICES ASSUME NEW o \in ToSet(outs), o.fin # "none", NEW e \in RowsOf(h)
               PROVE  e.uid # o.uid
    OBVIOUS
  <2>1. CASE o \in ToSet(bads)
    <3>1. PICK i \in DOMAIN bads : o = bads[i]
      BY <2>1 DEF ToSet
    <3>2. o.uid = failed[i].uid /\ failed[i] \in ToSet(failed)
      BY <1>5, <1>17, <3>1, Members
    <3>3. e \in ToSet(batch) \/ e \in ToSet(rest)
      BY <1>12
    <3>4. e \in ToSet(rest) => e.uid # o.uid
      BY <1>2, <1>7, <3>2
    <3> QED BY <1>13, <3>2, <3>3, <3>4
  <2>2. CASE o \in ToSet(goods)
    <3>1. PICK i \in DOMAIN goods : o = goods[i]
      BY <2>2 DEF ToSet
    <3>2. /\ o.uid = batch[i].uid /\ o.fin = fin(batch[i])
          /\ batch[i] \in ToSet(batch)
      BY <1>8, <1>16, <3>1, Members
    <3>3. batch[i] \notin RowsOf(h)
      BY <1>12, <1>13, <3>2
    <3>4. \/ e \in ToSet(batch)
          \/ e \in ToSet(rest)
      BY <1>12
    <3> QED BY <1>8, <1>13, <3>2, <3>3, <3>4
  <2> QED BY <1>21, <2>1, <2>2
<1> QED
  BY <1>0, <1>10, <1>14, <1>21, <1>23, <1>24 DEF GeneratedWell

-----------------------------------------------------------------------------
\* Requests and queues.

\* What becomes of a request's record.
LEMMA RequestFields ==
  ASSUME NEW q \in Reqs, NEW r \in Requests
  PROVE  /\ q.made \in Nat /\ q.retries \in Nat
         /\ q.added \subseteq UNION {StopIds[x] : x \in Requests}
         /\ StopIds[r] \subseteq UNION {StopIds[x] : x \in Requests}
         /\ [q EXCEPT !.status = "running", !.added = StopIds[r]] \in Reqs
         /\ [q EXCEPT !.status = "waiting", !.made = 0, !.retries = @ + 1] \in Reqs
         /\ [q EXCEPT !.made = @ + 1] \in Reqs
         /\ NewReq \in Reqs /\ [NewReq EXCEPT !.status = "waiting"] \in Reqs
         /\ [NewReq EXCEPT !.status = "waiting"].status = "waiting"
<1> DEFINE T == UNION {StopIds[x] : x \in Requests}
<1>1. StopIds[r] \in SUBSET T
  OBVIOUS
<1> HIDE DEF T
<1>2. Reqs = [status : {"new", "waiting", "running"}, made : Nat, retries : Nat,
              added : SUBSET T]
  BY DEF Reqs, T
<1>3. q.made \in Nat /\ q.retries \in Nat /\ q.added \subseteq T
  BY <1>2
<1>4. [q EXCEPT !.status = "running", !.added = StopIds[r]] \in Reqs
  <2>1. PICK a \in SUBSET T : a = StopIds[r]
    BY <1>1
  <2>2. [q EXCEPT !.status = "running", !.added = a] \in Reqs
    BY <1>2
  <2> QED BY <2>1, <2>2
<1>5. [q EXCEPT !.made = q.made + 1] \in Reqs
  BY <1>2
<1>6. [q EXCEPT !.status = "waiting", !.made = 0, !.retries = q.retries + 1] \in Reqs
  <2>1. PICK n \in Nat : n = q.retries + 1
    BY <1>3
  <2>2. PICK p \in Reqs : p = [q EXCEPT !.status = "waiting", !.made = 0]
    BY <1>2
  <2>3. [p EXCEPT !.retries = n] \in Reqs
    BY <1>2
  <2>4. [q EXCEPT !.status = "waiting", !.made = 0, !.retries = q.retries + 1]
          = [p EXCEPT !.retries = n]
    BY <2>1, <2>2
  <2> QED BY <2>3, <2>4
<1>7. NewReq \in Reqs
  BY <1>2 DEF NewReq
<1>8. /\ [NewReq EXCEPT !.status = "waiting"] \in Reqs
      /\ [NewReq EXCEPT !.status = "waiting"].status = "waiting"
  BY <1>2 DEF NewReq
<1> QED
  BY <1>1, <1>3, <1>4, <1>5, <1>6, <1>7, <1>8 DEF T

\* The fields of an output.
LEMMA ItemFields ==
  ASSUME NEW o \in Items
  PROVE  /\ o.req \in Requests /\ o.fin \in Fins
         /\ o.tok \in (Nat \X Nat) \cup {None}
         /\ o.fin = "none" => o.tok # None
         /\ o # None
BY MllmAssumption DEF Items

\* What an error tells is an item.
LEMMA ErrorItem ==
  ASSUME NEW r \in Requests
  PROVE  /\ Out(r, None, "error") \in Items
         /\ Out(r, None, "error").req = r /\ Out(r, None, "error").tok = None
         /\ Out(r, None, "error").fin = "error"
BY DEF Out, Items, Fins

\* A queue that gets an item.
LEMMA QueueTypes ==
  ASSUME NEW q \in Queues \cup {None}, NEW x \in Items \cup {None}
  PROVE  /\ Offer(q, x) \in Queues \cup {None} /\ Deliver(q, x) \in Queues \cup {None}
         /\ Offer(q, x) = None <=> q = None
         /\ Deliver(q, x) = None <=> q = None
<1> DEFINE T == Items \cup {None}
<1>0. QueueCap \in Nat /\ QueueCap > 1
  BY MllmAssumption
<1>1. None \notin Queues
  BY MllmAssumption DEF Queues
<1>2. CASE q = None
  BY <1>2 DEF Offer, Deliver
<1>3. CASE q # None
  <2>1. q \in Seq(T) /\ Len(q) \in Nat /\ Len(q) <= QueueCap /\ x \in T
    BY <1>3, Members DEF Queues
  <2> DEFINE p == IF Len(q) >= QueueCap THEN Tail(q) ELSE q
  <2>2. Append(q, x) \in Seq(T) /\ Len(Append(q, x)) = Len(q) + 1
    BY <2>1, AppendProperties
  <2>3. p \in Seq(T) /\ Len(p) \in Nat /\ Len(p) < QueueCap
    <3>1. CASE Len(q) >= QueueCap
      <4>1. q # << >>
        BY <1>0, <2>1, <3>1, EmptySeq
      <4>2. Tail(q) \in Seq(T) /\ Len(Tail(q)) = Len(q) - 1
        BY <2>1, <4>1, HeadTailProperties
      <4> QED BY <1>0, <2>1, <3>1, <4>2
    <3>2. CASE ~ (Len(q) >= QueueCap)
      BY <1>0, <2>1, <3>2
    <3> QED BY <3>1, <3>2
  <2>4. Append(p, x) \in Seq(T) /\ Len(Append(p, x)) = Len(p) + 1
    <3> HIDE DEF p, T
    <3> QED BY <2>1, <2>3, AppendProperties
  <2>5. Deliver(q, x) = Append(p, x)
    BY <1>3 DEF Deliver
  <2> HIDE DEF p
  <2>6. Deliver(q, x) \in Queues
    BY <1>0, <2>3, <2>4, <2>5 DEF Queues
  <2>7. Offer(q, x) \in Queues
    <3>1. CASE Len(q) >= QueueCap
      BY <1>3, <3>1 DEF Offer
    <3>2. CASE ~ (Len(q) >= QueueCap)
      <4>1. Offer(q, x) = Append(q, x)
        BY <1>3, <3>2 DEF Offer
      <4>2. Len(q) + 1 <= QueueCap
        BY <1>0, <2>1, <3>2
      <4> QED BY <2>2, <4>1, <4>2 DEF Queues
    <3> QED BY <3>1, <3>2
  <2> QED BY <1>1, <1>3, <2>6, <2>7
<1> QED
  BY <1>2, <1>3

\* A queue that gets an output, or is told of a failure.
LEMMA TellingTypes ==
  ASSUME NEW q \in Queues \cup {None}, NEW o \in Items, NEW r \in Requests
  PROVE  /\ Dispatched(q, o) \in Queues \cup {None}
         /\ Dispatched(q, o) = None <=> q = None
         /\ Failed(q, r) \in Queues \cup {None}
         /\ Failed(q, r) = None <=> q = None
<1>1. /\ Offer(q, o) \in Queues \cup {None} /\ Deliver(q, o) \in Queues \cup {None}
      /\ Offer(q, o) = None <=> q = None
      /\ Deliver(q, o) = None <=> q = None
  BY QueueTypes
<1> DEFINE d == Deliver(q, o)
<1> HIDE DEF d
<1>2. d \in Queues \cup {None}
  BY <1>1 DEF d
<1>3. Deliver(d, None) \in Queues \cup {None} /\ (Deliver(d, None) = None <=> d = None)
  BY <1>2, QueueTypes
<1>4. PICK e \in Items : e = Out(r, None, "error")
  BY ErrorItem
<1>5. Offer(q, e) \in Queues \cup {None} /\ (Offer(q, e) = None <=> q = None)
  BY QueueTypes
<1> DEFINE f == Offer(q, e)
<1> HIDE DEF f
<1>6. f \in Queues \cup {None}
  BY <1>5 DEF f
<1>7. Deliver(f, None) \in Queues \cup {None} /\ (Deliver(f, None) = None <=> f = None)
  BY <1>6, QueueTypes
<1>8. Failed(q, r) = Deliver(f, None)
  BY <1>4 DEF Failed, f
<1> QED
  BY <1>1, <1>3, <1>5, <1>7, <1>8 DEF Dispatched, d, f

\* A queue in which an item has been read.
LEMMA ReadTypes ==
  ASSUME NEW q \in Queues \cup {None}, q # None, q # << >>
  PROVE  /\ q \in Seq(Items \cup {None})
         /\ Head(q) \in Items \cup {None} /\ Tail(q) \in Queues /\ Tail(q) # None
<1>1. q \in Seq(Items \cup {None}) /\ Len(q) \in Nat /\ Len(q) <= QueueCap
  BY Members DEF Queues
<1>2. /\ Head(q) \in Items \cup {None} /\ Tail(q) \in Seq(Items \cup {None})
      /\ Len(Tail(q)) = Len(q) - 1
  BY <1>1, HeadTailProperties
<1>3. Tail(q) \in Queues
  BY <1>1, <1>2, MllmAssumption DEF Queues
<1> QED
  BY <1>1, <1>2, <1>3, MllmAssumption

\* A new queue.
LEMMA NewQueue == << >> \in Queues /\ << >> # None
<1>1. << >> \in Seq(Items \cup {None}) /\ Len(<< >>) = 0
  OBVIOUS
<1>2. 0 <= QueueCap
  BY MllmAssumption
<1> QED
  BY <1>1, <1>2, MllmAssumption DEF Queues

-----------------------------------------------------------------------------
\* Parts of the invariant.

\* A request is queued or running, once.
LEMMA TwoLists ==
  ASSUME MllmIInv
  PROVE  /\ waiting \in Seq(Requests) /\ running \in Seq(Requests)
         /\ ToSet(waiting) \subseteq Requests /\ ToSet(running) \subseteq Requests
         /\ IsInjective(waiting) /\ IsInjective(running)
         /\ ToSet(waiting) \cap ToSet(running) = {}
BY Members DEF MllmIInv, MllmTyped, Placed

\* What the uids of requests without rows are does not matter.
LEMMA RowedOther ==
  ASSUME NEW g, NEW u, NEW v, Rowed(g, u), \A e \in RowsOf(g) : v[e.req] = u[e.req]
  PROVE  Rowed(g, v)
BY DEF Rowed

\* The requests of rows have a number as their uid.
LEMMA RowsHaveUids ==
  ASSUME NEW g \in Generators, NEW u, Rowed(g, u)
  PROVE  \A e \in RowsOf(g) : e.req \in Requests /\ u[e.req] = e.uid
                              /\ e.uid \in Nat /\ u[e.req] # None /\ e.uid < g.next
<1>1. RowsOf(g) \subseteq Entries
  BY GeneratorFields, Members DEF GeneratorTyped, RowsOf
<1>2. \A e \in RowsOf(g) : e.req \in Requests /\ e.uid \in Nat
  BY <1>1, EntryFields
<1>3. \A e \in RowsOf(g) : u[e.req] = e.uid /\ e.uid < g.next
  BY DEF Rowed
<1> QED
  BY <1>2, <1>3, MllmAssumption

\* What abort_request leaves.
Forgotten(r, k, left) ==
  /\ known' = k \ {r}
  /\ waiting' \in Seq(Requests) /\ running' \in Seq(Requests)
  /\ IsInjective(waiting') /\ IsInjective(running')
  /\ ToSet(waiting') = ToSet(waiting) \ {r}
  /\ ToSet(running') = ToSet(running) \ {r}
  /\ uid' \in [Requests -> Nat \cup {None}]
  /\ uid'[r] = None /\ \A q \in Requests : q # r => uid'[q] = uid[q]
  /\ req' \in [Requests -> Reqs] /\ req'[r] = NewReq
  /\ \A q \in Requests : q # r => req'[q] = req[q]
  /\ queue' \in [Requests -> Queues \cup {None}]
  /\ queue'[r] = IF left THEN None ELSE Deliver(queue[r], None)
  /\ \A q \in Requests : q # r => queue'[q] = queue[q]

\* An abort takes the request out of every table.
LEMMA ForgetFacts ==
  ASSUME MllmIInv, NEW r \in Requests, NEW k \in SUBSET Requests, NEW left,
         Forget(r, k, left)
  PROVE  Forgotten(r, k, left)
<1>1. /\ waiting \in Seq(Requests) /\ running \in Seq(Requests)
      /\ IsInjective(waiting) /\ IsInjective(running)
  BY TwoLists
<1>2. uid \in [Requests -> Nat \cup {None}] /\ req \in [Requests -> Reqs]
      /\ queue \in [Requests -> Queues \cup {None}]
  BY DEF MllmIInv, MllmTyped
<1>3. /\ Removed(waiting, r) \in Seq(Requests)
      /\ ToSet(Removed(waiting, r)) = ToSet(waiting) \ {r}
      /\ IsInjective(Removed(waiting, r))
  <2>1. PICK s \in Seq(Requests) : s = waiting
    BY <1>1
  <2> QED BY <1>1, <2>1, WithoutFacts DEF Removed
<1>4. /\ Removed(running, r) \in Seq(Requests)
      /\ ToSet(Removed(running, r)) = ToSet(running) \ {r}
      /\ IsInjective(Removed(running, r))
  <2>1. PICK s \in Seq(Requests) : s = running
    BY <1>1
  <2> QED BY <1>1, <2>1, WithoutFacts DEF Removed
<1>5. req[r].status # "waiting" => r \notin ToSet(waiting)
  BY DEF MllmIInv, Placed
<1>6. /\ waiting' \in Seq(Requests) /\ IsInjective(waiting')
      /\ ToSet(waiting') = ToSet(waiting) \ {r}
  BY <1>1, <1>3, <1>5 DEF Forget
<1>7. /\ running' \in Seq(Requests) /\ IsInjective(running')
      /\ ToSet(running') = ToSet(running) \ {r}
  BY <1>4 DEF Forget
<1>8. (IF left THEN None ELSE Deliver(queue[r], None)) \in Queues \cup {None}
  <2>1. PICK q \in Queues \cup {None} : q = queue[r]
    BY <1>2
  <2> QED BY <2>1, QueueTypes
<1>9. NewReq \in Reqs
  BY DEF NewReq, Reqs
<1> QED
  BY <1>2, <1>6, <1>7, <1>8, <1>9 DEF Forget, Forgotten

-----------------------------------------------------------------------------
\* The initial states.
LEMMA MllmInitSound == Init => MllmIInv
<1> SUFFICES ASSUME Init PROVE MllmIInv
  OBVIOUS
<1> USE DEF Init
<1>1. NewReq \in Reqs
  BY DEF NewReq, Reqs
<1>2. << >> \in Seq(Requests) /\ ToSet(<< >>) = {} /\ IsInjective(<< >>)
  BY DEF ToSet, IsInjective
<1>3. thread = [at |-> thread.at, outs |-> thread.outs] /\ thread.at = "idle"
  BY DEF Idle
<1>4. MllmTyped
  BY <1>1, <1>2, <1>3 DEF MllmTyped, NoUids, Phases
<1>5. Placed
  BY <1>2 DEF Placed, Here, NoUids, Reading
<1>6. Answering
  BY <1>3 DEF Answering
<1> QED
  BY <1>4, <1>5, <1>6 DEF MllmIInv

\* A request is added.
LEMMA AddSound ==
  ASSUME MllmIInv, NEW r \in Requests, Add(r)
  PROVE  MllmIInv'
<1> USE DEF Add
<1>1. /\ waiting \in Seq(Requests) /\ running \in Seq(Requests)
      /\ IsInjective(waiting) /\ IsInjective(running)
      /\ ToSet(waiting) \cap ToSet(running) = {}
  BY TwoLists
<1>2. r \notin ToSet(waiting) /\ r \notin ToSet(running)
  BY DEF MllmIInv, Placed, Here
<1>3. /\ waiting' \in Seq(Requests) /\ IsInjective(waiting')
      /\ ToSet(waiting') = ToSet(waiting) \cup {r}
  <2>1. PICK s \in Seq(Requests) : s = waiting
    BY <1>1
  <2>2. /\ Append(s, r) \in Seq(Requests) /\ ToSet(Append(s, r)) = ToSet(s) \cup {r}
        /\ IsInjective(s) /\ r \notin ToSet(s) => IsInjective(Append(s, r))
    BY AppendFacts
  <2> QED BY <1>1, <1>2, <2>1, <2>2
<1>4. PICK n \in Reqs : n = [NewReq EXCEPT !.status = "waiting"] /\ n.status = "waiting"
  <2>1. PICK q \in Reqs : TRUE
    BY DEF MllmIInv, MllmTyped
  <2> QED BY <2>1, RequestFields
<1>5. req' = [req EXCEPT ![r] = n]
  BY <1>4
<1>6. MllmTyped'
  <2>1. /\ queue' \in [Requests -> Queues \cup {None}]
        /\ client' \in [Requests -> {"none", "stream", "generate", "gone", "ghost"}]
        /\ req' \in [Requests -> Reqs]
    <3>1. PICK e \in Queues : e = << >>
      BY NewQueue
    <3>2. queue' = [queue EXCEPT ![r] = e] /\ client' = [client EXCEPT ![r] = Kind[r]]
      BY <3>1
    <3>3. Kind[r] \in {"stream", "generate"}
      BY MllmAssumption
    <3>4. client' \in [Requests -> {"none", "stream", "generate", "gone", "ghost"}]
      BY <3>2, <3>3 DEF MllmIInv, MllmTyped
    <3>5. queue' \in [Requests -> Queues \cup {None}]
      BY <3>2 DEF MllmIInv, MllmTyped
    <3>6. req' \in [Requests -> Reqs]
      BY <1>4, <1>5 DEF MllmIInv, MllmTyped
    <3> QED BY <3>4, <3>5, <3>6
  <2>2. known' \subseteq Requests
    BY DEF MllmIInv, MllmTyped
  <2> QED BY <1>3, <2>1, <2>2 DEF MllmIInv, MllmTyped
<1>7. Placed'
  <2>1. \A q \in ToSet(waiting') : req'[q].status = "waiting"
    <3>1. req \in [Requests -> Reqs] /\ \A q \in ToSet(waiting) : req[q].status = "waiting"
      BY DEF MllmIInv, MllmTyped, Placed
    <3> QED BY <1>1, <1>3, <1>4, <1>5, <3>1, TwoLists
  <2>2. \A q \in Requests : client'[q] = "none" => q # r /\ client[q] = "none"
    BY MllmAssumption DEF MllmIInv, MllmTyped
  <2>3. \A q \in Requests : q # r => (Reading(q)' <=> Reading(q)) /\ queue'[q] = queue[q]
    BY DEF Reading, MllmIInv, MllmTyped
  <2>4. queue'[r] # None
    BY NewQueue DEF MllmIInv, MllmTyped
  <2>5. \A q \in Requests : Reading(q)' => queue'[q] # None
    BY <2>3, <2>4 DEF MllmIInv, Placed
  <2>6. \A q \in Requests : client'[q] = "none" =>
          q \notin ToSet(waiting') \cup ToSet(running') /\ queue'[q] = None /\ last'[q] = None
    BY <1>3, <2>2, <2>3 DEF MllmIInv, Placed, Here
  <2> QED BY <1>1, <1>2, <1>3, <2>1, <2>5, <2>6 DEF MllmIInv, Placed, Here
<1>8. Answering' /\ (gen' # None => Rowed(gen', uid'))
  BY DEF MllmIInv, Answering
<1> QED
  BY <1>6, <1>7, <1>8 DEF MllmIInv

\* Abort keeps the tables together: in the step that goes on with it, who waits
\* for a request and what it has received may change as well, but nobody
\* becomes new.
OthersKept(r, left) ==
  /\ UNCHANGED <<gen, thread>>
  /\ untold' \subseteq Requests /\ alive' \in BOOLEAN /\ faults' \in Nat
  /\ client' \in [Requests -> {"none", "stream", "generate", "gone", "ghost"}]
  /\ last' \in [Requests -> Items \cup {None}]
  /\ \A q \in Requests :
       /\ client'[q] = "none" => client[q] = "none" /\ q # r /\ last'[q] = None
       /\ client'[q] \in {"stream", "generate"} => client[q] = client'[q]
  /\ left => client'[r] \notin {"stream", "generate"}

\* An abort keeps the invariant, whether it has to wait for the lock or not.
LEMMA AbortSound ==
  ASSUME MllmIInv, NEW r \in Requests, NEW k \in SUBSET Requests, NEW left \in BOOLEAN,
         LoopFree, Abort(r, k, left), OthersKept(r, left)
  PROVE  MllmIInv'
<1> USE DEF OthersKept
<1>0. gen # None => gen \in Generators /\ Rowed(gen, uid)
  BY DEF MllmIInv, MllmTyped
<1>1. CASE uid[r] # None /\ gen # None
  <2>1. /\ aborting' = r /\ known' = k \ {r} /\ UNCHANGED <<running, uid, req>>
        /\ waiting' = IF req[r].status = "waiting" THEN Removed(waiting, r) ELSE waiting
        /\ queue' = [queue EXCEPT ![r] = IF left THEN None ELSE @]
    BY <1>1 DEF Abort
  <2>2. waiting' \in Seq(Requests) /\ IsInjective(waiting')
        /\ ToSet(waiting') \subseteq ToSet(waiting)
    <3>1. PICK s \in Seq(Requests) : s = waiting /\ IsInjective(s)
      BY TwoLists
    <3>2. /\ Removed(s, r) \in Seq(Requests) /\ IsInjective(Removed(s, r))
          /\ ToSet(Removed(s, r)) = ToSet(s) \ {r}
      BY <3>1, WithoutFacts DEF Removed
    <3> QED BY <2>1, <3>1, <3>2
  <2>3. MllmTyped'
    BY <2>1, <2>2 DEF MllmIInv, MllmTyped
  <2>4. Placed'
    BY <2>1, <2>2 DEF MllmIInv, MllmTyped, Placed, Here, Reading
  <2>5. Answering' /\ (gen' # None => Rowed(gen', uid'))
    BY <2>1 DEF MllmIInv, Answering
  <2> QED BY <2>3, <2>4, <2>5 DEF MllmIInv
<1>2. CASE ~ (uid[r] # None /\ gen # None)
  <2>1. Forget(r, k, left) /\ aborting' = aborting
    BY <1>2 DEF Abort
  <2>2. /\ known' = k \ {r}
        /\ waiting' \in Seq(Requests) /\ running' \in Seq(Requests)
        /\ IsInjective(waiting') /\ IsInjective(running')
        /\ ToSet(waiting') = ToSet(waiting) \ {r}
        /\ ToSet(running') = ToSet(running) \ {r}
        /\ uid' \in [Requests -> Nat \cup {None}]
        /\ uid'[r] = None /\ \A q \in Requests : q # r => uid'[q] = uid[q]
        /\ req' \in [Requests -> Reqs]
        /\ \A q \in Requests : q # r => req'[q] = req[q]
        /\ queue' \in [Requests -> Queues \cup {None}]
        /\ queue'[r] = IF left THEN None ELSE Deliver(queue[r], None)
        /\ \A q \in Requests : q # r => queue'[q] = queue[q]
    <3>1. Forgotten(r, k, left)
      BY <2>1, ForgetFacts
    <3> QED BY <3>1 DEF Forgotten
  <2>3. MllmTyped'
    BY <2>1, <2>2 DEF MllmIInv, MllmTyped
  <2>4. Placed'
    <3>1. \A q \in Requests : Reading(q)' => queue'[q] # None
      <4> SUFFICES ASSUME NEW q \in Requests, Reading(q)' PROVE queue'[q] # None
        OBVIOUS
      <4>1. Reading(q) /\ queue[q] # None
        BY DEF Reading, MllmIInv, Placed
      <4>2. CASE q # r
        BY <2>2, <4>1, <4>2
      <4>3. CASE q = r
        <5>1. ~ left
          BY <4>3 DEF Reading
        <5>2. PICK p \in Queues \cup {None} : p = queue[r]
          BY DEF MllmIInv, MllmTyped
        <5> QED BY <2>2, <4>1, <4>3, <5>1, <5>2, QueueTypes
      <4> QED BY <4>2, <4>3
    <3>2. /\ IsInjective(waiting') /\ IsInjective(running')
          /\ ToSet(waiting') \cap ToSet(running') = {}
          /\ \A q \in Requests : uid'[q] # None => q \in ToSet(running')
          /\ \A q \in ToSet(waiting') : req'[q].status = "waiting"
      BY <2>2, TwoLists DEF MllmIInv, Placed
    <3>3. \A q \in Requests : client'[q] = "none" =>
            q \notin ToSet(waiting') \cup ToSet(running')
            /\ queue'[q] = None /\ last'[q] = None
      BY <2>2 DEF MllmIInv, Placed, Here
    <3> QED BY <3>1, <3>2, <3>3 DEF Placed, Here
  <2>5. Answering'
    BY DEF MllmIInv, Answering
  <2>6. gen' # None => Rowed(gen', uid')
    <3> SUFFICES ASSUME gen # None PROVE Rowed(gen, uid')
      OBVIOUS
    <3>1. uid[r] = None
      BY <1>2
    <3>2. \A e \in RowsOf(gen) : e.req \in Requests /\ uid[e.req] # None
      BY <1>0, RowsHaveUids
    <3>3. \A e \in RowsOf(gen) : uid'[e.req] = uid[e.req]
      BY <2>2, <3>1, <3>2
    <3> QED BY <1>0, <3>3, RowedOther
  <2> QED BY <2>3, <2>4, <2>5, <2>6 DEF MllmIInv
<1> QED
  BY <1>1, <1>2

\* A consumer that stops waiting.
LEMMA EndSound ==
  ASSUME MllmIInv, NEW r \in Requests, NEW normally \in BOOLEAN,
         LoopFree, Reading(r), End(r, normally),
         last' = [last EXCEPT ![r] = None],
         UNCHANGED <<stops, gen, thread, alive, untold, faults>>
  PROVE  MllmIInv'
<1> DEFINE k == IF normally /\ client[r] = "generate" THEN known \ {r} ELSE known
           c == IF r \notin ToSet(running) /\ r \in ToSet(waiting) THEN "ghost" ELSE "gone"
<1>1. client' = [client EXCEPT ![r] = c]
  BY DEF End
<1>2. OthersKept(r, TRUE)
  BY <1>1 DEF MllmIInv, MllmTyped, Placed, OthersKept
<1>3. k \in SUBSET Requests
  BY DEF MllmIInv, MllmTyped
<1>4. CASE r \in ToSet(running) /\ r \in known
  <2>1. Abort(r, k, TRUE)
    BY <1>4 DEF End
  <2> HIDE DEF k
  <2> QED BY <1>2, <1>3, <2>1, AbortSound
<1>5. CASE ~ (r \in ToSet(running) /\ r \in known)
  <2>1. /\ queue' = [queue EXCEPT ![r] = None] /\ known' = k
        /\ UNCHANGED <<waiting, running, uid, req, aborting>>
    BY <1>5 DEF End
  <2>2. MllmTyped'
    BY <1>2, <1>3, <2>1 DEF MllmIInv, MllmTyped, OthersKept
  <2>3. Placed'
    <3>1. client[r] # "none" /\ ~ Reading(r)'
      BY <1>1 DEF Reading, MllmIInv, MllmTyped
    <3>2. \A q \in Requests : q # r => queue'[q] = queue[q] /\ client'[q] = client[q]
      BY <1>1, <2>1 DEF MllmIInv, MllmTyped
    <3>3. \A q \in Requests : Reading(q)' => queue'[q] # None
      BY <3>1, <3>2 DEF Reading, MllmIInv, Placed
    <3>4. \A q \in Requests : client'[q] = "none" =>
            q # r /\ q \notin Here /\ queue'[q] = None /\ last'[q] = None
      BY <1>2, <3>2 DEF MllmIInv, Placed, OthersKept
    <3> QED BY <2>1, <3>3, <3>4 DEF MllmIInv, Placed, Here
  <2>4. Answering' /\ (gen' # None => Rowed(gen', uid'))
    BY <2>1 DEF MllmIInv, Answering
  <2> QED BY <2>2, <2>3, <2>4 DEF MllmIInv
<1> QED
  BY <1>4, <1>5

\* A consumer reads its queue.
LEMMA GetSound ==
  ASSUME MllmIInv, NEW r \in Requests, Get(r)
  PROVE  MllmIInv'
<1> DEFINE x == Head(queue[r])
           e == x = None \/ (client[r] = "generate" /\ x.fin # "none")
<1>0. /\ LoopFree /\ Reading(r) /\ queue[r] # << >>
      /\ last' = [last EXCEPT ![r] = IF e THEN None ELSE x]
      /\ IF e THEN End(r, TRUE)
         ELSE /\ queue' = [queue EXCEPT ![r] = Tail(@)]
              /\ UNCHANGED <<known, waiting, running, uid, req, client, aborting>>
      /\ UNCHANGED <<stops, gen, thread, alive, untold, faults>>
  BY DEF Get
<1>1. CASE e
  BY <1>0, <1>1, EndSound
<1>2. CASE ~ e
  <2>0. PICK q \in Queues \cup {None} : q = queue[r] /\ q # << >> /\ q # None
    BY <1>0 DEF MllmIInv, MllmTyped, Placed
  <2>1. Head(q) \in Items \cup {None} /\ Tail(q) \in Queues /\ Tail(q) # None
    BY <2>0, ReadTypes
  <2>2. /\ queue' = [queue EXCEPT ![r] = Tail(q)] /\ last' = [last EXCEPT ![r] = x]
        /\ x \in Items \cup {None}
        /\ UNCHANGED <<known, waiting, running, uid, req, client, aborting>>
    BY <1>0, <1>2, <2>0, <2>1
  <2> HIDE DEF x, e
  <2>3. MllmTyped'
    BY <1>0, <2>1, <2>2 DEF MllmIInv, MllmTyped
  <2>4. client[r] # "none"
    BY <1>0 DEF Reading
  <2>5. Placed'
    BY <1>0, <2>1, <2>2, <2>4 DEF MllmIInv, MllmTyped, Placed, Here, Reading
  <2>6. Answering' /\ (gen' # None => Rowed(gen', uid'))
    BY <1>0, <2>2 DEF MllmIInv, Answering
  <2> QED BY <2>3, <2>5, <2>6 DEF MllmIInv
<1> QED
  BY <1>1, <1>2

\* A client that leaves.
LEMMA LeaveSound ==
  ASSUME MllmIInv, NEW r \in Requests, Leave(r)
  PROVE  MllmIInv'
BY EndSound DEF Leave

\* A client that cancels.
LEMMA CancelSound ==
  ASSUME MllmIInv, NEW r \in Requests, Cancel(r)
  PROVE  MllmIInv'
<1>1. OthersKept(r, FALSE)
  BY DEF Cancel, MllmIInv, MllmTyped, Placed, OthersKept, Reading
<1>2. known \in SUBSET Requests
  BY DEF MllmIInv, MllmTyped
<1> QED
  BY <1>1, <1>2, AbortSound DEF Cancel

\* The end of an abort that had to wait.
LEMMA AbortResumesSound ==
  ASSUME MllmIInv, AbortResumes
  PROVE  MllmIInv'
<1> DEFINE r == aborting
<1>0. r \in Requests /\ aborting' = None /\ UNCHANGED <<stops, client, last, thread, alive, faults>>
  BY DEF AbortResumes, MllmIInv, MllmTyped
<1>1. CASE gen = None
  <2>1. /\ untold' = untold \cup {r}
        /\ UNCHANGED <<known, waiting, running, uid, req, gen, queue>>
    BY <1>1 DEF AbortResumes
  <2>2. MllmTyped'
    BY <1>0, <2>1 DEF MllmIInv, MllmTyped
  <2>3. Placed'
    BY <1>0, <2>1 DEF MllmIInv, MllmTyped, Placed, Here, Reading
  <2>4. Answering' /\ (gen' # None => Rowed(gen', uid'))
    BY <1>0, <2>1 DEF MllmIInv, Answering
  <2> QED BY <2>2, <2>3, <2>4 DEF MllmIInv
<1>2. CASE gen # None
  <2> DEFINE left == (queue[r] = None)
             g == Drop(gen, {uid[r]})
  <2>0. gen \in Generators /\ Rowed(gen, uid)
    BY <1>2 DEF MllmIInv, MllmTyped
  <2>1. gen' = g /\ Forget(r, known, left) /\ untold' = untold
    BY <1>2 DEF AbortResumes
  <2>2. known \in SUBSET Requests
    BY DEF MllmIInv, MllmTyped
  <2>3. /\ known' = known \ {r}
        /\ waiting' \in Seq(Requests) /\ running' \in Seq(Requests)
        /\ IsInjective(waiting') /\ IsInjective(running')
        /\ ToSet(waiting') = ToSet(waiting) \ {r}
        /\ ToSet(running') = ToSet(running) \ {r}
        /\ uid' \in [Requests -> Nat \cup {None}]
        /\ uid'[r] = None /\ \A q \in Requests : q # r => uid'[q] = uid[q]
        /\ req' \in [Requests -> Reqs]
        /\ \A q \in Requests : q # r => req'[q] = req[q]
        /\ queue' \in [Requests -> Queues \cup {None}]
        /\ queue'[r] = IF left THEN None ELSE Deliver(queue[r], None)
        /\ \A q \in Requests : q # r => queue'[q] = queue[q]
    <3> HIDE DEF r, left
    <3>1. Forgotten(r, known, left)
      BY <1>0, <2>1, <2>2, ForgetFacts
    <3> QED BY <3>1 DEF Forgotten
  <2>4. /\ g \in Generators /\ RowsOf(g) = {e \in RowsOf(gen) : e.uid # uid[r]}
        /\ Rowed(g, uid)
    BY <2>0, DropFacts
  <2> HIDE DEF g, r
  <2>5. MllmTyped'
    BY <1>0, <2>1, <2>2, <2>3, <2>4 DEF MllmIInv, MllmTyped
  <2>6. queue'[r] = None <=> queue[r] = None
    <3>1. PICK p \in Queues \cup {None} : p = queue[r]
      BY <1>0 DEF MllmIInv, MllmTyped
    <3> QED BY <2>3, <3>1, QueueTypes
  <2>7. Placed'
    <3>1. \A q \in Requests : queue'[q] = None <=> queue[q] = None
      BY <2>3, <2>6
    <3>2. /\ IsInjective(waiting') /\ IsInjective(running')
          /\ ToSet(waiting') \cap ToSet(running') = {}
          /\ \A q \in Requests : uid'[q] # None => q \in ToSet(running')
          /\ \A q \in ToSet(waiting') : req'[q].status = "waiting"
      BY <2>3, TwoLists DEF MllmIInv, Placed
    <3>3. ToSet(waiting') \subseteq ToSet(waiting) /\ ToSet(running') \subseteq ToSet(running)
      BY <2>3
    <3> HIDE DEF left
    <3> QED BY <1>0, <3>1, <3>2, <3>3 DEF MllmIInv, Placed, Here, Reading
  <2>8. Answering'
    BY <1>0, <1>2, <2>1, <2>4 DEF MllmIInv, Answering
  <2>9. Rowed(g, uid')
    <3>1. \A e \in RowsOf(gen) : e.req \in Requests /\ uid[e.req] = e.uid
      BY <2>0, RowsHaveUids
    <3>2. \A e \in RowsOf(g) : uid'[e.req] = uid[e.req]
      BY <2>3, <2>4, <3>1
    <3> QED BY <2>4, <3>2, RowedOther
  <2> QED BY <2>1, <2>5, <2>7, <2>8, <2>9 DEF MllmIInv
<1> QED
  BY <1>1, <1>2

\* deep_reset.
LEMMA ResetSound ==
  ASSUME MllmIInv, Reset
  PROVE  MllmIInv'
<1> USE DEF Reset
<1>1. << >> \in Seq(Requests) /\ ToSet(<< >>) = {} /\ IsInjective(<< >>)
  BY DEF ToSet, IsInjective
<1>2. NewReq \in Reqs
  BY DEF NewReq, Reqs
<1>3. /\ queue' \in [Requests -> Queues \cup {None}]
      /\ \A r \in Requests : queue'[r] = None <=> queue[r] = None
  <2>1. \A r \in Requests : /\ Offer(queue[r], None) \in Queues \cup {None}
                            /\ Offer(queue[r], None) = None <=> queue[r] = None
    <3> SUFFICES ASSUME NEW r \in Requests
                 PROVE  /\ Offer(queue[r], None) \in Queues \cup {None}
                        /\ Offer(queue[r], None) = None <=> queue[r] = None
      OBVIOUS
    <3>1. PICK p \in Queues \cup {None} : p = queue[r]
      BY DEF MllmIInv, MllmTyped
    <3> QED BY <3>1, QueueTypes
  <2> QED BY <2>1
<1>4. MllmTyped'
  <2>1. untold' \subseteq Requests
    BY DEF MllmIInv, MllmTyped
  <2>2. uid' \in [Requests -> Nat \cup {None}] /\ req' \in [Requests -> Reqs]
    BY <1>2 DEF NoUids
  <2> QED BY <1>1, <1>3, <2>1, <2>2 DEF MllmIInv, MllmTyped
<1>5. Placed'
  BY <1>1, <1>3 DEF MllmIInv, Placed, Here, Reading, NoUids
<1>6. Answering' /\ (gen' # None => Rowed(gen', uid'))
  BY DEF MllmIInv, Answering
<1> QED
  BY <1>4, <1>5, <1>6 DEF MllmIInv

\* stop.
LEMMA StopSound ==
  ASSUME MllmIInv, Stop
  PROVE  MllmIInv'
<1> USE DEF Stop, serving, ends
<1>1. MllmTyped'
  BY DEF MllmIInv, MllmTyped
<1>2. Placed'
  BY DEF MllmIInv, Placed, Here, Reading
<1>3. Answering' /\ (gen' # None => Rowed(gen', uid'))
  BY DEF MllmIInv, Answering
<1> QED
  BY <1>1, <1>2, <1>3 DEF MllmIInv

-----------------------------------------------------------------------------
\* The steps.

\* A phase without outputs.
LEMMA Phase ==
  ASSUME NEW p
  PROVE  At(p).at = p /\ At(p) = [at |-> At(p).at, outs |-> At(p).outs]
BY DEF At

\* A step that only goes on, or raises.
LEMMA PhaseSound ==
  ASSUME MllmIInv, NEW p \in Phases \ {"failed", "resp", "done"}, thread' = At(p),
         UNCHANGED <<serving, gen, ends, aborting, alive, untold>>, faults' \in Nat
  PROVE  MllmIInv'
<1> USE DEF serving, ends
<1>1. thread'.at = p /\ thread' = [at |-> thread'.at, outs |-> thread'.outs]
  BY Phase
<1>2. MllmTyped'
  BY <1>1 DEF MllmIInv, MllmTyped
<1>3. Placed'
  BY DEF MllmIInv, Placed, Here, Reading
<1>4. Answering' /\ (gen' # None => Rowed(gen', uid'))
  BY <1>1 DEF MllmIInv, Answering
<1> QED
  BY <1>2, <1>3, <1>4 DEF MllmIInv

\* Faults are counted.
LEMMA FaultType ==
  ASSUME MllmIInv, NEW kind, Fault(kind) \/ UNCHANGED faults
  PROVE  faults' \in Nat
<1>1. faults \in Nat
  BY DEF MllmIInv, MllmTyped
<1> QED
  BY <1>1 DEF Fault

\* The loop hands a step to the thread.
LEMMA StartStepSound == MllmIInv /\ StartStep => MllmIInv'
<1> SUFFICES ASSUME MllmIInv, StartStep PROVE MllmIInv'
  OBVIOUS
<1>1. faults' \in Nat
  BY FaultType DEF StartStep
<1> QED
  BY <1>1, PhaseSound DEF StartStep, Phases

\* The generator cannot be made.
LEMMA CreateFailsSound == MllmIInv /\ CreateFails => MllmIInv'
<1> SUFFICES ASSUME MllmIInv, CreateFails PROVE MllmIInv'
  OBVIOUS
<1>1. faults' \in Nat
  BY FaultType DEF CreateFails
<1> QED
  BY <1>1, PhaseSound DEF CreateFails, Phases

\* next() raises.
LEMMA NextRaisesSound == MllmIInv /\ NextRaises => MllmIInv'
<1> SUFFICES ASSUME MllmIInv, NextRaises PROVE MllmIInv'
  OBVIOUS
<1>1. faults' \in Nat
  BY FaultType DEF NextRaises
<1> QED
  BY <1>1, PhaseSound DEF NextRaises, Phases

\* The responses cannot be processed.
LEMMA ProcessRaisesSound == MllmIInv /\ ProcessRaises => MllmIInv'
<1> SUFFICES ASSUME MllmIInv, ProcessRaises PROVE MllmIInv'
  OBVIOUS
<1>1. faults' \in Nat
  BY FaultType DEF ProcessRaises
<1> QED
  BY <1>1, PhaseSound DEF ProcessRaises, Phases

\* The generator is dropped.
LEMMA DropGeneratorSound == MllmIInv /\ DropGenerator => MllmIInv'
<1> SUFFICES ASSUME MllmIInv, DropGenerator PROVE MllmIInv'
  OBVIOUS
<1> USE DEF DropGenerator, serving, ends
<1>1. thread'.at = "failed" /\ thread' = [at |-> thread'.at, outs |-> thread'.outs]
  BY Phase
<1>2. MllmTyped'
  BY <1>1 DEF MllmIInv, MllmTyped, Phases
<1>3. Placed'
  BY DEF MllmIInv, Placed, Here, Reading
<1>4. Answering' /\ (gen' # None => Rowed(gen', uid'))
  BY <1>1 DEF MllmIInv, Answering
<1> QED
  BY <1>2, <1>3, <1>4 DEF MllmIInv

\* next() answers.
LEMMA NextTokensSound == MllmIInv /\ NextTokens => MllmIInv'
<1> SUFFICES ASSUME MllmIInv, NextTokens PROVE MllmIInv'
  OBVIOUS
<1> USE DEF serving, ends
<1>1. PICK bad, ending :
        /\ IsFiniteSet(bad)
        /\ gen' = Generated(gen, bad, ending).gen
        /\ thread' = [at |-> "resp", outs |-> Generated(gen, bad, ending).outs]
        /\ faults' = faults + Cardinality(bad)
  <2>1. PICK bad \in {{}} \cup (IF "prefill" \in FaultKinds /\ faults < MaxFaults
                           THEN {{e.req} : e \in ToSet(gen.pend)} ELSE {}) :
          \E ending \in SUBSET {e.req : e \in ToSet(gen.pend \o gen.batch)} :
             /\ gen' = Generated(gen, bad, ending).gen
             /\ thread' = [at |-> "resp", outs |-> Generated(gen, bad, ending).outs]
             /\ faults' = faults + Cardinality(bad)
    BY DEF NextTokens
  <2>2. IsFiniteSet(bad)
    BY FS_EmptySet, FS_Singleton
  <2> QED BY <2>1, <2>2
<1> DEFINE res == Generated(gen, bad, ending)
<1>2. gen # None /\ UNCHANGED <<serving, ends, aborting, alive, untold>>
  BY DEF NextTokens
<1>3. gen \in Generators /\ Rowed(gen, uid)
  BY <1>2 DEF MllmIInv, MllmTyped
<1>4. GeneratedWell(gen, uid, res)
  <2>1. PICK g \in Generators : g = gen
    BY <1>3
  <2> QED BY <1>3, <2>1, GeneratedFacts
<1>5. /\ res.gen \in Generators /\ Rowed(res.gen, uid)
      /\ res.outs \in Seq(Responses)
      /\ \A i, j \in DOMAIN res.outs : res.outs[i].uid = res.outs[j].uid => i = j
      /\ \A o \in ToSet(res.outs) : o.fin # "none" =>
           \A e \in RowsOf(res.gen) : e.uid # o.uid
  BY <1>4 DEF GeneratedWell
<1>6. gen' = res.gen /\ thread' = [at |-> "resp", outs |-> res.outs]
  BY <1>1
<1> HIDE DEF res
<1>7. faults' \in Nat
  BY <1>1, FS_CardinalityType DEF MllmIInv, MllmTyped
<1>8. MllmTyped'
  BY <1>2, <1>5, <1>6, <1>7 DEF MllmIInv, MllmTyped, Phases
<1>9. Placed'
  BY <1>2 DEF MllmIInv, Placed, Here, Reading
<1>10. Answering'
  BY <1>5, <1>6 DEF Answering
<1> QED
  BY <1>2, <1>5, <1>6, <1>8, <1>9, <1>10 DEF MllmIInv

\* Requests are scheduled.
LEMMA ScheduleSound == MllmIInv /\ Schedule => MllmIInv'
<1> SUFFICES ASSUME MllmIInv, Schedule PROVE MllmIInv'
  OBVIOUS
<1> USE DEF serving, ends
<1> DEFINE g == IF gen = None THEN NewGenerator ELSE gen
           free == MaxNumSeqs - Len(running)
           most == IF free < Len(waiting) THEN free ELSE Len(waiting)
<1>1. PICK k \in 0 .. most :
        LET new == SubSeq(waiting, 1, k)
            ids == UNION {StopIds[r] : r \in ToSet(new)}
            g1 == Inserted(g, new)
        IN  /\ waiting' = SubSeq(waiting, k + 1, Len(waiting))
            /\ running' = running \o new
            /\ req' = [r \in Requests |->
                 IF r \notin ToSet(new) THEN req[r]
                 ELSE [req[r] EXCEPT !.status = "running", !.added = StopIds[r]]]
            /\ \/ /\ uid' = [r \in Requests |->
                       IF r \in ToSet(new)
                       THEN g.next + (CHOOSE i \in 1 .. k : new[i] = r) - 1
                       ELSE uid[r]]
                  /\ gen' = IF g.shared THEN g1 ELSE [g1 EXCEPT !.own = @ \cup ids]
                  /\ thread' = At(IF running' = << >> THEN "done" ELSE "gen")
                  /\ UNCHANGED faults
               \/ /\ Fault("insert")
                  /\ gen' = g
                  /\ thread' = At("raised")
                  /\ UNCHANGED uid
  BY DEF Schedule
<1> DEFINE new == SubSeq(waiting, 1, k)
           rest == SubSeq(waiting, k + 1, Len(waiting))
           ids == UNION {StopIds[r] : r \in ToSet(new)}
           g1 == Inserted(g, new)
           numbered == [r \in Requests |->
                         IF r \in ToSet(new)
                         THEN g.next + (CHOOSE i \in 1 .. k : new[i] = r) - 1
                         ELSE uid[r]]
<1>2. UNCHANGED <<known, ends, aborting, alive, untold>>
  BY DEF Schedule
<1>3. /\ waiting \in Seq(Requests) /\ running \in Seq(Requests)
      /\ IsInjective(waiting) /\ IsInjective(running)
      /\ ToSet(waiting) \cap ToSet(running) = {}
  BY TwoLists
<1>4. k \in 0 .. Len(waiting)
  <2>1. Len(waiting) \in Nat /\ Len(running) \in Nat /\ MaxNumSeqs \in Nat
    BY <1>3, Members, MllmAssumption
  <2> QED BY <2>1
<1>5. /\ new \in Seq(Requests) /\ rest \in Seq(Requests) /\ Len(new) = k
      /\ ToSet(waiting) = ToSet(new) \cup ToSet(rest)
      /\ IsInjective(new) /\ IsInjective(rest) /\ ToSet(new) \cap ToSet(rest) = {}
  <2>1. PICK s \in Seq(Requests) : s = waiting
    BY <1>3
  <2> QED BY <1>3, <1>4, <2>1, SplitFacts
<1>6. g \in Generators /\ Rowed(g, uid)
  BY NewGeneratorFacts DEF MllmIInv, MllmTyped
<1>7. waiting' = rest /\ running' = running \o new
  BY <1>1
<1>8. req' = [r \in Requests |->
                 IF r \notin ToSet(new) THEN req[r]
                 ELSE [req[r] EXCEPT !.status = "running", !.added = StopIds[r]]]
  BY <1>1
<1>9. \/ /\ uid' = numbered
         /\ gen' = IF g.shared THEN g1 ELSE [g1 EXCEPT !.own = @ \cup ids]
         /\ thread' = At(IF running' = << >> THEN "done" ELSE "gen")
         /\ UNCHANGED faults
      \/ /\ Fault("insert")
         /\ gen' = g
         /\ thread' = At("raised")
         /\ UNCHANGED uid
  BY <1>1
<1> HIDE DEF g, new, rest, most, free
<1>10. /\ running' \in Seq(Requests) /\ IsInjective(running')
       /\ ToSet(running') = ToSet(running) \cup ToSet(new)
  <2>1. PICK s \in Seq(Requests) : s = running
    BY <1>3
  <2>2. ToSet(running) \cap ToSet(new) = {}
    BY <1>3, <1>5
  <2> QED BY <1>3, <1>5, <1>7, <2>1, <2>2, ConcatFacts
<1>11. /\ req' \in [Requests -> Reqs]
       /\ \A r \in ToSet(waiting') : req'[r].status = "waiting"
  <2>1. req \in [Requests -> Reqs]
    BY DEF MllmIInv, MllmTyped
  <2>2. \A r \in Requests :
          [req[r] EXCEPT !.status = "running", !.added = StopIds[r]] \in Reqs
    BY <2>1, RequestFields
  <2>3. req' \in [Requests -> Reqs]
    BY <1>8, <2>1, <2>2
  <2>4. \A r \in ToSet(rest) : r \in Requests /\ r \notin ToSet(new) /\ req[r].status = "waiting"
    BY <1>5, Members DEF MllmIInv, Placed
  <2> QED BY <1>7, <1>8, <2>3, <2>4
<1>12. \A r \in Requests : client'[r] = "none" =>
         r \notin ToSet(waiting') \cup ToSet(running') /\ queue'[r] = None /\ last'[r] = None
  BY <1>2, <1>5, <1>7, <1>10 DEF MllmIInv, Placed, Here
<1>13. faults' \in Nat
  BY <1>9, FaultType
<1>14. /\ uid' \in [Requests -> Nat \cup {None}]
       /\ \A r \in Requests : uid'[r] # None => r \in ToSet(running')
       /\ gen' \in Generators /\ Rowed(gen', uid')
       /\ thread' = [at |-> thread'.at, outs |-> thread'.outs]
       /\ thread'.at \in {"done", "gen", "raised"}
       /\ thread'.at = "done" => thread'.outs \in Seq(Items)
  <2>0. /\ uid \in [Requests -> Nat \cup {None}]
        /\ \A r \in Requests : uid[r] # None => r \in ToSet(running)
    BY DEF MllmIInv, MllmTyped, Placed
  <2>1. CASE /\ uid' = numbered
             /\ gen' = IF g.shared THEN g1 ELSE [g1 EXCEPT !.own = @ \cup ids]
             /\ thread' = At(IF running' = << >> THEN "done" ELSE "gen")
    <3>1. g.next \in Nat /\ g.own \subseteq UNION {StopIds[r] : r \in Requests}
      BY <1>6, GeneratorFields DEF GeneratorTyped
    <3>2. DOMAIN new = 1 .. k /\ k \in Nat /\ \A i \in 1 .. k : new[i] \in ToSet(new)
      BY <1>5, Members
    <3>3. \A r \in ToSet(new) : (CHOOSE i \in 1 .. k : new[i] = r) \in 1 .. k
      BY <3>2, <1>5, Members
    <3>4. \A r \in ToSet(new) : g.next + (CHOOSE i \in 1 .. k : new[i] = r) - 1 \in Nat
      <4> SUFFICES ASSUME NEW r \in ToSet(new)
                   PROVE  g.next + (CHOOSE i \in 1 .. k : new[i] = r) - 1 \in Nat
        OBVIOUS
      <4>1. PICK j \in 1 .. k : j = CHOOSE i \in 1 .. k : new[i] = r
        BY <3>3
      <4>2. PICK n \in Nat : n = g.next
        BY <3>1
      <4>3. n + j - 1 \in Nat
        BY <3>2
      <4> QED BY <4>1, <4>2, <4>3
    <3>5. uid' \in [Requests -> Nat \cup {None}]
      BY <2>0, <2>1, <3>4
    <3>6. \A r \in Requests : uid'[r] # None => r \in ToSet(running')
      BY <1>10, <2>0, <2>1
    <3>7. \A i \in DOMAIN new : uid'[new[i]] = g.next + i - 1
      <4> SUFFICES ASSUME NEW i \in DOMAIN new PROVE uid'[new[i]] = g.next + i - 1
        OBVIOUS
      <4>1. new[i] \in ToSet(new) /\ new[i] \in Requests
        BY <1>5, Members
      <4>2. (CHOOSE j \in 1 .. k : new[j] = new[i]) = i
        <5>1. \A j \in 1 .. k : new[j] = new[i] => j = i
          BY <1>5, <3>2 DEF IsInjective
        <5> QED BY <3>2, <5>1
      <4> QED BY <2>1, <4>1, <4>2
    <3>8. \A r \in Requests \ ToSet(new) : uid'[r] = uid[r]
      BY <2>1
    <3>9. \A e \in RowsOf(g) : e.req \notin ToSet(new)
      <4>1. \A e \in RowsOf(g) : e.req \in Requests /\ uid[e.req] # None
        BY <1>6, RowsHaveUids
      <4> QED BY <1>3, <1>5, <2>0, <4>1
    <3>10. Rowed(g1, uid')
      <4>1. PICK u : u = uid
        OBVIOUS
      <4> QED BY <1>5, <1>6, <3>7, <3>8, <3>9, InsertedRowed
    <3>11. g1 \in Generators /\ g1.own = g.own
      BY <1>5, <1>6, InsertedFacts
    <3>12. ids \subseteq UNION {StopIds[r] : r \in Requests}
      BY <1>5, Members
    <3> DEFINE X == g1.own \cup ids
    <3>13. X \subseteq UNION {StopIds[r] : r \in Requests}
      BY <3>1, <3>11, <3>12
    <3>14. gen' = IF g.shared THEN g1 ELSE [g1 EXCEPT !.own = X]
      BY <2>1
    <3> HIDE DEF g1, X, ids, numbered
    <3>15. [g1 EXCEPT !.own = X] \in Generators /\ Rowed([g1 EXCEPT !.own = X], uid')
      BY <3>10, <3>11, <3>13, OwnFacts
    <3>16. gen' \in Generators /\ Rowed(gen', uid')
      BY <3>10, <3>11, <3>14, <3>15
    <3>17. /\ thread' = [at |-> thread'.at, outs |-> thread'.outs]
           /\ thread'.at \in {"done", "gen", "raised"}
           /\ thread'.at = "done" => thread'.outs \in Seq(Items)
      <4>1. << >> \in Seq(Items)
        OBVIOUS
      <4> QED BY <2>1, <4>1 DEF At
    <3> QED BY <3>5, <3>6, <3>16, <3>17
  <2>2. CASE gen' = g /\ thread' = At("raised") /\ UNCHANGED uid
    BY <1>6, <1>10, <2>0, <2>2, Phase
  <2> QED BY <1>9, <2>1, <2>2
<1> HIDE DEF numbered, g1, ids
<1>15. MllmTyped'
  <2>1. waiting' \in Seq(Requests)
    BY <1>5, <1>7
  <2>2. thread'.at # "resp" /\ thread'.at \in Phases
    BY <1>14 DEF Phases
  <2> QED BY <1>2, <1>10, <1>11, <1>13, <1>14, <2>1, <2>2 DEF MllmIInv, MllmTyped
<1>16. Placed'
  <2>1. ToSet(waiting') \cap ToSet(running') = {} /\ IsInjective(waiting')
    BY <1>3, <1>5, <1>7, <1>10
  <2>2. \A r \in Requests : Reading(r)' => queue'[r] # None
    BY <1>2 DEF MllmIInv, Placed, Reading
  <2> QED BY <1>10, <1>11, <1>12, <1>14, <2>1, <2>2 DEF Placed, Here
<1>17. Answering'
  BY <1>14 DEF Answering
<1> QED
  BY <1>14, <1>15, <1>16, <1>17 DEF MllmIInv

\* What becomes of the running requests when a step has failed.
Retrying == Only(running, {r \in Requests : req[r].retries < MaxRetries})
GivenUp == Without(running, ToSet(Retrying))

\* Every running request starts again or is given up.
LEMMA RecoverParts ==
  ASSUME MllmIInv
  PROVE  /\ Retrying \in Seq(Requests) /\ GivenUp \in Seq(Requests)
         /\ IsInjective(Retrying) /\ IsInjective(GivenUp)
         /\ ToSet(running) = ToSet(Retrying) \cup ToSet(GivenUp)
         /\ ToSet(Retrying) \cap ToSet(GivenUp) = {}
<1>1. PICK s \in Seq(Requests) : s = running /\ IsInjective(s)
  BY TwoLists
<1> DEFINE X == {r \in Requests : req[r].retries < MaxRetries}
<1>2. /\ Only(s, X) \in Seq(Requests) /\ ToSet(Only(s, X)) = ToSet(s) \cap X
      /\ IsInjective(Only(s, X))
  BY <1>1, OnlyFacts
<1>3. Retrying = Only(s, X)
  BY <1>1 DEF Retrying
<1> DEFINE Y == ToSet(Retrying)
<1>4. /\ Without(s, Y) \in Seq(Requests) /\ ToSet(Without(s, Y)) = ToSet(s) \ Y
      /\ IsInjective(Without(s, Y))
  BY <1>1, WithoutFacts
<1>5. GivenUp = Without(s, Y)
  BY <1>1 DEF GivenUp
<1> HIDE DEF X, Y
<1>6. Y = ToSet(s) \cap X
  BY <1>2, <1>3 DEF Y
<1>7. ToSet(GivenUp) = ToSet(s) \ Y
  BY <1>4, <1>5
<1> QED
  BY <1>1, <1>2, <1>3, <1>4, <1>5, <1>6, <1>7 DEF Y

\* The requests that run start again or are given up.
LEMMA RecoverSound == MllmIInv /\ Recover => MllmIInv'
<1> SUFFICES ASSUME MllmIInv, Recover PROVE MllmIInv'
  OBVIOUS
<1> USE DEF ends
<1> DEFINE again == Retrying
           over == GivenUp
           told == Only(over, known)
           outs == [i \in DOMAIN told |-> Out(told[i], None, "error")]
<1>1. /\ thread.at = "failed" /\ LoopFree
      /\ waiting' = Reverse(again) \o waiting
      /\ req' = [r \in Requests |->
              IF r \in ToSet(again)
              THEN Again(r)
              ELSE IF r \in ToSet(over) THEN NewReq ELSE req[r]]
      /\ known' = known \ ToSet(over)
      /\ thread' = [at |-> "done", outs |-> outs]
      /\ running' = << >> /\ uid' = NoUids
      /\ UNCHANGED <<stops, gen, ends, aborting, alive, untold, faults>>
  BY DEF Recover, Retrying, GivenUp
<1>2. /\ again \in Seq(Requests) /\ over \in Seq(Requests)
      /\ IsInjective(again) /\ IsInjective(over)
      /\ ToSet(running) = ToSet(again) \cup ToSet(over)
      /\ ToSet(again) \cap ToSet(over) = {}
  BY RecoverParts
<1>3. /\ waiting \in Seq(Requests) /\ running \in Seq(Requests)
      /\ IsInjective(waiting) /\ ToSet(waiting) \cap ToSet(running) = {}
  BY TwoLists
<1>4. told \in Seq(Requests)
  BY <1>2, OnlyFacts
<1> HIDE DEF again, over, told
<1>5. outs \in Seq(Items)
  <2>1. DOMAIN told = 1 .. Len(told) /\ Len(told) \in Nat
        /\ \A i \in DOMAIN told : told[i] \in Requests
    BY <1>4, Members
  <2>2. \A i \in DOMAIN told : Out(told[i], None, "error") \in Items
    BY <2>1, ErrorItem
  <2>3. outs \in [1 .. Len(told) -> Items]
    BY <2>1, <2>2
  <2> QED BY <2>1, <2>3, IsASeq
<1> HIDE DEF outs
<1>6. /\ waiting' \in Seq(Requests) /\ IsInjective(waiting')
      /\ ToSet(waiting') = ToSet(again) \cup ToSet(waiting)
  <2>1. PICK s \in Seq(Requests) : s = Reverse(again) /\ ToSet(s) = ToSet(again)
                                   /\ IsInjective(s)
    BY <1>2, ReverseFacts
  <2>2. PICK w \in Seq(Requests) : w = waiting
    BY <1>3
  <2>3. ToSet(s) \cap ToSet(w) = {} /\ IsInjective(w)
    BY <1>2, <1>3, <2>1, <2>2
  <2>4. s \o w \in Seq(Requests) /\ ToSet(s \o w) = ToSet(s) \cup ToSet(w)
        /\ IsInjective(s \o w)
    BY <2>1, <2>3, ConcatFacts
  <2> QED BY <1>1, <2>1, <2>2, <2>4
<1>7. /\ req' \in [Requests -> Reqs]
      /\ \A r \in ToSet(waiting') : req'[r].status = "waiting"
  <2>1. req \in [Requests -> Reqs] /\ \A r \in ToSet(waiting) : req[r].status = "waiting"
    BY DEF MllmIInv, MllmTyped, Placed
  <2>2. \A r \in Requests : Again(r) \in Reqs /\ Again(r).status = "waiting"
    <3> SUFFICES ASSUME NEW r \in Requests PROVE Again(r) \in Reqs /\ Again(r).status = "waiting"
      OBVIOUS
    <3>1. PICK q \in Reqs : q = req[r]
      BY <2>1
    <3>2. [q EXCEPT !.status = "waiting", !.made = 0, !.retries = @ + 1] \in Reqs
      BY RequestFields
    <3>3. [q EXCEPT !.status = "waiting", !.made = 0, !.retries = @ + 1].status = "waiting"
      BY DEF Reqs
    <3> QED BY <3>1, <3>2, <3>3 DEF Again
  <2>3. NewReq \in Reqs
    BY DEF NewReq, Reqs
  <2>4. req' \in [Requests -> Reqs]
    BY <1>1, <2>1, <2>2, <2>3
  <2>5. \A r \in ToSet(waiting') : r \in Requests /\ (r \in ToSet(again) \/ r \in ToSet(waiting))
    BY <1>6, Members
  <2>6. \A r \in ToSet(waiting) : r \notin ToSet(over)
    BY <1>2, <1>3
  <2> QED BY <1>1, <2>1, <2>2, <2>4, <2>5, <2>6
<1>8. running' \in Seq(Requests) /\ IsInjective(running') /\ ToSet(running') = {}
  BY <1>1 DEF ToSet, IsInjective
<1>9. MllmTyped'
  <2>1. known' \subseteq Requests /\ uid' \in [Requests -> Nat \cup {None}]
    BY <1>1 DEF MllmIInv, MllmTyped, NoUids
  <2>2. /\ thread' = [at |-> thread'.at, outs |-> thread'.outs]
        /\ thread'.at = "done" /\ thread'.outs \in Seq(Items)
    BY <1>1, <1>5
  <2> QED BY <1>1, <1>6, <1>7, <1>8, <2>1, <2>2 DEF MllmIInv, MllmTyped, Phases
<1>10. Placed'
  <2>1. \A r \in Requests : uid'[r] = None
    BY <1>1 DEF NoUids
  <2>2. ToSet(waiting') \subseteq Here
    BY <1>2, <1>6 DEF Here
  <2>3. \A r \in Requests : (client'[r] = "none" =>
          r \notin ToSet(waiting') \cup ToSet(running') /\ queue'[r] = None /\ last'[r] = None)
        /\ (Reading(r)' => queue'[r] # None)
    BY <1>1, <1>8, <2>2 DEF MllmIInv, Placed, Reading
  <2> QED BY <1>6, <1>7, <1>8, <2>1, <2>3 DEF Placed, Here
<1>11. gen' = None
  BY <1>1 DEF MllmIInv, Answering
<1>12. Answering'
  BY <1>1 DEF Answering
<1> QED
  BY <1>9, <1>10, <1>11, <1>12 DEF MllmIInv

\* An owner runs, and the response has its uid.
LEMMA OwnerFacts ==
  ASSUME NEW o, Owner(o) # None
  PROVE  Owner(o) \in ToSet(running) /\ uid[Owner(o)] = o.uid
<1>1. \E r \in ToSet(running) : uid[r] = o.uid
  BY DEF Owner
<1> QED
  BY <1>1 DEF Owner

\* The outputs of the responses that have an owner.
LEMMA OutputsFacts ==
  ASSUME MllmIInv, thread.at = "resp", NEW cut
  PROVE  /\ Outputs(cut) \in Seq(Items)
         /\ \A i \in DOMAIN Outputs(cut) :
              \E o \in ToSet(thread.outs) :
                LET x == Outputs(cut)[i]
                IN  /\ Owner(o) # None /\ x.req = Owner(o)
                    /\ x.tok = <<req[x.req].retries, req[x.req].made + 1>>
                    /\ x.fin = IF o.fin = "none" /\ x.req \in cut THEN "stop" ELSE o.fin
         /\ \A i, j \in DOMAIN Outputs(cut) :
              Outputs(cut)[i].req = Outputs(cut)[j].req => i = j
<1> DEFINE X == {o \in ToSet(thread.outs) : Owner(o) # None}
           mine == Only(thread.outs, X)
           fin(o) == IF o.fin = "none" /\ Owner(o) \in cut THEN "stop" ELSE o.fin
           outs == [i \in DOMAIN mine |->
                     Out(Owner(mine[i]),
                         <<req[Owner(mine[i])].retries, req[Owner(mine[i])].made + 1>>,
                         fin(mine[i]))]
<1>1. Outputs(cut) = outs
  BY DEF Outputs
<1>2. /\ thread.outs \in Seq(Responses)
      /\ \A i, j \in DOMAIN thread.outs : thread.outs[i].uid = thread.outs[j].uid => i = j
  BY DEF MllmIInv, MllmTyped, Answering
<1>3. IsInjective(thread.outs) /\ \A o, p \in ToSet(thread.outs) : o.uid = p.uid => o = p
  BY <1>2 DEF IsInjective, ToSet
<1>4. mine \in Seq(Responses) /\ ToSet(mine) = X /\ IsInjective(mine)
  <2>1. PICK s \in Seq(Responses) : s = thread.outs
    BY <1>2
  <2>2. ToSet(s) \cap X = X
    BY <2>1
  <2> HIDE DEF X
  <2>3. Only(s, X) \in Seq(Responses) /\ ToSet(Only(s, X)) = ToSet(s) \cap X
        /\ (IsInjective(s) => IsInjective(Only(s, X)))
    BY OnlyFacts
  <2> QED BY <1>3, <2>1, <2>2, <2>3
<1> HIDE DEF mine
<1>5. /\ DOMAIN mine = 1 .. Len(mine) /\ Len(mine) \in Nat
      /\ \A i \in DOMAIN mine : mine[i] \in Responses /\ mine[i] \in X
  BY <1>4, Members
<1>6. \A i \in DOMAIN mine :
        /\ Owner(mine[i]) # None
        /\ Owner(mine[i]) \in ToSet(running) /\ uid[Owner(mine[i])] = mine[i].uid
        /\ Owner(mine[i]) \in Requests
        /\ mine[i].fin \in Fins /\ mine[i] \in ToSet(thread.outs)
  BY <1>5, OwnerFacts, TwoLists DEF Responses
<1>7. \A i \in DOMAIN mine :
        /\ outs[i] \in Items /\ outs[i].req = Owner(mine[i])
        /\ outs[i].tok = <<req[Owner(mine[i])].retries, req[Owner(mine[i])].made + 1>>
        /\ outs[i].fin = fin(mine[i])
  <2> SUFFICES ASSUME NEW i \in DOMAIN mine
               PROVE  /\ outs[i] \in Items /\ outs[i].req = Owner(mine[i])
                      /\ outs[i].tok = <<req[Owner(mine[i])].retries, req[Owner(mine[i])].made + 1>>
                      /\ outs[i].fin = fin(mine[i])
    OBVIOUS
  <2>1. PICK r \in Requests : r = Owner(mine[i])
    BY <1>6
  <2>2. PICK f \in Fins : f = fin(mine[i])
    BY <1>6 DEF Fins
  <2>3. PICK a \in Nat, b \in Nat : a = req[r].retries /\ b = req[r].made + 1
    <3>1. PICK q \in Reqs : q = req[r]
      BY DEF MllmIInv, MllmTyped
    <3>2. q.retries \in Nat /\ q.made + 1 \in Nat
      BY DEF Reqs
    <3> QED BY <3>1, <3>2
  <2>4. outs[i] = Out(r, <<a, b>>, f)
    BY <2>1, <2>2, <2>3
  <2> HIDE DEF outs, fin
  <2>5. <<a, b>> \in Nat \X Nat /\ <<a, b>> # None
    BY MllmAssumption
  <2> QED BY <2>1, <2>2, <2>3, <2>4, <2>5 DEF Out, Items
<1>8. DOMAIN outs = DOMAIN mine
  OBVIOUS
<1> HIDE DEF outs
<1>9. outs \in Seq(Items)
  <2>1. outs = [i \in DOMAIN mine |-> outs[i]]
    BY DEF outs
  <2>2. outs \in [1 .. Len(mine) -> Items]
    BY <1>5, <1>7, <2>1
  <2> QED BY <1>5, <2>2, IsASeq
<1>10. ASSUME NEW i \in DOMAIN outs, NEW j \in DOMAIN outs, outs[i].req = outs[j].req
       PROVE  i = j
  <2>1. Owner(mine[i]) = Owner(mine[j])
    BY <1>7, <1>8, <1>10
  <2>2. mine[i].uid = mine[j].uid
    BY <1>6, <1>8, <2>1
  <2>3. mine[i] = mine[j]
    BY <1>3, <1>6, <1>8, <2>2
  <2> QED BY <1>4, <1>8, <2>3 DEF IsInjective
<1>11. ASSUME NEW i \in DOMAIN outs
       PROVE  \E o \in ToSet(thread.outs) :
                /\ Owner(o) # None /\ outs[i].req = Owner(o)
                /\ outs[i].tok = <<req[outs[i].req].retries, req[outs[i].req].made + 1>>
                /\ outs[i].fin = IF o.fin = "none" /\ outs[i].req \in cut THEN "stop" ELSE o.fin
  <2>1. mine[i] \in ToSet(thread.outs)
    BY <1>6, <1>8
  <2> WITNESS mine[i] \in ToSet(thread.outs)
  <2> QED BY <1>6, <1>7, <1>8
<1> QED
  BY <1>1, <1>9, <1>10, <1>11

\* The requests that a step finishes.
Finished(cut) ==
  {Outputs(cut)[i].req : i \in {j \in DOMAIN Outputs(cut) : Outputs(cut)[j].fin # "none"}}

\* What Process does for the stop strings of cut.
Processed(cut) ==
  LET outs == Outputs(cut)
      fins == Finished(cut)
      dead == UNION {Removable(fins, r) : r \in fins}
  IN  /\ req' = [r \in Requests |->
                   IF r \in fins THEN NewReq
                   ELSE IF \E i \in DOMAIN outs : outs[i].req = r
                   THEN [req[r] EXCEPT !.made = @ + 1] ELSE req[r]]
      /\ gen' = IF gen = None THEN None
                ELSE LET g == Drop(gen, {uid[r] : r \in cut \cap fins})
                     IN  IF g.shared THEN g ELSE [g EXCEPT !.own = @ \ dead]
      /\ thread' = [at |-> "done", outs |-> outs]
      /\ running' = Without(running, fins)
      /\ uid' = [r \in Requests |-> IF r \in fins THEN None ELSE uid[r]]
      /\ known' = known \ fins
      /\ UNCHANGED <<waiting, ends, aborting, alive, untold, faults>>

\* Process, for the stop strings that end some requests.
LEMMA ProcessIs ==
  ASSUME Process
  PROVE  \E cut \in SUBSET ToSet(running) : Processed(cut)
<1>1. PICK cut \in SUBSET ToSet(running) :
       LET outs == Outputs(cut)
           fins == {outs[i].req : i \in {j \in DOMAIN outs : outs[j].fin # "none"}}
           dead == UNION {Removable(fins, r) : r \in fins}
       IN  /\ req' = [r \in Requests |->
                        IF r \in fins THEN NewReq
                        ELSE IF \E i \in DOMAIN outs : outs[i].req = r
                        THEN [req[r] EXCEPT !.made = @ + 1] ELSE req[r]]
           /\ gen' = IF gen = None THEN None
                     ELSE LET g == Drop(gen, {uid[r] : r \in cut \cap fins})
                          IN  IF g.shared THEN g ELSE [g EXCEPT !.own = @ \ dead]
           /\ thread' = [at |-> "done", outs |-> outs]
           /\ Cleanup(fins)
  BY DEF Process
<1>2. UNCHANGED <<waiting, ends, aborting, alive, untold, faults>>
  BY DEF Process
<1>3. Processed(cut)
  BY <1>1, <1>2 DEF Processed, Finished, Cleanup
<1> QED
  BY <1>3

\* A row of a finished request is removed.
LEMMA FinishedRows ==
  ASSUME MllmIInv, thread.at = "resp", gen # None, NEW cut,
         NEW e \in RowsOf(gen), e.req \in Finished(cut)
  PROVE  e.req \in cut /\ e.uid = uid[e.req]
<1>1. gen \in Generators /\ Rowed(gen, uid)
  BY DEF MllmIInv, MllmTyped
<1>2. e.uid = uid[e.req]
  BY <1>1, RowsHaveUids
<1>3. PICK i \in DOMAIN Outputs(cut) : Outputs(cut)[i].fin # "none" /\ Outputs(cut)[i].req = e.req
  BY DEF Finished
<1>4. PICK o \in ToSet(thread.outs) :
        LET x == Outputs(cut)[i]
        IN  /\ Owner(o) # None /\ x.req = Owner(o)
            /\ x.tok = <<req[x.req].retries, req[x.req].made + 1>>
            /\ x.fin = IF o.fin = "none" /\ x.req \in cut THEN "stop" ELSE o.fin
  BY <1>3, OutputsFacts
<1>5. o.uid = e.uid
  BY <1>2, <1>3, <1>4, OwnerFacts
<1>6. o.fin = "none"
  BY <1>5 DEF MllmIInv, Answering
<1> QED
  BY <1>2, <1>3, <1>4, <1>6

\* The responses are processed.
LEMMA ProcessSound == MllmIInv /\ Process => MllmIInv'
<1> SUFFICES ASSUME MllmIInv, Process PROVE MllmIInv'
  OBVIOUS
<1> USE DEF ends
<1>1. thread.at = "resp" /\ LoopFree
  BY DEF Process
<1>2. PICK cut \in SUBSET ToSet(running) : Processed(cut)
  BY ProcessIs
<1> DEFINE outs == Outputs(cut)
           fins == Finished(cut)
           dead == UNION {Removable(fins, r) : r \in fins}
           us == {uid[r] : r \in cut \cap fins}
           g == Drop(gen, us)
<1>3. outs \in Seq(Items)
  BY <1>1, OutputsFacts
<1>4. /\ req' = [r \in Requests |->
                   IF r \in fins THEN NewReq
                   ELSE IF \E i \in DOMAIN outs : outs[i].req = r
                   THEN [req[r] EXCEPT !.made = @ + 1] ELSE req[r]]
      /\ gen' = IF gen = None THEN None ELSE IF g.shared THEN g ELSE [g EXCEPT !.own = @ \ dead]
      /\ thread' = [at |-> "done", outs |-> outs]
      /\ running' = Without(running, fins)
      /\ uid' = [r \in Requests |-> IF r \in fins THEN None ELSE uid[r]]
      /\ known' = known \ fins
      /\ UNCHANGED <<waiting, ends, aborting, alive, untold, faults>>
  BY <1>2 DEF Processed
<1>5. gen # None => \A e \in RowsOf(gen) : e.req \in fins => e.uid \in us
  BY <1>1, FinishedRows
<1> HIDE DEF outs, fins, dead, us
<1>6. /\ running' \in Seq(Requests) /\ IsInjective(running')
      /\ ToSet(running') = ToSet(running) \ fins
  <2>1. PICK s \in Seq(Requests) : s = running /\ IsInjective(s)
    BY TwoLists
  <2> QED BY <1>4, <2>1, WithoutFacts
<1>7. /\ req' \in [Requests -> Reqs]
      /\ \A r \in ToSet(waiting') : r \notin fins => req'[r].status = "waiting"
  <2>1. req \in [Requests -> Reqs] /\ \A r \in ToSet(waiting) : req[r].status = "waiting"
    BY DEF MllmIInv, MllmTyped, Placed
  <2>2. \A q \in Reqs : [q EXCEPT !.made = @ + 1] \in Reqs
                        /\ [q EXCEPT !.made = @ + 1].status = q.status
    BY DEF Reqs
  <2>3. NewReq \in Reqs
    BY DEF NewReq, Reqs
  <2>4. req' \in [Requests -> Reqs]
    BY <1>4, <2>1, <2>2, <2>3
  <2> QED BY <1>4, <2>1, <2>2, <2>4, TwoLists
<1>8. fins \subseteq ToSet(running)
  <2> SUFFICES ASSUME NEW r \in fins PROVE r \in ToSet(running)
    OBVIOUS
  <2>1. PICK i \in DOMAIN Outputs(cut) : Outputs(cut)[i].req = r
    BY DEF fins, Finished
  <2>2. PICK o \in ToSet(thread.outs) : Owner(o) # None /\ Outputs(cut)[i].req = Owner(o)
    BY <1>1, OutputsFacts
  <2> QED BY <2>1, <2>2, OwnerFacts
<1>9. ASSUME gen # None
      PROVE  /\ gen' \in Generators /\ Rowed(gen', uid')
  <2>1. gen \in Generators /\ Rowed(gen, uid)
    BY <1>9 DEF MllmIInv, MllmTyped
  <2>2. /\ g \in Generators /\ g.own = gen.own
        /\ RowsOf(g) = {e \in RowsOf(gen) : e.uid \notin us}
        /\ Rowed(g, uid)
    BY <2>1, DropFacts
  <2>3. \A e \in RowsOf(gen) : e.req \in Requests
    BY <2>1, RowsHaveUids
  <2>4. \A e \in RowsOf(g) : uid'[e.req] = uid[e.req]
    BY <1>4, <1>5, <1>9, <2>2, <2>3
  <2>5. Rowed(g, uid')
    BY <2>2, <2>4, RowedOther
  <2> DEFINE X == g.own \ dead
  <2>6. X \subseteq UNION {StopIds[r] : r \in Requests}
    BY <2>2, GeneratorFields DEF GeneratorTyped
  <2>7. gen' = IF g.shared THEN g ELSE [g EXCEPT !.own = X]
    BY <1>4, <1>9
  <2> HIDE DEF g, X
  <2>8. [g EXCEPT !.own = X] \in Generators /\ Rowed([g EXCEPT !.own = X], uid')
    BY <2>2, <2>5, <2>6, OwnFacts
  <2> QED BY <2>2, <2>5, <2>7, <2>8
<1> HIDE DEF g
<1>10. MllmTyped'
  <2>1. known' \subseteq Requests /\ uid' \in [Requests -> Nat \cup {None}]
    BY <1>4 DEF MllmIInv, MllmTyped
  <2>2. gen' \in Generators \cup {None}
    BY <1>4, <1>9
  <2>3. /\ thread' = [at |-> thread'.at, outs |-> thread'.outs]
        /\ thread'.at = "done" /\ thread'.outs \in Seq(Items)
    BY <1>3, <1>4
  <2> QED BY <1>4, <1>6, <1>7, <2>1, <2>2, <2>3 DEF MllmIInv, MllmTyped, Phases
<1>11. Placed'
  <2>1. \A r \in Requests : uid'[r] # None => r \in ToSet(running')
    BY <1>4, <1>6 DEF MllmIInv, Placed
  <2>2. \A r \in ToSet(waiting') : req'[r].status = "waiting"
    BY <1>4, <1>7, <1>8, TwoLists
  <2>3. ToSet(running') \subseteq ToSet(running) /\ waiting' = waiting
    BY <1>4, <1>6
  <2> QED BY <1>4, <1>6, <2>1, <2>2, <2>3, TwoLists DEF MllmIInv, Placed, Here, Reading
<1>12. Answering'
  BY <1>4 DEF Answering
<1>13. gen' # None => Rowed(gen', uid')
  BY <1>4, <1>9
<1> QED
  BY <1>10, <1>11, <1>12, <1>13 DEF MllmIInv

\* The queues that the outputs are put into, one output after the other.
Boxes == [Requests -> Queues \cup {None}]

DispatchRun(outs, f) ==
  /\ f \in [0 .. Len(outs) -> Boxes] /\ f[0] = queue /\ f[Len(outs)] = Dispatching(outs)
  /\ \A n \in 1 .. Len(outs) :
       f[n] = [f[n - 1] EXCEPT ![outs[n].req] = Dispatched(@, outs[n])]

\* The outputs are put one after the other.
LEMMA DispatchUnfolds ==
  ASSUME NEW outs \in Seq(Items), queue \in Boxes
  PROVE  \E f : DispatchRun(outs, f)
<1> DEFINE N == Len(outs)
           Put(n, q) == [q EXCEPT ![outs[n].req] = Dispatched(@, outs[n])]
           H == [n \in 1 .. N |-> [q \in Boxes |-> Put(n, q)]]
           f == CHOOSE f : f = [n \in 0 .. N |->
                  IF n = 0 THEN queue
                  ELSE [f[n - 1] EXCEPT ![outs[n].req] = Dispatched(@, outs[n])]]
<1>0. N \in Nat /\ DOMAIN outs = 1 .. N /\ \A n \in 1 .. N : outs[n] \in Items
  BY Members
<1>1. \A n \in 1 .. N : \A q \in Boxes : Put(n, q) \in Boxes
  <2> SUFFICES ASSUME NEW n \in 1 .. N, NEW q \in Boxes PROVE Put(n, q) \in Boxes
    OBVIOUS
  <2>1. PICK o \in Items : o = outs[n]
    BY <1>0
  <2>2. PICK p \in Queues \cup {None} : p = q[o.req]
    BY ItemFields DEF Boxes
  <2>3. PICK d \in Queues \cup {None} : d = Dispatched(p, o)
    <3>1. o.req \in Requests
      BY ItemFields
    <3> QED BY <3>1, TellingTypes
  <2>4. Put(n, q) = [q EXCEPT ![o.req] = d]
    BY <2>1, <2>2, <2>3
  <2> HIDE DEF Put
  <2> QED BY <2>4 DEF Boxes
<1>2. H \in StepsIn(Boxes, N)
  <2> HIDE DEF Put, N
  <2> QED BY <1>1 DEF StepsIn
<1>3. PICK g : Iterates(Boxes, N, queue, H, g)
  <2> HIDE DEF H, N
  <2>1. PICK x \in Boxes : x = queue
    OBVIOUS
  <2> QED BY <1>0, <1>2, <2>1, Iteration
<1>4. g \in [0 .. N -> Boxes] /\ g[0] = queue
      /\ \A n \in 1 .. N : g[n] = H[n][g[n - 1]]
  BY <1>3 DEF Iterates
<1>5. \A n \in 1 .. N : g[n] = Put(n, g[n - 1])
  <2> SUFFICES ASSUME NEW n \in 1 .. N PROVE g[n] = Put(n, g[n - 1])
    OBVIOUS
  <2>1. n - 1 \in 0 .. N /\ g[n - 1] \in Boxes
    BY <1>0, <1>4
  <2> DEFINE t == g[n - 1]
  <2> HIDE DEF t, Put, N
  <2>2. t \in Boxes
    BY <2>1 DEF t
  <2>3. H[n][t] = Put(n, t)
    BY <2>2
  <2>4. g[n] = H[n][t]
    BY <1>4 DEF t
  <2> QED BY <2>3, <2>4 DEF t
<1>6. g = [n \in 0 .. N |-> IF n = 0 THEN queue ELSE Put(n, g[n - 1])]
  <2> HIDE DEF Put, N, H
  <2>1. \A n \in 0 .. N : n # 0 => n \in 1 .. N
    BY <1>0
  <2> QED BY <1>4, <1>5, <2>1
<1>7. f = [n \in 0 .. N |-> IF n = 0 THEN queue ELSE Put(n, f[n - 1])]
  BY <1>6
<1>8. Dispatching(outs) = f[N]
  BY DEF Dispatching
<1> HIDE DEF f
<1>9. f[0] = queue /\ \A n \in 1 .. N : f[n] = Put(n, f[n - 1])
  <2> HIDE DEF Put, N
  <2>1. 0 \in 0 .. N /\ \A n \in 1 .. N : n \in 0 .. N /\ n # 0
    BY <1>0
  <2>2. f[0] = queue
    BY <1>7, <2>1
  <2>3. ASSUME NEW n \in 1 .. N PROVE f[n] = Put(n, f[n - 1])
    BY <1>7, <2>1
  <2> QED BY <2>2, <2>3
<1>10. f \in [0 .. N -> Boxes]
  <2> DEFINE F == {n \in 0 .. N : f[n] \in Boxes}
  <2>1. 0 \in F
    <3> HIDE DEF N
    <3>1. 0 \in 0 .. N /\ f[0] \in Boxes
      BY <1>0, <1>9
    <3> QED BY <3>1
  <2>2. ASSUME NEW n \in 1 .. N, n - 1 \in F PROVE n \in F
    <3>1. PICK q \in Boxes : q = f[n - 1]
      BY <2>2
    <3>2. Put(n, q) \in Boxes
      BY <1>1
    <3>3. f[n] = Put(n, q)
      BY <1>9, <3>1
    <3> HIDE DEF Put, N
    <3>4. n \in 0 .. N
      BY <1>0
    <3> QED BY <3>2, <3>3, <3>4
  <2>3. \A n \in 0 .. N : n \in F
    <3> HIDE DEF F, N
    <3> QED BY <1>0, <2>1, <2>2, UpTo
  <2> HIDE DEF N, Put
  <2> QED BY <1>7, <2>3
<1> QED
  BY <1>8, <1>9, <1>10 DEF DispatchRun

\* No queue appears or goes when outputs are dispatched.
LEMMA DispatchingFacts ==
  ASSUME NEW outs \in Seq(Items), queue \in Boxes
  PROVE  /\ Dispatching(outs) \in Boxes
         /\ \A r \in Requests : Dispatching(outs)[r] = None <=> queue[r] = None
<1> DEFINE N == Len(outs)
<1>0. N \in Nat /\ \A n \in 1 .. N : outs[n] \in Items
  BY Members
<1>1. PICK f : DispatchRun(outs, f)
  BY DispatchUnfolds
<1> DEFINE G == {n \in 0 .. N : \A r \in Requests : f[n][r] = None <=> queue[r] = None}
<1>2. 0 \in G
  BY <1>0, <1>1 DEF DispatchRun
<1>3. ASSUME NEW n \in 1 .. N, n - 1 \in G PROVE n \in G
  <2>1. PICK q \in Boxes : q = f[n - 1]
    BY <1>0, <1>1 DEF DispatchRun
  <2>2. PICK o \in Items : o = outs[n]
    BY <1>0
  <2>3. o.req \in Requests
    BY ItemFields
  <2>4. PICK p \in Queues \cup {None} : p = q[o.req]
    BY <2>3 DEF Boxes
  <2>5. PICK d \in Queues \cup {None} : d = Dispatched(p, o) /\ (d = None <=> p = None)
    BY <2>3, TellingTypes
  <2>6. f[n] = [q EXCEPT ![o.req] = d]
    BY <1>1, <2>1, <2>2, <2>4, <2>5 DEF DispatchRun
  <2>7. \A r \in Requests : q[r] = None <=> queue[r] = None
    BY <1>3, <2>1
  <2>8. \A r \in Requests : f[n][r] = None <=> queue[r] = None
    BY <2>4, <2>5, <2>6, <2>7 DEF Boxes
  <2> QED BY <2>8
<1>4. N \in G
  <2> HIDE DEF G, N
  <2>1. \A n \in 0 .. N : n \in G
    BY <1>0, <1>2, <1>3, UpTo
  <2> QED BY <1>0, <2>1
<1>5. Dispatching(outs) = f[N] /\ f[N] \in Boxes
  BY <1>0, <1>1 DEF DispatchRun
<1> QED
  BY <1>4, <1>5

\* The outputs are dispatched.
LEMMA DispatchSound == MllmIInv /\ Dispatch => MllmIInv'
<1> SUFFICES ASSUME MllmIInv, Dispatch PROVE MllmIInv'
  OBVIOUS
<1> USE DEF serving
<1>1. /\ thread.at = "done" /\ thread' = Idle
      /\ queue' = IF alive THEN Dispatching(thread.outs) ELSE queue
      /\ UNCHANGED <<serving, gen, client, last, aborting, alive, untold, faults>>
  BY DEF Dispatch
<1>2. thread.outs \in Seq(Items) /\ queue \in Boxes
  BY <1>1 DEF MllmIInv, MllmTyped, Boxes
<1>3. queue' \in Boxes /\ \A r \in Requests : queue'[r] = None <=> queue[r] = None
  <2>1. PICK outs \in Seq(Items) : outs = thread.outs
    BY <1>2
  <2> QED BY <1>1, <1>2, <2>1, DispatchingFacts
<1>4. thread' = [at |-> thread'.at, outs |-> thread'.outs] /\ thread'.at = "idle"
  BY <1>1 DEF Idle
<1>5. MllmTyped'
  BY <1>1, <1>3, <1>4 DEF MllmIInv, MllmTyped, Phases, Boxes
<1>6. Placed'
  BY <1>1, <1>3 DEF MllmIInv, Placed, Here, Reading
<1>7. Answering' /\ (gen' # None => Rowed(gen', uid'))
  BY <1>1, <1>4 DEF MllmIInv, Answering
<1> QED
  BY <1>5, <1>6, <1>7 DEF MllmIInv

\* Everybody is told of an exception.
LEMMA FailAllSound == MllmIInv /\ FailAll => MllmIInv'
<1> SUFFICES ASSUME MllmIInv, FailAll PROVE MllmIInv'
  OBVIOUS
<1>1. thread' = Idle /\ UNCHANGED <<stops, client, last, aborting, alive, untold, faults>>
  BY DEF FailAll
<1>2. thread' = [at |-> thread'.at, outs |-> thread'.outs] /\ thread'.at = "idle"
  BY <1>1 DEF Idle
<1>3. CASE ~ alive
  <2>1. UNCHANGED <<queue, known, waiting, running, uid, req, gen>>
    BY <1>3 DEF FailAll
  <2>2. MllmTyped'
    BY <1>1, <1>2, <2>1 DEF MllmIInv, MllmTyped, Phases
  <2>3. Placed'
    BY <1>1, <2>1 DEF MllmIInv, Placed, Here, Reading
  <2>4. Answering' /\ (gen' # None => Rowed(gen', uid'))
    BY <1>2, <2>1 DEF MllmIInv, Answering
  <2> QED BY <2>2, <2>3, <2>4 DEF MllmIInv
<1>4. CASE alive
  <2> DEFINE lost == ToSet(running \o waiting)
  <2>1. /\ queue' = [r \in Requests |-> IF r \in lost THEN Failed(queue[r], r) ELSE queue[r]]
        /\ known' = known \ lost
        /\ waiting' = << >> /\ running' = << >>
        /\ uid' = [r \in Requests |-> IF r \in lost THEN None ELSE uid[r]]
        /\ req' = [r \in Requests |-> IF r \in lost THEN NewReq ELSE req[r]]
        /\ gen' = None
    BY <1>4 DEF FailAll, Tell
  <2>2. lost = Here
    <3>1. PICK s \in Seq(Requests) : s = running
      BY TwoLists
    <3>2. PICK t \in Seq(Requests) : t = waiting
      BY TwoLists
    <3> QED BY <3>1, <3>2, ConcatFacts DEF Here
  <2> HIDE DEF lost
  <2>3. /\ queue' \in [Requests -> Queues \cup {None}]
        /\ \A r \in Requests : queue'[r] = None <=> queue[r] = None
    <3>1. \A r \in Requests : /\ queue[r] \in Queues \cup {None}
                              /\ Failed(queue[r], r) \in Queues \cup {None}
                              /\ Failed(queue[r], r) = None <=> queue[r] = None
      <4> SUFFICES ASSUME NEW r \in Requests
                   PROVE  /\ queue[r] \in Queues \cup {None}
                          /\ Failed(queue[r], r) \in Queues \cup {None}
                          /\ Failed(queue[r], r) = None <=> queue[r] = None
        OBVIOUS
      <4>1. PICK q \in Queues \cup {None} : q = queue[r]
        BY DEF MllmIInv, MllmTyped
      <4>2. PICK o \in Items : TRUE
        BY ErrorItem
      <4> QED BY <4>1, <4>2, TellingTypes
    <3> QED BY <2>1, <3>1
  <2>4. NewReq \in Reqs
    BY DEF NewReq, Reqs
  <2>5. << >> \in Seq(Requests) /\ ToSet(<< >>) = {} /\ IsInjective(<< >>)
    BY DEF ToSet, IsInjective
  <2>6. MllmTyped'
    <3>1. req' \in [Requests -> Reqs] /\ uid' \in [Requests -> Nat \cup {None}]
          /\ known' \subseteq Requests
      BY <2>1, <2>4 DEF MllmIInv, MllmTyped
    <3> QED BY <1>1, <1>2, <2>1, <2>3, <2>5, <3>1 DEF MllmIInv, MllmTyped, Phases
  <2>7. \A r \in Requests : uid'[r] = None
    BY <2>1, <2>2 DEF MllmIInv, Placed, Here
  <2>8. Placed'
    <3>1. \A r \in Requests : Reading(r)' => queue'[r] # None
      BY <1>1, <2>3 DEF MllmIInv, Placed, Reading
    <3>2. \A r \in Requests : client'[r] = "none" => queue'[r] = None /\ last'[r] = None
      BY <1>1, <2>3 DEF MllmIInv, Placed
    <3> QED BY <2>1, <2>5, <2>7, <3>1, <3>2 DEF Placed, Here
  <2>9. Answering' /\ (gen' # None => Rowed(gen', uid'))
    BY <1>2, <2>1 DEF Answering
  <2> QED BY <2>6, <2>8, <2>9 DEF MllmIInv
<1> QED
  BY <1>3, <1>4

\* Every step keeps the invariant.
LEMMA MllmNextSound == MllmIInv /\ [Next]_vars => MllmIInv'
<1> SUFFICES ASSUME MllmIInv, [Next]_vars PROVE MllmIInv'
  OBVIOUS
<1>1. CASE Step
  BY <1>1, StartStepSound, ScheduleSound, CreateFailsSound, NextTokensSound,
     NextRaisesSound, DropGeneratorSound, RecoverSound, ProcessSound,
     ProcessRaisesSound, DispatchSound, FailAllSound DEF Step
<1>2. CASE AbortResumes
  BY <1>2, AbortResumesSound
<1>3. CASE Reset
  BY <1>3, ResetSound
<1>4. CASE Stop
  BY <1>4, StopSound
<1>5. CASE \E r \in Requests : Client(r)
  BY <1>5, AddSound, GetSound, LeaveSound, CancelSound DEF Client
<1>6. CASE UNCHANGED vars
  <2> USE <1>6 DEF vars, serving, ends
  <2>1. MllmTyped'
    BY DEF MllmIInv, MllmTyped
  <2>2. Placed'
    BY DEF MllmIInv, Placed, Here, Reading
  <2>3. Answering' /\ (gen' # None => Rowed(gen', uid'))
    BY DEF MllmIInv, Answering
  <2> QED BY <2>1, <2>2, <2>3 DEF MllmIInv
<1> QED
  BY <1>1, <1>2, <1>3, <1>4, <1>5, <1>6 DEF Next

\* The invariant implies what the run checks.
LEMMA MllmAgrees == MllmIInv => UidsAgree
<1> SUFFICES ASSUME MllmIInv PROVE UidsAgree
  OBVIOUS
<1>1. TypeOK
  BY DEF MllmIInv, MllmTyped, TypeOK, Queues
<1>2. IsInjective(waiting \o running)
  <2>1. PICK s \in Seq(Requests) : s = waiting
    BY TwoLists
  <2>2. PICK t \in Seq(Requests) : t = running
    BY TwoLists
  <2> QED BY <2>1, <2>2, TwoLists, ConcatFacts
<1>3. \A r \in Requests : uid[r] # None => r \in ToSet(running)
  BY DEF MllmIInv, Placed
<1>4. CASE gen = None
  <2>1. Rows = << >>
    BY <1>4 DEF Rows
  <2> QED BY <1>1, <1>2, <1>3, <2>1 DEF UidsAgree
<1>5. CASE gen # None
  <2>1. Rowed(gen, uid) /\ gen.pend \in Seq(Entries) /\ gen.batch \in Seq(Entries)
    BY <1>5, GeneratorFields DEF MllmIInv, MllmTyped, GeneratorTyped
  <2>2. PICK p \in Seq(Entries) : p = gen.pend
    BY <2>1
  <2>3. PICK b \in Seq(Entries) : b = gen.batch
    BY <2>1
  <2>4. /\ p \o b \in Seq(Entries) /\ ToSet(p \o b) = ToSet(p) \cup ToSet(b)
        /\ IsInjective(p) /\ IsInjective(b) /\ ToSet(p) \cap ToSet(b) = {}
             => IsInjective(p \o b)
    BY ConcatFacts
  <2>5. Rows \in Seq(Entries) /\ IsInjective(Rows) /\ ToSet(Rows) = RowsOf(gen)
    BY <1>5, <2>1, <2>2, <2>3, <2>4 DEF Rows, Rowed, RowsOf
  <2>6. \A i \in DOMAIN Rows : Rows[i] \in RowsOf(gen)
    BY <2>5, Members
  <2>7. \A i, j \in DOMAIN Rows : Rows[i].uid = Rows[j].uid => i = j
    BY <2>1, <2>5, <2>6 DEF Rowed, IsInjective
  <2>8. \A i \in DOMAIN Rows : uid[Rows[i].req] = Rows[i].uid
    BY <2>1, <2>6 DEF Rowed
  <2> QED BY <1>1, <1>2, <1>3, <2>7, <2>8 DEF UidsAgree
<1> QED
  BY <1>4, <1>5

\* The requests of MLLMScheduler are queued or running once, and every row of
\* its generator is that of a running request with this uid.
THEOREM MllmUidsAgree == Spec => []UidsAgree
<1>1. Init => MllmIInv
  BY MllmInitSound
<1>2. MllmIInv /\ [Next]_vars => MllmIInv'
  BY MllmNextSound
<1>3. MllmIInv => UidsAgree
  BY MllmAgrees
<1> QED
  BY <1>1, <1>2, <1>3, PTL DEF Spec

-----------------------------------------------------------------------------
\* Consumers.

\* A list that ends with None tells, and nothing in it is without its end.
LEMMA NoneAtEnd ==
  ASSUME NEW p \in Seq(Items \cup {None})
  PROVE  Closed(Append(p, None)) /\ Tells(Append(p, None))
<1> DEFINE q == Append(p, None)
           n == Len(p) + 1
<1>1. /\ q \in Seq(Items \cup {None}) /\ Len(q) = n /\ q[n] = None /\ Len(p) \in Nat
  BY AppendProperties, Members
<1>2. DOMAIN q = 1 .. n /\ n \in DOMAIN q
  BY <1>1, Members
<1> HIDE DEF q, n
<1>3. \A i \in DOMAIN q : q[i] # None => i < n
  <2> SUFFICES ASSUME NEW i \in DOMAIN q, q[i] # None PROVE i < n
    OBVIOUS
  <2>1. i # n /\ i \in 1 .. n
    BY <1>1, <1>2
  <2> QED BY <1>1, <1>2, <2>1 DEF n
<1> QED
  BY <1>1, <1>2, <1>3 DEF Closed, Tells, q

\* What must be delivered is put at the end.
LEMMA DeliverAppends ==
  ASSUME NEW q \in Queues, NEW x \in Items \cup {None}
  PROVE  \E p \in Seq(Items \cup {None}) : Deliver(q, x) = Append(p, x)
<1>1. q \in Seq(Items \cup {None}) /\ q # None /\ Len(q) \in Nat
  BY MllmAssumption, Members DEF Queues
<1> DEFINE p == IF Len(q) >= QueueCap THEN Tail(q) ELSE q
<1>2. p \in Seq(Items \cup {None})
  <2>1. Len(q) >= QueueCap => q # << >>
    BY <1>1, MllmAssumption
  <2> QED BY <1>1, <2>1, HeadTailProperties
<1>3. Deliver(q, x) = Append(p, x)
  BY <1>1 DEF Deliver
<1> HIDE DEF p
<1> QED
  BY <1>2, <1>3

\* Whoever is delivered None is told.
LEMMA DeliverTells ==
  ASSUME NEW q \in Queues
  PROVE  Closed(Deliver(q, None)) /\ Tells(Deliver(q, None))
BY DeliverAppends, NoneAtEnd

\* An offer loses nothing.
LEMMA OfferTells ==
  ASSUME NEW q \in Queues, Closed(q), NEW x \in Items \cup {None},
         x = None \/ x.fin = "none"
  PROVE  /\ Closed(Offer(q, x)) /\ (Tells(q) => Tells(Offer(q, x)))
         /\ x = None /\ ~ (Len(q) >= QueueCap) => Tells(Offer(q, x))
<1>1. q \in Seq(Items \cup {None}) /\ q # None
  BY MllmAssumption DEF Queues
<1>2. CASE Len(q) >= QueueCap
  BY <1>2 DEF Offer
<1>3. CASE ~ (Len(q) >= QueueCap)
  <2>1. Offer(q, x) = Append(q, x)
    BY <1>1, <1>3 DEF Offer
  <2> DEFINE a == Append(q, x)
  <2>2. /\ DOMAIN q = 1 .. Len(q) /\ Len(q) \in Nat
        /\ DOMAIN a = 1 .. Len(q) + 1 /\ a[Len(q) + 1] = x
        /\ \A i \in 1 .. Len(q) : a[i] = q[i]
    <3>1. /\ a \in Seq(Items \cup {None}) /\ Len(a) = Len(q) + 1
          /\ \A i \in 1 .. Len(q) : a[i] = q[i]
          /\ a[Len(q) + 1] = x
      BY <1>1, AppendProperties
    <3> QED BY <1>1, <3>1, Members
  <2> HIDE DEF a
  <2>3. \A i \in DOMAIN q : i \in DOMAIN a /\ a[i] = q[i]
    BY <2>2
  <2>4. \A i \in DOMAIN a : i \in DOMAIN q \/ a[i] = x
    BY <2>2
  <2>5. Closed(a)
    <3> SUFFICES ASSUME NEW i \in DOMAIN a, a[i] # None, a[i].fin # "none"
                 PROVE  \E j \in DOMAIN a : i < j /\ a[j] = None
      BY DEF Closed
    <3>1. i \in DOMAIN q
      BY <2>4
    <3>2. PICK j \in DOMAIN q : i < j /\ q[j] = None
      BY <2>3, <3>1 DEF Closed
    <3> QED BY <2>3, <3>2
  <2>6. Tells(q) => Tells(a)
    BY <2>3 DEF Tells
  <2>7. x = None => Tells(a)
    <3>1. Len(q) + 1 \in DOMAIN a
      BY <2>2
    <3> QED BY <2>2, <3>1 DEF Tells
  <2> QED BY <2>1, <2>5, <2>6, <2>7 DEF a
<1> QED
  BY <1>2, <1>3

\* A queue that gets an output.
LEMMA DispatchedTells ==
  ASSUME NEW q \in Queues, Closed(q), NEW o \in Items
  PROVE  /\ Closed(Dispatched(q, o)) /\ (Tells(q) => Tells(Dispatched(q, o)))
         /\ o.fin # "none" => Tells(Dispatched(q, o))
<1>1. CASE o.fin = "none"
  BY <1>1, OfferTells DEF Dispatched
<1>2. CASE o.fin # "none"
  <2>1. q # None
    BY MllmAssumption DEF Queues
  <2>2. PICK d \in Queues : d = Deliver(q, o)
    BY <2>1, QueueTypes
  <2>3. Closed(Deliver(d, None)) /\ Tells(Deliver(d, None))
    BY DeliverTells
  <2> QED BY <1>2, <2>2, <2>3 DEF Dispatched
<1> QED
  BY <1>1, <1>2

\* Whoever is told of a failure is told.
LEMMA FailedTells ==
  ASSUME NEW q \in Queues, NEW r \in Requests
  PROVE  Closed(Failed(q, r)) /\ Tells(Failed(q, r))
<1>1. q # None
  BY MllmAssumption DEF Queues
<1>2. PICK e \in Items : e = Out(r, None, "error")
  BY ErrorItem
<1>3. PICK f \in Queues : f = Offer(q, e)
  BY <1>1, QueueTypes
<1>4. Closed(Deliver(f, None)) /\ Tells(Deliver(f, None))
  BY DeliverTells
<1> QED
  BY <1>2, <1>3, <1>4 DEF Failed

\* Reading an item that does not end the stream.
LEMMA ReadTells ==
  ASSUME NEW q \in Queues, q # << >>, Closed(q), Head(q) # None
  PROVE  Closed(Tail(q)) /\ (Tells(q) => Tells(Tail(q)))
<1> DEFINE t == Tail(q)
<1>1. q \in Seq(Items \cup {None})
  BY DEF Queues
<1>2. /\ t \in Seq(Items \cup {None}) /\ Len(t) = Len(q) - 1
      /\ \A i \in 1 .. Len(t) : t[i] = q[i + 1]
  BY <1>1, HeadTailProperties
<1>3. /\ DOMAIN q = 1 .. Len(q) /\ Len(q) \in Nat /\ DOMAIN t = 1 .. Len(t)
      /\ Len(t) \in Nat /\ Head(q) = q[1]
  BY <1>1, <1>2, Members
<1> HIDE DEF t
<1>4. \A i \in DOMAIN t : i + 1 \in DOMAIN q /\ t[i] = q[i + 1] /\ i \in Nat
  BY <1>2, <1>3
<1>5. \A i \in DOMAIN q : i # 1 => i - 1 \in DOMAIN t /\ t[i - 1] = q[i] /\ i \in Nat
  BY <1>2, <1>3
<1>6. Closed(t)
  <2> SUFFICES ASSUME NEW i \in DOMAIN t, t[i] # None, t[i].fin # "none"
               PROVE  \E j \in DOMAIN t : i < j /\ t[j] = None
    BY DEF Closed
  <2>1. PICK j \in DOMAIN q : i + 1 < j /\ q[j] = None
    BY <1>4 DEF Closed
  <2>2. i \in Nat /\ i \in 1 .. Len(t) /\ j \in 1 .. Len(q)
    BY <1>3
  <2>3. j # 1 /\ i < j - 1
    BY <2>1, <2>2
  <2> QED BY <1>5, <2>1, <2>3
<1>7. ASSUME Tells(q) PROVE Tells(t)
  <2>1. PICK i \in DOMAIN q : q[i] = None \/ q[i].fin # "none"
    BY <1>7 DEF Tells
  <2>2. CASE i # 1
    BY <1>5, <2>1, <2>2 DEF Tells
  <2>3. CASE i = 1
    <3>1. q[i] # None /\ q[i].fin # "none"
      BY <1>3, <2>1, <2>3
    <3>2. PICK j \in DOMAIN q : i < j /\ q[j] = None
      BY <3>1 DEF Closed
    <3>3. j # 1
      BY <2>3, <3>2
    <3> QED BY <1>5, <3>2, <3>3 DEF Tells
  <2> QED BY <2>2, <2>3
<1> QED
  BY <1>6, <1>7 DEF t

\* A new queue holds nothing.
LEMMA NewClosed == Closed(<< >>)
BY DEF Closed

\* A request that a step does not concern.
Untouched(q) ==
  /\ queue'[q] = queue[q] /\ client'[q] = client[q]
  /\ q \in known => q \in known'
  /\ q \in ToSet(waiting') \cup ToSet(running') <=> q \in Here
  /\ q \in untold => q \in untold'
  /\ aborting' = q <=> aborting = q
  /\ alive' => alive
  /\ Telling(q) => Telling(q)'

\* It is attended to as it was.
LEMMA UntouchedAttended ==
  ASSUME NEW q \in Requests, Attended(q), Untouched(q)
  PROVE  Attended(q)'
<1>1. q \in Here' <=> q \in Here
  BY DEF Untouched, Here
<1>2. Reading(q)' <=> Reading(q)
  BY DEF Untouched, Reading
<1>3. (queue[q] # None => Closed(queue[q]))'
  BY DEF Untouched, Attended
<1>4. Tells(queue[q])' <=> Tells(queue[q])
  BY DEF Untouched
<1> QED
  BY <1>1, <1>2, <1>3, <1>4 DEF Attended, Untouched

\* Every caller is attended to.
AllAttended == \A q \in Requests : Attended(q)

\* Nobody waits at first.
LEMMA ConsumersInitSound == Init => AllAttended
<1> SUFFICES ASSUME Init, NEW q \in Requests PROVE Attended(q)
  BY DEF AllAttended
<1>1. Here = {}
  BY DEF Init, Here, ToSet
<1> QED
  BY <1>1 DEF Init, Attended, Reading

\* Who comes is queued.
LEMMA AddAttended ==
  ASSUME ConsumersIInv, NEW r \in Requests, Add(r)
  PROVE  AllAttended'
<1>1. /\ LoopFree /\ known' = known \cup {r} /\ waiting' = Append(waiting, r)
      /\ queue' = [queue EXCEPT ![r] = << >>]
      /\ client' = [client EXCEPT ![r] = Kind[r]]
      /\ UNCHANGED <<running, uid, stops, gen, last, thread, aborting, alive, untold, faults>>
  BY DEF Add
<1>2. MllmIInv /\ \A q \in Requests : Attended(q)
  BY DEF ConsumersIInv
<1>3. queue \in [Requests -> Queues \cup {None}]
      /\ client \in [Requests -> {"none", "stream", "generate", "gone", "ghost"}]
  BY <1>2 DEF MllmIInv, MllmTyped
<1>4. ToSet(waiting') = ToSet(waiting) \cup {r}
  <2>1. PICK s \in Seq(Requests) : s = waiting
    BY <1>2, TwoLists
  <2> QED BY <1>1, <2>1, AppendFacts
<1>5. ASSUME NEW q \in Requests, q # r PROVE Attended(q)'
  <2>1. Untouched(q)
    BY <1>1, <1>3, <1>4, <1>5 DEF Untouched, Here, Telling
  <2> QED BY <1>2, <2>1, UntouchedAttended
<1>6. Attended(r)'
  <2>1. r \in Here' /\ Reading(r)' /\ queue'[r] = << >> /\ r \in known'
    BY <1>1, <1>3, <1>4, MllmAssumption DEF Here, Reading
  <2> QED BY <2>1, NewClosed DEF Attended
<1> QED
  BY <1>5, <1>6 DEF AllAttended

\* An abort leaves nobody who reads without an end.
LEMMA AbortAttended ==
  ASSUME ConsumersIInv, NEW r \in Requests, NEW k \in SUBSET Requests, NEW left \in BOOLEAN,
         LoopFree, Abort(r, k, left), OthersKept(r, left), UNCHANGED <<alive, untold>>,
         \A q \in Requests : q # r => client'[q] = client[q] /\ (q \in known => q \in k)
  PROVE  AllAttended'
<1> USE DEF OthersKept
<1>1. MllmIInv /\ \A q \in Requests : Attended(q)
  BY DEF ConsumersIInv
<1>2. queue \in [Requests -> Queues \cup {None}]
  BY <1>1 DEF MllmIInv, MllmTyped
<1>3. CASE uid[r] # None /\ gen # None
  <2>1. /\ aborting' = r /\ known' = k \ {r} /\ UNCHANGED <<running, uid, req>>
        /\ waiting' = IF req[r].status = "waiting" THEN Removed(waiting, r) ELSE waiting
        /\ queue' = [queue EXCEPT ![r] = IF left THEN None ELSE @]
    BY <1>3 DEF Abort
  <2>2. ToSet(waiting') \ {r} = ToSet(waiting) \ {r}
    <3>1. PICK s \in Seq(Requests) : s = waiting
      BY <1>1, TwoLists
    <3>2. ToSet(Removed(s, r)) = ToSet(s) \ {r}
      BY WithoutFacts DEF Removed
    <3> QED BY <2>1, <3>1, <3>2
  <2>3. ASSUME NEW q \in Requests, q # r PROVE Attended(q)'
    <3>1. q \in ToSet(waiting') <=> q \in ToSet(waiting)
      BY <2>2, <2>3
    <3>2. aborting # q /\ aborting' # q
      BY <2>1, <2>3, MllmAssumption DEF LoopFree
    <3>3. Untouched(q)
      BY <1>2, <2>1, <2>3, <3>1, <3>2 DEF Untouched, Here, Telling
    <3> QED BY <1>1, <3>3, UntouchedAttended
  <2>4. Attended(r)'
    <3>1. (queue[r] # None => Closed(queue[r]))'
      <4>1. queue'[r] = None \/ queue'[r] = queue[r]
        BY <1>2, <2>1
      <4>2. queue[r] # None => Closed(queue[r])
        BY <1>1 DEF Attended
      <4> QED BY <4>1, <4>2
    <3> QED BY <2>1, <3>1 DEF Attended
  <2> QED BY <2>3, <2>4 DEF AllAttended
<1>4. CASE ~ (uid[r] # None /\ gen # None)
  <2>1. Forget(r, k, left) /\ aborting' = aborting
    BY <1>4 DEF Abort
  <2>2. /\ known' = k \ {r}
        /\ ToSet(waiting') = ToSet(waiting) \ {r}
        /\ ToSet(running') = ToSet(running) \ {r}
        /\ queue'[r] = IF left THEN None ELSE Deliver(queue[r], None)
        /\ \A q \in Requests : q # r => queue'[q] = queue[q]
    <3>1. Forgotten(r, k, left)
      BY <1>1, <2>1, ForgetFacts
    <3> QED BY <3>1 DEF Forgotten
  <2>3. ASSUME NEW q \in Requests, q # r PROVE Attended(q)'
    <3>1. Untouched(q)
      BY <2>1, <2>2, <2>3 DEF Untouched, Here, Telling
    <3> QED BY <1>1, <3>1, UntouchedAttended
  <2>4. Attended(r)'
    <3>1. r \notin Here'
      BY <2>2 DEF Here
    <3>2. CASE queue[r] = None \/ left
      <4>1. queue'[r] = None
        BY <2>2, <3>2 DEF Deliver
      <4>2. ~ Reading(r)'
        BY <1>1, <3>2 DEF Reading, MllmIInv, Placed
      <4> QED BY <3>1, <4>1, <4>2 DEF Attended
    <3>3. CASE queue[r] # None /\ ~ left
      <4>1. PICK q \in Queues : q = queue[r]
        BY <1>2, <3>3
      <4>2. Closed(queue'[r]) /\ Tells(queue'[r])
        BY <2>2, <3>3, <4>1, DeliverTells
      <4> QED BY <3>1, <4>2 DEF Attended
    <3> QED BY <3>2, <3>3
  <2> QED BY <2>3, <2>4 DEF AllAttended
<1> QED
  BY <1>3, <1>4

\* Who leaves reads no more, and what runs for it is aborted.
LEMMA EndAttended ==
  ASSUME ConsumersIInv, NEW r \in Requests, NEW normally \in BOOLEAN,
         LoopFree, Reading(r), End(r, normally),
         last' = [last EXCEPT ![r] = None],
         UNCHANGED <<stops, gen, thread, alive, untold, faults>>
  PROVE  AllAttended'
<1> DEFINE k == IF normally /\ client[r] = "generate" THEN known \ {r} ELSE known
           c == IF r \notin ToSet(running) /\ r \in ToSet(waiting) THEN "ghost" ELSE "gone"
<1>0. MllmIInv /\ \A q \in Requests : Attended(q)
  BY DEF ConsumersIInv
<1>1. client' = [client EXCEPT ![r] = c]
  BY DEF End
<1>2. OthersKept(r, TRUE)
  BY <1>0, <1>1 DEF MllmIInv, MllmTyped, Placed, OthersKept
<1>3. k \in SUBSET Requests /\ client \in [Requests -> {"none", "stream", "generate", "gone", "ghost"}]
      /\ queue \in [Requests -> Queues \cup {None}]
  BY <1>0 DEF MllmIInv, MllmTyped
<1>4. \A q \in Requests : q # r => client'[q] = client[q] /\ (q \in known => q \in k)
  BY <1>1, <1>3
<1>5. CASE r \in ToSet(running) /\ r \in known
  <2>1. Abort(r, k, TRUE)
    BY <1>5 DEF End
  <2> HIDE DEF k
  <2> QED BY <1>2, <1>3, <1>4, <2>1, AbortAttended
<1>6. CASE ~ (r \in ToSet(running) /\ r \in known)
  <2>1. /\ queue' = [queue EXCEPT ![r] = None] /\ known' = k
        /\ UNCHANGED <<waiting, running, uid, req, aborting>>
    BY <1>6 DEF End
  <2>2. ASSUME NEW q \in Requests, q # r PROVE Attended(q)'
    <3>1. Untouched(q)
      BY <1>3, <1>4, <2>1, <2>2 DEF Untouched, Here, Telling
    <3> QED BY <1>0, <3>1, UntouchedAttended
  <2>3. Attended(r)'
    <3>1. queue'[r] = None /\ client'[r] = c
      BY <1>1, <1>3, <2>1
    <3>2. ~ Reading(r)'
      BY <3>1 DEF Reading
    <3>3. r \in Here' /\ r \notin untold' => client'[r] = "ghost"
      <4> SUFFICES ASSUME r \in Here, r \notin untold PROVE c = "ghost"
        BY <2>1, <3>1 DEF Here
      <4>1. r \in known
        BY <1>0, MllmAssumption DEF Attended, LoopFree, Reading
      <4> QED BY <1>6, <4>1 DEF Here
    <3> QED BY <3>1, <3>2, <3>3 DEF Attended
  <2> QED BY <2>2, <2>3 DEF AllAttended
<1> QED
  BY <1>5, <1>6

\* Who reads goes on, or leaves.
LEMMA GetAttended ==
  ASSUME ConsumersIInv, NEW r \in Requests, Get(r)
  PROVE  AllAttended'
<1> DEFINE x == Head(queue[r])
           e == x = None \/ (client[r] = "generate" /\ x.fin # "none")
<1>0. /\ LoopFree /\ Reading(r) /\ queue[r] # << >>
      /\ last' = [last EXCEPT ![r] = IF e THEN None ELSE x]
      /\ IF e THEN End(r, TRUE)
         ELSE /\ queue' = [queue EXCEPT ![r] = Tail(@)]
              /\ UNCHANGED <<known, waiting, running, uid, req, client, aborting>>
      /\ UNCHANGED <<stops, gen, thread, alive, untold, faults>>
  BY DEF Get
<1>1. CASE e
  BY <1>0, <1>1, EndAttended
<1>2. CASE ~ e
  <2>0. MllmIInv /\ \A q \in Requests : Attended(q)
    BY DEF ConsumersIInv
  <2>1. queue \in [Requests -> Queues \cup {None}]
    BY <2>0 DEF MllmIInv, MllmTyped
  <2>2. /\ queue' = [queue EXCEPT ![r] = Tail(queue[r])]
        /\ UNCHANGED <<known, waiting, running, uid, req, client, aborting>>
    BY <1>0, <1>2
  <2>3. ASSUME NEW q \in Requests, q # r PROVE Attended(q)'
    <3>1. Untouched(q)
      BY <1>0, <2>1, <2>2, <2>3 DEF Untouched, Here, Telling
    <3> QED BY <2>0, <3>1, UntouchedAttended
  <2>4. Attended(r)'
    <3>1. PICK q \in Queues : q = queue[r] /\ q # << >> /\ Closed(q) /\ Head(q) # None
      BY <1>0, <1>2, <2>0, <2>1 DEF MllmIInv, Placed, Attended
    <3>2. Closed(Tail(q)) /\ (Tells(q) => Tells(Tail(q)))
      BY <3>1, ReadTells
    <3>3. queue'[r] = Tail(q)
      BY <2>1, <2>2, <3>1
    <3>4. Here' = Here /\ (Reading(r)' <=> Reading(r)) /\ (Telling(r)' <=> Telling(r))
      BY <1>0, <2>2 DEF Here, Reading, Telling
    <3>5. Closed(queue'[r]) /\ (Tells(queue[r]) => Tells(queue'[r]))
      BY <3>1, <3>2, <3>3
    <3> QED BY <1>0, <2>0, <2>2, <3>4, <3>5 DEF Attended
  <2> QED BY <2>3, <2>4 DEF AllAttended
<1> QED
  BY <1>1, <1>2

\* Who disconnects leaves.
LEMMA LeaveAttended ==
  ASSUME ConsumersIInv, NEW r \in Requests, Leave(r)
  PROVE  AllAttended'
BY EndAttended DEF Leave

\* Who is cancelled is told, at once or when the lock is free.
LEMMA CancelAttended ==
  ASSUME ConsumersIInv, NEW r \in Requests, Cancel(r)
  PROVE  AllAttended'
<1>0. MllmIInv
  BY DEF ConsumersIInv
<1>1. OthersKept(r, FALSE)
  BY <1>0 DEF Cancel, MllmIInv, MllmTyped, Placed, OthersKept, Reading
<1>2. known \in SUBSET Requests
  BY <1>0 DEF MllmIInv, MllmTyped
<1> QED
  BY <1>1, <1>2, AbortAttended DEF Cancel

\* The abort that has waited for the lock ends, or fails and tells nobody.
LEMMA AbortResumesAttended ==
  ASSUME ConsumersIInv, AbortResumes
  PROVE  AllAttended'
<1>0. MllmIInv /\ \A q \in Requests : Attended(q)
  BY DEF ConsumersIInv
<1>1. PICK r \in Requests : r = aborting
  BY <1>0 DEF AbortResumes, MllmIInv, MllmTyped
<1>2. aborting' = None /\ UNCHANGED <<stops, client, last, thread, alive, faults>>
  BY DEF AbortResumes
<1>3. queue \in [Requests -> Queues \cup {None}]
  BY <1>0 DEF MllmIInv, MllmTyped
<1>4. CASE gen = None
  <2>1. /\ untold' = untold \cup {r}
        /\ UNCHANGED <<known, waiting, running, uid, req, gen, queue>>
    BY <1>1, <1>4 DEF AbortResumes
  <2>2. ASSUME NEW q \in Requests, q # r PROVE Attended(q)'
    <3>1. Untouched(q)
      BY <1>1, <1>2, <2>1, <2>2, MllmAssumption DEF Untouched, Here, Telling
    <3> QED BY <1>0, <3>1, UntouchedAttended
  <2>3. Attended(r)'
    <3>1. (queue[r] # None => Closed(queue[r]))'
      BY <1>0, <2>1 DEF Attended
    <3> QED BY <2>1, <3>1 DEF Attended
  <2> QED BY <2>2, <2>3 DEF AllAttended
<1>5. CASE gen # None
  <2>1. PICK left \in BOOLEAN : left = (queue[r] = None)
    OBVIOUS
  <2>2. Forget(r, known, left) /\ untold' = untold
    BY <1>1, <1>5, <2>1 DEF AbortResumes
  <2>3. known \in SUBSET Requests
    BY <1>0 DEF MllmIInv, MllmTyped
  <2>4. /\ known' = known \ {r}
        /\ ToSet(waiting') = ToSet(waiting) \ {r}
        /\ ToSet(running') = ToSet(running) \ {r}
        /\ queue'[r] = IF left THEN None ELSE Deliver(queue[r], None)
        /\ \A q \in Requests : q # r => queue'[q] = queue[q]
    <3>1. Forgotten(r, known, left)
      BY <1>0, <2>2, <2>3, ForgetFacts
    <3> QED BY <3>1 DEF Forgotten
  <2>5. ASSUME NEW q \in Requests, q # r PROVE Attended(q)'
    <3>1. Untouched(q)
      BY <1>1, <1>2, <2>2, <2>4, <2>5, MllmAssumption DEF Untouched, Here, Telling
    <3> QED BY <1>0, <3>1, UntouchedAttended
  <2>6. Attended(r)'
    <3>1. r \notin Here'
      BY <2>4 DEF Here
    <3>2. CASE queue[r] = None
      <4>1. queue'[r] = None
        BY <2>1, <2>4, <3>2
      <4>2. ~ Reading(r)'
        BY <1>0, <1>2, <3>2 DEF Reading, MllmIInv, Placed
      <4> QED BY <3>1, <4>1, <4>2 DEF Attended
    <3>3. CASE queue[r] # None
      <4>1. PICK q \in Queues : q = queue[r]
        BY <1>3, <3>3
      <4>2. Closed(queue'[r]) /\ Tells(queue'[r])
        BY <2>1, <2>4, <3>3, <4>1, DeliverTells
      <4> QED BY <3>1, <4>2 DEF Attended
    <3> QED BY <3>2, <3>3
  <2> QED BY <2>5, <2>6 DEF AllAttended
<1> QED
  BY <1>4, <1>5

\* A reset tells all but those whose queue is full.
LEMMA ResetAttended ==
  ASSUME ConsumersIInv, Reset
  PROVE  AllAttended'
<1> SUFFICES ASSUME NEW q \in Requests PROVE Attended(q)'
  BY DEF AllAttended
<1>0. MllmIInv /\ Attended(q)
  BY DEF ConsumersIInv
<1>1. Here' = {}
  BY DEF Reset, Here, ToSet
<1>2. /\ queue'[q] = Offer(queue[q], None)
      /\ q \in untold' <=> q \in untold \/ (queue[q] # None /\ Len(queue[q]) >= QueueCap)
      /\ UNCHANGED <<client, alive, aborting>>
  BY DEF Reset
<1>3. CASE queue[q] = None
  <2>1. queue'[q] = None /\ ~ Reading(q)'
    BY <1>0, <1>2, <1>3 DEF Offer, Reading, MllmIInv, Placed
  <2> QED BY <1>1, <2>1 DEF Attended
<1>4. CASE queue[q] # None
  <2>1. PICK p \in Queues : p = queue[q] /\ Closed(p)
    BY <1>0, <1>4 DEF MllmIInv, MllmTyped, Attended
  <2>2. Closed(Offer(p, None)) /\ (~ (Len(p) >= QueueCap) => Tells(Offer(p, None)))
    BY <2>1, OfferTells
  <2> QED BY <1>1, <1>2, <1>4, <2>1, <2>2 DEF Attended
<1> QED
  BY <1>3, <1>4

\* Nothing is promised once the scheduler is stopped.
LEMMA StopAttended ==
  ASSUME ConsumersIInv, Stop
  PROVE  AllAttended'
<1> SUFFICES ASSUME NEW q \in Requests PROVE Attended(q)'
  BY DEF AllAttended
<1>1. Attended(q)
  BY DEF ConsumersIInv
<1>2. Untouched(q)
  BY DEF Stop, Untouched, serving, ends, Here, Telling
<1> QED
  BY <1>1, <1>2, UntouchedAttended

\* A step that changes neither the tables nor the queues.
LEMMA QuietAttended ==
  ASSUME ConsumersIInv, thread.at # "done",
         UNCHANGED <<known, waiting, running, queue, client, aborting, alive, untold>>
  PROVE  AllAttended'
<1> SUFFICES ASSUME NEW q \in Requests PROVE Attended(q)'
  BY DEF AllAttended
<1>1. Attended(q)
  BY DEF ConsumersIInv
<1>2. Untouched(q)
  BY DEF Untouched, Here, Telling
<1> QED
  BY <1>1, <1>2, UntouchedAttended

\* Scheduling moves requests from one list to the other.
LEMMA ScheduleAttended ==
  ASSUME ConsumersIInv, Schedule
  PROVE  AllAttended'
<1> DEFINE free == MaxNumSeqs - Len(running)
           most == IF free < Len(waiting) THEN free ELSE Len(waiting)
<1>0. MllmIInv /\ \A q \in Requests : Attended(q)
  BY DEF ConsumersIInv
<1>1. /\ thread.at = "start"
      /\ UNCHANGED <<known, queue, client, aborting, alive, untold>>
  BY DEF Schedule, ends
<1>2. PICK k \in 0 .. most : /\ waiting' = SubSeq(waiting, k + 1, Len(waiting))
                             /\ running' = running \o SubSeq(waiting, 1, k)
  BY DEF Schedule
<1>3. PICK s \in Seq(Requests) : s = waiting
  BY <1>0, TwoLists
<1>4. PICK t \in Seq(Requests) : t = running
  BY <1>0, TwoLists
<1>5. k \in 0 .. Len(s)
  <2>1. Len(s) \in Nat /\ Len(t) \in Nat /\ MaxNumSeqs \in Nat
    BY Members, MllmAssumption
  <2> QED BY <1>3, <1>4, <2>1
<1>6. PICK new \in Seq(Requests) : new = SubSeq(s, 1, k)
  BY <1>5, SplitFacts
<1>7. ToSet(s) = ToSet(new) \cup ToSet(waiting')
  BY <1>2, <1>3, <1>5, <1>6, SplitFacts
<1>8. ToSet(running') = ToSet(t) \cup ToSet(new)
  <2>1. ToSet(t \o new) = ToSet(t) \cup ToSet(new)
    BY ConcatFacts
  <2>2. running' = t \o new
    BY <1>2, <1>3, <1>4, <1>6
  <2> QED BY <2>1, <2>2
<1>9. ToSet(waiting') \cup ToSet(running') = Here
  BY <1>3, <1>4, <1>7, <1>8 DEF Here
<1>10. ASSUME NEW q \in Requests PROVE Attended(q)'
  <2>1. Untouched(q)
    BY <1>1, <1>9 DEF Untouched, Telling
  <2> QED BY <1>0, <2>1, UntouchedAttended
<1> QED
  BY <1>10 DEF AllAttended

\* Whoever is given up is told.
LEMMA RecoverAttended ==
  ASSUME ConsumersIInv, Recover
  PROVE  AllAttended'
<1> DEFINE told == Only(GivenUp, known)
<1>0. MllmIInv /\ \A q \in Requests : Attended(q)
  BY DEF ConsumersIInv
<1>1. /\ thread.at = "failed" /\ aborting = None
      /\ waiting' = Reverse(Retrying) \o waiting
      /\ known' = known \ ToSet(GivenUp)
      /\ thread' = [at |-> "done", outs |-> [i \in DOMAIN told |-> Out(told[i], None, "error")]]
      /\ running' = << >>
      /\ UNCHANGED <<queue, client, aborting, alive, untold>>
  BY DEF Recover, Retrying, GivenUp, LoopFree, ends
<1>2. /\ Retrying \in Seq(Requests) /\ GivenUp \in Seq(Requests)
      /\ ToSet(running) = ToSet(Retrying) \cup ToSet(GivenUp)
      /\ ToSet(Retrying) \cap ToSet(GivenUp) = {}
  BY <1>0, RecoverParts
<1>3. ToSet(told) = ToSet(GivenUp) \cap known
  <2>1. PICK s \in Seq(Requests) : s = GivenUp
    BY <1>2
  <2> QED BY <2>1, OnlyFacts
<1>4. \A q \in ToSet(told) : Telling(q)'
  <2> SUFFICES ASSUME NEW q \in ToSet(told) PROVE Telling(q)'
    OBVIOUS
  <2>1. PICK i \in DOMAIN told : told[i] = q
    BY DEF ToSet
  <2> HIDE DEF told
  <2>2. thread'.at = "done" /\ i \in DOMAIN thread'.outs
        /\ thread'.outs[i] = Out(q, None, "error")
    BY <1>1, <2>1
  <2> QED BY <2>2 DEF Telling, Out
<1> HIDE DEF told
<1>5. ToSet(waiting') = ToSet(Retrying) \cup ToSet(waiting) /\ ToSet(running') = {}
  <2>1. PICK s \in Seq(Requests) : s = Reverse(Retrying) /\ ToSet(s) = ToSet(Retrying)
    BY <1>2, ReverseFacts
  <2>2. PICK w \in Seq(Requests) : w = waiting
    BY <1>0, TwoLists
  <2>3. ToSet(s \o w) = ToSet(s) \cup ToSet(w)
    BY ConcatFacts
  <2>4. ToSet(running') = {}
    BY <1>1 DEF ToSet
  <2> QED BY <1>1, <2>1, <2>2, <2>3, <2>4
<1>6. ToSet(waiting) \cap ToSet(running) = {}
  BY <1>0, TwoLists
<1>7. ASSUME NEW q \in Requests, q \notin ToSet(GivenUp) PROVE Attended(q)'
  <2>1. q \in ToSet(waiting') \cup ToSet(running') <=> q \in Here
    BY <1>2, <1>5, <1>7 DEF Here
  <2>2. Untouched(q)
    BY <1>1, <1>7, <2>1 DEF Untouched, Telling
  <2> QED BY <1>0, <2>2, UntouchedAttended
<1>8. ASSUME NEW q \in Requests, q \in ToSet(GivenUp) PROVE Attended(q)'
  <2>1. q \notin Here' /\ q \in Here
    BY <1>2, <1>5, <1>6, <1>8 DEF Here
  <2>2. (queue[q] # None => Closed(queue[q]))'
    BY <1>0, <1>1 DEF Attended
  <2>3. q \notin untold /\ Reading(q) => Telling(q)'
    <3> SUFFICES ASSUME q \notin untold, Reading(q) PROVE q \in ToSet(told)
      BY <1>4
    <3>1. q \in known
      BY <1>0, <1>1, <2>1, MllmAssumption DEF Attended, Reading
    <3> QED BY <1>3, <1>8, <3>1
  <2>4. Reading(q)' <=> Reading(q)
    BY <1>1 DEF Reading
  <2> QED BY <1>1, <2>1, <2>2, <2>3, <2>4 DEF Attended
<1> QED
  BY <1>7, <1>8 DEF AllAttended

\* Whoever has finished is told.
LEMMA ProcessAttended ==
  ASSUME ConsumersIInv, Process
  PROVE  AllAttended'
<1>0. MllmIInv /\ \A q \in Requests : Attended(q)
  BY DEF ConsumersIInv
<1>1. thread.at = "resp" /\ aborting = None
  BY DEF Process, LoopFree
<1>2. PICK cut \in SUBSET ToSet(running) : Processed(cut)
  BY ProcessIs
<1> DEFINE fins == Finished(cut)
<1>3. /\ thread' = [at |-> "done", outs |-> Outputs(cut)]
      /\ running' = Without(running, fins) /\ known' = known \ fins
      /\ UNCHANGED <<waiting, queue, client, aborting, alive, untold>>
  BY <1>2 DEF Processed, ends
<1>4. \A q \in fins : Telling(q)' /\ q \in ToSet(running)
  <2> SUFFICES ASSUME NEW q \in fins PROVE Telling(q)' /\ q \in ToSet(running)
    OBVIOUS
  <2>1. PICK i \in DOMAIN Outputs(cut) :
          Outputs(cut)[i].req = q /\ Outputs(cut)[i].fin # "none"
    BY DEF Finished
  <2>2. PICK o \in ToSet(thread.outs) : Owner(o) # None /\ Outputs(cut)[i].req = Owner(o)
    BY <1>0, <1>1, OutputsFacts
  <2>3. q \in ToSet(running)
    BY <2>1, <2>2, OwnerFacts
  <2>4. Telling(q)'
    BY <1>3, <2>1 DEF Telling
  <2> QED BY <2>3, <2>4
<1> HIDE DEF fins
<1>5. ToSet(running') = ToSet(running) \ fins
  <2>1. PICK s \in Seq(Requests) : s = running
    BY <1>0, TwoLists
  <2> QED BY <1>3, <2>1, WithoutFacts
<1>6. ToSet(waiting) \cap ToSet(running) = {}
  BY <1>0, TwoLists
<1>7. ASSUME NEW q \in Requests, q \notin fins PROVE Attended(q)'
  <2>1. Untouched(q)
    BY <1>1, <1>3, <1>5, <1>7 DEF Untouched, Telling, Here
  <2> QED BY <1>0, <2>1, UntouchedAttended
<1>8. ASSUME NEW q \in Requests, q \in fins PROVE Attended(q)'
  <2>1. q \notin Here'
    BY <1>3, <1>4, <1>5, <1>6, <1>8 DEF Here
  <2>2. (queue[q] # None => Closed(queue[q]))'
    BY <1>0, <1>3 DEF Attended
  <2>3. Telling(q)'
    BY <1>4, <1>8
  <2> QED BY <2>1, <2>2, <2>3 DEF Attended
<1> QED
  BY <1>7, <1>8 DEF AllAttended

\* Whoever an output that ends a request is dispatched to is told.
LEMMA DispatchAttended ==
  ASSUME ConsumersIInv, Dispatch
  PROVE  AllAttended'
<1>0. MllmIInv /\ \A q \in Requests : Attended(q)
  BY DEF ConsumersIInv
<1>1. /\ thread.at = "done" /\ thread' = Idle /\ aborting = None
      /\ queue' = IF alive THEN Dispatching(thread.outs) ELSE queue
      /\ UNCHANGED <<known, waiting, running, client, aborting, alive, untold>>
  BY DEF Dispatch, LoopFree, serving
<1>2. PICK outs \in Seq(Items) : outs = thread.outs
  BY <1>0, <1>1 DEF MllmIInv, MllmTyped
<1>3. queue \in Boxes
  BY <1>0 DEF MllmIInv, MllmTyped, Boxes
<1>4. CASE ~ alive
  <2> SUFFICES ASSUME NEW q \in Requests PROVE Attended(q)'
    BY DEF AllAttended
  <2>1. Here' = Here /\ (Reading(q)' <=> Reading(q)) /\ queue' = queue
    BY <1>1, <1>4 DEF Here, Reading
  <2>2. (queue[q] # None => Closed(queue[q]))'
    BY <1>0, <2>1 DEF Attended
  <2> QED BY <1>0, <1>1, <1>4, <2>1, <2>2 DEF Attended
<1>5. CASE alive
  <2> SUFFICES ASSUME NEW r \in Requests PROVE Attended(r)'
    BY DEF AllAttended
  <2> DEFINE N == Len(outs)
  <2>0. N \in Nat /\ DOMAIN outs = 1 .. N /\ \A n \in 1 .. N : outs[n] \in Items
    BY Members
  <2>1. PICK f : DispatchRun(outs, f)
    BY <1>3, DispatchUnfolds
  <2> DEFINE Fine(n, q) ==
               q # None =>
                 /\ Closed(q) /\ (Tells(queue[r]) => Tells(q))
                 /\ \A i \in 1 .. n : outs[i].req = r /\ outs[i].fin # "none" => Tells(q)
             G == {n \in 0 .. N : /\ f[n][r] = None <=> queue[r] = None
                                  /\ Fine(n, f[n][r])}
  <2>2. 0 \in G
    <3>1. f[0] = queue /\ 0 \in 0 .. N
      BY <2>0, <2>1 DEF DispatchRun
    <3>2. queue[r] # None => Closed(queue[r])
      BY <1>0 DEF Attended
    <3> QED BY <3>1, <3>2
  <2>3. ASSUME NEW n \in 1 .. N, n - 1 \in G PROVE n \in G
    <3>1. PICK p \in Boxes : p = f[n - 1]
      BY <2>0, <2>1 DEF DispatchRun
    <3>2. PICK o \in Items : o = outs[n] /\ o.req \in Requests
      BY <2>0, ItemFields
    <3>3. PICK q \in Queues \cup {None} : q = p[o.req]
      BY <3>2 DEF Boxes
    <3>4. PICK d \in Queues \cup {None} : d = Dispatched(q, o) /\ (d = None <=> q = None)
      BY <3>2, TellingTypes
    <3>5. f[n] = [p EXCEPT ![o.req] = d]
      BY <2>1, <3>1, <3>2, <3>3, <3>4 DEF DispatchRun
    <3>6. (p[r] = None <=> queue[r] = None) /\ Fine(n - 1, p[r])
      BY <2>3, <3>1
    <3>7. \A i \in 1 .. n : i \in 1 .. n - 1 \/ i = n
      BY <2>0
    <3>8. n \in 0 .. N
      BY <2>0
    <3>9. CASE o.req # r
      <4>1. f[n][r] = p[r]
        BY <3>5, <3>9 DEF Boxes
      <4>2. Fine(n, p[r])
        BY <3>2, <3>6, <3>7, <3>9
      <4> QED BY <3>6, <3>8, <4>1, <4>2
    <3>10. CASE o.req = r
      <4>1. f[n][r] = d /\ q = p[r]
        BY <3>3, <3>5, <3>10 DEF Boxes
      <4>2. Fine(n, d)
        <5> SUFFICES ASSUME q \in Queues, q # None PROVE Fine(n, d)
          BY <3>3, <3>4
        <5>1. Closed(q) /\ (Tells(queue[r]) => Tells(q))
          BY <3>6, <4>1
        <5>2. /\ Closed(d) /\ (Tells(q) => Tells(d))
              /\ o.fin # "none" => Tells(d)
          BY <3>4, <5>1, DispatchedTells
        <5>3. \A i \in 1 .. n - 1 : outs[i].req = r /\ outs[i].fin # "none" => Tells(q)
          BY <3>6, <4>1
        <5> QED BY <3>2, <3>7, <5>1, <5>2, <5>3
      <4> HIDE DEF Fine
      <4> QED BY <3>4, <3>6, <3>8, <4>1, <4>2
    <3> QED BY <3>9, <3>10
  <2>4. N \in G
    <3> HIDE DEF G, N
    <3>1. \A n \in 0 .. N : n \in G
      BY <2>0, <2>2, <2>3, UpTo
    <3> QED BY <2>0, <3>1
  <2>5. queue' = f[N]
    BY <1>1, <1>2, <1>5, <2>1 DEF DispatchRun
  <2>6. queue'[r] # None =>
          /\ Closed(queue'[r]) /\ (Tells(queue[r]) => Tells(queue'[r]))
          /\ Telling(r) => Tells(queue'[r])
    <3>1. Telling(r) => \E i \in 1 .. N : outs[i].req = r /\ outs[i].fin # "none"
      BY <1>2, <2>0 DEF Telling
    <3> QED BY <2>4, <2>5, <3>1
  <2>7. queue'[r] = None <=> queue[r] = None
    BY <2>4, <2>5
  <2> HIDE DEF G, Fine, N
  <2>8. Here' = Here /\ (Reading(r)' <=> Reading(r))
    BY <1>1 DEF Here, Reading
  <2>9. Reading(r) => queue[r] # None
    BY <1>0 DEF MllmIInv, Placed
  <2> QED BY <1>0, <1>1, <2>6, <2>7, <2>8, <2>9 DEF Attended
<1> QED
  BY <1>4, <1>5

\* Everybody whose request is dropped is told.
LEMMA FailAllAttended ==
  ASSUME ConsumersIInv, FailAll
  PROVE  AllAttended'
<1>0. MllmIInv /\ \A q \in Requests : Attended(q)
  BY DEF ConsumersIInv
<1>1. /\ thread.at = "raised" /\ UNCHANGED <<client, aborting, alive, untold>>
  BY DEF FailAll
<1>2. CASE ~ alive
  <2>1. UNCHANGED <<queue, known, waiting, running>>
    BY <1>2 DEF FailAll
  <2> QED BY <1>1, <2>1, QuietAttended
<1>3. CASE alive
  <2> DEFINE lost == ToSet(running \o waiting)
  <2>1. /\ queue' = [r \in Requests |-> IF r \in lost THEN Failed(queue[r], r) ELSE queue[r]]
        /\ known' = known \ lost
        /\ waiting' = << >> /\ running' = << >>
    BY <1>3 DEF FailAll, Tell
  <2>2. lost = Here
    <3>1. PICK s \in Seq(Requests) : s = running
      BY <1>0, TwoLists
    <3>2. PICK t \in Seq(Requests) : t = waiting
      BY <1>0, TwoLists
    <3> QED BY <3>1, <3>2, ConcatFacts DEF Here
  <2> HIDE DEF lost
  <2>3. ToSet(waiting') = {} /\ ToSet(running') = {}
    BY <2>1 DEF ToSet
  <2>4. ASSUME NEW q \in Requests, q \notin Here PROVE Attended(q)'
    <3>1. Untouched(q)
      BY <1>1, <2>1, <2>2, <2>3, <2>4 DEF Untouched, Telling
    <3> QED BY <1>0, <3>1, UntouchedAttended
  <2>5. ASSUME NEW q \in Requests, q \in Here PROVE Attended(q)'
    <3>1. q \notin Here'
      BY <2>3 DEF Here
    <3>2. queue'[q] = Failed(queue[q], q)
      BY <2>1, <2>2, <2>5
    <3>3. CASE queue[q] = None
      <4>1. queue'[q] = None /\ ~ Reading(q)'
        BY <1>0, <1>1, <3>2, <3>3 DEF Failed, Offer, Deliver, Reading, MllmIInv, Placed
      <4> QED BY <3>1, <4>1 DEF Attended
    <3>4. CASE queue[q] # None
      <4>1. PICK p \in Queues : p = queue[q]
        BY <1>0, <3>4 DEF MllmIInv, MllmTyped
      <4>2. Closed(queue'[q]) /\ Tells(queue'[q])
        BY <3>2, <4>1, FailedTells
      <4> QED BY <3>1, <4>2 DEF Attended
    <3> QED BY <3>3, <3>4
  <2> QED BY <2>4, <2>5 DEF AllAttended
<1> QED
  BY <1>2, <1>3

\* Every step keeps the invariant.
LEMMA ConsumersNext == ConsumersIInv /\ [Next]_vars => ConsumersIInv'
<1> SUFFICES ASSUME ConsumersIInv, [Next]_vars PROVE AllAttended'
  <2>1. ConsumersIInv /\ [Next]_vars => MllmIInv'
    BY MllmNextSound DEF ConsumersIInv
  <2> QED BY <2>1 DEF ConsumersIInv, AllAttended
<1>1. CASE StartStep \/ CreateFails \/ NextTokens \/ NextRaises \/ DropGenerator
           \/ ProcessRaises
  BY <1>1, QuietAttended DEF StartStep, CreateFails, NextTokens, NextRaises,
     DropGenerator, ProcessRaises, serving, ends
<1>2. CASE Schedule \/ Recover \/ Process \/ Dispatch \/ FailAll
  BY <1>2, ScheduleAttended, RecoverAttended, ProcessAttended, DispatchAttended,
     FailAllAttended
<1>3. CASE AbortResumes \/ Reset \/ Stop
  BY <1>3, AbortResumesAttended, ResetAttended, StopAttended
<1>4. CASE \E r \in Requests : Client(r)
  BY <1>4, AddAttended, GetAttended, LeaveAttended, CancelAttended DEF Client
<1>5. CASE UNCHANGED vars
  <2> SUFFICES ASSUME NEW q \in Requests PROVE Attended(q)'
    BY DEF AllAttended
  <2>1. Attended(q)
    BY DEF ConsumersIInv
  <2>2. Untouched(q)
    BY <1>5 DEF vars, serving, ends, Untouched, Here, Telling
  <2> QED BY <2>1, <2>2, UntouchedAttended
<1> QED
  BY <1>1, <1>2, <1>3, <1>4, <1>5 DEF Next, Step

\* The invariant implies what the run checks.
LEMMA AllServed == ConsumersIInv => ConsumersServed
<1> SUFFICES ASSUME ConsumersIInv, NEW r \in Requests \ untold
             PROVE  /\ Reading(r) /\ alive /\ aborting # r =>
                         r \in ToSet(waiting \o running) \/ Told(r)
                    /\ r \in ToSet(running) => Reading(r) \/ client[r] = "ghost" \/ aborting = r
  BY DEF ConsumersServed
<1>1. MllmIInv /\ Attended(r)
  BY DEF ConsumersIInv
<1>2. ToSet(waiting \o running) = Here
  <2>1. PICK s \in Seq(Requests) : s = waiting
    BY <1>1, TwoLists
  <2>2. PICK t \in Seq(Requests) : t = running
    BY <1>1, TwoLists
  <2> QED BY <2>1, <2>2, ConcatFacts DEF Here
<1>3. Reading(r) => queue[r] # None
  BY <1>1 DEF MllmIInv, Placed
<1>4. queue[r] # None /\ Tells(queue[r]) => Told(r)
  BY DEF Tells, Told
<1>5. Telling(r) => Told(r)
  BY DEF Telling, Told
<1> QED
  BY <1>1, <1>2, <1>3, <1>4, <1>5 DEF Attended, Here

\* A caller of MLLMScheduler waits for a request that is queued or running, or
\* is told that it has ended, and nothing runs for a caller that was there and
\* left, unless an exception or a full queue kept it from being told.
THEOREM MllmConsumersServed == Spec => []ConsumersServed
<1>1. Init => ConsumersIInv
  BY MllmInitSound, ConsumersInitSound DEF ConsumersIInv, AllAttended
<1>2. ConsumersIInv /\ [Next]_vars => ConsumersIInv'
  BY ConsumersNext
<1>3. ConsumersIInv => ConsumersServed
  BY AllServed
<1> QED
  BY <1>1, <1>2, <1>3, PTL DEF Spec

-----------------------------------------------------------------------------
\* The order of what a consumer gets.

\* a may come before b.
Precedes(a, b) == a.fin = "none" /\ (b.tok # None => Later(a.tok, b.tok))

\* t is u or a token before it.
NotAfter(t, u) == t[1] < u[1] \/ (t[1] = u[1] /\ t[2] <= u[2])

\* What r's consumer has received last, l, and what waits in its queue, q.
Holds(l, q) == ({l} \cup (IF q = None THEN {} ELSE ToSet(q))) \ {None}

Line(r, l, q) ==
  /\ l # None => l.req = r
  /\ q # None =>
       /\ \A i \in DOMAIN q : q[i] # None =>
            q[i].req = r /\ (l # None => Precedes(l, q[i]))
       /\ \A i, j \in DOMAIN q : i < j /\ q[i] # None /\ q[j] # None
            => Precedes(q[i], q[j])

\* What r's consumer has or will have.
Sent(r) == Holds(last[r], queue[r])

\* o is of a token that the request has reached in its present attempt.
Under(o, r) == o.fin = "none" /\ NotAfter(o.tok, <<req[r].retries, req[r].made>>)

\* The outputs about to be dispatched.
Outgoing == IF thread.at = "done" THEN ToSet(thread.outs) ELSE {}

\* What is sent is in order; for a request that may make more, nothing of it ends
\* it or is of a token to come, and what goes out next comes after it.
InLine(r) ==
  /\ Line(r, last[r], queue[r])
  /\ r \in Here => \A o \in Sent(r) : Under(o, r)
  /\ \A o \in Outgoing : o.req = r =>
       /\ client[r] # "none"
       /\ \A p \in Sent(r) : Precedes(p, o)
       /\ r \in Here => Under(o, r)

\* A step has one output for a request.
OneEach ==
  thread.at = "done" => \A i, j \in DOMAIN thread.outs :
    thread.outs[i].req = thread.outs[j].req => i = j

\* The invariant of the order.
OrderIInv ==
  /\ MllmIInv /\ OneEach
  /\ \A r \in Requests : InLine(r)

\* Tokens.
LEMMA Numbers ==
  ASSUME NEW t \in Nat \X Nat, NEW a \in Nat, NEW b \in Nat, NotAfter(t, <<a, b>>)
  PROVE  /\ Later(t, <<a, b + 1>>) /\ NotAfter(t, <<a, b + 1>>)
         /\ NotAfter(t, <<a + 1, 0>>)
BY DEF NotAfter, Later

\* An item at the end of a queue.
LEMMA LineAppends ==
  ASSUME NEW r, NEW l, NEW q \in Seq(Items \cup {None}), Line(r, l, q),
         NEW x \in Items \cup {None},
         x # None => x.req = r /\ \A p \in Holds(l, q) : Precedes(p, x)
  PROVE  /\ Line(r, l, Append(q, x))
         /\ Holds(l, Append(q, x)) \subseteq Holds(l, q) \cup ({x} \ {None})
<1> DEFINE a == Append(q, x)
<1>0. q # None
  BY MllmAssumption
<1>1. /\ a \in Seq(Items \cup {None}) /\ ToSet(a) = ToSet(q) \cup {x}
  BY AppendFacts
<1>2. /\ DOMAIN q = 1 .. Len(q) /\ Len(q) \in Nat
      /\ DOMAIN a = 1 .. Len(q) + 1 /\ a[Len(q) + 1] = x
      /\ \A i \in 1 .. Len(q) : a[i] = q[i]
      /\ \A i \in DOMAIN q : q[i] \in ToSet(q)
  <2>1. /\ Len(a) = Len(q) + 1 /\ \A i \in 1 .. Len(q) : a[i] = q[i]
        /\ a[Len(q) + 1] = x
    BY AppendProperties
  <2> QED BY <1>1, <2>1, Members
<1> HIDE DEF a
<1>3. Holds(l, a) \subseteq Holds(l, q) \cup ({x} \ {None})
  BY <1>0, <1>1 DEF Holds
<1>4. \A i \in DOMAIN a : (i \in DOMAIN q /\ a[i] = q[i]) \/ (i = Len(q) + 1 /\ a[i] = x)
  BY <1>2
<1>5. /\ l # None => l \in Holds(l, q)
      /\ \A i \in DOMAIN q : q[i] # None => q[i] \in Holds(l, q)
  BY <1>0, <1>2 DEF Holds
<1>6. \A i \in DOMAIN a : a[i] # None => a[i].req = r /\ (l # None => Precedes(l, a[i]))
  BY <1>0, <1>4, <1>5 DEF Line
<1>7. ASSUME NEW i \in DOMAIN a, NEW j \in DOMAIN a, i < j, a[i] # None, a[j] # None
      PROVE  Precedes(a[i], a[j])
  <2>1. i \in DOMAIN q /\ a[i] = q[i]
    <3>1. i # Len(q) + 1
      BY <1>2, <1>7
    <3> QED BY <1>4, <3>1
  <2>2. CASE j \in DOMAIN q /\ a[j] = q[j]
    BY <1>0, <1>7, <2>1, <2>2 DEF Line
  <2>3. CASE a[j] = x
    BY <1>5, <1>7, <2>1, <2>3
  <2> QED BY <1>4, <2>2, <2>3
<1>8. Line(r, l, a)
  BY <1>6, <1>7 DEF Line
<1> QED
  BY <1>3, <1>8 DEF a

\* A queue without its head.
LEMMA LineTail ==
  ASSUME NEW r, NEW l, NEW q \in Seq(Items \cup {None}), q # << >>, Line(r, l, q)
  PROVE  /\ Tail(q) \in Seq(Items \cup {None})
         /\ Line(r, l, Tail(q)) /\ Holds(l, Tail(q)) \subseteq Holds(l, q)
         /\ Head(q) # None =>
              Line(r, Head(q), Tail(q)) /\ Holds(Head(q), Tail(q)) \subseteq Holds(l, q)
<1> DEFINE t == Tail(q)
           h == Head(q)
<1>0. q # None
  BY MllmAssumption
<1>1. /\ t \in Seq(Items \cup {None}) /\ ToSet(q) = {h} \cup ToSet(t)
      /\ Len(t) = Len(q) - 1 /\ \A i \in 1 .. Len(t) : t[i] = q[i + 1]
  BY TailFacts, HeadTailProperties
<1>2. /\ DOMAIN q = 1 .. Len(q) /\ Len(q) \in Nat /\ Len(q) # 0 /\ DOMAIN t = 1 .. Len(t)
      /\ Len(t) \in Nat /\ h = q[1]
  <2>1. h = q[1]
    OBVIOUS
  <2>2. Len(q) # 0
    BY EmptySeq
  <2> HIDE DEF t, h
  <2> QED BY <1>1, <2>1, <2>2, Members
<1> HIDE DEF t, h
<1>3. 1 \in DOMAIN q
  BY <1>2
<1>4. \A i \in DOMAIN t : i + 1 \in DOMAIN q /\ t[i] = q[i + 1] /\ i \in Nat
  BY <1>1, <1>2
<1>5. t # None
  BY <1>1, MllmAssumption
<1>6. /\ Holds(l, t) \subseteq Holds(l, q)
      /\ h # None => Holds(h, t) \subseteq Holds(l, q)
  BY <1>0, <1>1, <1>5 DEF Holds
<1>7. \A i \in DOMAIN t : t[i] # None => t[i].req = r /\ (l # None => Precedes(l, t[i]))
  BY <1>0, <1>4 DEF Line
<1>8. \A i, j \in DOMAIN t : i < j /\ t[i] # None /\ t[j] # None => Precedes(t[i], t[j])
  <2> SUFFICES ASSUME NEW i \in DOMAIN t, NEW j \in DOMAIN t, i < j, t[i] # None, t[j] # None
               PROVE  Precedes(t[i], t[j])
    OBVIOUS
  <2>1. i + 1 < j + 1
    BY <1>4
  <2> QED BY <1>0, <1>4, <2>1 DEF Line
<1>9. h # None => h.req = r /\ \A i \in DOMAIN t : t[i] # None => Precedes(h, t[i])
  <2> SUFFICES ASSUME h # None
               PROVE  h.req = r /\ \A i \in DOMAIN t : t[i] # None => Precedes(h, t[i])
    OBVIOUS
  <2>1. h.req = r
    BY <1>0, <1>2, <1>3 DEF Line
  <2>2. ASSUME NEW i \in DOMAIN t, t[i] # None PROVE Precedes(h, t[i])
    <3>1. 1 < i + 1 /\ i + 1 \in DOMAIN q /\ t[i] = q[i + 1]
      BY <1>2, <1>4
    <3> QED BY <1>0, <1>2, <1>3, <2>2, <3>1 DEF Line
  <2> QED BY <2>1, <2>2
<1>10. l # None => l.req = r
  BY DEF Line
<1> QED
  BY <1>1, <1>6, <1>7, <1>8, <1>9, <1>10 DEF Line, t, h

\* A queue that is offered an item, or gets one.
LEMMA LineGets ==
  ASSUME NEW r, NEW l, NEW q \in Queues \cup {None}, Line(r, l, q),
         NEW x \in Items \cup {None},
         x # None => x.req = r /\ \A p \in Holds(l, q) : Precedes(p, x)
  PROVE  /\ Line(r, l, Offer(q, x))
         /\ Holds(l, Offer(q, x)) \subseteq Holds(l, q) \cup ({x} \ {None})
         /\ Line(r, l, Deliver(q, x))
         /\ Holds(l, Deliver(q, x)) \subseteq Holds(l, q) \cup ({x} \ {None})
<1>1. CASE q = None
  BY <1>1 DEF Offer, Deliver
<1>2. CASE q # None
  <2>1. q \in Seq(Items \cup {None}) /\ Len(q) \in Nat
    BY <1>2, Members DEF Queues
  <2>2. Line(r, l, Offer(q, x)) /\ Holds(l, Offer(q, x)) \subseteq Holds(l, q) \cup ({x} \ {None})
    <3>1. CASE Len(q) >= QueueCap
      BY <3>1 DEF Offer
    <3>2. CASE ~ (Len(q) >= QueueCap)
      BY <1>2, <2>1, <3>2, LineAppends DEF Offer
    <3> QED BY <3>1, <3>2
  <2> DEFINE t == IF Len(q) >= QueueCap THEN Tail(q) ELSE q
  <2>3. /\ t \in Seq(Items \cup {None}) /\ Line(r, l, t)
        /\ Holds(l, t) \subseteq Holds(l, q)
    <3>1. Len(q) >= QueueCap => q # << >>
      BY <2>1, MllmAssumption
    <3> QED BY <2>1, <3>1, LineTail
  <2>4. Deliver(q, x) = Append(t, x)
    BY <1>2 DEF Deliver
  <2> HIDE DEF t
  <2>5. x # None => x.req = r /\ \A p \in Holds(l, t) : Precedes(p, x)
    BY <2>3
  <2>6. /\ Line(r, l, Append(t, x))
        /\ Holds(l, Append(t, x)) \subseteq Holds(l, t) \cup ({x} \ {None})
    BY <2>3, <2>5, LineAppends
  <2> QED BY <2>2, <2>3, <2>4, <2>6
<1> QED
  BY <1>1, <1>2

\* A queue that gets an output.
LEMMA LineDispatched ==
  ASSUME NEW r, NEW l, NEW q \in Queues \cup {None}, Line(r, l, q),
         NEW o \in Items, o.req = r, \A p \in Holds(l, q) : Precedes(p, o)
  PROVE  /\ Line(r, l, Dispatched(q, o))
         /\ Holds(l, Dispatched(q, o)) \subseteq Holds(l, q) \cup {o}
<1>1. /\ Line(r, l, Offer(q, o)) /\ Line(r, l, Deliver(q, o))
      /\ Holds(l, Offer(q, o)) \subseteq Holds(l, q) \cup {o}
      /\ Holds(l, Deliver(q, o)) \subseteq Holds(l, q) \cup {o}
  <2>1. /\ Line(r, l, Offer(q, o)) /\ Line(r, l, Deliver(q, o))
        /\ Holds(l, Offer(q, o)) \subseteq Holds(l, q) \cup ({o} \ {None})
        /\ Holds(l, Deliver(q, o)) \subseteq Holds(l, q) \cup ({o} \ {None})
    BY LineGets
  <2> QED BY <2>1
<1>2. PICK d \in Queues \cup {None} : d = Deliver(q, o)
  BY QueueTypes
<1>3. Line(r, l, Deliver(d, None)) /\ Holds(l, Deliver(d, None)) \subseteq Holds(l, d)
  <2>1. PICK x : x = None
    OBVIOUS
  <2>2. /\ Line(r, l, Deliver(d, x))
        /\ Holds(l, Deliver(d, x)) \subseteq Holds(l, d) \cup ({x} \ {None})
    BY <1>1, <1>2, <2>1, LineGets
  <2> QED BY <2>1, <2>2
<1> QED
  BY <1>1, <1>2, <1>3 DEF Dispatched

\* A queue whose request has failed.
LEMMA LineFailed ==
  ASSUME NEW r \in Requests, NEW l, NEW q \in Queues \cup {None}, Line(r, l, q),
         \A p \in Holds(l, q) : p.fin = "none"
  PROVE  Line(r, l, Failed(q, r))
<1>1. PICK e \in Items : /\ e = Out(r, None, "error") /\ e.req = r /\ e.tok = None
  BY ErrorItem
<1>2. \A p \in Holds(l, q) : Precedes(p, e)
  BY <1>1 DEF Precedes
<1>3. PICK f \in Queues \cup {None} : f = Offer(q, e)
  BY QueueTypes
<1>4. Line(r, l, f)
  BY <1>1, <1>2, <1>3, LineGets
<1>5. Line(r, l, Deliver(f, None))
  <2>1. PICK x : x = None
    OBVIOUS
  <2> QED BY <1>4, <2>1, LineGets
<1> QED
  BY <1>1, <1>3, <1>5 DEF Failed

\* Nothing is added to what r gets, and nothing new is going out.
NoMore(r) ==
  /\ Line(r, last'[r], queue'[r])
  /\ Holds(last'[r], queue'[r]) \subseteq Sent(r)
  /\ r \in ToSet(waiting') \cup ToSet(running') =>
       r \in Here /\ req'[r].retries = req[r].retries /\ req'[r].made = req[r].made
  /\ client[r] # "none" => client'[r] # "none"
  /\ Outgoing' \subseteq Outgoing

\* It stays in order.
LEMMA NoMoreInLine ==
  ASSUME NEW r \in Requests, InLine(r), NoMore(r)
  PROVE  InLine(r)'
<1>1. Line(r, last[r], queue[r])'
  BY DEF NoMore
<1>2. /\ Sent(r)' \subseteq Sent(r)
      /\ r \in Here' => r \in Here /\ req'[r].retries = req[r].retries
                        /\ req'[r].made = req[r].made
  BY DEF NoMore, Sent, Here
<1>3. \A o : r \in Here' /\ Under(o, r) => Under(o, r)'
  BY <1>2 DEF Under
<1>4. r \in Here' => (\A o \in Sent(r) : Under(o, r))'
  BY <1>2, <1>3 DEF InLine
<1>5. \A o \in Outgoing' : o \in Outgoing
  BY DEF NoMore
<1>6. ASSUME NEW o \in Outgoing', o.req = r
      PROVE  /\ client'[r] # "none"
             /\ \A p \in Sent(r)' : Precedes(p, o)
             /\ r \in Here' => Under(o, r)'
  BY <1>2, <1>3, <1>5, <1>6 DEF InLine, NoMore
<1> QED
  BY <1>1, <1>4, <1>6 DEF InLine

\* Everything is in order.
AllInLine == OneEach /\ \A r \in Requests : InLine(r)

\* Nothing is sent at first.
LEMMA OrderInitSound == Init => AllInLine
<1> SUFFICES ASSUME Init PROVE AllInLine
  OBVIOUS
<1>1. Here = {} /\ thread.at = "idle"
  BY DEF Init, Here, ToSet, Idle
<1>2. OneEach /\ Outgoing = {}
  BY <1>1 DEF OneEach, Outgoing
<1>3. ASSUME NEW r \in Requests PROVE InLine(r)
  <2>1. last[r] = None /\ queue[r] = None
    BY DEF Init
  <2> QED BY <1>1, <1>2, <2>1 DEF InLine, Line
<1> QED
  BY <1>2, <1>3 DEF AllInLine

\* A step that changes nothing of this.
LEMMA QuietInLine ==
  ASSUME OrderIInv, UNCHANGED <<req, queue, last, client>>,
         ToSet(waiting') \cup ToSet(running') \subseteq Here,
         thread' = thread \/ thread'.at # "done"
  PROVE  AllInLine'
<1>1. OneEach' /\ Outgoing' \subseteq Outgoing
  BY DEF OrderIInv, OneEach, Outgoing
<1>2. ASSUME NEW r \in Requests PROVE InLine(r)'
  <2>1. InLine(r)
    BY DEF OrderIInv
  <2>2. NoMore(r)
    BY <1>1, <2>1 DEF NoMore, InLine, Sent
  <2> QED BY <2>1, <2>2, NoMoreInLine
<1> QED
  BY <1>1, <1>2 DEF AllInLine

\* Who comes starts with an empty queue.
LEMMA AddInLine ==
  ASSUME OrderIInv, NEW r \in Requests, Add(r)
  PROVE  AllInLine'
<1>1. /\ waiting' = Append(waiting, r) /\ client[r] = "none"
      /\ req' = [req EXCEPT ![r] = [NewReq EXCEPT !.status = "waiting"]]
      /\ queue' = [queue EXCEPT ![r] = << >>]
      /\ client' = [client EXCEPT ![r] = Kind[r]]
      /\ UNCHANGED <<running, last, thread>>
  BY DEF Add
<1>2. MllmIInv /\ OneEach /\ \A q \in Requests : InLine(q)
  BY DEF OrderIInv
<1>3. /\ queue \in [Requests -> Queues \cup {None}] /\ req \in [Requests -> Reqs]
      /\ client \in [Requests -> {"none", "stream", "generate", "gone", "ghost"}]
      /\ last[r] = None
  BY <1>1, <1>2 DEF MllmIInv, MllmTyped, Placed
<1>4. ToSet(waiting') = ToSet(waiting) \cup {r}
  <2>1. PICK s \in Seq(Requests) : s = waiting
    BY <1>2, TwoLists
  <2> QED BY <1>1, <2>1, AppendFacts
<1>5. OneEach' /\ Outgoing' = Outgoing
  BY <1>1, <1>2 DEF OneEach, Outgoing
<1>6. ASSUME NEW q \in Requests, q # r PROVE InLine(q)'
  <2>1. NoMore(q)
    BY <1>1, <1>2, <1>3, <1>4, <1>5, <1>6 DEF NoMore, InLine, Sent, Here
  <2> QED BY <1>2, <2>1, NoMoreInLine
<1>7. InLine(r)'
  <2>1. last'[r] = None /\ queue'[r] = << >>
    BY <1>1, <1>3
  <2>2. Line(r, last[r], queue[r])'
    BY <2>1 DEF Line
  <2>3. Sent(r)' = {}
    BY <2>1 DEF Sent, Holds, ToSet
  <2>4. \A o \in Outgoing' : o.req # r
    BY <1>1, <1>2, <1>5 DEF InLine
  <2> QED BY <2>2, <2>3, <2>4 DEF InLine
<1> QED
  BY <1>5, <1>6, <1>7 DEF AllInLine

\* A consumer that is gone has received nothing last.
LEMMA NoLast ==
  ASSUME NEW r, NEW l, NEW q, Line(r, l, q)
  PROVE  /\ Line(r, None, q) /\ Line(r, l, None)
         /\ Holds(None, q) \subseteq Holds(l, q) /\ Holds(l, None) \subseteq Holds(l, q)
BY DEF Line, Holds

\* An abort sends no token.
LEMMA AbortInLine ==
  ASSUME OrderIInv, NEW r \in Requests, NEW k \in SUBSET Requests, NEW left \in BOOLEAN,
         Abort(r, k, left), thread' = thread,
         last'[r] = last[r] \/ last'[r] = None,
         \A q \in Requests : q # r => last'[q] = last[q] /\ client'[q] = client[q],
         client'[r] # "none"
  PROVE  AllInLine'
<1>1. MllmIInv /\ OneEach /\ \A q \in Requests : InLine(q)
  BY DEF OrderIInv
<1>2. queue \in [Requests -> Queues \cup {None}]
  BY <1>1 DEF MllmIInv, MllmTyped
<1>3. OneEach' /\ Outgoing' = Outgoing
  BY <1>1 DEF OneEach, Outgoing
<1>4. PICK q0 \in Queues \cup {None} : q0 = queue[r]
  BY <1>2
<1>5. PICK l0 : l0 = last[r]
  OBVIOUS
<1>6. Line(r, l0, q0) /\ Sent(r) = Holds(l0, q0)
  BY <1>1, <1>4, <1>5 DEF InLine, Sent
<1>7. SUFFICES ASSUME NEW q1,
                      q1 = q0 \/ q1 = None \/ q1 = Deliver(q0, None),
                      queue'[r] = q1,
                      \A q \in Requests : q # r => queue'[q] = queue[q] /\ req'[q] = req[q],
                      ToSet(waiting') \cup ToSet(running') \subseteq Here,
                      req'[r] = req[r] \/ r \notin ToSet(waiting') \cup ToSet(running')
               PROVE  AllInLine'
  <2>1. CASE uid[r] # None /\ gen # None
    <3>1. /\ UNCHANGED <<running, req>>
          /\ waiting' = IF req[r].status = "waiting" THEN Removed(waiting, r) ELSE waiting
          /\ queue' = [queue EXCEPT ![r] = IF left THEN None ELSE @]
      BY <2>1 DEF Abort
    <3>2. ToSet(waiting') \subseteq ToSet(waiting)
      <4>1. PICK s \in Seq(Requests) : s = waiting
        BY <1>1, TwoLists
      <4>2. ToSet(Removed(s, r)) = ToSet(s) \ {r}
        BY WithoutFacts DEF Removed
      <4> QED BY <3>1, <4>1, <4>2
    <3>3. queue'[r] = q0 \/ queue'[r] = None
      BY <1>2, <1>4, <3>1
    <3>4. \A q \in Requests : q # r => queue'[q] = queue[q] /\ req'[q] = req[q]
      BY <1>2, <3>1
    <3>5. ToSet(waiting') \cup ToSet(running') \subseteq Here
      BY <3>1, <3>2 DEF Here
    <3> QED BY <1>7, <3>1, <3>3, <3>4, <3>5
  <2>2. CASE ~ (uid[r] # None /\ gen # None)
    <3>1. Forget(r, k, left)
      BY <2>2 DEF Abort
    <3>2. Forgotten(r, k, left)
      BY <1>1, <3>1, ForgetFacts
    <3>3. /\ ToSet(waiting') = ToSet(waiting) \ {r}
          /\ ToSet(running') = ToSet(running) \ {r}
          /\ queue'[r] = IF left THEN None ELSE Deliver(queue[r], None)
          /\ \A q \in Requests : q # r => queue'[q] = queue[q] /\ req'[q] = req[q]
      BY <3>2 DEF Forgotten
    <3>4. queue'[r] = None \/ queue'[r] = Deliver(q0, None)
      BY <1>4, <3>3
    <3> QED BY <1>7, <3>3, <3>4 DEF Here
  <2> QED BY <2>1, <2>2
<1>8. ASSUME NEW q \in Requests, q # r PROVE InLine(q)'
  <2>1. NoMore(q)
    BY <1>1, <1>3, <1>7, <1>8 DEF NoMore, InLine, Sent
  <2> QED BY <1>1, <2>1, NoMoreInLine
<1>9. Line(r, l0, q1) /\ Holds(l0, q1) \subseteq Holds(l0, q0)
  <2>1. CASE q1 = q0 \/ q1 = None
    BY <1>6, <2>1, NoLast
  <2>2. CASE q1 = Deliver(q0, None)
    <3>1. PICK x : x = None
      OBVIOUS
    <3>2. /\ Line(r, l0, Deliver(q0, x))
          /\ Holds(l0, Deliver(q0, x)) \subseteq Holds(l0, q0) \cup ({x} \ {None})
      BY <1>6, <3>1, LineGets
    <3> QED BY <2>2, <3>1, <3>2
  <2> QED BY <1>7, <2>1, <2>2
<1>10. Line(r, last'[r], q1) /\ Holds(last'[r], q1) \subseteq Sent(r)
  <2>1. PICK l1 : l1 = last'[r] /\ (l1 = l0 \/ l1 = None)
    BY <1>5
  <2>2. Line(r, l1, q1) /\ Holds(l1, q1) \subseteq Holds(l0, q0)
    <3>1. CASE l1 = l0
      BY <1>9, <3>1
    <3>2. CASE l1 = None
      <4>1. Line(r, None, q1) /\ Holds(None, q1) \subseteq Holds(l0, q1)
        BY <1>9, NoLast
      <4> QED BY <1>9, <3>2, <4>1
    <3> QED BY <2>1, <3>1, <3>2
  <2> QED BY <1>6, <2>1, <2>2
<1>11. InLine(r)'
  <2>1. NoMore(r)
    BY <1>3, <1>7, <1>10 DEF NoMore
  <2> QED BY <1>1, <2>1, NoMoreInLine
<1> QED
  BY <1>3, <1>8, <1>11 DEF AllInLine

\* Who leaves gets nothing more.
LEMMA EndInLine ==
  ASSUME OrderIInv, NEW r \in Requests, NEW normally \in BOOLEAN,
         End(r, normally), last' = [last EXCEPT ![r] = None], thread' = thread
  PROVE  AllInLine'
<1> DEFINE k == IF normally /\ client[r] = "generate" THEN known \ {r} ELSE known
           c == IF r \notin ToSet(running) /\ r \in ToSet(waiting) THEN "ghost" ELSE "gone"
<1>1. MllmIInv /\ OneEach /\ \A q \in Requests : InLine(q)
  BY DEF OrderIInv
<1>2. /\ client' = [client EXCEPT ![r] = c] /\ k \in SUBSET Requests
      /\ client \in [Requests -> {"none", "stream", "generate", "gone", "ghost"}]
      /\ queue \in [Requests -> Queues \cup {None}]
      /\ last \in [Requests -> Items \cup {None}]
  BY <1>1 DEF End, MllmIInv, MllmTyped
<1>3. /\ last'[r] = None /\ client'[r] # "none"
      /\ \A q \in Requests : q # r => last'[q] = last[q] /\ client'[q] = client[q]
  BY <1>2
<1>4. CASE r \in ToSet(running) /\ r \in known
  <2>1. Abort(r, k, TRUE)
    BY <1>4 DEF End
  <2> HIDE DEF k
  <2> QED BY <1>2, <1>3, <2>1, AbortInLine
<1>5. CASE ~ (r \in ToSet(running) /\ r \in known)
  <2>1. queue' = [queue EXCEPT ![r] = None] /\ UNCHANGED <<waiting, running, req>>
    BY <1>5 DEF End
  <2>2. OneEach' /\ Outgoing' = Outgoing
    BY <1>1 DEF OneEach, Outgoing
  <2>3. ASSUME NEW q \in Requests, q # r PROVE InLine(q)'
    <3>1. NoMore(q)
      BY <1>1, <1>2, <1>3, <2>1, <2>2, <2>3 DEF NoMore, InLine, Sent, Here
    <3> QED BY <1>1, <3>1, NoMoreInLine
  <2>4. InLine(r)'
    <3>1. queue'[r] = None
      BY <1>2, <2>1
    <3>2. Line(r, None, None) /\ Holds(None, None) = {}
      BY DEF Line, Holds
    <3>3. NoMore(r)
      BY <1>3, <2>1, <2>2, <3>1, <3>2 DEF NoMore, Here
    <3> QED BY <1>1, <3>3, NoMoreInLine
  <2> QED BY <2>2, <2>3, <2>4 DEF AllInLine
<1> QED
  BY <1>4, <1>5

\* Who reads gets the first of what waits.
LEMMA GetInLine ==
  ASSUME OrderIInv, NEW r \in Requests, Get(r)
  PROVE  AllInLine'
<1> DEFINE x == Head(queue[r])
           e == x = None \/ (client[r] = "generate" /\ x.fin # "none")
<1>0. /\ Reading(r) /\ queue[r] # << >>
      /\ last' = [last EXCEPT ![r] = IF e THEN None ELSE x]
      /\ IF e THEN End(r, TRUE)
         ELSE /\ queue' = [queue EXCEPT ![r] = Tail(@)]
              /\ UNCHANGED <<known, waiting, running, uid, req, client, aborting>>
      /\ thread' = thread
  BY DEF Get
<1>1. CASE e
  BY <1>0, <1>1, EndInLine
<1>2. CASE ~ e
  <2>1. MllmIInv /\ OneEach /\ \A q \in Requests : InLine(q)
    BY DEF OrderIInv
  <2>2. /\ queue \in [Requests -> Queues \cup {None}]
        /\ last \in [Requests -> Items \cup {None}] /\ queue[r] # None
    BY <1>0, <2>1 DEF MllmIInv, MllmTyped, Placed
  <2>3. PICK q0 \in Queues : q0 = queue[r] /\ q0 # << >>
    BY <1>0, <2>2
  <2>4. /\ queue' = [queue EXCEPT ![r] = Tail(q0)]
        /\ last' = [last EXCEPT ![r] = Head(q0)] /\ Head(q0) # None
        /\ UNCHANGED <<waiting, running, req, client>>
    BY <1>0, <1>2, <2>3
  <2>5. OneEach' /\ Outgoing' = Outgoing
    BY <1>0, <2>1 DEF OneEach, Outgoing
  <2>6. ASSUME NEW q \in Requests, q # r PROVE InLine(q)'
    <3>1. NoMore(q)
      BY <2>1, <2>2, <2>4, <2>5, <2>6 DEF NoMore, InLine, Sent, Here
    <3> QED BY <2>1, <3>1, NoMoreInLine
  <2>7. InLine(r)'
    <3>1. q0 \in Seq(Items \cup {None})
      BY DEF Queues
    <3>2. PICK l : l = last[r] /\ Line(r, l, q0) /\ Sent(r) = Holds(l, q0)
      BY <2>1, <2>3 DEF InLine, Sent
    <3>3. Line(r, Head(q0), Tail(q0)) /\ Holds(Head(q0), Tail(q0)) \subseteq Holds(l, q0)
      BY <2>3, <2>4, <3>1, <3>2, LineTail
    <3>4. last'[r] = Head(q0) /\ queue'[r] = Tail(q0)
      BY <2>2, <2>4
    <3>5. NoMore(r)
      BY <2>4, <2>5, <3>2, <3>3, <3>4 DEF NoMore, Here
    <3> QED BY <2>1, <3>5, NoMoreInLine
  <2> QED BY <2>5, <2>6, <2>7 DEF AllInLine
<1> QED
  BY <1>1, <1>2

\* Who is cancelled is sent the end.
LEMMA CancelInLine ==
  ASSUME OrderIInv, NEW r \in Requests, Cancel(r)
  PROVE  AllInLine'
<1>1. known \in SUBSET Requests
  BY DEF OrderIInv, MllmIInv, MllmTyped
<1>2. /\ Abort(r, known, FALSE) /\ UNCHANGED <<last, client, thread>>
      /\ client[r] # "none"
  BY DEF Cancel, Reading
<1> QED
  BY <1>1, <1>2, AbortInLine

\* So is who waited for the lock.
LEMMA AbortResumesInLine ==
  ASSUME OrderIInv, AbortResumes
  PROVE  AllInLine'
<1>0. MllmIInv /\ OneEach /\ \A q \in Requests : InLine(q)
  BY DEF OrderIInv
<1>1. PICK r \in Requests : r = aborting
  BY <1>0 DEF AbortResumes, MllmIInv, MllmTyped
<1>2. UNCHANGED <<client, last, thread>>
  BY DEF AbortResumes
<1>3. CASE gen = None
  BY <1>2, <1>3, QuietInLine DEF AbortResumes, Here
<1>4. CASE gen # None
  <2>1. PICK left \in BOOLEAN : left = (queue[r] = None)
    OBVIOUS
  <2>2. known \in SUBSET Requests /\ Forget(r, known, left)
    BY <1>0, <1>1, <1>4, <2>1 DEF AbortResumes, MllmIInv, MllmTyped
  <2>3. Forgotten(r, known, left)
    BY <1>0, <2>2, ForgetFacts
  <2>4. /\ ToSet(waiting') = ToSet(waiting) \ {r}
        /\ ToSet(running') = ToSet(running) \ {r}
        /\ queue'[r] = IF left THEN None ELSE Deliver(queue[r], None)
        /\ \A q \in Requests : q # r => queue'[q] = queue[q] /\ req'[q] = req[q]
    BY <2>3 DEF Forgotten
  <2>5. OneEach' /\ Outgoing' = Outgoing
    BY <1>0, <1>2 DEF OneEach, Outgoing
  <2>6. ASSUME NEW q \in Requests, q # r PROVE InLine(q)'
    <3>1. NoMore(q)
      BY <1>0, <1>2, <2>4, <2>5, <2>6 DEF NoMore, InLine, Sent, Here
    <3> QED BY <1>0, <3>1, NoMoreInLine
  <2>7. InLine(r)'
    <3>1. PICK q0 \in Queues \cup {None} : q0 = queue[r]
      BY <1>0 DEF MllmIInv, MllmTyped
    <3>2. PICK l : l = last[r] /\ Line(r, l, q0) /\ Sent(r) = Holds(l, q0)
      BY <1>0, <3>1 DEF InLine, Sent
    <3>3. PICK x : x = None
      OBVIOUS
    <3>4. /\ Line(r, l, Deliver(q0, x)) /\ Line(r, l, None)
          /\ Holds(l, Deliver(q0, x)) \subseteq Holds(l, q0) \cup ({x} \ {None})
          /\ Holds(l, None) \subseteq Holds(l, q0)
      BY <3>2, <3>3, LineGets, NoLast
    <3>5. Line(r, last'[r], queue'[r]) /\ Holds(last'[r], queue'[r]) \subseteq Sent(r)
      BY <1>2, <2>4, <3>1, <3>2, <3>3, <3>4
    <3>6. NoMore(r)
      BY <1>2, <2>4, <2>5, <3>5 DEF NoMore
    <3> QED BY <1>0, <3>6, NoMoreInLine
  <2> QED BY <2>5, <2>6, <2>7 DEF AllInLine
<1> QED
  BY <1>3, <1>4

\* A reset sends the end.
LEMMA ResetInLine ==
  ASSUME OrderIInv, Reset
  PROVE  AllInLine'
<1>0. MllmIInv /\ OneEach /\ \A q \in Requests : InLine(q)
  BY DEF OrderIInv
<1>1. ToSet(waiting') = {} /\ ToSet(running') = {}
  BY DEF Reset, ToSet
<1>2. UNCHANGED <<client, last, thread>>
  BY DEF Reset
<1>3. OneEach' /\ Outgoing' = Outgoing
  BY <1>0, <1>2 DEF OneEach, Outgoing
<1>4. ASSUME NEW r \in Requests PROVE InLine(r)'
  <2>1. PICK q0 \in Queues \cup {None} : q0 = queue[r]
    BY <1>0 DEF MllmIInv, MllmTyped
  <2>2. PICK l : l = last[r] /\ Line(r, l, q0) /\ Sent(r) = Holds(l, q0)
    BY <1>0, <2>1 DEF InLine, Sent
  <2>3. PICK x : x = None
    OBVIOUS
  <2>4. /\ Line(r, l, Offer(q0, x))
        /\ Holds(l, Offer(q0, x)) \subseteq Holds(l, q0) \cup ({x} \ {None})
    BY <2>2, <2>3, LineGets
  <2>5. queue'[r] = Offer(q0, x)
    BY <2>1, <2>3 DEF Reset
  <2>6. NoMore(r)
    BY <1>1, <1>2, <1>3, <2>2, <2>3, <2>4, <2>5 DEF NoMore
  <2> QED BY <1>0, <2>6, NoMoreInLine
<1> QED
  BY <1>3, <1>4 DEF AllInLine

\* Scheduling delivers nothing.
LEMMA ScheduleInLine ==
  ASSUME OrderIInv, Schedule
  PROVE  AllInLine'
<1> DEFINE free == MaxNumSeqs - Len(running)
           most == IF free < Len(waiting) THEN free ELSE Len(waiting)
<1>0. MllmIInv /\ OneEach /\ \A q \in Requests : InLine(q)
  BY DEF OrderIInv
<1>1. PICK k \in 0 .. most :
        /\ waiting' = SubSeq(waiting, k + 1, Len(waiting))
        /\ running' = running \o SubSeq(waiting, 1, k)
        /\ req' = [r \in Requests |->
             IF r \notin ToSet(SubSeq(waiting, 1, k)) THEN req[r]
             ELSE [req[r] EXCEPT !.status = "running", !.added = StopIds[r]]]
        /\ thread' = At(IF running' = << >> THEN "done" ELSE "gen") \/ thread' = At("raised")
  BY DEF Schedule
<1>2. UNCHANGED <<queue, client, last>>
  BY DEF Schedule, ends
<1>3. PICK s \in Seq(Requests) : s = waiting
  BY <1>0, TwoLists
<1>4. PICK t \in Seq(Requests) : t = running
  BY <1>0, TwoLists
<1>5. k \in 0 .. Len(s)
  <2>1. Len(s) \in Nat /\ Len(t) \in Nat /\ MaxNumSeqs \in Nat
    BY Members, MllmAssumption
  <2> QED BY <1>3, <1>4, <2>1
<1>6. PICK new \in Seq(Requests) : new = SubSeq(s, 1, k)
  BY <1>5, SplitFacts
<1>7. ToSet(s) = ToSet(new) \cup ToSet(waiting')
  BY <1>1, <1>3, <1>5, <1>6, SplitFacts
<1>8. ToSet(running') = ToSet(t) \cup ToSet(new)
  <2>1. ToSet(t \o new) = ToSet(t) \cup ToSet(new)
    BY ConcatFacts
  <2>2. running' = t \o new
    BY <1>1, <1>3, <1>4, <1>6
  <2> QED BY <2>1, <2>2
<1>9. ToSet(waiting') \cup ToSet(running') = Here
  BY <1>3, <1>4, <1>7, <1>8 DEF Here
<1>10. \A q \in Requests : req'[q].retries = req[q].retries /\ req'[q].made = req[q].made
  <2>1. req \in [Requests -> Reqs]
    BY <1>0 DEF MllmIInv, MllmTyped
  <2>2. \A x \in Reqs : \A a : /\ [x EXCEPT !.status = "running", !.added = a].retries = x.retries
                               /\ [x EXCEPT !.status = "running", !.added = a].made = x.made
    BY DEF Reqs
  <2> QED BY <1>1, <2>1, <2>2
<1>11. thread'.outs = << >>
  <2>1. PICK p : thread' = At(p)
    BY <1>1
  <2> QED BY <2>1 DEF At
<1>12. OneEach' /\ Outgoing' \subseteq Outgoing
  BY <1>11 DEF OneEach, Outgoing, ToSet
<1>13. ASSUME NEW q \in Requests PROVE InLine(q)'
  <2>1. NoMore(q)
    BY <1>0, <1>2, <1>9, <1>10, <1>12 DEF NoMore, InLine, Sent
  <2> QED BY <1>0, <2>1, NoMoreInLine
<1> QED
  BY <1>12, <1>13 DEF AllInLine

\* A new attempt comes after all the tokens of the one before.
LEMMA RecoverInLine ==
  ASSUME OrderIInv, Recover
  PROVE  AllInLine'
<1> DEFINE told == Only(GivenUp, known)
           outs == [i \in DOMAIN told |-> Out(told[i], None, "error")]
<1>0. MllmIInv /\ OneEach /\ \A q \in Requests : InLine(q)
  BY DEF OrderIInv
<1>1. /\ waiting' = Reverse(Retrying) \o waiting
      /\ req' = [r \in Requests |->
              IF r \in ToSet(Retrying)
              THEN Again(r)
              ELSE IF r \in ToSet(GivenUp) THEN NewReq ELSE req[r]]
      /\ thread' = [at |-> "done", outs |-> outs]
      /\ running' = << >>
      /\ UNCHANGED <<queue, client, last>>
  BY DEF Recover, Retrying, GivenUp, ends
<1>2. /\ Retrying \in Seq(Requests) /\ GivenUp \in Seq(Requests) /\ IsInjective(GivenUp)
      /\ ToSet(running) = ToSet(Retrying) \cup ToSet(GivenUp)
      /\ ToSet(Retrying) \cap ToSet(GivenUp) = {}
  BY <1>0, RecoverParts
<1>3. told \in Seq(Requests) /\ ToSet(told) \subseteq ToSet(GivenUp) /\ IsInjective(told)
  <2>1. PICK s \in Seq(Requests) : s = GivenUp /\ IsInjective(s)
    BY <1>2
  <2> QED BY <2>1, OnlyFacts
<1> HIDE DEF told
<1>4. \A i \in DOMAIN outs : i \in DOMAIN told /\ outs[i].req = told[i] /\ outs[i].tok = None
  BY DEF Out
<1>5. thread'.at = "done" /\ thread'.outs = outs
  BY <1>1
<1> HIDE DEF outs
<1>6. OneEach'
  BY <1>3, <1>4, <1>5 DEF OneEach, IsInjective
<1>7. \A o \in Outgoing' : o.req \in ToSet(GivenUp) /\ o.tok = None
  <2> SUFFICES ASSUME NEW o \in Outgoing' PROVE o.req \in ToSet(GivenUp) /\ o.tok = None
    OBVIOUS
  <2>1. Outgoing' = ToSet(outs)
    BY <1>5 DEF Outgoing
  <2>2. PICK i \in DOMAIN outs : outs[i] = o
    BY <2>1 DEF ToSet
  <2>3. told[i] \in ToSet(told)
    BY <1>3, <1>4, Members
  <2> QED BY <1>3, <1>4, <2>2, <2>3
<1>8. ToSet(waiting') = ToSet(Retrying) \cup ToSet(waiting) /\ ToSet(running') = {}
  <2>1. PICK s \in Seq(Requests) : s = Reverse(Retrying) /\ ToSet(s) = ToSet(Retrying)
    BY <1>2, ReverseFacts
  <2>2. PICK w \in Seq(Requests) : w = waiting
    BY <1>0, TwoLists
  <2>3. ToSet(s \o w) = ToSet(s) \cup ToSet(w)
    BY ConcatFacts
  <2>4. ToSet(running') = {}
    BY <1>1 DEF ToSet
  <2> QED BY <1>1, <2>1, <2>2, <2>3, <2>4
<1>9. ToSet(waiting) \cap ToSet(running) = {} /\ ToSet(running) \subseteq Here
  BY <1>0, TwoLists DEF Here
<1>10. ASSUME NEW q \in Requests PROVE InLine(q)'
  <2>1. InLine(q)
    BY <1>0
  <2>2. Line(q, last[q], queue[q])' /\ Sent(q)' = Sent(q)
    BY <1>1, <2>1 DEF InLine, Sent
  <2>3. q \in Here' => (\A o \in Sent(q) : Under(o, q))'
    <3> SUFFICES ASSUME q \in Here', NEW o \in Sent(q)
                 PROVE  Under(o, q)'
      BY <2>2
    <3>1. q \in Here /\ q \notin ToSet(GivenUp)
      BY <1>2, <1>8, <1>9 DEF Here
    <3>2. Under(o, q)
      BY <2>1, <3>1 DEF InLine
    <3>3. CASE q \notin ToSet(Retrying)
      <4>1. req'[q] = req[q]
        BY <1>1, <3>1, <3>3
      <4> QED BY <3>2, <4>1 DEF Under
    <3>4. CASE q \in ToSet(Retrying)
      <4>1. PICK x \in Reqs : x = req[q]
        BY <1>0 DEF MllmIInv, MllmTyped
      <4>2. PICK a \in Nat, b \in Nat : a = x.retries /\ b = x.made
        BY DEF Reqs
      <4>3. o.tok \in Nat \X Nat
        <5>1. o \in Items
          BY <1>0 DEF Sent, Holds, MllmIInv, MllmTyped, Queues, ToSet
        <5> QED BY <3>2, <5>1, ItemFields DEF Under
      <4>4. NotAfter(o.tok, <<a + 1, 0>>)
        BY <3>2, <4>1, <4>2, <4>3, Numbers DEF Under
      <4>5. req'[q].retries = a + 1 /\ req'[q].made = 0
        <5>1. /\ [x EXCEPT !.status = "waiting", !.made = 0, !.retries = @ + 1].retries = x.retries + 1
              /\ [x EXCEPT !.status = "waiting", !.made = 0, !.retries = @ + 1].made = 0
          BY DEF Reqs
        <5> QED BY <1>1, <3>4, <4>1, <4>2, <5>1 DEF Again
      <4> QED BY <3>2, <4>4, <4>5 DEF Under
    <3> QED BY <3>3, <3>4
  <2>4. ASSUME NEW o \in Outgoing', o.req = q
        PROVE  client'[q] # "none" /\ (\A p \in Sent(q)' : Precedes(p, o)) /\ q \notin Here'
    <3>1. q \in ToSet(GivenUp) /\ o.tok = None
      BY <1>7, <2>4
    <3>2. q \in Here /\ q \notin Here'
      BY <1>2, <1>8, <1>9, <3>1 DEF Here
    <3>3. client'[q] # "none"
      BY <1>0, <1>1, <3>2 DEF MllmIInv, Placed
    <3>4. \A p \in Sent(q) : p.fin = "none"
      BY <2>1, <3>2 DEF InLine, Under
    <3> QED BY <2>2, <3>1, <3>2, <3>3, <3>4 DEF Precedes
  <2> QED BY <2>2, <2>3, <2>4 DEF InLine
<1> QED
  BY <1>6, <1>10 DEF AllInLine

\* What a queue holds, and what was received last, are items.
LEMMA SentItems ==
  ASSUME MllmIInv, NEW r \in Requests
  PROVE  Sent(r) \subseteq Items
<1>1. last[r] \in Items \cup {None}
  BY DEF MllmIInv, MllmTyped
<1>2. PICK q \in Queues \cup {None} : q = queue[r]
  BY DEF MllmIInv, MllmTyped
<1>3. q # None => ToSet(q) \subseteq Items \cup {None}
  BY Members DEF Queues
<1> QED
  BY <1>1, <1>2, <1>3 DEF Sent, Holds

\* The token of a step comes after those that were sent.
LEMMA ProcessInLine ==
  ASSUME OrderIInv, Process
  PROVE  AllInLine'
<1>0. MllmIInv /\ OneEach /\ \A q \in Requests : InLine(q)
  BY DEF OrderIInv
<1>1. thread.at = "resp"
  BY DEF Process
<1>2. PICK cut \in SUBSET ToSet(running) : Processed(cut)
  BY ProcessIs
<1> DEFINE outs == Outputs(cut)
           fins == Finished(cut)
<1>3. /\ req' = [r \in Requests |->
                   IF r \in fins THEN NewReq
                   ELSE IF \E i \in DOMAIN outs : outs[i].req = r
                   THEN [req[r] EXCEPT !.made = @ + 1] ELSE req[r]]
      /\ thread' = [at |-> "done", outs |-> outs]
      /\ running' = Without(running, fins)
      /\ UNCHANGED <<waiting, queue, client, last>>
  BY <1>2 DEF Processed, ends
<1>4. /\ \A i, j \in DOMAIN outs : outs[i].req = outs[j].req => i = j
      /\ \A i \in DOMAIN outs :
           /\ outs[i].req \in ToSet(running)
           /\ outs[i].tok = <<req[outs[i].req].retries, req[outs[i].req].made + 1>>
  <2>1. \A i, j \in DOMAIN Outputs(cut) :
          Outputs(cut)[i].req = Outputs(cut)[j].req => i = j
    BY <1>0, <1>1, OutputsFacts
  <2>2. ASSUME NEW i \in DOMAIN outs
        PROVE  /\ outs[i].req \in ToSet(running)
               /\ outs[i].tok = <<req[outs[i].req].retries, req[outs[i].req].made + 1>>
    <3>1. PICK o \in ToSet(thread.outs) :
            /\ Owner(o) # None /\ outs[i].req = Owner(o)
            /\ outs[i].tok = <<req[outs[i].req].retries, req[outs[i].req].made + 1>>
      BY <1>0, <1>1, OutputsFacts
    <3> QED BY <3>1, OwnerFacts
  <2> QED BY <2>1, <2>2
<1>5. \A i \in DOMAIN outs : outs[i].fin # "none" => outs[i].req \in fins
  BY DEF Finished
<1>6. fins \subseteq ToSet(running)
  BY <1>4 DEF Finished
<1> HIDE DEF outs, fins
<1>7. ToSet(running') = ToSet(running) \ fins
  <2>1. PICK s \in Seq(Requests) : s = running
    BY <1>0, TwoLists
  <2> QED BY <1>3, <2>1, WithoutFacts
<1>8. thread'.at = "done" /\ thread'.outs = outs
  BY <1>3
<1>9. OneEach'
  BY <1>4, <1>8 DEF OneEach
<1>10. Outgoing' = ToSet(outs)
  BY <1>8 DEF Outgoing
<1>11. ToSet(waiting) \cap ToSet(running) = {} /\ ToSet(running) \subseteq Requests
  BY <1>0, TwoLists
<1>12. ASSUME NEW q \in Requests PROVE InLine(q)'
  <2>1. InLine(q)
    BY <1>0
  <2>2. Line(q, last[q], queue[q])' /\ Sent(q)' = Sent(q)
    BY <1>3, <2>1 DEF InLine, Sent
  <2>3. q \in Here' => q \in Here /\ q \notin fins
    BY <1>3, <1>6, <1>7, <1>11 DEF Here
  <2>4. PICK x \in Reqs : x = req[q]
    BY <1>0 DEF MllmIInv, MllmTyped
  <2>5. PICK a \in Nat, b \in Nat : a = x.retries /\ b = x.made
    BY DEF Reqs
  <2>6. ASSUME q \in Here, NEW p \in Sent(q)
        PROVE  /\ p.fin = "none" /\ NotAfter(p.tok, <<a, b>>)
               /\ NotAfter(p.tok, <<a, b + 1>>) /\ Later(p.tok, <<a, b + 1>>)
    <3>1. p.fin = "none" /\ NotAfter(p.tok, <<a, b>>)
      BY <2>1, <2>4, <2>5, <2>6 DEF InLine, Under
    <3>2. p \in Items
      BY <1>0, SentItems
    <3>3. p.tok \in Nat \X Nat
      BY <3>1, <3>2, ItemFields
    <3> QED BY <3>1, <3>3, Numbers
  <2>7. q \notin fins /\ (\E i \in DOMAIN outs : outs[i].req = q) =>
          req'[q].retries = a /\ req'[q].made = b + 1
    <3>1. [x EXCEPT !.made = @ + 1].retries = x.retries
          /\ [x EXCEPT !.made = @ + 1].made = x.made + 1
      BY DEF Reqs
    <3> QED BY <1>3, <2>4, <2>5, <3>1
  <2>8. q \notin fins /\ ~ (\E i \in DOMAIN outs : outs[i].req = q) =>
          req'[q].retries = a /\ req'[q].made = b
    BY <1>3, <2>4, <2>5
  <2>9. q \in Here' => (\A o \in Sent(q) : Under(o, q))'
    BY <2>2, <2>3, <2>6, <2>7, <2>8 DEF Under
  <2>10. ASSUME NEW o \in Outgoing', o.req = q
         PROVE  /\ client'[q] # "none" /\ \A p \in Sent(q)' : Precedes(p, o)
                /\ q \in Here' => Under(o, q)'
    <3>1. PICK i \in DOMAIN outs : outs[i] = o
      BY <1>10, <2>10 DEF ToSet
    <3>2. q \in ToSet(running) /\ o.tok = <<a, b + 1>>
      BY <1>4, <2>4, <2>5, <2>10, <3>1
    <3>3. q \in Here
      BY <3>2 DEF Here
    <3>4. client'[q] # "none"
      BY <1>0, <1>3, <3>3 DEF MllmIInv, Placed
    <3>5. \A p \in Sent(q) : Precedes(p, o)
      BY <2>6, <3>2, <3>3 DEF Precedes
    <3>6. q \in Here' => Under(o, q)'
      <4> SUFFICES ASSUME q \in Here' PROVE Under(o, q)'
        OBVIOUS
      <4>1. q \notin fins /\ o.fin = "none"
        BY <1>5, <2>3, <2>10, <3>1
      <4>2. req'[q].retries = a /\ req'[q].made = b + 1
        BY <2>7, <2>10, <3>1, <4>1
      <4>3. NotAfter(<<a, b + 1>>, <<a, b + 1>>)
        BY DEF NotAfter
      <4> QED BY <3>2, <4>1, <4>2, <4>3 DEF Under
    <3> QED BY <2>2, <3>4, <3>5, <3>6
  <2> QED BY <2>2, <2>9, <2>10 DEF InLine
<1> QED
  BY <1>9, <1>12 DEF AllInLine

\* A queue gets the one output there is for it.
LEMMA DispatchingOnce ==
  ASSUME NEW outs \in Seq(Items), queue \in Boxes, NEW r \in Requests,
         \A i, j \in DOMAIN outs : outs[i].req = outs[j].req => i = j
  PROVE  \/ /\ \A o \in ToSet(outs) : o.req # r
            /\ Dispatching(outs)[r] = queue[r]
         \/ \E o \in ToSet(outs) : o.req = r /\ Dispatching(outs)[r] = Dispatched(queue[r], o)
<1> DEFINE N == Len(outs)
<1>0. N \in Nat /\ DOMAIN outs = 1 .. N /\ \A n \in 1 .. N : outs[n] \in Items
  BY Members
<1>1. PICK f : DispatchRun(outs, f)
  BY DispatchUnfolds
<1> DEFINE G == {n \in 0 .. N :
                   /\ (\A i \in 1 .. n : outs[i].req # r) => f[n][r] = queue[r]
                   /\ \A i \in 1 .. n : outs[i].req = r => f[n][r] = Dispatched(queue[r], outs[i])}
<1>2. 0 \in G
  <2>1. f[0] = queue /\ 0 \in 0 .. N
    BY <1>0, <1>1 DEF DispatchRun
  <2> QED BY <2>1
<1>3. ASSUME NEW n \in 1 .. N, n - 1 \in G PROVE n \in G
  <2>1. PICK p \in Boxes : p = f[n - 1]
    BY <1>0, <1>1 DEF DispatchRun
  <2>2. PICK o \in Items : o = outs[n] /\ o.req \in Requests
    BY <1>0, ItemFields
  <2>3. f[n] = [p EXCEPT ![o.req] = Dispatched(p[o.req], o)]
    BY <1>1, <2>1, <2>2 DEF DispatchRun
  <2>4. \A i \in 1 .. n : i \in 1 .. n - 1 \/ i = n
    BY <1>0
  <2>5. \A i \in 1 .. n - 1 : i \in 1 .. n /\ i \in DOMAIN outs /\ n \in DOMAIN outs /\ i # n
    BY <1>0
  <2>6. n \in 0 .. N /\ n \in 1 .. n
    BY <1>0
  <2>7. /\ (\A i \in 1 .. n - 1 : outs[i].req # r) => p[r] = queue[r]
        /\ \A i \in 1 .. n - 1 : outs[i].req = r => p[r] = Dispatched(queue[r], outs[i])
    BY <1>3, <2>1
  <2>8. CASE o.req # r
    <3>1. f[n][r] = p[r]
      BY <2>3, <2>8 DEF Boxes
    <3>2. (\A i \in 1 .. n : outs[i].req # r) => f[n][r] = queue[r]
      BY <2>5, <2>7, <3>1
    <3>3. \A i \in 1 .. n : outs[i].req = r => f[n][r] = Dispatched(queue[r], outs[i])
      BY <2>2, <2>4, <2>7, <2>8, <3>1
    <3> HIDE DEF N
    <3> QED BY <2>6, <3>2, <3>3
  <2>9. CASE o.req = r
    <3>1. \A i \in 1 .. n - 1 : outs[i].req # r
      BY <2>2, <2>5, <2>9
    <3>2. f[n][r] = Dispatched(queue[r], o)
      <4>1. p[r] = queue[r]
        BY <2>7, <3>1
      <4> QED BY <2>3, <2>9, <4>1 DEF Boxes
    <3>3. ~ (\A i \in 1 .. n : outs[i].req # r)
      BY <2>2, <2>6, <2>9
    <3>4. \A i \in 1 .. n : outs[i].req = r => f[n][r] = Dispatched(queue[r], outs[i])
      BY <2>2, <2>4, <3>1, <3>2
    <3> HIDE DEF N
    <3> QED BY <2>6, <3>3, <3>4
  <2> QED BY <2>8, <2>9
<1>4. N \in G
  <2> HIDE DEF G, N
  <2>1. \A n \in 0 .. N : n \in G
    BY <1>0, <1>2, <1>3, UpTo
  <2> QED BY <1>0, <2>1
<1>5. Dispatching(outs) = f[N]
  BY <1>1 DEF DispatchRun
<1>6. CASE \A i \in 1 .. N : outs[i].req # r
  <2>1. \A o \in ToSet(outs) : o.req # r
    BY <1>0, <1>6 DEF ToSet
  <2> QED BY <1>4, <1>5, <1>6, <2>1
<1>7. CASE \E i \in 1 .. N : outs[i].req = r
  <2>1. PICK i \in 1 .. N : outs[i].req = r
    BY <1>7
  <2>2. outs[i] \in ToSet(outs)
    BY <1>0, Members
  <2> QED BY <1>4, <1>5, <2>1, <2>2
<1> QED
  BY <1>6, <1>7

\* What is dispatched comes after what was.
LEMMA DispatchInLine ==
  ASSUME OrderIInv, Dispatch
  PROVE  AllInLine'
<1>0. MllmIInv /\ OneEach /\ \A q \in Requests : InLine(q)
  BY DEF OrderIInv
<1>1. /\ thread.at = "done" /\ thread' = Idle
      /\ queue' = IF alive THEN Dispatching(thread.outs) ELSE queue
      /\ UNCHANGED <<waiting, running, req, client, last>>
  BY DEF Dispatch, serving
<1>2. thread'.at # "done"
  BY <1>1 DEF Idle
<1>3. OneEach' /\ Outgoing' = {}
  BY <1>2 DEF OneEach, Outgoing
<1>4. CASE ~ alive
  BY <1>1, <1>2, <1>4, QuietInLine DEF Here
<1>5. CASE alive
  <2>1. PICK outs \in Seq(Items) : outs = thread.outs /\ Outgoing = ToSet(outs)
    BY <1>0, <1>1 DEF MllmIInv, MllmTyped, Outgoing
  <2>2. queue \in Boxes /\ queue' = Dispatching(outs)
    BY <1>0, <1>1, <1>5, <2>1 DEF MllmIInv, MllmTyped, Boxes
  <2>3. \A i, j \in DOMAIN outs : outs[i].req = outs[j].req => i = j
    BY <1>0, <1>1, <2>1 DEF OneEach
  <2>4. ASSUME NEW r \in Requests PROVE InLine(r)'
    <3>0. InLine(r)
      BY <1>0
    <3>1. CASE queue'[r] = queue[r]
      <4>1. NoMore(r)
        BY <1>1, <1>3, <3>0, <3>1 DEF NoMore, InLine, Sent, Here
      <4> QED BY <3>0, <4>1, NoMoreInLine
    <3>2. CASE queue'[r] # queue[r]
      <4>1. PICK o \in ToSet(outs) : o.req = r /\ queue'[r] = Dispatched(queue[r], o)
        BY <2>2, <2>3, <3>2, DispatchingOnce
      <4>2. o \in Items
        BY <4>1, Members
      <4>3. PICK q \in Queues \cup {None} : q = queue[r]
        BY <2>2 DEF Boxes
      <4>4. PICK l : l = last[r] /\ Line(r, l, q) /\ Sent(r) = Holds(l, q)
        BY <3>0, <4>3 DEF InLine, Sent
      <4>5. (\A p \in Holds(l, q) : Precedes(p, o)) /\ (r \in Here => Under(o, r))
        BY <2>1, <3>0, <4>1, <4>4 DEF InLine
      <4>6. /\ Line(r, l, Dispatched(q, o))
            /\ Holds(l, Dispatched(q, o)) \subseteq Holds(l, q) \cup {o}
        BY <4>1, <4>2, <4>4, <4>5, LineDispatched
      <4>7. Line(r, last'[r], queue'[r]) /\ Sent(r)' \subseteq Sent(r) \cup {o}
        BY <1>1, <4>1, <4>3, <4>4, <4>6 DEF Sent
      <4>8. r \in Here' => r \in Here /\ \A p : Under(p, r)' <=> Under(p, r)
        BY <1>1 DEF Here, Under
      <4>9. r \in Here' => (\A p \in Sent(r) : Under(p, r))'
        BY <3>0, <4>5, <4>7, <4>8 DEF InLine
      <4> QED BY <1>3, <4>7, <4>9 DEF InLine
    <3> QED BY <3>1, <3>2
  <2> QED BY <1>3, <2>4 DEF AllInLine
<1> QED
  BY <1>4, <1>5

\* The error comes after what was sent.
LEMMA FailAllInLine ==
  ASSUME OrderIInv, FailAll
  PROVE  AllInLine'
<1>0. MllmIInv /\ OneEach /\ \A q \in Requests : InLine(q)
  BY DEF OrderIInv
<1>1. /\ thread' = Idle /\ UNCHANGED <<client, last>>
  BY DEF FailAll
<1>2. thread'.at # "done"
  BY <1>1 DEF Idle
<1>3. OneEach' /\ Outgoing' = {}
  BY <1>2 DEF OneEach, Outgoing
<1>4. CASE ~ alive
  BY <1>1, <1>2, <1>4, QuietInLine DEF FailAll, Here
<1>5. CASE alive
  <2> DEFINE lost == ToSet(running \o waiting)
  <2>1. /\ queue' = [r \in Requests |-> IF r \in lost THEN Failed(queue[r], r) ELSE queue[r]]
        /\ waiting' = << >> /\ running' = << >>
    BY <1>5 DEF FailAll, Tell
  <2>2. lost = Here
    <3>1. PICK s \in Seq(Requests) : s = running
      BY <1>0, TwoLists
    <3>2. PICK t \in Seq(Requests) : t = waiting
      BY <1>0, TwoLists
    <3> QED BY <3>1, <3>2, ConcatFacts DEF Here
  <2> HIDE DEF lost
  <2>3. ToSet(waiting') = {} /\ ToSet(running') = {}
    BY <2>1 DEF ToSet
  <2>4. ASSUME NEW r \in Requests PROVE InLine(r)'
    <3>0. InLine(r) /\ r \notin Here'
      BY <1>0, <2>3 DEF Here
    <3>1. CASE r \notin Here
      <4>1. queue'[r] = queue[r]
        BY <2>1, <2>2, <3>1
      <4>2. NoMore(r)
        BY <1>1, <1>3, <2>3, <3>0, <4>1 DEF NoMore, InLine, Sent
      <4> QED BY <3>0, <4>2, NoMoreInLine
    <3>2. CASE r \in Here
      <4>1. queue'[r] = Failed(queue[r], r)
        BY <2>1, <2>2, <3>2
      <4>2. PICK q \in Queues \cup {None} : q = queue[r]
        BY <1>0 DEF MllmIInv, MllmTyped
      <4>3. PICK l : l = last[r] /\ Line(r, l, q) /\ Sent(r) = Holds(l, q)
        BY <3>0, <4>2 DEF InLine, Sent
      <4>4. \A p \in Holds(l, q) : p.fin = "none"
        BY <3>0, <3>2, <4>3 DEF InLine, Under
      <4>5. Line(r, l, Failed(q, r))
        BY <4>3, <4>4, LineFailed
      <4>6. Line(r, last[r], queue[r])'
        BY <1>1, <4>1, <4>2, <4>3, <4>5
      <4> QED BY <1>3, <3>0, <4>6 DEF InLine
    <3> QED BY <3>1, <3>2
  <2> QED BY <1>3, <2>4 DEF AllInLine
<1> QED
  BY <1>4, <1>5

\* Every step keeps the order.
LEMMA OrderNext == OrderIInv /\ [Next]_vars => OrderIInv'
<1> SUFFICES ASSUME OrderIInv, [Next]_vars PROVE AllInLine'
  <2>1. OrderIInv /\ [Next]_vars => MllmIInv'
    BY MllmNextSound DEF OrderIInv
  <2> QED BY <2>1 DEF OrderIInv, AllInLine
<1>1. CASE StartStep \/ CreateFails \/ NextTokens \/ NextRaises \/ DropGenerator
           \/ ProcessRaises
  <2>1. UNCHANGED <<req, queue, last, client, waiting, running>>
    BY <1>1 DEF StartStep, CreateFails, NextTokens, NextRaises,
       DropGenerator, ProcessRaises, serving, ends
  <2>2. thread'.at # "done"
    BY <1>1 DEF StartStep, CreateFails, NextTokens, NextRaises,
       DropGenerator, ProcessRaises, At
  <2> QED BY <2>1, <2>2, QuietInLine DEF Here
<1>2. CASE Schedule \/ Recover \/ Process \/ Dispatch \/ FailAll
  BY <1>2, ScheduleInLine, RecoverInLine, ProcessInLine, DispatchInLine, FailAllInLine
<1>3. CASE AbortResumes \/ Reset
  BY <1>3, AbortResumesInLine, ResetInLine
<1>4. CASE Stop \/ UNCHANGED vars
  <2>1. UNCHANGED <<req, queue, last, client, waiting, running, thread>>
    BY <1>4 DEF Stop, vars, serving, ends
  <2> QED BY <2>1, QuietInLine DEF Here
<1>5. CASE \E r \in Requests : Client(r)
  <2>1. PICK r \in Requests : Client(r)
    BY <1>5
  <2>2. CASE Leave(r)
    BY <2>2, EndInLine DEF Leave
  <2>3. CASE Add(r) \/ Get(r) \/ Cancel(r)
    BY <2>3, AddInLine, GetInLine, CancelInLine
  <2> QED BY <2>1, <2>2, <2>3 DEF Client
<1> QED
  BY <1>1, <1>2, <1>3, <1>4, <1>5 DEF Next, Step

\* What is received last comes before what the queue holds, in its order.
LEMMA PipelineOrder ==
  ASSUME MllmIInv, NEW r \in Requests, InLine(r)
  PROVE  /\ Pipeline(r) \in Seq(Items)
         /\ \A i \in DOMAIN Pipeline(r) : Pipeline(r)[i].req = r
         /\ \A i, j \in DOMAIN Pipeline(r) : i < j =>
              Precedes(Pipeline(r)[i], Pipeline(r)[j])
<1>1. PICK q \in Queues \cup {None} : q = queue[r]
  BY DEF MllmIInv, MllmTyped
<1>2. PICK l \in Items \cup {None} : l = last[r]
  BY DEF MllmIInv, MllmTyped
<1>3. Line(r, l, q)
  BY <1>1, <1>2 DEF InLine
<1> DEFINE w == IF q = None THEN << >> ELSE Without(q, {None})
           h == IF l = None THEN << >> ELSE <<l>>
<1>4. Pipeline(r) = h \o w
  BY <1>1, <1>2 DEF Pipeline
<1>5. h \in Seq(Items) /\ (\A i \in DOMAIN h : h[i] = l /\ l # None) /\ Len(h) <= 1
  BY <1>2
<1>6. /\ w \in Seq(Items)
      /\ \A i \in DOMAIN w : w[i].req = r /\ (l # None => Precedes(l, w[i]))
      /\ \A i, j \in DOMAIN w : i < j => Precedes(w[i], w[j])
  <2>1. CASE q = None
    BY <2>1
  <2>2. CASE q # None
    <3>1. q \in Seq(Items \cup {None})
      BY <2>2 DEF Queues
    <3> DEFINE T == Items \cup {None}
    <3> HIDE DEF T
    <3>2. q \in Seq(T)
      BY <3>1 DEF T
    <3>3. PICK k \in Seq(T) : k = Without(q, {None}) /\ ToSet(k) = ToSet(q) \ {None}
      BY <3>2, WithoutFacts
    <3>4. \A i, j \in DOMAIN k : i < j =>
            \E a, b \in DOMAIN q : a < b /\ q[a] = k[i] /\ q[b] = k[j]
      BY <3>2, <3>3, OnlyOrder DEF Without
    <3>5. /\ DOMAIN k = 1 .. Len(k) /\ Len(k) \in Nat
          /\ \A i \in DOMAIN k : k[i] \in ToSet(k) /\ k[i] \in T
      BY <3>3, Members
    <3>6. \A i \in DOMAIN k : k[i] # None /\ \E a \in DOMAIN q : q[a] = k[i]
      <4>1. \A i \in DOMAIN k : k[i] \in ToSet(q) \ {None}
        BY <3>3, <3>5
      <4> QED BY <4>1 DEF ToSet
    <3>7. k \in Seq(Items)
      <4>1. k \in [1 .. Len(k) -> T]
        BY <3>3, LenProperties
      <4>2. k \in [1 .. Len(k) -> Items]
        BY <3>5, <3>6, <4>1 DEF T
      <4> QED BY <3>5, <4>2, IsASeq
    <3>8. \A i \in DOMAIN k : k[i].req = r /\ (l # None => Precedes(l, k[i]))
      BY <1>3, <2>2, <3>6 DEF Line
    <3>9. ASSUME NEW i \in DOMAIN k, NEW j \in DOMAIN k, i < j PROVE Precedes(k[i], k[j])
      <4>1. PICK a \in DOMAIN q, b \in DOMAIN q : a < b /\ q[a] = k[i] /\ q[b] = k[j]
        BY <3>4, <3>9
      <4> QED BY <1>3, <2>2, <3>6, <4>1 DEF Line
    <3> QED BY <2>2, <3>3, <3>7, <3>8, <3>9
  <2> QED BY <2>1, <2>2
<1> HIDE DEF w, h
<1>7. /\ DOMAIN h = 1 .. Len(h) /\ Len(h) \in Nat /\ DOMAIN w = 1 .. Len(w) /\ Len(w) \in Nat
  BY <1>5, <1>6, Members
<1> DEFINE p == h \o w
<1>8. /\ p \in Seq(Items) /\ DOMAIN p = 1 .. Len(h) + Len(w)
      /\ \A i \in 1 .. Len(h) + Len(w) : p[i] = IF i <= Len(h) THEN h[i] ELSE w[i - Len(h)]
  <2>1. /\ p \in Seq(Items) /\ Len(p) = Len(h) + Len(w)
        /\ \A i \in 1 .. Len(h) + Len(w) : p[i] = IF i <= Len(h) THEN h[i] ELSE w[i - Len(h)]
    BY <1>5, <1>6, ConcatProperties
  <2>2. DOMAIN p = 1 .. Len(p)
    BY <2>1, Members
  <2> QED BY <2>1, <2>2
<1> HIDE DEF p
<1>9. \A i \in DOMAIN p : \/ i \in DOMAIN h /\ p[i] = l /\ l # None /\ i = 1
                          \/ i - Len(h) \in DOMAIN w /\ p[i] = w[i - Len(h)] /\ i > Len(h)
  BY <1>5, <1>7, <1>8
<1>10. \A i \in DOMAIN p : p[i].req = r
  BY <1>3, <1>6, <1>9 DEF Line
<1>11. ASSUME NEW i \in DOMAIN p, NEW j \in DOMAIN p, i < j PROVE Precedes(p[i], p[j])
  <2>0. i \in Nat /\ j \in Nat
    BY <1>7, <1>8
  <2>1. CASE i \in DOMAIN h /\ p[i] = l /\ l # None /\ i = 1
    <3>1. j - Len(h) \in DOMAIN w /\ p[j] = w[j - Len(h)]
      BY <1>9, <1>11, <2>0, <2>1
    <3> QED BY <1>6, <2>1, <3>1
  <2>2. CASE i - Len(h) \in DOMAIN w /\ p[i] = w[i - Len(h)] /\ i > Len(h)
    <3>1. ~ (j \in DOMAIN h)
      BY <1>7, <1>11, <2>0, <2>2
    <3>2. j - Len(h) \in DOMAIN w /\ p[j] = w[j - Len(h)]
      BY <1>9, <3>1
    <3>3. i - Len(h) < j - Len(h)
      BY <1>7, <1>11, <2>0
    <3> QED BY <1>6, <2>2, <3>2, <3>3
  <2> QED BY <1>9, <2>1, <2>2
<1> QED
  BY <1>4, <1>8, <1>10, <1>11 DEF p

\* The invariant implies what the run checks.
LEMMA AllInOrder == OrderIInv => InOrder
<1> SUFFICES ASSUME OrderIInv, NEW r \in Requests, NEW i \in DOMAIN Pipeline(r)
             PROVE  LET o == Pipeline(r)[i]
                    IN  /\ o.req = r
                        /\ i < Len(Pipeline(r)) => o.fin = "none"
                        /\ o.tok # None => \A j \in 1 .. i - 1 :
                             Later(Pipeline(r)[j].tok, o.tok)
  BY DEF InOrder
<1>1. MllmIInv /\ InLine(r)
  BY DEF OrderIInv
<1>2. PICK p \in Seq(Items) :
        /\ p = Pipeline(r) /\ \A j \in DOMAIN p : p[j].req = r
        /\ \A j, k \in DOMAIN p : j < k => Precedes(p[j], p[k])
  BY <1>1, PipelineOrder
<1>3. DOMAIN p = 1 .. Len(p) /\ Len(p) \in Nat /\ i \in DOMAIN p
  BY <1>2, Members
<1>4. i < Len(p) => p[i].fin = "none"
  <2> SUFFICES ASSUME i < Len(p) PROVE p[i].fin = "none"
    OBVIOUS
  <2>1. Len(p) \in DOMAIN p
    BY <1>3
  <2> QED BY <1>2, <1>3, <2>1 DEF Precedes
<1>5. p[i].tok # None => \A j \in 1 .. i - 1 : Later(p[j].tok, p[i].tok)
  <2> SUFFICES ASSUME p[i].tok # None, NEW j \in 1 .. i - 1
               PROVE  Later(p[j].tok, p[i].tok)
    OBVIOUS
  <2>1. j \in DOMAIN p /\ j < i
    BY <1>3
  <2> QED BY <1>2, <1>3, <2>1 DEF Precedes
<1> QED
  BY <1>2, <1>3, <1>4, <1>5

\* A caller of MLLMScheduler gets the tokens of its own request, those of each
\* attempt in order and none twice, and nothing after the end.
THEOREM MllmInOrder == Spec => []InOrder
<1>1. Init => OrderIInv
  BY MllmInitSound, OrderInitSound DEF OrderIInv, AllInLine
<1>2. OrderIInv /\ [Next]_vars => OrderIInv'
  BY OrderNext
<1>3. OrderIInv => InOrder
  BY AllInOrder
<1> QED
  BY <1>1, <1>2, <1>3, PTL DEF Spec
=============================================================================
