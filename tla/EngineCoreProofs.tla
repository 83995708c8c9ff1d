---------------------------- MODULE EngineCoreProofs ----------------------------
(***************************************************************************)
(* The scheduler agrees with its generator about who is being worked on,   *)
(* and each running request's cache agrees with the tokens it was given.   *)
(* The engine works for consumers that wait, and a consumer gets every     *)
(* token once and in order.                                                *)
(***************************************************************************)
EXTENDS EngineCore, ListsProofs

-----------------------------------------------------------------------------
\* The scheduler: the inductive invariant.

\* A request is in one place at most, once.
Placed(s) ==
  /\ IsInjective(s.waiting) /\ IsInjective(s.running)
  /\ Queued(s) \cap Active(s) = {}

\* The requests that are known are those that wait or run.  An abort that
\* fails in the library and a constructor that fails leave it false.
NoneStray(s) == s.known = Queued(s) \cup Active(s)

\* The requests that run for somebody.
Served(s) == Active(s) \cap s.known

\* The two maps are inverse to each other.
Mapped(s) ==
  /\ \A r \in Requests : s.uid[r] # None <=> r \in Active(s)
  /\ \A r \in Active(s) : s.owner[s.uid[r]] = r /\ s.uid[r] < s.gen.next
  /\ \A u \in Uids : s.owner[u] # None => s.uid[s.owner[u]] = u

\* The generator works for the running requests and the strays.
Worked(s) ==
  /\ Working(s) = {s.uid[r] : r \in Active(s)} \cup s.gen.stray
  /\ \A u \in s.gen.stray : s.owner[u] = None /\ u < s.gen.next

\* K are the requests that have been added so far, and Started(s, K) those of
\* them that a generator may have given a uid to.  A uid more than these, and
\* than the rounds of drafts, is never handed out.
Started(s, K) == K \ Queued(s)

Counted(s, K) ==
  /\ K \subseteq Requests /\ Queued(s) \cup Active(s) \subseteq K
  /\ s.gen.next <= Cardinality(Started(s, K)) + s.gen.rounds
  /\ s.gen.rounds <= MaxRounds

\* The tokens that were made and those that are left to make.
Bounded(s) == \A r \in Active(s) : s.made[r] + s.gen.left[s.uid[r]] <= Most

\* A request without tokens has nothing in a cache; a waiting one has none.
Fresh(s) ==
  /\ \A r \in Queued(s) : s.made[r] = 0
  /\ \A r \in Requests : s.made[r] = 0 => s.cached[r] = 0 /\ s.fed[r] = 0

\* What the generator holds for the requests in R.
Held(s, R) ==
  \A r \in R :
    /\ r \notin s.hurt => s.cached[r] + s.fed[r] = s.made[r]
    /\ s.added[r] = StopIds[r] /\ StopIds[r] \subseteq s.gen.stops

Live(s) == s.running # << >> => s.gen.live

Sound(s, K) ==
  /\ s \in Schedulers
  /\ Placed(s) /\ Mapped(s) /\ Worked(s) /\ Counted(s, K) /\ Bounded(s)
  /\ Fresh(s) /\ Held(s, Served(s)) /\ Live(s)

\* Between two calls every running request has a token.
Begun(s) == \A r \in Active(s) : s.made[r] > 0

\* What an aborted request leaves behind does not tell that it was added, so
\* without an engine K is what can still be seen.
Seen(s) == {r \in Requests : s.made[r] > 0} \cup Queued(s) \cup Active(s)

SchedulerIInv ==
  /\ Sound(sch, Seen(sch)) /\ Begun(sch) /\ NoneStray(sch)
  /\ faults \in 0 .. MaxFaults

\* The state that _cleanup_finished is called in, for the requests in D.
Spent(s, K, D) ==
  /\ s \in Schedulers
  /\ Placed(s) /\ Mapped(s) /\ Counted(s, K) /\ Bounded(s) /\ Fresh(s)
  /\ Live(s) /\ Begun(s)
  /\ D \subseteq Active(s)
  /\ Held(s, Served(s) \ D)
  /\ \A r \in Served(s) : s.added[r] = StopIds[r] /\ StopIds[r] \subseteq s.gen.stops
  /\ Working(s) = {s.uid[r] : r \in Active(s) \ D} \cup s.gen.stray
  /\ \A u \in s.gen.stray : s.owner[u] \in D \cup {None} /\ u < s.gen.next

-----------------------------------------------------------------------------
\* Schedulers as records.

IsGenerator(g) ==
  g = [live |-> g.live, params |-> g.params, stops |-> g.stops,
       left |-> g.left, next |-> g.next, rounds |-> g.rounds,
       stray |-> g.stray]

IsScheduler(s) ==
  s = [waiting |-> s.waiting, running |-> s.running, known |-> s.known,
       uid |-> s.uid, owner |-> s.owner, gen |-> s.gen, made |-> s.made,
       cached |-> s.cached, fed |-> s.fed, hurt |-> s.hurt,
       hybrid |-> s.hybrid, added |-> s.added]

GeneratorTyped(g) ==
  /\ g.live \in BOOLEAN
  /\ g.params \in ToSet(Params) \cup {None}
  /\ g.stops \in SUBSET StopTokens
  /\ g.left \in [Uids -> 0 .. MaxTokens]
  /\ g.next \in Nat
  /\ g.rounds \in Nat
  /\ g.stray \in SUBSET Uids

SchedulerTyped(s) ==
  /\ s.waiting \in Seq(Requests)
  /\ s.running \in Seq(Requests)
  /\ s.known \in SUBSET Requests
  /\ s.uid \in [Requests -> Uids \cup {None}]
  /\ s.owner \in [Uids -> Requests \cup {None}]
  /\ s.gen \in Generators
  /\ s.made \in [Requests -> 0 .. Most]
  /\ s.cached \in [Requests -> Nat]
  /\ s.fed \in [Requests -> {0, 1}]
  /\ s.hurt \in SUBSET Requests
  /\ s.hybrid \in BOOLEAN
  /\ s.added \in [Requests -> SUBSET StopTokens]

\* A generator is a record of its fields.
LEMMA GeneratorFields ==
  ASSUME NEW g
  PROVE  g \in Generators <=> IsGenerator(g) /\ GeneratorTyped(g)
BY DEF Generators, IsGenerator, GeneratorTyped

\* A scheduler is a record of its fields.
LEMMA SchedulerFields ==
  ASSUME NEW s
  PROVE  s \in Schedulers <=> IsScheduler(s) /\ SchedulerTyped(s)
BY DEF Schedulers, IsScheduler, SchedulerTyped

\* Giving a function another value at one place.
LEMMA Updated ==
  ASSUME NEW S, NEW T, NEW f \in [S -> T], NEW x \in S, NEW y \in T
  PROVE  /\ [f EXCEPT ![x] = y] \in [S -> T]
         /\ \A z \in S : [f EXCEPT ![x] = y][z] = IF z = x THEN y ELSE f[z]
OBVIOUS

\* The constants.
LEMMA Constants ==
  /\ None \notin Requests /\ None \notin Uids
  /\ IsFiniteSet(Requests) /\ Cardinality(Requests) \in Nat
  /\ MaxTokens \in Nat \ {0} /\ Most \in Nat /\ MaxTokens <= Most
  /\ MaxRounds \in Nat /\ NumDrafts \in Nat /\ MaxRetries \in Nat
  /\ MaxNumSeqs \in Nat /\ MaxFaults \in Nat
  /\ Uids \subseteq Nat
  /\ \A n \in Nat : n < Cardinality(Requests) + MaxRounds => n \in Uids
  /\ \A r \in Requests : Params[r] \in ToSet(Params)
  /\ \A r \in Requests : StopIds[r] \subseteq StopTokens
  /\ Eos \subseteq StopTokens
<1>1. Cardinality(Requests) \in Nat
  BY SchedulerAssumption, FS_CardinalityType
<1>2. Uids \subseteq Nat /\ \A n \in Nat : n < Cardinality(Requests) + MaxRounds => n \in Uids
  BY <1>1, SchedulerAssumption DEF Uids
<1>3. Most \in Nat /\ MaxTokens <= Most
  BY SchedulerAssumption DEF Most
<1>4. \A r \in Requests : Params[r] \in ToSet(Params) /\ StopIds[r] \in ToSet(StopIds)
  BY SchedulerAssumption DEF ToSet
<1>5. \A r \in Requests : StopIds[r] \subseteq StopTokens
  BY <1>4 DEF StopTokens
<1> QED
  BY <1>1, <1>2, <1>3, <1>4, <1>5, SchedulerAssumption DEF StopTokens

\* The parts of a sound scheduler that concern its lists.
LEMMA ListsOf ==
  ASSUME NEW s, s \in Schedulers
  PROVE  /\ s.waiting \in Seq(Requests) /\ s.running \in Seq(Requests)
         /\ Queued(s) \subseteq Requests /\ Active(s) \subseteq Requests
         /\ s.running # << >> <=> Active(s) # {}
<1>1. s.waiting \in Seq(Requests) /\ s.running \in Seq(Requests)
  BY SchedulerFields DEF SchedulerTyped
<1>2. \A i \in DOMAIN s.waiting : s.waiting[i] \in Requests
  BY <1>1, ElementOfSeq, LenProperties
<1>3. \A i \in DOMAIN s.running : s.running[i] \in Requests
  BY <1>1, ElementOfSeq, LenProperties
<1>4. s.running # << >> <=> Active(s) # {}
  <2>1. s.running # << >> => 1 \in DOMAIN s.running
    BY <1>1, EmptySeq, LenProperties
  <2>2. s.running = << >> => DOMAIN s.running = {}
    OBVIOUS
  <2> QED BY <2>1, <2>2 DEF Active, ToSet
<1> QED
  BY <1>1, <1>2, <1>3, <1>4 DEF Queued, Active, ToSet

\* The types of what the fields hold.
LEMMA Values ==
  ASSUME NEW s, s \in Schedulers
  PROVE  /\ \A r \in Requests :
              /\ s.uid[r] \in Uids \cup {None}
              /\ s.made[r] \in Nat /\ s.made[r] <= Most
              /\ s.cached[r] \in Nat /\ s.fed[r] \in Nat
         /\ \A u \in Uids :
              /\ s.owner[u] \in Requests \cup {None}
              /\ s.gen.left[u] \in Nat /\ s.gen.left[u] <= MaxTokens
         /\ s.gen.next \in Nat /\ s.gen.rounds \in Nat
         /\ s.gen.stray \subseteq Uids
<1>1. SchedulerTyped(s) /\ GeneratorTyped(s.gen)
  BY SchedulerFields, GeneratorFields DEF SchedulerTyped
<1>2. ASSUME NEW r \in Requests
      PROVE  /\ s.uid[r] \in Uids \cup {None}
             /\ s.made[r] \in 0 .. Most
             /\ s.cached[r] \in Nat /\ s.fed[r] \in {0, 1}
  BY <1>1 DEF SchedulerTyped
<1>3. ASSUME NEW u \in Uids
      PROVE  /\ s.owner[u] \in Requests \cup {None}
             /\ s.gen.left[u] \in 0 .. MaxTokens
  BY <1>1 DEF SchedulerTyped, GeneratorTyped
<1>4. \A r \in Requests : s.made[r] \in Nat /\ s.made[r] <= Most /\ s.fed[r] \in Nat
  BY <1>2, Constants
<1>5. \A u \in Uids : s.gen.left[u] \in Nat /\ s.gen.left[u] <= MaxTokens
  BY <1>3, Constants
<1>6. /\ s.gen.next \in Nat /\ s.gen.rounds \in Nat
      /\ s.gen.stray \subseteq Uids
  BY <1>1 DEF GeneratorTyped
<1> QED
  BY <1>2, <1>3, <1>4, <1>5, <1>6

\* Started requests are counted.
LEMMA StartedFinite ==
  ASSUME NEW s, NEW K, K \subseteq Requests
  PROVE  /\ Started(s, K) \subseteq Requests /\ IsFiniteSet(Started(s, K))
         /\ Cardinality(Started(s, K)) \in Nat
         /\ Cardinality(Started(s, K)) <= Cardinality(Requests)
         /\ \A r \in Requests \ Started(s, K) :
              /\ Cardinality(Started(s, K) \cup {r}) = Cardinality(Started(s, K)) + 1
              /\ Cardinality(Started(s, K)) < Cardinality(Requests)
<1> DEFINE S == Started(s, K)
<1>1. S \subseteq Requests
  BY DEF Started
<1> HIDE DEF S
<1>2. /\ IsFiniteSet(S) /\ Cardinality(S) \in Nat
      /\ Cardinality(S) <= Cardinality(Requests)
  BY <1>1, Constants, FS_Subset, FS_CardinalityType
<1>3. ASSUME NEW r \in Requests \ S
      PROVE  /\ Cardinality(S \cup {r}) = Cardinality(S) + 1
             /\ Cardinality(S) < Cardinality(Requests)
  <2>1. Cardinality(S \cup {r}) = Cardinality(S) + 1
    BY <1>2, <1>3, FS_AddElement
  <2>2. S \cup {r} \subseteq Requests
    BY <1>1
  <2>3. Cardinality(S \cup {r}) <= Cardinality(Requests)
    BY <2>2, Constants, FS_Subset
  <2> QED BY <1>2, <2>1, <2>3, Constants
<1> QED
  BY <1>1, <1>2, <1>3 DEF S

\* What counts is which requests may have a uid.
LEMMA Recounted ==
  ASSUME NEW s, NEW K, Sound(s, K), NEW L, L \subseteq Requests,
         Queued(s) \cup Active(s) \subseteq L, Started(s, K) \subseteq L
  PROVE  Sound(s, L)
<1>1. Started(s, K) \subseteq Started(s, L)
  BY DEF Started
<1>2. /\ IsFiniteSet(Started(s, L)) /\ Cardinality(Started(s, K)) \in Nat
      /\ Cardinality(Started(s, L)) \in Nat
  BY StartedFinite DEF Sound, Counted
<1>3. Cardinality(Started(s, K)) <= Cardinality(Started(s, L))
  BY <1>1, <1>2, FS_Subset
<1>4. s.gen.next \in Nat /\ s.gen.rounds \in Nat
  BY Values DEF Sound
<1>5. /\ s.gen.next <= Cardinality(Started(s, K)) + s.gen.rounds
      /\ s.gen.rounds <= MaxRounds
  BY DEF Sound, Counted
<1>6. s.gen.next <= Cardinality(Started(s, L)) + s.gen.rounds
  BY <1>2, <1>3, <1>4, <1>5
<1>7. Counted(s, L)
  BY <1>5, <1>6 DEF Counted
<1> QED
  BY <1>7 DEF Sound

-----------------------------------------------------------------------------
\* The operations.

\* A scheduler without requests.
LEMMA EmptySound ==
  ASSUME NEW h \in BOOLEAN, NEW K \in SUBSET Requests,
         NEW s, s = [EmptyScheduler EXCEPT !.hybrid = h]
  PROVE  Sound(s, K) /\ Begun(s) /\ NoneStray(s)
<1>1. /\ s.waiting = << >> /\ s.running = << >> /\ s.known = {}
      /\ s.uid = [r \in Requests |-> None]
      /\ s.owner = [u \in Uids |-> None]
      /\ s.gen = NoGenerator
      /\ s.made = [r \in Requests |-> 0] /\ s.cached = [r \in Requests |-> 0]
      /\ s.fed = [r \in Requests |-> 0] /\ s.hurt = {} /\ s.hybrid = h
      /\ s.added = [r \in Requests |-> {}]
      /\ IsScheduler(s)
  BY DEF EmptyScheduler, NoUids, IsScheduler
<1>2. /\ s.gen.live = FALSE /\ s.gen.params = None /\ s.gen.stops = {}
      /\ s.gen.left = [u \in Uids |-> 0] /\ s.gen.next = 0
      /\ s.gen.rounds = 0 /\ s.gen.stray = {} /\ IsGenerator(s.gen)
  BY <1>1 DEF NoGenerator, IsGenerator
<1>3. s.gen \in Generators
  <2>1. [u \in Uids |-> 0] \in [Uids -> 0 .. MaxTokens]
    BY Constants
  <2>2. s.gen.live \in BOOLEAN
    BY <1>2
  <2>3. /\ s.gen.params \in ToSet(Params) \cup {None}
        /\ s.gen.stops \in SUBSET StopTokens
        /\ s.gen.next \in Nat /\ s.gen.rounds \in Nat
        /\ s.gen.stray \in SUBSET Uids
    BY <1>2
  <2>4. GeneratorTyped(s.gen)
    BY <1>2, <2>1, <2>2, <2>3 DEF GeneratorTyped
  <2> QED BY <1>2, <2>4, GeneratorFields
<1>4. s \in Schedulers
  <2>1. /\ [r \in Requests |-> 0] \in [Requests -> 0 .. Most]
        /\ [r \in Requests |-> 0] \in [Requests -> Nat]
        /\ [r \in Requests |-> 0] \in [Requests -> {0, 1}]
    BY Constants
  <2>2. s.hybrid \in BOOLEAN
    BY <1>1
  <2>6. s.waiting \in Seq(Requests) /\ s.running \in Seq(Requests)
    <3>1. s.waiting = << >> /\ s.running = << >>
      BY <1>1
    <3>2. << >> \in Seq(Requests)
      BY EmptySeq
    <3> QED BY <3>1, <3>2
  <2>7. s.known \in SUBSET Requests /\ s.hurt \in SUBSET Requests
    BY <1>1
  <2>3. /\ s.uid \in [Requests -> Uids \cup {None}]
        /\ s.owner \in [Uids -> Requests \cup {None}]
    BY <1>1
  <2>5. s.added \in [Requests -> SUBSET StopTokens]
    <3>1. {} \in SUBSET StopTokens
      OBVIOUS
    <3> DEFINE S == SUBSET StopTokens
               none == {}
    <3>2. [r \in Requests |-> none] \in [Requests -> S]
      <4> HIDE DEF S, none
      <4> QED BY <3>1 DEF S, none
    <3> QED BY <1>1, <3>2
  <2>4. SchedulerTyped(s)
    BY <1>1, <1>3, <2>1, <2>2, <2>3, <2>5, <2>6, <2>7 DEF SchedulerTyped
  <2> QED BY <1>1, <2>4, SchedulerFields
<1>5. Queued(s) = {} /\ Active(s) = {} /\ Working(s) = {}
  BY <1>1, <1>2 DEF Queued, Active, Working, ToSet
<1>6. Placed(s)
  BY <1>1, <1>5 DEF Placed, IsInjective
<1>7. Mapped(s) /\ Worked(s) /\ Bounded(s) /\ Fresh(s) /\ Held(s, Served(s))
      /\ Live(s) /\ Begun(s)
  BY <1>1, <1>2, <1>5
     DEF Mapped, Worked, Bounded, Fresh, Held, Served, Live, Begun
<1>8. Counted(s, K)
  BY <1>2, <1>5, StartedFinite, Constants DEF Counted
<1> QED
  BY <1>1, <1>4, <1>5, <1>6, <1>7, <1>8 DEF Sound, NoneStray

\* add_request.
LEMMA EnqueueSound ==
  ASSUME NEW s, NEW K, Sound(s, K), NEW r \in Requests \ K,
         r \notin s.known, s.made[r] = 0,
         NEW t, t = Enqueue(s, r)
  PROVE  /\ Sound(t, K \cup {r})
         /\ t.known = s.known \cup {r} /\ t.made = s.made
         /\ Queued(t) = Queued(s) \cup {r} /\ Active(t) = Active(s)
<1>1. s \in Schedulers /\ IsScheduler(s) /\ SchedulerTyped(s)
  BY SchedulerFields DEF Sound
<1>2. /\ t.waiting = Append(s.waiting, r) /\ t.running = s.running
      /\ t.known = s.known \cup {r} /\ t.uid = s.uid /\ t.owner = s.owner
      /\ t.gen = s.gen /\ t.made = s.made /\ t.cached = s.cached
      /\ t.fed = s.fed /\ t.hurt = s.hurt /\ t.hybrid = s.hybrid
      /\ t.added = s.added /\ IsScheduler(t)
  BY <1>1 DEF IsScheduler, Enqueue
<1>3. r \notin Queued(s) /\ r \notin Active(s)
  BY DEF Sound, Counted
<1>4. /\ t.waiting \in Seq(Requests) /\ IsInjective(t.waiting)
      /\ Queued(t) = Queued(s) \cup {r}
  BY <1>1, <1>2, <1>3, AppendFacts DEF SchedulerTyped, Queued, Sound, Placed
<1>5. t \in Schedulers
  <2>1. SchedulerTyped(t)
    BY <1>1, <1>2, <1>4 DEF SchedulerTyped
  <2> QED BY <1>2, <2>1, SchedulerFields
<1>6. Active(t) = Active(s) /\ Working(t) = Working(s)
  BY <1>2 DEF Active, Working
<1>10. Served(t) = Served(s)
  BY <1>2, <1>3, <1>6 DEF Served
<1>11. Counted(t, K \cup {r})
  <2>1. Started(t, K \cup {r}) = Started(s, K)
    BY <1>4 DEF Started
  <2> QED BY <1>2, <1>4, <1>6, <2>1 DEF Sound, Counted
<1>7. Placed(t)
  BY <1>2, <1>3, <1>4, <1>6 DEF Placed, Sound
<1>8. Fresh(t)
  BY <1>2, <1>4 DEF Fresh, Sound
<1>9. /\ Mapped(t) /\ Worked(t) /\ Bounded(t)
      /\ Held(t, Served(t)) /\ Live(t)
  BY <1>2, <1>6, <1>10 DEF Sound, Mapped, Worked, Bounded, Held, Live
<1> QED
  BY <1>2, <1>4, <1>5, <1>6, <1>7, <1>8, <1>9, <1>11 DEF Sound

\* s is t without r, as far as its lists are concerned.
Removed(s, t, r) ==
  /\ t.known = s.known \ {r} /\ t.made = s.made
  /\ Queued(t) = Queued(s) \ {r} /\ Active(t) = Active(s) \ {r}

\* abort_request, when the generator lets the request go or does not have it.
LEMMA AbortRemoves ==
  ASSUME NEW s, NEW K, Sound(s, K), NEW r \in s.known,
         NEW broken, ~ broken \/ s.uid[r] = None
  PROVE  /\ Sound(Abort(s, r, broken), K \ ({r} \cap Queued(s)))
         /\ Removed(s, Abort(s, r, broken), r)
<1> DEFINE t == Abort(s, r, broken)
           u == s.uid[r]
           gone == s.added[r] \ StillNeeded(s, {r})
<1>1. s \in Schedulers /\ IsScheduler(s) /\ SchedulerTyped(s)
      /\ IsGenerator(s.gen) /\ GeneratorTyped(s.gen)
  BY SchedulerFields, GeneratorFields DEF Sound, SchedulerTyped
<1>2. r \in Requests /\ u \in Uids \cup {None}
  BY <1>1 DEF SchedulerTyped
<1>3. /\ t.waiting = Without(s.waiting, {r})
      /\ t.running = Without(s.running, {r})
      /\ t.known = s.known \ {r}
      /\ t.uid = IF u = None THEN s.uid ELSE [s.uid EXCEPT ![r] = None]
      /\ t.owner = IF u = None THEN s.owner ELSE [s.owner EXCEPT ![u] = None]
      /\ t.made = s.made /\ t.cached = s.cached /\ t.fed = s.fed
      /\ t.hurt = s.hurt /\ t.hybrid = s.hybrid /\ t.added = s.added
      /\ t.gen = [s.gen EXCEPT !.stops = @ \ gone,
                   !.left = IF u = None THEN @ ELSE [@ EXCEPT ![u] = 0]]
      /\ IsScheduler(t)
  <2> HIDE DEF gone
  <2>1. CASE u = None
    BY <1>1, <2>1 DEF IsScheduler, IsGenerator, Abort, gone
  <2>2. CASE u # None
    BY <1>1, <2>2 DEF IsScheduler, IsGenerator, Abort, gone
  <2> QED BY <2>1, <2>2
<1> HIDE DEF t
<1>4. /\ t.gen.live = s.gen.live /\ t.gen.params = s.gen.params
      /\ t.gen.next = s.gen.next /\ t.gen.rounds = s.gen.rounds
      /\ t.gen.stray = s.gen.stray /\ t.gen.stops = s.gen.stops \ gone
      /\ t.gen.left = IF u = None THEN s.gen.left ELSE [s.gen.left EXCEPT ![u] = 0]
      /\ IsGenerator(t.gen)
  BY <1>1, <1>3 DEF IsGenerator

<1> HIDE DEF u
<1>5. /\ t.uid \in [Requests -> Uids \cup {None}]
      /\ \A q \in Requests : t.uid[q] = IF q = r THEN None ELSE s.uid[q]
  <2>1. t.uid = [s.uid EXCEPT ![r] = None]
    BY <1>1, <1>2, <1>3 DEF SchedulerTyped, u
  <2> QED BY <1>1, <1>2, <2>1 DEF SchedulerTyped
<1>20. /\ t.owner \in [Uids -> Requests \cup {None}]
       /\ \A w \in Uids : t.owner[w] = IF w = u THEN None ELSE s.owner[w]
  <2>0. t.owner = IF u = None THEN s.owner ELSE [s.owner EXCEPT ![u] = None]
    BY <1>3
  <2>1. CASE u = None
    BY <1>1, <2>0, <2>1, Constants DEF SchedulerTyped
  <2>2. CASE u # None
    BY <1>1, <1>2, <2>0, <2>2 DEF SchedulerTyped
  <2> QED BY <2>1, <2>2
<1>21. /\ t.gen.left \in [Uids -> 0 .. MaxTokens]
       /\ \A w \in Uids : t.gen.left[w] = IF w = u THEN 0 ELSE s.gen.left[w]
  <2>0. t.gen.left = IF u = None THEN s.gen.left ELSE [s.gen.left EXCEPT ![u] = 0]
    BY <1>4
  <2>1. CASE u = None
    BY <1>1, <2>0, <2>1, Constants DEF GeneratorTyped
  <2>2. CASE u # None
    <3>1. 0 \in 0 .. MaxTokens
      BY Constants
    <3> QED BY <1>1, <1>2, <2>0, <2>2, <3>1 DEF GeneratorTyped
  <2> QED BY <2>1, <2>2
<1>6. /\ t.waiting \in Seq(Requests) /\ IsInjective(t.waiting)
      /\ t.running \in Seq(Requests) /\ IsInjective(t.running)
      /\ Queued(t) = Queued(s) \ {r} /\ Active(t) = Active(s) \ {r}
  <2>1. s.waiting \in Seq(Requests) /\ s.running \in Seq(Requests)
    BY <1>1 DEF SchedulerTyped
  <2>2. IsInjective(s.waiting) /\ IsInjective(s.running)
    BY DEF Sound, Placed
  <2>3. /\ Without(s.waiting, {r}) \in Seq(Requests)
        /\ ToSet(Without(s.waiting, {r})) = ToSet(s.waiting) \ {r}
        /\ IsInjective(Without(s.waiting, {r}))
    BY <2>1, <2>2, WithoutFacts
  <2>4. /\ Without(s.running, {r}) \in Seq(Requests)
        /\ ToSet(Without(s.running, {r})) = ToSet(s.running) \ {r}
        /\ IsInjective(Without(s.running, {r}))
    BY <2>1, <2>2, WithoutFacts
  <2> QED BY <1>3, <2>3, <2>4 DEF Queued, Active
<1> HIDE DEF gone
<1>7. t \in Schedulers
  <2>1. t.gen.stops \in SUBSET StopTokens
    BY <1>1, <1>4 DEF GeneratorTyped
  <2>2. GeneratorTyped(t.gen)
    BY <1>1, <1>4, <1>21, <2>1 DEF GeneratorTyped
  <2>3. t.gen \in Generators
    BY <1>4, <2>2, GeneratorFields
  <2>4. SchedulerTyped(t)
    BY <1>1, <1>3, <1>5, <1>6, <1>20, <2>3 DEF SchedulerTyped
  <2> QED BY <1>3, <2>4, SchedulerFields
<1>8. Placed(t)
  BY <1>3, <1>6 DEF Placed, Sound
<1>9. Active(s) \subseteq Requests /\ Queued(s) \subseteq Requests
  BY <1>1, ListsOf
<1>10. Mapped(t)
  <2>1. \A q \in Active(s) : s.uid[q] = u => q = r
    BY <1>2, <1>9 DEF Mapped, Sound, u
  <2>2. \A q \in Requests : t.uid[q] # None <=> q \in Active(t)
    BY <1>5, <1>6 DEF Mapped, Sound
  <2>3. \A q \in Active(t) : t.owner[t.uid[q]] = q /\ t.uid[q] < t.gen.next
    <3> SUFFICES ASSUME NEW q \in Active(t)
                 PROVE  t.owner[t.uid[q]] = q /\ t.uid[q] < t.gen.next
      OBVIOUS
    <3>1. q \in Active(s) /\ q # r /\ q \in Requests
      BY <1>6, <1>9
    <3>2. s.uid[q] # None /\ s.owner[s.uid[q]] = q /\ s.uid[q] < s.gen.next
      BY <3>1 DEF Mapped, Sound
    <3>3. s.uid[q] \in Uids /\ s.uid[q] # u /\ t.uid[q] = s.uid[q]
      BY <1>1, <1>5, <2>1, <3>1, <3>2, Values
    <3> QED BY <1>4, <1>20, <3>2, <3>3
  <2>4. \A w \in Uids : t.owner[w] # None => t.uid[t.owner[w]] = w
    <3> SUFFICES ASSUME NEW w \in Uids, t.owner[w] # None
                 PROVE  t.uid[t.owner[w]] = w
      OBVIOUS
    <3>1. w # u /\ t.owner[w] = s.owner[w] /\ s.uid[s.owner[w]] = w
      BY <1>20 DEF Mapped, Sound
    <3>2. s.owner[w] \in Requests /\ s.owner[w] # r
      BY <1>20, <3>1 DEF u
    <3> QED BY <1>5, <3>1, <3>2
  <2> QED BY <2>2, <2>3, <2>4 DEF Mapped
<1>11. Worked(t)
  <2>1. Working(t) = Working(s) \ {u}
    <3>1. \A w \in Uids : t.gen.left[w] > 0 <=> s.gen.left[w] > 0 /\ w # u
      <4> SUFFICES ASSUME NEW w \in Uids
                   PROVE  t.gen.left[w] > 0 <=> s.gen.left[w] > 0 /\ w # u
        OBVIOUS
      <4>1. t.gen.left[w] = IF w = u THEN 0 ELSE s.gen.left[w]
        BY <1>21
      <4>2. s.gen.left[w] \in Nat
        BY <1>1, Values
      <4>3. CASE w = u
        BY <4>1, <4>3
      <4>4. CASE w # u
        BY <4>1, <4>4
      <4> QED BY <4>3, <4>4
    <3> QED BY <3>1 DEF Working
  <2>2. u \notin s.gen.stray
    <3>1. CASE u = None
      BY <1>1, <3>1, Constants DEF GeneratorTyped
    <3>2. CASE u # None
      <4>1. r \in Active(s)
        BY <1>2, <3>2 DEF Mapped, Sound, u
      <4>2. s.owner[u] = r
        BY <4>1 DEF Mapped, Sound, u
      <4> QED BY <1>2, <4>2, Constants DEF Worked, Sound
    <3> QED BY <3>1, <3>2
  <2>3. {t.uid[q] : q \in Active(t)} = {s.uid[q] : q \in Active(s)} \ {u}
    <3>1. \A q \in Active(t) : t.uid[q] = s.uid[q] /\ q \in Active(s) /\ s.uid[q] # u
      <4> SUFFICES ASSUME NEW q \in Active(t)
                   PROVE  t.uid[q] = s.uid[q] /\ q \in Active(s) /\ s.uid[q] # u
        OBVIOUS
      <4>1. q \in Active(s) /\ q # r /\ q \in Requests
        BY <1>6, <1>9
      <4>2. s.owner[s.uid[q]] = q /\ s.uid[q] # None
        BY <4>1 DEF Mapped, Sound
      <4>3. s.uid[q] = u => r \in Active(s)
        BY <1>2, <4>2 DEF Mapped, Sound, u
      <4>4. s.uid[q] # u
        BY <4>1, <4>2, <4>3 DEF Mapped, Sound, u
      <4> QED BY <1>5, <4>1, <4>4
    <3>2. \A q \in Active(s) : s.uid[q] # u => q \in Active(t)
      BY <1>6 DEF u
    <3> QED BY <3>1, <3>2
  <2>4. Working(s) = {s.uid[q] : q \in Active(s)} \cup s.gen.stray
    BY DEF Worked, Sound
  <2>5. \A w \in t.gen.stray : t.owner[w] = None /\ w < t.gen.next
    BY <1>1, <1>4, <1>20 DEF Worked, Sound, GeneratorTyped
  <2> QED BY <1>4, <2>1, <2>2, <2>3, <2>4, <2>5 DEF Worked
<1>12. Counted(t, K \ ({r} \cap Queued(s)))
  <2> DEFINE L == K \ ({r} \cap Queued(s))
  <2>1. Started(t, L) = Started(s, K)
    BY <1>6 DEF Started
  <2>2. Queued(s) \cap Active(s) = {} /\ Counted(s, K)
    BY DEF Sound, Placed
  <2>3. L \subseteq Requests /\ Queued(t) \cup Active(t) \subseteq L
    BY <1>6, <2>2 DEF Counted
  <2> HIDE DEF L
  <2>4. Counted(t, L)
    BY <1>4, <2>1, <2>2, <2>3 DEF Counted
  <2> QED BY <2>4 DEF L
<1>13. Bounded(t)
  <2> SUFFICES ASSUME NEW q \in Active(t)
               PROVE  t.made[q] + t.gen.left[t.uid[q]] <= Most
    BY DEF Bounded
  <2>1. q \in Active(s) /\ q # r /\ q \in Requests /\ t.uid[q] = s.uid[q]
    BY <1>5, <1>6, <1>9
  <2>2. s.made[q] + s.gen.left[s.uid[q]] <= Most /\ s.uid[q] # None
    BY <2>1 DEF Bounded, Mapped, Sound
  <2>3. /\ s.uid[q] \in Uids /\ s.made[q] \in Nat
        /\ s.gen.left[s.uid[q]] \in Nat /\ t.gen.left[s.uid[q]] \in Nat
        /\ t.gen.left[s.uid[q]] <= s.gen.left[s.uid[q]]
    <3>1. s.uid[q] \in Uids /\ s.made[q] \in Nat
      BY <1>1, <2>1, <2>2, Values
    <3>2. s.gen.left[s.uid[q]] \in Nat
      BY <1>1, <3>1, Values
    <3>3. t.gen.left[s.uid[q]] = IF s.uid[q] = u THEN 0 ELSE s.gen.left[s.uid[q]]
      BY <1>21, <3>1
    <3>4. CASE s.uid[q] = u
      BY <3>1, <3>2, <3>3, <3>4
    <3>5. CASE s.uid[q] # u
      BY <3>1, <3>2, <3>3, <3>5
    <3> QED BY <3>4, <3>5
  <2>4. t.made[q] = s.made[q]
    BY <1>3
  <2> QED BY <2>1, <2>2, <2>3, <2>4, Constants
<1>14. Fresh(t)
  BY <1>3, <1>6 DEF Fresh, Sound
<1>15. Held(t, Served(t))
  <2>0. Served(t) \subseteq Served(s) /\ Served(t) \subseteq Active(t)
    BY <1>3, <1>6 DEF Served
  <2>1. \A q \in Active(t) : s.added[q] \subseteq StillNeeded(s, {r})
    BY <1>6 DEF StillNeeded
  <2>2. \A q \in Served(t) : StopIds[q] \subseteq t.gen.stops
    BY <1>4, <2>0, <2>1 DEF gone, Held, Sound
  <2> QED BY <1>3, <2>0, <2>2 DEF Held, Sound
<1>16. Live(t)
  <2>1. t.running # << >> => s.running # << >>
    BY <1>1, <1>6, <1>7, ListsOf
  <2> QED BY <1>4, <2>1 DEF Live, Sound
<1>17. Removed(s, t, r)
  BY <1>3, <1>6 DEF Removed
<1> QED
  BY <1>7, <1>8, <1>10, <1>11, <1>12, <1>13, <1>14, <1>15, <1>16, <1>17 DEF Sound, t

\* r is forgotten and goes on: s becomes t.
Forgets(s, t, r) ==
  /\ t.known = s.known \ {r} /\ t.made = s.made
  /\ Queued(t) = Queued(s) /\ Active(t) = Active(s)

\* abort_request, when the generator fails to remove a running request: it
\* goes on, and its stop tokens may be lost.
LEMMA AbortLeaves ==
  ASSUME NEW s, NEW K, Sound(s, K), NEW r, r \in s.known, s.uid[r] # None,
         NEW t, t = Abort(s, r, TRUE)
  PROVE  Sound(t, K) /\ Forgets(s, t, r)
<1> DEFINE gone == s.added[r] \ StillNeeded(s, {r})
           g == s.gen
           h == [g EXCEPT !.stops = @ \ gone]
<1>1. /\ s \in Schedulers /\ IsScheduler(s) /\ SchedulerTyped(s)
      /\ IsGenerator(g) /\ GeneratorTyped(g)
  BY SchedulerFields, GeneratorFields DEF Sound, SchedulerTyped
<1>2. t = [s EXCEPT !.known = @ \ {r}, !.waiting = Without(@, {r}), !.gen = h]
  BY <1>1 DEF IsScheduler, Abort
<1> HIDE DEF gone
<1>3. /\ h.live = g.live /\ h.params = g.params /\ h.left = g.left
      /\ h.stops = g.stops \ gone
      /\ h.next = g.next /\ h.rounds = g.rounds /\ h.stray = g.stray
  <2> HIDE DEF g
  <2> QED BY <1>1 DEF IsGenerator, g
<1>4. IsGenerator(h)
  <2> DEFINE k == h
  <2>1. k = [g EXCEPT !.stops = @ \ gone]
    OBVIOUS
  <2> HIDE DEF g, k
  <2>2. IsGenerator(k)
    BY <1>1, <2>1 DEF IsGenerator, g
  <2> QED BY <2>2 DEF k
<1> HIDE DEF h
<1>5. /\ t.waiting = Without(s.waiting, {r}) /\ t.running = s.running
      /\ t.known = s.known \ {r} /\ t.uid = s.uid /\ t.owner = s.owner
      /\ t.gen = h /\ t.made = s.made /\ t.cached = s.cached
      /\ t.fed = s.fed /\ t.hurt = s.hurt /\ t.hybrid = s.hybrid
      /\ t.added = s.added /\ IsScheduler(t)
  BY <1>1, <1>2 DEF IsScheduler
<1>6. r \in Requests /\ r \in Active(s) /\ r \notin Queued(s)
  <2>1. r \in Requests
    BY <1>1 DEF SchedulerTyped
  <2> QED BY <2>1 DEF Sound, Mapped, Placed
<1>7. /\ t.waiting \in Seq(Requests) /\ IsInjective(t.waiting)
      /\ Queued(t) = Queued(s) /\ Active(t) = Active(s)
      /\ Working(t) = Working(s)
  <2>1. s.waiting \in Seq(Requests) /\ IsInjective(s.waiting)
    BY <1>1 DEF SchedulerTyped, Sound, Placed
  <2>2. /\ Without(s.waiting, {r}) \in Seq(Requests)
        /\ ToSet(Without(s.waiting, {r})) = ToSet(s.waiting) \ {r}
        /\ IsInjective(Without(s.waiting, {r}))
    BY <2>1, WithoutFacts
  <2> QED BY <1>3, <1>5, <1>6, <2>2 DEF Queued, Active, Working
<1>8. t \in Schedulers
  <2>1. h.stops \in SUBSET StopTokens
    BY <1>1, <1>3 DEF GeneratorTyped
  <2>2. GeneratorTyped(h)
    BY <1>1, <1>3, <2>1 DEF GeneratorTyped
  <2>3. h \in Generators
    BY <1>4, <2>2, GeneratorFields
  <2>4. SchedulerTyped(t)
    BY <1>1, <1>5, <1>7, <2>3 DEF SchedulerTyped
  <2> QED BY <1>5, <2>4, SchedulerFields
<1>9. Placed(t) /\ Mapped(t) /\ Worked(t) /\ Fresh(t) /\ Live(t)
  <2>1. Placed(t) /\ Fresh(t)
    BY <1>5, <1>7 DEF Placed, Fresh, Sound
  <2>2. Mapped(s) /\ Worked(s) /\ Live(s)
    BY DEF Sound
  <2>3. /\ t.uid = s.uid /\ t.owner = s.owner /\ t.gen.next = s.gen.next
        /\ t.gen.stray = s.gen.stray /\ t.gen.live = s.gen.live
        /\ t.running = s.running
    BY <1>3, <1>5
  <2>4. Mapped(t)
    BY <1>7, <2>2, <2>3 DEF Mapped
  <2>5. {t.uid[q] : q \in Active(t)} = {s.uid[q] : q \in Active(s)}
    BY <1>7, <2>3
  <2>6. Worked(t)
    BY <1>7, <2>2, <2>3, <2>5 DEF Worked
  <2>7. Live(t)
    BY <2>2, <2>3 DEF Live
  <2> QED BY <2>1, <2>4, <2>6, <2>7
<1>10. Counted(t, K) /\ Bounded(t)
  <2>1. Started(t, K) = Started(s, K)
    BY <1>7 DEF Started
  <2> QED BY <1>3, <1>5, <1>7, <2>1 DEF Counted, Bounded, Sound
<1>11. Held(t, Served(t))
  <2>1. Served(t) = Served(s) \ {r}
    BY <1>5, <1>7 DEF Served
  <2>2. \A q \in Served(t) : s.added[q] \subseteq StillNeeded(s, {r})
    BY <2>1 DEF StillNeeded, Served
  <2>3. \A q \in Served(t) : StopIds[q] \subseteq t.gen.stops
    BY <1>3, <1>5, <2>1, <2>2 DEF gone, Held, Sound
  <2> QED BY <1>5, <2>1, <2>3 DEF Held, Sound
<1> QED
  BY <1>5, <1>7, <1>8, <1>9, <1>10, <1>11 DEF Sound, Forgets

\* What an abort of r may do: s becomes t.
Dropped(s, t, r) ==
  /\ t.known = s.known \ {r} /\ t.made = s.made
  /\ Queued(t) \subseteq Queued(s) /\ Active(t) \subseteq Active(s)
  /\ Queued(s) \cup Active(s) \subseteq Queued(t) \cup Active(t) \cup {r}

\* abort_request.
LEMMA AbortSound ==
  ASSUME NEW s, NEW K, Sound(s, K), NEW r \in Requests, NEW broken \in BOOLEAN
  PROVE  Sound(Abort(s, r, broken), K) /\ Dropped(s, Abort(s, r, broken), r)
<1> DEFINE t == Abort(s, r, broken)
           L == K \ ({r} \cap Queued(s))
<1>1. CASE r \notin s.known
  <2>1. t = s
    BY <1>1 DEF Abort
  <2>2. s.known = s.known \ {r}
    BY <1>1
  <2> HIDE DEF t
  <2> QED BY <2>1, <2>2 DEF Dropped, t
<1>2. CASE r \in s.known /\ (~ broken \/ s.uid[r] = None)
  <2>1. Sound(t, L) /\ Removed(s, t, r)
    BY <1>2, AbortRemoves
  <2> HIDE DEF t
  <2>2. Started(t, L) \subseteq K /\ K \subseteq Requests
        /\ Queued(t) \cup Active(t) \subseteq K
    BY <2>1 DEF Started, Sound, Counted
  <2> HIDE DEF L
  <2>3. Sound(t, K)
    BY <2>1, <2>2, Recounted
  <2>4. Dropped(s, t, r)
    BY <2>1 DEF Removed, Dropped
  <2> QED BY <2>3, <2>4 DEF t
<1>3. CASE r \in s.known /\ broken /\ s.uid[r] # None
  <2>1. t = Abort(s, r, TRUE)
    BY <1>3
  <2> HIDE DEF t
  <2>2. Sound(t, K) /\ Forgets(s, t, r)
    <3>1. r \in s.known /\ s.uid[r] # None
      BY <1>3
    <3> QED BY <2>1, <3>1, AbortLeaves
  <2> QED BY <2>2 DEF Forgets, Dropped, t
<1> QED
  BY <1>1, <1>2, <1>3

\* What scheduling may do: s becomes t.
Scheduled(s, t) ==
  /\ t.known = s.known /\ t.made = s.made
  /\ Queued(t) \cup Active(t) = Queued(s) \cup Active(s)
  /\ Active(s) \subseteq Active(t)

Ensured(s, r) == [s EXCEPT !.gen = Ensure(s, r)]

\* _ensure_batch_generator: a generator is replaced only when it has nothing
\* to do for a request.
LEMMA EnsureSound ==
  ASSUME NEW s, NEW K, Sound(s, K), NEW r \in Requests,
         NEW t, t = Ensured(s, r)
  PROVE  /\ Sound(t, K) /\ t.gen = Ensure(s, r) /\ t.gen.live
         /\ t.known = s.known /\ t.made = s.made
         /\ Queued(t) = Queued(s) /\ Active(t) = Active(s)
<1>1. s \in Schedulers /\ IsScheduler(s) /\ SchedulerTyped(s)
  BY SchedulerFields DEF Sound
<1>2. CASE s.gen.live /\ (s.gen.params = Params[r] \/ s.running # << >>)
  <2>1. t = s
    BY <1>1, <1>2 DEF IsScheduler, Ensured, Ensure
  <2>2. t.gen = Ensure(s, r)
    BY <1>2, <2>1 DEF Ensure
  <2> QED BY <1>2, <2>1, <2>2
<1>3. CASE ~ (s.gen.live /\ (s.gen.params = Params[r] \/ s.running # << >>))
  <2>1. s.running = << >>
    BY <1>3 DEF Live, Sound
  <2>2. Active(s) = {}
    BY <1>1, <2>1, ListsOf
  <2>3. /\ t.waiting = s.waiting /\ t.running = s.running
        /\ t.known = s.known /\ t.uid = s.uid /\ t.owner = s.owner
        /\ t.made = s.made /\ t.cached = s.cached /\ t.fed = s.fed
        /\ t.hurt = s.hurt /\ t.hybrid = s.hybrid /\ t.added = s.added
        /\ IsScheduler(t)
    BY <1>1 DEF IsScheduler, Ensured
  <2>4. t.gen = Ensure(s, r) /\ Ensure(s, r) = NewGenerator(r)
    BY <1>1, <1>3 DEF IsScheduler, Ensured, Ensure
  <2> DEFINE g == t.gen
  <2>20. g = NewGenerator(r)
    BY <2>4
  <2> HIDE DEF g
  <2>21. IsGenerator(g)
    BY <2>20 DEF NewGenerator, NoGenerator, IsGenerator
  <2>22. g.live = TRUE
    BY <2>20 DEF NewGenerator, NoGenerator
  <2>23. /\ g.params = Params[r] /\ g.stops = Eos \cup StopIds[r]
         /\ g.left = [u \in Uids |-> 0] /\ g.next = 0
         /\ g.rounds = 0 /\ g.stray = {}
    BY <2>20 DEF NewGenerator, NoGenerator
  <2>5. /\ t.gen.live = TRUE /\ t.gen.params = Params[r]
        /\ t.gen.stops = Eos \cup StopIds[r]
        /\ t.gen.left = [u \in Uids |-> 0] /\ t.gen.next = 0
        /\ t.gen.rounds = 0 /\ t.gen.stray = {} /\ IsGenerator(t.gen)
    BY <2>21, <2>22, <2>23 DEF g
  <2>6. t.gen \in Generators
    <3>1. t.gen.left \in [Uids -> 0 .. MaxTokens]
      BY <2>5, Constants
    <3>2. t.gen.live \in BOOLEAN /\ t.gen.stray \in SUBSET Uids
      BY <2>5
    <3>3. t.gen.params \in ToSet(Params) \cup {None}
      BY <2>5, Constants
    <3>4. t.gen.stops \in SUBSET StopTokens
      BY <2>5, Constants
    <3>5. GeneratorTyped(t.gen)
      BY <2>5, <3>1, <3>2, <3>3, <3>4 DEF GeneratorTyped
    <3> QED BY <2>5, <3>5, GeneratorFields
  <2>7. t \in Schedulers
    <3>1. SchedulerTyped(t)
      BY <1>1, <2>3, <2>6 DEF SchedulerTyped
    <3> QED BY <2>3, <3>1, SchedulerFields
  <2>8. Queued(t) = Queued(s) /\ Active(t) = {}
    BY <2>2, <2>3 DEF Queued, Active
  <2>9. Placed(t) /\ Fresh(t)
    BY <2>2, <2>3, <2>8 DEF Placed, Fresh, Sound
  <2>10. \A u \in Uids : s.owner[u] = None
    <3> SUFFICES ASSUME NEW u \in Uids, s.owner[u] # None
                 PROVE  FALSE
      OBVIOUS
    <3>1. s.owner[u] \in Requests /\ s.uid[s.owner[u]] = u
      BY <1>1, Values DEF Mapped, Sound
    <3>2. s.uid[s.owner[u]] = None
      BY <2>2, <3>1 DEF Mapped, Sound
    <3> QED BY <3>1, <3>2, Constants
  <2>11. Mapped(t)
    BY <2>2, <2>3, <2>8, <2>10 DEF Mapped, Sound
  <2>12. Worked(t)
    <3>1. Working(t) = {}
      BY <2>5 DEF Working
    <3> QED BY <2>5, <2>8, <3>1 DEF Worked
  <2>13. Counted(t, K)
    <3>1. K \subseteq Requests /\ Queued(t) \cup Active(t) \subseteq K
      BY <2>2, <2>8 DEF Sound, Counted
    <3> QED BY <2>5, <3>1, StartedFinite, Constants DEF Counted
  <2>14. Bounded(t) /\ Held(t, Served(t)) /\ Live(t)
    BY <2>1, <2>3, <2>8 DEF Bounded, Held, Served, Live
  <2> QED
    BY <2>2, <2>3, <2>4, <2>5, <2>7, <2>8, <2>9, <2>11, <2>12, <2>13, <2>14 DEF Sound
<1> QED
  BY <1>2, <1>3

\* insert: the request at the head of the queue gets the next uid.
LEMMA InsertSound ==
  ASSUME NEW s0 \in Schedulers, NEW r, NEW s, NEW K, s = Ensured(s0, r),
         s0.waiting # << >>, r = Head(s0.waiting),
         Sound(s, K), s.gen = Ensure(s0, r), s.gen.live,
         NEW t, t = Insert(s0, r, Ensure(s0, r))
  PROVE  Sound(t, K) /\ Scheduled(s, t)
<1> DEFINE u == s.gen.next
<1>1. s \in Schedulers /\ IsScheduler(s) /\ SchedulerTyped(s)
      /\ IsGenerator(s.gen) /\ GeneratorTyped(s.gen)
  BY SchedulerFields, GeneratorFields DEF Sound, SchedulerTyped
<1>0. IsScheduler(s0)
  BY SchedulerFields
<1>2. /\ t.waiting = Tail(s.waiting) /\ t.running = Append(s.running, r)
      /\ t.known = s.known
      /\ t.uid = [s.uid EXCEPT ![r] = u] /\ t.owner = [s.owner EXCEPT ![u] = r]
      /\ t.made = s.made /\ t.cached = s.cached /\ t.fed = s.fed
      /\ t.hurt = s.hurt /\ t.hybrid = s.hybrid
      /\ t.added = [s.added EXCEPT ![r] = StopIds[r]]
      /\ IsScheduler(t)
  BY <1>0 DEF IsScheduler, Insert, Ensured
<1> DEFINE g == s.gen
           h == t.gen
<1>3. h = [g EXCEPT !.left[u] = MaxTokens, !.next = @ + 1,
                    !.stops = @ \cup StopIds[r]]
  BY <1>0 DEF IsScheduler, Insert
<1>4. /\ t.gen.live = s.gen.live /\ t.gen.params = s.gen.params
      /\ t.gen.next = u + 1 /\ t.gen.rounds = s.gen.rounds
      /\ t.gen.stray = s.gen.stray
      /\ t.gen.stops = s.gen.stops \cup StopIds[r]
      /\ t.gen.left = [s.gen.left EXCEPT ![u] = MaxTokens]
      /\ IsGenerator(t.gen)
  <2>1. IsGenerator(g) /\ u = g.next
    BY <1>1
  <2> HIDE DEF g, h, u
  <2>2. /\ h.live = g.live /\ h.params = g.params
        /\ h.rounds = g.rounds /\ h.stray = g.stray
    BY <1>3, <2>1 DEF IsGenerator
  <2>3. h.next = u + 1 /\ h.stops = g.stops \cup StopIds[r]
    BY <1>3, <2>1 DEF IsGenerator
  <2>4. h.left = [g.left EXCEPT ![u] = MaxTokens]
    BY <1>3, <2>1 DEF IsGenerator
  <2>5. IsGenerator(h)
    BY <1>3, <2>1 DEF IsGenerator
  <2> QED BY <2>2, <2>3, <2>4, <2>5 DEF g, h
<1>30. s.waiting # << >> /\ r = Head(s.waiting)
  BY <1>0 DEF IsScheduler, Ensured
<1> HIDE DEF u, g, h
<1>5. /\ r \in Requests /\ r \in Queued(s) /\ r \notin Active(s)
      /\ r \in K /\ r \notin Started(s, K)
      /\ s.made[r] = 0 /\ s.cached[r] = 0 /\ s.fed[r] = 0
  <2>1. s.waiting \in Seq(Requests)
    BY <1>1 DEF SchedulerTyped
  <2>2. r \in Requests /\ ToSet(s.waiting) = {r} \cup ToSet(Tail(s.waiting))
    BY <1>30, <2>1, TailFacts
  <2>3. r \in Queued(s)
    BY <2>2 DEF Queued
  <2> QED BY <2>2, <2>3 DEF Placed, Fresh, Started, Counted, Sound
<1>6. u \in Nat /\ u \in Uids
  <2>1. /\ s.gen.next \in Nat /\ s.gen.rounds \in Nat
        /\ s.gen.next <= Cardinality(Started(s, K)) + s.gen.rounds
        /\ s.gen.rounds <= MaxRounds
    BY <1>1, Values DEF Counted, Sound
  <2>2. /\ Cardinality(Started(s, K)) \in Nat
        /\ Cardinality(Started(s, K)) < Cardinality(Requests)
    BY <1>5, StartedFinite DEF Sound, Counted
  <2>3. s.gen.next < Cardinality(Requests) + MaxRounds
    BY <2>1, <2>2, Constants
  <2> QED BY <2>1, <2>3, Constants DEF u
<1>7. /\ t.uid \in [Requests -> Uids \cup {None}]
      /\ \A q \in Requests : t.uid[q] = IF q = r THEN u ELSE s.uid[q]
  <2>1. t.uid = [s.uid EXCEPT ![r] = u]
    BY <1>2
  <2>2. s.uid \in [Requests -> Uids \cup {None}] /\ u \in Uids \cup {None}
    BY <1>1, <1>6 DEF SchedulerTyped
  <2> QED BY <1>5, <2>1, <2>2, Updated
<1>8. /\ t.owner \in [Uids -> Requests \cup {None}]
      /\ \A w \in Uids : t.owner[w] = IF w = u THEN r ELSE s.owner[w]
  <2>1. t.owner = [s.owner EXCEPT ![u] = r]
    BY <1>2
  <2>2. s.owner \in [Uids -> Requests \cup {None}] /\ r \in Requests \cup {None}
    BY <1>1, <1>5 DEF SchedulerTyped
  <2> QED BY <1>6, <2>1, <2>2, Updated
<1>9. /\ t.gen.left \in [Uids -> 0 .. MaxTokens]
      /\ \A w \in Uids : t.gen.left[w] = IF w = u THEN MaxTokens ELSE s.gen.left[w]
  <2> DEFINE T == 0 .. MaxTokens
             f == s.gen.left
             n == MaxTokens
  <2>1. f \in [Uids -> T] /\ n \in T /\ u \in Uids
    BY <1>1, <1>6, Constants DEF GeneratorTyped
  <2>2. t.gen.left = [f EXCEPT ![u] = n]
    BY <1>4
  <2> HIDE DEF T, f, n
  <2>3. /\ t.gen.left \in [Uids -> T]
        /\ \A w \in Uids : t.gen.left[w] = IF w = u THEN n ELSE f[w]
    BY <2>1, <2>2
  <2> QED BY <2>3 DEF T, f, n
<1>10. /\ t.waiting \in Seq(Requests) /\ IsInjective(t.waiting)
       /\ t.running \in Seq(Requests) /\ IsInjective(t.running)
       /\ Queued(t) = Queued(s) \ {r} /\ Active(t) = Active(s) \cup {r}
  <2>1. s.waiting \in Seq(Requests) /\ s.running \in Seq(Requests)
    BY <1>1 DEF SchedulerTyped
  <2>2. IsInjective(s.waiting) /\ IsInjective(s.running)
    BY DEF Sound, Placed
  <2>3. /\ Tail(s.waiting) \in Seq(Requests)
        /\ ToSet(Tail(s.waiting)) = ToSet(s.waiting) \ {r}
        /\ IsInjective(Tail(s.waiting))
    BY <1>30, <2>1, <2>2, TailFacts
  <2>4. r \notin ToSet(s.running)
    BY <1>5 DEF Active
  <2>5. /\ Append(s.running, r) \in Seq(Requests)
        /\ ToSet(Append(s.running, r)) = ToSet(s.running) \cup {r}
        /\ IsInjective(Append(s.running, r))
    BY <1>5, <2>1, <2>2, <2>4, AppendFacts
  <2> QED BY <1>2, <2>3, <2>5 DEF Queued, Active
<1>11. t \in Schedulers
  <2>1. t.gen.stops \in SUBSET StopTokens
    BY <1>1, <1>4, <1>5, Constants DEF GeneratorTyped
  <2>2. t.gen.next \in Nat
    BY <1>4, <1>6
  <2>3. GeneratorTyped(t.gen)
    BY <1>1, <1>4, <1>9, <2>1, <2>2 DEF GeneratorTyped
  <2>4. t.gen \in Generators
    BY <1>4, <2>3, GeneratorFields
  <2>5. t.added \in [Requests -> SUBSET StopTokens]
    <3>1. s.added \in [Requests -> SUBSET StopTokens] /\ StopIds[r] \in SUBSET StopTokens
      BY <1>1, <1>5, Constants DEF SchedulerTyped
    <3> DEFINE S == SUBSET StopTokens
    <3> HIDE DEF S
    <3>2. [s.added EXCEPT ![r] = StopIds[r]] \in [Requests -> S]
      BY <3>1 DEF S
    <3> QED BY <1>2, <3>2 DEF S
  <2>6. SchedulerTyped(t)
    BY <1>1, <1>2, <1>7, <1>8, <1>10, <2>4, <2>5 DEF SchedulerTyped
  <2> QED BY <1>2, <2>6, SchedulerFields
<1>12. Active(s) \subseteq Requests /\ Queued(s) \subseteq Requests
  BY <1>1, ListsOf
<1>13. Placed(t)
  <2>1. Queued(s) \cap Active(s) = {}
    BY DEF Placed, Sound
  <2> QED BY <1>10, <2>1 DEF Placed
\* The requests that ran before keep their uids, which are smaller.
<1>14. \A q \in Active(s) :
         /\ q # r /\ t.uid[q] = s.uid[q] /\ s.uid[q] \in Uids
         /\ s.uid[q] # u /\ s.uid[q] < u /\ s.owner[s.uid[q]] = q
  <2> SUFFICES ASSUME NEW q \in Active(s)
               PROVE  /\ q # r /\ t.uid[q] = s.uid[q] /\ s.uid[q] \in Uids
                      /\ s.uid[q] # u /\ s.uid[q] < u /\ s.owner[s.uid[q]] = q
    OBVIOUS
  <2>1. q \in Requests /\ q # r
    BY <1>5, <1>12
  <2>2. s.uid[q] # None /\ s.owner[s.uid[q]] = q /\ s.uid[q] < u
    BY <2>1 DEF Mapped, Sound, u
  <2>3. s.uid[q] \in Uids /\ s.uid[q] \in Nat
    BY <1>1, <2>1, <2>2, Values, Constants
  <2>4. s.uid[q] # u
    BY <1>6, <2>2, <2>3
  <2> QED BY <1>7, <2>1, <2>2, <2>3, <2>4
<1>15. u < t.gen.next /\ \A n \in Nat : n < u => n < t.gen.next
  BY <1>4, <1>6
<1>16. Mapped(t)
  <2>1. \A q \in Requests : t.uid[q] # None <=> q \in Active(t)
    BY <1>5, <1>6, <1>7, <1>10, Constants DEF Mapped, Sound
  <2>2. \A q \in Active(t) : t.owner[t.uid[q]] = q /\ t.uid[q] < t.gen.next
    <3> SUFFICES ASSUME NEW q \in Active(t)
                 PROVE  t.owner[t.uid[q]] = q /\ t.uid[q] < t.gen.next
      OBVIOUS
    <3>1. CASE q = r
      BY <1>5, <1>6, <1>7, <1>8, <1>15, <3>1
    <3>2. CASE q # r
      <4>1. q \in Active(s)
        BY <1>10, <3>2
      <4>2. t.owner[t.uid[q]] = q
        BY <1>8, <1>14, <4>1
      <4>3. t.uid[q] < t.gen.next
        BY <1>14, <1>15, <4>1, Constants
      <4> QED BY <4>2, <4>3
    <3> QED BY <3>1, <3>2
  <2>3. \A w \in Uids : t.owner[w] # None => t.uid[t.owner[w]] = w
    <3> SUFFICES ASSUME NEW w \in Uids, t.owner[w] # None
                 PROVE  t.uid[t.owner[w]] = w
      OBVIOUS
    <3>1. CASE w = u
      BY <1>5, <1>7, <1>8, <3>1
    <3>2. CASE w # u
      <4>1. t.owner[w] = s.owner[w] /\ s.owner[w] \in Requests
        BY <1>1, <1>8, <3>2, Values
      <4>2. s.uid[s.owner[w]] = w /\ w # None
        BY <4>1, Constants DEF Mapped, Sound
      <4>3. s.owner[w] # r
        BY <1>5, <4>1, <4>2 DEF Mapped, Sound
      <4> QED BY <1>7, <4>1, <4>2, <4>3
    <3> QED BY <3>1, <3>2
  <2> QED BY <2>1, <2>2, <2>3 DEF Mapped
<1>17. Worked(t)
  <2>1. Working(t) = Working(s) \cup {u}
    <3>1. \A w \in Uids : t.gen.left[w] > 0 <=> s.gen.left[w] > 0 \/ w = u
      <4> SUFFICES ASSUME NEW w \in Uids
                   PROVE  t.gen.left[w] > 0 <=> s.gen.left[w] > 0 \/ w = u
        OBVIOUS
      <4>1. t.gen.left[w] = IF w = u THEN MaxTokens ELSE s.gen.left[w]
        BY <1>9
      <4> QED BY <4>1, Constants
    <3> QED BY <1>6, <3>1 DEF Working
  <2>2. {t.uid[q] : q \in Active(t)} = {s.uid[q] : q \in Active(s)} \cup {u}
    BY <1>5, <1>7, <1>10, <1>14
  <2>3. Working(s) = {s.uid[q] : q \in Active(s)} \cup s.gen.stray
    BY DEF Worked, Sound
  <2>4. \A w \in t.gen.stray : t.owner[w] = None /\ w < t.gen.next
    <3> SUFFICES ASSUME NEW w \in s.gen.stray
                 PROVE  t.owner[w] = None /\ w < t.gen.next
      BY <1>4
    <3>1. w \in Uids /\ w \in Nat /\ s.owner[w] = None /\ w < u
      BY <1>1, Values, Constants DEF Worked, Sound, u
    <3> QED BY <1>6, <1>8, <1>15, <3>1
  <2> QED BY <1>4, <2>1, <2>2, <2>3, <2>4 DEF Worked
<1>18. Counted(t, K)
  <2>1. Started(t, K) = Started(s, K) \cup {r}
    BY <1>5, <1>10 DEF Started
  <2>2. Cardinality(Started(t, K)) = Cardinality(Started(s, K)) + 1
        /\ Cardinality(Started(s, K)) \in Nat
    BY <1>5, <2>1, StartedFinite DEF Sound, Counted
  <2>3. s.gen.rounds \in Nat
    BY <1>1, Values
  <2>4. /\ u <= Cardinality(Started(s, K)) + s.gen.rounds
        /\ s.gen.rounds <= MaxRounds
    BY DEF Counted, Sound, u
  <2>5. /\ t.gen.next <= Cardinality(Started(t, K)) + t.gen.rounds
        /\ t.gen.rounds <= MaxRounds
    BY <1>4, <1>6, <2>2, <2>3, <2>4
  <2>6. K \subseteq Requests /\ Queued(t) \cup Active(t) \subseteq K
    BY <1>5, <1>10 DEF Counted, Sound
  <2> QED BY <2>5, <2>6 DEF Counted
<1>19. Bounded(t)
  <2> SUFFICES ASSUME NEW q \in Active(t)
               PROVE  t.made[q] + t.gen.left[t.uid[q]] <= Most
    BY DEF Bounded
  <2>1. CASE q = r
    <3>1. t.made[q] = 0 /\ t.gen.left[t.uid[q]] = MaxTokens
      <4>1. t.made = s.made
        BY <1>2
      <4>2. t.uid[q] = u
        BY <1>5, <1>7, <2>1
      <4> QED BY <1>5, <1>6, <1>9, <2>1, <4>1, <4>2
    <3> QED BY <3>1, Constants
  <2>2. CASE q # r
    <3>1. q \in Active(s)
      BY <1>10, <2>2
    <3>2. t.gen.left[t.uid[q]] = s.gen.left[s.uid[q]]
      BY <1>9, <1>14, <3>1
    <3> QED BY <1>2, <3>1, <3>2 DEF Bounded, Sound
  <2> QED BY <2>1, <2>2
<1>20. Fresh(t)
  <2>1. t.made = s.made /\ t.cached = s.cached /\ t.fed = s.fed
    BY <1>2
  <2>2. Fresh(s)
    BY DEF Sound
  <2> QED BY <1>10, <2>1, <2>2 DEF Fresh
<1>21. Held(t, Served(t))
  <2> SUFFICES ASSUME NEW q \in Served(t)
               PROVE  /\ q \notin t.hurt => t.cached[q] + t.fed[q] = t.made[q]
                      /\ t.added[q] = StopIds[q] /\ StopIds[q] \subseteq t.gen.stops
    BY DEF Held
  <2>0. s.added \in [Requests -> SUBSET StopTokens]
    BY <1>1 DEF SchedulerTyped
  <2>1. CASE q = r
    <3>1. t.cached[q] = 0 /\ t.fed[q] = 0 /\ t.made[q] = 0
      BY <1>2, <1>5, <2>1
    <3>2. t.added[q] = StopIds[q]
      BY <1>2, <1>5, <2>0, <2>1
    <3>3. t.cached[q] + t.fed[q] = t.made[q]
      BY <3>1
    <3>4. t.gen.stops = s.gen.stops \cup StopIds[r]
      BY <1>4
    <3>5. StopIds[q] \subseteq t.gen.stops
      BY <2>1, <3>4
    <3> QED BY <3>2, <3>3, <3>5
  <2>2. CASE q # r
    <3>1. q \in Served(s) /\ q \in Requests
      BY <1>2, <1>10, <1>12, <2>2 DEF Served
    <3>2. t.added[q] = s.added[q]
      BY <1>2, <2>0, <2>2, <3>1
    <3>3. /\ t.cached = s.cached /\ t.fed = s.fed /\ t.made = s.made
          /\ t.hurt = s.hurt
      BY <1>2
    <3>4. Held(s, Served(s))
      BY DEF Sound
    <3>5. /\ q \notin s.hurt => s.cached[q] + s.fed[q] = s.made[q]
          /\ s.added[q] = StopIds[q] /\ StopIds[q] \subseteq s.gen.stops
      BY <3>1, <3>4 DEF Held
    <3>6. t.gen.stops = s.gen.stops \cup StopIds[r]
      BY <1>4
    <3>7. StopIds[q] \subseteq t.gen.stops
      BY <3>5, <3>6
    <3> QED BY <3>2, <3>3, <3>5, <3>7
  <2> QED BY <2>1, <2>2
<1>22. Live(t)
  BY <1>4 DEF Live
<1>23. Scheduled(s, t)
  BY <1>2, <1>5, <1>10 DEF Scheduled
<1> QED
  BY <1>11, <1>13, <1>16, <1>17, <1>18, <1>19, <1>20, <1>21, <1>22, <1>23 DEF Sound

-----------------------------------------------------------------------------
\* Scheduling the queue.

\* The states of the loop that s is scheduled by.
SchedulingStates(s, K) ==
  {st \in [s : Schedulers, stop : BOOLEAN] : Sound(st.s, K) /\ Scheduled(s, st.s)}

\* A round of _schedule_waiting.
LEMMA ScheduleOneSound ==
  ASSUME NEW s0, NEW K, NEW st \in SchedulingStates(s0, K), NEW bad
  PROVE  ScheduleOne(st, bad) \in SchedulingStates(s0, K)
<1> DEFINE s == st.s
           r == Head(s.waiting)
           x == ScheduleOne(st, bad)
<1>1. /\ s \in Schedulers /\ Sound(s, K) /\ st.stop \in BOOLEAN
      /\ st = [s |-> st.s, stop |-> st.stop]
      /\ Scheduled(s0, s)
  BY DEF SchedulingStates
<1>2. \A t : Sound(t, K) /\ Scheduled(s0, t) =>
              /\ [s |-> t, stop |-> TRUE] \in SchedulingStates(s0, K)
              /\ [s |-> t, stop |-> st.stop] \in SchedulingStates(s0, K)
  BY <1>1 DEF SchedulingStates, Sound
<1>3. CASE st.stop \/ s.waiting = << >> \/ Len(s.running) >= MaxNumSeqs
  <2>1. x = [s |-> s, stop |-> TRUE]
    BY <1>1, <1>3 DEF ScheduleOne
  <2> QED BY <1>1, <1>2, <2>1
<1>4. CASE ~ (st.stop \/ s.waiting = << >> \/ Len(s.running) >= MaxNumSeqs)
  <2>1. s.waiting # << >> /\ s.waiting \in Seq(Requests)
    BY <1>1, <1>4, SchedulerFields DEF SchedulerTyped
  <2>2. r \in Requests
    BY <2>1, TailFacts
  <2> DEFINE e == Ensured(s, r)
  <2>3. /\ Sound(e, K) /\ e.gen = Ensure(s, r) /\ e.gen.live
        /\ e.known = s.known /\ e.made = s.made
        /\ Queued(e) = Queued(s) /\ Active(e) = Active(s)
    BY <1>1, <2>2, EnsureSound
  <2>6. Scheduled(s0, e)
    <3> HIDE DEF e
    <3> QED BY <1>1, <2>3 DEF Scheduled
  <2>4. CASE r \in bad
    <3>1. x = [s |-> e, stop |-> TRUE]
      BY <1>1, <1>4, <2>4 DEF ScheduleOne, PutBack, Ensured
    <3> HIDE DEF e
    <3> QED BY <1>2, <2>3, <2>6, <3>1
  <2>5. CASE r \notin bad
    <3> DEFINE t == Insert(s, r, Ensure(s, r))
    <3>1. x = [s |-> t, stop |-> st.stop]
      BY <1>1, <1>4, <2>5 DEF ScheduleOne
    <3>2. Sound(t, K) /\ Scheduled(e, t)
      BY <1>1, <2>1, <2>3, InsertSound
    <3>3. Scheduled(s0, t)
      <4> HIDE DEF e, t
      <4> QED BY <2>6, <3>2 DEF Scheduled
    <3> HIDE DEF t
    <3> QED BY <1>2, <3>1, <3>2, <3>3
  <2> QED BY <2>4, <2>5
<1> QED
  BY <1>3, <1>4

\* The rounds of _schedule_waiting, one after the other.
LEMMA ScheduleUnfolds ==
  ASSUME NEW s, NEW K, Sound(s, K), NEW bad
  PROVE  \E f : /\ f[0] = [s |-> s, stop |-> FALSE]
                /\ \A n \in 1 .. Len(s.waiting) : f[n] = ScheduleOne(f[n - 1], bad)
                /\ \A n \in 0 .. Len(s.waiting) : f[n] \in SchedulingStates(s, K)
                /\ ScheduleWaiting(s, bad) = f[Len(s.waiting)].s
<1> DEFINE N == Len(s.waiting)
           X == SchedulingStates(s, K)
           x0 == [s |-> s, stop |-> FALSE]
           H == [n \in 1 .. N |-> [st \in X |-> ScheduleOne(st, bad)]]
           f == CHOOSE f : f = [n \in 0 .. N |->
                  IF n = 0 THEN x0 ELSE ScheduleOne(f[n - 1], bad)]
<1>1. s \in Schedulers /\ s.waiting \in Seq(Requests)
  BY SchedulerFields DEF Sound, SchedulerTyped
<1>2. N \in Nat
  BY <1>1, LenProperties
<1>3. x0 \in X
  BY <1>1 DEF SchedulingStates, Scheduled
<1>4. H \in StepsIn(X, N)
  <2>1. \A st \in X : ScheduleOne(st, bad) \in X
    BY ScheduleOneSound
  <2> HIDE DEF X, N
  <2> QED BY <2>1 DEF StepsIn
<1>5. PICK g : Iterates(X, N, x0, H, g)
  <2> HIDE DEF X, N, x0, H
  <2> QED BY <1>2, <1>3, <1>4, Iteration
<1>6. g = [n \in 0 .. N |-> IF n = 0 THEN x0 ELSE ScheduleOne(g[n - 1], bad)]
  <2>1. /\ g \in [0 .. N -> X] /\ g[0] = x0
        /\ \A n \in 1 .. N : g[n] = H[n][g[n - 1]]
    <3> HIDE DEF X, N, x0, H
    <3> QED BY <1>5 DEF Iterates
  <2>2. \A n \in 1 .. N : g[n] = ScheduleOne(g[n - 1], bad)
    <3> SUFFICES ASSUME NEW n \in 1 .. N
                 PROVE  g[n] = ScheduleOne(g[n - 1], bad)
      OBVIOUS
    <3> HIDE DEF X, N, x0
    <3>1. n - 1 \in 0 .. N
      BY <1>2
    <3>2. g[n - 1] \in X
      BY <2>1, <3>1
    <3> QED BY <2>1, <3>2
  <2>3. \A n \in 0 .. N : n # 0 => n \in 1 .. N
    BY <1>2
  <2> HIDE DEF X, N, x0, H
  <2> QED BY <2>1, <2>2, <2>3
<1>7. f = [n \in 0 .. N |-> IF n = 0 THEN x0 ELSE ScheduleOne(f[n - 1], bad)]
  <2> HIDE DEF X, N, x0, H
  <2> QED BY <1>6 DEF f
<1>8. ScheduleWaiting(s, bad) = f[N].s
  BY DEF ScheduleWaiting
<1> DEFINE G == {n \in 0 .. N : f[n] \in X}
<1>9. /\ f[0] = x0 /\ 0 \in G
      /\ \A n \in 1 .. N : f[n] = ScheduleOne(f[n - 1], bad)
      /\ \A n \in 1 .. N : n - 1 \in G => n \in G
  <2> HIDE DEF X, N, x0, f
  <2>1. f[0] = x0 /\ 0 \in 0 .. N
    BY <1>2, <1>7
  <2>2. \A n \in 1 .. N : f[n] = ScheduleOne(f[n - 1], bad) /\ n \in 0 .. N
    BY <1>2, <1>7
  <2>3. \A st \in X : ScheduleOne(st, bad) \in X
    BY ScheduleOneSound DEF X
  <2> QED BY <1>3, <2>1, <2>2, <2>3
<1>10. \A n \in 0 .. N : f[n] \in X
  <2>1. \A n \in 0 .. N : n \in G
    <3> HIDE DEF G, N
    <3> QED BY <1>2, <1>9, UpTo
  <2> HIDE DEF f, X
  <2> QED BY <2>1
<1> HIDE DEF f
<1> QED
  BY <1>8, <1>9, <1>10

\* _schedule_waiting.
LEMMA ScheduleWaitingSound ==
  ASSUME NEW s, NEW K, Sound(s, K), NEW bad
  PROVE  /\ Sound(ScheduleWaiting(s, bad), K)
         /\ Scheduled(s, ScheduleWaiting(s, bad))
<1>1. PICK f : /\ f[0] = [s |-> s, stop |-> FALSE]
               /\ \A n \in 1 .. Len(s.waiting) : f[n] = ScheduleOne(f[n - 1], bad)
               /\ \A n \in 0 .. Len(s.waiting) : f[n] \in SchedulingStates(s, K)
               /\ ScheduleWaiting(s, bad) = f[Len(s.waiting)].s
  BY ScheduleUnfolds
<1>2. Len(s.waiting) \in 0 .. Len(s.waiting)
  BY ListsOf, LenProperties DEF Sound
<1>3. f[Len(s.waiting)] \in SchedulingStates(s, K)
  BY <1>1, <1>2
<1> QED
  BY <1>1, <1>3 DEF SchedulingStates

\* Scheduling has moved the first n requests of the queue, in order, to the end
\* of those that run: s becomes t.
Took(s, n, t) ==
  /\ Len(t.waiting) = Len(s.waiting) - n
  /\ Len(t.running) = Len(s.running) + n
  /\ \A i \in 1 .. Len(t.waiting) : t.waiting[i] = s.waiting[n + i]
  /\ \A i \in 1 .. Len(s.running) : t.running[i] = s.running[i]
  /\ \A i \in 1 .. n : t.running[Len(s.running) + i] = s.waiting[i]

\* Nothing more can be scheduled.
Halted(t, bad) ==
  t.waiting = << >> \/ Len(t.running) >= MaxNumSeqs \/ Head(t.waiting) \in bad

\* A round of _schedule_waiting takes the next request, or is the last.
LEMMA ScheduleOneTakes ==
  ASSUME NEW s, s \in Schedulers, NEW K, NEW st \in SchedulingStates(s, K), NEW bad,
         NEW n \in 0 .. Len(s.waiting), Took(s, n, st.s),
         Len(st.s.running) <= MaxNumSeqs, st.stop => Halted(st.s, bad),
         NEW x, x = ScheduleOne(st, bad)
  PROVE  /\ Len(x.s.running) <= MaxNumSeqs
         /\ \/ x.stop /\ Halted(x.s, bad) /\ Took(s, n, x.s)
            \/ /\ ~ st.stop /\ ~ x.stop /\ n < Len(s.waiting)
               /\ s.waiting[n + 1] \notin bad /\ Took(s, n + 1, x.s)
<1> DEFINE q == st.s
           r == Head(q.waiting)
<1>1. /\ q \in Schedulers /\ Sound(q, K) /\ st.stop \in BOOLEAN
      /\ st = [s |-> st.s, stop |-> st.stop]
  BY DEF SchedulingStates
<1>2. /\ s.waiting \in Seq(Requests) /\ s.running \in Seq(Requests)
      /\ q.waiting \in Seq(Requests) /\ q.running \in Seq(Requests)
  BY <1>1, ListsOf
<1>3. /\ Len(s.waiting) \in Nat /\ Len(s.running) \in Nat
      /\ Len(q.waiting) \in Nat /\ Len(q.running) \in Nat /\ MaxNumSeqs \in Nat
      /\ n \in Nat
  BY <1>2, LenProperties, Constants
<1>4. CASE st.stop \/ q.waiting = << >> \/ Len(q.running) >= MaxNumSeqs
  <2>1. x = [s |-> q, stop |-> TRUE]
    BY <1>1, <1>4 DEF ScheduleOne
  <2> QED BY <1>4, <2>1 DEF Halted
<1>5. CASE ~ (st.stop \/ q.waiting = << >> \/ Len(q.running) >= MaxNumSeqs)
  <2>1. /\ q.waiting # << >> /\ Len(q.running) < MaxNumSeqs /\ r \in Requests
        /\ Len(q.waiting) > 0 /\ r = q.waiting[1] /\ r = s.waiting[n + 1]
        /\ n < Len(s.waiting)
    <3>1. q.waiting # << >> /\ Len(q.running) < MaxNumSeqs
      BY <1>3, <1>5
    <3>2. r \in Requests /\ Len(q.waiting) > 0 /\ r = q.waiting[1]
      BY <1>2, <1>3, <3>1, HeadTailProperties, EmptySeq
    <3>3. 1 \in 1 .. Len(q.waiting)
      BY <1>3, <3>2
    <3>4. q.waiting[1] = s.waiting[n + 1] /\ n < Len(s.waiting)
      BY <1>3, <3>2, <3>3 DEF Took
    <3> QED BY <3>1, <3>2, <3>4
  <2>2. CASE r \in bad
    <3> DEFINE e == Ensured(q, r)
    <3>1. x = [s |-> e, stop |-> TRUE]
      BY <1>1, <1>5, <2>2 DEF ScheduleOne, PutBack, Ensured
    <3>2. e.waiting = q.waiting /\ e.running = q.running
      BY <1>1, SchedulerFields DEF Ensured, IsScheduler
    <3> HIDE DEF e
    <3>3. Halted(x.s, bad)
      BY <2>2, <3>1, <3>2 DEF Halted
    <3>4. Took(s, n, e)
      BY <3>2 DEF Took
    <3>5. x.s = e /\ x.stop /\ Len(e.running) <= MaxNumSeqs
      BY <3>1, <3>2
    <3> QED BY <3>3, <3>4, <3>5
  <2>3. CASE r \notin bad
    <3> DEFINE t == Insert(q, r, Ensure(q, r))
    <3>1. x = [s |-> t, stop |-> st.stop]
      BY <1>1, <1>5, <2>3 DEF ScheduleOne
    <3>2. t.waiting = Tail(q.waiting) /\ t.running = Append(q.running, r)
      BY <1>1, SchedulerFields DEF Insert, IsScheduler
    <3> HIDE DEF t
    <3>3. /\ Len(t.waiting) = Len(q.waiting) - 1
          /\ \A i \in 1 .. Len(t.waiting) : t.waiting[i] = q.waiting[i + 1]
      BY <1>2, <2>1, <3>2, HeadTailProperties
    <3>4. /\ Len(t.running) = Len(q.running) + 1
          /\ \A i \in 1 .. Len(q.running) : t.running[i] = q.running[i]
          /\ t.running[Len(q.running) + 1] = r
      BY <1>2, <2>1, <3>2, AppendProperties
    <3>5. Took(s, n + 1, t)
      <4>1. \A i \in 1 .. Len(t.waiting) : t.waiting[i] = s.waiting[n + 1 + i]
        <5> SUFFICES ASSUME NEW i \in 1 .. Len(t.waiting)
                     PROVE  t.waiting[i] = s.waiting[n + 1 + i]
          OBVIOUS
        <5>1. i + 1 \in 1 .. Len(q.waiting) /\ n + (i + 1) = n + 1 + i
          BY <1>3, <3>3
        <5>2. q.waiting[i + 1] = s.waiting[n + (i + 1)]
          BY <5>1 DEF Took
        <5> QED BY <3>3, <5>1, <5>2
      <4>2. \A i \in 1 .. Len(s.running) : t.running[i] = s.running[i]
        BY <1>3, <3>4 DEF Took
      <4>3. \A i \in 1 .. n + 1 : t.running[Len(s.running) + i] = s.waiting[i]
        <5> SUFFICES ASSUME NEW i \in 1 .. n + 1
                     PROVE  t.running[Len(s.running) + i] = s.waiting[i]
          OBVIOUS
        <5>1. CASE i = n + 1
          <6>1. Len(q.running) = Len(s.running) + n
            BY DEF Took
          <6>2. Len(s.running) + i = Len(q.running) + 1
            <7> DEFINE a == Len(s.running)
                       b == Len(q.running)
            <7>1. a \in Nat /\ b \in Nat /\ n \in Nat /\ b = a + n /\ i = n + 1
              BY <1>3, <5>1, <6>1
            <7> HIDE DEF a, b
            <7>2. a + i = b + 1
              BY <7>1
            <7> QED BY <7>2 DEF a, b
          <6>3. r = s.waiting[i]
            BY <2>1, <5>1
          <6> QED BY <3>4, <6>2, <6>3
        <5>2. CASE i # n + 1
          <6>1. i \in 1 .. n /\ Len(s.running) + i \in 1 .. Len(q.running)
            BY <1>3, <5>2 DEF Took
          <6> QED BY <3>4, <6>1 DEF Took
        <5> QED BY <5>1, <5>2
      <4>4. Len(t.waiting) = Len(s.waiting) - (n + 1) /\ Len(t.running) = Len(s.running) + (n + 1)
        <5>1. Len(q.waiting) = Len(s.waiting) - n /\ Len(q.running) = Len(s.running) + n
          BY DEF Took
        <5> DEFINE a == Len(s.running)
                   b == Len(q.running)
                   c == Len(s.waiting)
                   e == Len(q.waiting)
                   u == Len(t.waiting)
                   v == Len(t.running)
        <5>2. /\ a \in Nat /\ b \in Nat /\ c \in Nat /\ e \in Nat /\ n \in Nat
              /\ e = c - n /\ b = a + n /\ u = e - 1 /\ v = b + 1
          BY <1>3, <3>3, <3>4, <5>1
        <5> HIDE DEF a, b, c, e, u, v
        <5>3. u = c - (n + 1) /\ v = a + (n + 1)
          BY <5>2
        <5> QED BY <5>3 DEF a, c, u, v
      <4> QED BY <4>1, <4>2, <4>3, <4>4 DEF Took
    <3>6. Len(t.running) <= MaxNumSeqs
      BY <1>3, <2>1, <3>4
    <3>7. x.s = t /\ ~ st.stop /\ ~ x.stop
      BY <1>1, <1>5, <3>1
    <3> HIDE DEF r, q, t
    <3> QED BY <2>1, <2>3, <3>5, <3>6, <3>7
  <2> QED BY <2>2, <2>3
<1> QED BY <1>4, <1>5

\* _schedule_waiting takes the head of the queue, up to the limit of running
\* requests or the first that cannot be inserted.
LEMMA ScheduleWaitingTakes ==
  ASSUME NEW s, NEW K, Sound(s, K), Len(s.running) <= MaxNumSeqs, NEW bad,
         NEW t, t = ScheduleWaiting(s, bad)
  PROVE  /\ Len(t.running) <= MaxNumSeqs /\ Halted(t, bad)
         /\ \E n \in 0 .. Len(s.waiting) :
              Took(s, n, t) /\ \A i \in 1 .. n : s.waiting[i] \notin bad
<1> DEFINE N == Len(s.waiting)
<1>1. /\ s \in Schedulers /\ s.waiting \in Seq(Requests) /\ s.running \in Seq(Requests)
      /\ N \in Nat /\ Len(s.running) \in Nat
  BY ListsOf, LenProperties DEF Sound
<1>2. PICK f :
        /\ f[0] = [s |-> s, stop |-> FALSE]
        /\ \A n \in 1 .. N : f[n] = ScheduleOne(f[n - 1], bad)
        /\ \A n \in 0 .. N : f[n] \in SchedulingStates(s, K)
        /\ ScheduleWaiting(s, bad) = f[N].s
  BY ScheduleUnfolds
<1> DEFINE At(k, n) == Took(s, n, f[k].s) /\ \A i \in 1 .. n : s.waiting[i] \notin bad
           Good(k) == /\ Len(f[k].s.running) <= MaxNumSeqs
                      /\ f[k].stop => Halted(f[k].s, bad)
                      /\ \E n \in 0 .. N : At(k, n) /\ (f[k].stop \/ n = k)
           G == {k \in 0 .. N : Good(k)}
<1>3. 0 \in G
  <2>1. f[0].s = s /\ f[0].stop = FALSE
    BY <1>2
  <2>2. At(0, 0)
    BY <1>1, <2>1 DEF Took
  <2> QED BY <1>1, <2>1, <2>2
<1>4. ASSUME NEW k \in 1 .. N, k - 1 \in G PROVE k \in G
  <2>1. k - 1 \in 0 .. N /\ Good(k - 1) /\ k \in 0 .. N /\ k - 1 + 1 = k
    BY <1>1, <1>4
  <2>2. PICK n \in 0 .. N : At(k - 1, n) /\ (f[k - 1].stop \/ n = k - 1)
    BY <2>1
  <2>3. f[k] = ScheduleOne(f[k - 1], bad) /\ f[k - 1] \in SchedulingStates(s, K)
    BY <1>2, <2>1
  <2>4. /\ Len(f[k].s.running) <= MaxNumSeqs
        /\ \/ f[k].stop /\ Halted(f[k].s, bad) /\ Took(s, n, f[k].s)
           \/ /\ ~ f[k - 1].stop /\ ~ f[k].stop /\ n < N
              /\ s.waiting[n + 1] \notin bad /\ Took(s, n + 1, f[k].s)
    BY <1>1, <2>1, <2>2, <2>3, ScheduleOneTakes
  <2>5. CASE f[k].stop /\ Halted(f[k].s, bad) /\ Took(s, n, f[k].s)
    BY <2>1, <2>2, <2>4, <2>5
  <2>6. CASE /\ ~ f[k - 1].stop /\ ~ f[k].stop /\ n < N
             /\ s.waiting[n + 1] \notin bad /\ Took(s, n + 1, f[k].s)
    <3>1. n + 1 \in 0 .. N /\ n + 1 = k
      BY <1>1, <2>1, <2>2, <2>6
    <3>2. \A i \in 1 .. n + 1 : s.waiting[i] \notin bad
      <4>1. \A i \in 1 .. n + 1 : i \in 1 .. n \/ i = n + 1
        OBVIOUS
      <4> QED BY <2>2, <2>6, <4>1
    <3>3. At(k, n + 1)
      BY <2>6, <3>2
    <3> HIDE DEF At
    <3> QED BY <2>1, <2>4, <2>6, <3>1, <3>3
  <2> QED BY <2>4, <2>5, <2>6
<1>5. Good(N)
  <2> HIDE DEF Good
  <2>1. \A k \in 0 .. N : k \in G
    <3> HIDE DEF G, N
    <3> QED BY <1>1, <1>3, <1>4, UpTo
  <2> QED BY <1>1, <2>1
<1>6. t = f[N].s /\ t \in Schedulers
  BY <1>1, <1>2 DEF SchedulingStates
<1>7. PICK n \in 0 .. N : At(N, n) /\ (f[N].stop \/ n = N)
  BY <1>5
<1>8. Halted(t, bad)
  <2>1. CASE f[N].stop
    BY <1>5, <1>6, <2>1
  <2>2. CASE n = N
    <3>1. Len(t.waiting) = 0
      BY <1>1, <1>6, <1>7, <2>2 DEF Took
    <3>2. t.waiting = << >>
      BY <1>6, <3>1, ListsOf, EmptySeq
    <3> QED BY <3>2 DEF Halted
  <2> QED BY <1>7, <2>1, <2>2
<1> QED BY <1>5, <1>6, <1>7, <1>8

-----------------------------------------------------------------------------
\* Retrying.

\* A request in no list keeps its tokens: s becomes t.
Untouched(s, t) ==
  \A r \in Requests \ (Queued(s) \cup Active(s)) : t.made[r] = s.made[r]

\* What retries may do to the lists: s becomes t.
Moved(s, t) ==
  /\ t.known = s.known /\ Seen(s) \subseteq Seen(t)
  /\ Queued(t) \cup Active(t) = Queued(s) \cup Active(s)
  /\ Untouched(s, t)

\* _recover_from_cache_error and _reschedule_running_requests: nothing is
\* left in a generator, and the requests start again from their prompts.
LEMMA RescheduleSound ==
  ASSUME NEW s, NEW K, Sound(s, K), NEW t, t = Reschedule(Recover(s))
  PROVE  /\ Sound(t, K) /\ Moved(s, t)
         /\ t.waiting = Reverse(s.running) \o s.waiting /\ t.running = << >>
<1> DEFINE zero(f) == [r \in Requests |-> IF r \in Active(s) THEN 0 ELSE f[r]]
<1>1. s \in Schedulers /\ IsScheduler(s) /\ SchedulerTyped(s)
  BY SchedulerFields DEF Sound
<1> DEFINE q == Recover(s)
<1>20. q = Recover(s)
  OBVIOUS
<1> HIDE DEF q
<1>2. /\ q.waiting = s.waiting /\ q.running = s.running
      /\ q.known = s.known /\ q.gen = NoGenerator
      /\ q.uid = NoUids /\ q.owner = [u \in Uids |-> None]
      /\ q.made = s.made /\ q.cached = s.cached
      /\ q.fed = s.fed /\ q.hurt = s.hurt
      /\ q.hybrid = s.hybrid /\ q.added = s.added
      /\ IsScheduler(q)
  BY <1>1, <1>20 DEF IsScheduler, Recover
<1>3. Active(q) = Active(s)
  BY <1>2 DEF Active
<1>21. t = Reschedule(q)
  BY <1>20
<1>4. /\ t.waiting = Reverse(s.running) \o s.waiting /\ t.running = << >>
      /\ t.known = s.known /\ t.uid = NoUids
      /\ t.owner = [u \in Uids |-> None] /\ t.gen = NoGenerator
      /\ t.made = zero(s.made) /\ t.cached = zero(s.cached)
      /\ t.fed = zero(s.fed) /\ t.hurt = s.hurt \ Active(s)
      /\ t.hybrid = s.hybrid /\ t.added = s.added /\ IsScheduler(t)
  <2> DEFINE zm == zero(s.made)
             zc == zero(s.cached)
             zf == zero(s.fed)
             w == Reverse(s.running) \o s.waiting
  <2>1. t = [q EXCEPT !.waiting = w, !.running = << >>, !.made = zm,
                      !.cached = zc, !.fed = zf, !.hurt = s.hurt \ Active(s)]
    BY <1>2, <1>3, <1>21 DEF Reschedule
  <2> HIDE DEF zm, zc, zf, w
  <2>4. IsScheduler(q)
    BY <1>2
  <2>5. IsScheduler(t)
    BY <2>1, <2>4 DEF IsScheduler
  <2>6. /\ t.waiting = w /\ t.running = << >> /\ t.made = zm
        /\ t.cached = zc /\ t.fed = zf /\ t.hurt = s.hurt \ Active(s)
    BY <2>1, <2>4 DEF IsScheduler
  <2>7. /\ t.known = q.known /\ t.uid = q.uid /\ t.owner = q.owner
        /\ t.gen = q.gen /\ t.hybrid = q.hybrid /\ t.added = q.added
    BY <2>1, <2>4 DEF IsScheduler
  <2>2. /\ t.waiting = w /\ t.running = << >>
        /\ t.known = s.known /\ t.uid = NoUids
        /\ t.owner = q.owner /\ t.gen = NoGenerator
        /\ t.made = zm /\ t.cached = zc /\ t.fed = zf
        /\ t.hurt = s.hurt \ Active(s)
        /\ t.hybrid = s.hybrid /\ t.added = s.added /\ IsScheduler(t)
    BY <1>2, <2>5, <2>6, <2>7
  <2>3. t.owner = [u \in Uids |-> None]
    BY <1>2, <2>2
  <2> QED BY <2>2, <2>3 DEF zm, zc, zf, w
<1>5. /\ Queued(s) \subseteq Requests /\ Active(s) \subseteq Requests
      /\ s.waiting \in Seq(Requests) /\ s.running \in Seq(Requests)
  BY <1>1, ListsOf
<1>6. /\ t.waiting \in Seq(Requests) /\ IsInjective(t.waiting)
      /\ Queued(t) = Queued(s) \cup Active(s)
  <2> DEFINE rev == Reverse(s.running)
  <2>1. /\ rev \in Seq(Requests) /\ ToSet(rev) = ToSet(s.running) /\ IsInjective(rev)
    BY <1>5, ReverseFacts DEF Sound, Placed
  <2>2. IsInjective(s.waiting) /\ ToSet(s.waiting) \cap ToSet(s.running) = {}
    BY DEF Sound, Placed, Queued, Active
  <2> HIDE DEF rev
  <2>3. /\ rev \o s.waiting \in Seq(Requests)
        /\ ToSet(rev \o s.waiting) = ToSet(rev) \cup ToSet(s.waiting)
        /\ IsInjective(rev \o s.waiting)
    BY <1>5, <2>1, <2>2, ConcatFacts
  <2>4. t.waiting = rev \o s.waiting
    BY <1>4 DEF rev
  <2> QED BY <2>1, <2>3, <2>4 DEF Queued, Active
<1>7. Active(t) = {}
  <2>1. t.running = << >>
    BY <1>4
  <2> QED BY <2>1 DEF Active, ToSet
<1>8. \A r \in Requests :
        /\ t.made[r] = IF r \in Active(s) THEN 0 ELSE s.made[r]
        /\ t.cached[r] = IF r \in Active(s) THEN 0 ELSE s.cached[r]
        /\ t.fed[r] = IF r \in Active(s) THEN 0 ELSE s.fed[r]
        /\ t.uid[r] = None
  BY <1>4 DEF NoUids
<1>9. /\ t.gen.live = FALSE /\ t.gen.next = 0 /\ t.gen.rounds = 0
      /\ t.gen.stray = {} /\ \A u \in Uids : t.gen.left[u] = 0
  BY <1>4 DEF NoGenerator
<1>10. t.gen \in Generators
  <2>1. NoGenerator = EmptyScheduler.gen
    BY DEF EmptyScheduler
  <2> DEFINE e == [EmptyScheduler EXCEPT !.hybrid = FALSE]
  <2>2. e.gen = NoGenerator
    BY DEF EmptyScheduler
  <2>3. Sound(e, {})
    BY EmptySound
  <2> HIDE DEF e
  <2>4. e.gen \in Generators
    BY <2>3, SchedulerFields DEF Sound, SchedulerTyped
  <2> QED BY <1>4, <2>2, <2>4
<1>11. t \in Schedulers
  <2>1. /\ zero(s.made) \in [Requests -> 0 .. Most]
        /\ zero(s.cached) \in [Requests -> Nat]
        /\ zero(s.fed) \in [Requests -> {0, 1}]
    <3>1. /\ \A r \in Requests : s.made[r] \in 0 .. Most
          /\ \A r \in Requests : s.cached[r] \in Nat
          /\ \A r \in Requests : s.fed[r] \in {0, 1}
      BY <1>1 DEF SchedulerTyped
    <3>2. 0 \in 0 .. Most
      BY Constants
    <3> QED BY <3>1, <3>2
  <2>2. NoUids \in [Requests -> Uids \cup {None}]
    BY DEF NoUids
  <2>3. [u \in Uids |-> None] \in [Uids -> Requests \cup {None}]
    OBVIOUS
  <2>4. t.running \in Seq(Requests)
    <3>1. << >> \in Seq(Requests)
      BY EmptySeq
    <3> QED BY <1>4, <3>1
  <2>5. t.hurt \in SUBSET Requests /\ t.known \in SUBSET Requests
    BY <1>1, <1>4 DEF SchedulerTyped
  <2>6. t.hybrid \in BOOLEAN
    BY <1>1, <1>4 DEF SchedulerTyped
  <2>7. t.added \in [Requests -> SUBSET StopTokens]
    BY <1>1, <1>4 DEF SchedulerTyped
  <2> HIDE DEF zero
  <2>8. SchedulerTyped(t)
    BY <1>4, <1>6, <1>10, <2>1, <2>2, <2>3, <2>4, <2>5, <2>6, <2>7
       DEF SchedulerTyped
  <2> QED BY <1>4, <2>8, SchedulerFields
<1>12. Placed(t)
  <2>1. t.running = << >>
    BY <1>4
  <2>2. IsInjective(t.running)
    BY <2>1 DEF IsInjective
  <2> QED BY <1>6, <1>7, <2>2 DEF Placed
<1>13. Mapped(t)
  <2>1. \A u \in Uids : t.owner[u] = None
    BY <1>4
  <2> QED BY <1>7, <1>8, <2>1 DEF Mapped
<1>14. Worked(t)
  <2>1. Working(t) = {}
    BY <1>9 DEF Working
  <2> QED BY <1>7, <1>9, <2>1 DEF Worked
<1>15. Counted(t, K)
  <2>1. K \subseteq Requests /\ Queued(t) \cup Active(t) \subseteq K
    BY <1>6, <1>7 DEF Sound, Counted
  <2> QED BY <1>9, <2>1, StartedFinite, Constants DEF Counted
<1>16. Bounded(t) /\ Held(t, Served(t))
  BY <1>7 DEF Bounded, Held, Served
<1>19. Moved(s, t)
  <2>1. Untouched(s, t)
    BY <1>8 DEF Untouched
  <2>2. Seen(s) \subseteq Seen(t)
    BY <1>4, <1>6, <1>7, <1>8 DEF Seen
  <2> QED BY <1>4, <1>6, <1>7, <2>1, <2>2 DEF Moved
<1>17. Live(t)
  BY <1>4 DEF Live
<1>18. Fresh(t)
  <2>1. \A r \in Queued(s) : s.made[r] = 0
    BY DEF Sound, Fresh
  <2>2. \A r \in Requests : s.made[r] = 0 => s.cached[r] = 0 /\ s.fed[r] = 0
    BY DEF Sound, Fresh
  <2> QED BY <1>5, <1>6, <1>8, <2>1, <2>2 DEF Fresh
<1> QED
  BY <1>4, <1>11, <1>12, <1>13, <1>14, <1>15, <1>16, <1>17, <1>18, <1>19 DEF Sound

\* What step does after a failure that it retries.
LEMMA RetrySound ==
  ASSUME NEW s, NEW K, Sound(s, K), NEW bad
  PROVE  Sound(Retry(s, bad), K) /\ Moved(s, Retry(s, bad))
<1> DEFINE q == Reschedule(Recover(s))
           t == ScheduleWaiting(q, bad)
<1>1. Sound(q, K) /\ Moved(s, q)
  BY RescheduleSound
<1> HIDE DEF q
<1>2. Sound(t, K) /\ Scheduled(q, t)
  BY <1>1, ScheduleWaitingSound
<1>3. Retry(s, bad) = t
  BY DEF Retry, q
<1> HIDE DEF t
<1> QED
  BY <1>1, <1>2, <1>3 DEF Moved, Scheduled, Seen, Untouched

\* The requests of First run, behind the last that could not be inserted again.
Firm(x, bad, First) ==
  \E m \in 0 .. Len(x.running) :
    /\ \A a \in m + 1 .. Len(x.running) : x.running[a] \notin bad
    /\ \A e \in First : \E a \in m + 1 .. Len(x.running) : x.running[a] = e

\* What scheduling has settled, for the rest of a step: who of the queue runs
\* and who waits.
Settled(x, bad, First, Later) ==
  /\ Len(x.running) <= MaxNumSeqs /\ Halted(x, bad)
  /\ Firm(x, bad, First) /\ Later \subseteq Queued(x)

\* A retry starts the requests again that scheduling started, however many it
\* puts in front of them, and no more of the queue.
LEMMA RetrySettles ==
  ASSUME NEW x, NEW K, Sound(x, K), NEW bad, NEW First, NEW Later,
         Settled(x, bad, First, Later), NEW t, t = Retry(x, bad)
  PROVE  Settled(t, bad, First, Later)
<1> DEFINE q == Reschedule(Recover(x))
           L == Len(x.running)
           M == Len(x.waiting)
<1>1. /\ Sound(q, K) /\ q.waiting = Reverse(x.running) \o x.waiting /\ q.running = << >>
      /\ t = ScheduleWaiting(q, bad)
  BY RescheduleSound DEF Retry
<1> HIDE DEF q
<1>2. /\ x.waiting \in Seq(Requests) /\ x.running \in Seq(Requests)
      /\ L \in Nat /\ M \in Nat /\ MaxNumSeqs \in Nat /\ L <= MaxNumSeqs
  BY ListsOf, LenProperties, Constants DEF Sound, Settled
<1>3. /\ Len(q.waiting) = L + M
      /\ \A i \in 1 .. L : q.waiting[i] = x.running[L - i + 1]
      /\ \A i \in 1 .. M : q.waiting[L + i] = x.waiting[i]
  <2> DEFINE rev == Reverse(x.running)
  <2>1. rev \in Seq(Requests) /\ Len(rev) = L /\ \A i \in 1 .. L : rev[i] = x.running[L - i + 1]
    <3>1. rev \in Seq(Requests)
      BY <1>2, ReverseFacts
    <3>2. rev = [i \in 1 .. L |-> x.running[L - i + 1]]
      BY DEF Reverse
    <3>3. DOMAIN rev = 1 .. L /\ DOMAIN rev = 1 .. Len(rev) /\ Len(rev) \in Nat
      <4> HIDE DEF rev
      <4> QED BY <3>1, <3>2, LenProperties
    <3> HIDE DEF rev
    <3> QED BY <1>2, <3>1, <3>2, <3>3
  <2> HIDE DEF rev
  <2>2. /\ Len(rev \o x.waiting) = L + M
        /\ \A i \in 1 .. L + M :
             (rev \o x.waiting)[i] = IF i <= L THEN rev[i] ELSE x.waiting[i - L]
    <3>1. /\ Len(rev \o x.waiting) = Len(rev) + M
          /\ \A i \in 1 .. Len(rev) + M :
               (rev \o x.waiting)[i] = IF i <= Len(rev) THEN rev[i] ELSE x.waiting[i - Len(rev)]
      BY <1>2, <2>1, ConcatProperties
    <3> HIDE DEF L, M
    <3> QED BY <2>1, <3>1
  <2>3. q.waiting = rev \o x.waiting
    BY <1>1 DEF rev
  <2>4. ASSUME NEW i \in 1 .. L PROVE q.waiting[i] = x.running[L - i + 1]
    <3>1. i \in 1 .. L + M /\ i <= L
      <4> HIDE DEF L, M
      <4> QED BY <1>2, <2>4
    <3> QED BY <2>1, <2>2, <2>3, <3>1
  <2>5. ASSUME NEW i \in 1 .. M PROVE q.waiting[L + i] = x.waiting[i]
    <3> DEFINE n == L + i
    <3> HIDE DEF L, M
    <3>1. n \in 1 .. L + M /\ ~ (n <= L) /\ n - L = i
      BY <1>2, <2>5
    <3> HIDE DEF n
    <3>2. q.waiting[n] = x.waiting[n - L]
      BY <2>2, <2>3, <3>1
    <3> QED BY <3>1, <3>2 DEF n
  <2> QED BY <2>2, <2>3, <2>4, <2>5
<1>4. Len(q.running) = 0 /\ q.running \in Seq(Requests)
  BY <1>1, ListsOf, EmptySeq DEF Sound
<1>5. PICK k \in 0 .. Len(q.waiting) :
        /\ Took(q, k, t) /\ Len(t.running) <= MaxNumSeqs /\ Halted(t, bad)
        /\ \A i \in 1 .. k : q.waiting[i] \notin bad
  <2>1. Len(q.running) <= MaxNumSeqs
    BY <1>2, <1>4
  <2> HIDE DEF L, M
  <2> QED BY <1>1, <2>1, ScheduleWaitingTakes
<1>6. /\ t \in Schedulers /\ t.waiting \in Seq(Requests)
  BY <1>1, ScheduleWaitingSound, ListsOf DEF Sound
<1> HIDE DEF L, M
<1>7. /\ k \in Nat /\ k <= L + M /\ k <= MaxNumSeqs
      /\ Len(t.waiting) = L + M - k /\ Len(t.running) = k
      /\ \A i \in 1 .. L + M - k : t.waiting[i] = q.waiting[k + i]
      /\ \A i \in 1 .. k : t.running[i] = q.waiting[i]
  BY <1>2, <1>3, <1>4, <1>5 DEF Took
<1>8. PICK m \in 0 .. L :
        /\ \A a \in m + 1 .. L : x.running[a] \notin bad
        /\ \A e \in First : \E a \in m + 1 .. L : x.running[a] = e
  BY DEF Settled, Firm, L
\* All of First is taken.
<1>9. k >= L - m
  <2> SUFFICES ASSUME k < L - m PROVE FALSE
    BY <1>2, <1>7
  <2>1. Len(t.waiting) > 0 /\ t.waiting # << >> /\ 1 \in 1 .. L + M - k
    BY <1>2, <1>6, <1>7, EmptySeq
  <2>2. Head(t.waiting) = t.waiting[1]
    BY <1>6, <2>1
  <2>3. t.waiting[1] = q.waiting[k + 1] /\ k + 1 \in 1 .. L
    BY <1>2, <1>7, <2>1
  <2>4. L - (k + 1) + 1 \in m + 1 .. L
    BY <1>2, <1>7
  <2>5. Head(t.waiting) \notin bad
    BY <1>3, <1>8, <2>2, <2>3, <2>4
  <2>6. ~ (Len(t.running) >= MaxNumSeqs)
    BY <1>2, <1>7
  <2> QED BY <1>5, <2>1, <2>5, <2>6 DEF Halted
\* No other request of the queue is.
<1>10. k <= L
  <2> SUFFICES ASSUME k > L PROVE FALSE
    BY <1>2, <1>7
  <2>1. M > 0 /\ 1 \in 1 .. M /\ L + 1 \in 1 .. k /\ L < MaxNumSeqs
    BY <1>2, <1>7
  <2>2. x.waiting # << >> /\ Head(x.waiting) = x.waiting[1]
    BY <1>2, <2>1, EmptySeq DEF M
  <2>3. x.waiting[1] \notin bad
    BY <1>3, <1>5, <2>1
  <2>4. ~ (L >= MaxNumSeqs)
    BY <1>2, <2>1
  <2> QED BY <2>2, <2>3, <2>4 DEF Settled, Halted, L
<1>11. Firm(t, bad, First)
  <2>1. \A a \in 0 + 1 .. k : t.running[a] \notin bad
    BY <1>5, <1>7
  <2>2. ASSUME NEW e \in First PROVE \E a \in 0 + 1 .. k : t.running[a] = e
    <3>1. PICK a \in m + 1 .. L : x.running[a] = e
      BY <1>8
    <3>2. L - a + 1 \in 1 .. k /\ L - a + 1 \in 1 .. L /\ L - (L - a + 1) + 1 = a
      BY <1>2, <1>7, <1>9
    <3>3. t.running[L - a + 1] = e
      BY <1>3, <1>7, <3>1, <3>2
    <3> QED BY <3>2, <3>3
  <2>3. 0 \in 0 .. Len(t.running)
    BY <1>7
  <2> QED BY <1>7, <2>1, <2>2, <2>3 DEF Firm
<1>12. Later \subseteq Queued(t)
  <2> SUFFICES ASSUME NEW e \in Later PROVE e \in Queued(t)
    OBVIOUS
  <2>1. PICK j \in 1 .. M : x.waiting[j] = e
    BY <1>2, LenProperties DEF Settled, Queued, ToSet, M
  <2>2. L + j - k \in 1 .. L + M - k /\ k + (L + j - k) = L + j
    BY <1>2, <1>7, <1>10
  <2>3. t.waiting[L + j - k] = e
    <3>1. t.waiting[L + j - k] = q.waiting[k + (L + j - k)]
      BY <1>7, <2>2
    <3>2. q.waiting[k + (L + j - k)] = q.waiting[L + j]
      BY <2>2
    <3> QED BY <1>3, <2>1, <3>1, <3>2
  <2>4. L + j - k \in DOMAIN t.waiting
    BY <1>6, <1>7, <2>2, LenProperties
  <2> QED BY <2>3, <2>4 DEF Queued, ToSet
<1> QED BY <1>5, <1>11, <1>12 DEF Settled

-----------------------------------------------------------------------------
\* A call of next() and what follows from it.

\* The requests that end with the token that next() makes.
Ending(s, ending) == {r \in Active(s) : EndsWith(s, r, ending) # "none"}

\* The running requests that are told a token are all of them.
LEMMA AllRespond ==
  ASSUME NEW s, NEW K, Sound(s, K)
  PROVE  Responding(s) \in Seq(Requests) /\ ToSet(Responding(s)) = Active(s)
<1>1. s \in Schedulers /\ s.running \in Seq(Requests) /\ Active(s) \subseteq Requests
  BY ListsOf DEF Sound
<1> DEFINE W == {r \in Requests : s.uid[r] \in Working(s)}
<1>2. Active(s) \subseteq W
  BY <1>1 DEF Sound, Worked
<1>3. Responding(s) = Only(s.running, W)
  BY DEF Responding
<1> HIDE DEF W
<1>4. /\ Only(s.running, W) \in Seq(Requests)
      /\ ToSet(Only(s.running, W)) = ToSet(s.running) \cap W
  BY <1>1, OnlyFacts
<1> QED
  BY <1>2, <1>3, <1>4 DEF Active

\* What next() does to the fields: t is s after it.
Advanced(s, ending, t) ==
  /\ t.waiting = s.waiting /\ t.running = s.running
  /\ t.known = s.known /\ t.uid = s.uid /\ t.owner = s.owner
  /\ t.hurt = s.hurt /\ t.hybrid = s.hybrid /\ t.added = s.added
  /\ t.made = [r \in Requests |-> IF r \in Active(s) THEN s.made[r] + 0 + 1
                                                    ELSE s.made[r]]
  /\ t.cached = [r \in Requests |-> IF r \in Active(s)
                   THEN s.cached[r] + s.fed[r] + 1 ELSE s.cached[r]]
  /\ t.fed = [r \in Requests |-> IF r \in Active(s) THEN 0 ELSE s.fed[r]]
  /\ t.gen.live = s.gen.live /\ t.gen.params = s.gen.params
  /\ t.gen.stops = s.gen.stops /\ t.gen.next = s.gen.next
  /\ t.gen.rounds = s.gen.rounds
  /\ t.gen.left = [u \in Uids |->
       IF s.gen.left[u] = 0 \/ s.owner[u] \in ending THEN 0
       ELSE s.gen.left[u] - 1]
  /\ t.gen.stray = {u \in s.gen.stray : s.gen.left[u] > 1}
  /\ IsScheduler(t) /\ IsGenerator(t.gen)

\* It does.
LEMMA AdvanceFields ==
  ASSUME NEW s, NEW K, Sound(s, K), NEW ending, NEW t, t = Advance(s, ending)
  PROVE  Advanced(s, ending, t)
<1> DEFINE A == ToSet(Responding(s))
           none == [r \in Requests |-> 0]
           plus(f, g) == [r \in Requests |-> IF r \in A THEN f[r] + g[r] + 1 ELSE f[r]]
           made == plus(s.made, none)
           cached == plus(s.cached, s.fed)
           fed == [r \in Requests |-> IF r \in A THEN 0 ELSE s.fed[r]]
           left == [u \in Uids |->
              IF s.gen.left[u] = 0 \/ s.owner[u] \in ending THEN 0
              ELSE s.gen.left[u] - 1]
           stray == {u \in s.gen.stray : s.gen.left[u] > 1}
           g == s.gen
           h == [g EXCEPT !.left = left, !.stray = stray]
<1>1. IsScheduler(s) /\ IsGenerator(g)
  BY SchedulerFields, GeneratorFields DEF Sound, SchedulerTyped
<1>2. A = Active(s)
  BY AllRespond
<1>3. t = [s EXCEPT !.made = made, !.cached = cached, !.fed = fed, !.gen = h]
  <2>1. t = [s EXCEPT !.made = plus(@, none), !.cached = plus(@, s.fed),
                !.fed = [r \in Requests |-> IF r \in A THEN 0 ELSE @[r]],
                !.gen.left = [u \in Uids |->
                   IF @[u] = 0 \/ s.owner[u] \in ending THEN 0 ELSE @[u] - 1],
                !.gen.stray = {u \in @ : s.gen.left[u] > 1}]
    BY DEF Advance
  <2> QED BY <1>1, <2>1 DEF IsScheduler
<1>4. made = [r \in Requests |-> IF r \in A THEN s.made[r] + 0 + 1 ELSE s.made[r]]
  OBVIOUS
<1> HIDE DEF A, made, cached, fed, left, stray
<1>5. /\ h.live = g.live /\ h.params = g.params /\ h.stops = g.stops
      /\ h.next = g.next /\ h.rounds = g.rounds /\ h.left = left
      /\ h.stray = stray
  <2> HIDE DEF g
  <2> QED BY <1>1 DEF IsGenerator
<1>6. IsGenerator(h)
  <2> DEFINE k == h
  <2>1. k = [g EXCEPT !.left = left, !.stray = stray]
    OBVIOUS
  <2> HIDE DEF g, k
  <2>2. IsGenerator(k)
    BY <1>1, <2>1 DEF IsGenerator
  <2> QED BY <2>2 DEF k
<1> HIDE DEF h
<1>7. IsScheduler(t)
  BY <1>1, <1>3 DEF IsScheduler
<1>8. /\ t.waiting = s.waiting /\ t.running = s.running
      /\ t.known = s.known /\ t.uid = s.uid /\ t.owner = s.owner
      /\ t.hurt = s.hurt /\ t.hybrid = s.hybrid /\ t.added = s.added
  BY <1>1, <1>3 DEF IsScheduler
<1>9. t.made = made /\ t.cached = cached /\ t.fed = fed /\ t.gen = h
  BY <1>1, <1>3 DEF IsScheduler
<1> QED
  BY <1>2, <1>4, <1>5, <1>6, <1>7, <1>8, <1>9 DEF cached, fed, left, stray, Advanced

\* After next(): the requests that end with their token have no uid at work,
\* and every running request has a token.
LEMMA AdvanceSpent ==
  ASSUME NEW s, NEW K, Sound(s, K), NEW ending \in SUBSET Requests,
         NEW t, t = Advance(s, ending), NEW D, D = Ending(s, ending)
  PROVE  /\ Spent(t, K, D)
         /\ Active(t) = Active(s) /\ Queued(t) = Queued(s) /\ t.known = s.known
         /\ \A r \in Requests \ Active(s) : t.made[r] = s.made[r]
         /\ \A u \in t.gen.stray : t.owner[u] = None
<1>0. Advanced(s, ending, t)
  BY AdvanceFields
<1>1. /\ s \in Schedulers /\ SchedulerTyped(s) /\ GeneratorTyped(s.gen)
      /\ Active(s) \subseteq Requests /\ Queued(s) \subseteq Requests
  BY SchedulerFields, GeneratorFields, ListsOf DEF Sound, SchedulerTyped
<1>2. /\ t.waiting = s.waiting /\ t.running = s.running
      /\ t.known = s.known /\ t.uid = s.uid /\ t.owner = s.owner
      /\ t.hurt = s.hurt /\ t.hybrid = s.hybrid /\ t.added = s.added
      /\ IsScheduler(t)
  BY <1>0 DEF Advanced
<1>3. /\ t.gen.live = s.gen.live /\ t.gen.params = s.gen.params
      /\ t.gen.stops = s.gen.stops /\ t.gen.next = s.gen.next
      /\ t.gen.rounds = s.gen.rounds /\ IsGenerator(t.gen)
      /\ t.gen.stray = {u \in s.gen.stray : s.gen.left[u] > 1}
  BY <1>0 DEF Advanced
<1>4. /\ \A r \in Active(s) : t.made[r] = s.made[r] + 0 + 1
                              /\ t.cached[r] = s.cached[r] + s.fed[r] + 1
                              /\ t.fed[r] = 0
      /\ \A r \in Requests \ Active(s) :
           t.made[r] = s.made[r] /\ t.cached[r] = s.cached[r] /\ t.fed[r] = s.fed[r]
  <2>1. /\ t.made = [r \in Requests |-> IF r \in Active(s) THEN s.made[r] + 0 + 1
                                                           ELSE s.made[r]]
        /\ t.cached = [r \in Requests |-> IF r \in Active(s)
                          THEN s.cached[r] + s.fed[r] + 1 ELSE s.cached[r]]
        /\ t.fed = [r \in Requests |-> IF r \in Active(s) THEN 0 ELSE s.fed[r]]
    BY <1>0 DEF Advanced
  <2>2. \A r \in Active(s) : r \in Requests
    BY <1>1
  <2> QED BY <2>1, <2>2
<1>5. \A u \in Uids : t.gen.left[u] =
        IF s.gen.left[u] = 0 \/ s.owner[u] \in ending THEN 0 ELSE s.gen.left[u] - 1
  <2>1. t.gen.left = [u \in Uids |->
              IF s.gen.left[u] = 0 \/ s.owner[u] \in ending THEN 0
              ELSE s.gen.left[u] - 1]
    BY <1>0 DEF Advanced
  <2> QED BY <2>1
<1>6. Queued(t) = Queued(s) /\ Active(t) = Active(s)
  BY <1>2 DEF Queued, Active
\* A running request's uid is at work before, and what it has left.
<1>7. \A r \in Active(s) :
        /\ s.uid[r] \in Uids /\ s.owner[s.uid[r]] = r
        /\ s.gen.left[s.uid[r]] \in Nat /\ s.gen.left[s.uid[r]] > 0
        /\ s.made[r] \in Nat /\ s.made[r] + s.gen.left[s.uid[r]] <= Most
        /\ t.gen.left[s.uid[r]] = IF r \in ending THEN 0 ELSE s.gen.left[s.uid[r]] - 1
  <2> SUFFICES ASSUME NEW r \in Active(s)
               PROVE  /\ s.uid[r] \in Uids /\ s.owner[s.uid[r]] = r
                      /\ s.gen.left[s.uid[r]] \in Nat /\ s.gen.left[s.uid[r]] > 0
                      /\ s.made[r] \in Nat
                      /\ s.made[r] + s.gen.left[s.uid[r]] <= Most
                      /\ t.gen.left[s.uid[r]] =
                           IF r \in ending THEN 0 ELSE s.gen.left[s.uid[r]] - 1
    OBVIOUS
  <2>1. r \in Requests /\ s.uid[r] \in Working(s)
    BY <1>1 DEF Worked, Sound
  <2>2. s.uid[r] \in Uids /\ s.gen.left[s.uid[r]] > 0
    BY <2>1 DEF Working
  <2>3. s.owner[s.uid[r]] = r /\ s.made[r] + s.gen.left[s.uid[r]] <= Most
    BY DEF Mapped, Bounded, Sound
  <2>4. s.gen.left[s.uid[r]] \in Nat /\ s.made[r] \in Nat
    BY <1>1, <2>1, <2>2, Values
  <2>5. s.gen.left[s.uid[r]] # 0
    BY <2>2, <2>4
  <2>6. t.gen.left[s.uid[r]] =
          IF r \in ending THEN 0 ELSE s.gen.left[s.uid[r]] - 1
    BY <1>5, <2>2, <2>3, <2>5
  <2> QED BY <2>2, <2>3, <2>4, <2>6
<1>8. \A r \in Active(s) : r \in D <=> r \in ending \/ s.gen.left[s.uid[r]] = 1
  BY DEF Ending, EndsWith
<1>9. \A r \in Active(s) :
        /\ t.made[r] \in Nat /\ t.made[r] = s.made[r] + 1
        /\ t.gen.left[s.uid[r]] \in Nat
        /\ t.made[r] + t.gen.left[s.uid[r]] <= Most
        /\ t.gen.left[s.uid[r]] > 0 <=> r \notin D
  <2> SUFFICES ASSUME NEW r \in Active(s)
               PROVE  /\ t.made[r] \in Nat /\ t.made[r] = s.made[r] + 1
                      /\ t.gen.left[s.uid[r]] \in Nat
                      /\ t.made[r] + t.gen.left[s.uid[r]] <= Most
                      /\ t.gen.left[s.uid[r]] > 0 <=> r \notin D
    OBVIOUS
  <2> DEFINE n == s.gen.left[s.uid[r]]
  <2>1. /\ n \in Nat /\ n > 0 /\ s.made[r] \in Nat /\ s.made[r] + n <= Most
        /\ t.gen.left[s.uid[r]] = IF r \in ending THEN 0 ELSE n - 1
        /\ r \in D <=> r \in ending \/ n = 1
    BY <1>7, <1>8
  <2>2. t.made[r] = s.made[r] + 0 + 1
    BY <1>4
  <2> HIDE DEF n
  <2>3. CASE r \in ending
    BY <2>1, <2>2, <2>3, Constants
  <2>4. CASE r \notin ending
    BY <2>1, <2>2, <2>4, Constants
  <2> QED BY <2>3, <2>4
<1>10. \A u \in s.gen.stray :
         /\ u \in Uids /\ s.owner[u] = None /\ u < s.gen.next
         /\ s.gen.left[u] \in Nat
         /\ t.gen.left[u] > 0 <=> u \in t.gen.stray
  <2> SUFFICES ASSUME NEW u \in s.gen.stray
               PROVE  /\ u \in Uids /\ s.owner[u] = None /\ u < s.gen.next
                      /\ s.gen.left[u] \in Nat
                      /\ t.gen.left[u] > 0 <=> u \in t.gen.stray
    OBVIOUS
  <2>1. u \in Uids /\ s.gen.left[u] \in Nat
    BY <1>1, Values
  <2>2. s.owner[u] = None /\ u < s.gen.next
    BY DEF Worked, Sound
  <2>3. None \notin ending
    BY Constants
  <2>4. t.gen.left[u] = IF s.gen.left[u] = 0 THEN 0 ELSE s.gen.left[u] - 1
    BY <1>5, <2>1, <2>2, <2>3
  <2>5. u \in t.gen.stray <=> s.gen.left[u] > 1
    BY <1>3
  <2>6. CASE s.gen.left[u] = 0
    BY <2>1, <2>2, <2>4, <2>5, <2>6
  <2>7. CASE s.gen.left[u] # 0
    BY <2>1, <2>2, <2>4, <2>5, <2>7
  <2> QED BY <2>6, <2>7
<1>11. t \in Schedulers
  <2>1. t.made \in [Requests -> 0 .. Most]
    <3>1. t.made = [r \in Requests |-> IF r \in Active(s) THEN s.made[r] + 0 + 1
                                                          ELSE s.made[r]]
      BY <1>0 DEF Advanced
    <3>2. \A r \in Requests : t.made[r] \in 0 .. Most
      <4> SUFFICES ASSUME NEW r \in Requests
                   PROVE  t.made[r] \in 0 .. Most
        OBVIOUS
      <4>1. CASE r \in Active(s)
        <5>1. /\ t.made[r] \in Nat /\ t.gen.left[s.uid[r]] \in Nat
              /\ t.made[r] + t.gen.left[s.uid[r]] <= Most
          BY <1>9, <4>1
        <5> QED BY <5>1, Constants
      <4>2. CASE r \notin Active(s)
        <5>1. t.made[r] = s.made[r]
          BY <1>4, <4>2
        <5> QED BY <1>1, <5>1, Values, Constants
      <4> QED BY <4>1, <4>2
    <3> QED BY <3>1, <3>2
  <2>2. t.cached \in [Requests -> Nat]
    <3>1. t.cached = [r \in Requests |-> IF r \in Active(s)
                          THEN s.cached[r] + s.fed[r] + 1 ELSE s.cached[r]]
      BY <1>0 DEF Advanced
    <3>2. \A r \in Requests : s.cached[r] \in Nat /\ s.fed[r] \in Nat
      BY <1>1, Values
    <3> QED BY <3>1, <3>2
  <2>3. t.fed \in [Requests -> {0, 1}]
    <3>1. t.fed = [r \in Requests |-> IF r \in Active(s) THEN 0 ELSE s.fed[r]]
      BY <1>0 DEF Advanced
    <3>2. s.fed \in [Requests -> {0, 1}]
      BY <1>1 DEF SchedulerTyped
    <3> QED BY <3>1, <3>2
  <2>4. t.gen.left \in [Uids -> 0 .. MaxTokens]
    <3>1. t.gen.left = [u \in Uids |->
              IF s.gen.left[u] = 0 \/ s.owner[u] \in ending THEN 0
              ELSE s.gen.left[u] - 1]
      BY <1>0 DEF Advanced
    <3>2. \A u \in Uids : t.gen.left[u] \in 0 .. MaxTokens
      <4> SUFFICES ASSUME NEW u \in Uids
                   PROVE  t.gen.left[u] \in 0 .. MaxTokens
        OBVIOUS
      <4>1. s.gen.left[u] \in Nat /\ s.gen.left[u] <= MaxTokens
        BY <1>1, Values
      <4>2. CASE s.gen.left[u] = 0 \/ s.owner[u] \in ending
        BY <1>5, <4>2, Constants
      <4>3. CASE ~ (s.gen.left[u] = 0 \/ s.owner[u] \in ending)
        <5>1. t.gen.left[u] = s.gen.left[u] - 1 /\ s.gen.left[u] # 0
          BY <1>5, <4>3
        <5> QED BY <4>1, <5>1, Constants
      <4> QED BY <4>2, <4>3
    <3> QED BY <3>1, <3>2
  <2>5. t.gen.stray \in SUBSET Uids
    BY <1>3, <1>10
  <2>6. GeneratorTyped(t.gen)
    BY <1>1, <1>3, <2>4, <2>5 DEF GeneratorTyped
  <2>7. t.gen \in Generators
    BY <1>3, <2>6, GeneratorFields
  <2>8. SchedulerTyped(t)
    BY <1>1, <1>2, <2>1, <2>2, <2>3, <2>7 DEF SchedulerTyped
  <2> QED BY <1>2, <2>8, SchedulerFields
<1>12. Placed(t) /\ Mapped(t)
  <2>1. Placed(s) /\ Mapped(s)
    BY DEF Sound
  <2> QED BY <1>2, <1>3, <1>6, <2>1 DEF Placed, Mapped
<1>13. Counted(t, K)
  <2>1. Started(t, K) = Started(s, K)
    BY <1>6 DEF Started
  <2> QED BY <1>3, <1>6, <2>1 DEF Counted, Sound
<1>14. Bounded(t)
  <2>1. t.uid = s.uid
    BY <1>2
  <2> QED BY <1>6, <1>9, <2>1 DEF Bounded
<1>15. Begun(t)
  <2>1. \A r \in Active(s) : t.made[r] > 0
    BY <1>7, <1>9
  <2> QED BY <1>6, <2>1 DEF Begun
<1>16. Fresh(t)
  <2>1. \A r \in Queued(t) : t.made[r] = 0
    <3>1. \A r \in Queued(s) : r \in Requests \ Active(s) /\ s.made[r] = 0
      BY <1>1 DEF Sound, Placed, Fresh
    <3> QED BY <1>4, <1>6, <3>1
  <2>2. \A r \in Requests : t.made[r] = 0 => t.cached[r] = 0 /\ t.fed[r] = 0
    <3> SUFFICES ASSUME NEW r \in Requests, t.made[r] = 0
                 PROVE  t.cached[r] = 0 /\ t.fed[r] = 0
      OBVIOUS
    <3>1. r \notin Active(s)
      BY <1>6, <1>15 DEF Begun
    <3> QED BY <1>4, <3>1 DEF Sound, Fresh
  <2> QED BY <2>1, <2>2 DEF Fresh
<1>17. Live(t)
  BY <1>2, <1>3 DEF Live, Sound
<1>24. Served(t) = Served(s) /\ Served(s) \subseteq Active(s)
  BY <1>2, <1>6 DEF Served
<1>18. Held(t, Served(t))
  <2> SUFFICES ASSUME NEW r \in Served(s)
               PROVE  /\ r \notin t.hurt => t.cached[r] + t.fed[r] = t.made[r]
                      /\ t.added[r] = StopIds[r] /\ StopIds[r] \subseteq t.gen.stops
    BY <1>24 DEF Held
  <2>6. r \in Active(s)
    BY <1>24
  <2>1. /\ r \notin s.hurt => s.cached[r] + s.fed[r] = s.made[r]
        /\ s.added[r] = StopIds[r] /\ StopIds[r] \subseteq s.gen.stops
    BY DEF Sound, Held
  <2>2. s.cached[r] \in Nat /\ s.fed[r] \in Nat /\ s.made[r] \in Nat
    BY <1>1, <2>6, Values
  <2>3. t.made[r] = s.made[r] + 0 + 1 /\ t.cached[r] = s.cached[r] + s.fed[r] + 1
        /\ t.fed[r] = 0
    BY <1>4, <2>6
  <2>4. s.cached[r] + s.fed[r] = s.made[r] => t.cached[r] + t.fed[r] = t.made[r]
    BY <2>2, <2>3
  <2>5. t.hurt = s.hurt /\ t.added = s.added /\ t.gen.stops = s.gen.stops
    BY <1>2, <1>3
  <2> QED BY <2>1, <2>4, <2>5
<1>19. Working(t) = {t.uid[r] : r \in Active(t) \ D} \cup t.gen.stray
  <2>1. t.uid = s.uid /\ t.gen.stray \subseteq s.gen.stray
    BY <1>2, <1>3
  <2>2. \A u \in Uids : t.gen.left[u] > 0 =>
          u \in {s.uid[r] : r \in Active(s)} \cup s.gen.stray
    <3> SUFFICES ASSUME NEW u \in Uids, t.gen.left[u] > 0
                 PROVE  u \in Working(s)
      BY DEF Worked, Sound
    <3>1. s.gen.left[u] \in Nat /\ s.gen.left[u] # 0
      BY <1>1, <1>5, Values
    <3> QED BY <3>1 DEF Working
  <2>3. \A r \in Active(s) : s.uid[r] \in Uids /\ (t.gen.left[s.uid[r]] > 0 <=> r \notin D)
    BY <1>7, <1>9
  <2>4. \A u \in s.gen.stray : u \in Uids /\ (t.gen.left[u] > 0 <=> u \in t.gen.stray)
    BY <1>10
  <2> QED BY <1>6, <2>1, <2>2, <2>3, <2>4 DEF Working
<1>20. \A u \in t.gen.stray : t.owner[u] = None /\ u < t.gen.next
  BY <1>2, <1>3, <1>10
<1>21. \A r \in Served(t) : t.added[r] = StopIds[r] /\ StopIds[r] \subseteq t.gen.stops
  BY <1>18 DEF Held
<1>22. Held(t, Served(t) \ D) /\ D \subseteq Active(t)
  BY <1>6, <1>18 DEF Held, Ending
<1>23. Spent(t, K, D)
  BY <1>11, <1>12, <1>13, <1>14, <1>15, <1>16, <1>17, <1>19, <1>20, <1>21, <1>22
     DEF Spent
<1>25. \A r \in Requests \ Active(s) : t.made[r] = s.made[r]
  BY <1>4
<1> QED
  BY <1>2, <1>6, <1>20, <1>23, <1>25

\* t is s with r inserted again, with these numbers of tokens.
Again(s, t, r, made, cached, left) ==
  /\ t.waiting = s.waiting /\ t.running = s.running /\ t.known = s.known
  /\ t.hybrid = s.hybrid /\ t.added = s.added
  /\ t.uid = [s.uid EXCEPT ![r] = s.gen.next]
  /\ t.owner = [[s.owner EXCEPT ![s.uid[r]] = None] EXCEPT ![s.gen.next] = r]
  /\ t.made = [s.made EXCEPT ![r] = made]
  /\ t.cached = [s.cached EXCEPT ![r] = cached]
  /\ t.fed = [s.fed EXCEPT ![r] = 1]
  /\ t.gen.live = s.gen.live /\ t.gen.params = s.gen.params
  /\ t.gen.stops = s.gen.stops
  /\ t.gen.next = s.gen.next + 1 /\ t.gen.rounds = s.gen.rounds + 1
  /\ t.gen.left = [[s.gen.left EXCEPT ![s.uid[r]] = 0] EXCEPT ![s.gen.next] = left]
  /\ IsScheduler(t) /\ IsGenerator(t.gen)

\* _try_speculative_decode takes r out of the generator and inserts it again.
LEMMA ReinsertFields ==
  ASSUME NEW s \in Schedulers, NEW r \in Requests, NEW cached, NEW left,
         NEW t, t = Reinsert(s, r, cached, left)
  PROVE  /\ Again(s, t, r, s.made[r], cached, left)
         /\ t.hurt = s.hurt /\ t.gen.stray = s.gen.stray
<1>1. IsScheduler(s) /\ SchedulerTyped(s) /\ IsGenerator(s.gen)
  BY SchedulerFields, GeneratorFields DEF SchedulerTyped
<1> DEFINE u == s.uid[r]
           v == s.gen.next
           g == s.gen
           newLeft == [[g.left EXCEPT ![u] = 0] EXCEPT ![v] = left]
           h == [g EXCEPT !.left = newLeft, !.next = @ + 1, !.rounds = @ + 1]
           newUid == [s.uid EXCEPT ![r] = v]
           newOwner == [[s.owner EXCEPT ![u] = None] EXCEPT ![v] = r]
           newCached == [s.cached EXCEPT ![r] = cached]
           newFed == [s.fed EXCEPT ![r] = 1]
<1>2. t = [s EXCEPT !.gen = h, !.owner = newOwner, !.uid = newUid,
                    !.cached = newCached, !.fed = newFed]
  BY <1>1 DEF Reinsert, IsScheduler
<1> HIDE DEF newLeft, newUid, newOwner, newCached, newFed
<1>3. /\ h.live = g.live /\ h.params = g.params /\ h.stops = g.stops
      /\ h.next = g.next + 1 /\ h.rounds = g.rounds + 1 /\ h.left = newLeft
      /\ h.stray = g.stray
  <2> HIDE DEF g
  <2> QED BY <1>1 DEF IsGenerator, g
<1>4. IsGenerator(h)
  <2> DEFINE k == h
  <2>1. k = [g EXCEPT !.left = newLeft, !.next = @ + 1, !.rounds = @ + 1]
    OBVIOUS
  <2> HIDE DEF g, k
  <2>2. IsGenerator(k)
    BY <1>1, <2>1 DEF IsGenerator, g
  <2> QED BY <2>2 DEF k
<1> HIDE DEF h
<1>5. IsScheduler(t)
  BY <1>1, <1>2 DEF IsScheduler
<1>6. /\ t.waiting = s.waiting /\ t.running = s.running /\ t.known = s.known
      /\ t.hybrid = s.hybrid /\ t.added = s.added /\ t.made = s.made
      /\ t.hurt = s.hurt
  BY <1>1, <1>2 DEF IsScheduler
<1>7. t.gen = h /\ t.owner = newOwner /\ t.uid = newUid /\ t.cached = newCached
      /\ t.fed = newFed
  BY <1>1, <1>2 DEF IsScheduler
<1>8. s.made = [s.made EXCEPT ![r] = s.made[r]]
  BY <1>1 DEF SchedulerTyped
<1> QED
  BY <1>3, <1>4, <1>5, <1>6, <1>7, <1>8
     DEF Again, newLeft, newUid, newOwner, newCached, newFed

\* The request of a round that ends with a stop leaves with the step.
Stopping(d) == IF d.ends \in {"string", "token"} THEN {d.req} ELSE {}

\* The numbers of a round: as many tokens are given as stay in the cache, and
\* the bonus.
LEMMA RoundNumbers ==
  ASSUME NEW s \in Schedulers, NEW d \in Rounds, d.req \in Requests,
         s.made[d.req] > 0, Remaining(s, d.req) > 1,
         d.k <= Remaining(s, d.req) - 1
  PROVE  /\ d.k \in Nat /\ Trimmed(s, d) \in 0 .. d.k /\ Given(s, d) \in Nat
         /\ Given(s, d) > 0 /\ Given(s, d) = d.k - Trimmed(s, d) + 1
         /\ s.made[d.req] \in Nat /\ s.made[d.req] + Given(s, d) <= MaxTokens
         /\ Remaining(s, d.req) = MaxTokens - s.made[d.req]
         /\ Most = MaxTokens + 1
<1>1. /\ d.k \in 1 .. NumDrafts /\ d.a \in 0 .. NumDrafts /\ d.a <= d.k
  BY DEF Rounds
<1>2. d.k \in Nat /\ d.k > 0 /\ d.a \in Nat /\ Most = MaxTokens + 1
  BY <1>1, Constants DEF Most
<1>3. s.made[d.req] \in Nat
  BY Values
<1>4. /\ Trimmed(s, d) \in 0 .. d.k /\ Given(s, d) \in Nat
      /\ Given(s, d) > 0 /\ Given(s, d) = d.k - Trimmed(s, d) + 1
  <2>1. CASE d.a = d.k
    BY <1>1, <1>2, <2>1 DEF Trimmed, Given
  <2>2. CASE d.a # d.k /\ s.hybrid
    BY <1>1, <1>2, <2>2 DEF Trimmed, Given
  <2>3. CASE d.a # d.k /\ ~ s.hybrid
    BY <1>1, <1>2, <2>3 DEF Trimmed, Given
  <2> QED BY <2>1, <2>2, <2>3
<1>5. Remaining(s, d.req) = MaxTokens - s.made[d.req]
  BY DEF Remaining
<1>6. s.made[d.req] + Given(s, d) <= MaxTokens
  <2>1. Given(s, d) <= d.k + 1
    BY <1>2, <1>4
  <2>2. d.k + 1 <= MaxTokens - s.made[d.req]
    BY <1>2, <1>3, <1>5, Constants
  <2> QED BY <1>2, <1>3, <1>4, <2>1, <2>2, Constants
<1> QED
  BY <1>2, <1>3, <1>4, <1>5, <1>6

\* What is left to make after a round fits.
LEMMA AtLeastOneFits ==
  ASSUME NEW n \in Nat, NEW k \in Nat, n > 0, k > 0, n + k <= MaxTokens
  PROVE  LET left == AtLeastOne(MaxTokens - n - k)
         IN  left \in Nat /\ left > 0 /\ left <= MaxTokens
             /\ n + k + left <= MaxTokens + 1
<1>1. MaxTokens \in Nat
  BY Constants
<1> QED
  BY <1>1 DEF AtLeastOne

\* What a round of drafts does to the fields, and to the numbers of tokens.
Rounded(s, d, t, made, cached, left) ==
  /\ Again(s, t, d.req, made, cached, left)
  /\ made > 0 /\ made + left <= Most /\ left <= MaxTokens
  /\ d.req \notin Stopping(d) \cup t.hurt => cached + 1 = made
  /\ s.hurt \subseteq t.hurt /\ t.hurt \subseteq s.hurt \cup {d.req}
  /\ left > 0 <=> d.ends # "string"
  /\ t.gen.stray = IF d.ends = "token" THEN s.gen.stray \cup {s.gen.next}
                   ELSE s.gen.stray

LEMMA SpeculateFields ==
  ASSUME NEW s \in Schedulers, NEW d \in Rounds, d.req \in Requests,
         s.gen.next \in Uids, s.made[d.req] > 0, MayRound(s, d),
         NEW t, t = EndRound(Speculate(s, d), d)
  PROVE  \E made, cached, left \in Nat : Rounded(s, d, t, made, cached, left)
<1> DEFINE r == d.req
           n == s.made[r]
           v == s.gen.next
           m == Speculate(s, d)
<1>1. SchedulerTyped(s) /\ GeneratorTyped(s.gen)
  BY SchedulerFields, GeneratorFields DEF SchedulerTyped
<1>2. /\ d.k \in Nat /\ Trimmed(s, d) \in 0 .. d.k /\ Given(s, d) \in Nat
      /\ Given(s, d) > 0 /\ Given(s, d) = d.k - Trimmed(s, d) + 1
      /\ n \in Nat /\ n > 0 /\ n + Given(s, d) <= MaxTokens
      /\ Remaining(s, r) = MaxTokens - n
      /\ Most = MaxTokens + 1 /\ MaxTokens \in Nat
      /\ MaxTokens - n > 1
  BY RoundNumbers, Constants DEF MayRound, Remaining
<1>3. d.ends \in {"no", "string", "token", "fails"} /\ d.cut \in Nat
  BY Constants DEF Rounds
<1>4. CASE d.ends = "fails"
  <2> DEFINE cached == n + (IF d.cut = 1 THEN d.k ELSE 0)
             left == AtLeastOne(Remaining(s, r) - 1)
             q == Reinsert(s, r, cached, left)
  <2>1. /\ left \in Nat /\ left > 0 /\ left <= MaxTokens /\ n + 1 + left <= MaxTokens + 1
        /\ cached \in Nat
    BY <1>2 DEF AtLeastOne
  <2>2. t = [q EXCEPT !.hurt = @ \cup {r}]
    BY <1>4 DEF Speculate, EndRound
  <2> HIDE DEF cached, left
  <2>3. Again(s, q, r, n, cached, left) /\ q.hurt = s.hurt /\ q.gen.stray = s.gen.stray
    BY ReinsertFields
  <2> HIDE DEF q
  <2>4. Again(s, t, r, n, cached, left) /\ t.hurt = s.hurt \cup {r}
        /\ t.gen.stray = s.gen.stray
    <3>1. /\ t.waiting = q.waiting /\ t.running = q.running /\ t.known = q.known
          /\ t.hybrid = q.hybrid /\ t.added = q.added /\ t.uid = q.uid
          /\ t.owner = q.owner /\ t.made = q.made /\ t.cached = q.cached
          /\ t.fed = q.fed /\ t.gen = q.gen /\ IsScheduler(t)
      BY <2>2, <2>3 DEF Again, IsScheduler
    <3>2. t.hurt = s.hurt \cup {r}
      BY <2>2, <2>3 DEF Again, IsScheduler
    <3> QED BY <2>3, <3>1, <3>2 DEF Again
  <2>5. Rounded(s, d, t, n, cached, left)
    BY <1>2, <1>4, <2>1, <2>4 DEF Rounded
  <2> QED BY <1>2, <2>1, <2>5
<1>5. ASSUME d.ends # "fails"
      PROVE  \E made, cached, left \in Nat : Rounded(s, d, t, made, cached, left)
  <2> DEFINE cached == n + d.k - Trimmed(s, d)
             left == AtLeastOne(Remaining(s, r) - Given(s, d))
             made == n + (IF d.ends = "token" THEN d.cut - 1 ELSE Given(s, d))
             q == Reinsert(s, r, cached, left)
  <2>1. left \in Nat /\ left > 0 /\ left <= MaxTokens
        /\ n + Given(s, d) + left <= MaxTokens + 1
    BY <1>2, AtLeastOneFits
  <2>2. cached \in Nat /\ cached + 1 = n + Given(s, d)
    BY <1>2
  <2>3. d.ends = "token" => d.cut > 0 /\ d.cut <= Given(s, d)
    BY <1>2 DEF Rounds, MayRound
  <2>4. /\ made \in Nat /\ made > 0 /\ made <= n + Given(s, d)
        /\ d.ends # "token" => made = n + Given(s, d)
    BY <1>2, <1>3, <2>3
  <2>5. m = [q EXCEPT !.made[r] = made]
    BY <1>5 DEF Speculate
  <2>6. Again(s, q, r, n, cached, left) /\ q.hurt = s.hurt /\ q.gen.stray = s.gen.stray
    <3> HIDE DEF cached, left
    <3> QED BY ReinsertFields
  <2> HIDE DEF cached, left, made, q
  <2>7. Again(s, m, r, made, cached, left) /\ m.hurt = s.hurt
        /\ m.gen.stray = s.gen.stray /\ m.uid[r] = v
    <3> HIDE DEF m
    <3>1. q.made = [s.made EXCEPT ![r] = n] /\ m.made = [q.made EXCEPT ![r] = made]
      BY <2>5, <2>6 DEF Again, IsScheduler
    <3>2. m.made = [s.made EXCEPT ![r] = made]
      BY <1>1, <3>1 DEF SchedulerTyped
    <3>3. /\ m.waiting = q.waiting /\ m.running = q.running /\ m.known = q.known
          /\ m.hybrid = q.hybrid /\ m.added = q.added /\ m.uid = q.uid
          /\ m.owner = q.owner /\ m.gen = q.gen /\ m.cached = q.cached
          /\ m.fed = q.fed /\ m.hurt = q.hurt /\ IsScheduler(m)
      BY <2>5, <2>6 DEF Again, IsScheduler
    <3>4. m.uid[r] = v
      BY <1>1, <2>6, <3>3 DEF Again, SchedulerTyped
    <3> QED BY <2>6, <3>2, <3>3, <3>4 DEF Again
  <2> HIDE DEF m
  <2>8. made + left <= Most
    BY <1>2, <2>1, <2>4
  <2>9. CASE d.ends = "no"
    <3>1. t = m
      BY <2>9 DEF EndRound, m
    <3>2. Rounded(s, d, t, made, cached, left)
      BY <2>1, <2>2, <2>4, <2>7, <2>8, <2>9, <3>1 DEF Rounded, Stopping
    <3> QED BY <2>1, <2>2, <2>4, <3>2
  <2>10. CASE d.ends = "token"
    <3>1. t = [m EXCEPT !.gen.stray = @ \cup {v}]
      BY <2>7, <2>10 DEF EndRound, m
    <3>2. Again(s, t, r, made, cached, left) /\ t.hurt = s.hurt
          /\ t.gen.stray = s.gen.stray \cup {v}
      <4> DEFINE g == m.gen
                 h == [g EXCEPT !.stray = @ \cup {v}]
      <4>1. t = [m EXCEPT !.gen = h]
        BY <2>7, <3>1 DEF Again, IsScheduler
      <4>2. IsGenerator(g)
        BY <2>7 DEF Again
      <4>3. IsGenerator(h) /\ h = [g EXCEPT !.stray = g.stray \cup {v}]
        <5> DEFINE k == h
        <5>1. k = [g EXCEPT !.stray = g.stray \cup {v}]
          BY <4>2 DEF IsGenerator
        <5> HIDE DEF g, k
        <5>2. IsGenerator(k)
          BY <4>2, <5>1 DEF IsGenerator
        <5> QED BY <5>1, <5>2 DEF k
      <4> HIDE DEF h
      <4>4. /\ h.live = g.live /\ h.params = g.params /\ h.stops = g.stops
            /\ h.next = g.next /\ h.rounds = g.rounds /\ h.left = g.left
            /\ h.stray = g.stray \cup {v}
        <5> HIDE DEF g
        <5> QED BY <4>2, <4>3 DEF IsGenerator
      <4>5. /\ t.waiting = m.waiting /\ t.running = m.running /\ t.known = m.known
            /\ t.hybrid = m.hybrid /\ t.added = m.added /\ t.uid = m.uid
            /\ t.owner = m.owner /\ t.made = m.made /\ t.cached = m.cached
            /\ t.fed = m.fed /\ t.hurt = m.hurt /\ IsScheduler(t)
        BY <2>7, <4>1 DEF Again, IsScheduler
      <4>6. t.gen = h
        BY <2>7, <4>1 DEF Again, IsScheduler
      <4> QED BY <2>7, <4>3, <4>4, <4>5, <4>6 DEF Again
    <3>3. Rounded(s, d, t, made, cached, left)
      BY <2>1, <2>2, <2>4, <2>8, <2>10, <3>2 DEF Rounded, Stopping
    <3> QED BY <2>1, <2>2, <2>4, <3>3
  <2>11. CASE d.ends = "string"
    <3>1. t = [m EXCEPT !.gen.left[v] = 0]
      BY <2>7, <2>11 DEF EndRound, m
    <3>2. [[[s.gen.left EXCEPT ![s.uid[r]] = 0] EXCEPT ![v] = left] EXCEPT ![v] = 0]
             = [[s.gen.left EXCEPT ![s.uid[r]] = 0] EXCEPT ![v] = 0]
      BY <1>1 DEF GeneratorTyped
    <3>3. Again(s, t, r, made, cached, 0) /\ t.hurt = s.hurt
          /\ t.gen.stray = s.gen.stray
      <4> DEFINE g == m.gen
                 newLeft == [g.left EXCEPT ![v] = 0]
                 h == [g EXCEPT !.left = newLeft]
      <4>1. t = [m EXCEPT !.gen = h]
        BY <2>7, <3>1 DEF Again, IsScheduler
      <4>2. IsGenerator(g)
        BY <2>7 DEF Again
      <4>3. newLeft = [[s.gen.left EXCEPT ![s.uid[r]] = 0] EXCEPT ![v] = 0]
        BY <2>7, <3>2 DEF Again
      <4> HIDE DEF newLeft
      <4>4. IsGenerator(h)
        <5> DEFINE k == h
        <5>1. k = [g EXCEPT !.left = newLeft]
          OBVIOUS
        <5> HIDE DEF g, k
        <5>2. IsGenerator(k)
          BY <4>2, <5>1 DEF IsGenerator
        <5> QED BY <5>2 DEF k
      <4>5. /\ h.live = g.live /\ h.params = g.params /\ h.stops = g.stops
            /\ h.next = g.next /\ h.rounds = g.rounds /\ h.left = newLeft
            /\ h.stray = g.stray
        <5> HIDE DEF g
        <5> QED BY <4>2 DEF IsGenerator
      <4> HIDE DEF h
      <4>6. /\ t.waiting = m.waiting /\ t.running = m.running /\ t.known = m.known
            /\ t.hybrid = m.hybrid /\ t.added = m.added /\ t.uid = m.uid
            /\ t.owner = m.owner /\ t.made = m.made /\ t.cached = m.cached
            /\ t.fed = m.fed /\ t.hurt = m.hurt /\ IsScheduler(t)
        BY <2>7, <4>1 DEF Again, IsScheduler
      <4>7. t.gen = h
        BY <2>7, <4>1 DEF Again, IsScheduler
      <4> QED BY <2>7, <4>3, <4>4, <4>5, <4>6, <4>7 DEF Again
    <3>4. made + 0 <= Most /\ 0 \in Nat /\ 0 <= MaxTokens
      BY <1>2, <2>1, <2>4, <2>8
    <3>5. Rounded(s, d, t, made, cached, 0)
      BY <2>1, <2>2, <2>4, <2>11, <3>3, <3>4 DEF Rounded, Stopping
    <3> QED BY <2>1, <2>2, <2>4, <3>4, <3>5
  <2> QED BY <1>3, <1>5, <2>9, <2>10, <2>11
<1> QED
  BY <1>4, <1>5

\* A round of drafts leaves the generator with a new uid for its request.
LEMMA SpeculateSpent ==
  ASSUME NEW s, NEW K, NEW D, Spent(s, K, D), \A u \in s.gen.stray : s.owner[u] = None,
         NEW d \in Rounds, d.req \in Active(s), MayRound(s, d),
         NEW t, t = EndRound(Speculate(s, d), d)
  PROVE  /\ t # s /\ Spent(t, K, D \cup Stopping(d))
         /\ Active(t) = Active(s) /\ Queued(t) = Queued(s) /\ t.known = s.known
         /\ \A r \in Requests \ Active(s) : t.made[r] = s.made[r]
<1> DEFINE r == d.req
           u == s.uid[r]
           v == s.gen.next
           E == Stopping(d)
<1>1. /\ s \in Schedulers /\ SchedulerTyped(s) /\ GeneratorTyped(s.gen)
      /\ Active(s) \subseteq Requests /\ Queued(s) \subseteq Requests
      /\ r \in Requests /\ r \in Active(s)
  BY SchedulerFields, GeneratorFields, ListsOf DEF Spent, SchedulerTyped
<1>2. u \in Uids /\ s.gen.left[u] > 0 /\ s.owner[u] = r
  BY <1>1 DEF MayRound, Working, Spent, Mapped
<1>3. \A q \in Active(s) : /\ q \in Requests /\ s.uid[q] \in Uids
                           /\ s.owner[s.uid[q]] = q
                           /\ s.uid[q] < v /\ s.uid[q] # v
  <2> SUFFICES ASSUME NEW q \in Active(s)
               PROVE  /\ q \in Requests /\ s.uid[q] \in Uids
                      /\ s.owner[s.uid[q]] = q
                      /\ s.uid[q] < v /\ s.uid[q] # v
    OBVIOUS
  <2>1. q \in Requests
    BY <1>1
  <2>2. s.uid[q] # None /\ s.owner[s.uid[q]] = q /\ s.uid[q] < v
    BY <2>1 DEF Spent, Mapped
  <2>3. s.uid[q] \in Uids /\ s.uid[q] \in Nat /\ v \in Nat
    BY <1>1, <2>1, <2>2, Values, Constants
  <2> QED BY <2>1, <2>2, <2>3
<1>4. v \in Nat /\ v \in Uids /\ s.gen.rounds \in Nat /\ s.gen.rounds < MaxRounds
  <2>1. /\ v \in Nat /\ s.gen.rounds \in Nat
        /\ v <= Cardinality(Started(s, K)) + s.gen.rounds
        /\ s.gen.rounds < MaxRounds
    BY <1>1, Values DEF Counted, Spent, MayRound
  <2>2. /\ Cardinality(Started(s, K)) \in Nat
        /\ Cardinality(Started(s, K)) <= Cardinality(Requests)
    BY StartedFinite DEF Spent, Counted
  <2>3. v < Cardinality(Requests) + MaxRounds
    BY <2>1, <2>2, Constants
  <2> QED BY <2>1, <2>3, Constants
<1>5. PICK made, cached, left \in Nat : Rounded(s, d, t, made, cached, left)
  <2>1. s.made[r] > 0
    BY <1>1 DEF Spent, Begun
  <2> QED BY <1>1, <1>4, <2>1, SpeculateFields
<1>6. /\ t.waiting = s.waiting /\ t.running = s.running /\ t.known = s.known
      /\ t.hybrid = s.hybrid /\ t.added = s.added
      /\ IsScheduler(t)
  BY <1>5 DEF Rounded, Again
<1>7. /\ t.gen.live = s.gen.live /\ t.gen.params = s.gen.params
      /\ t.gen.stops = s.gen.stops
      /\ t.gen.next = v + 1 /\ t.gen.rounds = s.gen.rounds + 1
      /\ IsGenerator(t.gen)
  BY <1>5 DEF Rounded, Again
<1>8. /\ made > 0 /\ made + left <= Most /\ left <= MaxTokens
      /\ r \notin E \cup t.hurt => cached + 1 = made
      /\ s.hurt \subseteq t.hurt /\ t.hurt \subseteq s.hurt \cup {r}
      /\ left > 0 <=> d.ends # "string"
      /\ t.gen.stray = IF d.ends = "token" THEN s.gen.stray \cup {v}
                       ELSE s.gen.stray
  BY <1>5 DEF Rounded
<1> HIDE DEF E
<1>10. Queued(t) = Queued(s) /\ Active(t) = Active(s)
  BY <1>6 DEF Queued, Active
<1>11. /\ t.uid \in [Requests -> Uids \cup {None}]
       /\ \A q \in Requests : t.uid[q] = IF q = r THEN v ELSE s.uid[q]
  <2>1. t.uid = [s.uid EXCEPT ![r] = v]
    BY <1>5 DEF Rounded, Again
  <2>2. s.uid \in [Requests -> Uids \cup {None}] /\ v \in Uids \cup {None}
    BY <1>1, <1>4 DEF SchedulerTyped
  <2> QED BY <1>1, <2>1, <2>2, Updated
<1>12. /\ t.owner \in [Uids -> Requests \cup {None}]
       /\ \A w \in Uids : t.owner[w] = IF w = v THEN r ELSE
                                       IF w = u THEN None ELSE s.owner[w]
  <2> DEFINE f == [s.owner EXCEPT ![u] = None]
  <2>1. t.owner = [f EXCEPT ![v] = r]
    BY <1>5 DEF Rounded, Again
  <2>2. s.owner \in [Uids -> Requests \cup {None}]
    BY <1>1 DEF SchedulerTyped
  <2>3. /\ f \in [Uids -> Requests \cup {None}]
        /\ \A w \in Uids : f[w] = IF w = u THEN None ELSE s.owner[w]
    BY <1>2, <2>2, Updated
  <2> HIDE DEF f
  <2>4. /\ t.owner \in [Uids -> Requests \cup {None}]
        /\ \A w \in Uids : t.owner[w] = IF w = v THEN r ELSE f[w]
    BY <1>1, <1>4, <2>1, <2>3, Updated
  <2> QED BY <2>3, <2>4
<1>13. /\ t.gen.left \in [Uids -> 0 .. MaxTokens]
       /\ \A w \in Uids : t.gen.left[w] = IF w = v THEN left ELSE
                                          IF w = u THEN 0 ELSE s.gen.left[w]
  <2> DEFINE f == [s.gen.left EXCEPT ![u] = 0]
  <2>1. t.gen.left = [f EXCEPT ![v] = left]
    BY <1>5 DEF Rounded, Again
  <2>2. s.gen.left \in [Uids -> 0 .. MaxTokens]
    BY <1>1 DEF GeneratorTyped
  <2>3. 0 \in 0 .. MaxTokens /\ left \in 0 .. MaxTokens
    BY <1>8, Constants
  <2>4. /\ f \in [Uids -> 0 .. MaxTokens]
        /\ \A w \in Uids : f[w] = IF w = u THEN 0 ELSE s.gen.left[w]
    BY <1>2, <2>2, <2>3, Updated
  <2> HIDE DEF f
  <2>5. /\ t.gen.left \in [Uids -> 0 .. MaxTokens]
        /\ \A w \in Uids : t.gen.left[w] = IF w = v THEN left ELSE f[w]
    BY <1>4, <2>1, <2>3, <2>4, Updated
  <2> QED BY <2>4, <2>5
<1>14. /\ t.made \in [Requests -> 0 .. Most]
       /\ \A q \in Requests : t.made[q] = IF q = r THEN made ELSE s.made[q]
  <2>1. t.made = [s.made EXCEPT ![r] = made]
    BY <1>5 DEF Rounded, Again
  <2>2. s.made \in [Requests -> 0 .. Most] /\ made \in 0 .. Most
    BY <1>1, <1>8, Constants DEF SchedulerTyped
  <2> QED BY <1>1, <2>1, <2>2, Updated
<1>15. /\ t.cached \in [Requests -> Nat]
       /\ \A q \in Requests : t.cached[q] = IF q = r THEN cached ELSE s.cached[q]
  <2>1. t.cached = [s.cached EXCEPT ![r] = cached]
    BY <1>5 DEF Rounded, Again
  <2>2. s.cached \in [Requests -> Nat]
    BY <1>1 DEF SchedulerTyped
  <2> QED BY <1>1, <2>1, <2>2, Updated
<1>16. /\ t.fed \in [Requests -> {0, 1}]
       /\ \A q \in Requests : t.fed[q] = IF q = r THEN 1 ELSE s.fed[q]
  <2>1. t.fed = [s.fed EXCEPT ![r] = 1]
    BY <1>5 DEF Rounded, Again
  <2>2. s.fed \in [Requests -> {0, 1}] /\ 1 \in {0, 1}
    BY <1>1 DEF SchedulerTyped
  <2> QED BY <1>1, <2>1, <2>2, Updated
<1>17. t \in Schedulers
  <2>1. t.gen.next \in Nat /\ t.gen.rounds \in Nat
    BY <1>4, <1>7
  <2>2. t.gen.stray \in SUBSET Uids
    BY <1>1, <1>4, <1>8 DEF GeneratorTyped
  <2>3. GeneratorTyped(t.gen)
    BY <1>1, <1>7, <1>13, <2>1, <2>2 DEF GeneratorTyped
  <2>4. t.gen \in Generators
    BY <1>7, <2>3, GeneratorFields
  <2>5. t.hurt \in SUBSET Requests
    BY <1>1, <1>8 DEF SchedulerTyped
  <2>6. SchedulerTyped(t)
    BY <1>1, <1>6, <1>11, <1>12, <1>14, <1>15, <1>16, <2>4, <2>5 DEF SchedulerTyped
  <2> QED BY <1>6, <2>6, SchedulerFields
<1> HIDE DEF u, v
<1>18. \A q \in Active(s) \ {r} : t.uid[q] = s.uid[q] /\ s.uid[q] # u /\ s.uid[q] # v
  BY <1>2, <1>3, <1>11
<1>19. t.uid[r] = v /\ u # v /\ \A n \in Nat : n < v => n < t.gen.next
  BY <1>1, <1>3, <1>4, <1>7, <1>11 DEF u
<1>20. Placed(t) /\ Live(t)
  <2>1. Placed(s) /\ Live(s)
    BY DEF Spent
  <2> QED BY <1>6, <1>7, <1>10, <2>1 DEF Placed, Live
<1>21. Mapped(t)
  <2>1. \A q \in Requests : t.uid[q] # None <=> q \in Active(t)
    BY <1>1, <1>4, <1>10, <1>11, Constants DEF Mapped, Spent
  <2>2. \A q \in Active(t) : t.owner[t.uid[q]] = q /\ t.uid[q] < t.gen.next
    <3> SUFFICES ASSUME NEW q \in Active(s)
                 PROVE  t.owner[t.uid[q]] = q /\ t.uid[q] < t.gen.next
      BY <1>10
    <3>1. CASE q = r
      <4>1. v < t.gen.next
        BY <1>4, <1>7 DEF v
      <4> QED BY <1>4, <1>12, <1>19, <3>1, <4>1
    <3>2. CASE q # r
      <4>1. t.uid[q] = s.uid[q] /\ s.uid[q] # u /\ s.uid[q] # v
        BY <1>18, <3>2
      <4>2. s.uid[q] \in Uids /\ s.uid[q] \in Nat /\ s.uid[q] < v
            /\ s.owner[s.uid[q]] = q
        BY <1>3, Constants DEF v
      <4> QED BY <1>12, <1>19, <4>1, <4>2
    <3> QED BY <3>1, <3>2
  <2>3. \A w \in Uids : t.owner[w] # None => t.uid[t.owner[w]] = w
    <3> SUFFICES ASSUME NEW w \in Uids, t.owner[w] # None
                 PROVE  t.uid[t.owner[w]] = w
      OBVIOUS
    <3>1. CASE w = v
      BY <1>4, <1>12, <1>19, <3>1
    <3>2. CASE w # v
      <4>1. w # u /\ t.owner[w] = s.owner[w]
        BY <1>12, <3>2
      <4>2. s.owner[w] \in Requests /\ s.uid[s.owner[w]] = w
        BY <1>1, <4>1, Values DEF Mapped, Spent
      <4>3. s.owner[w] # r
        BY <4>1, <4>2 DEF u
      <4> QED BY <1>11, <4>1, <4>2, <4>3
    <3> QED BY <3>1, <3>2
  <2> QED BY <2>1, <2>2, <2>3 DEF Mapped
<1>22. \A q \in Active(s) : t.made[q] > 0
  BY <1>1, <1>3, <1>8, <1>14 DEF Spent, Begun
<1>23. Begun(t)
  BY <1>10, <1>22 DEF Begun
<1>24. Counted(t, K)
  <2>1. Started(t, K) = Started(s, K)
    BY <1>10 DEF Started
  <2>2. Cardinality(Started(s, K)) \in Nat
    BY StartedFinite DEF Spent, Counted
  <2>3. v <= Cardinality(Started(s, K)) + s.gen.rounds
    BY DEF Counted, Spent, v
  <2>4. t.gen.rounds <= MaxRounds
    BY <1>4, <1>7, Constants
  <2>5. t.gen.next <= Cardinality(Started(s, K)) + t.gen.rounds
    BY <1>4, <1>7, <2>2, <2>3 DEF v
  <2>6. K \subseteq Requests /\ Queued(t) \cup Active(t) \subseteq K
    BY <1>10 DEF Counted, Spent
  <2> QED BY <2>1, <2>4, <2>5, <2>6 DEF Counted
<1>25. Bounded(t)
  <2> SUFFICES ASSUME NEW q \in Active(s)
               PROVE  t.made[q] + t.gen.left[t.uid[q]] <= Most
    BY <1>10 DEF Bounded
  <2>1. CASE q = r
    <3>1. t.gen.left[t.uid[q]] = left /\ t.made[q] = made
      BY <1>1, <1>4, <1>13, <1>14, <1>19, <2>1
    <3> QED BY <1>8, <3>1
  <2>2. CASE q # r
    <3>1. t.gen.left[t.uid[q]] = s.gen.left[s.uid[q]] /\ t.made[q] = s.made[q]
      BY <1>3, <1>13, <1>14, <1>18, <2>2
    <3> QED BY <3>1 DEF Bounded, Spent
  <2> QED BY <2>1, <2>2
<1>26. Fresh(t)
  <2>1. Fresh(s) /\ Queued(s) \cap Active(s) = {}
    BY DEF Spent, Placed
  <2>2. \A q \in Queued(s) : q # r /\ t.made[q] = 0
    BY <1>1, <1>14, <2>1 DEF Fresh
  <2>3. \A q \in Requests : t.made[q] = 0 => t.cached[q] = 0 /\ t.fed[q] = 0
    <3> SUFFICES ASSUME NEW q \in Requests, t.made[q] = 0
                 PROVE  t.cached[q] = 0 /\ t.fed[q] = 0
      OBVIOUS
    <3>1. q # r
      BY <1>1, <1>8, <1>14
    <3>2. t.made[q] = s.made[q] /\ t.cached[q] = s.cached[q] /\ t.fed[q] = s.fed[q]
      BY <1>14, <1>15, <1>16, <3>1
    <3> QED BY <2>1, <3>2 DEF Fresh
  <2> QED BY <1>10, <2>2, <2>3 DEF Fresh
<1>36. Served(t) = Served(s) /\ Served(s) \subseteq Active(s)
  BY <1>6, <1>10 DEF Served
<1>27. \A q \in Served(t) : t.added[q] = StopIds[q] /\ StopIds[q] \subseteq t.gen.stops
  <2>1. \A q \in Served(s) : s.added[q] = StopIds[q] /\ StopIds[q] \subseteq s.gen.stops
    BY DEF Spent
  <2> QED BY <1>6, <1>7, <1>36, <2>1
<1>28. Held(t, Served(t) \ (D \cup E))
  <2> SUFFICES ASSUME NEW q \in Served(s), q \notin D, q \notin E
               PROVE  q \notin t.hurt => t.cached[q] + t.fed[q] = t.made[q]
    BY <1>27, <1>36 DEF Held
  <2>0. q \in Active(s)
    BY <1>36
  <2>1. CASE q = r
    BY <1>1, <1>8, <1>14, <1>15, <1>16, <2>1
  <2>2. CASE q # r
    <3>1. q \notin s.hurt => s.cached[q] + s.fed[q] = s.made[q]
      BY DEF Held, Spent
    <3>2. t.made[q] = s.made[q] /\ t.cached[q] = s.cached[q] /\ t.fed[q] = s.fed[q]
      BY <1>3, <1>14, <1>15, <1>16, <2>0, <2>2
    <3> QED BY <1>8, <3>1, <3>2
  <2> QED BY <2>1, <2>2
<1>29. r \notin D
  <2>1. u \in {s.uid[q] : q \in Active(s) \ D} \cup s.gen.stray
    BY <1>2 DEF Spent, Working
  <2>2. u \notin s.gen.stray
    BY <1>1, <1>2, Constants
  <2> QED BY <1>2, <1>3, <2>1, <2>2
<1>30. \A w \in s.gen.stray : /\ w \in Uids /\ w \in Nat /\ w < v /\ w # v /\ w # u
                              /\ s.owner[w] = None
  <2> SUFFICES ASSUME NEW w \in s.gen.stray
               PROVE  /\ w \in Uids /\ w \in Nat /\ w < v /\ w # v /\ w # u
                      /\ s.owner[w] = None
    OBVIOUS
  <2>1. w \in Uids /\ w \in Nat /\ s.owner[w] = None
    BY <1>1, Constants DEF GeneratorTyped
  <2>2. w < v /\ v \in Nat
    BY <1>4 DEF Spent, v
  <2>3. w # u
    BY <1>1, <1>2, <2>1, Constants DEF u
  <2> QED BY <2>1, <2>2, <2>3
<1>31. \A w \in t.gen.stray : t.owner[w] \in D \cup E \cup {None} /\ w < t.gen.next
  <2> SUFFICES ASSUME NEW w \in t.gen.stray
               PROVE  t.owner[w] \in D \cup E \cup {None} /\ w < t.gen.next
    OBVIOUS
  <2>1. CASE w \in s.gen.stray
    BY <1>12, <1>19, <1>30, <2>1
  <2>2. CASE w \notin s.gen.stray
    <3>1. w = v /\ d.ends = "token"
      BY <1>8, <2>2 DEF v
    <3>2. r \in E
      BY <3>1 DEF E, Stopping
    <3>3. w < t.gen.next
      BY <1>4, <1>7, <3>1 DEF v
    <3> QED BY <1>4, <1>12, <3>1, <3>2, <3>3
  <2> QED BY <2>1, <2>2
<1>32. Working(t) = {t.uid[q] : q \in Active(t) \ (D \cup E)} \cup t.gen.stray
  <2>1. Working(s) = {s.uid[q] : q \in Active(s) \ D} \cup s.gen.stray
    BY DEF Spent
  <2>2. \A w \in Uids : w \in Working(t) <=> (w = v /\ left > 0) \/ (w \in Working(s) /\ w # u /\ w # v)
    <3> SUFFICES ASSUME NEW w \in Uids
                 PROVE  t.gen.left[w] > 0 <=>
                          (w = v /\ left > 0) \/ (s.gen.left[w] > 0 /\ w # u /\ w # v)
      BY DEF Working
    <3>1. t.gen.left[w] = IF w = v THEN left ELSE IF w = u THEN 0 ELSE s.gen.left[w]
      BY <1>13
    <3> QED BY <3>1
  <2>3. Working(s) \ {u, v} = {s.uid[q] : q \in Active(s) \ (D \cup {r})} \cup s.gen.stray
    BY <1>2, <1>3, <1>30, <2>1 DEF u, v
  <2>4. {s.uid[q] : q \in Active(s) \ (D \cup {r})} = {t.uid[q] : q \in Active(s) \ (D \cup {r})}
    BY <1>18
  <2>5. Working(t) \subseteq Uids /\ Working(s) \subseteq Uids
    BY DEF Working
  <2>6. Working(t) = {t.uid[q] : q \in Active(s) \ (D \cup {r})} \cup s.gen.stray
                       \cup (IF left > 0 THEN {v} ELSE {})
    BY <1>4, <2>2, <2>3, <2>4, <2>5 DEF v
  <2>7. {t.uid[q] : q \in Active(s) \ (D \cup E)} =
          {t.uid[q] : q \in Active(s) \ (D \cup {r})} \cup (IF E = {} THEN {v} ELSE {})
    <3>1. CASE E = {}
      BY <1>1, <1>19, <1>29, <3>1
    <3>2. CASE E # {}
      <4>1. E = {r}
        BY <3>2 DEF E, Stopping
      <4> QED BY <3>2, <4>1
    <3> QED BY <3>1, <3>2
  <2>8. CASE d.ends = "token"
    <3>1. left > 0 /\ E = {r} /\ t.gen.stray = s.gen.stray \cup {v}
      BY <1>8, <2>8 DEF E, Stopping, v
    <3> QED BY <1>10, <2>6, <2>7, <3>1
  <2>9. CASE d.ends = "string"
    <3>1. ~ (left > 0) /\ E = {r} /\ t.gen.stray = s.gen.stray
      BY <1>8, <2>9 DEF E, Stopping
    <3> QED BY <1>10, <2>6, <2>7, <3>1
  <2>10. CASE d.ends \notin {"string", "token"}
    <3>1. left > 0 /\ E = {} /\ t.gen.stray = s.gen.stray
      BY <1>8, <2>10 DEF E, Stopping
    <3> QED BY <1>10, <2>6, <2>7, <3>1
  <2> QED BY <2>8, <2>9, <2>10
<1>33. D \cup E \subseteq Active(t)
  BY <1>1, <1>10 DEF E, Stopping, Spent
<1>34. Spent(t, K, D \cup E)
  BY <1>17, <1>20, <1>21, <1>23, <1>24, <1>25, <1>26, <1>27, <1>28, <1>31, <1>32,
     <1>33 DEF Spent
<1>35. t # s
  BY <1>4, <1>7
<1>37. \A q \in Requests \ Active(s) : t.made[q] = s.made[q]
  BY <1>1, <1>14
<1> QED
  BY <1>6, <1>10, <1>34, <1>35, <1>37 DEF E

\* _cleanup_finished makes the scheduler sound again.
LEMMA CleanupSound ==
  ASSUME NEW s, NEW K, NEW D, Spent(s, K, D), NEW t, t = Cleanup(s, D)
  PROVE  /\ Sound(t, K) /\ Begun(t)
         /\ t.known = s.known \ D /\ t.made = s.made
         /\ Active(t) = Active(s) \ D /\ Queued(t) = Queued(s)
<1> DEFINE left == (UNION {s.added[r] : r \in D}) \ StillNeeded(s, D)
           g == s.gen
           h == [g EXCEPT !.stops = @ \ (left \ Eos)]
           newUid == [r \in Requests |-> IF r \in D THEN None ELSE s.uid[r]]
           newOwner == [u \in Uids |-> IF s.owner[u] \in D THEN None ELSE s.owner[u]]
<1>1. /\ s \in Schedulers /\ IsScheduler(s) /\ SchedulerTyped(s)
      /\ IsGenerator(g) /\ GeneratorTyped(g)
      /\ Active(s) \subseteq Requests /\ Queued(s) \subseteq Requests
      /\ D \subseteq Active(s) /\ D \subseteq Requests /\ None \notin D
  BY SchedulerFields, GeneratorFields, ListsOf, Constants DEF Spent, SchedulerTyped
<1>2. t = [s EXCEPT !.gen = h, !.known = @ \ D, !.running = Without(@, D),
                    !.uid = newUid, !.owner = newOwner]
  BY <1>1 DEF Cleanup, IsScheduler
<1> HIDE DEF newUid, newOwner, left
<1>3. /\ h.live = g.live /\ h.params = g.params /\ h.left = g.left
      /\ h.stops = g.stops \ (left \ Eos)
      /\ h.next = g.next /\ h.rounds = g.rounds /\ h.stray = g.stray
  <2> HIDE DEF g
  <2> QED BY <1>1 DEF IsGenerator, g
<1>4. IsGenerator(h)
  <2> DEFINE k == h
  <2>1. k = [g EXCEPT !.stops = @ \ (left \ Eos)]
    OBVIOUS
  <2> HIDE DEF g, k
  <2>2. IsGenerator(k)
    BY <1>1, <2>1 DEF IsGenerator, g
  <2> QED BY <2>2 DEF k
<1> HIDE DEF h
<1>5. IsScheduler(t)
  BY <1>1, <1>2 DEF IsScheduler
<1>6. /\ t.waiting = s.waiting /\ t.made = s.made /\ t.cached = s.cached
      /\ t.fed = s.fed /\ t.hurt = s.hurt /\ t.hybrid = s.hybrid
      /\ t.added = s.added
  BY <1>1, <1>2 DEF IsScheduler
<1>7. /\ t.gen = h /\ t.known = s.known \ D /\ t.running = Without(s.running, D)
      /\ t.uid = newUid /\ t.owner = newOwner
  BY <1>1, <1>2 DEF IsScheduler
<1>8. \A r \in Requests : t.uid[r] = IF r \in D THEN None ELSE s.uid[r]
  BY <1>7 DEF newUid
<1>9. \A u \in Uids : t.owner[u] = IF s.owner[u] \in D THEN None ELSE s.owner[u]
  BY <1>7 DEF newOwner
<1>10. /\ t.running \in Seq(Requests) /\ IsInjective(t.running)
       /\ Active(t) = Active(s) \ D /\ Queued(t) = Queued(s)
  <2>1. s.running \in Seq(Requests) /\ IsInjective(s.running)
    BY <1>1 DEF SchedulerTyped, Spent, Placed
  <2>2. /\ Without(s.running, D) \in Seq(Requests)
        /\ ToSet(Without(s.running, D)) = ToSet(s.running) \ D
        /\ IsInjective(Without(s.running, D))
    BY <2>1, WithoutFacts
  <2> QED BY <1>6, <1>7, <2>2 DEF Active, Queued
<1>11. t \in Schedulers
  <2>1. newUid \in [Requests -> Uids \cup {None}]
    BY <1>1 DEF SchedulerTyped, newUid
  <2>2. newOwner \in [Uids -> Requests \cup {None}]
    BY <1>1 DEF SchedulerTyped, newOwner
  <2>3. h.stops \in SUBSET StopTokens
    BY <1>1, <1>3 DEF GeneratorTyped
  <2>4. GeneratorTyped(h)
    BY <1>1, <1>3, <2>3 DEF GeneratorTyped
  <2>5. h \in Generators
    BY <1>4, <2>4, GeneratorFields
  <2>6. t.known \in SUBSET Requests
    BY <1>1, <1>7 DEF SchedulerTyped
  <2>7. SchedulerTyped(t)
    BY <1>1, <1>6, <1>7, <1>10, <2>1, <2>2, <2>5, <2>6 DEF SchedulerTyped
  <2> QED BY <1>5, <2>7, SchedulerFields
<1>12. Placed(t)
  <2>1. Placed(s)
    BY DEF Spent
  <2> QED BY <1>1, <1>6, <1>7, <1>10, <2>1 DEF Placed
<1>13. \A q \in Active(t) : q \in Requests /\ q \in Active(s) /\ q \notin D
                            /\ t.uid[q] = s.uid[q]
  BY <1>1, <1>8, <1>10
<1>14. Mapped(t)
  <2>0. Mapped(s)
    BY DEF Spent
  <2>1. \A q \in Requests : t.uid[q] # None <=> q \in Active(t)
    BY <1>8, <1>10, <2>0 DEF Mapped
  <2>2. \A q \in Active(t) : t.owner[t.uid[q]] = q /\ t.uid[q] < t.gen.next
    <3> SUFFICES ASSUME NEW q \in Active(t)
                 PROVE  t.owner[t.uid[q]] = q /\ t.uid[q] < t.gen.next
      OBVIOUS
    <3>1. q \in Requests /\ q \in Active(s) /\ q \notin D /\ t.uid[q] = s.uid[q]
      BY <1>13
    <3>2. s.owner[s.uid[q]] = q /\ s.uid[q] < s.gen.next /\ s.uid[q] \in Uids
      BY <1>1, <2>0, <3>1, Values DEF Mapped
    <3> QED BY <1>3, <1>7, <1>9, <3>1, <3>2
  <2>3. \A w \in Uids : t.owner[w] # None => t.uid[t.owner[w]] = w
    <3> SUFFICES ASSUME NEW w \in Uids, t.owner[w] # None
                 PROVE  t.uid[t.owner[w]] = w
      OBVIOUS
    <3>1. t.owner[w] = s.owner[w] /\ s.owner[w] \notin D /\ s.owner[w] \in Requests
      BY <1>1, <1>9, Values
    <3>2. s.uid[s.owner[w]] = w
      BY <2>0, <3>1 DEF Mapped
    <3> QED BY <1>8, <3>1, <3>2
  <2> QED BY <2>1, <2>2, <2>3 DEF Mapped
<1>15. Worked(t)
  <2>1. Working(t) = Working(s)
    BY <1>3, <1>7 DEF Working
  <2>2. Working(s) = {s.uid[r] : r \in Active(s) \ D} \cup s.gen.stray
    BY DEF Spent
  <2>3. {t.uid[r] : r \in Active(t)} = {s.uid[r] : r \in Active(s) \ D}
    BY <1>10, <1>13
  <2>4. \A u \in t.gen.stray : t.owner[u] = None /\ u < t.gen.next
    <3> SUFFICES ASSUME NEW u \in s.gen.stray
                 PROVE  t.owner[u] = None /\ u < t.gen.next
      BY <1>3, <1>7
    <3>1. u \in Uids /\ s.owner[u] \in D \cup {None} /\ u < s.gen.next
      BY <1>1 DEF Spent, GeneratorTyped
    <3> QED BY <1>3, <1>7, <1>9, <3>1
  <2> QED BY <1>3, <1>7, <2>1, <2>2, <2>3, <2>4 DEF Worked
<1>16. Begun(t)
  BY <1>6, <1>13 DEF Begun, Spent
<1>17. Counted(t, K)
  <2>1. Started(t, K) = Started(s, K)
    BY <1>10 DEF Started
  <2> QED BY <1>3, <1>7, <1>10, <2>1 DEF Counted, Spent
<1>18. Bounded(t)
  <2>1. Bounded(s)
    BY DEF Spent
  <2> QED BY <1>3, <1>6, <1>7, <1>13, <2>1 DEF Bounded
<1>19. Fresh(t)
  <2>1. Fresh(s)
    BY DEF Spent
  <2> QED BY <1>6, <1>10, <2>1 DEF Fresh
<1>20. Held(t, Served(t))
  <2> SUFFICES ASSUME NEW q \in Served(t)
               PROVE  /\ q \notin t.hurt => t.cached[q] + t.fed[q] = t.made[q]
                      /\ t.added[q] = StopIds[q] /\ StopIds[q] \subseteq t.gen.stops
    BY DEF Held
  <2>1. q \in Served(s) \ D /\ q \in Active(s) \ D
    BY <1>7, <1>13 DEF Served
  <2>2. /\ q \notin s.hurt => s.cached[q] + s.fed[q] = s.made[q]
        /\ s.added[q] = StopIds[q] /\ StopIds[q] \subseteq s.gen.stops
    BY <2>1 DEF Spent, Held
  <2>3. s.added[q] \subseteq StillNeeded(s, D)
    BY <2>1 DEF StillNeeded
  <2>4. StopIds[q] \subseteq h.stops
    <3> DEFINE asked == UNION {s.added[r] : r \in D}
    <3>0. left = asked \ StillNeeded(s, D)
      BY DEF left
    <3> HIDE DEF asked
    <3>1. \A x \in left : x \notin StillNeeded(s, D)
      BY <3>0
    <3>2. \A x \in StopIds[q] : x \in g.stops /\ x \notin left
      BY <2>2, <2>3, <3>1
    <3> QED BY <1>3, <3>2
  <2> QED BY <1>6, <1>7, <2>2, <2>4
<1>21. Live(t)
  <2>1. t.running # << >> => s.running # << >>
    BY <1>1, <1>10, <1>11, ListsOf
  <2> QED BY <1>3, <1>7, <2>1 DEF Live, Spent
<1> QED
  BY <1>6, <1>7, <1>10, <1>11, <1>12, <1>14, <1>15, <1>16, <1>17, <1>18, <1>19,
     <1>20, <1>21 DEF Sound

\* What a step without a failure may do to the lists: s becomes t.
Finished(s, t) ==
  \E D \in SUBSET Active(s) :
    /\ t.known = s.known \ D /\ Seen(s) \subseteq Seen(t)
    /\ Active(t) = Active(s) \ D /\ Queued(t) = Queued(s)
    /\ Untouched(s, t)

\* The outputs of a step that leads to t: one for each request in A, with its
\* last token; those that are told that they end are in no list any more.
Answers(t, outs, A) ==
  /\ {o.req : o \in ToSet(outs)} = A
  /\ \A o \in ToSet(outs) :
       /\ o.tok = t.made[o.req] /\ o.tok > 0
       /\ o.finish \in {"none", "stop", "length"}
       /\ o.finish # "none" => o.req \notin Queued(t) \cup Active(t)

\* The requests in A get one token more.
OneMore(s, t, A) ==
  \A r \in Requests : t.made[r] = IF r \in A THEN s.made[r] + 1 ELSE s.made[r]

\* The responses of next(), and what follows from them, leave the scheduler
\* sound.
LEMMA GenerateSound ==
  ASSUME NEW s, NEW K, Sound(s, K), NEW ending \in SUBSET Requests,
         NEW d \in Rounds \cup {NoRound}
  PROVE  LET t == Generate(s, ending, d).s
             outs == Generate(s, ending, d).outs
         IN  /\ Sound(t, K) /\ Begun(t) /\ Finished(s, t)
             /\ Answers(t, outs, Active(s))
             /\ d = NoRound => OneMore(s, t, Active(s))
<1> DEFINE told == Advance(s, ending)
           R == Responding(s)
           does == d.req # None /\ MayRound(told, d)
           spec == IF does THEN EndRound(Speculate(told, d), d) ELSE told
           stopped(r) == r = d.req /\ spec # told /\ d.ends \in {"string", "token"}
           fin(r) == IF stopped(r) THEN "stop" ELSE EndsWith(s, r, ending)
           outs == [i \in 1 .. Len(R) |->
                      [req |-> R[i], tok |-> spec.made[R[i]], finish |-> fin(R[i])]]
           done == {o.req : o \in {x \in ToSet(outs) : x.finish # "none"}}
           E == IF does THEN Stopping(d) ELSE {}
<1>1. /\ Generate(s, ending, d).s = Cleanup(spec, done)
      /\ Generate(s, ending, d).outs = outs
  BY DEF Generate
<1>2. R \in Seq(Requests) /\ ToSet(R) = Active(s)
  BY AllRespond
<1>3. /\ Spent(told, K, Ending(s, ending)) /\ Active(told) = Active(s)
      /\ Queued(told) = Queued(s) /\ told.known = s.known
      /\ \A r \in Requests \ Active(s) : told.made[r] = s.made[r]
      /\ \A u \in told.gen.stray : told.owner[u] = None
      /\ \A r \in Active(s) : told.made[r] = s.made[r] + 1
  <2> DEFINE t == told
             D == Ending(s, ending)
  <2>1. t = Advance(s, ending) /\ D = Ending(s, ending)
    OBVIOUS
  <2> HIDE DEF t, D
  <2>2. /\ Spent(t, K, D) /\ Active(t) = Active(s)
        /\ Queued(t) = Queued(s) /\ t.known = s.known
        /\ \A r \in Requests \ Active(s) : t.made[r] = s.made[r]
        /\ \A u \in t.gen.stray : t.owner[u] = None
    BY <2>1, AdvanceSpent
  <2>3. \A r \in Active(s) : t.made[r] = s.made[r] + 1
    <3>1. Advanced(s, ending, t)
      BY <2>1, AdvanceFields
    <3>2. \A r \in Active(s) : t.made[r] = s.made[r] + 0 + 1
      BY <3>1, ListsOf DEF Advanced, Sound
    <3>3. \A r \in Active(s) : s.made[r] \in Nat
      BY ListsOf, Values DEF Sound
    <3> QED BY <3>2, <3>3
  <2> QED BY <2>1, <2>2, <2>3
<1> HIDE DEF told, R
<1>4. /\ Spent(spec, K, Ending(s, ending) \cup E)
      /\ Active(spec) = Active(s) /\ Queued(spec) = Queued(s) /\ spec.known = s.known
      /\ \A r \in Requests \ Active(s) : spec.made[r] = s.made[r]
      /\ does => spec # told /\ d.req \in Active(s)
      /\ d = NoRound => spec = told
  <2>1. CASE does
    <3>1. d \in Rounds /\ d # NoRound
      BY <2>1 DEF NoRound
    <3>2. d.req \in Active(told) /\ MayRound(told, d)
      BY <2>1 DEF MayRound
    <3> DEFINE t == EndRound(Speculate(told, d), d)
               D == Ending(s, ending)
    <3>3. t = EndRound(Speculate(told, d), d) /\ Spent(told, K, D)
      BY <1>3
    <3> HIDE DEF t, D
    <3>4. /\ t # told /\ Spent(t, K, D \cup Stopping(d))
          /\ Active(t) = Active(told) /\ Queued(t) = Queued(told)
          /\ t.known = told.known
          /\ \A r \in Requests \ Active(told) : t.made[r] = told.made[r]
      BY <1>3, <3>1, <3>2, <3>3, SpeculateSpent
    <3>5. spec = t /\ E = Stopping(d)
      BY <2>1, <3>3
    <3> QED BY <1>3, <3>1, <3>2, <3>4, <3>5 DEF D
  <2>2. CASE ~ does
    BY <1>3, <2>2
  <2> QED BY <2>1, <2>2
<1>5. \A r \in Active(s) : stopped(r) <=> r \in E
  BY <1>4 DEF Stopping
<1>12. \A r \in Active(s) : fin(r) \in {"none", "stop", "length"}
  BY DEF EndsWith
<1> HIDE DEF spec, does
<1>6. /\ done = {r \in Active(s) : fin(r) # "none"}
      /\ {o.req : o \in ToSet(outs)} = Active(s)
      /\ \A o \in ToSet(outs) :
           /\ o.req \in Active(s) /\ o.tok = spec.made[o.req]
           /\ o.finish = fin(o.req)
  <2>1. Active(s) = {R[i] : i \in 1 .. Len(R)}
    BY <1>2, LenProperties DEF ToSet
  <2> HIDE DEF fin
  <2>2. ToSet(outs) = {[req |-> R[i], tok |-> spec.made[R[i]], finish |-> fin(R[i])] :
                         i \in 1 .. Len(R)}
    BY DEF ToSet
  <2>3. \A o \in ToSet(outs) :
          \E r \in Active(s) : o.req = r /\ o.finish = fin(r) /\ o.tok = spec.made[r]
    BY <2>1, <2>2
  <2>4. \A r \in Active(s) : \E o \in ToSet(outs) : o.req = r /\ o.finish = fin(r)
    <3> SUFFICES ASSUME NEW i \in 1 .. Len(R)
                 PROVE  \E o \in ToSet(outs) : o.req = R[i] /\ o.finish = fin(R[i])
      BY <2>1
    <3> DEFINE o == [req |-> R[i], tok |-> spec.made[R[i]], finish |-> fin(R[i])]
    <3>1. o \in ToSet(outs)
      BY <2>2
    <3>2. o.req = R[i] /\ o.finish = fin(R[i])
      OBVIOUS
    <3> HIDE DEF o, outs
    <3> QED BY <3>1, <3>2
  <2> HIDE DEF outs
  <2> QED BY <2>3, <2>4
<1>7. done = Ending(s, ending) \cup E
  <2>1. E \subseteq Active(s)
    BY <1>4 DEF Stopping
  <2>2. \A r \in Active(s) : fin(r) # "none" <=> r \in E \/ r \in Ending(s, ending)
    BY <1>5 DEF Ending
  <2> HIDE DEF done, fin, E
  <2> QED BY <1>6, <2>1, <2>2 DEF Ending
<1> DEFINE t == Cleanup(spec, done)
<1> HIDE DEF done, E
<1>11. Spent(spec, K, done) /\ t = Cleanup(spec, done)
  BY <1>4, <1>7
<1> HIDE DEF t
<1>8. /\ Sound(t, K) /\ Begun(t)
      /\ t.known = spec.known \ done /\ t.made = spec.made
      /\ Active(t) = Active(spec) \ done /\ Queued(t) = Queued(spec)
  BY <1>11, CleanupSound
<1>9. done \in SUBSET Active(s)
  BY <1>4, <1>7 DEF Spent
<1>13. Answers(t, outs, Active(s))
  <2>1. Placed(spec) /\ Begun(spec)
    BY <1>4 DEF Spent
  <2>2. \A o \in ToSet(outs) :
          o.req \in done <=> o.finish # "none"
    <3> HIDE DEF outs, fin
    <3> QED BY <1>6
  <2>3. \A o \in ToSet(outs) : o.tok = t.made[o.req] /\ o.tok > 0
    <3> HIDE DEF outs, fin
    <3> QED BY <1>4, <1>6, <1>8, <2>1 DEF Begun
  <2>4. \A o \in ToSet(outs) :
          o.finish # "none" => o.req \notin Queued(t) \cup Active(t)
    <3> HIDE DEF outs, fin
    <3> QED BY <1>4, <1>6, <1>8, <2>1, <2>2 DEF Placed
  <2>5. \A o \in ToSet(outs) : o.finish \in {"none", "stop", "length"}
    <3> HIDE DEF outs, fin
    <3> QED BY <1>6, <1>12
  <2> HIDE DEF outs, fin
  <2> QED BY <1>6, <2>3, <2>4, <2>5 DEF Answers
<1>14. d = NoRound => OneMore(s, t, Active(s))
  BY <1>3, <1>4, <1>8 DEF OneMore
<1>10. Finished(s, t)
  <2>1. \A r \in Active(s) : r \in Requests /\ t.made[r] > 0
    BY <1>4, <1>8, ListsOf DEF Spent, Begun
  <2>2. Seen(s) \subseteq Seen(t)
    BY <1>4, <1>8, <2>1 DEF Seen
  <2>3. Untouched(s, t)
    BY <1>4, <1>8 DEF Untouched
  <2> QED BY <1>4, <1>8, <1>9, <2>2, <2>3 DEF Finished
<1> HIDE DEF outs
<1> QED
  BY <1>1, <1>8, <1>10, <1>13, <1>14 DEF t

-----------------------------------------------------------------------------
\* A step of the scheduler.

\* A failed constructor loses the request at the head of the queue.
LEMMA CreateSound ==
  ASSUME NEW s, NEW K, Sound(s, K), s.waiting # << >>,
         NEW t, t = [s EXCEPT !.waiting = Tail(@)]
  PROVE  /\ Sound(t, K) /\ t.known = s.known /\ t.made = s.made
         /\ Queued(t) \subseteq Queued(s) /\ Active(t) = Active(s)
<1>1. s \in Schedulers /\ IsScheduler(s) /\ SchedulerTyped(s)
  BY SchedulerFields DEF Sound
<1>2. /\ t.waiting = Tail(s.waiting) /\ t.running = s.running
      /\ t.known = s.known /\ t.uid = s.uid /\ t.owner = s.owner
      /\ t.gen = s.gen /\ t.made = s.made /\ t.cached = s.cached
      /\ t.fed = s.fed /\ t.hurt = s.hurt /\ t.hybrid = s.hybrid
      /\ t.added = s.added /\ IsScheduler(t)
  BY <1>1 DEF IsScheduler
<1>3. /\ t.waiting \in Seq(Requests) /\ IsInjective(t.waiting)
      /\ Queued(t) \subseteq Queued(s) /\ Active(t) = Active(s)
      /\ Working(t) = Working(s)
  <2>1. s.waiting \in Seq(Requests) /\ IsInjective(s.waiting)
    BY <1>1 DEF SchedulerTyped, Sound, Placed
  <2>2. /\ Tail(s.waiting) \in Seq(Requests) /\ IsInjective(Tail(s.waiting))
        /\ ToSet(Tail(s.waiting)) \subseteq ToSet(s.waiting)
    BY <2>1, TailFacts
  <2> QED BY <1>2, <2>2 DEF Queued, Active, Working
<1>4. t \in Schedulers
  <2>1. SchedulerTyped(t)
    BY <1>1, <1>2, <1>3 DEF SchedulerTyped
  <2> QED BY <1>2, <2>1, SchedulerFields
<1>5. Served(t) = Served(s)
  BY <1>2, <1>3 DEF Served
<1>6. /\ Placed(t) /\ Mapped(t) /\ Worked(t) /\ Bounded(t) /\ Fresh(t)
      /\ Held(t, Served(t)) /\ Live(t)
  <2>1. Placed(t) /\ Fresh(t)
    BY <1>2, <1>3 DEF Placed, Fresh, Sound
  <2>4. Mapped(s) /\ Worked(s) /\ Live(s)
    BY DEF Sound
  <2>5. Mapped(t)
    BY <1>2, <1>3, <2>4 DEF Mapped
  <2>6. {t.uid[q] : q \in Active(t)} = {s.uid[q] : q \in Active(s)}
    BY <1>2, <1>3
  <2>7. Worked(t)
    BY <1>2, <1>3, <2>4, <2>6 DEF Worked
  <2>8. Live(t)
    BY <1>2, <2>4 DEF Live
  <2>2. Mapped(t) /\ Worked(t) /\ Live(t)
    BY <2>5, <2>7, <2>8
  <2>3. Bounded(t) /\ Held(t, Served(t))
    BY <1>2, <1>3, <1>5 DEF Bounded, Held, Sound
  <2> QED BY <2>1, <2>2, <2>3
<1>7. Counted(t, K)
  <2>1. Started(s, K) \subseteq Started(t, K)
    BY <1>3 DEF Started
  <2>2. /\ IsFiniteSet(Started(t, K)) /\ Cardinality(Started(s, K)) \in Nat
        /\ Cardinality(Started(t, K)) \in Nat
    BY StartedFinite DEF Sound, Counted
  <2>3. Cardinality(Started(s, K)) <= Cardinality(Started(t, K))
    BY <2>1, <2>2, FS_Subset
  <2>4. s.gen.next \in Nat /\ s.gen.rounds \in Nat
    BY <1>1, Values
  <2>5. s.gen.next <= Cardinality(Started(s, K)) + s.gen.rounds
    BY DEF Sound, Counted
  <2>6. s.gen.next <= Cardinality(Started(t, K)) + s.gen.rounds
    BY <2>2, <2>3, <2>4, <2>5
  <2> QED BY <1>2, <1>3, <2>6 DEF Sound, Counted
<1> QED
  BY <1>2, <1>3, <1>4, <1>6, <1>7 DEF Sound

\* What a step may do to the lists: s becomes t.
Stepped(s, t) ==
  /\ t.known \subseteq s.known
  /\ Queued(t) \cup Active(t) \subseteq Queued(s) \cup Active(s)
  /\ Untouched(s, t)

\* And what its outputs tell; plain says that it did not retry and that there
\* was no round of drafts.
Answered(s, res, plain) ==
  \E A \in SUBSET (Queued(s) \cup Active(s)) :
    /\ Answers(res.s, res.outs, A) /\ (res.raised => A = {})
    /\ plain => OneMore(s, res.s, A)

\* What a step may come to: scheduling and up to MaxRetries + 1 retries, each
\* of which leaves the scheduler sound.
LEMMA StepUnfolds ==
  ASSUME NEW s, NEW K, Sound(s, K), NEW m \in Mishaps, NEW ending, NEW d,
         NEW res, res = Step(s, m, ending, d)
  PROVE  \E f :
           /\ f[0] = ScheduleWaiting(s, m.bad)
           /\ \A n \in 1 .. MaxRetries + 1 : f[n] = Retry(f[n - 1], m.bad)
           /\ \A n \in 0 .. MaxRetries + 1 : Sound(f[n], K) /\ Moved(s, f[n])
           /\ res =
                IF m.create
                THEN [s |-> [s EXCEPT !.waiting = Tail(@)], outs |-> << >>, raised |-> TRUE]
                ELSE IF ~ f[0].gen.live \/ f[0].running = << >>
                THEN [s |-> f[0], outs |-> << >>, raised |-> FALSE]
                ELSE IF m.cache > MaxRetries
                THEN [s |-> f[MaxRetries], outs |-> << >>, raised |-> TRUE]
                ELSE IF m.fatal
                THEN [s |-> f[m.cache], outs |-> << >>, raised |-> TRUE]
                ELSE Generate(f[m.cache], ending, d)
<1> DEFINE N == MaxRetries + 1
           X == {x \in Schedulers : Sound(x, K) /\ Moved(s, x)}
           first == ScheduleWaiting(s, m.bad)
           H == [n \in 1 .. N |-> [x \in X |-> Retry(x, m.bad)]]
           f == CHOOSE f : f = [i \in 0 .. N |->
                  IF i = 0 THEN first ELSE Retry(f[i - 1], m.bad)]
<1>1. N \in Nat
  BY Constants
<1>2. /\ first \in X /\ Sound(first, K) /\ Moved(s, first)
  <2>1. Sound(first, K) /\ Scheduled(s, first)
    BY ScheduleWaitingSound
  <2> HIDE DEF first
  <2>2. Moved(s, first)
    BY <2>1 DEF Scheduled, Moved, Seen, Untouched
  <2> QED BY <2>1, <2>2 DEF Sound
<1>3. \A x \in X : Retry(x, m.bad) \in X
  <2> SUFFICES ASSUME NEW x \in X
               PROVE  Retry(x, m.bad) \in X
    OBVIOUS
  <2> DEFINE y == Retry(x, m.bad)
  <2>1. Sound(y, K) /\ Moved(x, y)
    BY RetrySound
  <2> HIDE DEF y
  <2>2. y \in Schedulers /\ Moved(s, y)
    BY <2>1 DEF Moved, Sound, Untouched
  <2> QED BY <2>1, <2>2 DEF y
<1>4. PICK g : Iterates(X, N, first, H, g)
  <2>1. H \in StepsIn(X, N)
    <3> HIDE DEF X, N
    <3> QED BY <1>3 DEF StepsIn
  <2> HIDE DEF X, N, first, H
  <2> QED BY <1>1, <1>2, <2>1, Iteration
<1>5. g = [i \in 0 .. N |-> IF i = 0 THEN first ELSE Retry(g[i - 1], m.bad)]
  <2>1. /\ g \in [0 .. N -> X] /\ g[0] = first
        /\ \A n \in 1 .. N : g[n] = H[n][g[n - 1]]
    <3> HIDE DEF X, N, first, H
    <3> QED BY <1>4 DEF Iterates
  <2>2. \A n \in 1 .. N : g[n] = Retry(g[n - 1], m.bad)
    <3> SUFFICES ASSUME NEW n \in 1 .. N
                 PROVE  g[n] = Retry(g[n - 1], m.bad)
      OBVIOUS
    <3> HIDE DEF X, N, first
    <3>1. n - 1 \in 0 .. N
      BY <1>1
    <3>2. g[n - 1] \in X
      BY <2>1, <3>1
    <3> QED BY <2>1, <3>2
  <2>3. \A n \in 0 .. N : n # 0 => n \in 1 .. N
    BY <1>1
  <2> HIDE DEF X, N, first, H
  <2> QED BY <2>1, <2>2, <2>3
<1>6. f = [i \in 0 .. N |-> IF i = 0 THEN first ELSE Retry(f[i - 1], m.bad)]
  <2> HIDE DEF X, N, first, H
  <2> QED BY <1>5 DEF f
<1> DEFINE G == {n \in 0 .. N : f[n] \in X}
<1>7. /\ f[0] = first /\ 0 \in G
      /\ \A n \in 1 .. N : f[n] = Retry(f[n - 1], m.bad)
      /\ \A n \in 1 .. N : n - 1 \in G => n \in G
  <2> HIDE DEF X, N, first, f
  <2>1. f[0] = first /\ 0 \in 0 .. N
    BY <1>1, <1>6
  <2>2. \A n \in 1 .. N : f[n] = Retry(f[n - 1], m.bad) /\ n \in 0 .. N
    BY <1>1, <1>6
  <2> QED BY <1>2, <1>3, <2>1, <2>2
<1>8. \A n \in 0 .. N : n \in G
  <2> HIDE DEF G, N
  <2> QED BY <1>1, <1>7, UpTo
<1>9. \A n \in 0 .. N : Sound(f[n], K) /\ Moved(s, f[n])
  <2> HIDE DEF f, N
  <2> QED BY <1>8
<1>10. res =
        IF m.create
        THEN [s |-> [s EXCEPT !.waiting = Tail(@)], outs |-> << >>, raised |-> TRUE]
        ELSE IF ~ first.gen.live \/ first.running = << >>
        THEN [s |-> first, outs |-> << >>, raised |-> FALSE]
        ELSE IF m.cache > MaxRetries
        THEN [s |-> f[MaxRetries], outs |-> << >>, raised |-> TRUE]
        ELSE IF m.fatal
        THEN [s |-> f[m.cache], outs |-> << >>, raised |-> TRUE]
        ELSE Generate(f[m.cache], ending, d)
  BY DEF Step
<1> HIDE DEF f
<1> QED
  BY <1>7, <1>9, <1>10

\* However often step retries, the scheduler is sound; and if it does not
\* raise, every running request has a token and none is lost.
LEMMA StepSound ==
  ASSUME NEW s, NEW K, Sound(s, K), NEW m \in Mishaps,
         m.create => s.waiting # << >>,
         NEW ending \in SUBSET Requests, NEW d \in Rounds \cup {NoRound},
         NEW res, res = Step(s, m, ending, d)
  PROVE  /\ Sound(res.s, K) /\ Stepped(s, res.s)
         /\ ~ m.create /\ ~ res.raised =>
              /\ Begun(res.s) /\ Seen(s) \subseteq Seen(res.s)
              /\ NoneStray(s) => NoneStray(res.s)
         /\ Answered(s, res, m.cache = 0 /\ d = NoRound)
<1> DEFINE N == MaxRetries + 1
           first == ScheduleWaiting(s, m.bad)
<1>1. N \in Nat
  BY Constants
<1>2. PICK f :
        /\ f[0] = first
        /\ \A n \in 1 .. N : f[n] = Retry(f[n - 1], m.bad)
        /\ \A n \in 0 .. N : Sound(f[n], K) /\ Moved(s, f[n])
        /\ res =
             IF m.create
             THEN [s |-> [s EXCEPT !.waiting = Tail(@)], outs |-> << >>, raised |-> TRUE]
             ELSE IF ~ f[0].gen.live \/ f[0].running = << >>
             THEN [s |-> f[0], outs |-> << >>, raised |-> FALSE]
             ELSE IF m.cache > MaxRetries
             THEN [s |-> f[MaxRetries], outs |-> << >>, raised |-> TRUE]
             ELSE IF m.fatal
             THEN [s |-> f[m.cache], outs |-> << >>, raised |-> TRUE]
             ELSE Generate(f[m.cache], ending, d)
  BY StepUnfolds
<1>3. Sound(first, K) /\ Moved(s, first) /\ first.made = s.made
  <2>1. first.made = s.made
    BY ScheduleWaitingSound DEF Scheduled
  <2>2. 0 \in 0 .. N
    BY <1>1
  <2> QED BY <1>2, <2>1, <2>2
<1>9. m.cache \in 0 .. N
  BY Constants DEF Mishaps
<1>16. MaxRetries \in 0 .. N
  BY Constants
<1> DEFINE plain == m.cache = 0 /\ d = NoRound
<1>18. ASSUME res.outs = << >>, plain => res.s.made = s.made
       PROVE  Answered(s, res, plain)
  <2>1. ToSet(res.outs) = {}
    BY <1>18 DEF ToSet
  <2>2. Answers(res.s, res.outs, {})
    BY <2>1 DEF Answers
  <2>3. plain => OneMore(s, res.s, {})
    BY <1>18 DEF OneMore
  <2> HIDE DEF plain
  <2> QED BY <2>2, <2>3 DEF Answered
<1> HIDE DEF first, N, plain
<1>12. CASE m.create
  <2> DEFINE t == [s EXCEPT !.waiting = Tail(@)]
  <2>1. res.s = t /\ res.outs = << >>
    BY <1>2, <1>12
  <2>2. /\ Sound(t, K) /\ t.known = s.known /\ t.made = s.made
        /\ Queued(t) \subseteq Queued(s) /\ Active(t) = Active(s)
    BY <1>12, CreateSound
  <2> HIDE DEF t
  <2>3. Answered(s, res, plain)
    BY <1>18, <2>1, <2>2
  <2>4. Stepped(s, res.s)
    BY <2>1, <2>2 DEF Stepped, Untouched
  <2> QED BY <1>12, <2>1, <2>2, <2>3, <2>4 DEF plain
<1>13. CASE ~ m.create /\ (~ first.gen.live \/ first.running = << >>)
  <2>1. res.s = first /\ res.outs = << >>
    BY <1>2, <1>13
  <2>2. first.running = << >>
    BY <1>3, <1>13 DEF Sound, Live
  <2>3. Active(first) = {}
    BY <1>3, <2>2, ListsOf DEF Sound
  <2>4. Answered(s, res, plain)
    BY <1>3, <1>18, <2>1
  <2>5. Stepped(s, res.s) /\ Begun(res.s)
    BY <1>3, <2>1, <2>3 DEF Begun, Moved, Stepped
  <2>6. Seen(s) \subseteq Seen(res.s) /\ (NoneStray(s) => NoneStray(res.s))
    BY <1>3, <2>1 DEF Moved, NoneStray
  <2> QED BY <1>3, <2>1, <2>4, <2>5, <2>6 DEF plain
<1>14. CASE /\ ~ m.create /\ ~ (~ first.gen.live \/ first.running = << >>)
            /\ (m.cache > MaxRetries \/ m.fatal)
  <2>1. PICK n \in 0 .. N :
          /\ res.s = f[n] /\ res.raised /\ res.outs = << >>
          /\ m.cache = 0 => n = 0
    BY <1>9, <1>2, <1>14, <1>16, Constants
  <2>2. Sound(f[n], K) /\ Moved(s, f[n])
    BY <1>2
  <2>3. plain => res.s.made = s.made
    BY <1>3, <1>2, <2>1 DEF plain
  <2>4. Answered(s, res, plain)
    BY <1>18, <2>1, <2>3
  <2> QED BY <2>1, <2>2, <2>4 DEF Moved, Stepped, plain
<1>15. CASE /\ ~ m.create /\ ~ (~ first.gen.live \/ first.running = << >>)
            /\ ~ (m.cache > MaxRetries \/ m.fatal)
  <2> DEFINE x == f[m.cache]
  <2>1. res.s = Generate(x, ending, d).s /\ res.outs = Generate(x, ending, d).outs
    BY <1>2, <1>15
  <2>11. ~ res.raised
    BY <1>2, <1>15 DEF Generate
  <2>7. plain => x.made = s.made
    BY <1>3, <1>2 DEF plain
  <2>2. Sound(x, K) /\ Moved(s, x)
    BY <1>9, <1>2
  <2> HIDE DEF x
  <2>3. /\ Sound(res.s, K) /\ Begun(res.s) /\ Finished(x, res.s)
        /\ Answers(res.s, res.outs, Active(x))
        /\ d = NoRound => OneMore(x, res.s, Active(x))
    BY <2>1, <2>2, GenerateSound
  <2>4. Queued(x) \cap Active(x) = {}
    BY <2>2 DEF Sound, Placed
  <2>5. Stepped(s, res.s) /\ (NoneStray(s) => NoneStray(res.s))
    BY <2>2, <2>3, <2>4 DEF Moved, Finished, Stepped, NoneStray, Untouched
  <2>6. Seen(s) \subseteq Seen(res.s)
    BY <2>2, <2>3 DEF Moved, Finished
  <2>8. Active(x) \in SUBSET (Queued(s) \cup Active(s))
    BY <2>2 DEF Moved
  <2>9. plain => OneMore(s, res.s, Active(x))
    BY <2>3, <2>7 DEF plain, OneMore
  <2>10. Answered(s, res, plain)
    BY <2>3, <2>8, <2>9, <2>11 DEF Answered
  <2> QED BY <2>3, <2>5, <2>6, <2>10 DEF plain
<1> QED
  BY <1>12, <1>13, <1>14, <1>15

\* What a step from s gives is what scheduling settled at x: the first n of the
\* queue run there and the others wait, and from x on requests only end.
SettledWithin(s, res, K, bad, x, n) ==
  /\ Sound(x, K) /\ Active(res.s) \subseteq Active(x) /\ Queued(res.s) = Queued(x)
  /\ Settled(x, bad, {s.waiting[i] : i \in 1 .. n},
             {s.waiting[i] : i \in n + 1 .. Len(s.waiting)})

\* Who starts in a step is decided when the queue is scheduled: however often
\* step retries, the first n of the queue run or have ended after it, and the
\* others wait.
LEMMA StepSettles ==
  ASSUME NEW s, NEW K, Sound(s, K), Len(s.running) <= MaxNumSeqs,
         NEW m \in Mishaps, ~ m.create,
         NEW ending \in SUBSET Requests, NEW d \in Rounds \cup {NoRound},
         NEW res, res = Step(s, m, ending, d), ~ res.raised
  PROVE  \E x : \E n \in 0 .. Len(s.waiting) : SettledWithin(s, res, K, m.bad, x, n)
<1> DEFINE N == MaxRetries + 1
           first == ScheduleWaiting(s, m.bad)
           W == Len(s.waiting)
<1>1. /\ N \in Nat /\ MaxRetries \in Nat /\ W \in Nat /\ Len(s.running) \in Nat
      /\ s.waiting \in Seq(Requests) /\ s.running \in Seq(Requests)
  BY Constants, ListsOf, LenProperties DEF Sound
<1>2. PICK f :
        /\ f[0] = first
        /\ \A n \in 1 .. N : f[n] = Retry(f[n - 1], m.bad)
        /\ \A n \in 0 .. N : Sound(f[n], K) /\ Moved(s, f[n])
        /\ res =
             IF m.create
             THEN [s |-> [s EXCEPT !.waiting = Tail(@)], outs |-> << >>, raised |-> TRUE]
             ELSE IF ~ f[0].gen.live \/ f[0].running = << >>
             THEN [s |-> f[0], outs |-> << >>, raised |-> FALSE]
             ELSE IF m.cache > MaxRetries
             THEN [s |-> f[MaxRetries], outs |-> << >>, raised |-> TRUE]
             ELSE IF m.fatal
             THEN [s |-> f[m.cache], outs |-> << >>, raised |-> TRUE]
             ELSE Generate(f[m.cache], ending, d)
  BY StepUnfolds
<1>3. /\ Len(first.running) <= MaxNumSeqs /\ Halted(first, m.bad)
      /\ \E n \in 0 .. W : Took(s, n, first) /\ \A i \in 1 .. n : s.waiting[i] \notin m.bad
  BY ScheduleWaitingTakes
<1>4. PICK n \in 0 .. W : Took(s, n, first) /\ \A i \in 1 .. n : s.waiting[i] \notin m.bad
  BY <1>3
<1> DEFINE First == {s.waiting[i] : i \in 1 .. n}
           Later == {s.waiting[i] : i \in n + 1 .. W}
           G == {k \in 0 .. N : Settled(f[k], m.bad, First, Later)}
<1>5. Settled(first, m.bad, First, Later)
  <2> HIDE DEF first
  <2> DEFINE L == Len(s.running)
             A == Len(first.running)
             B == Len(first.waiting)
  <2>1. /\ n \in Nat /\ n <= W /\ L \in Nat /\ W \in Nat /\ A = L + n /\ B = W - n
        /\ \A i \in 1 .. B : first.waiting[i] = s.waiting[n + i]
        /\ \A i \in 1 .. n : first.running[L + i] = s.waiting[i]
    BY <1>1, <1>4 DEF Took
  <2>2. first.waiting \in Seq(Requests)
    <3>1. Sound(first, K)
      BY ScheduleWaitingSound DEF first
    <3> QED BY <3>1, ListsOf DEF Sound
  <2> HIDE DEF L, W, A, B
  <2>3. \A a \in L + 1 .. A : a - L \in 1 .. n /\ L + (a - L) = a
    BY <2>1
  <2>4. \A a \in L + 1 .. A : first.running[a] \notin m.bad
    <3> SUFFICES ASSUME NEW a \in L + 1 .. A PROVE first.running[a] \notin m.bad
      OBVIOUS
    <3>1. first.running[L + (a - L)] = s.waiting[a - L]
      BY <2>1, <2>3
    <3>2. first.running[a] = s.waiting[a - L]
      BY <2>3, <3>1
    <3> QED BY <1>4, <2>3, <3>2
  <2>5. ASSUME NEW e \in First PROVE \E a \in L + 1 .. A : first.running[a] = e
    <3>1. PICK i \in 1 .. n : s.waiting[i] = e
      BY <2>5
    <3>2. L + i \in L + 1 .. A
      BY <2>1
    <3> QED BY <2>1, <3>1, <3>2
  <2>6. L \in 0 .. A
    BY <2>1
  <2>7. Firm(first, m.bad, First)
    BY <2>4, <2>5, <2>6 DEF Firm, A
  <2>8. ASSUME NEW e \in Later PROVE e \in Queued(first)
    <3>1. PICK i \in n + 1 .. W : s.waiting[i] = e
      BY <2>8
    <3>2. i - n \in 1 .. B /\ n + (i - n) = i
      BY <2>1
    <3>3. first.waiting[i - n] = s.waiting[n + (i - n)]
      BY <2>1, <3>2
    <3>4. first.waiting[i - n] = e /\ i - n \in DOMAIN first.waiting
      BY <2>2, <3>1, <3>2, <3>3, LenProperties DEF B
    <3> QED BY <3>4 DEF Queued, ToSet
  <2> HIDE DEF First, Later
  <2> QED BY <1>3, <2>7, <2>8 DEF Settled
<1> HIDE DEF first, N, W, First, Later
<1>6. 0 \in G
  BY <1>1, <1>2, <1>5
<1>7. ASSUME NEW k \in 1 .. N, k - 1 \in G PROVE k \in G
  <2>1. k - 1 \in 0 .. N /\ k \in 0 .. N /\ Settled(f[k - 1], m.bad, First, Later)
    BY <1>1, <1>7
  <2>2. Sound(f[k - 1], K) /\ f[k] = Retry(f[k - 1], m.bad)
    BY <1>2, <2>1
  <2>3. Settled(f[k], m.bad, First, Later)
    BY <2>1, <2>2, RetrySettles
  <2> QED BY <2>1, <2>3
<1>8. \A k \in 0 .. N : k \in G
  <2> HIDE DEF G
  <2> QED BY <1>1, <1>6, <1>7, UpTo
<1>9. ASSUME NEW k \in 0 .. N, Active(res.s) \subseteq Active(f[k]),
             Queued(res.s) = Queued(f[k])
      PROVE  \E x : \E l \in 0 .. W : SettledWithin(s, res, K, m.bad, x, l)
  <2>1. SettledWithin(s, res, K, m.bad, f[k], n)
    BY <1>2, <1>8, <1>9 DEF SettledWithin, First, Later, W
  <2> QED BY <2>1
<1>10. CASE ~ f[0].gen.live \/ f[0].running = << >>
  <2>1. res.s = f[0] /\ 0 \in 0 .. N
    BY <1>1, <1>2, <1>10
  <2> QED BY <1>9, <2>1 DEF W
<1>11. CASE ~ (~ f[0].gen.live \/ f[0].running = << >>)
  <2>1. m.cache \in 0 .. N
    BY Constants DEF Mishaps, N
  <2>2. res = Generate(f[m.cache], ending, d)
    BY <1>2, <1>11
  <2>3. Sound(f[m.cache], K)
    BY <1>2, <2>1
  <2>4. Finished(f[m.cache], res.s)
    BY <2>2, <2>3, GenerateSound
  <2>5. Active(res.s) \subseteq Active(f[m.cache]) /\ Queued(res.s) = Queued(f[m.cache])
    BY <2>4 DEF Finished
  <2> QED BY <1>9, <2>1, <2>5 DEF W
<1> QED
  BY <1>10, <1>11

\* A list without repetition whose elements are all in another such list is no
\* longer.
LEMMA FewerRun ==
  ASSUME NEW s, NEW t, s \in Schedulers, t \in Schedulers, Placed(s), Placed(t),
         Active(t) \subseteq Active(s)
  PROVE  Len(t.running) <= Len(s.running)
<1>1. /\ IsFiniteSet(Active(s)) /\ Cardinality(Active(s)) = Len(s.running)
      /\ Cardinality(Active(t)) = Len(t.running)
  BY ListsOf, InjectiveLen DEF Placed, Active
<1> QED
  BY <1>1, FS_Subset

\* A step starts requests in the order of the queue, and not too many.
LEMMA StepKeepsOrder ==
  ASSUME NEW s, NEW K, Sound(s, K), Len(s.running) <= MaxNumSeqs,
         NEW m \in Mishaps, ~ m.create,
         NEW ending \in SUBSET Requests, NEW d \in Rounds \cup {NoRound},
         NEW res, res = Step(s, m, ending, d), ~ res.raised
  PROVE  /\ Len(res.s.running) <= MaxNumSeqs
         /\ \A i, j \in 1 .. Len(s.waiting) :
              i < j /\ s.waiting[j] \in Active(res.s) => s.waiting[i] \notin Queued(res.s)
<1>1. \E x : \E n \in 0 .. Len(s.waiting) : SettledWithin(s, res, K, m.bad, x, n)
  BY StepSettles
<1>2. PICK x : \E n \in 0 .. Len(s.waiting) : SettledWithin(s, res, K, m.bad, x, n)
  BY <1>1
<1>3. PICK n \in 0 .. Len(s.waiting) : SettledWithin(s, res, K, m.bad, x, n)
  BY <1>2
<1>4. /\ Sound(x, K) /\ Active(res.s) \subseteq Active(x) /\ Queued(res.s) = Queued(x)
      /\ Settled(x, m.bad, {s.waiting[i] : i \in 1 .. n},
                 {s.waiting[i] : i \in n + 1 .. Len(s.waiting)})
  BY <1>3 DEF SettledWithin
<1>5. /\ x.running \in Seq(Requests) /\ Len(x.running) \in Nat /\ Len(s.waiting) \in Nat
      /\ DOMAIN x.running = 1 .. Len(x.running)
  BY <1>4, ListsOf, LenProperties DEF Sound
<1>6. Len(res.s.running) <= MaxNumSeqs
  <2>1. Sound(res.s, K)
    BY StepSound
  <2>2. Len(res.s.running) <= Len(x.running)
    BY <1>4, <2>1, FewerRun DEF Sound
  <2>3. Len(res.s.running) \in Nat /\ MaxNumSeqs \in Nat /\ Len(x.running) <= MaxNumSeqs
    BY <1>4, <2>1, ListsOf, LenProperties, Constants DEF Sound, Settled
  <2> QED BY <1>5, <2>2, <2>3
<1>7. \A i \in 1 .. n : s.waiting[i] \in Active(x)
  <2>1. PICK m0 \in 0 .. Len(x.running) :
          \A e \in {s.waiting[i] : i \in 1 .. n} :
            \E a \in m0 + 1 .. Len(x.running) : x.running[a] = e
    BY <1>4 DEF Settled, Firm
  <2>2. \A a \in m0 + 1 .. Len(x.running) : a \in 1 .. Len(x.running)
    BY <1>5
  <2> QED BY <1>5, <2>1, <2>2 DEF Active, ToSet
<1>8. \A i \in n + 1 .. Len(s.waiting) : s.waiting[i] \in Queued(x)
  BY <1>4 DEF Settled
<1>9. Queued(x) \cap Active(x) = {}
  BY <1>4 DEF Sound, Placed
<1>10. ASSUME NEW i \in 1 .. Len(s.waiting), NEW j \in 1 .. Len(s.waiting),
             i < j, s.waiting[j] \in Active(res.s)
      PROVE  s.waiting[i] \notin Queued(res.s)
  <2>1. j \notin n + 1 .. Len(s.waiting)
    BY <1>4, <1>8, <1>9, <1>10
  <2>2. i \in 1 .. n
    BY <1>5, <1>10, <2>1
  <2> QED BY <1>4, <1>7, <1>9, <2>2
<1> QED
  BY <1>6, <1>10

\* The faults of a step are counted.
LEMMA WeightType ==
  ASSUME NEW m \in Mishaps
  PROVE  Weight(m) \in Nat
<1>1. m.bad \subseteq Requests /\ m.cache \in 0 .. MaxRetries + 1
  BY Constants DEF Mishaps
<1>2. Cardinality(m.bad) \in Nat
  BY <1>1, Constants, FS_Subset, FS_CardinalityType
<1> QED
  BY <1>1, <1>2, Constants DEF Weight

\* The inductive invariant holds at the start.
LEMMA SchedulerInitSound == SchedulerInit => SchedulerIInv
<1> SUFFICES ASSUME SchedulerInit PROVE SchedulerIInv
  OBVIOUS
<1>1. PICK h \in Hybrids : sch = [EmptyScheduler EXCEPT !.hybrid = h]
  BY DEF SchedulerInit
<1>2. h \in BOOLEAN
  BY SchedulerAssumption
<1>3. Sound(sch, Seen(sch)) /\ Begun(sch) /\ NoneStray(sch)
  <2>1. Sound(sch, {}) /\ Begun(sch) /\ NoneStray(sch)
    BY <1>1, <1>2, EmptySound
  <2>2. Seen(sch) \subseteq Requests
    BY <2>1, ListsOf DEF Seen, Sound
  <2> QED BY <2>1, <2>2, Recounted DEF Seen, Started
<1>4. faults \in 0 .. MaxFaults
  BY Constants DEF SchedulerInit
<1> QED
  BY <1>3, <1>4 DEF SchedulerIInv

\* Every step keeps it: a request that is added waits, one that is aborted
\* leaves its list and the generator, and StepSound is about the rest.
LEMMA SchedulerStepSound ==
  SchedulerIInv /\ [SchedulerNext]_<<sch, faults>> => SchedulerIInv'
<1> SUFFICES ASSUME SchedulerIInv, [SchedulerNext]_<<sch, faults>>
             PROVE  SchedulerIInv'
  OBVIOUS
<1>1. /\ Sound(sch, Seen(sch)) /\ Begun(sch) /\ NoneStray(sch)
      /\ faults \in 0 .. MaxFaults
  BY DEF SchedulerIInv
\* What is seen of the scheduler that sch becomes is enough to count.
<1>6. ASSUME NEW t, NEW L, Sound(t, L), Begun(t), Started(t, L) \subseteq Seen(t)
      PROVE  Sound(t, Seen(t))
  <2>1. Seen(t) \subseteq Requests
    BY <1>6, ListsOf DEF Seen, Sound
  <2> QED BY <1>6, <2>1, Recounted DEF Seen
<1>2. ASSUME NEW r \in Requests, AddOne(r)
      PROVE  SchedulerIInv'
  <2> DEFINE t == Enqueue(sch, r)
             K == Seen(sch)
  <2>1. r \notin sch.known /\ sch.made[r] = 0 /\ r \notin K
    BY <1>1, <1>2 DEF AddOne, Unused, Seen, NoneStray
  <2>2. /\ Sound(t, K \cup {r}) /\ t.known = sch.known \cup {r}
        /\ t.made = sch.made
        /\ Queued(t) = Queued(sch) \cup {r} /\ Active(t) = Active(sch)
    BY <1>1, <2>1, EnqueueSound
  <2>3. sch' = t /\ faults' = faults
    BY <1>2 DEF AddOne
  <2> HIDE DEF t
  <2>4. K \cup {r} = Seen(t) /\ Begun(t) /\ NoneStray(t)
    BY <1>1, <2>2 DEF Seen, Begun, NoneStray
  <2>5. Sound(sch', Seen(sch'))
    BY <2>2, <2>3, <2>4
  <2> QED BY <1>1, <2>3, <2>4, <2>5 DEF SchedulerIInv, Seen
<1>3. ASSUME NEW r \in Requests, AbortOne(r)
      PROVE  SchedulerIInv'
  <2> DEFINE t == Abort(sch, r, FALSE)
             L == Seen(sch) \ ({r} \cap Queued(sch))
  <2>1. r \in sch.known
    BY <1>3 DEF AbortOne
  <2>2. Sound(t, L) /\ Removed(sch, t, r)
    BY <1>1, <2>1, AbortRemoves
  <2>3. sch' = t /\ faults' = faults
    BY <1>3 DEF AbortOne
  <2> HIDE DEF t
  <2>4. Begun(t) /\ NoneStray(t)
    BY <1>1, <2>1, <2>2 DEF Removed, Begun, NoneStray
  <2>5. Started(t, L) \subseteq Seen(t)
    BY <1>1, <2>2 DEF Removed, Seen, Started, Begun
  <2>6. Sound(t, Seen(t))
    <3> HIDE DEF L
    <3> QED BY <1>6, <2>2, <2>4, <2>5
  <2> QED BY <1>1, <2>3, <2>4, <2>6 DEF SchedulerIInv, Seen
<1>4. ASSUME StepOnce
      PROVE  SchedulerIInv'
  <2>1. PICK m \in {x \in Mishaps : ~ x.create /\ Possible(sch, x)} :
          \E ending \in SUBSET Active(ScheduleWaiting(sch, m.bad)) :
          \E d \in {NoRound} \cup (IF Weight(m) = 0 THEN RoundsNow(ending) ELSE {}) :
          \E res \in {Step(sch, m, ending, d)} :
            /\ ~ res.raised
            /\ sch' = res.s
            /\ faults' = faults + Weight(m)
                           + (IF d.ends = "fails" THEN 1 ELSE 0)
    BY <1>4 DEF StepOnce
  <2>2. PICK ending \in SUBSET Active(ScheduleWaiting(sch, m.bad)) :
          \E d \in {NoRound} \cup (IF Weight(m) = 0 THEN RoundsNow(ending) ELSE {}) :
          \E res \in {Step(sch, m, ending, d)} :
            /\ ~ res.raised
            /\ sch' = res.s
            /\ faults' = faults + Weight(m)
                           + (IF d.ends = "fails" THEN 1 ELSE 0)
    BY <2>1
  <2>3. PICK d \in {NoRound} \cup (IF Weight(m) = 0 THEN RoundsNow(ending) ELSE {}) :
          /\ ~ Step(sch, m, ending, d).raised
          /\ sch' = Step(sch, m, ending, d).s
          /\ faults' = faults + Weight(m)
                         + (IF d.ends = "fails" THEN 1 ELSE 0)
    BY <2>2
  <2>4. m \in Mishaps /\ ~ m.create /\ faults + Weight(m) <= MaxFaults
    BY <2>1 DEF Possible
  <2>5. Active(ScheduleWaiting(sch, m.bad)) \subseteq Requests
    <3> DEFINE first == ScheduleWaiting(sch, m.bad)
    <3>1. Sound(first, Seen(sch))
      BY <1>1, ScheduleWaitingSound
    <3> HIDE DEF first
    <3>2. Active(first) \subseteq Requests
      BY <3>1, ListsOf DEF Sound
    <3> QED BY <3>2 DEF first
  <2>6. ending \in SUBSET Requests /\ d \in Rounds \cup {NoRound}
    BY <2>3, <2>5 DEF RoundsNow
  <2>7. Sound(sch', Seen(sch')) /\ Begun(sch') /\ NoneStray(sch')
    <3> DEFINE res == Step(sch, m, ending, d)
    <3>0. sch' = res.s /\ ~ res.raised
      BY <2>3
    <3>1. /\ Sound(res.s, Seen(sch)) /\ Stepped(sch, res.s)
          /\ Begun(res.s) /\ NoneStray(res.s) /\ Seen(sch) \subseteq Seen(res.s)
      BY <1>1, <2>3, <2>4, <2>6, StepSound
    <3> HIDE DEF res
    <3>2. Started(res.s, Seen(sch)) \subseteq Seen(res.s)
      BY <3>1 DEF Started
    <3>3. Sound(res.s, Seen(res.s))
      BY <1>6, <3>1, <3>2
    <3> QED BY <3>0, <3>1, <3>3
  <2>8. faults' \in 0 .. MaxFaults
    <3>1. d.ends = "fails" => Weight(m) = 0 /\ faults < MaxFaults
      BY <2>3 DEF NoRound, RoundsNow
    <3>2. Weight(m) \in Nat
      BY <2>4, WeightType
    <3> QED BY <1>1, <2>3, <2>4, <3>1, <3>2, Constants
  <2> QED BY <2>7, <2>8 DEF SchedulerIInv, Seen
<1>5. CASE UNCHANGED <<sch, faults>>
  BY <1>1, <1>5 DEF SchedulerIInv, Seen
<1> QED
  BY <1>2, <1>3, <1>4, <1>5 DEF SchedulerNext

\* The inductive invariant of the scheduler.
THEOREM SchedulerSound == SchedulerSpec => []SchedulerIInv
<1>1. SchedulerInit => SchedulerIInv
  BY SchedulerInitSound
<1>2. SchedulerIInv /\ [SchedulerNext]_<<sch, faults>> => SchedulerIInv'
  BY SchedulerStepSound
<1> QED
  BY <1>1, <1>2, PTL DEF SchedulerSpec

\* No request is lost, and the scheduler's maps and the batch generator agree
\* about who is being worked on (UidsAgree), whatever is aborted, fails to be
\* inserted, is retried with a new generator or goes through rounds of drafts.
THEOREM SchedulerUidsAgree == SchedulerSpec => []UidsAgree
<1>1. SchedulerIInv => UidsAgree
  BY DEF SchedulerIInv, UidsAgree, SchedulerTypeOK, NoneLost, Sound, Placed,
         NoneStray, Mapped, Worked
<1> QED
  BY <1>1, SchedulerSound, PTL

\* A running request's cache and the token it is to process make up its
\* tokens, and its stop tokens are in effect (InSync).
THEOREM SchedulerInSync == SchedulerSpec => []InSync
<1>1. SchedulerIInv => InSync
  BY DEF SchedulerIInv, InSync, Sound, Held, Served, NoneStray
<1> QED
  BY <1>1, SchedulerSound, PTL

-----------------------------------------------------------------------------
\* The order of the queue.

\* There are never more requests running than are allowed.
OrderIInv == SchedulerIInv /\ Len(sch.running) <= MaxNumSeqs

\* A step of the scheduler as far as order is concerned: s becomes t.
Orderly(s, t) ==
  /\ Len(t.running) <= MaxNumSeqs
  /\ \A i, j \in 1 .. Len(s.waiting) :
       i < j /\ s.waiting[j] \in Active(t) => s.waiting[i] \notin Queued(t)

LEMMA SchedulerOrderly ==
  ASSUME OrderIInv, [SchedulerNext]_<<sch, faults>>, SchedulerIInv'
  PROVE  Orderly(sch, sch')
<1>1. /\ Sound(sch, Seen(sch)) /\ Sound(sch', Seen(sch')) /\ NoneStray(sch)
      /\ Len(sch.running) <= MaxNumSeqs
  BY DEF OrderIInv, SchedulerIInv, Seen
\* A step that starts nobody.
<1>2. ASSUME Active(sch') \subseteq Active(sch)
      PROVE  Orderly(sch, sch')
  <2>1. Len(sch'.running) <= Len(sch.running)
    BY <1>1, <1>2, FewerRun DEF Sound
  <2>2. /\ Len(sch'.running) \in Nat /\ Len(sch.running) \in Nat /\ MaxNumSeqs \in Nat
        /\ DOMAIN sch.waiting = 1 .. Len(sch.waiting)
    BY <1>1, ListsOf, LenProperties, Constants DEF Sound
  <2>3. \A j \in 1 .. Len(sch.waiting) : sch.waiting[j] \in Queued(sch)
    BY <2>2 DEF Queued, ToSet
  <2>4. Queued(sch) \cap Active(sch) = {}
    BY <1>1 DEF Sound, Placed
  <2> QED BY <1>1, <1>2, <2>1, <2>2, <2>3, <2>4 DEF Orderly
<1>3. ASSUME NEW r \in Requests, AddOne(r)
      PROVE  Orderly(sch, sch')
  <2> DEFINE t == Enqueue(sch, r)
             K == Seen(sch)
  <2>1. r \notin sch.known /\ sch.made[r] = 0 /\ r \notin K
    BY <1>1, <1>3 DEF AddOne, Unused, Seen, NoneStray
  <2>2. Active(t) = Active(sch)
    BY <1>1, <2>1, EnqueueSound
  <2>3. sch' = t
    BY <1>3 DEF AddOne
  <2> HIDE DEF t
  <2> QED BY <1>2, <2>2, <2>3
<1>4. ASSUME NEW r \in Requests, AbortOne(r)
      PROVE  Orderly(sch, sch')
  <2> DEFINE t == Abort(sch, r, FALSE)
  <2>1. r \in sch.known
    BY <1>4 DEF AbortOne
  <2>2. Removed(sch, t, r)
    BY <1>1, <2>1, AbortRemoves
  <2>3. sch' = t
    BY <1>4 DEF AbortOne
  <2> HIDE DEF t
  <2> QED BY <1>2, <2>2, <2>3 DEF Removed
<1>5. ASSUME StepOnce
      PROVE  Orderly(sch, sch')
  <2>1. PICK m \in {x \in Mishaps : ~ x.create /\ Possible(sch, x)} :
          \E ending \in SUBSET Active(ScheduleWaiting(sch, m.bad)) :
          \E d \in {NoRound} \cup (IF Weight(m) = 0 THEN RoundsNow(ending) ELSE {}) :
          \E res \in {Step(sch, m, ending, d)} : ~ res.raised /\ sch' = res.s
    BY <1>5 DEF StepOnce
  <2>2. PICK ending \in SUBSET Active(ScheduleWaiting(sch, m.bad)) :
          \E d \in {NoRound} \cup (IF Weight(m) = 0 THEN RoundsNow(ending) ELSE {}) :
          \E res \in {Step(sch, m, ending, d)} : ~ res.raised /\ sch' = res.s
    BY <2>1
  <2>3. PICK d \in {NoRound} \cup (IF Weight(m) = 0 THEN RoundsNow(ending) ELSE {}) :
          ~ Step(sch, m, ending, d).raised /\ sch' = Step(sch, m, ending, d).s
    BY <2>2
  <2>4. m \in Mishaps /\ ~ m.create
    BY <2>1
  <2>5. Active(ScheduleWaiting(sch, m.bad)) \subseteq Requests
    <3> DEFINE first == ScheduleWaiting(sch, m.bad)
    <3>1. Sound(first, Seen(sch))
      BY <1>1, ScheduleWaitingSound
    <3> HIDE DEF first
    <3>2. Active(first) \subseteq Requests
      BY <3>1, ListsOf DEF Sound
    <3> QED BY <3>2 DEF first
  <2>6. ending \in SUBSET Requests /\ d \in Rounds \cup {NoRound}
    BY <2>3, <2>5 DEF RoundsNow
  <2> DEFINE res == Step(sch, m, ending, d)
  <2>7. /\ Len(res.s.running) <= MaxNumSeqs
        /\ \A i, j \in 1 .. Len(sch.waiting) :
             i < j /\ sch.waiting[j] \in Active(res.s) => sch.waiting[i] \notin Queued(res.s)
    BY <1>1, <2>3, <2>4, <2>6, StepKeepsOrder
  <2>8. sch' = res.s
    BY <2>3
  <2> HIDE DEF res
  <2> QED BY <2>7, <2>8 DEF Orderly
<1>6. CASE UNCHANGED <<sch, faults>>
  BY <1>2, <1>6
<1> QED
  BY <1>3, <1>4, <1>5, <1>6 DEF SchedulerNext

\* No step starts a request while one that is in front of it in the queue goes
\* on waiting (NoOvertaking; step, _schedule_waiting and the retries with
\* _reschedule_running_requests), however many are put back or cannot be
\* inserted.
THEOREM SchedulerKeepsOrder == SchedulerSpec => NoOvertaking
<1> DEFINE InOrder == \A i, j \in 1 .. Len(sch.waiting) :
                      i < j /\ sch'.uid[sch.waiting[j]] # None =>
                        sch.waiting[i] \notin ToSet(sch'.waiting)
<1>1. SchedulerInit => OrderIInv
  <2> SUFFICES ASSUME SchedulerInit PROVE OrderIInv
    OBVIOUS
  <2>1. sch.running = << >>
    BY DEF SchedulerInit, EmptyScheduler
  <2> QED BY <2>1, SchedulerInitSound, Constants DEF OrderIInv
<1>2. OrderIInv /\ [SchedulerNext]_<<sch, faults>> => OrderIInv'
  BY SchedulerStepSound, SchedulerOrderly DEF OrderIInv, Orderly
<1>3. OrderIInv /\ [SchedulerNext]_<<sch, faults>> => [InOrder]_<<sch, faults>>
  <2> SUFFICES ASSUME OrderIInv, [SchedulerNext]_<<sch, faults>>
               PROVE  InOrder
    OBVIOUS
  <2>1. SchedulerIInv' /\ Orderly(sch, sch')
    BY SchedulerStepSound, SchedulerOrderly DEF OrderIInv
  <2>2. \A j \in 1 .. Len(sch.waiting) :
          sch'.uid[sch.waiting[j]] # None => sch.waiting[j] \in Active(sch')
    <3>1. \A j \in 1 .. Len(sch.waiting) : sch.waiting[j] \in Requests
      BY ListsOf, ElementOfSeq DEF OrderIInv, SchedulerIInv, Sound
    <3>2. \A r \in Requests : sch'.uid[r] # None <=> r \in Active(sch')
      BY <2>1 DEF SchedulerIInv, Sound, Mapped
    <3> QED BY <3>1, <3>2
  <2> QED BY <2>1, <2>2 DEF Orderly, Queued
<1> QED
  BY <1>1, <1>2, <1>3, PTL DEF SchedulerSpec, NoOvertaking

-----------------------------------------------------------------------------
\* The engine: the inductive invariant.

\* The requests that add_request was called for.
Added == {r \in Requests : task[r].phase # "none"}

\* Why a consumer ended.
Reasons == {"none", "stop", "length", "error", "aborted", "raised", "rejected",
            "left"}

Tasks == [kind : {"none", "stream", "generate"}, phase : {"none", "active", "done"},
          got : Seq(1 .. Most), reason : Reasons]

Streams == [sent : 0 .. Most, pending : Seq(1 .. Most)]

EngineTyped ==
  /\ faults \in 0 .. MaxFaults
  /\ loop \in {"run", "backoff", "cancelled", "dying", "ended", "closed"}
  /\ reg \subseteq Added
  /\ buffer \in [Requests -> Outs \cup {None}]
  /\ event \in [Requests -> BOOLEAN]
  /\ stream \in [Requests -> Streams]
  /\ task \in [Requests -> Tasks]

\* A request that was not added has no token.
Untold == \A r \in Requests : task[r].phase = "none" => sch.made[r] = 0

EngineIInv ==
  /\ EngineTyped /\ Sound(sch, Added) /\ Untold
  /\ \A r \in sch.known : r \in reg /\ Waiting(r)

\* The requests in one of the scheduler's lists.
Listed == Queued(sch) \cup Active(sch)

\* 1, 2, ... without a gap.
Counting(s) == \A i \in 1 .. Len(s) : s[i] = i

Natural(reason) == reason \in {"stop", "length"}

\* What is on its way to a consumer, and what has arrived.
Conveyed(r) ==
  /\ Counting(Pipeline(r))
  /\ r \in reg /\ Waiting(r) => Len(Pipeline(r)) = sch.made[r]
  /\ r \in reg /\ r \in Listed => Waiting(r)
  /\ task[r].phase = "none" =>
       task[r].got = << >> /\ buffer[r] = None /\ stream[r].pending = << >>
  /\ Generating(r) => task[r].got = << >>
  /\ buffer[r] # None /\ Natural(buffer[r].reason) =>
       /\ r \notin Listed /\ stream[r].pending = << >>
       /\ Len(Pipeline(r)) = sch.made[r]
  /\ Natural(task[r].reason) =>
       /\ task[r].phase = "done" /\ r \notin Listed
       /\ Len(task[r].got) = sch.made[r]

DeliveredIInv == EngineIInv /\ \A r \in Requests : Conveyed(r)

-----------------------------------------------------------------------------
\* The scheduler under the engine.

\* What aborts may do: s becomes t.
Thinned(s, t) ==
  /\ t.known \subseteq s.known /\ t.made = s.made
  /\ Queued(t) \cup Active(t) \subseteq Queued(s) \cup Active(s)

\* abort_request for one after the other of a list of requests, up to one
\* that fails.
LEMMA AbortAllSound ==
  ASSUME NEW s, NEW K, Sound(s, K), NEW rs \in Seq(Requests), NEW failing
  PROVE  Sound(AbortAll(s, rs, failing), K) /\ Thinned(s, AbortAll(s, rs, failing))
<1> DEFINE N == Len(rs)
           X == {st \in [s : Schedulers, stop : BOOLEAN] :
                   Sound(st.s, K) /\ Thinned(s, st.s)}
           x0 == [s |-> s, stop |-> FALSE]
           H == [n \in 1 .. N |-> [st \in X |-> AbortNext(st, rs[n], failing)]]
           f == CHOOSE f : f = [n \in 0 .. N |->
                  IF n = 0 THEN x0 ELSE AbortNext(f[n - 1], rs[n], failing)]
<1>1. N \in Nat /\ \A n \in 1 .. N : rs[n] \in Requests
  BY LenProperties, ElementOfSeq
<1>2. x0 \in X
  BY DEF Sound, Thinned
<1>3. \A st \in X, r \in Requests : AbortNext(st, r, failing) \in X
  <2> SUFFICES ASSUME NEW st \in X, NEW r \in Requests
               PROVE  AbortNext(st, r, failing) \in X
    OBVIOUS
  <2>1. CASE st.stop
    BY <2>1 DEF AbortNext
  <2>2. CASE ~ st.stop
    <3> DEFINE b == r = failing
               t == Abort(st.s, r, b)
    <3>1. b \in BOOLEAN
      OBVIOUS
    <3>2. Sound(t, K) /\ Dropped(st.s, t, r)
      <4> HIDE DEF b
      <4> QED BY <3>1, AbortSound
    <3>3. AbortNext(st, r, failing) = [s |-> t, stop |-> b]
      BY <2>2 DEF AbortNext
    <3> HIDE DEF t, b
    <3>4. t \in Schedulers /\ Thinned(s, t)
      BY <3>2 DEF Sound, Dropped, Thinned
    <3> QED BY <3>1, <3>2, <3>3, <3>4
  <2> QED BY <2>1, <2>2
<1>4. H \in StepsIn(X, N)
  <2> HIDE DEF X, N
  <2> QED BY <1>1, <1>3 DEF StepsIn
<1>5. PICK g : Iterates(X, N, x0, H, g)
  <2> HIDE DEF X, N, x0, H
  <2> QED BY <1>1, <1>2, <1>4, Iteration
<1>6. g = [n \in 0 .. N |-> IF n = 0 THEN x0 ELSE AbortNext(g[n - 1], rs[n], failing)]
  <2>1. /\ g \in [0 .. N -> X] /\ g[0] = x0
        /\ \A n \in 1 .. N : g[n] = H[n][g[n - 1]]
    <3> HIDE DEF X, N, x0, H
    <3> QED BY <1>5 DEF Iterates
  <2>2. \A n \in 1 .. N : g[n] = AbortNext(g[n - 1], rs[n], failing)
    <3> SUFFICES ASSUME NEW n \in 1 .. N
                 PROVE  g[n] = AbortNext(g[n - 1], rs[n], failing)
      OBVIOUS
    <3> HIDE DEF X, N, x0
    <3>1. n - 1 \in 0 .. N
      BY <1>1
    <3>2. g[n - 1] \in X
      BY <2>1, <3>1
    <3> QED BY <2>1, <3>2
  <2>3. \A n \in 0 .. N : n # 0 => n \in 1 .. N
    BY <1>1
  <2> HIDE DEF X, N, x0, H
  <2> QED BY <2>1, <2>2, <2>3
<1>7. f = [n \in 0 .. N |-> IF n = 0 THEN x0 ELSE AbortNext(f[n - 1], rs[n], failing)]
  <2> HIDE DEF X, N, x0, H
  <2> QED BY <1>6 DEF f
<1>8. AbortAll(s, rs, failing) = f[N].s
  BY DEF AbortAll
<1> DEFINE G == {n \in 0 .. N : f[n] \in X}
<1>9. 0 \in G /\ \A n \in 1 .. N : n - 1 \in G => n \in G
  <2> HIDE DEF X, N, x0, f
  <2>1. f[0] = x0 /\ 0 \in 0 .. N
    BY <1>1, <1>7
  <2>2. \A n \in 1 .. N : f[n] = AbortNext(f[n - 1], rs[n], failing) /\ n \in 0 .. N
    BY <1>1, <1>7
  <2> QED BY <1>1, <1>2, <1>3, <2>1, <2>2
<1>10. N \in G
  <2> HIDE DEF G, N
  <2>1. \A n \in 0 .. N : n \in G
    BY <1>1, <1>9, UpTo
  <2> QED BY <1>1, <2>1
<1>11. f[N] \in X
  BY <1>10
<1> HIDE DEF f, N
<1> QED
  BY <1>8, <1>11
\* The running requests without a collector are aborted.
LEMMA ReapSound ==
  ASSUME NEW s, NEW K, Sound(s, K)
  PROVE  Sound(Reap(s), K) /\ Thinned(s, Reap(s))
<1> DEFINE rs == s.running
           N == Len(rs)
           X == {st \in Schedulers : Sound(st, K) /\ Thinned(s, st)}
           x0 == s
           H == [n \in 1 .. N |-> [st \in X |-> ReapOne(st, rs[n])]]
           f == CHOOSE f : f = [n \in 0 .. N |->
                  IF n = 0 THEN x0 ELSE ReapOne(f[n - 1], rs[n])]
<1>12. rs \in Seq(Requests)
  BY ListsOf DEF Sound
<1>1. N \in Nat /\ \A n \in 1 .. N : rs[n] \in Requests
  <2> HIDE DEF rs
  <2> QED BY <1>12, LenProperties, ElementOfSeq
<1>2. x0 \in X
  BY DEF Sound, Thinned
<1>3. \A st \in X, r \in Requests : ReapOne(st, r) \in X
  <2> SUFFICES ASSUME NEW st \in X, NEW r \in Requests
               PROVE  ReapOne(st, r) \in X
    OBVIOUS
  <2> DEFINE t == Abort(st, r, FALSE)
  <2>1. Sound(t, K) /\ Dropped(st, t, r)
    BY AbortSound
  <2>2. ReapOne(st, r) \in {st, t}
    BY DEF ReapOne
  <2> HIDE DEF t
  <2>3. t \in Schedulers /\ Thinned(s, t)
    BY <2>1 DEF Sound, Dropped, Thinned
  <2> QED BY <2>1, <2>2, <2>3
<1>4. H \in StepsIn(X, N)
  <2> HIDE DEF X, N
  <2> QED BY <1>1, <1>3 DEF StepsIn
<1>5. PICK g : Iterates(X, N, x0, H, g)
  <2> HIDE DEF X, N, x0, H
  <2> QED BY <1>1, <1>2, <1>4, Iteration
<1>6. g = [n \in 0 .. N |-> IF n = 0 THEN x0 ELSE ReapOne(g[n - 1], rs[n])]
  <2>1. /\ g \in [0 .. N -> X] /\ g[0] = x0
        /\ \A n \in 1 .. N : g[n] = H[n][g[n - 1]]
    <3> HIDE DEF X, N, x0, H
    <3> QED BY <1>5 DEF Iterates
  <2>2. \A n \in 1 .. N : g[n] = ReapOne(g[n - 1], rs[n])
    <3> SUFFICES ASSUME NEW n \in 1 .. N
                 PROVE  g[n] = ReapOne(g[n - 1], rs[n])
      OBVIOUS
    <3> HIDE DEF X, N, x0
    <3>1. n - 1 \in 0 .. N
      BY <1>1
    <3>2. g[n - 1] \in X
      BY <2>1, <3>1
    <3> QED BY <2>1, <3>2
  <2>3. \A n \in 0 .. N : n # 0 => n \in 1 .. N
    BY <1>1
  <2> HIDE DEF X, N, x0, H
  <2> QED BY <2>1, <2>2, <2>3
<1>7. f = [n \in 0 .. N |-> IF n = 0 THEN x0 ELSE ReapOne(f[n - 1], rs[n])]
  <2> HIDE DEF X, N, x0, H
  <2> QED BY <1>6 DEF f
<1>8. Reap(s) = f[N]
  BY DEF Reap
<1> DEFINE G == {n \in 0 .. N : f[n] \in X}
<1>9. 0 \in G /\ \A n \in 1 .. N : n - 1 \in G => n \in G
  <2> HIDE DEF X, N, x0, f
  <2>1. f[0] = x0 /\ 0 \in 0 .. N
    BY <1>1, <1>7
  <2>2. \A n \in 1 .. N : f[n] = ReapOne(f[n - 1], rs[n]) /\ n \in 0 .. N
    BY <1>1, <1>7
  <2> QED BY <1>1, <1>2, <1>3, <2>1, <2>2
<1>10. N \in G
  <2> HIDE DEF G, N
  <2>1. \A n \in 0 .. N : n \in G
    BY <1>1, <1>9, UpTo
  <2> QED BY <1>1, <2>1
<1>11. f[N] \in X
  BY <1>10
<1> HIDE DEF f, N
<1> QED
  BY <1>8, <1>11
\* reset.
LEMMA ResetSound ==
  ASSUME NEW s, NEW K, Sound(s, K), NEW t, t = ResetAll(s)
  PROVE  /\ Sound(t, K) /\ Thinned(s, t)
         /\ t.known = {} /\ Queued(t) \cup Active(t) = {}
<1>1. s \in Schedulers /\ IsScheduler(s) /\ SchedulerTyped(s)
  BY SchedulerFields DEF Sound
<1> DEFINE e == [EmptyScheduler EXCEPT !.hybrid = s.hybrid]
<1>2. Sound(e, K)
  <2>1. s.hybrid \in BOOLEAN /\ K \in SUBSET Requests
    BY <1>1 DEF SchedulerTyped, Sound, Counted
  <2> QED BY <2>1, EmptySound
<1>3. /\ t.waiting = << >> /\ t.running = << >> /\ t.known = {}
      /\ t.uid = e.uid /\ t.owner = e.owner /\ t.gen = e.gen
      /\ t.made = s.made /\ t.cached = s.cached /\ t.fed = e.fed
      /\ t.hurt = {} /\ t.hybrid = s.hybrid /\ t.added = s.added
      /\ e.waiting = << >> /\ e.running = << >>
      /\ IsScheduler(t)
  BY DEF ResetAll, EmptyScheduler, IsScheduler
<1>4. e \in Schedulers /\ SchedulerTyped(e)
  BY <1>2, SchedulerFields DEF Sound
<1> HIDE DEF e
<1>5. t \in Schedulers
  <2>1. SchedulerTyped(t)
    <3>1. t.waiting \in Seq(Requests) /\ t.running \in Seq(Requests)
      BY <1>3, EmptySeq
    <3> QED BY <1>1, <1>3, <1>4, <3>1 DEF SchedulerTyped
  <2> QED BY <1>3, <2>1, SchedulerFields
<1>6. /\ Queued(t) = {} /\ Active(t) = {} /\ Working(t) = Working(e)
      /\ Queued(e) = {} /\ Active(e) = {}
  BY <1>3 DEF Queued, Active, Working, ToSet
<1>7. Placed(t) /\ Mapped(t) /\ Live(t)
  <2>1. Placed(e) /\ Mapped(e) /\ Live(e)
    BY <1>2 DEF Sound
  <2>2. Placed(t)
    BY <1>3, <1>6, <2>1 DEF Placed
  <2>3. Mapped(t)
    BY <1>3, <1>6, <2>1 DEF Mapped
  <2> QED BY <1>3, <2>2, <2>3 DEF Live
<1>8. Worked(t)
  <2>1. Worked(e)
    BY <1>2 DEF Sound
  <2>2. {t.uid[r] : r \in Active(t)} = {e.uid[r] : r \in Active(e)}
    BY <1>6
  <2> QED BY <1>3, <1>6, <2>1, <2>2 DEF Worked
<1>9. Counted(t, K)
  <2>1. Counted(e, K)
    BY <1>2 DEF Sound
  <2>2. Started(t, K) = Started(e, K)
    BY <1>6 DEF Started
  <2> QED BY <1>3, <1>6, <2>1, <2>2 DEF Counted
<1>10. Bounded(t) /\ Held(t, Served(t))
  BY <1>6 DEF Bounded, Held, Served
<1>11. Fresh(t)
  <2>1. \A r \in Requests : s.made[r] = 0 => s.cached[r] = 0
    BY DEF Sound, Fresh
  <2>2. \A r \in Requests : t.fed[r] = 0
    <3>1. e.fed = [r \in Requests |-> 0]
      BY DEF e, EmptyScheduler
    <3> QED BY <1>3, <3>1
  <2> QED BY <1>3, <1>6, <2>1, <2>2 DEF Fresh
<1> QED
  BY <1>3, <1>5, <1>6, <1>7, <1>8, <1>9, <1>10, <1>11 DEF Sound, Thinned

-----------------------------------------------------------------------------
\* The engine's actions.

\* What may become of the scheduler: its lists and what it knows only shrink.
LEMMA ThinnedKeeps ==
  ASSUME NEW s, NEW t, Thinned(s, t), NEW u, Thinned(t, u)
  PROVE  Thinned(s, u)
BY DEF Thinned

\* MayBreak counts the fault.
LEMMA MayBreakType ==
  ASSUME NEW r, NEW broken \in MayBreak(r), faults \in 0 .. MaxFaults
  PROVE  /\ broken \in BOOLEAN
         /\ (IF broken THEN faults + 1 ELSE faults) \in 0 .. MaxFaults
<1>1. MaxFaults \in Nat
  BY Constants
<1>2. broken \in BOOLEAN /\ (broken => faults < MaxFaults)
  BY DEF MayBreak
<1> QED
  BY <1>1, <1>2

\* _cleanup_request.
LEMMA CleanupRequestSound ==
  ASSUME EngineIInv, NEW r \in Requests, NEW broken \in MayBreak(r),
         CleanupRequest(r, broken)
  PROVE  /\ Sound(sch', Added) /\ Thinned(sch, sch')
         /\ sch'.known = sch.known \ {r}
         /\ reg' = reg \ {r} /\ faults' \in 0 .. MaxFaults
<1>1. Sound(sch, Added) /\ faults \in 0 .. MaxFaults
  BY DEF EngineIInv, EngineTyped
<1>2. /\ broken \in BOOLEAN
      /\ (IF broken THEN faults + 1 ELSE faults) \in 0 .. MaxFaults
  BY <1>1, MayBreakType
<1> DEFINE t == Abort(sch, r, broken)
<1>3. sch' = t /\ reg' = reg \ {r} /\ faults' = (IF broken THEN faults + 1 ELSE faults)
  BY DEF CleanupRequest, Cleaned
<1>4. Sound(t, Added) /\ Dropped(sch, t, r)
  BY <1>1, <1>2, AbortSound
<1> HIDE DEF t
<1>5. Thinned(sch, t) /\ t.known = sch.known \ {r}
  BY <1>4 DEF Dropped, Thinned
<1> QED
  BY <1>2, <1>3, <1>4, <1>5

\* The part of the invariant that is about tasks and scheduler, for a step
\* that begins and ends no task.
LEMMA SameTasks ==
  ASSUME EngineIInv, task' = task, reg' = reg,
         Sound(sch', Added),
         \A r \in Requests : task[r].phase = "none" => sch'.made[r] = 0,
         sch'.known \subseteq sch.known, EngineTyped'
  PROVE  EngineIInv'
<1>1. Added' = Added
  BY DEF Added
<1>2. Untold'
  BY DEF Untold
<1>3. \A r \in Requests : (r \in reg /\ Waiting(r))' <=> r \in reg /\ Waiting(r)
  BY DEF Waiting, Streaming, Generating
<1>4. sch'.known \subseteq Requests
  BY SchedulerFields DEF Sound, SchedulerTyped
<1>5. \A r \in sch'.known : (r \in reg /\ Waiting(r))'
  BY <1>3, <1>4 DEF EngineIInv
<1> QED
  BY <1>1, <1>2, <1>5 DEF EngineIInv, Added

\* The end of a consumer.
LEMMA FinishSound ==
  ASSUME EngineIInv, NEW r \in Requests, Waiting(r),
         NEW got \in Seq(1 .. Most), NEW reason \in Reasons,
         NEW broken \in MayBreak(r), Finish(r, got, reason, broken)
  PROVE  EngineIInv'
<1>1. /\ Sound(sch', Added) /\ Thinned(sch, sch')
      /\ sch'.known = sch.known \ {r}
      /\ reg' = reg \ {r} /\ faults' \in 0 .. MaxFaults
  BY CleanupRequestSound DEF Finish
<1>2. /\ task' = [task EXCEPT ![r].phase = "done", ![r].got = got,
                              ![r].reason = reason]
      /\ buffer' = [buffer EXCEPT ![r] = None]
      /\ stream' = [stream EXCEPT ![r] = FreshStream]
      /\ event' = [event EXCEPT ![r] = FALSE]
      /\ loop' = loop
  BY DEF Finish
<1>3. /\ task \in [Requests -> Tasks] /\ reg \subseteq Added
      /\ buffer \in [Requests -> Outs \cup {None}] /\ event \in [Requests -> BOOLEAN]
      /\ stream \in [Requests -> Streams]
  BY DEF EngineIInv, EngineTyped
<1> DEFINE new == [task[r] EXCEPT !.phase = "done", !.got = got, !.reason = reason]
<1>4. /\ new \in Tasks /\ task' = [task EXCEPT ![r] = new]
      /\ new.phase = "done"
  <2>1. task[r] \in Tasks
    BY <1>3
  <2>2. task' = [task EXCEPT ![r] = new]
    BY <1>2, <1>3
  <2>3. new.phase = "done"
    BY <2>1 DEF Tasks
  <2>4. new \in Tasks
    BY <2>1 DEF Tasks, Reasons
  <2> QED BY <2>2, <2>3, <2>4
<1> HIDE DEF new
<1>5. /\ task' \in [Requests -> Tasks]
      /\ \A q \in Requests : task'[q] = IF q = r THEN new ELSE task[q]
  BY <1>3, <1>4
<1>6. task[r].phase # "none"
  BY DEF Waiting, Streaming, Generating
<1>7. Added' = Added
  BY <1>4, <1>5, <1>6 DEF Added
<1>8. EngineTyped'
  <2>1. FreshStream \in Streams
    BY Constants, EmptySeq DEF FreshStream, Streams
  <2>2. stream' \in [Requests -> Streams]
    BY <1>2, <1>3, <2>1
  <2>3. /\ buffer' \in [Requests -> Outs \cup {None}]
        /\ event' \in [Requests -> BOOLEAN] /\ loop' = loop
    BY <1>2, <1>3
  <2>4. reg' \subseteq Added'
    BY <1>1, <1>3, <1>7
  <2>5. loop \in {"run", "backoff", "cancelled", "dying", "ended", "closed"}
    BY DEF EngineIInv, EngineTyped
  <2> QED BY <1>1, <1>5, <2>2, <2>3, <2>4, <2>5 DEF EngineTyped
<1>9. Untold'
  <2> SUFFICES ASSUME NEW q \in Requests, task'[q].phase = "none"
               PROVE  sch'.made[q] = 0
    BY DEF Untold
  <2>1. task[q].phase = "none"
    BY <1>4, <1>5
  <2> QED BY <1>1, <2>1 DEF EngineIInv, Untold, Thinned
<1>10. \A q \in sch'.known : (q \in reg /\ Waiting(q))'
  <2> SUFFICES ASSUME NEW q \in sch'.known
               PROVE  (q \in reg /\ Waiting(q))'
    OBVIOUS
  <2>1. q \in sch.known /\ q # r
    BY <1>1
  <2>2. q \in reg /\ Waiting(q)
    BY <2>1 DEF EngineIInv
  <2>3. q \in Requests
    BY <1>3, <2>2 DEF Added
  <2>4. task'[q] = task[q]
    BY <1>5, <2>1, <2>3
  <2> QED BY <1>1, <2>1, <2>2, <2>4 DEF Waiting, Streaming, Generating
<1> QED
  BY <1>1, <1>7, <1>8, <1>9, <1>10 DEF EngineIInv, Added

\* What Put leaves in a collector.
LEMMA PutType ==
  ASSUME NEW old \in Outs \cup {None}, NEW o \in Outs
  PROVE  Put(old, o) \in Outs
<1>1. CASE old = None
  BY <1>1 DEF Put
<1>2. CASE old # None
  <2>1. /\ old.toks \in Seq(1 .. Most) /\ o.toks \in Seq(1 .. Most)
        /\ o.finished \in BOOLEAN
    BY <1>2 DEF Outs
  <2>2. old.toks \o o.toks \in Seq(1 .. Most)
    BY <2>1, ConcatProperties
  <2> DEFINE both == old.toks \o o.toks
  <2>3. Put(old, o) = [toks |-> both, finished |-> o.finished, reason |-> o.reason]
    BY <1>2 DEF Put, Output
  <2> HIDE DEF both
  <2> QED BY <2>1, <2>2, <2>3 DEF Outs, both
<1> QED
  BY <1>1, <1>2

LEMMA OutputType ==
  ASSUME NEW toks \in Seq(1 .. Most), NEW finished \in BOOLEAN,
         NEW reason \in {"none", "stop", "length", "error", "aborted", "raised"}
  PROVE  /\ Output(toks, finished, reason) \in Outs
         /\ Output(toks, finished, reason).toks = toks
         /\ Output(toks, finished, reason).reason = reason
BY DEF Output, Outs

\* Every step of a client keeps the invariant.
LEMMA ClientSound ==
  ASSUME EngineIInv, NEW r \in Requests, Client(r)
  PROVE  EngineIInv'
<1>1. /\ task \in [Requests -> Tasks] /\ reg \subseteq Added
      /\ buffer \in [Requests -> Outs \cup {None}] /\ event \in [Requests -> BOOLEAN]
      /\ stream \in [Requests -> Streams] /\ faults \in 0 .. MaxFaults
      /\ loop \in {"run", "backoff", "cancelled", "dying", "ended", "closed"}
  BY DEF EngineIInv, EngineTyped
<1>2. Sound(sch, Added)
  BY DEF EngineIInv
<1>3. ASSUME NEW kind \in {"stream", "generate"}, AddRequest(r, kind)
      PROVE  EngineIInv'
  <2> DEFINE new == [task[r] EXCEPT !.kind = kind, !.phase = "active"]
             t == Enqueue(sch, r)
  <2>1. new \in Tasks /\ new.phase = "active" /\ new.kind = kind
    <3>1. task[r] \in Tasks
      BY <1>1
    <3> QED BY <3>1 DEF Tasks
  <2>2. task' = [task EXCEPT ![r] = new]
    BY <1>1, <1>3 DEF AddRequest
  <2> HIDE DEF new
  <2>3. /\ task' \in [Requests -> Tasks]
        /\ \A q \in Requests : task'[q] = IF q = r THEN new ELSE task[q]
    BY <1>1, <2>1, <2>2
  <2>4. Added' = Added \cup {r} /\ r \notin Added
    BY <1>3, <2>1, <2>3 DEF Added, AddRequest
  <2>5. r \notin sch.known /\ sch.made[r] = 0
    BY <1>1, <2>4 DEF EngineIInv, Untold, Added
  <2>6. /\ Sound(t, Added \cup {r})
        /\ t.known = sch.known \cup {r} /\ t.made = sch.made
    BY <1>2, <2>4, <2>5, EnqueueSound
  <2>7. sch' = t /\ reg' = reg \cup {r}
    BY <1>3 DEF AddRequest
  <2> HIDE DEF t
  <2>8. Sound(sch', Added') /\ sch'.known = sch.known \cup {r} /\ sch'.made = sch.made
    BY <2>4, <2>6, <2>7
  <2>9. EngineTyped'
    <3>1. reg' \subseteq Added'
      BY <1>1, <2>4, <2>7
    <3>2. UNCHANGED <<faults, loop, buffer, event, stream>>
      BY <1>3 DEF AddRequest
    <3> QED BY <1>1, <2>3, <3>1, <3>2 DEF EngineTyped
  <2>10. Untold'
    <3> SUFFICES ASSUME NEW q \in Requests, task'[q].phase = "none"
                 PROVE  sch'.made[q] = 0
      BY DEF Untold
    <3>1. task[q].phase = "none"
      BY <2>1, <2>3
    <3> QED BY <2>8, <3>1 DEF EngineIInv, Untold
  <2>11. \A q \in sch'.known : (q \in reg /\ Waiting(q))'
    <3> SUFFICES ASSUME NEW q \in sch'.known
                 PROVE  (q \in reg /\ Waiting(q))'
      OBVIOUS
    <3>1. CASE q = r
      BY <2>1, <2>3, <2>7, <3>1 DEF Waiting, Streaming, Generating
    <3>2. CASE q # r
      <4>1. q \in reg /\ Waiting(q)
        BY <2>8, <3>2 DEF EngineIInv
      <4>2. task'[q] = task[q]
        BY <1>1, <2>3, <3>2, <4>1 DEF Added
      <4> QED BY <2>7, <4>1, <4>2 DEF Waiting, Streaming, Generating
    <3> QED BY <3>1, <3>2
  <2> QED BY <2>8, <2>9, <2>10, <2>11 DEF EngineIInv, Added
<1>4. ASSUME NEW kind \in {"stream", "generate"}, AddRejected(r, kind)
      PROVE  EngineIInv'
  <2> DEFINE new == [task[r] EXCEPT !.kind = kind, !.phase = "done",
                                    !.reason = "rejected"]
  <2>1. new \in Tasks /\ new.phase = "done"
    <3>1. task[r] \in Tasks
      BY <1>1
    <3> QED BY <3>1 DEF Tasks, Reasons
  <2>2. task' = [task EXCEPT ![r] = new]
    BY <1>1, <1>4 DEF AddRejected
  <2> HIDE DEF new
  <2>3. /\ task' \in [Requests -> Tasks]
        /\ \A q \in Requests : task'[q] = IF q = r THEN new ELSE task[q]
    BY <1>1, <2>1, <2>2
  <2>4. Added' = Added \cup {r} /\ r \notin Added
    BY <1>4, <2>1, <2>3 DEF Added, AddRejected
  <2>5. r \notin sch.known
    BY <1>1, <2>4 DEF EngineIInv, Added
  <2>6. sch' = sch /\ reg' = reg \cup {r}
        /\ UNCHANGED <<faults, loop, buffer, event, stream>>
    BY <1>4 DEF AddRejected
  <2>7. Sound(sch, Added \cup {r})
    <3> DEFINE L == Added \cup {r}
    <3>1. Queued(sch) \cup Active(sch) \subseteq L /\ Started(sch, Added) \subseteq L
      BY <1>2 DEF Sound, Counted, Started
    <3>2. L \subseteq Requests
      BY DEF Added
    <3> HIDE DEF L
    <3>3. Sound(sch, L)
      BY <1>2, <3>1, <3>2, Recounted
    <3> QED BY <3>3 DEF L
  <2>8. Sound(sch', Added')
    BY <2>4, <2>6, <2>7
  <2>9. EngineTyped'
    <3>1. reg' \subseteq Added'
      BY <1>1, <2>4, <2>6
    <3> QED BY <1>1, <2>3, <2>6, <3>1 DEF EngineTyped
  <2>10. Untold'
    <3> SUFFICES ASSUME NEW q \in Requests, task'[q].phase = "none"
                 PROVE  sch'.made[q] = 0
      BY DEF Untold
    <3>1. task[q].phase = "none"
      BY <2>1, <2>3
    <3> QED BY <2>6, <3>1 DEF EngineIInv, Untold
  <2>11. \A q \in sch'.known : (q \in reg /\ Waiting(q))'
    <3> SUFFICES ASSUME NEW q \in sch.known
                 PROVE  (q \in reg /\ Waiting(q))'
      BY <2>6
    <3>1. q \in reg /\ Waiting(q) /\ q # r
      BY <2>5 DEF EngineIInv
    <3>2. task'[q] = task[q]
      BY <1>1, <2>3, <3>1 DEF Added
    <3> QED BY <2>6, <3>1, <3>2 DEF Waiting, Streaming, Generating
  <2> QED BY <2>8, <2>9, <2>10, <2>11 DEF EngineIInv, Added
<1>5. ASSUME StreamGet(r)
      PROVE  EngineIInv'
  <2> DEFINE o == buffer[r]
             got == task[r].got \o o.toks
  <2>1. Streaming(r) /\ o # None /\ o \in Outs
    BY <1>1, <1>5 DEF StreamGet
  <2>2. o.toks \in Seq(1 .. Most) /\ task[r].got \in Seq(1 .. Most)
    <3>1. task[r] \in Tasks
      BY <1>1
    <3> HIDE DEF o
    <3> QED BY <2>1, <3>1 DEF Outs, Tasks
  <2>3. got \in Seq(1 .. Most)
    <3> HIDE DEF o
    <3> QED BY <2>2, ConcatProperties
  <2>4. CASE o.finished
    <3>1. PICK broken \in MayBreak(r) : Finish(r, got, o.reason, broken)
      BY <1>5, <2>4 DEF StreamGet
    <3>2. o.reason \in Reasons /\ Waiting(r)
      <4> HIDE DEF o
      <4> QED BY <2>1 DEF Outs, Reasons, Waiting
    <3> HIDE DEF got, o
    <3> QED BY <2>3, <3>1, <3>2, FinishSound
  <2>5. CASE ~ o.finished
    <3>1. /\ buffer' = [buffer EXCEPT ![r] = None]
          /\ task' = [task EXCEPT ![r].got = got]
          /\ UNCHANGED <<sch, faults, loop, reg, event, stream>>
      BY <1>5, <2>5 DEF StreamGet
    <3> DEFINE new == [task[r] EXCEPT !.got = got]
    <3> HIDE DEF got, o
    <3>2. new \in Tasks /\ new.phase = task[r].phase /\ new.kind = task[r].kind
      <4>1. task[r] \in Tasks
        BY <1>1
      <4> QED BY <2>3, <4>1 DEF Tasks
    <3>3. task' = [task EXCEPT ![r] = new]
      BY <1>1, <3>1
    <3> HIDE DEF new
    <3>4. /\ task' \in [Requests -> Tasks]
          /\ \A q \in Requests : /\ task'[q].phase = task[q].phase
                                 /\ task'[q].kind = task[q].kind
      BY <1>1, <3>2, <3>3
    <3>5. Added' = Added
      BY <3>4 DEF Added
    <3>6. EngineTyped'
      BY <1>1, <3>1, <3>4, <3>5 DEF EngineTyped
    <3>7. Untold'
      BY <3>1, <3>4 DEF EngineIInv, Untold
    <3>8. \A q \in sch'.known : (q \in reg /\ Waiting(q))'
      <4> SUFFICES ASSUME NEW q \in sch.known
                   PROVE  (q \in reg /\ Waiting(q))'
        BY <3>1
      <4>1. q \in reg /\ Waiting(q) /\ q \in Requests
        BY <1>1 DEF EngineIInv, Added
      <4> QED BY <3>1, <3>4, <4>1 DEF Waiting, Streaming, Generating
    <3>9. Sound(sch', Added')
      BY <1>2, <3>1, <3>5
    <3> QED BY <3>6, <3>7, <3>8, <3>9 DEF EngineIInv, Added
  <2> QED BY <2>4, <2>5
<1>6. ASSUME GenerateReturn(r)
      PROVE  EngineIInv'
  <2> DEFINE there == r \in reg /\ buffer[r] # None
             got == IF there THEN buffer[r].toks ELSE << >>
             reason == IF there THEN buffer[r].reason ELSE "raised"
  <2>1. PICK broken \in MayBreak(r) : Finish(r, got, reason, broken)
    BY <1>6 DEF GenerateReturn
  <2>2. Waiting(r)
    BY <1>6 DEF GenerateReturn, Waiting
  <2>3. got \in Seq(1 .. Most) /\ reason \in Reasons
    BY <1>1, EmptySeq DEF Outs, Reasons
  <2> HIDE DEF got, reason
  <2> QED BY <2>1, <2>2, <2>3, FinishSound
<1>7. ASSUME Leave(r)
      PROVE  EngineIInv'
  <2>1. PICK broken \in MayBreak(r) : Finish(r, task[r].got, "left", broken)
    BY <1>7 DEF Leave
  <2>2. Waiting(r) /\ "left" \in Reasons
    BY <1>7 DEF Leave, Reasons
  <2>3. task[r].got \in Seq(1 .. Most)
    BY <1>1 DEF Tasks
  <2> QED BY <2>1, <2>2, <2>3, FinishSound
<1>8. ASSUME AbortRequest(r)
      PROVE  EngineIInv'
  <2> DEFINE o == Output(stream[r].pending, TRUE, "aborted")
             b == Put(buffer[r], o)
  <2>1. PICK broken \in MayBreak(r) : CleanupRequest(r, broken)
    BY <1>8 DEF AbortRequest
  <2>2. /\ Sound(sch', Added) /\ Thinned(sch, sch')
        /\ sch'.known = sch.known \ {r}
        /\ reg' = reg \ {r} /\ faults' \in 0 .. MaxFaults
    BY <2>1, CleanupRequestSound
  <2>3. b \in Outs
    <3>1. stream[r].pending \in Seq(1 .. Most)
      BY <1>1 DEF Streams
    <3>2. o \in Outs
      BY <3>1, OutputType
    <3> HIDE DEF o
    <3> QED BY <1>1, <3>2, PutType
  <2>4. /\ buffer' = [buffer EXCEPT ![r] = b]
        /\ stream' = [stream EXCEPT ![r] = FreshStream]
        /\ event' = [event EXCEPT ![r] = TRUE]
        /\ loop' = loop /\ task' = task
    BY <1>8 DEF AbortRequest
  <2> HIDE DEF b
  <2>5. FreshStream \in Streams
    BY Constants, EmptySeq DEF FreshStream, Streams
  <2>6. Added' = Added
    BY <2>4 DEF Added
  <2>7. EngineTyped'
    <3>1. stream' \in [Requests -> Streams] /\ buffer' \in [Requests -> Outs \cup {None}]
          /\ event' \in [Requests -> BOOLEAN]
      BY <1>1, <2>3, <2>4, <2>5
    <3>2. reg' \subseteq Added'
      BY <1>1, <2>2, <2>6
    <3> QED BY <1>1, <2>2, <2>4, <3>1, <3>2 DEF EngineTyped
  <2>8. Untold'
    BY <2>2, <2>4 DEF EngineIInv, Untold, Thinned
  <2>9. \A q \in sch'.known : (q \in reg /\ Waiting(q))'
    <3> SUFFICES ASSUME NEW q \in sch'.known
                 PROVE  (q \in reg /\ Waiting(q))'
      OBVIOUS
    <3>1. q \in reg /\ Waiting(q) /\ q # r
      BY <2>2 DEF EngineIInv
    <3> QED BY <2>2, <2>4, <3>1 DEF Waiting, Streaming, Generating
  <2>10. Sound(sch', Added')
    BY <2>2, <2>6
  <2> QED BY <2>7, <2>8, <2>9, <2>10 DEF EngineIInv, Added
<1> QED
  BY <1>3, <1>4, <1>5, <1>6, <1>7, <1>8 DEF Client

\* What the distribution of a step's outputs does for r: r's token goes to
\* the collector, waits in the stream state, or there is none.
Sent(r, tok, fin) ==
  /\ buffer'[r] = Put(buffer[r], Output(Append(stream[r].pending, tok),
                                        fin # "none", fin))
  /\ stream'[r] = [sent |-> tok, pending |-> << >>]

Kept(r, tok) ==
  /\ buffer'[r] = buffer[r]
  /\ stream'[r] = [stream[r] EXCEPT !.pending = Append(stream[r].pending, tok)]

Idle(r) == buffer'[r] = buffer[r] /\ stream'[r] = stream[r]

Passed(r, t) ==
  \E fin \in {"none", "stop", "length"} :
    /\ fin # "none" => r \notin Queued(t) \cup Active(t)
    /\ Sent(r, t.made[r], fin) \/ (fin = "none" /\ Kept(r, t.made[r]))

LEMMA DistributeFields ==
  ASSUME EngineTyped, NEW t \in Schedulers, NEW outs, NEW A \in SUBSET Requests,
         Answers(t, outs, A), Distribute(outs)
  PROVE  /\ \A r \in Requests : IF r \in reg \cap A THEN Passed(r, t) ELSE Idle(r)
         /\ \A r \in A : t.made[r] \in 1 .. Most
         /\ buffer' = [r \in Requests |-> buffer'[r]]
         /\ stream' = [r \in Requests |-> stream'[r]]
         /\ event' \in [Requests -> BOOLEAN]
<1> DEFINE has(r) == r \in reg /\ \E o \in ToSet(outs) : o.req = r
           out(r) == CHOOSE o \in ToSet(outs) : o.req = r
           sends(r) == has(r) /\ ShouldSend(r, out(r))
           toks(r) == Append(stream[r].pending, out(r).tok)
           done(r) == has(r) /\ out(r).finish # "none"
<1>1. /\ buffer' = [r \in Requests |->
           IF sends(r) THEN Put(buffer[r], Output(toks(r), done(r), out(r).finish))
           ELSE buffer[r]]
      /\ stream' = [r \in Requests |->
           IF sends(r) THEN [sent |-> out(r).tok, pending |-> << >>]
           ELSE IF has(r) THEN [stream[r] EXCEPT !.pending = toks(r)]
           ELSE stream[r]]
      /\ event' = [r \in Requests |-> event[r] \/ done(r)]
  BY DEF Distribute
<1>2. \A r \in Requests : has(r) <=> r \in reg \cap A
  BY DEF Answers
<1>3. \A r \in A : /\ out(r) \in ToSet(outs) /\ out(r).req = r
  BY DEF Answers
<1>4. \A r \in A :
        /\ out(r).tok = t.made[r] /\ out(r).tok > 0
        /\ out(r).finish \in {"none", "stop", "length"}
        /\ out(r).finish # "none" => r \notin Queued(t) \cup Active(t)
  <2> HIDE DEF out
  <2> QED BY <1>3 DEF Answers
<1>5. \A r \in A : t.made[r] \in 1 .. Most
  BY <1>4, Values, Constants
<1>6. event' \in [Requests -> BOOLEAN]
  <2>1. \A r \in Requests : (event[r] \/ done(r)) \in BOOLEAN
    BY DEF EngineTyped
  <2> HIDE DEF done
  <2> QED BY <1>1, <2>1
<1> HIDE DEF out
<1>7. ASSUME NEW r \in Requests, r \notin reg \cap A
      PROVE  Idle(r)
  BY <1>1, <1>2, <1>7 DEF Idle
<1>8. ASSUME NEW r \in Requests, r \in reg \cap A
      PROVE  Passed(r, t)
  <2> DEFINE fin == out(r).finish
  <2>1. /\ fin \in {"none", "stop", "length"} /\ out(r).tok = t.made[r]
        /\ fin # "none" => r \notin Queued(t) \cup Active(t)
    BY <1>4, <1>8
  <2>2. has(r)
    BY <1>2, <1>8
  <2>3. CASE ShouldSend(r, out(r))
    <3>1. sends(r) /\ (done(r) <=> fin # "none")
      BY <2>2, <2>3
    <3>2. buffer'[r] = Put(buffer[r], Output(toks(r), fin # "none", fin))
      <4>1. done(r) = (fin # "none")
        BY <3>1
      <4>2. buffer'[r] = Put(buffer[r], Output(toks(r), done(r), fin))
        BY <1>1, <3>1
      <4> HIDE DEF done, toks, fin
      <4> QED BY <4>1, <4>2
    <3>3. stream'[r] = [sent |-> out(r).tok, pending |-> << >>]
      BY <1>1, <3>1
    <3>4. Sent(r, t.made[r], fin)
      BY <2>1, <3>2, <3>3 DEF Sent
    <3> QED BY <2>1, <3>4 DEF Passed
  <2>4. CASE ~ ShouldSend(r, out(r))
    <3>1. fin = "none"
      BY <2>4 DEF ShouldSend
    <3>2. buffer'[r] = buffer[r] /\ stream'[r] = [stream[r] EXCEPT !.pending = toks(r)]
      BY <1>1, <2>2, <2>4
    <3>3. Kept(r, t.made[r])
      BY <2>1, <3>2 DEF Kept
    <3> QED BY <2>1, <3>1, <3>3 DEF Passed
  <2> QED BY <2>3, <2>4
<1>9. buffer' = [r \in Requests |-> buffer'[r]] /\ stream' = [r \in Requests |-> stream'[r]]
  BY <1>1
<1> QED
  BY <1>5, <1>6, <1>7, <1>8, <1>9

\* It keeps the types.
LEMMA DistributeTyped ==
  ASSUME EngineTyped, NEW t \in Schedulers, NEW outs, NEW A \in SUBSET Requests,
         Answers(t, outs, A), Distribute(outs)
  PROVE  /\ buffer' \in [Requests -> Outs \cup {None}]
         /\ stream' \in [Requests -> Streams]
<1>1. /\ \A r \in Requests : IF r \in reg \cap A THEN Passed(r, t) ELSE Idle(r)
      /\ \A r \in A : t.made[r] \in 1 .. Most
      /\ buffer' = [r \in Requests |-> buffer'[r]]
      /\ stream' = [r \in Requests |-> stream'[r]]
  BY DistributeFields
<1>2. ASSUME NEW r \in Requests
      PROVE  buffer'[r] \in Outs \cup {None} /\ stream'[r] \in Streams
  <2>1. buffer[r] \in Outs \cup {None} /\ stream[r] \in Streams
    BY DEF EngineTyped
  <2>2. CASE r \notin reg \cap A
    BY <1>1, <2>1, <2>2 DEF Idle
  <2>3. CASE r \in reg \cap A
    <3> DEFINE tok == t.made[r]
               toks == Append(stream[r].pending, tok)
    <3>1. tok \in 1 .. Most /\ tok \in 0 .. Most
      BY <1>1, <2>3
    <3>2. PICK fin \in {"none", "stop", "length"} :
            Sent(r, tok, fin) \/ Kept(r, tok)
      BY <1>1, <2>3 DEF Passed
    <3> HIDE DEF tok
    <3>3. stream[r].pending \in Seq(1 .. Most) /\ toks \in Seq(1 .. Most)
      BY <2>1, <3>1, AppendProperties DEF Streams
    <3>4. CASE Sent(r, tok, fin)
      <4> DEFINE o == Output(toks, fin # "none", fin)
      <4>1. buffer'[r] = Put(buffer[r], o) /\ stream'[r] = [sent |-> tok, pending |-> << >>]
        BY <3>4 DEF Sent
      <4> HIDE DEF toks
      <4>2. o \in Outs
        <5> DEFINE b == fin # "none"
        <5>1. b \in BOOLEAN
          OBVIOUS
        <5> HIDE DEF b
        <5>2. Output(toks, b, fin) \in Outs
          BY <3>3, <5>1, OutputType
        <5> QED BY <5>2 DEF b
      <4> HIDE DEF o
      <4> QED BY <2>1, <3>1, <4>1, <4>2, PutType, EmptySeq DEF Streams
    <3>5. CASE Kept(r, tok)
      <4>1. buffer'[r] = buffer[r] /\ stream'[r] = [stream[r] EXCEPT !.pending = toks]
        BY <3>5 DEF Kept
      <4> HIDE DEF toks
      <4> QED BY <2>1, <3>3, <4>1 DEF Streams
    <3> QED BY <3>2, <3>4, <3>5
  <2> QED BY <2>2, <2>3
<1>3. buffer' \in [Requests -> Outs \cup {None}] /\ stream' \in [Requests -> Streams]
  BY <1>1, <1>2
<1> QED
  BY <1>3

\* _fail_active_requests.
LEMMA FailActiveSound ==
  ASSUME EngineTyped, NEW s, Sound(s, Added), NEW spent \in Nat,
         faults + spent <= MaxFaults, FailActive(s, spent)
  PROVE  /\ Sound(sch', Added) /\ Thinned(s, sch') /\ faults' \in 0 .. MaxFaults
         /\ buffer' \in [Requests -> Outs \cup {None}]
         /\ event' \in [Requests -> BOOLEAN] /\ stream' = stream
         /\ \A r \in Requests :
              buffer'[r] = IF r \in reg
                           THEN Put(buffer[r], Output(<< >>, TRUE, "error"))
                           ELSE buffer[r]
<1>1. PICK failing \in {None} \cup
            (IF "remove" \in FaultKinds /\ faults + spent < MaxFaults
             THEN Active(s) ELSE {}) :
        /\ sch' = AbortAll(s, s.running \o s.waiting, failing)
        /\ faults' = faults + spent + (IF failing = None THEN 0 ELSE 1)
  BY DEF FailActive
<1>2. /\ buffer' = [r \in Requests |->
                  IF r \in reg THEN Put(buffer[r], Output(<< >>, TRUE, "error"))
                  ELSE buffer[r]]
      /\ event' = [r \in Requests |-> event[r] \/ r \in reg]
      /\ stream' = stream
  BY DEF FailActive, TellAll
<1>3. Sound(sch', Added) /\ Thinned(s, sch')
  <2>1. s.running \in Seq(Requests) /\ s.waiting \in Seq(Requests)
    BY ListsOf DEF Sound
  <2> DEFINE rs == s.running \o s.waiting
             t == AbortAll(s, rs, failing)
  <2>2. rs \in Seq(Requests)
    BY <2>1, ConcatProperties
  <2> HIDE DEF rs
  <2>3. Sound(t, Added) /\ Thinned(s, t)
    BY <2>2, AbortAllSound
  <2>4. sch' = t
    BY <1>1 DEF rs
  <2> HIDE DEF t
  <2> QED BY <2>3, <2>4
<1>4. faults' \in 0 .. MaxFaults
  <2>1. faults \in Nat /\ MaxFaults \in Nat
    BY Constants DEF EngineTyped
  <2>2. failing # None => faults + spent < MaxFaults
    BY <1>1
  <2> QED BY <1>1, <2>1, <2>2
<1>5. buffer' \in [Requests -> Outs \cup {None}] /\ event' \in [Requests -> BOOLEAN]
  <2> DEFINE o == Output(<< >>, TRUE, "error")
  <2>1. o \in Outs
    BY OutputType, EmptySeq
  <2> HIDE DEF o
  <2>2. \A r \in Requests : Put(buffer[r], o) \in Outs
    BY <2>1, PutType DEF EngineTyped
  <2>3. buffer' = [r \in Requests |-> IF r \in reg THEN Put(buffer[r], o) ELSE buffer[r]]
    BY <1>2 DEF o
  <2> QED BY <1>2, <2>2, <2>3 DEF EngineTyped
<1> QED
  BY <1>2, <1>3, <1>4, <1>5

\* What a round of the engine loop does: the scheduler's step leads to t, with
\* outputs for the requests in A, which are distributed, or it raises, and
\* every consumer is told; then some requests are aborted.
Outcome(t, A) ==
  /\ Sound(sch', Added) /\ Thinned(t, sch')
  /\ t.known \subseteq sch.known /\ Untouched(sch, t)
  /\ Queued(t) \cup Active(t) \subseteq Listed
  /\ "cache" \notin FaultKinds => OneMore(sch, t, A)
  /\ \/ \E outs : Answers(t, outs, A) /\ Distribute(outs)
     \/ /\ A = {} /\ stream' = stream
        /\ \A r \in Requests :
             buffer'[r] = IF r \in reg
                          THEN Put(buffer[r], Output(<< >>, TRUE, "error"))
                          ELSE buffer[r]

LEMMA EngineStepOutcome ==
  ASSUME EngineIInv, EngineStep
  PROVE  /\ \E t \in Schedulers, A \in SUBSET Listed : Outcome(t, A)
         /\ EngineTyped' /\ task' = task /\ reg' = reg
<1>1. /\ EngineTyped /\ Sound(sch, Added)
      /\ faults \in Nat /\ MaxFaults \in Nat
  BY Constants DEF EngineIInv, EngineTyped
<1>2. task' = task /\ reg' = reg /\ Added' = Added
  BY DEF EngineStep, Added
<1>3. PICK m \in Mishaps, ending \in SUBSET Active(ScheduleWaiting(sch, {})) :
        /\ Possible(sch, m)
        /\ \E res \in {Step(sch, m, ending, NoRound)} :
             IF res.raised
             THEN FailActive(res.s, Weight(m)) /\ loop' = "backoff"
             ELSE /\ Distribute(res.outs)
                  /\ sch' \in {res.s, Reap(res.s)}
                  /\ faults' = faults + Weight(m)
                  /\ UNCHANGED loop
  BY DEF EngineStep
<1> DEFINE res == Step(sch, m, ending, NoRound)
<1>4. IF res.raised
      THEN FailActive(res.s, Weight(m)) /\ loop' = "backoff"
      ELSE /\ Distribute(res.outs)
           /\ sch' \in {res.s, Reap(res.s)}
           /\ faults' = faults + Weight(m)
           /\ UNCHANGED loop
  BY <1>3
<1>5. ending \in SUBSET Requests
  <2> DEFINE first == ScheduleWaiting(sch, {})
  <2>1. Sound(first, Added)
    BY <1>1, ScheduleWaitingSound
  <2> HIDE DEF first
  <2>2. Active(first) \subseteq Requests
    BY <2>1, ListsOf DEF Sound
  <2> QED BY <1>3, <2>2 DEF first
<1>6. m.create => sch.waiting # << >>
  BY <1>3 DEF Possible, WouldCreate
<1>7. Weight(m) \in Nat /\ faults + Weight(m) <= MaxFaults
  BY <1>3, WeightType DEF Possible
<1>8. /\ Sound(res.s, Added) /\ Stepped(sch, res.s)
      /\ Answered(sch, res, m.cache = 0 /\ NoRound = NoRound)
  BY <1>1, <1>5, <1>6, StepSound
<1>9. "cache" \notin FaultKinds => m.cache = 0
  BY DEF Mishaps
<1> HIDE DEF res
<1> DEFINE t == res.s
<1>10. PICK A \in SUBSET Listed :
         /\ Answers(t, res.outs, A) /\ (res.raised => A = {})
         /\ m.cache = 0 => OneMore(sch, t, A)
  BY <1>8 DEF Answered, Listed
<1>11. /\ t \in Schedulers /\ t.known \subseteq sch.known /\ Untouched(sch, t)
       /\ Queued(t) \cup Active(t) \subseteq Listed
       /\ "cache" \notin FaultKinds => OneMore(sch, t, A)
  BY <1>8, <1>9, <1>10 DEF Stepped, Listed, Sound
<1>12. A \in SUBSET Requests
  BY <1>1, ListsOf DEF Listed, Sound
<1>13. CASE res.raised
  <2>1. /\ Sound(sch', Added) /\ Thinned(t, sch') /\ faults' \in 0 .. MaxFaults
        /\ buffer' \in [Requests -> Outs \cup {None}]
        /\ event' \in [Requests -> BOOLEAN] /\ stream' = stream
        /\ \A r \in Requests :
             buffer'[r] = IF r \in reg
                          THEN Put(buffer[r], Output(<< >>, TRUE, "error"))
                          ELSE buffer[r]
    BY <1>1, <1>4, <1>7, <1>8, <1>13, FailActiveSound
  <2>2. A = {}
    BY <1>10, <1>13
  <2>3. Outcome(t, A)
    BY <1>11, <2>1, <2>2 DEF Outcome
  <2>4. EngineTyped'
    BY <1>1, <1>2, <1>4, <1>13, <2>1 DEF EngineTyped
  <2> QED BY <1>2, <1>11, <2>3, <2>4
<1>14. CASE ~ res.raised
  <2>1. /\ Distribute(res.outs) /\ sch' \in {t, Reap(t)}
        /\ faults' = faults + Weight(m) /\ loop' = loop
    BY <1>4, <1>14
  <2>2. Sound(sch', Added) /\ Thinned(t, sch')
    <3>1. CASE sch' = t
      BY <1>8, <3>1 DEF Thinned
    <3>2. CASE sch' = Reap(t)
      <4> DEFINE u == Reap(t)
      <4>1. Sound(u, Added) /\ Thinned(t, u)
        BY <1>8, ReapSound
      <4> HIDE DEF u
      <4>2. sch' = u
        BY <3>2 DEF u
      <4> QED BY <4>1, <4>2
    <3> QED BY <2>1, <3>1, <3>2
  <2>3. Outcome(t, A)
    BY <1>10, <1>11, <2>1, <2>2 DEF Outcome
  <2>4. /\ buffer' \in [Requests -> Outs \cup {None}]
        /\ stream' \in [Requests -> Streams]
    BY <1>1, <1>10, <1>11, <1>12, <2>1, DistributeTyped
  <2>5. event' \in [Requests -> BOOLEAN]
    BY <1>1, <1>10, <1>11, <1>12, <2>1, DistributeFields
  <2>6. faults' \in 0 .. MaxFaults
    BY <1>1, <1>7, <2>1
  <2>7. EngineTyped'
    BY <1>1, <1>2, <2>1, <2>4, <2>5, <2>6 DEF EngineTyped
  <2> QED BY <1>2, <1>11, <2>3, <2>7
<1> QED
  BY <1>13, <1>14

\* The steps of the engine's own task keep the invariant.
LEMMA LoopSound ==
  ASSUME EngineIInv, EngineStep \/ Resume \/ Stop \/ LoopEnds \/ Close
  PROVE  EngineIInv'
<1>1. EngineTyped /\ Sound(sch, Added) /\ Untold
  BY DEF EngineIInv
<1>2. CASE EngineStep
  <2>1. PICK t \in Schedulers, A \in SUBSET Listed : Outcome(t, A)
    BY <1>2, EngineStepOutcome
  <2>2. EngineTyped' /\ task' = task /\ reg' = reg
    BY <1>2, EngineStepOutcome
  <2>3. Sound(sch', Added) /\ sch'.known \subseteq sch.known
    BY <2>1 DEF Outcome, Thinned
  <2>4. \A r \in Requests : task[r].phase = "none" => sch'.made[r] = 0
    <3> SUFFICES ASSUME NEW r \in Requests, task[r].phase = "none"
                 PROVE  sch'.made[r] = 0
      OBVIOUS
    <3>1. r \notin Queued(sch) \cup Active(sch)
      BY <1>1 DEF Sound, Counted, Added
    <3>2. t.made[r] = sch.made[r]
      BY <2>1, <3>1 DEF Outcome, Untouched
    <3>3. sch'.made = t.made
      BY <2>1 DEF Outcome, Thinned
    <3> QED BY <1>1, <3>2, <3>3 DEF Untold
  <2> QED BY <2>2, <2>3, <2>4, SameTasks
<1>3. CASE Resume \/ Stop
  <2>1. /\ UNCHANGED <<sch, faults, reg, buffer, event, stream, task>>
        /\ loop' \in {"run", "cancelled", "dying"}
    BY <1>3 DEF Resume, Stop
  <2>2. EngineTyped'
    BY <1>1, <2>1 DEF EngineTyped, Added
  <2> QED BY <1>1, <2>1, <2>2, SameTasks DEF Untold
<1>4. CASE LoopEnds
  <2>1. /\ reg' = reg /\ task' = task /\ loop' = "ended"
        /\ IF loop = "cancelled" THEN FailActive(sch, 0)
           ELSE UNCHANGED <<sch, faults, buffer, event, stream>>
    BY <1>4 DEF LoopEnds
  <2>2. /\ Sound(sch', Added) /\ Thinned(sch, sch') /\ faults' \in 0 .. MaxFaults
        /\ buffer' \in [Requests -> Outs \cup {None}]
        /\ event' \in [Requests -> BOOLEAN] /\ stream' = stream
    <3>1. CASE loop = "cancelled"
      <4>1. faults + 0 <= MaxFaults
        BY <1>1, Constants DEF EngineTyped
      <4> QED BY <1>1, <2>1, <3>1, <4>1, FailActiveSound
    <3>2. CASE loop # "cancelled"
      BY <1>1, <2>1, <3>2 DEF EngineTyped, Thinned
    <3> QED BY <3>1, <3>2
  <2>3. EngineTyped'
    BY <1>1, <2>1, <2>2 DEF EngineTyped, Added
  <2>4. /\ \A r \in Requests : task[r].phase = "none" => sch'.made[r] = 0
        /\ sch'.known \subseteq sch.known
    BY <1>1, <2>2 DEF Untold, Thinned
  <2> QED BY <2>1, <2>2, <2>3, <2>4, SameTasks
<1>5. CASE Close
  <2> DEFINE t == ResetAll(sch)
  <2>1. sch' = t /\ reg' = {} /\ task' = task /\ loop' = "closed"
        /\ faults' = faults /\ event' = event
        /\ buffer' = [r \in Requests |->
                        IF r \notin reg THEN buffer[r]
                        ELSE IF Streaming(r) THEN Output(<< >>, TRUE, "raised")
                        ELSE None]
        /\ stream' = [r \in Requests |-> FreshStream]
    BY <1>5 DEF Close
  <2>2. Sound(t, Added) /\ Thinned(sch, t) /\ t.known = {}
    BY <1>1, ResetSound
  <2> HIDE DEF t
  <2>3. Added' = Added
    BY <2>1 DEF Added
  <2>4. EngineTyped'
    <3>1. FreshStream \in Streams
      BY Constants, EmptySeq DEF FreshStream, Streams
    <3>2. stream' \in [Requests -> Streams]
      BY <2>1, <3>1
    <3> DEFINE o == Output(<< >>, TRUE, "raised")
    <3>3. o \in Outs
      BY OutputType, EmptySeq
    <3>4. buffer' = [r \in Requests |->
                        IF r \notin reg THEN buffer[r]
                        ELSE IF Streaming(r) THEN o ELSE None]
      BY <2>1
    <3> HIDE DEF o
    <3>5. buffer' \in [Requests -> Outs \cup {None}]
      BY <1>1, <3>3, <3>4 DEF EngineTyped
    <3> QED BY <1>1, <2>1, <2>3, <3>2, <3>5 DEF EngineTyped
  <2>5. Untold'
    BY <1>1, <2>1, <2>2 DEF Untold, Thinned
  <2>6. Sound(sch', Added')
    BY <2>1, <2>2, <2>3
  <2>7. \A r \in sch'.known : (r \in reg /\ Waiting(r))'
    BY <2>1, <2>2
  <2> QED BY <2>4, <2>5, <2>6, <2>7 DEF EngineIInv, Added
<1> QED
  BY <1>2, <1>3, <1>4, <1>5

LEMMA EngineInitSound == EngineInit => EngineIInv
<1> SUFFICES ASSUME EngineInit
             PROVE  EngineIInv
  OBVIOUS
<1>1. /\ sch = EmptyScheduler /\ faults = 0 /\ loop = "run" /\ reg = {}
      /\ buffer = [r \in Requests |-> None] /\ event = [r \in Requests |-> FALSE]
      /\ stream = [r \in Requests |-> FreshStream]
      /\ task = [r \in Requests |-> NoTask]
  BY DEF EngineInit
<1>2. NoTask \in Tasks /\ NoTask.phase = "none" /\ FreshStream \in Streams
  BY Constants, EmptySeq DEF NoTask, Tasks, Reasons, FreshStream, Streams
<1>3. Added = {}
  BY <1>1, <1>2 DEF Added
<1>4. Sound(sch, {})
  <2> DEFINE e == EmptyScheduler
             f == [e EXCEPT !.hybrid = FALSE]
  <2>1. IsScheduler(e) /\ e.hybrid = FALSE
    BY DEF EmptyScheduler, IsScheduler
  <2>2. f = e
    <3> HIDE DEF e
    <3> QED BY <2>1 DEF IsScheduler
  <2>3. Sound(f, {})
    BY EmptySound
  <2> HIDE DEF e, f
  <2> QED BY <1>1, <2>2, <2>3 DEF e
<1>5. sch.known = {} /\ sch.made = [r \in Requests |-> 0]
  BY <1>1 DEF EmptyScheduler
<1>6. EngineTyped
  BY <1>1, <1>2, Constants DEF EngineTyped
<1> QED
  BY <1>3, <1>4, <1>5, <1>6 DEF EngineIInv, Untold

LEMMA EngineNextSound == EngineIInv /\ [ShutdownNext]_evars => EngineIInv'
<1> SUFFICES ASSUME EngineIInv, [ShutdownNext]_evars
             PROVE  EngineIInv'
  OBVIOUS
<1>1. CASE ShutdownNext
  <2>1. CASE \E r \in Requests : Client(r)
    BY <2>1, ClientSound
  <2>2. CASE EngineStep \/ Resume \/ Stop \/ LoopEnds \/ Close
    BY <2>2, LoopSound
  <2> QED BY <1>1, <2>1, <2>2 DEF ShutdownNext, ServeNext
<1>2. CASE UNCHANGED evars
  <2>1. UNCHANGED <<sch, faults, loop, reg, buffer, event, stream, task>>
    BY <1>2 DEF evars
  <2>2. EngineTyped' /\ Untold'
    BY <2>1 DEF EngineTyped, Added, Untold, EngineIInv
  <2> QED BY <2>1, <2>2, SameTasks DEF EngineIInv, Untold
<1> QED
  BY <1>1, <1>2

\* The invariant of the engine, with whatever faults.
THEOREM EngineSound == ShutdownSpec => []EngineIInv
<1>1. EngineInit => EngineIInv
  BY EngineInitSound
<1>2. EngineIInv /\ [ShutdownNext]_evars => EngineIInv'
  BY EngineNextSound
<1> QED
  BY <1>1, <1>2, PTL DEF ShutdownSpec

\* The scheduler works only for requests whose consumer waits and has a
\* collector (WorkHasConsumer), whatever fails, whoever leaves, and however
\* the engine is stopped.
THEOREM EngineWorkHasConsumer == ShutdownSpec => []WorkHasConsumer
<1>1. EngineIInv => WorkHasConsumer
  <2> SUFFICES ASSUME EngineIInv
               PROVE  WorkHasConsumer
    OBVIOUS
  <2>1. EngineTyped /\ sch \in Schedulers
    BY DEF EngineIInv, Sound
  <2>2. SchedulerTypeOK /\ reg \subseteq Requests
    BY <2>1 DEF SchedulerTypeOK, EngineTyped, Added
  <2>3. \A r \in Requests :
          /\ task[r].kind \in {"none", "stream", "generate"}
          /\ task[r].phase \in {"none", "active", "done"}
          /\ task[r].got \in Seq(1 .. Most)
    BY <2>1 DEF EngineTyped, Tasks
  <2>4. EngineTypeOK
    BY <2>1, <2>2, <2>3 DEF EngineTypeOK, EngineTyped, Streams
  <2> QED BY <2>4 DEF EngineIInv, WorkHasConsumer
<1> QED
  BY <1>1, EngineSound, PTL

-----------------------------------------------------------------------------
\* What is conveyed to the consumers.

\* What r's collector holds.
Collected(r) == IF buffer[r] = None THEN << >> ELSE buffer[r].toks

\* The parts of a pipeline are lists of tokens.
LEMMA PipelineParts ==
  ASSUME EngineTyped, NEW r \in Requests
  PROVE  /\ Pipeline(r) = task[r].got \o Collected(r) \o stream[r].pending
         /\ task[r].got \in Seq(1 .. Most) /\ Collected(r) \in Seq(1 .. Most)
         /\ stream[r].pending \in Seq(1 .. Most)
         /\ Pipeline(r) \in Seq(1 .. Most)
<1>1. task[r] \in Tasks /\ buffer[r] \in Outs \cup {None} /\ stream[r] \in Streams
  BY DEF EngineTyped
<1>2. task[r].got \in Seq(1 .. Most) /\ stream[r].pending \in Seq(1 .. Most)
  BY <1>1 DEF Tasks, Streams
<1>3. Collected(r) \in Seq(1 .. Most)
  BY <1>1, EmptySeq DEF Collected, Outs
<1>4. Pipeline(r) = task[r].got \o Collected(r) \o stream[r].pending
  BY DEF Pipeline, Collected
<1> DEFINE a == task[r].got
           b == Collected(r)
           c == stream[r].pending
<1>5. a \o b \o c \in Seq(1 .. Most)
  <2>1. a \in Seq(1 .. Most) /\ b \in Seq(1 .. Most) /\ c \in Seq(1 .. Most)
    BY <1>2, <1>3
  <2> HIDE DEF a, b, c
  <2>2. a \o b \in Seq(1 .. Most)
    BY <2>1, ConcatProperties
  <2> QED BY <2>1, <2>2, ConcatProperties
<1> QED
  BY <1>2, <1>3, <1>4, <1>5

\* The start of a list that counts counts.
LEMMA CountingStart ==
  ASSUME NEW S, NEW s \in Seq(S), NEW t \in Seq(S), Counting(s \o t)
  PROVE  Counting(s)
<1>1. Len(s) \in Nat /\ Len(t) \in Nat /\ Len(s \o t) = Len(s) + Len(t)
  BY ConcatProperties, LenProperties
<1>2. \A i \in 1 .. Len(s) : (s \o t)[i] = s[i] /\ i \in 1 .. Len(s \o t)
  BY <1>1, ConcatProperties
<1> QED
  BY <1>2 DEF Counting

\* A list that counts goes on with the number of its next place.
LEMMA CountingNext ==
  ASSUME NEW S, NEW s \in Seq(S), Counting(s), NEW n \in S, n = Len(s) + 1
  PROVE  Counting(Append(s, n)) /\ Len(Append(s, n)) = n
<1>1. Len(s) \in Nat /\ Len(Append(s, n)) = Len(s) + 1
  BY AppendProperties, LenProperties
<1>2. /\ \A i \in 1 .. Len(s) : Append(s, n)[i] = s[i]
      /\ Append(s, n)[Len(s) + 1] = n
  BY AppendProperties
<1>3. \A i \in 1 .. Len(s) + 1 : i \in 1 .. Len(s) \/ i = Len(s) + 1
  BY <1>1
<1> QED
  BY <1>1, <1>2, <1>3 DEF Counting

\* Four lists in a row.
LEMMA FourInARow ==
  ASSUME NEW S, NEW a \in Seq(S), NEW b \in Seq(S), NEW c \in Seq(S), NEW d \in Seq(S)
  PROVE  /\ a \o b \o (c \o d) = a \o b \o c \o d
         /\ a \o (b \o (c \o d)) = a \o b \o c \o d
         /\ a \o (b \o (c \o d)) \in Seq(S)
<1>1. a \o b \in Seq(S) /\ c \o d \in Seq(S)
  BY ConcatProperties
<1>2. b \o (c \o d) \in Seq(S)
  BY <1>1, ConcatProperties
<1>3. a \o (b \o (c \o d)) \in Seq(S)
  BY <1>2, ConcatProperties
<1>4. a \o b \o c \o d = (a \o b) \o (c \o d)
  BY <1>1, ConcatAssociative
<1>5. (a \o b) \o (c \o d) = a \o (b \o (c \o d))
  BY <1>1, ConcatAssociative
<1> QED
  BY <1>3, <1>4, <1>5

\* Three lists in a row, when the second goes to the first, the third to the
\* second, or something is appended.
LEMMA InARow ==
  ASSUME NEW S, NEW a \in Seq(S), NEW b \in Seq(S), NEW c \in Seq(S), NEW n \in S
  PROVE  /\ (a \o b) \o << >> \o c = a \o b \o c
         /\ a \o (b \o c) \o << >> = a \o b \o c
         /\ a \o b \o Append(c, n) = Append(a \o b \o c, n)
         /\ a \o (b \o Append(c, n)) \o << >> = Append(a \o b \o c, n)
         /\ a \o (b \o << >>) \o c = a \o b \o c
         /\ a \o << >> \o << >> = a
         /\ a \o b \o << >> = a \o b
         /\ a \o b \o c = a \o (b \o c)
<1>1. a \o b \in Seq(S) /\ b \o c \in Seq(S) /\ a \o (b \o c) \in Seq(S)
  BY ConcatProperties
<1>2. /\ (a \o b) \o << >> = a \o b /\ a \o << >> = a /\ b \o << >> = b
      /\ (a \o (b \o c)) \o << >> = a \o (b \o c)
  BY <1>1, ConcatEmptySeq
<1>3. (a \o b) \o c = a \o (b \o c)
  BY ConcatAssociative
<1>4. <<n>> \in Seq(S) /\ Append(c, n) = c \o <<n>>
  BY AppendIsConcat
<1>5. Append(a \o b \o c, n) = a \o b \o c \o <<n>>
  <2>1. a \o b \o c \in Seq(S)
    BY <1>1, <1>3
  <2> QED BY <2>1, AppendIsConcat
<1>6. /\ a \o b \o Append(c, n) = Append(a \o b \o c, n)
      /\ a \o (b \o Append(c, n)) = Append(a \o b \o c, n)
      /\ a \o (b \o Append(c, n)) \in Seq(S)
  <2>1. PICK d \in Seq(S) : d = <<n>>
    BY <1>4
  <2>2. /\ a \o b \o (c \o d) = a \o b \o c \o d
        /\ a \o (b \o (c \o d)) = a \o b \o c \o d
        /\ a \o (b \o (c \o d)) \in Seq(S)
    BY FourInARow
  <2>3. Append(c, n) = c \o d /\ Append(a \o b \o c, n) = a \o b \o c \o d
    BY <1>4, <1>5, <2>1
  <2> QED BY <2>2, <2>3
<1>7. (a \o (b \o Append(c, n))) \o << >> = a \o (b \o Append(c, n))
  BY <1>6, ConcatEmptySeq
<1> QED
  BY <1>2, <1>3, <1>6, <1>7

\* The two ways a token that is passed on ends up behind what is on its way.
Behind(a, b, c, n) == /\ a \o b \o Append(c, n) = Append(a \o b \o c, n)
                      /\ a \o (b \o Append(c, n)) \o << >> = Append(a \o b \o c, n)

LEMMA PutBehind ==
  ASSUME NEW S, NEW a \in Seq(S), NEW b \in Seq(S), NEW c \in Seq(S), NEW n \in S
  PROVE  Behind(a, b, c, n)
<1>1. <<n>> \in Seq(S) /\ Append(c, n) = c \o <<n>>
  BY AppendIsConcat
<1>2. PICK d \in Seq(S) : d = <<n>> /\ Append(c, n) = c \o d
  BY <1>1
<1>3. a \o b \o c \in Seq(S)
  BY ConcatProperties
<1>4. Append(a \o b \o c, n) = a \o b \o c \o d
  BY <1>2, <1>3, AppendIsConcat
<1>5. /\ a \o b \o (c \o d) = a \o b \o c \o d
      /\ a \o (b \o (c \o d)) = a \o b \o c \o d
      /\ a \o (b \o (c \o d)) \in Seq(S)
  BY FourInARow
<1>6. a \o (b \o (c \o d)) \o << >> = a \o (b \o (c \o d))
  BY <1>5, ConcatEmptySeq
<1> QED BY <1>2, <1>4, <1>5, <1>6 DEF Behind

\* What Put leaves in a collector, after what was there.
LEMMA PutFields ==
  ASSUME EngineTyped, NEW r \in Requests, NEW o \in Outs,
         NEW new, new = Put(buffer[r], o)
  PROVE  /\ new # None /\ new.reason = o.reason
         /\ new.toks = Collected(r) \o o.toks
<1>1. buffer[r] \in Outs \cup {None}
  BY DEF EngineTyped
<1>2. new # None
  BY <1>1, PutType, EngineAssumption
<1>3. CASE buffer[r] = None
  <2>1. new = o /\ Collected(r) = << >>
    BY <1>3 DEF Put, Collected
  <2>2. o.toks \in Seq(1 .. Most)
    BY DEF Outs
  <2> QED BY <1>2, <2>1, <2>2, ConcatEmptySeq
<1>4. CASE buffer[r] # None
  <2>1. new = Output(buffer[r].toks \o o.toks, o.finished, o.reason)
    BY <1>4 DEF Put
  <2> DEFINE both == buffer[r].toks \o o.toks
  <2>2. both = Collected(r) \o o.toks
    BY <1>4 DEF Collected
  <2>4. new = [toks |-> both, finished |-> o.finished, reason |-> o.reason]
    BY <2>1 DEF Output
  <2> HIDE DEF both
  <2>3. new.toks = both /\ new.reason = o.reason
    BY <2>4
  <2> QED BY <1>2, <2>2, <2>3
<1> QED
  BY <1>3, <1>4

\* What is conveyed to r stays as it is when its tokens only move along.
LEMMA StillConveyed ==
  ASSUME NEW r \in Requests, Conveyed(r), task'[r] = task[r],
         Pipeline(r)' = Pipeline(r), sch'.made[r] = sch.made[r],
         r \in reg' => r \in reg, r \in Listed' => r \in Listed,
         task[r].phase = "none" => buffer'[r] = None /\ stream'[r].pending = << >>,
         buffer'[r] # None /\ Natural(buffer'[r].reason) =>
           /\ buffer[r] # None /\ Natural(buffer[r].reason)
           /\ stream'[r].pending = << >>
  PROVE  Conveyed(r)'
<1>1. /\ Streaming(r)' <=> Streaming(r)
      /\ Generating(r)' <=> Generating(r)
  BY DEF Streaming, Generating
<1>2. Waiting(r)' <=> Waiting(r)
  BY <1>1 DEF Waiting
<1>3. Counting(Pipeline(r))'
  BY DEF Conveyed, Counting
<1>4. (r \in reg /\ Waiting(r) => Len(Pipeline(r)) = sch.made[r])'
  BY <1>2 DEF Conveyed
<1>5. (r \in reg /\ r \in Listed => Waiting(r))'
  BY <1>2 DEF Conveyed
<1>6. (buffer[r] # None /\ Natural(buffer[r].reason) =>
         /\ r \notin Listed /\ stream[r].pending = << >>
         /\ Len(Pipeline(r)) = sch.made[r])'
  BY DEF Conveyed, Natural
<1>7. (Natural(task[r].reason) =>
         /\ task[r].phase = "done" /\ r \notin Listed
         /\ Len(task[r].got) = sch.made[r])'
  BY DEF Conveyed, Natural
<1>8. (task[r].phase = "none" =>
         task[r].got = << >> /\ buffer[r] = None /\ stream[r].pending = << >>)'
  BY DEF Conveyed
<1>9. (Generating(r) => task[r].got = << >>)'
  BY <1>1 DEF Conveyed
<1> QED
  BY <1>3, <1>4, <1>5, <1>6, <1>7, <1>8, <1>9 DEF Conveyed

\* Nothing happens to r, but that it may leave the collectors and the lists.
LEMMA Unmoved ==
  ASSUME NEW r \in Requests, Conveyed(r), task'[r] = task[r],
         buffer'[r] = buffer[r], stream'[r] = stream[r],
         sch'.made[r] = sch.made[r],
         r \in reg' => r \in reg, r \in Listed' => r \in Listed
  PROVE  Conveyed(r)'
<1>1. Pipeline(r)' = Pipeline(r)
  BY DEF Pipeline
<1>2. task[r].phase = "none" => buffer'[r] = None /\ stream'[r].pending = << >>
  BY DEF Conveyed
<1>3. buffer'[r] # None /\ Natural(buffer'[r].reason) =>
           /\ buffer[r] # None /\ Natural(buffer[r].reason)
           /\ stream'[r].pending = << >>
  BY DEF Conveyed
<1> QED
  BY <1>1, <1>2, <1>3, StillConveyed

\* The lists after the scheduler has lost some requests.
LEMMA ThinnedLists ==
  ASSUME Thinned(sch, sch')
  PROVE  Listed' \subseteq Listed /\ sch'.made = sch.made
BY DEF Thinned, Listed, Queued, Active

\* The end of a consumer with these tokens.
LEMMA FinishConveys ==
  ASSUME EngineIInv, \A q \in Requests : Conveyed(q),
         NEW r \in Requests, NEW broken \in MayBreak(r),
         NEW got \in Seq(1 .. Most), NEW reason, Finish(r, got, reason, broken),
         Counting(got),
         Natural(reason) => r \notin Listed /\ Len(got) = sch.made[r]
  PROVE  \A q \in Requests : Conveyed(q)'
<1>1. Thinned(sch, sch') /\ reg' = reg \ {r}
  BY CleanupRequestSound DEF Finish
<1>2. Listed' \subseteq Listed /\ sch'.made = sch.made
  BY <1>1, ThinnedLists
<1>3. /\ task' = [task EXCEPT ![r].phase = "done", ![r].got = got,
                              ![r].reason = reason]
      /\ buffer' = [buffer EXCEPT ![r] = None]
      /\ stream' = [stream EXCEPT ![r] = FreshStream]
  BY DEF Finish
<1>4. /\ task \in [Requests -> Tasks] /\ buffer \in [Requests -> Outs \cup {None}]
      /\ stream \in [Requests -> Streams]
  BY DEF EngineIInv, EngineTyped
<1>5. /\ task'[r].phase = "done" /\ task'[r].got = got /\ task'[r].reason = reason
      /\ buffer'[r] = None /\ stream'[r].pending = << >>
  <2>1. task[r] \in Tasks
    BY <1>4
  <2> DEFINE new == [task[r] EXCEPT !.phase = "done", !.got = got, !.reason = reason]
  <2>2. new.phase = "done" /\ new.got = got /\ new.reason = reason
    BY <2>1 DEF Tasks
  <2>3. task' = [task EXCEPT ![r] = new]
    BY <1>3, <1>4
  <2> HIDE DEF new
  <2>4. task'[r] = new
    BY <1>4, <2>3
  <2>5. buffer'[r] = None /\ stream'[r] = FreshStream
    BY <1>3, <1>4
  <2> QED BY <2>2, <2>4, <2>5 DEF FreshStream
<1>6. ASSUME NEW q \in Requests, q # r
      PROVE  Conveyed(q)'
  <2>1. task'[q] = task[q] /\ buffer'[q] = buffer[q] /\ stream'[q] = stream[q]
    BY <1>3, <1>4, <1>6
  <2> QED BY <1>1, <1>2, <2>1, Unmoved
<1>7. Conveyed(r)'
  <2>1. ~ Waiting(r)' /\ ~ Generating(r)' /\ r \notin reg'
    BY <1>1, <1>5 DEF Waiting, Streaming, Generating
  <2>2. Pipeline(r)' = got
    <3>1. Pipeline(r)' = got \o << >> \o << >>
      BY <1>5 DEF Pipeline
    <3> QED BY <3>1, ConcatEmptySeq
  <2>3. Counting(Pipeline(r))'
    BY <2>2 DEF Counting
  <2>4. (Natural(task[r].reason) =>
           /\ task[r].phase = "done" /\ r \notin Listed
           /\ Len(task[r].got) = sch.made[r])'
    BY <1>2, <1>5 DEF Natural
  <2> QED BY <1>5, <2>1, <2>3, <2>4 DEF Conveyed
<1> QED
  BY <1>6, <1>7

\* Every step of a client keeps what is conveyed.
LEMMA ClientConveys ==
  ASSUME EngineIInv, \A q \in Requests : Conveyed(q), NEW r \in Requests, Client(r)
  PROVE  \A q \in Requests : Conveyed(q)'
<1> DEFINE a == task[r].got
           b == Collected(r)
           c == stream[r].pending
<1>1. /\ EngineTyped /\ Sound(sch, Added) /\ reg \subseteq Added
      /\ task \in [Requests -> Tasks] /\ stream \in [Requests -> Streams]
      /\ buffer \in [Requests -> Outs \cup {None}]
  BY DEF EngineIInv, EngineTyped
<1>2. /\ Pipeline(r) = a \o b \o c
      /\ a \in Seq(1 .. Most) /\ b \in Seq(1 .. Most) /\ c \in Seq(1 .. Most)
      /\ Pipeline(r) \in Seq(1 .. Most)
  BY <1>1, PipelineParts
<1>3. Conveyed(r) /\ Counting(Pipeline(r))
  BY DEF Conveyed
<1>4. Queued(sch) \cup Active(sch) \subseteq Added
  BY <1>1 DEF Sound, Counted
<1> HIDE DEF a, b, c
<1>5. Counting(a) /\ Counting(a \o b) /\ a \o b \in Seq(1 .. Most)
  <2>1. a \o b \in Seq(1 .. Most)
    BY <1>2, ConcatProperties
  <2>2. Counting(a \o b)
    BY <1>2, <1>3, <2>1, CountingStart
  <2> QED BY <1>2, <2>1, <2>2, CountingStart
<1>6. Waiting(r) => ~ Natural(task[r].reason)
  BY <1>3 DEF Conveyed, Waiting, Streaming, Generating
<1>7. ASSUME NEW kind \in {"stream", "generate"}, AddRequest(r, kind)
      PROVE  \A q \in Requests : Conveyed(q)'
  <2>1. /\ task[r].phase = "none" /\ reg' = reg \cup {r}
        /\ task' = [task EXCEPT ![r].kind = kind, ![r].phase = "active"]
        /\ sch' = Enqueue(sch, r)
        /\ UNCHANGED <<buffer, stream>>
    BY <1>7 DEF AddRequest
  <2>2. r \notin sch.known /\ sch.made[r] = 0 /\ r \in Requests \ Added
    BY <1>1, <2>1 DEF EngineIInv, Untold, Added
  <2>3. sch'.made = sch.made /\ Listed' \subseteq Listed \cup {r}
    <3> DEFINE t == Enqueue(sch, r)
    <3>3. Sound(sch, Added) /\ r \notin Added /\ r \in Requests
      BY <1>1, <2>2
    <3>1. /\ Sound(t, Added \cup {r}) /\ t.made = sch.made
          /\ Queued(t) = Queued(sch) \cup {r} /\ Active(t) = Active(sch)
      BY <2>2, <3>3, EnqueueSound
    <3>2. sch' = t
      BY <2>1
    <3> HIDE DEF t
    <3> QED BY <3>1, <3>2 DEF Listed, Queued, Active
  <2>4. /\ task'[r].phase = "active" /\ task'[r].got = task[r].got
        /\ task'[r].kind = kind /\ task'[r].reason = task[r].reason
    <3> DEFINE new == [task[r] EXCEPT !.kind = kind, !.phase = "active"]
    <3>1. /\ new.phase = "active" /\ new.got = task[r].got
          /\ new.kind = kind /\ new.reason = task[r].reason
      <4>1. task[r] \in Tasks
        BY <1>1
      <4> QED BY <4>1 DEF Tasks
    <3>2. task' = [task EXCEPT ![r] = new]
      BY <1>1, <2>1
    <3> HIDE DEF new
    <3> QED BY <1>1, <3>1, <3>2
  <2>5. ASSUME NEW q \in Requests, q # r
        PROVE  Conveyed(q)'
    <3>1. task'[q] = task[q]
      BY <1>1, <2>1, <2>5
    <3> QED BY <2>1, <2>3, <2>5, <3>1, Unmoved
  <2>6. Conveyed(r)'
    <3>1. /\ task'[r].got = << >> /\ buffer'[r] = None /\ stream'[r].pending = << >>
          /\ ~ Natural(task[r].reason)
      BY <1>3, <2>1, <2>4 DEF Conveyed
    <3>2. Pipeline(r)' = << >>
      <4>1. Pipeline(r)' = << >> \o << >> \o << >>
        BY <3>1 DEF Pipeline
      <4> QED BY <4>1, ConcatEmptySeq, EmptySeq
    <3>3. Counting(Pipeline(r))' /\ Len(Pipeline(r))' = 0
      BY <3>2 DEF Counting
    <3>4. Waiting(r)' /\ sch'.made[r] = 0
      BY <2>2, <2>3, <2>4 DEF Waiting, Streaming, Generating
    <3>5. ~ Natural(task[r].reason)'
      BY <2>4, <3>1 DEF Natural
    <3> QED BY <2>4, <3>1, <3>3, <3>4, <3>5 DEF Conveyed
  <2> QED BY <2>5, <2>6
<1>8. ASSUME NEW kind \in {"stream", "generate"}, AddRejected(r, kind)
      PROVE  \A q \in Requests : Conveyed(q)'
  <2>1. /\ task[r].phase = "none" /\ reg' = reg \cup {r}
        /\ task' = [task EXCEPT ![r].kind = kind, ![r].phase = "done",
                                ![r].reason = "rejected"]
        /\ UNCHANGED <<sch, buffer, stream>>
    BY <1>8 DEF AddRejected
  <2>2. r \notin Listed /\ Listed' = Listed
    BY <1>4, <2>1 DEF Added, Listed
  <2>3. /\ task'[r].phase = "done" /\ task'[r].got = task[r].got
        /\ task'[r].reason = "rejected"
    <3> DEFINE new == [task[r] EXCEPT !.kind = kind, !.phase = "done",
                                      !.reason = "rejected"]
    <3>1. /\ new.phase = "done" /\ new.got = task[r].got
          /\ new.reason = "rejected"
      <4>1. task[r] \in Tasks
        BY <1>1
      <4> QED BY <4>1 DEF Tasks
    <3>2. task' = [task EXCEPT ![r] = new]
      BY <1>1, <2>1
    <3> HIDE DEF new
    <3> QED BY <1>1, <3>1, <3>2
  <2>4. ASSUME NEW q \in Requests, q # r
        PROVE  Conveyed(q)'
    <3>1. task'[q] = task[q]
      BY <1>1, <2>1, <2>4
    <3> QED BY <2>1, <2>2, <2>4, <3>1, Unmoved
  <2>5. Conveyed(r)'
    <3>1. buffer'[r] = None /\ ~ Waiting(r)' /\ ~ Generating(r)'
      BY <1>3, <2>1, <2>3 DEF Conveyed, Waiting, Streaming, Generating
    <3>2. Pipeline(r)' = Pipeline(r)
      BY <2>1, <2>3 DEF Pipeline
    <3>3. Counting(Pipeline(r))'
      BY <1>3, <3>2 DEF Counting
    <3>4. ~ Natural(task[r].reason)'
      BY <2>3 DEF Natural
    <3> QED BY <2>2, <2>3, <3>1, <3>3, <3>4 DEF Conveyed
  <2> QED BY <2>4, <2>5
<1>9. ASSUME StreamGet(r)
      PROVE  \A q \in Requests : Conveyed(q)'
  <2> DEFINE o == buffer[r]
             got == task[r].got \o o.toks
  <2>1. Streaming(r) /\ o # None
    BY <1>9 DEF StreamGet
  <2>2. b = o.toks /\ got = a \o b
    BY <2>1 DEF a, b, Collected
  <2>3. got \in Seq(1 .. Most) /\ Counting(got)
    BY <1>5, <2>2
  <2>4. CASE o.finished
    <3>1. PICK broken \in MayBreak(r) : Finish(r, got, o.reason, broken)
      BY <1>9, <2>4 DEF StreamGet
    <3>2. Natural(o.reason) => r \notin Listed /\ Len(got) = sch.made[r]
      <4> SUFFICES ASSUME Natural(o.reason)
                   PROVE  r \notin Listed /\ Len(got) = sch.made[r]
        OBVIOUS
      <4>1. r \notin Listed /\ c = << >> /\ Len(Pipeline(r)) = sch.made[r]
        BY <1>3, <2>1 DEF Conveyed, c
      <4>2. Pipeline(r) = a \o b
        <5>1. Pipeline(r) = a \o b \o << >>
          BY <1>2, <4>1
        <5> QED BY <1>5, <5>1, ConcatEmptySeq
      <4> QED BY <2>2, <4>1, <4>2
    <3> DEFINE reason == o.reason
    <3> HIDE DEF got, o
    <3>3. Natural(reason) => r \notin Listed /\ Len(got) = sch.made[r]
      BY <3>2
    <3>4. Finish(r, got, reason, broken)
      BY <3>1
    <3> HIDE DEF reason
    <3> QED BY <2>3, <3>3, <3>4, FinishConveys
  <2>5. CASE ~ o.finished
    <3>1. /\ buffer' = [buffer EXCEPT ![r] = None]
          /\ task' = [task EXCEPT ![r].got = got]
          /\ UNCHANGED <<sch, reg, stream>>
      BY <1>9, <2>5 DEF StreamGet
    <3> HIDE DEF got, o
    <3>2. /\ task'[r].got = got /\ task'[r].phase = task[r].phase
          /\ task'[r].kind = task[r].kind /\ task'[r].reason = task[r].reason
          /\ buffer'[r] = None
      <4> DEFINE new == [task[r] EXCEPT !.got = got]
      <4>1. /\ new.got = got /\ new.phase = task[r].phase
            /\ new.kind = task[r].kind /\ new.reason = task[r].reason
        <5>1. task[r] \in Tasks
          BY <1>1
        <5> QED BY <5>1 DEF Tasks
      <4>2. task' = [task EXCEPT ![r] = new]
        BY <1>1, <3>1
      <4> HIDE DEF new
      <4> QED BY <1>1, <3>1, <4>1, <4>2
    <3>3. Listed' = Listed
      BY <3>1 DEF Listed
    <3>4. ASSUME NEW q \in Requests, q # r
          PROVE  Conveyed(q)'
      <4>1. task'[q] = task[q] /\ buffer'[q] = buffer[q]
        BY <1>1, <3>1, <3>4
      <4> QED BY <3>1, <3>3, <3>4, <4>1, Unmoved
    <3>5. Conveyed(r)'
      <4>1. Pipeline(r)' = Pipeline(r)
        <5>1. Pipeline(r)' = (a \o b) \o << >> \o c
          BY <2>2, <3>1, <3>2 DEF Pipeline, c
        <5> QED BY <1>2, <1>5, <5>1, ConcatEmptySeq
      <4>2. /\ task[r].phase = "active" /\ task[r].kind = "stream"
            /\ ~ Natural(task[r].reason)
        BY <1>6, <2>1 DEF Waiting, Streaming
      <4>3. Waiting(r)' /\ Waiting(r) /\ ~ Generating(r)'
        BY <3>2, <4>2 DEF Waiting, Streaming, Generating
      <4>4. Counting(Pipeline(r))'
        BY <1>3, <4>1 DEF Counting
      <4>5. (r \in reg /\ Waiting(r) => Len(Pipeline(r)) = sch.made[r])'
        BY <1>3, <3>1, <4>1, <4>3 DEF Conveyed
      <4>6. ~ Natural(task[r].reason)'
        BY <3>2, <4>2 DEF Natural
      <4> QED BY <3>2, <4>2, <4>3, <4>4, <4>5, <4>6 DEF Conveyed
    <3> QED BY <3>4, <3>5
  <2> QED BY <2>4, <2>5
<1>10. ASSUME GenerateReturn(r)
       PROVE  \A q \in Requests : Conveyed(q)'
  <2> DEFINE there == r \in reg /\ buffer[r] # None
             got == IF there THEN buffer[r].toks ELSE << >>
             reason == IF there THEN buffer[r].reason ELSE "raised"
  <2>1. PICK broken \in MayBreak(r) : Finish(r, got, reason, broken)
    BY <1>10 DEF GenerateReturn
  <2>2. Generating(r)
    BY <1>10 DEF GenerateReturn
  <2>3. a = << >>
    BY <1>3, <2>2 DEF Conveyed, a
  <2>4. a \o b = b
    BY <1>2, <2>3, ConcatEmptySeq
  <2>5. got \in Seq(1 .. Most) /\ Counting(got)
    <3>1. CASE there
      <4>1. got = b
        BY <3>1 DEF b, Collected
      <4> QED BY <1>5, <2>4, <4>1
    <3>2. CASE ~ there
      <4>1. got = << >>
        BY <3>2
      <4>2. << >> \in Seq(1 .. Most) /\ Counting(<< >>)
        BY EmptySeq DEF Counting
      <4> HIDE DEF got
      <4> QED BY <4>1, <4>2
    <3> QED BY <3>1, <3>2
  <2>6. Natural(reason) => r \notin Listed /\ Len(got) = sch.made[r]
    <3> SUFFICES ASSUME Natural(reason)
                 PROVE  r \notin Listed /\ Len(got) = sch.made[r]
      OBVIOUS
    <3>1. there
      BY DEF Natural
    <3>2. got = b /\ Natural(buffer[r].reason)
      BY <3>1 DEF b, Collected
    <3>3. r \notin Listed /\ c = << >> /\ Len(Pipeline(r)) = sch.made[r]
      BY <1>3, <3>1, <3>2 DEF Conveyed, c
    <3>4. Pipeline(r) = a \o b
      <4>1. Pipeline(r) = a \o b \o << >>
        BY <1>2, <3>3
      <4> QED BY <1>5, <4>1, ConcatEmptySeq
    <3> QED BY <2>4, <3>2, <3>3, <3>4
  <2> HIDE DEF got, reason
  <2> QED BY <2>1, <2>5, <2>6, FinishConveys
<1>11. ASSUME Leave(r)
       PROVE  \A q \in Requests : Conveyed(q)'
  <2>1. PICK broken \in MayBreak(r) : Finish(r, a, "left", broken)
    BY <1>11 DEF Leave, a
  <2>2. ~ Natural("left")
    BY DEF Natural
  <2> QED BY <1>2, <1>5, <2>1, <2>2, FinishConveys
<1>12. ASSUME AbortRequest(r)
       PROVE  \A q \in Requests : Conveyed(q)'
  <2> DEFINE o == Output(c, TRUE, "aborted")
             new == Put(buffer[r], o)
  <2>1. PICK broken \in MayBreak(r) : CleanupRequest(r, broken)
    BY <1>12 DEF AbortRequest
  <2>2. Thinned(sch, sch') /\ reg' = reg \ {r}
    BY <2>1, CleanupRequestSound
  <2>3. Listed' \subseteq Listed /\ sch'.made = sch.made
    BY <2>2, ThinnedLists
  <2>4. /\ buffer' = [buffer EXCEPT ![r] = new]
        /\ stream' = [stream EXCEPT ![r] = FreshStream]
        /\ task' = task /\ Waiting(r)
    BY <1>12 DEF AbortRequest, c
  <2>5. new # None /\ new.reason = "aborted" /\ new.toks = b \o c
    <3>1. o \in Outs /\ o.reason = "aborted" /\ o.toks = c
      <4>1. o \in Outs
        BY <1>2, OutputType
      <4>2. o.reason = "aborted" /\ o.toks = c
        BY DEF Output
      <4> QED BY <4>1, <4>2
    <3> HIDE DEF o
    <3> QED BY <1>1, <3>1, PutFields DEF b
  <2> HIDE DEF new
  <2>6. buffer'[r] = new /\ stream'[r].pending = << >>
    BY <1>1, <2>4 DEF FreshStream
  <2>7. ASSUME NEW q \in Requests, q # r
        PROVE  Conveyed(q)'
    <3>1. buffer'[q] = buffer[q] /\ stream'[q] = stream[q] /\ task'[q] = task[q]
      BY <1>1, <2>4, <2>7
    <3> QED BY <2>2, <2>3, <3>1, Unmoved
  <2>8. Conveyed(r)'
    <3>1. Pipeline(r)' = Pipeline(r)
      <4>1. Pipeline(r)' = a \o (b \o c) \o << >>
        BY <2>4, <2>5, <2>6 DEF Pipeline, a
      <4>2. a \o (b \o c) \o << >> = a \o b \o c
        BY <1>2, FourInARow, ConcatEmptySeq, ConcatAssociative, ConcatProperties
      <4> QED BY <1>2, <4>1, <4>2
    <3>2. task[r].phase # "none" /\ ~ Natural(buffer'[r].reason)
      BY <2>4, <2>5, <2>6 DEF Waiting, Streaming, Generating, Natural
    <3> QED BY <1>3, <2>2, <2>3, <2>4, <3>1, <3>2, StillConveyed
  <2> QED BY <2>7, <2>8
<1> QED
  BY <1>7, <1>8, <1>9, <1>10, <1>11, <1>12 DEF Client

\* The steps of the engine's own task keep what is conveyed, when step does
\* not retry.
LEMMA TellAllConveys ==
  ASSUME EngineTyped, NEW r \in Requests, Conveyed(r), task' = task,
         stream' = stream, r \in reg, r \in reg',
         buffer'[r] = Put(buffer[r], Output(<< >>, TRUE, "error")),
         sch'.made[r] = sch.made[r], r \in Listed' => r \in Listed
  PROVE  Conveyed(r)'
<1> DEFINE o == Output(<< >>, TRUE, "error")
           new == Put(buffer[r], o)
           a == task[r].got
           b == Collected(r)
           c == stream[r].pending
<1>1. /\ Pipeline(r) = a \o b \o c
      /\ a \in Seq(1 .. Most) /\ b \in Seq(1 .. Most) /\ c \in Seq(1 .. Most)
  BY PipelineParts
<1>2. new # None /\ new.reason = "error" /\ new.toks = b \o << >>
  <2>1. o \in Outs
    BY OutputType, EmptySeq
  <2>2. o.reason = "error" /\ o.toks = << >>
    BY DEF Output
  <2> HIDE DEF o
  <2> QED BY <2>1, <2>2, PutFields
<1>3. buffer'[r] = new
  OBVIOUS
<1>4. r \in Added
  BY DEF EngineTyped
<1> HIDE DEF new
<1>5. Pipeline(r)' = Pipeline(r)
  <2>1. Pipeline(r)' = a \o (b \o << >>) \o c
    BY <1>2, <1>3 DEF Pipeline
  <2> HIDE DEF a, b, c
  <2>2. b \o << >> = b
    BY <1>1, ConcatEmptySeq
  <2> QED BY <1>1, <2>1, <2>2
<1>6. task[r].phase # "none" /\ ~ Natural(buffer'[r].reason)
  BY <1>2, <1>3, <1>4 DEF Added, Natural
<1> QED
  BY <1>5, <1>6, StillConveyed

\* A token that is passed on.
LEMMA PassedConveys ==
  ASSUME EngineTyped, NEW r \in Requests, Conveyed(r), task' = task, reg' = reg,
         r \in reg, r \in Listed, NEW t, Passed(r, t),
         t.made[r] = sch.made[r] + 1, t.made[r] \in 1 .. Most,
         sch'.made[r] = t.made[r],
         r \in Listed' => r \in Queued(t) \cup Active(t)
  PROVE  Conveyed(r)'
<1> DEFINE a == task[r].got
           b == Collected(r)
           c == stream[r].pending
           n == t.made[r]
<1>1. /\ Pipeline(r) = a \o b \o c
      /\ a \in Seq(1 .. Most) /\ b \in Seq(1 .. Most) /\ c \in Seq(1 .. Most)
      /\ Pipeline(r) \in Seq(1 .. Most)
  BY PipelineParts
<1>2. PICK fin \in {"none", "stop", "length"} :
        /\ fin # "none" => r \notin Queued(t) \cup Active(t)
        /\ Sent(r, n, fin) \/ (fin = "none" /\ Kept(r, n))
  BY DEF Passed
<1>3. /\ Waiting(r) /\ task[r].phase = "active" /\ Counting(Pipeline(r))
      /\ n = Len(Pipeline(r)) + 1 /\ ~ Natural(task[r].reason)
      /\ Generating(r) => task[r].got = << >>
      /\ ~ (buffer[r] # None /\ Natural(buffer[r].reason))
  <2>1. Waiting(r) /\ Counting(Pipeline(r)) /\ Len(Pipeline(r)) = sch.made[r]
    BY DEF Conveyed
  <2>2. task[r].phase = "active"
    BY <2>1 DEF Waiting, Streaming, Generating
  <2> QED BY <2>1, <2>2 DEF Conveyed
<1>4. Waiting(r)' /\ (Generating(r)' <=> Generating(r))
  BY <1>3 DEF Waiting, Streaming, Generating
<1>5. n \in 1 .. Most
  OBVIOUS
<1> DEFINE P == Append(Pipeline(r), n)
<1>6. Counting(P) /\ Len(P) = n
  <2> HIDE DEF n
  <2> QED BY <1>1, <1>3, <1>5, CountingNext
<1>7. /\ a \o b \o Append(c, n) = P
      /\ a \o (b \o Append(c, n)) \o << >> = P
  <2>1. P = Append(a \o b \o c, n)
    BY <1>1
  <2> DEFINE S == 1 .. Most
  <2>2. a \in Seq(S) /\ b \in Seq(S) /\ c \in Seq(S) /\ n \in S
    BY <1>1, <1>5
  <2> HIDE DEF S, n, a, b, c
  <2>3. Behind(a, b, c, n)
    BY <2>2, PutBehind
  <2> HIDE DEF P
  <2> QED BY <2>1, <2>3 DEF Behind
<1>8. ASSUME Pipeline(r)' = P,
             buffer'[r] # None /\ Natural(buffer'[r].reason) =>
               r \notin Listed' /\ stream'[r].pending = << >>
      PROVE  Conveyed(r)'
  <2> HIDE DEF P
  <2>1. Counting(Pipeline(r))' /\ Len(Pipeline(r))' = sch'.made[r]
    BY <1>6, <1>8 DEF Counting
  <2>2. (buffer[r] # None /\ Natural(buffer[r].reason) =>
         /\ r \notin Listed /\ stream[r].pending = << >>
         /\ Len(Pipeline(r)) = sch.made[r])'
    BY <1>8, <2>1 DEF Natural
  <2>3. ~ Natural(task[r].reason)' /\ task'[r].phase = "active"
    BY <1>3 DEF Natural
  <2>4. (Generating(r) => task[r].got = << >>)'
    BY <1>3, <1>4
  <2> QED BY <1>4, <2>1, <2>2, <2>3, <2>4 DEF Conveyed
<1>9. CASE Sent(r, n, fin)
  <2> DEFINE d == Append(c, n)
             done == fin # "none"
             o == Output(d, done, fin)
             new == Put(buffer[r], o)
  <2>1. d \in Seq(1 .. Most)
    <3> HIDE DEF c, n
    <3> QED BY <1>1, <1>5, AppendProperties
  <2>2. buffer'[r] = new /\ stream'[r].pending = << >>
    BY <1>9 DEF Sent
  <2>3. o \in Outs /\ o.reason = fin /\ o.toks = d
    <3>1. done \in BOOLEAN
      OBVIOUS
    <3> HIDE DEF done, d
    <3>2. o \in Outs
      BY <2>1, <3>1, OutputType
    <3> QED BY <3>2 DEF Output
  <2> HIDE DEF o
  <2>4. new # None /\ new.reason = fin /\ new.toks = b \o d
    <3> HIDE DEF d
    <3> QED BY <2>3, PutFields
  <2> HIDE DEF new
  <2>5. Pipeline(r)' = P
    <3>1. Pipeline(r)' = a \o (b \o d) \o << >>
      BY <2>2, <2>4 DEF Pipeline
    <3> QED BY <1>7, <3>1
  <2>6. buffer'[r] # None /\ Natural(buffer'[r].reason) =>
               r \notin Listed' /\ stream'[r].pending = << >>
    BY <1>2, <2>2, <2>4 DEF Natural
  <2> QED BY <1>8, <2>5, <2>6
<1>10. CASE Kept(r, n)
  <2>1. buffer'[r] = buffer[r] /\ stream'[r] = [stream[r] EXCEPT !.pending = Append(c, n)]
    BY <1>10 DEF Kept
  <2>2. stream'[r].pending = Append(c, n)
    <3> DEFINE d == Append(c, n)
    <3>1. stream'[r] = [stream[r] EXCEPT !.pending = d]
      BY <2>1
    <3>2. stream[r] \in Streams
      BY DEF EngineTyped
    <3> HIDE DEF d
    <3>3. stream'[r].pending = d
      BY <3>1, <3>2 DEF Streams
    <3> QED BY <3>3 DEF d
  <2>3. Pipeline(r)' = P
    <3>1. Pipeline(r)' = a \o b \o Append(c, n)
      BY <2>1, <2>2 DEF Pipeline, Collected
    <3> QED BY <1>7, <3>1
  <2>4. ~ (buffer'[r] # None /\ Natural(buffer'[r].reason))
    BY <1>3, <2>1
  <2> QED BY <1>8, <2>3, <2>4
<1> QED
  BY <1>2, <1>9, <1>10

LEMMA LoopConveys ==
  ASSUME EngineIInv, \A r \in Requests : Conveyed(r), "cache" \notin FaultKinds,
         EngineStep \/ Resume \/ Stop \/ LoopEnds \/ Close
  PROVE  \A r \in Requests : Conveyed(r)'
<1>1. EngineTyped /\ Sound(sch, Added) /\ reg \subseteq Added
  BY DEF EngineIInv, EngineTyped
<1>2. CASE EngineStep
  <2>1. PICK t \in Schedulers, A \in SUBSET Listed : Outcome(t, A)
    BY <1>2, EngineStepOutcome
  <2>2. task' = task /\ reg' = reg
    BY <1>2, EngineStepOutcome
  <2>3. /\ Thinned(t, sch') /\ OneMore(sch, t, A)
        /\ Queued(t) \cup Active(t) \subseteq Listed
        /\ \/ \E outs : Answers(t, outs, A) /\ Distribute(outs)
           \/ /\ A = {} /\ stream' = stream
              /\ \A r \in Requests :
                   buffer'[r] = IF r \in reg
                                THEN Put(buffer[r], Output(<< >>, TRUE, "error"))
                                ELSE buffer[r]
    BY <2>1 DEF Outcome
  <2>4. /\ sch'.made = t.made
        /\ Listed' \subseteq Queued(t) \cup Active(t)
        /\ Listed' \subseteq Listed
    BY <2>3 DEF Thinned, Listed, Queued, Active
  <2>5. A \in SUBSET Requests
    BY <1>1, ListsOf DEF Listed, Sound
  <2>6. CASE \E outs : Answers(t, outs, A) /\ Distribute(outs)
    <3>1. PICK outs : Answers(t, outs, A) /\ Distribute(outs)
      BY <2>6
    <3>2. /\ \A r \in Requests : IF r \in reg \cap A THEN Passed(r, t) ELSE Idle(r)
          /\ \A r \in A : t.made[r] \in 1 .. Most
      BY <1>1, <2>5, <3>1, DistributeFields
    <3> SUFFICES ASSUME NEW r \in Requests
                 PROVE  Conveyed(r)'
      OBVIOUS
    <3>3. Conveyed(r)
      OBVIOUS
    <3>4. CASE r \in reg \cap A
      <4>1. Passed(r, t) /\ t.made[r] \in 1 .. Most
        BY <3>2, <3>4
      <4>2. t.made[r] = sch.made[r] + 1
        BY <2>3, <3>4 DEF OneMore
      <4>3. r \in reg /\ r \in Listed
        BY <3>4
      <4>4. sch'.made[r] = t.made[r]
        BY <2>4
      <4> QED BY <1>1, <2>2, <2>4, <3>3, <4>1, <4>2, <4>3, <4>4, PassedConveys
    <3>5. CASE r \notin A
      <4>1. buffer'[r] = buffer[r] /\ stream'[r] = stream[r]
        BY <3>2, <3>5 DEF Idle
      <4>2. sch'.made[r] = sch.made[r]
        BY <2>3, <2>4, <3>5 DEF OneMore
      <4> QED BY <2>2, <2>4, <3>3, <4>1, <4>2, Unmoved
    <3>6. CASE r \in A /\ r \notin reg
      <4>1. buffer'[r] = buffer[r] /\ stream'[r] = stream[r]
        BY <3>2, <3>6 DEF Idle
      <4>2. Pipeline(r)' = Pipeline(r)
        BY <2>2, <4>1 DEF Pipeline
      <4>3. r \in Listed /\ ~ (buffer[r] # None /\ Natural(buffer[r].reason))
            /\ ~ Natural(task[r].reason)
        BY <3>3, <3>6 DEF Conveyed
      <4>4. Counting(Pipeline(r))'
        BY <3>3, <4>2 DEF Conveyed, Counting
      <4>5. /\ ~ (buffer[r] # None /\ Natural(buffer[r].reason))'
            /\ ~ Natural(task[r].reason)'
        BY <2>2, <4>1, <4>3 DEF Natural
      <4>6. (task[r].phase = "none" =>
               task[r].got = << >> /\ buffer[r] = None /\ stream[r].pending = << >>)'
        BY <2>2, <3>3, <4>1 DEF Conveyed
      <4>7. (Generating(r) => task[r].got = << >>)'
        BY <2>2, <3>3 DEF Conveyed, Generating
      <4> QED BY <2>2, <3>6, <4>4, <4>5, <4>6, <4>7 DEF Conveyed
    <3> QED BY <3>4, <3>5, <3>6
  <2>7. CASE /\ A = {} /\ stream' = stream
             /\ \A r \in Requests :
                  buffer'[r] = IF r \in reg
                               THEN Put(buffer[r], Output(<< >>, TRUE, "error"))
                               ELSE buffer[r]
    <3> SUFFICES ASSUME NEW r \in Requests
                 PROVE  Conveyed(r)'
      OBVIOUS
    <3>1. sch'.made[r] = sch.made[r] /\ Conveyed(r)
      BY <2>3, <2>4, <2>7 DEF OneMore
    <3>2. CASE r \in reg
      BY <1>1, <2>2, <2>4, <2>7, <3>1, <3>2, TellAllConveys
    <3>3. CASE r \notin reg
      BY <2>2, <2>4, <2>7, <3>1, <3>3, Unmoved
    <3> QED BY <3>2, <3>3
  <2> QED BY <2>3, <2>6, <2>7
<1>3. CASE Resume \/ Stop
  <2>1. UNCHANGED <<sch, reg, buffer, stream, task>>
    BY <1>3 DEF Resume, Stop
  <2>2. Listed' = Listed
    BY <2>1 DEF Listed
  <2> QED BY <2>1, <2>2, Unmoved
<1>4. CASE LoopEnds
  <2>1. reg' = reg /\ task' = task
    BY <1>4 DEF LoopEnds
  <2>2. CASE loop = "cancelled"
    <3>1. FailActive(sch, 0)
      BY <1>4, <2>2 DEF LoopEnds
    <3>2. faults + 0 <= MaxFaults
      BY <1>1, Constants DEF EngineTyped
    <3>3. /\ Thinned(sch, sch') /\ stream' = stream
          /\ \A r \in Requests :
               buffer'[r] = IF r \in reg
                            THEN Put(buffer[r], Output(<< >>, TRUE, "error"))
                            ELSE buffer[r]
      BY <1>1, <3>1, <3>2, FailActiveSound
    <3>4. Listed' \subseteq Listed /\ sch'.made = sch.made
      BY <3>3, ThinnedLists
    <3> SUFFICES ASSUME NEW r \in Requests
                 PROVE  Conveyed(r)'
      OBVIOUS
    <3>5. CASE r \in reg
      BY <1>1, <2>1, <3>3, <3>4, <3>5, TellAllConveys
    <3>6. CASE r \notin reg
      BY <2>1, <3>3, <3>4, <3>6, Unmoved
    <3> QED BY <3>5, <3>6
  <2>3. CASE loop # "cancelled"
    <3>1. UNCHANGED <<sch, buffer, stream>>
      BY <1>4, <2>3 DEF LoopEnds
    <3>2. Listed' = Listed
      BY <3>1 DEF Listed
    <3> QED BY <2>1, <3>1, <3>2, Unmoved
  <2> QED BY <2>2, <2>3
<1>5. CASE Close
  <2>1. /\ sch' = ResetAll(sch) /\ reg' = {} /\ task' = task
        /\ \A r \in Requests :
             /\ buffer'[r] = IF r \notin reg THEN buffer[r]
                             ELSE IF Streaming(r) THEN Output(<< >>, TRUE, "raised")
                             ELSE None
             /\ stream'[r].pending = << >>
    BY <1>5 DEF Close, FreshStream
  <2>2. Listed' = {} /\ sch'.made = sch.made
    <3> DEFINE t == ResetAll(sch)
    <3>1. Thinned(sch, t) /\ Queued(t) \cup Active(t) = {} /\ Sound(t, Added)
      BY <1>1, ResetSound
    <3>2. sch' = t
      BY <2>1
    <3> HIDE DEF t
    <3> QED BY <3>1, <3>2 DEF Listed, Queued, Active, Thinned
  <2> SUFFICES ASSUME NEW r \in Requests
               PROVE  Conveyed(r)'
    OBVIOUS
  <2> DEFINE a == task[r].got
             b == Collected(r)
             c == stream[r].pending
  <2>3. /\ Pipeline(r) = a \o b \o c
        /\ a \in Seq(1 .. Most) /\ b \in Seq(1 .. Most) /\ c \in Seq(1 .. Most)
    BY <1>1, PipelineParts
  <2>4. Conveyed(r) /\ Counting(Pipeline(r))
    BY DEF Conveyed
  <2> HIDE DEF a, b, c
  <2>5. Counting(a) /\ Counting(a \o b) /\ a \o b \in Seq(1 .. Most)
    <3>1. a \o b \in Seq(1 .. Most)
      BY <2>3, ConcatProperties
    <3>2. Counting(a \o b)
      BY <2>3, <2>4, <3>1, CountingStart
    <3> QED BY <2>3, <3>1, <3>2, CountingStart
  <2>6. CASE r \notin reg
    <3>1. buffer'[r] = buffer[r] /\ stream'[r].pending = << >>
      BY <2>1, <2>6
    <3>2. Pipeline(r)' = a \o b
      <4>1. Pipeline(r)' = a \o b \o << >>
        BY <2>1, <3>1 DEF Pipeline, Collected, a, b
      <4> QED BY <2>5, <4>1, ConcatEmptySeq
    <3>3. Counting(Pipeline(r))'
      BY <2>5, <3>2 DEF Counting
    <3>4. buffer[r] # None /\ Natural(buffer[r].reason) => Pipeline(r) = a \o b
      <4> SUFFICES ASSUME buffer[r] # None, Natural(buffer[r].reason)
                   PROVE  Pipeline(r) = a \o b
        OBVIOUS
      <4>1. c = << >>
        BY <2>4 DEF Conveyed, c
      <4>2. Pipeline(r) = a \o b \o << >>
        BY <2>3, <4>1
      <4> QED BY <2>5, <4>2, ConcatEmptySeq
    <3>5. (buffer[r] # None /\ Natural(buffer[r].reason) =>
             /\ r \notin Listed /\ stream[r].pending = << >>
             /\ Len(Pipeline(r)) = sch.made[r])'
      BY <2>2, <2>4, <3>1, <3>2, <3>4 DEF Conveyed, Natural
    <3>6. (Natural(task[r].reason) =>
             /\ task[r].phase = "done" /\ r \notin Listed
             /\ Len(task[r].got) = sch.made[r])'
      BY <2>1, <2>2, <2>4 DEF Conveyed, Natural
    <3>7. (task[r].phase = "none" =>
             task[r].got = << >> /\ buffer[r] = None /\ stream[r].pending = << >>)'
      BY <2>1, <2>4, <3>1 DEF Conveyed
    <3>8. (Generating(r) => task[r].got = << >>)'
      BY <2>1, <2>4 DEF Conveyed, Generating
    <3> QED BY <2>1, <3>3, <3>5, <3>6, <3>7, <3>8 DEF Conveyed
  <2>7. CASE r \in reg
    <3>1. /\ buffer'[r] = None \/ (buffer'[r].toks = << >> /\ buffer'[r].reason = "raised")
          /\ stream'[r].pending = << >>
      BY <2>1, <2>7 DEF Output
    <3>2. Pipeline(r)' = a
      <4>1. Pipeline(r)' = a \o << >> \o << >>
        BY <2>1, <3>1 DEF Pipeline, a
      <4> QED BY <2>3, <4>1, ConcatEmptySeq
    <3>3. Counting(Pipeline(r))'
      BY <2>5, <3>2 DEF Counting
    <3>4. ~ (buffer[r] # None /\ Natural(buffer[r].reason))'
      BY <3>1 DEF Natural
    <3>5. task[r].phase # "none"
      BY <1>1, <2>7 DEF Added
    <3>6. (Natural(task[r].reason) =>
             /\ task[r].phase = "done" /\ r \notin Listed
             /\ Len(task[r].got) = sch.made[r])'
      BY <2>1, <2>2, <2>4 DEF Conveyed, Natural
    <3>7. (Generating(r) => task[r].got = << >>)'
      BY <2>1, <2>4 DEF Conveyed, Generating
    <3> QED BY <2>1, <3>3, <3>4, <3>5, <3>6, <3>7 DEF Conveyed
  <2> QED BY <2>6, <2>7
<1> QED
  BY <1>2, <1>3, <1>4, <1>5

LEMMA DeliveredInitSound == EngineInit => DeliveredIInv
<1> SUFFICES ASSUME EngineInit
             PROVE  DeliveredIInv
  OBVIOUS
<1>1. EngineIInv
  BY EngineInitSound
<1>2. ASSUME NEW r \in Requests
      PROVE  Conveyed(r)
  <2>1. /\ task[r] = NoTask /\ buffer[r] = None /\ stream[r] = FreshStream
        /\ reg = {}
    BY DEF EngineInit
  <2>2. /\ task[r].phase = "none" /\ task[r].got = << >> /\ task[r].reason = "none"
        /\ stream[r].pending = << >>
    BY <2>1 DEF NoTask, FreshStream
  <2>3. Pipeline(r) = << >>
    <3>1. Pipeline(r) = << >> \o << >> \o << >>
      BY <2>1, <2>2 DEF Pipeline
    <3> QED BY <3>1, ConcatEmptySeq, EmptySeq
  <2>4. Counting(Pipeline(r))
    BY <2>3 DEF Counting
  <2> QED BY <2>1, <2>2, <2>4 DEF Conveyed, Natural
<1> QED
  BY <1>1, <1>2 DEF DeliveredIInv

LEMMA DeliveredNextSound ==
  ASSUME "cache" \notin FaultKinds
  PROVE  DeliveredIInv /\ [ShutdownNext]_evars => DeliveredIInv'
<1> SUFFICES ASSUME DeliveredIInv, [ShutdownNext]_evars
             PROVE  DeliveredIInv'
  OBVIOUS
<1>1. EngineIInv /\ \A r \in Requests : Conveyed(r)
  BY DEF DeliveredIInv
<1>2. EngineIInv'
  BY <1>1, EngineNextSound
<1>3. CASE \E r \in Requests : Client(r)
  <2>1. \A r \in Requests : Conveyed(r)'
    BY <1>1, <1>3, ClientConveys
  <2> QED BY <1>2, <2>1 DEF DeliveredIInv
<1>4. CASE EngineStep \/ Resume \/ Stop \/ LoopEnds \/ Close
  <2>1. \A r \in Requests : Conveyed(r)'
    BY <1>1, <1>4, LoopConveys
  <2> QED BY <1>2, <2>1 DEF DeliveredIInv
<1>5. CASE UNCHANGED evars
  <2>1. UNCHANGED <<sch, faults, loop, reg, buffer, event, stream, task>>
    BY <1>5 DEF evars
  <2>2. Listed' = Listed
    BY <2>1 DEF Listed
  <2>3. \A r \in Requests : Conveyed(r)'
    BY <1>1, <2>1, <2>2, Unmoved
  <2> QED BY <1>2, <2>3 DEF DeliveredIInv
<1> QED
  BY <1>3, <1>4, <1>5 DEF ShutdownNext, ServeNext

\* A consumer gets every token once and in order, and all of them when its
\* request ends with stop or length (Delivered), whatever else fails, whoever
\* leaves, and however the engine is stopped.  After a failure that step
\* retries, a request starts again from its prompt and its tokens are handed
\* out a second time, so that kind of fault is excluded.
THEOREM EngineDelivered ==
  ASSUME "cache" \notin FaultKinds
  PROVE  ShutdownSpec => []Delivered
<1>1. EngineInit => DeliveredIInv
  BY DeliveredInitSound
<1>2. DeliveredIInv /\ [ShutdownNext]_evars => DeliveredIInv'
  BY DeliveredNextSound
<1>3. DeliveredIInv => Delivered
  <2> SUFFICES ASSUME DeliveredIInv, NEW r \in Requests
               PROVE  /\ \A i \in 1 .. Len(Pipeline(r)) : Pipeline(r)[i] = i
                      /\ task[r].reason \in {"stop", "length"} =>
                           Len(task[r].got) = sch.made[r]
    BY DEF Delivered
  <2>1. Conveyed(r)
    BY DEF DeliveredIInv
  <2> QED BY <2>1 DEF Conveyed, Counting, Natural
<1> QED
  BY <1>1, <1>2, <1>3, PTL DEF ShutdownSpec
=============================================================================
