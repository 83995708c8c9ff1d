------------------------------ MODULE ServerProofs ------------------------------
(***************************************************************************)
(* The two parts of the server process that surround generation.           *)
(*                                                                         *)
(* Sleep and wake: however many calls there are, the middleware of the     *)
(* server loads one model at a time.  A request that wakes a sleeping      *)
(* server has the lock until its load has ended, and only the call that    *)
(* has the lock hands it on: the wake endpoint, which takes no lock, gives *)
(* back none, and a deep sleep that waits for its engine to stop has the   *)
(* lock as well.  A second part adds what the steps of a call know of the  *)
(* engine and of the cache limit, for an active server to serve at its     *)
(* limit; a third one the lanes of the simple engine, for a cancel to stop *)
(* its own request only.                                                   *)
(*                                                                         *)
(* Tool servers: what their clients hold open, and what a request gives    *)
(* back and leaves in the log.                                             *)
(***************************************************************************)
EXTENDS SimpleEngine, Mcp, ListsProofs

LoadingPlaces == {"drop", "construct", "start", "starting", "wired", "ready"}

\* The calls that must have the lock.
Owns(c) == (call[c].kind = "infer" /\ Loading(c)) \/ At(c, "stopping")

IInv ==
  /\ lock \in Seq(Calls)
  /\ DOMAIN call = Calls
  /\ \A c \in Calls : Owns(c) => Holds(c)

-------------------------------------------------------------------------------
\* A call behind the lock does not change who has it; the one that has it
\* hands it on.
LEMMA LockFacts ==
  ASSUME NEW q \in Seq(Calls), NEW c \in Calls
  PROVE  /\ Append(q, c) \in Seq(Calls)
         /\ q # << >> => Append(q, c) # << >> /\ Head(Append(q, c)) = Head(q)
         /\ q # << >> => Tail(q) \in Seq(Calls)
<1>1. /\ Append(q, c) \in Seq(Calls) /\ Append(q, c) # << >>
      /\ Len(q) > 0 => Append(q, c)[1] = q[1]
  BY AppendProperties, LenProperties
<1>2. q # << >> => Len(q) > 0 /\ Tail(q) \in Seq(Calls) /\ Head(q) = q[1]
  BY HeadTailProperties, LenProperties, EmptySeq
<1>3. QED  BY <1>1, <1>2

\* A step of one call, seen from the lock: the call owns it only while it has
\* it, and hands it on only when it has it and owns it no more.
LockStep(c) ==
  /\ DOMAIN call' = Calls
  /\ \A d \in Calls : d # c => call'[d] = call[d]
  /\ \/ lock' = lock /\ (Owns(c)' => Holds(c))
     \/ lock' = Append(lock, c) /\ ~ Owns(c)'
     \/ lock' = Tail(lock) /\ Holds(c) /\ ~ Owns(c)'

LEMMA LockStepIInv ==
  ASSUME IInv, NEW c \in Calls, LockStep(c)
  PROVE  IInv'
<1> USE DEF IInv
<1>1. \A d \in Calls : d # c => (Owns(d)' <=> Owns(d))
  BY DEF LockStep, Owns, Loading, At
<1>2. CASE lock' = lock /\ (Owns(c)' => Holds(c))
  BY <1>1, <1>2 DEF LockStep, Holds
<1>3. CASE lock' = Append(lock, c) /\ ~ Owns(c)'
  BY <1>1, <1>3, LockFacts DEF LockStep, Holds
<1>4. CASE lock' = Tail(lock) /\ Holds(c) /\ ~ Owns(c)'
  <2>1. \A d \in Calls : ~ Owns(d)'
    BY <1>1, <1>4 DEF Holds
  <2>2. lock' \in Seq(Calls)
    BY <1>4, LockFacts DEF Holds
  <2>3. QED  BY <2>1, <2>2 DEF LockStep
<1>5. QED  BY <1>2, <1>3, <1>4 DEF LockStep

\* A call goes to another place and remains the call it is.
Moved(c, pc) ==
  /\ DOMAIN call' = Calls
  /\ \A d \in Calls : d # c => call'[d] = call[d]
  /\ call'[c].kind = call[c].kind /\ call'[c].pc = pc

LEMMA MovedFacts ==
  ASSUME DOMAIN call = Calls, NEW c \in Calls, NEW pc, NEW e,
         \/ Goto(c, pc)
         \/ call' = [call EXCEPT ![c].pc = pc, ![c].eng = e]
         \/ call' = [call EXCEPT ![c].eng = e, ![c].pc = pc]
  PROVE  Moved(c, pc)
<1>1. CASE Goto(c, pc)
  BY <1>1 DEF Goto, Moved
<1>2. CASE call' = [call EXCEPT ![c].pc = pc, ![c].eng = e]
  BY <1>2 DEF Moved
<1>3. CASE call' = [call EXCEPT ![c].eng = e, ![c].pc = pc]
  BY <1>3 DEF Moved
<1>4. QED  BY <1>1, <1>2, <1>3

\* The lock stays as it is.
LEMMA KeepStep ==
  ASSUME NEW c \in Calls, NEW pc, Moved(c, pc), lock' = lock,
         \/ pc \notin LoadingPlaces \cup {"stopping"}
         \/ pc # "stopping" /\ call[c].kind # "infer"
         \/ Holds(c)
  PROVE  LockStep(c)
BY DEF LockStep, Moved, Owns, Loading, LoadingPlaces, At, Holds

\* It is handed on.
LEMMA HandStep ==
  ASSUME NEW c \in Calls, NEW pc, Moved(c, pc), lock' = Tail(lock), Holds(c),
         pc \notin LoadingPlaces \cup {"stopping"}
  PROVE  LockStep(c)
BY DEF LockStep, Moved, Owns, Loading, LoadingPlaces, At, Holds

-------------------------------------------------------------------------------
(* The wake.                                                               *)

\* The middleware wakes the server when it has the lock, the wake endpoint is
\* no inference request.
LEMMA WakeStep ==
  ASSUME IInv, NEW c \in Calls, NEW resume,
         resume \notin LoadingPlaces \cup {"stopping"}, Wake(c, resume),
         Holds(c) \/ call[c].kind # "infer"
  PROVE  LockStep(c)
<1>1. CASE standby = "soft"
  <2>1. Moved(c, resume) /\ lock' = IF Holds(c) THEN Tail(lock) ELSE lock
    BY <1>1, MovedFacts DEF Wake, IInv
  <2>2. QED  BY <2>1, KeepStep, HandStep
<1>2. CASE standby = "deep"
  <2>1. Moved(c, "drop") /\ lock' = lock
    BY <1>2, MovedFacts DEF Wake, IInv
  <2>2. QED  BY <2>1, KeepStep
<1>3. QED  BY <1>1, <1>2 DEF Wake

\* A load that has ended, or failed.
LEMMA LoadEndStep ==
  ASSUME IInv, NEW c \in Calls, NEW pc, pc \notin LoadingPlaces \cup {"stopping"},
         Moved(c, pc), lock' = IF Holds(c) THEN Tail(lock) ELSE lock
  PROVE  LockStep(c)
BY KeepStep, HandStep

LEMMA SleepStepLock ==
  ASSUME IInv, NEW c \in Calls, SleepStep(c)
  PROVE  LockStep(c)
<1> USE DEF IInv
<1>1. CASE WakeCall(c)
  <2>1. CASE Wake(c, "done")
    BY <1>1, <2>1, WakeStep DEF WakeCall, LoadingPlaces
  <2>2. CASE Goto(c, "done") /\ UNCHANGED lock
    <3>1. Moved(c, "done")
      BY <2>2, MovedFacts
    <3>2. QED  BY <2>2, <3>1, KeepStep DEF LoadingPlaces
  <2>3. QED  BY <1>1, <2>1, <2>2 DEF WakeCall
<1>2. CASE JitWake(c)
  <2>1. CASE Wake(c, "handler")
    BY <1>2, <2>1, WakeStep DEF JitWake, LoadingPlaces
  <2>2. CASE Goto(c, "handler") /\ lock' = Tail(lock)
    <3>1. Moved(c, "handler")
      BY <2>2, MovedFacts
    <3>2. QED  BY <1>2, <2>2, <3>1, HandStep DEF JitWake, LoadingPlaces
  <2>3. QED  BY <1>2, <2>1, <2>2 DEF JitWake
<1>3. CASE GetEngine(c) \/ UseEngine(c) \/ Answer(c)
  <2>1. lock' = lock /\ (Moved(c, "done") \/ Moved(c, "use") \/ Moved(c, "run"))
    BY <1>3, MovedFacts DEF GetEngine, UseEngine, Answer
  <2>2. QED  BY <2>1, KeepStep DEF LoadingPlaces
<1>4. CASE SleepRefused(c) \/ SoftSleep(c)
  <2>1. lock' = Tail(lock) /\ Holds(c) /\ Moved(c, "done")
    BY <1>4, MovedFacts DEF SleepRefused, SoftSleep
  <2>2. QED  BY <2>1, HandStep DEF LoadingPlaces
<1>5. CASE DeepSleep(c)
  <2>1. Holds(c) /\ \/ lock' = lock /\ Moved(c, "stopping")
                    \/ lock' = Tail(lock) /\ Moved(c, "done")
    BY <1>5, MovedFacts DEF DeepSleep
  <2>2. QED  BY <2>1, KeepStep, HandStep DEF LoadingPlaces
<1>6. CASE DeepStopped(c)
  <2>1. Holds(c) /\ lock' = Tail(lock) /\ Moved(c, "done")
    BY <1>6, MovedFacts DEF DeepStopped, Owns
  <2>2. QED  BY <2>1, HandStep DEF LoadingPlaces
<1>7. CASE LoadDrop(c) \/ LoadConstruct(c) \/ LoadStart(c) \/ LoadStarted(c)
  <2>1. /\ Loading(c) /\ lock' = lock
        /\ \/ Moved(c, "construct") \/ Moved(c, "wired") \/ Moved(c, "start")
           \/ Moved(c, "starting")
    <3>1. CASE LoadDrop(c)
      BY <3>1, MovedFacts DEF LoadDrop, Loading, At
    <3>2. CASE LoadConstruct(c)
      <4>1. Moved(c, IF batching THEN "wired" ELSE "start")
        BY <3>2, MovedFacts DEF LoadConstruct
      <4>2. QED  BY <3>2, <4>1 DEF LoadConstruct, Loading, At
    <3>3. CASE LoadStart(c)
      BY <3>3, MovedFacts DEF LoadStart, Loading, At
    <3>4. CASE LoadStarted(c)
      BY <3>4, MovedFacts DEF LoadStarted, Loading, At
    <3>5. QED  BY <1>7, <3>1, <3>2, <3>3, <3>4
  <2>2. Holds(c) \/ call[c].kind # "infer"
    BY <2>1 DEF Owns
  <2>3. QED  BY <2>1, <2>2, KeepStep
<1>8. CASE Loaded(c) \/ LoadFails(c)
  <2>1. /\ lock' = IF Holds(c) THEN Tail(lock) ELSE lock
        /\ Moved(c, "handler") \/ Moved(c, "done")
    BY <1>8, MovedFacts DEF Loaded, LoadFails, WakeEnds
  <2>2. QED  BY <2>1, LoadEndStep DEF LoadingPlaces
<1>9. QED
  BY <1>1, <1>2, <1>3, <1>4, <1>5, <1>6, <1>7, <1>8 DEF SleepStep

-------------------------------------------------------------------------------
(* All steps.                                                              *)

\* What a request does with a simple engine has nothing to do with the lock.
LEMMA ProceedLock ==
  ASSUME IInv, NEW c \in Calls, Proceed(c)
  PROVE  LockStep(c)
<1> USE DEF IInv
<1>1. CASE SleepStep(c)
  BY <1>1, SleepStepLock
<1>2. CASE LoadWire(c)
  <2>1. Loading(c) /\ lock' = lock /\ Moved(c, "ready")
    BY <1>2, MovedFacts DEF LoadWire, Loading, At
  <2>2. Holds(c) \/ call[c].kind # "infer"
    BY <2>1 DEF Owns
  <2>3. QED  BY <2>1, <2>2, KeepStep
<1>3. ASSUME NEW mode, Enter(c, mode) PROVE LockStep(c)
  <2>1. lock' = lock /\ (Moved(c, "thread") \/ Moved(c, "waiting"))
    BY <1>3, MovedFacts DEF Enter, SleepUnchanged
  <2>2. QED  BY <2>1, KeepStep DEF LoadingPlaces
<1>4. ASSUME NEW l, NEW how, End(c, l, how) PROVE LockStep(c)
  <2>1. lock' = lock /\ Moved(c, "done")
    BY <1>4, MovedFacts DEF End, SleepUnchanged
  <2>2. QED  BY <2>1, KeepStep DEF LoadingPlaces
<1>5. CASE Acquire(c)
  <2>1. CASE Goto(c, "thread") /\ SleepUnchanged
    <3>1. lock' = lock /\ Moved(c, "thread")
      BY <2>1, MovedFacts DEF SleepUnchanged
    <3>2. QED  BY <3>1, KeepStep DEF LoadingPlaces
  <2>2. QED  BY <1>5, <1>4, <2>1 DEF Acquire
<1>6. CASE Token(c)
  <2>1. lock' = lock /\ call' = call /\ At(c, "thread")
    BY <1>6 DEF Token, SleepUnchanged
  <2>2. QED  BY <2>1 DEF LockStep, Owns, Loading, At
<1>7. CASE Aborted(c) \/ Ends(c) \/ Raises(c)
  BY <1>7, <1>4 DEF Aborted, Ends, Raises
<1>8. CASE OrphanEnds(c)
  <2>1. lock' = lock /\ Moved(c, "done")
    BY <1>8, MovedFacts DEF OrphanEnds, SleepUnchanged
  <2>2. QED  BY <2>1, KeepStep DEF LoadingPlaces
<1>9. QED
  BY <1>1, <1>2, <1>3, <1>5, <1>6, <1>7, <1>8 DEF Proceed

\* Calls arrive at the end of the queue.
LEMMA EnvironmentLock ==
  ASSUME IInv, NEW c \in Calls, Environment(c)
  PROVE  LockStep(c)
<1> USE DEF IInv
<1>1. ASSUME NEW kind, Arrive(c, kind) PROVE LockStep(c)
  <2>1. /\ lock' = lock \/ lock' = Append(lock, c)
        /\ DOMAIN call' = Calls /\ \A d \in Calls : d # c => call'[d] = call[d]
        /\ call'[c].pc \in {"queued", "handler", "begin"}
    BY <1>1 DEF Arrive
  <2>2. ~ Owns(c)'
    BY <2>1 DEF Owns, Loading, At
  <2>3. QED  BY <2>1, <2>2 DEF LockStep
<1>2. ASSUME NEW d \in Calls, Cancel(c, d) PROVE LockStep(c)
  <2>1. /\ lock' = lock
        /\ DOMAIN call' = Calls /\ \A k \in Calls : k # c => call'[k] = call[k]
        /\ call'[c].pc = "done"
    BY <1>2 DEF Cancel, SleepUnchanged
  <2>2. ~ Owns(c)'
    BY <2>1 DEF Owns, Loading, At
  <2>3. QED  BY <2>1, <2>2 DEF LockStep
<1>3. ASSUME NEW computes, Leave(c, computes) PROVE LockStep(c)
  <2>1. lock' = lock /\ (Moved(c, "orphan") \/ Moved(c, "done"))
    <3>1. CASE Goto(c, "orphan") /\ SleepUnchanged
      BY <3>1, MovedFacts DEF SleepUnchanged
    <3>2. CASE End(c, MyLane(c), "left")
      BY <3>2, MovedFacts DEF End, SleepUnchanged
    <3>3. QED  BY <1>3, <3>1, <3>2 DEF Leave
  <2>2. QED  BY <2>1, KeepStep DEF LoadingPlaces
<1>4. QED  BY <1>1, <1>2, <1>3 DEF Environment

\* A call that owns the lock has it.
LEMMA Inductive == (Init => IInv) /\ (IInv /\ [Next]_vars => IInv')
<1>1. Init => IInv
  BY DEF Init, SleepInit, NoCall, IInv, Owns, Loading, At
<1>2. ASSUME IInv, UNCHANGED vars PROVE IInv'
  BY <1>2 DEF vars, svars, IInv, Owns, Loading, At, Holds
<1>3. ASSUME IInv, Next PROVE IInv'
  BY <1>3, ProceedLock, EnvironmentLock, LockStepIInv DEF Next
<1>4. QED  BY <1>1, <1>2, <1>3

\* The middleware loads one model at a time, however many requests arrive at a
\* sleeping server and however the loads of others end
\* (_wake_lock in server.py).
THEOREM OneLoadAtATime == Spec => []MiddlewareLoadsOnce
<1>1. IInv => MiddlewareLoadsOnce
  BY DEF IInv, Owns, Holds, MiddlewareLoadsOnce
<1>2. QED  BY <1>1, Inductive, PTL DEF Spec
-------------------------------------------------------------------------------
(* What a call may be doing, and the limit and the engine of a server that *)
(* only the middleware wakes: the inductive invariant.                     *)

Places ==
  LoadingPlaces \cup
  {"none", "begin", "queued", "handler", "use", "run", "waiting", "thread",
   "orphan", "stopping", "done"}

CallType == [kind : Kinds \cup {"none"}, pc : Places, eng : EngineIds \cup {None}]

\* Only some calls load a model, and one that works with an engine has it.
Fits(k) ==
  /\ k.pc = "none" => k.kind = "none"
  /\ k.pc \in LoadingPlaces => k.kind \in {"infer", "wake"}
  /\ k.pc \in {"starting", "use", "run", "waiting", "thread", "orphan"} => k.eng # None

\* The calls that will not construct an engine.  There were as many engines at
\* most as there are calls that have come to where they constructed one.
PastPlaces == Places \ {"none", "begin", "queued", "drop", "construct"}
Past == {c \in Calls : call[c].pc \in PastPlaces}

SleepTyped ==
  /\ standby \in {"active", "soft", "deep"}
  /\ engine \in EngineIds \cup {None}
  /\ loaded \subseteq EngineIds /\ native \subseteq EngineIds
  /\ error \in BOOLEAN
  /\ limit \in {"normal", "low"} /\ saved \in {"normal", "low", None}

CallsTyped ==
  /\ call \in [Calls -> CallType]
  /\ \A c \in Calls : Fits(call[c])
  /\ made \in Nat /\ made <= Cardinality(Past)

\* The limit is low as long as there is one to restore, a load finds the server
\* asleep with its limit restored and, when it has ended, its engine wired.
Serving ==
  /\ \/ saved = None /\ limit = "normal"
     \/ saved = "normal" /\ limit = "low"
  /\ \A c \in Calls : Loading(c) => standby = "deep" /\ saved = None
  /\ \A c \in Calls : At(c, "stopping") => standby # "deep"
  /\ \A c \in Calls : At(c, "ready") => engine \in native
  /\ standby = "active" /\ (\A c \in Calls : ~ At(c, "stopping")) => saved = None
  /\ standby # "deep" => engine \in native \/ error

SleepIInv == SleepTyped /\ CallsTyped /\ (JitOnly => Serving)

-------------------------------------------------------------------------------
(* The lanes of the engines.                                               *)

\* A request in the thread is at the head of its lane, and when it is a stream
\* of a text model a flag that is set is for it.
LaneIInv ==
  /\ SimpleTypeOK
  /\ \A c \in Calls : At(c, "none") => chat[c].target = None
  /\ \A c \in Calls : At(c, "thread") =>
       MyLane(c).queue # << >> /\ Head(MyLane(c).queue) = c
  /\ ~ mllm => \A c \in Calls :
       At(c, "thread") /\ Streams(c) =>
         /\ MyLane(c).current = c
         /\ MyLane(c).abort => \E d \in Calls : chat[d].target = c
  /\ ~ mllm => \A d \in Calls :
       chat[d].end = "abort" => \E c \in Calls : chat[c].target = d

-------------------------------------------------------------------------------
(* What a step of one call does to it.                                     *)

Moves(c, pc, e) ==
  /\ call' \in [Calls -> CallType]
  /\ \A d \in Calls : d # c => call'[d] = call[d]
  /\ call'[c] = [kind |-> call[c].kind, pc |-> pc, eng |-> e]

LEMMA MovesFacts ==
  ASSUME call \in [Calls -> CallType], NEW c \in Calls, NEW pc \in Places,
         NEW e \in EngineIds \cup {None},
         \/ Goto(c, pc) /\ e = call[c].eng
         \/ call' = [call EXCEPT ![c].pc = pc, ![c].eng = e]
         \/ call' = [call EXCEPT ![c].eng = e, ![c].pc = pc]
  PROVE  Moves(c, pc, e)
<1> DEFINE k == [kind |-> call[c].kind, pc |-> pc, eng |-> e]
<1>1. call[c] \in CallType
  OBVIOUS
<1>2. k \in CallType
  BY <1>1 DEF CallType
<1>3. call' = [call EXCEPT ![c] = k]
  <2>1. CASE Goto(c, pc) /\ e = call[c].eng
    BY <1>1, <2>1 DEF Goto, CallType
  <2> DEFINE g == [call EXCEPT ![c].pc = pc]
             h == [call EXCEPT ![c].eng = e]
  <2>2. CASE call' = [call EXCEPT ![c].pc = pc, ![c].eng = e]
    <3>1. /\ DOMAIN g = Calls /\ \A d \in Calls : d # c => g[d] = call[d]
          /\ g[c] = [kind |-> call[c].kind, pc |-> pc, eng |-> call[c].eng]
      BY <1>1 DEF CallType
    <3>2. call' = [g EXCEPT ![c].eng = e]
      BY <2>2
    <3> HIDE DEF g
    <3>3. [g[c] EXCEPT !.eng = e] = k
      BY <3>1
    <3>4. call' = [g EXCEPT ![c] = k]
      BY <3>2, <3>3
    <3> HIDE DEF k
    <3> QED BY <3>1, <3>4
  <2>3. CASE call' = [call EXCEPT ![c].eng = e, ![c].pc = pc]
    <3>1. /\ DOMAIN h = Calls /\ \A d \in Calls : d # c => h[d] = call[d]
          /\ h[c] = [kind |-> call[c].kind, pc |-> call[c].pc, eng |-> e]
      BY <1>1 DEF CallType
    <3>2. call' = [h EXCEPT ![c].pc = pc]
      BY <2>3
    <3> HIDE DEF h
    <3>3. [h[c] EXCEPT !.pc = pc] = k
      BY <3>1
    <3>4. call' = [h EXCEPT ![c] = k]
      BY <3>2, <3>3
    <3> HIDE DEF k
    <3> QED BY <3>1, <3>4
  <2> QED BY <2>1, <2>2, <2>3
<1> HIDE DEF k
<1>4. call' \in [Calls -> CallType] /\ call'[c] = k
      /\ \A d \in Calls : d # c => call'[d] = call[d]
  BY <1>2, <1>3
<1> QED
  BY <1>4 DEF Moves, k

\* The kind of a call and the engine it works with, before and after.
LEMMA CallFacts ==
  ASSUME SleepIInv, NEW c \in Calls
  PROVE  /\ call[c] \in CallType /\ call \in [Calls -> CallType]
         /\ call[c].kind \in Kinds \cup {"none"} /\ call[c].pc \in Places
         /\ call[c].eng \in EngineIds \cup {None} /\ Fits(call[c])
         /\ None \in EngineIds \cup {None} /\ engine \in EngineIds \cup {None}
         /\ None \notin EngineIds
<1>1. call[c] \in CallType /\ call \in [Calls -> CallType] /\ Fits(call[c])
  BY DEF SleepIInv, CallsTyped
<1>2. engine \in EngineIds \cup {None} /\ None \notin EngineIds
  BY SleepAssumption DEF SleepIInv, SleepTyped, EngineIds
<1> QED
  BY <1>1, <1>2 DEF CallType

\* There are no more calls that have come far enough than calls.
LEMMA PastFacts ==
  /\ Cardinality(Calls) \in Nat
  /\ \A P \in SUBSET Calls : /\ IsFiniteSet(P) /\ Cardinality(P) \in Nat
                             /\ Cardinality(P) <= Cardinality(Calls)
  /\ \A P, Q \in SUBSET Calls : P \subseteq Q => Cardinality(P) <= Cardinality(Q)
  /\ \A P \in SUBSET Calls : \A c \in Calls \ P :
       Cardinality(P \cup {c}) = Cardinality(P) + 1
<1>1. IsFiniteSet(Calls)
  BY SleepAssumption
<1>2. ASSUME NEW P \in SUBSET Calls
      PROVE  /\ IsFiniteSet(P) /\ Cardinality(P) \in Nat
             /\ Cardinality(P) <= Cardinality(Calls)
  BY <1>1, FS_Subset, FS_CardinalityType
<1>3. ASSUME NEW P \in SUBSET Calls, NEW Q \in SUBSET Calls, P \subseteq Q
      PROVE  Cardinality(P) <= Cardinality(Q)
  BY <1>2, <1>3, FS_Subset
<1>4. ASSUME NEW P \in SUBSET Calls, NEW c \in Calls \ P
      PROVE  Cardinality(P \cup {c}) = Cardinality(P) + 1
  BY <1>2, FS_AddElement
<1> QED
  BY <1>1, <1>2, <1>3, <1>4, FS_CardinalityType

\* What the other calls do does not change.
LEMMA Moving ==
  ASSUME SleepIInv, NEW c \in Calls, NEW pc, NEW e, Moves(c, pc, e),
         Fits([kind |-> call[c].kind, pc |-> pc, eng |-> e]),
         call[c].pc \in PastPlaces => pc \in PastPlaces, made' = made
  PROVE  /\ CallsTyped' /\ (JitOnly' => JitOnly)
         /\ \A d \in Calls : d # c => call'[d] = call[d]
         /\ call'[c].pc = pc /\ call'[c].kind = call[c].kind /\ call'[c].eng = e
<1>1. /\ call' \in [Calls -> CallType] /\ \A d \in Calls : d # c => call'[d] = call[d]
      /\ call'[c] = [kind |-> call[c].kind, pc |-> pc, eng |-> e]
  BY DEF Moves
<1>2. /\ call'[c].pc = pc /\ call'[c].kind = call[c].kind /\ call'[c].eng = e
      /\ Fits(call'[c])
  BY <1>1
<1>3. \A d \in Calls : Fits(call'[d])
  BY <1>1, <1>2 DEF SleepIInv, CallsTyped
<1>4. Past \subseteq Past' /\ Past' \subseteq Calls
  BY <1>1, <1>2 DEF Past
<1>5. Cardinality(Past) <= Cardinality(Past') /\ Cardinality(Past') \in Nat
      /\ Cardinality(Past) \in Nat
  BY <1>4, PastFacts
<1>6. made' \in Nat /\ made' <= Cardinality(Past')
  BY <1>5 DEF SleepIInv, CallsTyped
<1>7. CallsTyped'
  BY <1>1, <1>3, <1>6 DEF CallsTyped
<1>8. JitOnly' => JitOnly
  BY <1>1, <1>2 DEF JitOnly
<1> QED
  BY <1>1, <1>2, <1>7, <1>8

\* The call that has the lock is the only one that loads or stops an engine,
\* and one that loads has it.
LEMMA Alone ==
  ASSUME IInv, SleepIInv, JitOnly, NEW c \in Calls, Loading(c) \/ Holds(c)
  PROVE  /\ Holds(c)
         /\ \A d \in Calls : Loading(d) \/ At(d, "stopping") => d = c
<1>1. ASSUME NEW d \in Calls, Loading(d) PROVE Owns(d)
  <2>1. call[d].kind \in {"infer", "wake"}
    BY <1>1, CallFacts DEF Fits, Loading, LoadingPlaces
  <2> QED BY <1>1, <2>1 DEF JitOnly, Owns
<1>2. Holds(c)
  BY <1>1 DEF IInv
<1>3. \A d \in Calls : Loading(d) \/ At(d, "stopping") => Holds(d)
  BY <1>1 DEF IInv, Owns
<1> QED
  BY <1>2, <1>3 DEF Holds

-------------------------------------------------------------------------------
(* The steps of sleeps and wakes.                                          *)

\* A step that is no part of a sleep or of a wake.
LEMMA Quiet ==
  ASSUME SleepIInv, NEW c \in Calls, CallsTyped', JitOnly' => JitOnly,
         \A d \in Calls : d # c => call'[d] = call[d],
         ~ Loading(c)', ~ At(c, "stopping")', ~ At(c, "stopping"),
         UNCHANGED <<standby, engine, error, limit, saved, native>>,
         loaded' \subseteq EngineIds
  PROVE  SleepIInv'
<1>1. SleepTyped'
  BY DEF SleepIInv, SleepTyped
<1>2. \A d \in Calls : /\ Loading(d)' => Loading(d)
                       /\ At(d, "stopping")' <=> At(d, "stopping")
                       /\ At(d, "ready")' => At(d, "ready")
  BY DEF Loading, At
<1>3. ASSUME JitOnly' PROVE Serving'
  <2>1. Serving
    BY <1>3 DEF SleepIInv
  <2> QED BY <1>2, <2>1 DEF Serving
<1> QED
  BY <1>1, <1>3 DEF SleepIInv

LEMMA QuietMove ==
  ASSUME SleepIInv, NEW c \in Calls, NEW pc, NEW e, Moves(c, pc, e),
         Fits([kind |-> call[c].kind, pc |-> pc, eng |-> e]),
         call[c].pc \in PastPlaces => pc \in PastPlaces,
         pc \notin LoadingPlaces \cup {"stopping"}, ~ At(c, "stopping"),
         UNCHANGED <<standby, engine, made, error, limit, saved, native>>,
         loaded' \subseteq EngineIds
  PROVE  SleepIInv'
<1>1. /\ CallsTyped' /\ (JitOnly' => JitOnly)
      /\ \A d \in Calls : d # c => call'[d] = call[d]
      /\ call'[c].pc = pc
  BY Moving
<1>2. ~ Loading(c)' /\ ~ At(c, "stopping")'
  BY <1>1 DEF Loading, LoadingPlaces, At
<1> QED
  BY <1>1, <1>2, Quiet

\* The part of Serving that a step under the lock has to establish: no other
\* call loads or stops an engine.
LEMMA ServingAlone ==
  ASSUME NEW c \in Calls,
         \A d \in Calls : d # c => ~ Loading(d)' /\ ~ At(d, "stopping")',
         \/ saved' = None /\ limit' = "normal"
         \/ saved' = "normal" /\ limit' = "low",
         Loading(c)' => standby' = "deep" /\ saved' = None,
         At(c, "stopping")' => standby' # "deep",
         At(c, "ready")' => engine' \in native',
         standby' = "active" /\ ~ At(c, "stopping")' => saved' = None,
         standby' # "deep" => engine' \in native' \/ error'
  PROVE  Serving'
<1>1. \A d \in Calls : At(d, "ready")' => Loading(d)'
  BY DEF Loading, At
<1> QED
  BY <1>1 DEF Serving

\* A call that is under the lock moves.
LEMMA LoudMove ==
  ASSUME IInv, SleepIInv, NEW c \in Calls, NEW pc, NEW e, Moves(c, pc, e),
         Fits([kind |-> call[c].kind, pc |-> pc, eng |-> e]),
         call[c].pc \in PastPlaces => pc \in PastPlaces, made' = made,
         Loading(c) \/ Holds(c) \/ call[c].kind = "wake"
  PROVE  /\ CallsTyped'
         /\ call'[c].pc = pc
         /\ JitOnly' =>
              /\ JitOnly /\ Serving /\ Holds(c)
              /\ \A d \in Calls : d # c => ~ Loading(d) /\ ~ At(d, "stopping")
              /\ \A d \in Calls : d # c => ~ Loading(d)' /\ ~ At(d, "stopping")'
<1>1. /\ CallsTyped' /\ (JitOnly' => JitOnly) /\ call'[c].pc = pc
      /\ \A d \in Calls : d # c => call'[d] = call[d]
  BY Moving
<1>2. ASSUME JitOnly'
      PROVE  /\ JitOnly /\ Serving /\ Holds(c)
             /\ \A d \in Calls : d # c => ~ Loading(d) /\ ~ At(d, "stopping")
             /\ \A d \in Calls : d # c => ~ Loading(d)' /\ ~ At(d, "stopping")'
  <2>1. JitOnly /\ Serving /\ (Loading(c) \/ Holds(c))
    BY <1>1, <1>2 DEF SleepIInv, JitOnly
  <2>2. Holds(c) /\ \A d \in Calls : d # c => ~ Loading(d) /\ ~ At(d, "stopping")
    BY <2>1, Alone
  <2>3. \A d \in Calls : d # c => ~ Loading(d)' /\ ~ At(d, "stopping")'
    BY <1>1, <2>2 DEF Loading, At
  <2> QED BY <2>1, <2>2, <2>3
<1> QED
  BY <1>1, <1>2

LEMMA WakeSound ==
  ASSUME IInv, SleepIInv, NEW c \in Calls, NEW resume \in {"done", "handler"},
         Wake(c, resume), UNCHANGED <<batching, native>>,
         call[c].pc \in {"begin", "queued"}, call[c].kind \in {"infer", "wake"},
         Holds(c) \/ call[c].kind = "wake"
  PROVE  SleepIInv'
<1> DEFINE e == call[c].eng
<1>1. /\ limit' = IF saved # None THEN saved ELSE limit
      /\ saved' = None /\ UNCHANGED <<engine, loaded, made, error, native>>
      /\ standby \in {"soft", "deep"}
  BY DEF Wake, RestoreLimit
<1>2. /\ limit' \in {"normal", "low"}
      /\ saved = "normal" \/ (saved = None /\ limit = "normal") => limit' = "normal"
      /\ standby' \in {"active", "soft", "deep"} => SleepTyped'
  <2>1. saved \in {"normal", "low", None} /\ limit \in {"normal", "low"}
    BY DEF SleepIInv, SleepTyped
  <2>2. "normal" # None
    BY SleepAssumption
  <2> QED BY <1>1, <2>1, <2>2 DEF SleepIInv, SleepTyped
<1>3. CASE standby = "soft"
  <2>1. standby' = "active" /\ Goto(c, resume)
    BY <1>3 DEF Wake
  <2>2. Moves(c, resume, e)
    BY <2>1, CallFacts, MovesFacts DEF Places
  <2>3. Fits([kind |-> call[c].kind, pc |-> resume, eng |-> e])
    BY DEF Fits, LoadingPlaces
  <2>4. call[c].pc \in PastPlaces => resume \in PastPlaces
    BY DEF PastPlaces
  <2>5. /\ CallsTyped' /\ call'[c].pc = resume
        /\ JitOnly' =>
             /\ JitOnly /\ Serving
             /\ \A d \in Calls : d # c => ~ Loading(d)' /\ ~ At(d, "stopping")'
    BY <1>1, <2>2, <2>3, <2>4, LoudMove
  <2>6. ~ Loading(c)' /\ ~ At(c, "stopping")' /\ ~ At(c, "ready")'
    BY <2>5 DEF Loading, At
  <2>7. ASSUME JitOnly' PROVE Serving'
    <3>1. (saved = None /\ limit = "normal") \/ (saved = "normal" /\ limit = "low")
      BY <2>5, <2>7 DEF Serving
    <3>2. limit' = "normal" /\ (engine' \in native' \/ error')
      BY <1>1, <1>2, <1>3, <2>5, <2>7, <3>1 DEF Serving
    <3> QED BY <1>1, <2>1, <2>5, <2>6, <2>7, <3>2, ServingAlone
  <2> QED BY <1>2, <2>1, <2>5, <2>7 DEF SleepIInv
<1>4. CASE standby = "deep"
  <2>1. standby' = "deep" /\ Goto(c, "drop")
    BY <1>4 DEF Wake
  <2>2. Moves(c, "drop", e)
    BY <2>1, CallFacts, MovesFacts DEF Places, LoadingPlaces
  <2>3. Fits([kind |-> call[c].kind, pc |-> "drop", eng |-> e])
    BY DEF Fits, LoadingPlaces
  <2>4. call[c].pc \in PastPlaces => "drop" \in PastPlaces
    BY DEF PastPlaces
  <2>5. /\ CallsTyped' /\ call'[c].pc = "drop"
        /\ JitOnly' =>
             /\ JitOnly /\ Serving
             /\ \A d \in Calls : d # c => ~ Loading(d)' /\ ~ At(d, "stopping")'
    BY <1>1, <2>2, <2>3, <2>4, LoudMove
  <2>6. ~ At(c, "stopping")' /\ ~ At(c, "ready")'
    BY <2>5 DEF At
  <2>7. ASSUME JitOnly' PROVE Serving'
    <3>1. (saved = None /\ limit = "normal") \/ (saved = "normal" /\ limit = "low")
      BY <2>5, <2>7 DEF Serving
    <3>2. limit' = "normal"
      BY <1>1, <1>2, <3>1
    <3> QED BY <1>1, <2>1, <2>5, <2>6, <2>7, <3>2, ServingAlone
  <2> QED BY <1>2, <2>1, <2>5, <2>7 DEF SleepIInv
<1> QED
  BY <1>1, <1>3, <1>4

\* A load up to its end: the server stays asleep.
LEMMA LoadMove ==
  ASSUME IInv, SleepIInv, NEW c \in Calls, NEW pc, NEW e, Moves(c, pc, e),
         Fits([kind |-> call[c].kind, pc |-> pc, eng |-> e]),
         call[c].pc \in PastPlaces => pc \in PastPlaces,
         Loading(c), pc \in LoadingPlaces, pc = "ready" => engine' \in native',
         UNCHANGED <<standby, made, limit, saved>>, SleepTyped'
  PROVE  SleepIInv'
<1>1. /\ CallsTyped' /\ call'[c].pc = pc
      /\ JitOnly' =>
           /\ JitOnly /\ Serving
           /\ \A d \in Calls : d # c => ~ Loading(d)' /\ ~ At(d, "stopping")'
  BY LoudMove
<1>2. ~ At(c, "stopping")' /\ (At(c, "ready")' => engine' \in native')
  BY <1>1 DEF At, LoadingPlaces
<1>3. ASSUME JitOnly' PROVE Serving'
  <2>1. /\ (saved = None /\ limit = "normal") \/ (saved = "normal" /\ limit = "low")
        /\ standby = "deep" /\ saved = None
    BY <1>1, <1>3 DEF Serving
  <2> QED BY <1>1, <1>2, <1>3, <2>1, ServingAlone
<1> QED
  BY <1>1, <1>3 DEF SleepIInv

LEMMA KeptFacts ==
  ASSUME NEW ld, ld \subseteq EngineIds
  PROVE  Kept(ld) \subseteq EngineIds
BY DEF Kept

LEMMA LoadDropSound ==
  ASSUME IInv, SleepIInv, NEW c \in Calls, LoadDrop(c), UNCHANGED native
  PROVE  SleepIInv'
<1> DEFINE e == call[c].eng
<1>1. /\ At(c, "drop") /\ Goto(c, "construct") /\ engine' = None /\ error' = FALSE
      /\ UNCHANGED <<standby, made, limit, saved>> /\ loaded' = Kept(loaded)
  BY DEF LoadDrop
<1>2. Moves(c, "construct", e)
  BY <1>1, CallFacts, MovesFacts DEF Places, LoadingPlaces
<1>3. Loading(c) /\ Fits([kind |-> call[c].kind, pc |-> "construct", eng |-> e])
      /\ call[c].pc \notin PastPlaces
  BY <1>1, CallFacts DEF Fits, LoadingPlaces, At, Loading, PastPlaces
<1>4. SleepTyped'
  BY <1>1, KeptFacts DEF SleepIInv, SleepTyped
<1> QED
  BY <1>1, <1>2, <1>3, <1>4, LoadMove DEF LoadingPlaces

\* A call constructs an engine once.
LEMMA LoadConstructSound ==
  ASSUME IInv, SleepIInv, NEW c \in Calls, LoadConstruct(c), UNCHANGED native
  PROVE  SleepIInv'
<1> DEFINE e == call[c].eng
           pc == IF batching THEN "wired" ELSE "start"
<1>1. /\ At(c, "construct") /\ Goto(c, pc) /\ engine' = made + 1 /\ made' = made + 1
      /\ UNCHANGED <<standby, limit, saved, error>> /\ loaded' = Kept(loaded)
  BY DEF LoadConstruct
<1>2. pc \in {"start", "wired"}
  OBVIOUS
<1> HIDE DEF pc
<1>3. Moves(c, pc, e)
  BY <1>1, <1>2, CallFacts, MovesFacts DEF Places, LoadingPlaces
<1>4. /\ call' \in [Calls -> CallType] /\ \A d \in Calls : d # c => call'[d] = call[d]
      /\ call'[c].pc = pc /\ call'[c].kind = call[c].kind
      /\ Fits(call'[c])
  BY <1>1, <1>2, <1>3, CallFacts DEF Moves, Fits, LoadingPlaces, At
<1>5. c \notin Past /\ Past' = Past \cup {c} /\ Past \subseteq Calls /\ Past' \subseteq Calls
  <2>1. call[c].pc \notin PastPlaces /\ pc \in PastPlaces
    BY <1>1, <1>2 DEF At, PastPlaces, Places, LoadingPlaces
  <2> QED BY <1>4, <2>1 DEF Past
<1>6. Cardinality(Past') = Cardinality(Past) + 1 /\ Cardinality(Past) \in Nat
      /\ Cardinality(Past') <= Cardinality(Calls) /\ Cardinality(Calls) \in Nat
  BY <1>5, PastFacts
<1>7. made \in Nat /\ made <= Cardinality(Past)
  BY DEF SleepIInv, CallsTyped
<1>8. made' \in Nat /\ made' <= Cardinality(Past') /\ engine' \in EngineIds
  BY <1>1, <1>6, <1>7 DEF EngineIds
<1>9. \A d \in Calls : Fits(call'[d])
  BY <1>4 DEF SleepIInv, CallsTyped
<1>10. CallsTyped'
  BY <1>4, <1>8, <1>9 DEF CallsTyped
<1>11. SleepTyped'
  BY <1>1, <1>8, KeptFacts DEF SleepIInv, SleepTyped
<1>12. ASSUME JitOnly' PROVE Serving'
  <2>1. JitOnly /\ Loading(c)
    BY <1>1, <1>4, <1>12 DEF JitOnly, Loading, At
  <2>2. \A d \in Calls : d # c => ~ Loading(d) /\ ~ At(d, "stopping")
    BY <2>1, Alone
  <2>3. \A d \in Calls : d # c => ~ Loading(d)' /\ ~ At(d, "stopping")'
    BY <1>4, <2>2 DEF Loading, At
  <2>4. /\ (saved = None /\ limit = "normal") \/ (saved = "normal" /\ limit = "low")
        /\ standby = "deep" /\ saved = None
    BY <2>1 DEF SleepIInv, Serving
  <2>5. ~ At(c, "stopping")' /\ ~ At(c, "ready")'
    BY <1>2, <1>4 DEF At
  <2> QED BY <1>1, <2>3, <2>4, <2>5, ServingAlone
<1> QED
  BY <1>10, <1>11, <1>12 DEF SleepIInv

LEMMA LoadStartSound ==
  ASSUME IInv, SleepIInv, NEW c \in Calls, LoadStart(c), UNCHANGED native
  PROVE  SleepIInv'
<1>1. /\ At(c, "start") /\ engine # None
      /\ call' = [call EXCEPT ![c].pc = "starting", ![c].eng = engine]
      /\ UNCHANGED <<standby, engine, loaded, made, error, limit, saved>>
  BY DEF LoadStart
<1>2. Moves(c, "starting", engine)
  BY <1>1, CallFacts, MovesFacts DEF Places, LoadingPlaces
<1>3. Loading(c) /\ Fits([kind |-> call[c].kind, pc |-> "starting", eng |-> engine])
  BY <1>1, CallFacts DEF Fits, LoadingPlaces, At, Loading
<1>4. SleepTyped'
  BY <1>1 DEF SleepIInv, SleepTyped
<1>5. "starting" \in PastPlaces
  BY DEF PastPlaces, Places, LoadingPlaces
<1> QED
  BY <1>1, <1>2, <1>3, <1>4, <1>5, LoadMove DEF LoadingPlaces

LEMMA LoadStartedSound ==
  ASSUME IInv, SleepIInv, NEW c \in Calls, LoadStarted(c), UNCHANGED native
  PROVE  SleepIInv'
<1>1. /\ At(c, "starting")
      /\ call' = [call EXCEPT ![c].pc = "wired", ![c].eng = None]
      /\ UNCHANGED <<standby, engine, made, error, limit, saved>>
      /\ loaded' = Kept(loaded \cup {call[c].eng})
  BY DEF LoadStarted
<1>2. Moves(c, "wired", None)
  BY <1>1, CallFacts, MovesFacts DEF Places, LoadingPlaces
<1>3. Loading(c) /\ Fits([kind |-> call[c].kind, pc |-> "wired", eng |-> None])
      /\ call[c].eng \in EngineIds
  BY <1>1, CallFacts DEF Fits, LoadingPlaces, At, Loading
<1>4. SleepTyped'
  <2>1. loaded \cup {call[c].eng} \subseteq EngineIds
    BY <1>3 DEF SleepIInv, SleepTyped
  <2> QED BY <1>1, <2>1, KeptFacts DEF SleepIInv, SleepTyped
<1>5. "wired" \in PastPlaces
  BY DEF PastPlaces, Places, LoadingPlaces
<1> QED
  BY <1>1, <1>2, <1>3, <1>4, <1>5, LoadMove DEF LoadingPlaces

LEMMA LoadWireSound ==
  ASSUME IInv, SleepIInv, NEW c \in Calls, LoadWire(c)
  PROVE  SleepIInv'
<1> DEFINE e == call[c].eng
<1>1. /\ At(c, "wired") /\ engine # None /\ native' = native \cup {engine}
      /\ Goto(c, "ready")
      /\ UNCHANGED <<standby, engine, loaded, made, error, limit, saved>>
  BY DEF LoadWire
<1>2. Moves(c, "ready", e)
  BY <1>1, CallFacts, MovesFacts DEF Places, LoadingPlaces
<1>3. Loading(c) /\ Fits([kind |-> call[c].kind, pc |-> "ready", eng |-> e])
  BY <1>1, CallFacts DEF Fits, LoadingPlaces, At, Loading
<1>4. SleepTyped'
  BY <1>1 DEF SleepIInv, SleepTyped
<1>5. "ready" \in PastPlaces
  BY DEF PastPlaces, Places, LoadingPlaces
<1> QED
  BY <1>1, <1>2, <1>3, <1>4, <1>5, LoadMove DEF LoadingPlaces

\* A load that has ended leaves an engine, one that has failed says so.
LEMMA LoadedSound ==
  ASSUME IInv, SleepIInv, NEW c \in Calls, Loaded(c) \/ LoadFails(c),
         UNCHANGED native
  PROVE  SleepIInv'
<1>1. PICK pc \in {"done", "handler"}, e \in EngineIds \cup {None} :
        Moves(c, pc, e)
  <2>1. CASE Loaded(c)
    <3> DEFINE pc == IF call[c].kind = "infer" THEN "handler" ELSE "done"
               e == call[c].eng
    <3>1. pc \in {"done", "handler"} /\ pc \in Places /\ Goto(c, pc)
      BY <2>1 DEF Loaded, Places
    <3> HIDE DEF pc
    <3>2. Moves(c, pc, e)
      BY <3>1, CallFacts, MovesFacts
    <3> QED BY <3>1, <3>2, CallFacts
  <2>2. CASE LoadFails(c)
    <3>1. call' = [call EXCEPT ![c].pc = "done", ![c].eng = None] /\ "done" \in Places
      BY <2>2 DEF LoadFails, Places
    <3>2. Moves(c, "done", None)
      BY <3>1, CallFacts, MovesFacts
    <3> QED BY <3>2
  <2> QED BY <2>1, <2>2
<1>2. /\ Loading(c) /\ standby' = "active"
      /\ UNCHANGED <<engine, made, limit, saved>> /\ loaded' \subseteq EngineIds
      /\ error' \in BOOLEAN
      /\ error' \/ At(c, "ready")
  <2>1. loaded \subseteq EngineIds /\ error \in BOOLEAN
    BY DEF SleepIInv, SleepTyped
  <2>2. CASE Loaded(c)
    BY <2>1, <2>2 DEF Loaded, WakeEnds, Loading, At
  <2>3. CASE LoadFails(c)
    BY <2>1, <2>3, KeptFacts DEF LoadFails, WakeEnds, Loading, At
  <2> QED BY <2>2, <2>3
<1>3. Fits([kind |-> call[c].kind, pc |-> pc, eng |-> e]) /\ pc \in PastPlaces
  BY DEF Fits, LoadingPlaces, PastPlaces, Places
<1>4. SleepTyped'
  BY <1>2 DEF SleepIInv, SleepTyped
<1>5. /\ CallsTyped' /\ call'[c].pc = pc
      /\ JitOnly' =>
           /\ JitOnly /\ Serving
           /\ \A d \in Calls : d # c => ~ Loading(d)' /\ ~ At(d, "stopping")'
  BY <1>1, <1>2, <1>3, LoudMove
<1>6. ~ Loading(c)' /\ ~ At(c, "stopping")' /\ ~ At(c, "ready")'
  BY <1>5 DEF Loading, At
<1>7. ASSUME JitOnly' PROVE Serving'
  <2>1. /\ (saved = None /\ limit = "normal") \/ (saved = "normal" /\ limit = "low")
        /\ saved = None /\ (engine \in native \/ error')
    BY <1>2, <1>5, <1>7 DEF Serving
  <2> QED BY <1>2, <1>5, <1>6, <1>7, <2>1, ServingAlone
<1> QED
  BY <1>4, <1>5, <1>7 DEF SleepIInv

\* A sleep begins with the lock: the limit is the normal one, or is saved.
LEMMA SoftSleepSound ==
  ASSUME IInv, SleepIInv, NEW c \in Calls, SoftSleep(c), UNCHANGED native
  PROVE  SleepIInv'
<1> DEFINE e == call[c].eng
<1>1. /\ At(c, "queued") /\ Holds(c) /\ standby = "active" /\ call[c].kind = "soft"
      /\ saved' = limit /\ limit' = "low" /\ standby' = "soft" /\ Goto(c, "done")
      /\ UNCHANGED <<engine, loaded, made, error>>
  BY DEF SoftSleep
<1>2. Moves(c, "done", e)
  BY <1>1, CallFacts, MovesFacts DEF Places
<1>3. Fits([kind |-> call[c].kind, pc |-> "done", eng |-> e]) /\ "done" \in PastPlaces
  BY DEF Fits, LoadingPlaces, PastPlaces, Places
<1>4. SleepTyped'
  BY <1>1 DEF SleepIInv, SleepTyped
<1>5. /\ CallsTyped' /\ call'[c].pc = "done"
      /\ JitOnly' =>
           /\ JitOnly /\ Serving
           /\ \A d \in Calls : d # c => ~ Loading(d) /\ ~ At(d, "stopping")
           /\ \A d \in Calls : d # c => ~ Loading(d)' /\ ~ At(d, "stopping")'
  BY <1>1, <1>2, <1>3, LoudMove
<1>6. /\ ~ Loading(c)' /\ ~ At(c, "stopping")' /\ ~ At(c, "ready")'
      /\ ~ At(c, "stopping")
  BY <1>1, <1>5 DEF Loading, At
<1>7. ASSUME JitOnly' PROVE Serving'
  <2>1. /\ (saved = None /\ limit = "normal") \/ (saved = "normal" /\ limit = "low")
        /\ saved = None /\ (engine \in native \/ error)
    BY <1>1, <1>5, <1>6, <1>7 DEF Serving
  <2>2. "normal" # None
    BY SleepAssumption
  <2> QED BY <1>1, <1>5, <1>6, <1>7, <2>1, <2>2, ServingAlone
<1> QED
  BY <1>4, <1>5, <1>7 DEF SleepIInv

LEMMA DeepSleepSound ==
  ASSUME IInv, SleepIInv, NEW c \in Calls, DeepSleep(c), UNCHANGED native
  PROVE  SleepIInv'
<1>1. /\ At(c, "queued") /\ Holds(c) /\ standby # "deep" /\ UNCHANGED <<made, error>>
      /\ saved' = IF saved = None THEN limit ELSE saved
      /\ limit' = IF saved = None THEN "low" ELSE limit
  BY DEF DeepSleep, SaveLimit
<1>2. /\ saved' \in {"normal", "low", None} /\ limit' \in {"normal", "low"}
      /\ \/ saved = None /\ limit = "normal"
         \/ saved = "normal" /\ limit = "low"
         => saved' = "normal" /\ limit' = "low"
  BY <1>1, SleepAssumption DEF SleepIInv, SleepTyped
<1>3. CASE batching /\ engine \in loaded
  <2>1. /\ call' = [call EXCEPT ![c].pc = "stopping", ![c].eng = engine]
        /\ UNCHANGED <<standby, engine, loaded>>
    BY <1>3 DEF DeepSleep
  <2>2. Moves(c, "stopping", engine)
    BY <2>1, CallFacts, MovesFacts DEF Places
  <2>3. Fits([kind |-> call[c].kind, pc |-> "stopping", eng |-> engine])
        /\ "stopping" \in PastPlaces
    BY DEF Fits, LoadingPlaces, PastPlaces, Places
  <2>4. SleepTyped'
    BY <1>1, <1>2, <2>1 DEF SleepIInv, SleepTyped
  <2>5. /\ CallsTyped' /\ call'[c].pc = "stopping"
        /\ JitOnly' =>
             /\ JitOnly /\ Serving
             /\ \A d \in Calls : d # c => ~ Loading(d)' /\ ~ At(d, "stopping")'
    BY <1>1, <2>2, <2>3, LoudMove
  <2>6. ~ Loading(c)' /\ At(c, "stopping")' /\ ~ At(c, "ready")'
    BY <2>5 DEF Loading, At
  <2>7. ASSUME JitOnly' PROVE Serving'
    <3>1. saved' = "normal" /\ limit' = "low" /\ (engine \in native \/ error)
      BY <1>1, <1>2, <2>5, <2>7 DEF Serving
    <3> QED BY <1>1, <2>1, <2>5, <2>6, <2>7, <3>1, ServingAlone
  <2> QED BY <2>4, <2>5, <2>7 DEF SleepIInv
<1>4. CASE ~ (batching /\ engine \in loaded)
  <2> DEFINE e == call[c].eng
  <2>1. /\ standby' = "deep" /\ engine' = None /\ Goto(c, "done")
        /\ loaded' = loaded \ {engine}
    BY <1>4 DEF DeepSleep
  <2>2. Moves(c, "done", e)
    BY <2>1, CallFacts, MovesFacts DEF Places
  <2>3. Fits([kind |-> call[c].kind, pc |-> "done", eng |-> e]) /\ "done" \in PastPlaces
    BY DEF Fits, LoadingPlaces, PastPlaces, Places
  <2>4. SleepTyped'
    BY <1>1, <1>2, <2>1 DEF SleepIInv, SleepTyped
  <2>5. /\ CallsTyped' /\ call'[c].pc = "done"
        /\ JitOnly' =>
             /\ JitOnly /\ Serving
             /\ \A d \in Calls : d # c => ~ Loading(d)' /\ ~ At(d, "stopping")'
    BY <1>1, <2>2, <2>3, LoudMove
  <2>6. ~ Loading(c)' /\ ~ At(c, "stopping")' /\ ~ At(c, "ready")'
    BY <2>5 DEF Loading, At
  <2>7. ASSUME JitOnly' PROVE Serving'
    <3>1. saved' = "normal" /\ limit' = "low"
      BY <1>2, <2>5, <2>7 DEF Serving
    <3> QED BY <2>1, <2>5, <2>6, <2>7, <3>1, ServingAlone
  <2> QED BY <2>4, <2>5, <2>7 DEF SleepIInv
<1> QED
  BY <1>3, <1>4

LEMMA DeepStoppedSound ==
  ASSUME IInv, SleepIInv, NEW c \in Calls, DeepStopped(c), UNCHANGED native
  PROVE  SleepIInv'
<1>1. /\ At(c, "stopping") /\ standby' = "deep" /\ engine' = None
      /\ loaded' = loaded \ {call[c].eng}
      /\ call' = [call EXCEPT ![c].pc = "done", ![c].eng = None]
      /\ UNCHANGED <<made, error, limit, saved>>
  BY DEF DeepStopped
<1>2. Moves(c, "done", None)
  BY <1>1, CallFacts, MovesFacts DEF Places
<1>3. Fits([kind |-> call[c].kind, pc |-> "done", eng |-> None]) /\ "done" \in PastPlaces
  BY DEF Fits, LoadingPlaces, PastPlaces, Places
<1>4. SleepTyped'
  BY <1>1 DEF SleepIInv, SleepTyped
<1>5. Holds(c)
  BY <1>1 DEF IInv, Owns
<1>6. /\ CallsTyped' /\ call'[c].pc = "done"
      /\ JitOnly' =>
           /\ JitOnly /\ Serving
           /\ \A d \in Calls : d # c => ~ Loading(d)' /\ ~ At(d, "stopping")'
  BY <1>1, <1>2, <1>3, <1>5, LoudMove
<1>7. ~ Loading(c)' /\ ~ At(c, "stopping")' /\ ~ At(c, "ready")'
  BY <1>6 DEF Loading, At
<1>8. ASSUME JitOnly' PROVE Serving'
  <2>1. (saved = None /\ limit = "normal") \/ (saved = "normal" /\ limit = "low")
    BY <1>6, <1>8 DEF Serving
  <2> QED BY <1>1, <1>6, <1>7, <1>8, <2>1, ServingAlone
<1> QED
  BY <1>4, <1>6, <1>8 DEF SleepIInv

\* Calls that arrive, and a request past the middleware.
LEMMA ArriveSound ==
  ASSUME SleepIInv, NEW c \in Calls, NEW kind \in Kinds, NEW pc,
         At(c, "none"), pc \in {"queued", "handler", "begin", "done"},
         call' = [call EXCEPT ![c] = [kind |-> kind, pc |-> pc, eng |-> None]],
         UNCHANGED <<standby, engine, loaded, made, error, limit, saved, native>>
  PROVE  SleepIInv'
<1> DEFINE k == [kind |-> kind, pc |-> pc, eng |-> None]
<1>1. k \in CallType /\ k.pc = pc /\ Fits(k)
  BY DEF CallType, Places, Fits, LoadingPlaces
<1> HIDE DEF k
<1>2. /\ call' = [call EXCEPT ![c] = k] /\ call \in [Calls -> CallType]
      /\ call[c].kind = "none"
  BY CallFacts DEF k, Fits, At
<1>3. /\ call' \in [Calls -> CallType] /\ call'[c] = k
      /\ \A d \in Calls : d # c => call'[d] = call[d]
  BY <1>1, <1>2
<1>4. \A d \in Calls : Fits(call'[d])
  BY <1>1, <1>3 DEF SleepIInv, CallsTyped
<1>5. Past \subseteq Past' /\ Past' \subseteq Calls
  BY <1>3 DEF Past, PastPlaces, At
<1>6. Cardinality(Past) <= Cardinality(Past') /\ Cardinality(Past') \in Nat
      /\ Cardinality(Past) \in Nat
  BY <1>5, PastFacts
<1>7. CallsTyped'
  <2>1. made \in Nat /\ made <= Cardinality(Past)
    BY DEF SleepIInv, CallsTyped
  <2>2. made' \in Nat /\ made' <= Cardinality(Past')
    BY <1>6, <2>1
  <2> QED BY <1>3, <1>4, <2>2 DEF CallsTyped
<1>8. JitOnly' => JitOnly
  BY <1>2, <1>3 DEF JitOnly
<1>9. ~ Loading(c)' /\ ~ At(c, "stopping")' /\ ~ At(c, "stopping")
  BY <1>1, <1>3 DEF Loading, At
<1>10. loaded' \subseteq EngineIds
  BY DEF SleepIInv, SleepTyped
<1> QED
  BY <1>3, <1>7, <1>8, <1>9, <1>10, Quiet

\* The places past the middleware.
Serves == {"handler", "use", "run", "waiting", "thread", "orphan", "done"}

LEMMA RequestMove ==
  ASSUME SleepIInv, NEW c \in Calls, NEW pc \in Serves, NEW e,
         call[c].pc \in Serves \cup {"queued", "begin"},
         \/ Goto(c, pc) /\ e = call[c].eng
         \/ call' = [call EXCEPT ![c].pc = pc, ![c].eng = e]
         \/ call' = [call EXCEPT ![c].eng = e, ![c].pc = pc],
         e \in EngineIds \/ (e = None /\ pc \in {"done", "handler"}),
         UNCHANGED <<standby, engine, made, error, limit, saved, native>>,
         loaded' \subseteq EngineIds
  PROVE  SleepIInv' /\ Moves(c, pc, e)
<1>1. pc \in Places /\ pc \in PastPlaces /\ pc \notin LoadingPlaces \cup {"stopping"}
      /\ e \in EngineIds \cup {None} /\ pc # "none"
  BY DEF Serves, Places, PastPlaces, LoadingPlaces
<1>2. Moves(c, pc, e)
  BY <1>1, CallFacts, MovesFacts
<1>3. Fits([kind |-> call[c].kind, pc |-> pc, eng |-> e])
  BY <1>1, CallFacts DEF Fits, Serves
<1>4. ~ At(c, "stopping")
  BY DEF At, Serves
<1> QED
  BY <1>1, <1>2, <1>3, <1>4, QuietMove

\* A call whose wait in the middleware or at a sleep endpoint is over at once.
LEMMA IdleMove ==
  ASSUME SleepIInv, NEW c \in Calls, NEW pc \in {"done", "handler"},
         call[c].pc \in {"queued", "begin"}, Goto(c, pc),
         UNCHANGED <<standby, engine, loaded, made, error, limit, saved, native>>
  PROVE  SleepIInv'
<1> DEFINE e == call[c].eng
<1>1. pc \in Places /\ pc \in PastPlaces /\ pc \notin LoadingPlaces \cup {"stopping"}
      /\ loaded' \subseteq EngineIds
  BY DEF Places, PastPlaces, LoadingPlaces, SleepIInv, SleepTyped
<1>2. Moves(c, pc, e)
  BY <1>1, CallFacts, MovesFacts
<1>3. Fits([kind |-> call[c].kind, pc |-> pc, eng |-> e]) /\ ~ At(c, "stopping")
  BY DEF Fits, LoadingPlaces, At
<1> QED
  BY <1>1, <1>2, <1>3, QuietMove

LEMMA SleepStepSound ==
  ASSUME IInv, SleepIInv, NEW c \in Calls, SleepStep(c)
  PROVE  SleepIInv'
<1>1. UNCHANGED <<batching, native>>
  BY DEF SleepStep
<1>2. CASE WakeCall(c)
  <2>1. CASE Wake(c, "done")
    BY <1>1, <1>2, <2>1, WakeSound DEF WakeCall, At
  <2>2. CASE ~ Wake(c, "done")
    BY <1>1, <1>2, <2>2, IdleMove DEF WakeCall, At
  <2> QED BY <2>1, <2>2
<1>3. CASE JitWake(c)
  <2>1. CASE Wake(c, "handler")
    BY <1>1, <1>3, <2>1, WakeSound DEF JitWake, At
  <2>2. CASE ~ Wake(c, "handler")
    BY <1>1, <1>3, <2>2, IdleMove DEF JitWake, At
  <2> QED BY <2>1, <2>2
<1>4. CASE SleepRefused(c)
  BY <1>1, <1>4, IdleMove DEF SleepRefused, At
<1>5. loaded \subseteq EngineIds
  BY DEF SleepIInv, SleepTyped
<1>6. CASE GetEngine(c)
  <2> DEFINE pc == IF engine = None THEN "done" ELSE "use"
  <2>1. call' = [call EXCEPT ![c].eng = engine, ![c].pc = pc]
        /\ UNCHANGED <<standby, engine, loaded, made, error, limit, saved>>
        /\ call[c].pc \in Serves
    BY <1>6 DEF GetEngine, At, Serves
  <2>2. pc \in Serves /\ (engine \in EngineIds \/ (engine = None /\ pc = "done"))
    BY CallFacts DEF Serves
  <2> HIDE DEF pc
  <2> QED BY <1>1, <1>5, <2>1, <2>2, RequestMove
<1>7. CASE UseEngine(c)
  <2>1. /\ Goto(c, "run") /\ loaded' = loaded \cup {call[c].eng}
        /\ UNCHANGED <<standby, engine, made, error, limit, saved>>
        /\ call[c].pc = "use"
    BY <1>7 DEF UseEngine, At
  <2>2. call[c].eng \in EngineIds
    BY <2>1, CallFacts DEF Fits
  <2> QED BY <1>1, <1>5, <2>1, <2>2, RequestMove DEF Serves
<1>8. CASE Answer(c)
  <2>1. /\ call' = [call EXCEPT ![c].pc = "done", ![c].eng = None]
        /\ UNCHANGED <<standby, engine, made, error, limit, saved>>
        /\ loaded' = Kept(loaded) /\ call[c].pc = "run"
    BY <1>8 DEF Answer, At
  <2> QED BY <1>1, <1>5, <2>1, KeptFacts, RequestMove DEF Serves
<1>9. CASE SoftSleep(c) \/ DeepSleep(c) \/ DeepStopped(c)
  BY <1>1, <1>9, SoftSleepSound, DeepSleepSound, DeepStoppedSound
<1>10. CASE \/ LoadDrop(c) \/ LoadConstruct(c) \/ LoadStart(c) \/ LoadStarted(c)
            \/ Loaded(c) \/ LoadFails(c)
  BY <1>1, <1>10, LoadDropSound, LoadConstructSound, LoadStartSound, LoadStartedSound,
     LoadedSound
<1> QED
  BY <1>2, <1>3, <1>4, <1>6, <1>7, <1>8, <1>9, <1>10 DEF SleepStep

\* What a request does with a simple engine.
LEMMA RequestSound ==
  ASSUME SleepIInv, NEW c \in Calls,
         \/ \E mode : Enter(c, mode)
         \/ Acquire(c) \/ Token(c) \/ Aborted(c) \/ Ends(c) \/ Raises(c) \/ OrphanEnds(c)
         \/ \E computes : Leave(c, computes)
  PROVE  /\ SleepIInv'
         /\ \/ call' = call
            \/ \E pc \in Serves : \E e : Moves(c, pc, e)
<1> USE DEF SleepUnchanged
<1>1. loaded \subseteq EngineIds
  BY DEF SleepIInv, SleepTyped
<1>2. call[c].pc \in {"waiting", "thread", "use", "orphan"} => call[c].eng \in EngineIds
  BY CallFacts DEF Fits
<1>3. ASSUME NEW l, NEW how, End(c, l, how),
             call[c].pc \in {"waiting", "thread"}
      PROVE  SleepIInv' /\ Moves(c, "done", None)
  BY <1>1, <1>3, KeptFacts, RequestMove DEF End, Serves
<1>4. CASE \E mode : Enter(c, mode)
  <2>1. PICK mode : Enter(c, mode)
    BY <1>4
  <2> DEFINE pc == IF MyLane(c).queue = << >> THEN "thread" ELSE "waiting"
  <2>2. /\ call[c].pc = "use" /\ Goto(c, pc) /\ loaded' = loaded \cup {call[c].eng}
        /\ SleepUnchanged
    BY <2>1 DEF Enter, At, Eng
  <2>3. pc \in Serves
    BY DEF Serves
  <2> HIDE DEF pc
  <2>4. SleepIInv' /\ Moves(c, pc, call[c].eng)
    BY <1>1, <1>2, <2>2, <2>3, RequestMove DEF Serves
  <2> QED BY <2>3, <2>4
<1>5. CASE Acquire(c)
  <2>1. CASE Goto(c, "thread") /\ SleepUnchanged /\ UNCHANGED loaded
    BY <1>1, <1>2, <1>5, <2>1, RequestMove DEF Acquire, At, Serves
  <2>2. CASE \E l : End(c, l, "error")
    BY <1>3, <1>5, <2>2 DEF Acquire, At, Serves
  <2> QED BY <1>5, <2>1, <2>2 DEF Acquire
<1>6. CASE Token(c)
  <2>1. UNCHANGED <<call, loaded>> /\ SleepUnchanged
    BY <1>6 DEF Token
  <2>2. SleepIInv'
    <3>1. SleepTyped' /\ CallsTyped' /\ (JitOnly' => JitOnly)
      BY <2>1 DEF SleepIInv, SleepTyped, CallsTyped, Past, JitOnly
    <3>2. Serving => Serving'
      BY <2>1 DEF Serving, Loading, At
    <3> QED BY <3>1, <3>2 DEF SleepIInv
  <2> QED BY <2>1, <2>2
<1>7. CASE Aborted(c) \/ Ends(c) \/ Raises(c)
  <2>1. call[c].pc = "thread" /\ \E l, how : End(c, l, how)
    BY <1>7 DEF Aborted, Ends, Raises, At
  <2> QED BY <1>3, <2>1 DEF Serves
<1>8. CASE OrphanEnds(c)
  BY <1>1, <1>8, KeptFacts, RequestMove DEF OrphanEnds, At, Serves
<1>9. CASE \E computes : Leave(c, computes)
  <2>1. CASE Goto(c, "orphan") /\ SleepUnchanged /\ UNCHANGED loaded
    BY <1>1, <1>2, <1>9, <2>1, RequestMove DEF Leave, At, Serves
  <2>2. CASE \E l : End(c, l, "left")
    BY <1>3, <1>9, <2>2 DEF Leave, At, Serves
  <2> QED BY <1>9, <2>1, <2>2 DEF Leave
<1> QED
  BY <1>4, <1>5, <1>6, <1>7, <1>8, <1>9

\* The inductive invariant of sleeps and wakes.
LEMMA SleepInductive ==
  (Init => IInv /\ SleepIInv) /\ (IInv /\ SleepIInv /\ [Next]_vars => IInv' /\ SleepIInv')
<1>1. ASSUME Init PROVE SleepIInv
  <2>1. /\ call = [c \in Calls |-> NoCall] /\ standby = "active" /\ engine = 0
        /\ made = 0 /\ loaded = {0} /\ native = {0} /\ error = FALSE
        /\ limit = "normal" /\ saved = None
    BY <1>1 DEF Init, SleepInit
  <2>2. NoCall \in CallType /\ Fits(NoCall) /\ NoCall.pc = "none"
    BY DEF NoCall, CallType, Places, Fits, LoadingPlaces
  <2>3. call \in [Calls -> CallType] /\ \A c \in Calls : call[c] = NoCall
    BY <2>1, <2>2
  <2>4. Past \subseteq Calls
    BY DEF Past
  <2>5. Cardinality(Past) \in Nat
    BY <2>4, PastFacts
  <2>6. CallsTyped
    BY <2>1, <2>2, <2>3, <2>5 DEF CallsTyped
  <2>7. 0 \in EngineIds
    BY PastFacts DEF EngineIds
  <2>8. SleepTyped
    BY <2>1, <2>7 DEF SleepTyped
  <2>9. Serving
    BY <2>1, <2>2, <2>3 DEF Serving, Loading, At
  <2> QED BY <2>6, <2>8, <2>9 DEF SleepIInv
<1>2. ASSUME IInv, SleepIInv, UNCHANGED vars PROVE SleepIInv'
  <2>1. UNCHANGED svars
    BY <1>2 DEF vars
  <2>2. SleepTyped' /\ CallsTyped' /\ (JitOnly' => JitOnly)
    BY <1>2, <2>1 DEF svars, SleepIInv, SleepTyped, CallsTyped, Past, JitOnly
  <2>3. Serving => Serving'
    BY <2>1 DEF svars, Serving, Loading, At
  <2> QED BY <1>2, <2>2, <2>3 DEF SleepIInv
<1>3. ASSUME IInv, SleepIInv, NEW c \in Calls, Proceed(c) PROVE SleepIInv'
  BY <1>3, SleepStepSound, LoadWireSound, RequestSound DEF Proceed
<1>4. ASSUME IInv, SleepIInv, NEW c \in Calls, Environment(c) PROVE SleepIInv'
  <2>1. ASSUME NEW kind \in Kinds, Arrive(c, kind), UNCHANGED native PROVE SleepIInv'
    <3> DEFINE pc == IF kind \in {"soft", "deep"} \/ (kind = "infer" /\ standby # "active")
                     THEN "queued"
                     ELSE IF kind = "infer" THEN "handler" ELSE "begin"
    <3>1. /\ At(c, "none")
          /\ call' = [call EXCEPT ![c] = [kind |-> kind, eng |-> None, pc |-> pc]]
          /\ UNCHANGED <<standby, engine, loaded, made, error, limit, saved, native>>
      BY <2>1 DEF Arrive
    <3>2. pc \in {"queued", "handler", "begin", "done"}
      OBVIOUS
    <3> HIDE DEF pc
    <3>3. [kind |-> kind, eng |-> None, pc |-> pc] = [kind |-> kind, pc |-> pc, eng |-> None]
      OBVIOUS
    <3> QED BY <1>4, <3>1, <3>2, <3>3, ArriveSound
  <2>2. ASSUME NEW d \in Calls, Cancel(c, d) PROVE SleepIInv'
    BY <1>4, <2>2, ArriveSound DEF Cancel, SleepUnchanged
  <2>3. ASSUME \E computes : Leave(c, computes) PROVE SleepIInv'
    BY <1>4, <2>3, RequestSound
  <2> QED BY <1>4, <2>1, <2>2, <2>3 DEF Environment
<1> QED
  BY <1>1, <1>2, <1>3, <1>4, Inductive DEF Next

\* Unless the wake endpoint is used, a server that is active has the limit it
\* had before it slept, and an engine that is wired or the reason why there is
\* none (ActiveHasEngine; admin_wake, load_model and the sleeps in server.py).
THEOREM ServerServes == Spec => []ActiveHasEngine
<1>1. IInv /\ SleepIInv => ActiveHasEngine
  <2> SUFFICES ASSUME IInv, SleepIInv PROVE ActiveHasEngine
    OBVIOUS
  <2>1. made \in EngineIds
    <3>1. Past \subseteq Calls
      BY DEF Past
    <3>2. /\ Cardinality(Past) <= Cardinality(Calls)
          /\ Cardinality(Past) \in Nat /\ Cardinality(Calls) \in Nat
      BY <3>1, PastFacts
    <3>3. made \in Nat /\ made <= Cardinality(Past)
      BY DEF SleepIInv, CallsTyped
    <3> QED BY <3>2, <3>3 DEF EngineIds
  <2>2. SleepTypeOK
    BY <2>1, CallFacts DEF IInv, SleepIInv, SleepTyped, SleepTypeOK
  <2>3. LimitRestored
    BY SleepAssumption DEF SleepIInv, Serving, LimitRestored
  <2>4. JitOnly /\ standby = "active" => engine \in native \/ error
    BY DEF SleepIInv, Serving
  <2> QED BY <2>2, <2>3, <2>4 DEF ActiveHasEngine
<1> QED
  BY <1>1, SleepInductive, PTL DEF Spec

-------------------------------------------------------------------------------
(* The lanes of the simple engines.                                        *)

LaneType == [queue : Seq(Calls), abort : BOOLEAN, current : Calls \cup {None}]

ChatType ==
  [mode : {"none", "stream", "generate"}, n : 0 .. MaxChunks,
   end : {"none", "stop", "abort", "error", "left"}, target : Calls \cup {None}]

LEMMA LaneFacts ==
  ASSUME LaneIInv
  PROVE  /\ mllm \in BOOLEAN /\ lane \in [EngineIds -> LaneType]
         /\ chat \in [Calls -> ChatType] /\ None \notin Calls
BY SleepAssumption DEF LaneIInv, SimpleTypeOK, LaneType, ChatType

\* A call that neither was nor comes into the thread of an engine.
LEMMA ElsewhereMoves ==
  ASSUME LaneIInv, NEW c \in Calls, \A d \in Calls : d # c => call'[d] = call[d],
         call'[c].pc \notin {"thread", "none"}, UNCHANGED <<mllm, lane, chat>>
  PROVE  LaneIInv'
<1>1. /\ \A d \in Calls : At(d, "thread")' => d # c /\ At(d, "thread")
      /\ \A d \in Calls : At(d, "none")' => At(d, "none")
  BY DEF At
<1>2. \A d \in Calls : At(d, "thread")' => MyLane(d)' = MyLane(d)
  BY <1>1 DEF MyLane, Eng
<1>3. SimpleTypeOK'
  BY DEF LaneIInv, SimpleTypeOK
<1> QED
  BY <1>1, <1>2, <1>3 DEF LaneIInv, Streams

\* The parts of the invariant about one request.
OwnHead(c) ==
  At(c, "thread") => MyLane(c).queue # << >> /\ Head(MyLane(c).queue) = c

OwnFlag(c) ==
  ~ mllm /\ At(c, "thread") /\ Streams(c) =>
    /\ MyLane(c).current = c
    /\ MyLane(c).abort => \E d \in Calls : chat[d].target = c

LEMMA LaneParts ==
  LaneIInv <=>
    /\ SimpleTypeOK
    /\ \A c \in Calls : At(c, "none") => chat[c].target = None
    /\ \A c \in Calls : OwnHead(c) /\ OwnFlag(c)
    /\ ~ mllm => \A d \in Calls :
         chat[d].end = "abort" => \E c \in Calls : chat[c].target = d
BY DEF LaneIInv, OwnHead, OwnFlag

\* A step of c that leaves the chats' targets alone and turns the lane of its
\* engine into l: those who are in the thread there stay at its head.
LEMMA LaneStep ==
  ASSUME LaneIInv, NEW c \in Calls, call[c].eng \in EngineIds, NEW l \in LaneType,
         lane' = [lane EXCEPT ![Eng(c)] = l], mllm' = mllm,
         \A d \in Calls : d # c => call'[d] = call[d],
         call'[c].pc # "none", chat' \in [Calls -> ChatType],
         \A d \in Calls : /\ chat'[d].target = chat[d].target
                          /\ d # c => chat'[d] = chat[d],
         ~ mllm /\ chat'[c].end = "abort" => \E d \in Calls : chat[d].target = c,
         \A d \in Calls : d # c /\ At(d, "thread") /\ Eng(d) = Eng(c) =>
           /\ l.queue # << >> /\ Head(l.queue) = d
           /\ ~ mllm => l.current = MyLane(c).current /\ l.abort = MyLane(c).abort,
         At(c, "thread")' => OwnHead(c)' /\ OwnFlag(c)'
  PROVE  LaneIInv'
<1>1. lane' \in [EngineIds -> LaneType]
  BY LaneFacts
<1>2. SimpleTypeOK'
  BY <1>1, LaneFacts DEF SimpleTypeOK, LaneType, ChatType
<1>3. \A d \in Calls : At(d, "none")' => d # c /\ At(d, "none")
  BY DEF At
<1>4. ASSUME NEW d \in Calls, d # c, At(d, "thread")'
      PROVE  OwnHead(d)' /\ OwnFlag(d)'
  <2>1. At(d, "thread") /\ call'[d] = call[d] /\ chat'[d] = chat[d] /\ Eng(d)' = Eng(d)
    BY <1>4 DEF At, Eng
  <2>2. OwnHead(d) /\ OwnFlag(d)
    BY LaneParts
  <2>3. CASE Eng(d) = Eng(c)
    <3>1. MyLane(d)' = l /\ MyLane(d) = MyLane(c)
      BY <2>1, <2>3, LaneFacts DEF MyLane, Eng
    <3>2. OwnHead(d)'
      BY <1>4, <2>1, <2>3, <3>1 DEF OwnHead
    <3>3. OwnFlag(d)'
      BY <1>4, <2>1, <2>2, <2>3, <3>1 DEF OwnFlag, Streams
    <3> QED BY <3>2, <3>3
  <2>4. CASE Eng(d) # Eng(c)
    <3>1. MyLane(d)' = MyLane(d)
      BY <2>1, <2>4, LaneFacts DEF MyLane
    <3> QED BY <2>1, <2>2, <3>1 DEF OwnHead, OwnFlag, Streams
  <2> QED BY <2>3, <2>4
<1>5. \A d \in Calls : OwnHead(d)' /\ OwnFlag(d)'
  BY <1>4 DEF OwnHead, OwnFlag
<1>6. \A d \in Calls : At(d, "none")' => chat'[d].target = None
  BY <1>3, LaneParts
<1>7. ASSUME ~ mllm, NEW d \in Calls, chat'[d].end = "abort"
      PROVE  \E b \in Calls : chat'[b].target = d
  BY <1>7, LaneParts
<1> QED
  BY <1>2, <1>5, <1>6, <1>7 DEF LaneIInv, OwnHead, OwnFlag

\* The end of a request.
LEMMA EndLane ==
  ASSUME SleepIInv, LaneIInv, NEW c \in Calls, NEW l \in LaneType, NEW how,
         how \in {"stop", "abort", "error", "left"},
         End(c, l, how) \/
           (/\ lane' = [lane EXCEPT ![Eng(c)] = Released(l, c)]
            /\ chat' = [chat EXCEPT ![c].end = how]
            /\ Goto(c, "orphan") /\ UNCHANGED mllm),
         call[c].pc \in {"waiting", "thread"},
         l.queue = MyLane(c).queue,
         l = MyLane(c) \/ Head(l.queue) = c,
         ~ mllm /\ how = "abort" => \E d \in Calls : chat[d].target = c
  PROVE  LaneIInv'
<1> DEFINE r == Released(l, c)
           q == Without(l.queue, {c})
<1>1. call[c].eng \in EngineIds /\ call \in [Calls -> CallType] /\ call[c] \in CallType
  BY CallFacts DEF Fits
<1>2. /\ lane' = [lane EXCEPT ![Eng(c)] = r] /\ mllm' = mllm
      /\ chat' = [chat EXCEPT ![c].end = how]
  BY DEF End
<1>3. /\ \A d \in Calls : d # c => call'[d] = call[d]
      /\ call'[c].pc \in {"done", "orphan"}
  <2>1. CASE End(c, l, how)
    <3>1. call' = [call EXCEPT ![c].pc = "done", ![c].eng = None]
          /\ "done" \in Places
      BY <2>1 DEF End, Places
    <3>2. Moves(c, "done", None)
      BY <1>1, <3>1, CallFacts, MovesFacts
    <3> QED BY <3>2 DEF Moves
  <2>2. CASE Goto(c, "orphan")
    BY <1>1, <2>2 DEF Goto, CallType
  <2> QED BY <2>1, <2>2
<1>4. l.queue \in Seq(Calls) /\ r = [l EXCEPT !.queue = q] /\ q \in Seq(Calls)
  BY WithoutFacts DEF LaneType, Released
<1>5. r \in LaneType /\ r.queue = q /\ r.current = l.current /\ r.abort = l.abort
  BY <1>4 DEF LaneType
<1>6. chat' \in [Calls -> ChatType]
      /\ \A d \in Calls : /\ chat'[d].target = chat[d].target
                          /\ d # c => chat'[d] = chat[d]
  <2>1. chat[c] \in ChatType /\ [chat[c] EXCEPT !.end = how] \in ChatType
        /\ [chat[c] EXCEPT !.end = how].target = chat[c].target
    BY LaneFacts DEF ChatType
  <2>2. chat' = [chat EXCEPT ![c] = [chat[c] EXCEPT !.end = how]]
    BY <1>2
  <2> QED BY <2>1, <2>2, LaneFacts
<1>7. ~ mllm /\ chat'[c].end = "abort" => \E d \in Calls : chat[d].target = c
  BY <1>2, LaneFacts DEF ChatType
<1>8. \A d \in Calls : d # c /\ At(d, "thread") /\ Eng(d) = Eng(c) =>
        /\ r.queue # << >> /\ Head(r.queue) = d
        /\ ~ mllm => r.current = MyLane(c).current /\ r.abort = MyLane(c).abort
  <2> SUFFICES ASSUME NEW d \in Calls, d # c, At(d, "thread"), Eng(d) = Eng(c)
               PROVE  /\ r.queue # << >> /\ Head(r.queue) = d
                      /\ ~ mllm => /\ r.current = MyLane(c).current
                                   /\ r.abort = MyLane(c).abort
    OBVIOUS
  <2>1. l.queue # << >> /\ Head(l.queue) = d
    BY LaneParts DEF OwnHead, MyLane
  <2>2. q # << >> /\ Head(q) = Head(l.queue)
    BY <1>4, <2>1, WithoutHead
  <2>3. l = MyLane(c)
    BY <2>1
  <2> QED BY <1>5, <2>1, <2>2, <2>3
<1>9. ~ At(c, "thread")' /\ call'[c].pc # "none"
  BY <1>3 DEF At
<1>10. At(c, "thread")' => OwnHead(c)' /\ OwnFlag(c)'
  BY <1>9
<1> HIDE DEF r, q
<1> QED
  BY <1>1, <1>2, <1>3, <1>5, <1>6, <1>7, <1>8, <1>9, <1>10, LaneStep

LEMMA EnterLane ==
  ASSUME SleepIInv, LaneIInv, NEW c \in Calls, NEW mode \in {"stream", "generate"},
         Enter(c, mode)
  PROVE  LaneIInv'
<1> DEFINE l == MyLane(c)
           free == l.queue = << >>
           q == [l EXCEPT !.queue = Append(@, c)]
           n == IF mode = "stream" /\ (free \/ mllm) THEN Marked(q, c) ELSE q
           pc == IF free THEN "thread" ELSE "waiting"
<1>1. /\ At(c, "use") /\ lane' = [lane EXCEPT ![Eng(c)] = n] /\ mllm' = mllm
      /\ chat' = [chat EXCEPT ![c].mode = mode] /\ Goto(c, pc)
  BY DEF Enter
<1>2. /\ call[c].eng \in EngineIds /\ call \in [Calls -> CallType] /\ call[c] \in CallType
      /\ call[c].pc = "use"
  BY <1>1, CallFacts DEF Fits, At
<1>3. l \in LaneType
  BY <1>2, LaneFacts DEF MyLane, Eng
<1>4. /\ l.queue \in Seq(Calls) /\ l.abort \in BOOLEAN /\ l.current \in Calls \cup {None}
      /\ Append(l.queue, c) \in Seq(Calls) /\ Append(l.queue, c) # << >>
      /\ l.queue # << >> => Head(Append(l.queue, c)) = Head(l.queue)
      /\ l.queue = << >> => Head(Append(l.queue, c)) = c
  <2>1. l.queue \in Seq(Calls) /\ l.abort \in BOOLEAN /\ l.current \in Calls \cup {None}
    BY <1>3 DEF LaneType
  <2>2. l.queue = << >> => Append(l.queue, c) = <<c>>
    OBVIOUS
  <2> HIDE DEF l
  <2>3. <<c>> # << >> /\ Head(<<c>>) = c
    OBVIOUS
  <2> QED BY <2>1, <2>2, <2>3, LockFacts, AppendProperties
<1> HIDE DEF l
<1>5. q \in LaneType /\ q.queue = Append(l.queue, c) /\ q.abort = l.abort
      /\ q.current = l.current
  BY <1>3, <1>4 DEF LaneType
<1> HIDE DEF q
<1>6. /\ Marked(q, c) \in LaneType /\ Marked(q, c).queue = q.queue
      /\ Marked(q, c).current = c /\ Marked(q, c).abort = FALSE
  BY <1>5 DEF LaneType, Marked
<1>7. n \in LaneType /\ n.queue = Append(l.queue, c)
      /\ (~ mllm /\ ~ free => n.abort = l.abort /\ n.current = l.current)
      /\ (free /\ mode = "stream" => n.current = c /\ n.abort = FALSE)
  BY <1>5, <1>6
<1>8. /\ chat' \in [Calls -> ChatType] /\ chat'[c].mode = mode
      /\ chat'[c].end = chat[c].end
      /\ \A d \in Calls : /\ chat'[d].target = chat[d].target
                          /\ d # c => chat'[d] = chat[d]
  <2> DEFINE k == [chat[c] EXCEPT !.mode = mode]
  <2>1. k \in ChatType /\ k.target = chat[c].target /\ k.mode = mode
        /\ k.end = chat[c].end
    BY LaneFacts DEF ChatType
  <2>2. chat' = [chat EXCEPT ![c] = k]
    BY <1>1
  <2> HIDE DEF k
  <2> QED BY <2>1, <2>2, LaneFacts
<1> HIDE DEF n
<1>9. /\ \A d \in Calls : d # c => call'[d] = call[d]
      /\ call'[c].pc = pc /\ call'[c].eng = call[c].eng
  BY <1>1, <1>2 DEF Goto, CallType
<1>10. \A d \in Calls : d # c /\ At(d, "thread") /\ Eng(d) = Eng(c) =>
         /\ n.queue # << >> /\ Head(n.queue) = d
         /\ ~ mllm => n.current = MyLane(c).current /\ n.abort = MyLane(c).abort
  <2> SUFFICES ASSUME NEW d \in Calls, d # c, At(d, "thread"), Eng(d) = Eng(c)
               PROVE  /\ n.queue # << >> /\ Head(n.queue) = d
                      /\ ~ mllm => /\ n.current = MyLane(c).current
                                   /\ n.abort = MyLane(c).abort
    OBVIOUS
  <2>1. l.queue # << >> /\ Head(l.queue) = d
    BY LaneParts DEF OwnHead, MyLane, l
  <2> QED BY <1>4, <1>7, <2>1 DEF l
<1>11. ~ mllm /\ chat'[c].end = "abort" => \E d \in Calls : chat[d].target = c
  BY <1>8, LaneParts
<1>12. At(c, "thread")' => OwnHead(c)' /\ OwnFlag(c)'
  <2> SUFFICES ASSUME At(c, "thread")' PROVE OwnHead(c)' /\ OwnFlag(c)'
    OBVIOUS
  <2>1. free
    BY <1>9 DEF At
  <2>2. MyLane(c)' = n
    BY <1>1, <1>2, <1>9, LaneFacts DEF MyLane, Eng
  <2>3. OwnHead(c)'
    BY <1>4, <1>7, <2>1, <2>2 DEF OwnHead
  <2>4. Streams(c)' => mode = "stream"
    BY <1>8 DEF Streams
  <2>5. OwnFlag(c)'
    BY <1>7, <2>1, <2>2, <2>4 DEF OwnFlag
  <2> QED BY <2>3, <2>5
<1>13. call'[c].pc # "none"
  BY <1>9
<1> HIDE DEF pc, free
<1> QED
  BY <1>1, <1>2, <1>7, <1>8, <1>9, <1>10, <1>11, <1>12, <1>13, LaneStep

LEMMA AcquireLane ==
  ASSUME SleepIInv, LaneIInv, NEW c \in Calls, Acquire(c)
  PROVE  LaneIInv'
<1> DEFINE l == MyLane(c)
           n == IF Streams(c) /\ ~ mllm THEN Marked(l, c) ELSE l
<1>1. /\ At(c, "waiting") /\ l.queue # << >> /\ Head(l.queue) = c
      /\ \/ /\ lane' = [lane EXCEPT ![Eng(c)] = n] /\ Goto(c, "thread")
            /\ UNCHANGED <<mllm, chat>>
         \/ End(c, n, "error")
  BY DEF Acquire
<1>2. /\ call[c].eng \in EngineIds /\ call \in [Calls -> CallType] /\ call[c] \in CallType
      /\ call[c].pc = "waiting"
  BY <1>1, CallFacts DEF Fits, At
<1>3. l \in LaneType
  BY <1>2, LaneFacts DEF MyLane, Eng
<1>4. /\ Marked(l, c) \in LaneType /\ Marked(l, c).queue = l.queue
      /\ Marked(l, c).current = c /\ Marked(l, c).abort = FALSE
  <2> HIDE DEF l
  <2> QED BY <1>3 DEF LaneType, Marked
<1>5. n \in LaneType /\ n.queue = l.queue
      /\ (Streams(c) /\ ~ mllm => n.current = c /\ n.abort = FALSE)
  BY <1>3, <1>4
<1> HIDE DEF n
<1>6. CASE End(c, n, "error")
  BY <1>1, <1>2, <1>5, <1>6, EndLane
<1>7. CASE /\ lane' = [lane EXCEPT ![Eng(c)] = n] /\ Goto(c, "thread")
           /\ UNCHANGED <<mllm, chat>>
  <2>1. /\ \A d \in Calls : d # c => call'[d] = call[d]
        /\ call'[c].pc = "thread" /\ call'[c].eng = call[c].eng
    BY <1>2, <1>7 DEF Goto, CallType
  <2>2. \A d \in Calls : ~ (d # c /\ At(d, "thread") /\ Eng(d) = Eng(c))
    BY <1>1, LaneParts DEF OwnHead, MyLane
  <2>3. MyLane(c)' = n
    BY <1>2, <1>7, <2>1, LaneFacts DEF MyLane, Eng
  <2>4. OwnHead(c)'
    BY <1>1, <1>5, <2>3 DEF OwnHead
  <2>5. OwnFlag(c)'
    BY <1>5, <1>7, <2>3 DEF OwnFlag, Streams
  <2>6. chat' \in [Calls -> ChatType]
        /\ (~ mllm /\ chat'[c].end = "abort" => \E d \in Calls : chat[d].target = c)
        /\ \A d \in Calls : chat'[d].target = chat[d].target /\ chat'[d] = chat[d]
    BY <1>7, LaneFacts, LaneParts
  <2> QED BY <1>2, <1>5, <1>7, <2>1, <2>2, <2>4, <2>5, <2>6, LaneStep
<1> QED
  BY <1>1, <1>6, <1>7

LEMMA TokenLane ==
  ASSUME SleepIInv, LaneIInv, NEW c \in Calls, Token(c)
  PROVE  LaneIInv'
<1> DEFINE k == [chat[c] EXCEPT !.n = @ + 1]
<1>1. chat[c] \in ChatType /\ chat[c].n < MaxChunks
  BY LaneFacts DEF Token
<1>2. k \in ChatType /\ k.target = chat[c].target /\ k.end = chat[c].end
      /\ k.mode = chat[c].mode
  BY <1>1, SimpleAssumption DEF ChatType
<1>3. chat' = [chat EXCEPT ![c] = k] /\ UNCHANGED <<call, mllm, lane>>
  BY DEF Token
<1> HIDE DEF k
<1>4. /\ chat' \in [Calls -> ChatType]
      /\ \A d \in Calls : /\ chat'[d].target = chat[d].target
                          /\ chat'[d].end = chat[d].end
                          /\ chat'[d].mode = chat[d].mode
  BY <1>2, <1>3, LaneFacts
<1>5. SimpleTypeOK'
  BY <1>3, <1>4, LaneFacts DEF SimpleTypeOK, LaneType, ChatType
<1> QED
  BY <1>3, <1>4, <1>5 DEF LaneIInv, At, MyLane, Eng, Streams

LEMMA EndsLane ==
  ASSUME SleepIInv, LaneIInv, NEW c \in Calls, Aborted(c) \/ Ends(c) \/ Raises(c)
  PROVE  LaneIInv'
<1> DEFINE l == MyLane(c)
<1>1. At(c, "thread") /\ call[c].pc \in {"waiting", "thread"} /\ Head(l.queue) = c
  BY LaneParts DEF Aborted, Ends, Raises, At, OwnHead
<1>2. l \in LaneType
  BY <1>1, CallFacts, LaneFacts DEF MyLane, Eng, Fits
<1>3. CASE Aborted(c)
  <2> DEFINE n == [l EXCEPT !.abort = FALSE, !.current = IF mllm THEN @ ELSE None]
  <2>1. End(c, n, "abort") /\ Streams(c) /\ l.abort
    BY <1>3 DEF Aborted
  <2>2. n \in LaneType /\ n.queue = l.queue
    <3> HIDE DEF l
    <3> QED BY <1>2 DEF LaneType
  <2>3. ~ mllm => \E d \in Calls : chat[d].target = c
    BY <1>1, <2>1, LaneParts DEF OwnFlag
  <2> HIDE DEF n
  <2> QED BY <1>1, <2>1, <2>2, <2>3, EndLane
<1>4. CASE Ends(c)
  <2> DEFINE n == [l EXCEPT !.current = IF Streams(c) THEN None ELSE @]
  <2>1. End(c, n, "stop")
    BY <1>4 DEF Ends
  <2>2. n \in LaneType /\ n.queue = l.queue
    <3> HIDE DEF l
    <3> QED BY <1>2 DEF LaneType
  <2> HIDE DEF n
  <2> QED BY <1>1, <2>1, <2>2, EndLane
<1>5. CASE Raises(c)
  BY <1>1, <1>2, <1>5, EndLane DEF Raises
<1> QED
  BY <1>3, <1>4, <1>5

LEMMA LeaveLane ==
  ASSUME SleepIInv, LaneIInv, NEW c \in Calls, NEW computes, Leave(c, computes)
  PROVE  LaneIInv'
<1>1. call[c].pc \in {"waiting", "thread"}
  BY DEF Leave, At
<1>2. MyLane(c) \in LaneType
  BY <1>1, CallFacts, LaneFacts DEF MyLane, Eng, Fits
<1>3. \/ End(c, MyLane(c), "left")
      \/ /\ lane' = [lane EXCEPT ![Eng(c)] = Released(MyLane(c), c)]
         /\ chat' = [chat EXCEPT ![c].end = "left"]
         /\ Goto(c, "orphan") /\ UNCHANGED mllm
  BY DEF Leave
<1> QED
  BY <1>1, <1>2, <1>3, EndLane

\* A cancel sets the flag for the request it is for, or for a request that has
\* not begun.
LEMMA CancelLane ==
  ASSUME SleepIInv, LaneIInv, NEW c \in Calls, NEW d \in Calls, Cancel(c, d)
  PROVE  LaneIInv'
<1> DEFINE k == [chat[c] EXCEPT !.target = d]
<1>1. /\ At(c, "none") /\ chat' = [chat EXCEPT ![c] = k] /\ UNCHANGED mllm
      /\ call' = [call EXCEPT ![c] = [kind |-> "cancel", pc |-> "done", eng |-> None]]
      /\ \/ lane' = lane
         \/ /\ engine # None /\ Matches(lane[engine], d)
            /\ lane' = [lane EXCEPT ![engine].abort = TRUE]
  BY DEF Cancel
<1>2. /\ \A x \in Calls : x # c => call'[x] = call[x]
      /\ call'[c].pc = "done"
  BY <1>1, CallFacts
<1>3. /\ \A x \in Calls : At(x, "thread")' => x # c /\ At(x, "thread") /\ Eng(x)' = Eng(x)
      /\ \A x \in Calls : At(x, "none")' => x # c /\ At(x, "none")
  BY <1>2 DEF At, Eng
<1>4. k \in ChatType /\ k.target = d /\ k.end = chat[c].end
  BY LaneFacts DEF ChatType
<1> HIDE DEF k
<1>5. /\ chat' \in [Calls -> ChatType] /\ chat'[c].target = d
      /\ \A x \in Calls : /\ x # c => chat'[x] = chat[x]
                          /\ chat'[x].end = chat[x].end
  BY <1>1, <1>4, LaneFacts
<1>6. chat[c].target = None
  BY <1>1, LaneParts
<1>7. \A x, y \in Calls : chat[y].target = x => chat'[y].target = x
  BY <1>5, <1>6, LaneFacts
<1>8. ASSUME NEW x \in Calls, At(x, "thread")'
      PROVE  OwnHead(x)' /\ OwnFlag(x)'
  <2>1. /\ At(x, "thread") /\ x # c /\ chat'[x] = chat[x] /\ Eng(x)' = Eng(x)
        /\ Eng(x) \in EngineIds
    BY <1>3, <1>5, <1>8, CallFacts DEF At, Eng, Fits
  <2>2. OwnHead(x) /\ OwnFlag(x)
    BY LaneParts
  <2>3. CASE MyLane(x)' = MyLane(x)
    <3>1. OwnHead(x)'
      BY <2>1, <2>2, <2>3 DEF OwnHead
    <3>2. OwnFlag(x)'
      BY <1>1, <1>7, <2>1, <2>2, <2>3 DEF OwnFlag, Streams
    <3> QED BY <3>1, <3>2
  <2>4. CASE MyLane(x)' # MyLane(x)
    <3>1. /\ engine = Eng(x) /\ Matches(lane[engine], d)
          /\ lane' = [lane EXCEPT ![engine].abort = TRUE]
      BY <1>1, <2>1, <2>4, LaneFacts DEF MyLane
    <3>2. MyLane(x) \in LaneType
      BY <2>1, LaneFacts DEF MyLane
    <3>3. /\ MyLane(x)'.queue = MyLane(x).queue /\ MyLane(x)'.current = MyLane(x).current
      <4>1. MyLane(x)' = [MyLane(x) EXCEPT !.abort = TRUE]
        BY <2>1, <3>1, LaneFacts DEF MyLane
      <4> QED BY <3>2, <4>1 DEF LaneType
    <3>4. OwnHead(x)'
      BY <2>1, <2>2, <3>3 DEF OwnHead
    <3>5. ASSUME ~ mllm', Streams(x)'
          PROVE  MyLane(x)'.current = x /\ chat'[c].target = x
      <4>1. ~ mllm /\ Streams(x)
        BY <1>1, <2>1, <3>5 DEF Streams
      <4>2. MyLane(x).current = x
        BY <2>1, <2>2, <4>1 DEF OwnFlag
      <4>3. x \in {None, d}
        BY <3>1, <4>2 DEF Matches, MyLane
      <4> QED BY <1>5, <3>3, <4>2, <4>3, LaneFacts
    <3>6. OwnFlag(x)'
      BY <3>5 DEF OwnFlag
    <3> QED BY <3>4, <3>6
  <2> QED BY <2>3, <2>4
<1>9. \A x \in Calls : OwnHead(x)' /\ OwnFlag(x)'
  BY <1>8 DEF OwnHead, OwnFlag
<1>10. lane' \in [EngineIds -> LaneType]
  <2>1. CASE lane' = lane
    BY <2>1, LaneFacts
  <2>2. CASE engine # None /\ lane' = [lane EXCEPT ![engine].abort = TRUE]
    <3>1. lane[engine] \in LaneType
      BY <2>2, LaneFacts, CallFacts
    <3>2. [lane[engine] EXCEPT !.abort = TRUE] \in LaneType
      BY <3>1 DEF LaneType
    <3> QED BY <2>2, <3>2, LaneFacts
  <2> QED BY <1>1, <2>1, <2>2
<1>11. SimpleTypeOK'
  BY <1>1, <1>5, <1>10, LaneFacts DEF SimpleTypeOK, LaneType, ChatType
<1>12. \A x \in Calls : At(x, "none")' => chat'[x].target = None
  BY <1>3, <1>5, LaneParts
<1>13. ~ mllm' => \A x \in Calls :
         chat'[x].end = "abort" => \E y \in Calls : chat'[y].target = x
  BY <1>1, <1>5, <1>7, LaneParts
<1> QED
  BY <1>9, <1>11, <1>12, <1>13 DEF LaneIInv, OwnHead, OwnFlag

Elsewhere(c) ==
  /\ \A d \in Calls : d # c => call'[d] = call[d]
  /\ call'[c].pc \notin {"thread", "none"}

LEMMA ElsewhereFacts ==
  ASSUME SleepIInv, NEW c \in Calls, NEW pc \in Places \ {"thread", "none"},
         NEW e \in EngineIds \cup {None},
         \/ Goto(c, pc)
         \/ call' = [call EXCEPT ![c].pc = pc, ![c].eng = e]
         \/ call' = [call EXCEPT ![c].eng = e, ![c].pc = pc]
  PROVE  Elsewhere(c)
<1>1. \E x : Moves(c, pc, x)
  BY CallFacts, MovesFacts
<1> QED
  BY <1>1 DEF Moves, Elsewhere

\* A step of a sleep, of a wake or of a load is none of a thread's.
LEMMA SleepStepLane ==
  ASSUME SleepIInv, LaneIInv, NEW c \in Calls, SleepStep(c) \/ LoadWire(c),
         UNCHANGED <<mllm, lane, chat>>
  PROVE  LaneIInv'
<1> SUFFICES Elsewhere(c)
  BY ElsewhereMoves DEF Elsewhere
<1> DEFINE P == Places \ {"thread", "none"}
<1>1. {"done", "handler", "drop", "construct", "wired", "start", "starting", "ready",
       "use", "run", "stopping"} \subseteq P
  BY DEF Places, LoadingPlaces
<1> HIDE DEF P
<1>2. ASSUME NEW pc \in P, Goto(c, pc) PROVE Elsewhere(c)
  BY <1>2, CallFacts, ElsewhereFacts DEF P
<1>3. ASSUME NEW pc \in P, NEW e \in {engine, None},
             \/ call' = [call EXCEPT ![c].pc = pc, ![c].eng = e]
             \/ call' = [call EXCEPT ![c].eng = e, ![c].pc = pc]
      PROVE  Elsewhere(c)
  BY <1>3, CallFacts, ElsewhereFacts DEF P
<1>4. CASE WakeCall(c) \/ JitWake(c)
  <2>1. Goto(c, "done") \/ Goto(c, "handler") \/ Goto(c, "drop")
    BY <1>4 DEF WakeCall, JitWake, Wake
  <2> QED BY <1>1, <1>2, <2>1
<1>5. CASE GetEngine(c)
  <2> DEFINE pc == IF engine = None THEN "done" ELSE "use"
  <2>1. call' = [call EXCEPT ![c].eng = engine, ![c].pc = pc] /\ pc \in P
    BY <1>1, <1>5 DEF GetEngine
  <2> HIDE DEF pc
  <2> QED BY <1>3, <2>1
<1>6. CASE UseEngine(c) \/ SleepRefused(c) \/ SoftSleep(c)
  BY <1>1, <1>2, <1>6 DEF UseEngine, SleepRefused, SoftSleep
<1>7. CASE Answer(c) \/ DeepStopped(c) \/ LoadStarted(c) \/ LoadFails(c)
  <2>1. \/ call' = [call EXCEPT ![c].pc = "done", ![c].eng = None]
        \/ call' = [call EXCEPT ![c].pc = "wired", ![c].eng = None]
    BY <1>7 DEF Answer, DeepStopped, LoadStarted, LoadFails
  <2> QED BY <1>1, <1>3, <2>1
<1>8. CASE DeepSleep(c) \/ LoadStart(c)
  <2>1. \/ call' = [call EXCEPT ![c].pc = "stopping", ![c].eng = engine]
        \/ call' = [call EXCEPT ![c].pc = "starting", ![c].eng = engine]
        \/ Goto(c, "done")
    BY <1>8 DEF DeepSleep, LoadStart
  <2> QED BY <1>1, <1>2, <1>3, <2>1
<1>9. CASE LoadDrop(c) \/ LoadWire(c)
  BY <1>1, <1>2, <1>9 DEF LoadDrop, LoadWire
<1>10. CASE LoadConstruct(c)
  <2>1. Goto(c, IF batching THEN "wired" ELSE "start")
    BY <1>10 DEF LoadConstruct
  <2> QED BY <1>1, <1>2, <2>1
<1>11. CASE Loaded(c)
  <2>1. Goto(c, IF call[c].kind = "infer" THEN "handler" ELSE "done")
    BY <1>11 DEF Loaded
  <2> QED BY <1>1, <1>2, <2>1
<1> QED
  BY <1>4, <1>5, <1>6, <1>7, <1>8, <1>9, <1>10, <1>11 DEF SleepStep

LEMMA LaneInductive ==
  (Init => LaneIInv) /\ (SleepIInv /\ LaneIInv /\ [Next]_vars => LaneIInv')
<1>1. ASSUME Init PROVE LaneIInv
  <2>1. /\ call = [c \in Calls |-> NoCall] /\ lane = [e \in EngineIds |-> FreshLane]
        /\ chat = [c \in Calls |-> NoChat] /\ mllm \in BOOLEAN
    BY <1>1, SimpleAssumption DEF Init, SleepInit
  <2>2. FreshLane \in LaneType /\ NoChat \in ChatType /\ NoChat.target = None
        /\ NoChat.end = "none" /\ NoCall.pc = "none"
    BY SimpleAssumption DEF FreshLane, NoChat, NoCall, LaneType, ChatType
  <2>3. SimpleTypeOK
    BY <2>1, <2>2 DEF SimpleTypeOK, LaneType, ChatType
  <2>4. \A c \in Calls : chat[c] = NoChat /\ call[c] = NoCall
    BY <2>1
  <2> QED BY <2>2, <2>3, <2>4 DEF LaneIInv, At
<1>2. ASSUME LaneIInv, UNCHANGED vars PROVE LaneIInv'
  BY <1>2 DEF vars, svars, LaneIInv, SimpleTypeOK, At, MyLane, Eng, Streams
<1>3. ASSUME SleepIInv, LaneIInv, NEW c \in Calls, Proceed(c) PROVE LaneIInv'
  <2>1. CASE OrphanEnds(c)
    <3>1. UNCHANGED <<mllm, lane, chat>> /\ "done" \in Places
          /\ call' = [call EXCEPT ![c].pc = "done", ![c].eng = None]
      BY <2>1 DEF OrphanEnds, Places
    <3>2. Moves(c, "done", None)
      BY <1>3, <3>1, CallFacts, MovesFacts
    <3> QED BY <1>3, <3>1, <3>2, ElsewhereMoves DEF Moves
  <2> QED
    BY <1>3, <2>1, SleepStepLane, EnterLane, AcquireLane, TokenLane, EndsLane DEF Proceed
<1>4. ASSUME SleepIInv, LaneIInv, NEW c \in Calls, Environment(c) PROVE LaneIInv'
  <2>1. ASSUME NEW kind, Arrive(c, kind), UNCHANGED <<mllm, lane, chat>>
        PROVE  LaneIInv'
    <3>1. /\ \A d \in Calls : d # c => call'[d] = call[d]
          /\ call'[c].pc \in {"queued", "handler", "begin"}
      BY <1>4, <2>1, CallFacts DEF Arrive
    <3> QED BY <1>4, <2>1, <3>1, ElsewhereMoves
  <2> QED BY <1>4, <2>1, CancelLane, LeaveLane DEF Environment
<1> QED
  BY <1>1, <1>2, <1>3, <1>4 DEF Next

\* One request at a time is in the thread of an engine, and a stream of a text
\* model that ends as aborted was cancelled itself (OwnAbort; stream_generate
\* and abort_request in simple.py).
THEOREM AbortsOwn == Spec => []OwnAbort
<1>1. LaneIInv => OwnAbort
  BY LaneParts DEF OwnHead, OwnAbort, MyLane, LaneIInv
<1> QED
  BY <1>1, SleepInductive, LaneInductive, PTL DEF Spec

-----------------------------------------------------------------------------
\* The clients and what is open: the inductive invariant.

Clients ==
  [state : {"disconnected", "connecting", "connected", "error"},
   step : {"idle", "transport", "session", "undo", "initialize", "discover",
           "leave_session", "leave_transport"},
   after : {"disconnected", "error"}, attempt : Nat, transport : Nat,
   session : Nat, tools : SUBSET UNION {Offers[s] : s \in S}]

Things == [kind : {"transport", "session"}, server : S, id : Nat \ {0}]

Managers ==
  [started : BOOLEAN, op : {"none", "start", "stop", "reconnect"},
   todo : Seq({"connect", "disconnect"} \X S)]

McpTypeOK ==
  /\ client \in [S -> Clients]
  /\ open \subseteq Things /\ IsFiniteSet(open)
  /\ unclean \in [S -> Nat]
  /\ manager \in Managers

\* Nothing is under way while the manager's lock is free.
Locked ==
  /\ manager.op = "none" => Idle
  /\ manager.todo # << >> => manager.op # "none"

Connection(s) == {Thing("session", s), Thing("transport", s)}

\* How far a connection is, and what is to follow a session that is left.
Stage(s) ==
  LET c == client[s]
  IN  /\ c.step = "transport" => c.transport = c.attempt /\ c.attempt # 0
      /\ c.step \in {"session", "undo", "initialize", "discover"} =>
           /\ c.transport = c.attempt /\ c.session = c.attempt /\ c.attempt # 0
           /\ Thing("transport", s) \in open
      /\ c.step \in {"initialize", "discover"} => Thing("session", s) \in open
      /\ c.step = "idle" /\ Connected(s) =>
           c.session = c.transport /\ Connection(s) \subseteq open
      /\ Connected(s) => c.step \in {"idle", "leave_session", "leave_transport"}
      /\ c.step \in {"leave_session", "leave_transport"} =>
           c.after = "disconnected" \/ c.state = "error"
      /\ c.step = "leave_transport" => c.session = 0

\* The client will still leave what it has opened.
Busy(c) == c.step # "idle" \/ c.state = "connected"

IdOf(c, kind) == IF kind = "session" THEN c.session ELSE c.transport

\* The transports of s that its client will not leave.
Lost(s) ==
  {x \in open : /\ x.kind = "transport" /\ x.server = s
                /\ Busy(client[s]) => x.id # client[s].transport}

\* Each is owed to an exit that failed, and without such an exit nothing else
\* than the client's connection is open.
Tidy(s) ==
  LET c == client[s]
  IN  /\ Cardinality(Lost(s)) <= unclean[s]
      /\ unclean[s] = 0 =>
           \A x \in open : x.server = s =>
             Busy(c) /\ c.step # "transport" /\ x.id = IdOf(c, x.kind)

ClientsIInv == McpTypeOK /\ Locked /\ \A s \in S : Stage(s) /\ Tidy(s)

-----------------------------------------------------------------------------
\* A request: the inductive invariant.

Size(b) == Len(b.calls)

IsBatch(b) ==
  b = [phase |-> b.phase, mode |-> b.mode, calls |-> b.calls, at |-> b.at,
       session |-> b.session, answer |-> b.answer, results |-> b.results,
       audit |-> b.audit]

BatchTyped(b) ==
  /\ IsBatch(b)
  /\ b.phase \in {"none", "running", "returned", "raised"}
  /\ b.mode \in {"direct", "parallel", "sequential"}
  /\ Size(b) \in Nat /\ DOMAIN b.calls = 1 .. Size(b)
  /\ b.at \in [1 .. Size(b) -> {"queued", "sent", "done"}]
  /\ b.answer \in [1 .. Size(b) -> {"none", "ok", "error"}]
  /\ b.audit \in Seq((1 .. Size(b)) \X BOOLEAN)

\* The log has what was done, once.
Entered(b, i) ==
  IF b.at[i] # "done" \/ b.mode = "direct" \/ b.calls[i].kind = "odd"
  THEN Recorded(b, i) = {}
  ELSE \E k \in DOMAIN b.audit :
         Recorded(b, i) = {k} /\ b.audit[k] = <<i, b.answer[i] = "ok">>

Logged(b) == \A i \in 1 .. Size(b) : Entered(b, i)

\* A call that the sandbox breaks on is never sent by the executor.
SentSafely(b) ==
  \A i \in 1 .. Size(b) :
    b.at[i] = "sent" => b.mode = "direct" \/ b.calls[i].kind # "odd"

\* In a sequence the calls that are done are the first ones, with a result
\* each, and one call at most is sent.
InSequence(b) ==
  /\ b.results \in Seq([id : Nat, is : {"none", "ok", "error"}])
  /\ Len(b.results) <= Size(b)
  /\ \A i \in 1 .. Len(b.results) :
       b.results[i] = [id |-> i, is |-> b.answer[i]]
  /\ \A i \in 1 .. Size(b) : b.at[i] = "done" <=> i <= Len(b.results)
  /\ \A i \in 1 .. Size(b) : b.at[i] = "sent" => i = Len(b.results) + 1

BatchIInv ==
  /\ BatchTyped(batch)
  /\ Logged(batch) /\ SentSafely(batch)
  /\ batch.phase = "running" /\ batch.mode = "sequential" => InSequence(batch)
  /\ batch.phase = "returned" =>
       /\ \A i \in 1 .. Size(batch) : batch.at[i] = "done"
       /\ batch.results = [i \in DOMAIN batch.calls |->
                             [id |-> i, is |-> batch.answer[i]]]

-----------------------------------------------------------------------------
\* What the steps of a client do to it.

\* Unwind turns c into d: it is to leave the session, or the transport when
\* there is no session, or is done when there is neither.
Unwound(c, d) ==
  /\ d \in Clients
  /\ d.transport = c.transport /\ d.session = c.session
  /\ d.attempt = c.attempt /\ d.after = c.after
  /\ c.session # 0 => d.step = "leave_session" /\ d.state = c.state
  /\ c.session = 0 /\ c.transport # 0 =>
       d.step = "leave_transport" /\ d.state = c.state
  /\ c.session = 0 /\ c.transport = 0 =>
       /\ d.step = "idle"
       /\ d.state = IF c.after = "error" THEN c.state ELSE "disconnected"

LEMMA UnwindFacts ==
  ASSUME NEW c \in Clients
  PROVE  Unwound(c, Unwind(c))
<1>1. CASE c.session # 0
  <2>1. Unwind(c) = [c EXCEPT !.step = "leave_session"]
    BY <1>1 DEF Unwind
  <2> QED BY <1>1, <2>1 DEF Clients, Unwound
<1>2. CASE c.session = 0 /\ c.transport # 0
  <2>1. Unwind(c) = [c EXCEPT !.step = "leave_transport"]
    BY <1>2 DEF Unwind
  <2> QED BY <1>2, <2>1 DEF Clients, Unwound
<1>3. CASE c.session = 0 /\ c.transport = 0
  <2>1. Unwind(c) = Settled(c)
    BY <1>3 DEF Unwind
  <2>2. CASE c.after = "error"
    <3>1. Unwind(c) = [c EXCEPT !.step = "idle"]
      BY <2>1, <2>2 DEF Settled
    <3> QED BY <1>3, <2>2, <3>1 DEF Clients, Unwound
  <2>3. CASE c.after # "error"
    <3>1. Unwind(c) = [c EXCEPT !.step = "idle", !.state = "disconnected", !.tools = {}]
      BY <2>1, <2>3 DEF Settled
    <3> QED BY <1>3, <2>3, <3>1 DEF Clients, Unwound
  <2> QED BY <2>2, <2>3
<1> QED
  BY <1>1, <1>2, <1>3

LEMMA SettledFacts ==
  ASSUME NEW c \in Clients
  PROVE  LET d == Settled(c)
         IN  /\ d \in Clients /\ d.step = "idle"
             /\ d.state = IF c.after = "error" THEN c.state ELSE "disconnected"
<1>1. CASE c.after = "error"
  BY <1>1 DEF Settled, Clients
<1>2. CASE c.after # "error"
  BY <1>2 DEF Settled, Clients
<1> QED
  BY <1>1, <1>2

LEMMA FailedFacts ==
  ASSUME NEW c \in Clients
  PROVE  LET d == [c EXCEPT !.state = "error", !.after = "error"]
         IN  /\ d \in Clients /\ Failed(c) = Unwind(d)
             /\ d.state = "error"
             /\ d.transport = c.transport /\ d.session = c.session
BY DEF Clients, Failed

LEMMA ConnectingFacts ==
  ASSUME NEW s \in S, NEW c \in Clients, c.step = "idle"
  PROVE  LET d == Connecting(s, c)
         IN  /\ d \in Clients
             /\ \/ d = c
                \/ /\ c.state # "connected"
                   /\ d.state = "connecting" /\ d.step = "transport"
                   /\ d.transport = d.attempt /\ d.attempt # 0
<1>1. CASE c.state = "connected" \/ s \notin Enabled
  BY <1>1 DEF Connecting
<1>2. CASE ~ (c.state = "connected" \/ s \notin Enabled)
  <2>1. Connecting(s, c) = [c EXCEPT !.state = "connecting", !.step = "transport",
                                     !.attempt = @ + 1, !.transport = c.attempt + 1]
    BY <1>2 DEF Connecting
  <2> DEFINE n == c.attempt + 1
  <2>2. n \in Nat /\ n # 0
    <3>1. c.attempt \in Nat
      BY DEF Clients
    <3> QED BY <3>1
  <2>3. c.attempt + 1 = n
    OBVIOUS
  <2> HIDE DEF n
  <2>4. Connecting(s, c) = [c EXCEPT !.state = "connecting", !.step = "transport",
                                     !.attempt = n, !.transport = n]
    BY <2>1, <2>3 DEF Clients
  <2> QED BY <1>2, <2>2, <2>4 DEF Clients
<1> QED
  BY <1>1, <1>2

LEMMA DisconnectingFacts ==
  ASSUME NEW c \in Clients
  PROVE  LET d == [c EXCEPT !.after = "disconnected"]
         IN  /\ d \in Clients /\ d.after = "disconnected" /\ d.state = c.state
             /\ d.transport = c.transport /\ d.session = c.session
             /\ Disconnecting(c) = IF c.state = "disconnected" THEN c ELSE Unwind(d)
BY DEF Clients, Disconnecting

-----------------------------------------------------------------------------
\* What the steps keep of the stage of a connection and of what is open.

\* The sizes of two sets of open things, of which one has one more at most.
LEMMA LostFacts ==
  ASSUME NEW o, IsFiniteSet(o), NEW A \in SUBSET o, NEW B \in SUBSET o
  PROVE  /\ Cardinality(A) \in Nat
         /\ A \subseteq B => Cardinality(A) <= Cardinality(B)
         /\ \A x : A \subseteq B \cup {x} => Cardinality(A) <= Cardinality(B) + 1
<1>1. IsFiniteSet(A) /\ IsFiniteSet(B) /\ Cardinality(A) \in Nat /\ Cardinality(B) \in Nat
  BY FS_Subset, FS_CardinalityType
<1>2. A \subseteq B => Cardinality(A) <= Cardinality(B)
  BY <1>1, FS_Subset
<1>3. ASSUME NEW x, A \subseteq B \cup {x}
      PROVE  Cardinality(A) <= Cardinality(B) + 1
  <2>1. /\ IsFiniteSet(B \cup {x})
        /\ Cardinality(B \cup {x}) <= Cardinality(B) + 1
        /\ Cardinality(B \cup {x}) \in Nat
    <3>1. IsFiniteSet(B \cup {x})
      BY <1>1, FS_AddElement
    <3>2. CASE x \in B
      <4>1. B \cup {x} = B
        BY <3>2
      <4> QED BY <1>1, <4>1
    <3>3. CASE x \notin B
      <4>1. Cardinality(B \cup {x}) = Cardinality(B) + 1
        BY <1>1, <3>3, FS_AddElement
      <4> QED BY <1>1, <3>1, <4>1
    <3> QED BY <3>2, <3>3
  <2>2. Cardinality(A) <= Cardinality(B \cup {x})
    BY <1>3, <2>1, FS_Subset
  <2> QED BY <1>1, <2>1, <2>2
<1> QED
  BY <1>1, <1>2, <1>3

\* A client that begins to leave what it has opened, or goes on to.
LEMMA Unwinding ==
  ASSUME NEW s \in S, NEW c \in Clients,
         c.after = "disconnected" \/ c.state = "error",
         client'[s] = Unwind(c), (open \subseteq Things)', IsFiniteSet(open)',
         unclean'[s] \in Nat,
         Cardinality({x \in open' : /\ x.kind = "transport" /\ x.server = s
                                    /\ x.id # c.transport}) <= unclean'[s],
         unclean'[s] = 0 =>
           \A x \in open' : x.server = s => x.id = IdOf(c, x.kind)
  PROVE  Stage(s)' /\ Tidy(s)'
<1> DEFINE d == client'[s]
<1>0. Unwound(c, d)
  BY UnwindFacts
<1>1. /\ d \in Clients
      /\ d.transport = c.transport /\ d.session = c.session
      /\ d.attempt = c.attempt /\ d.after = c.after
      /\ c.session # 0 => d.step = "leave_session" /\ d.state = c.state
      /\ c.session = 0 /\ c.transport # 0 =>
           d.step = "leave_transport" /\ d.state = c.state
      /\ c.session = 0 /\ c.transport = 0 =>
           /\ d.step = "idle"
           /\ d.state = IF c.after = "error" THEN c.state ELSE "disconnected"
  BY <1>0 DEF Unwound
<1>2. \A x \in open' : x.id # 0 /\ x.kind \in {"transport", "session"}
  BY DEF Things
<1>3. d.step = "idle" => ~ Busy(d) /\ d.transport = 0 /\ d.session = 0
  BY <1>1 DEF Busy
<1>4. d.step # "idle" => Busy(d) /\ d.step \in {"leave_session", "leave_transport"}
  BY <1>1 DEF Busy
<1>5. Stage(s)'
  BY <1>1, <1>3, <1>4 DEF Stage, Busy, Connected
<1>6. Lost(s)' = {x \in open' : /\ x.kind = "transport" /\ x.server = s
                                   /\ x.id # c.transport}
  <2>1. CASE d.step = "idle"
    BY <1>1, <1>2, <1>3, <2>1 DEF Lost
  <2>2. CASE d.step # "idle"
    BY <1>1, <1>4, <2>2 DEF Lost
  <2> QED BY <2>1, <2>2
<1>7. unclean'[s] = 0 => \A x \in open' : x.server = s =>
         Busy(d) /\ d.step # "transport" /\ x.id = IdOf(d, x.kind)
  <2>1. CASE d.step = "idle"
    BY <1>1, <1>2, <1>3, <2>1 DEF IdOf
  <2>2. CASE d.step # "idle"
    BY <1>1, <1>4, <2>2 DEF IdOf
  <2> QED BY <2>1, <2>2
<1>8. Tidy(s)'
  BY <1>6, <1>7 DEF Tidy
<1> QED
  BY <1>5, <1>8

\* An exit that failed ends the operation of its client.
LEMMA Settling ==
  ASSUME NEW s \in S, McpTypeOK, Stage(s), Tidy(s),
         client[s].step \in {"leave_session", "leave_transport"},
         client'[s] = Settled(client[s]), open' = open,
         unclean'[s] = unclean[s] + 1
  PROVE  Stage(s)' /\ Tidy(s)'
<1> DEFINE c == client[s]
           d == client'[s]
<1>1. c \in Clients /\ IsFiniteSet(open) /\ open \subseteq Things /\ unclean[s] \in Nat
  BY DEF McpTypeOK
<1>2. /\ d.step = "idle"
      /\ d.state = IF c.after = "error" THEN c.state ELSE "disconnected"
  BY <1>1, SettledFacts
<1>3. c.after = "disconnected" \/ c.state = "error"
  BY DEF Stage
<1>4. d.step = "idle" /\ d.state # "connected"
  BY <1>1, <1>2, <1>3 DEF Clients
<1>5. Stage(s)'
  BY <1>4 DEF Stage, Connected
<1>6. Lost(s)' \subseteq Lost(s) \cup {[kind |-> "transport", server |-> s, id |-> c.transport]}
  <2> SUFFICES ASSUME NEW x \in open, x.kind = "transport", x.server = s,
                      x.id = c.transport
               PROVE  x = [kind |-> "transport", server |-> s, id |-> c.transport]
    BY <1>1, <1>4 DEF Lost
  <2>1. x \in Things
    BY <1>1
  <2>2. x = [kind |-> x.kind, server |-> x.server, id |-> x.id]
    BY <2>1 DEF Things
  <2> QED BY <2>2
<1>7. Cardinality(Lost(s)') <= Cardinality(Lost(s)) + 1 /\ Cardinality(Lost(s)) \in Nat
      /\ Cardinality(Lost(s)') \in Nat
  <2>1. Lost(s)' \subseteq open /\ Lost(s) \subseteq open
    BY DEF Lost
  <2> QED BY <1>1, <1>6, <2>1, LostFacts
<1>8. Cardinality(Lost(s)) <= unclean[s]
  BY DEF Tidy
<1>9. Cardinality(Lost(s)') <= unclean'[s] /\ unclean'[s] # 0
  <2>1. Cardinality(Lost(s)') <= unclean[s] + 1 /\ unclean[s] + 1 # 0
    BY <1>1, <1>7, <1>8
  <2> QED BY <2>1
<1>10. Tidy(s)'
  BY <1>9 DEF Tidy
<1> QED
  BY <1>5, <1>10

\* A client that starts to connect, or is connected already.
LEMMA StartsConnecting ==
  ASSUME NEW s \in S, McpTypeOK, Stage(s), Tidy(s), client[s].step = "idle",
         client'[s] = Connecting(s, client[s]), open' = open,
         unclean'[s] = unclean[s]
  PROVE  client'[s] \in Clients /\ Stage(s)' /\ Tidy(s)'
<1> DEFINE c == client[s]
           d == client'[s]
<1>1. c \in Clients /\ IsFiniteSet(open) /\ open \subseteq Things /\ unclean[s] \in Nat
  BY DEF McpTypeOK
<1>2. /\ d \in Clients
      /\ \/ d = c
         \/ /\ c.state # "connected"
            /\ d.state = "connecting" /\ d.step = "transport"
            /\ d.transport = d.attempt /\ d.attempt # 0
  BY <1>1, ConnectingFacts
<1>3. CASE d = c
  <2>1. Stage(s)'
    BY <1>3 DEF Stage, Connected, Connection, Thing
  <2>2. Tidy(s)'
    BY <1>3 DEF Tidy, Lost
  <2> QED BY <1>2, <2>1, <2>2
<1>4. CASE d # c
  <2>1. ~ Busy(c) /\ d.step = "transport" /\ d.state = "connecting"
        /\ d.transport = d.attempt /\ d.attempt # 0
    BY <1>2, <1>4 DEF Busy
  <2>2. Stage(s)'
    BY <2>1 DEF Stage, Connected
  <2>3. Lost(s)' \subseteq Lost(s)
    BY <2>1 DEF Lost
  <2>4. /\ Cardinality(Lost(s)') <= Cardinality(Lost(s))
        /\ Cardinality(Lost(s)') \in Nat /\ Cardinality(Lost(s)) \in Nat
    <3>1. Lost(s)' \subseteq open /\ Lost(s) \subseteq open
      BY DEF Lost
    <3> QED BY <1>1, <2>3, <3>1, LostFacts
  <2>5. Cardinality(Lost(s)) <= unclean[s]
    BY DEF Tidy
  <2>6. unclean[s] = 0 => \A x \in open : x.server # s
    BY <2>1 DEF Tidy
  <2>7. Tidy(s)'
    BY <1>1, <2>4, <2>5, <2>6 DEF Tidy
  <2> QED BY <1>2, <2>2, <2>7
<1> QED
  BY <1>3, <1>4

\* A client that starts to disconnect, or has nothing to leave.
LEMMA StartsDisconnecting ==
  ASSUME NEW s \in S, McpTypeOK, Stage(s), Tidy(s), client[s].step = "idle",
         client'[s] = Disconnecting(client[s]), open' = open,
         unclean'[s] = unclean[s]
  PROVE  client'[s] \in Clients /\ Stage(s)' /\ Tidy(s)'
<1> DEFINE c == client[s]
           e == [c EXCEPT !.after = "disconnected"]
<1>1. c \in Clients /\ IsFiniteSet(open) /\ open \subseteq Things /\ unclean[s] \in Nat
  BY DEF McpTypeOK
<1>2. /\ e \in Clients /\ e.after = "disconnected" /\ e.state = c.state
      /\ e.transport = c.transport /\ e.session = c.session
      /\ Disconnecting(c) = IF c.state = "disconnected" THEN c ELSE Unwind(e)
  BY <1>1, DisconnectingFacts
<1> HIDE DEF e
<1>3. CASE c.state = "disconnected"
  <2>1. client'[s] = c
    BY <1>2, <1>3
  <2>2. Stage(s)'
    BY <2>1 DEF Stage, Connected, Connection, Thing
  <2>3. Tidy(s)'
    BY <2>1 DEF Tidy, Lost
  <2> QED BY <1>1, <2>1, <2>2, <2>3
<1>4. CASE c.state # "disconnected"
  <2>1. client'[s] = Unwind(e)
    BY <1>2, <1>4
  <2> DEFINE T == {x \in open : /\ x.kind = "transport" /\ x.server = s
                                /\ x.id # e.transport}
  <2>2. T \subseteq Lost(s)
    BY <1>2 DEF Lost
  <2>3. Cardinality(T) <= unclean[s]
    <3>1. T \subseteq open /\ Lost(s) \subseteq open
      BY DEF Lost
    <3>2. Cardinality(Lost(s)) <= unclean[s]
      BY DEF Tidy
    <3> HIDE DEF T
    <3>3. /\ Cardinality(T) <= Cardinality(Lost(s))
          /\ Cardinality(T) \in Nat /\ Cardinality(Lost(s)) \in Nat
      BY <1>1, <2>2, <3>1, LostFacts
    <3> QED BY <1>1, <3>2, <3>3
  <2>4. unclean[s] = 0 => \A x \in open : x.server = s => x.id = IdOf(e, x.kind)
    BY <1>2 DEF Tidy, IdOf
  <2>5. Stage(s)' /\ Tidy(s)'
    BY <1>1, <1>2, <2>1, <2>3, <2>4, Unwinding
  <2>6. client'[s] \in Clients
    BY <1>2, <2>1, UnwindFacts DEF Unwound
  <2> QED BY <2>5, <2>6
<1> QED
  BY <1>3, <1>4

-----------------------------------------------------------------------------
\* The steps.

\* A step of one client, from s to c.
ClientMoves(s, c) ==
  /\ c \in Clients /\ client' = [client EXCEPT ![s] = c]
  /\ open' \subseteq Things /\ IsFiniteSet(open')
  /\ \A x \in Things : x.server # s => (x \in open' <=> x \in open)
  /\ unclean' \in [S -> Nat]
  /\ \A q \in S \ {s} : unclean'[q] = unclean[q]
  /\ UNCHANGED manager

\* It concerns nobody else.
LEMMA MovesAlone ==
  ASSUME ClientsIInv, NEW s \in S, NEW c, ClientMoves(s, c),
         client[s].step # "idle" \/ c.step = client[s].step,
         Stage(s)', Tidy(s)'
  PROVE  ClientsIInv'
<1>1. /\ client \in [S -> Clients] /\ open \subseteq Things /\ manager \in Managers
      /\ \A q \in S : Stage(q) /\ Tidy(q)
      /\ Locked
  BY DEF ClientsIInv, McpTypeOK
<1>2. /\ client' \in [S -> Clients] /\ client'[s] = c
      /\ \A q \in S \ {s} : client'[q] = client[q]
  BY <1>1 DEF ClientMoves
<1>3. McpTypeOK'
  BY <1>1, <1>2 DEF McpTypeOK, ClientMoves
<1>4. Locked'
  BY <1>1, <1>2 DEF Locked, Idle, ClientMoves
<1>5. ASSUME NEW q \in S \ {s}
      PROVE  Stage(q)' /\ Tidy(q)'
  <2>1. client'[q] = client[q] /\ unclean'[q] = unclean[q]
    BY <1>2 DEF ClientMoves
  <2>2. \A x \in Things : x.server = q => (x \in open' <=> x \in open)
    BY DEF ClientMoves
  <2>3. open' \subseteq Things
    BY DEF ClientMoves
  <2>4. Lost(q)' = Lost(q)
    BY <1>1, <2>1, <2>2, <2>3 DEF Lost
  <2>5. Tidy(q)'
    BY <1>1, <2>1, <2>2, <2>3, <2>4 DEF Tidy
  <2>6. \A kind \in {"session", "transport"} :
          /\ Thing(kind, q)' = Thing(kind, q)
          /\ Thing(kind, q) \in open => Thing(kind, q) \in open'
    BY <1>1, <2>1, <2>2 DEF Thing
  <2>7. Stage(q)'
    BY <1>1, <2>1, <2>6 DEF Stage, Connected, Connection
  <2> QED BY <2>5, <2>7
<1> QED
  BY <1>2, <1>3, <1>4, <1>5 DEF ClientsIInv

\* A client that fails while it connects: it leaves what it has opened.
LEMMA FailedSound ==
  ASSUME ClientsIInv, NEW s \in S, client[s].step # "idle",
         ~ Connected(s), To(s, Failed(client[s])),
         UNCHANGED <<open, unclean, manager>>
  PROVE  ClientsIInv'
<1> DEFINE c == client[s]
           e == [c EXCEPT !.state = "error", !.after = "error"]
<1>1. /\ client \in [S -> Clients] /\ c \in Clients /\ IsFiniteSet(open)
      /\ open \subseteq Things /\ unclean \in [S -> Nat] /\ unclean[s] \in Nat
      /\ Tidy(s)
  BY DEF ClientsIInv, McpTypeOK
<1>2. /\ e \in Clients /\ Failed(c) = Unwind(e) /\ e.state = "error"
      /\ e.transport = c.transport /\ e.session = c.session
  BY <1>1, FailedFacts
<1> HIDE DEF e
<1>3. Unwind(e) \in Clients
  BY <1>2, UnwindFacts DEF Unwound
<1>4. client'[s] = Unwind(e)
  BY <1>1, <1>2 DEF To
<1>5. ClientMoves(s, Unwind(e))
  BY <1>1, <1>2, <1>3 DEF ClientMoves, To
<1>6. Stage(s)' /\ Tidy(s)'
  <2> DEFINE T == {x \in open' : /\ x.kind = "transport" /\ x.server = s
                                 /\ x.id # e.transport}
  <2>1. T = Lost(s)
    BY <1>2 DEF Lost, Busy
  <2>2. Cardinality(T) <= unclean'[s]
    <3> HIDE DEF T
    <3> QED BY <1>1, <2>1 DEF Tidy
  <2>3. unclean'[s] = 0 => \A x \in open' : x.server = s => x.id = IdOf(e, x.kind)
    BY <1>1, <1>2 DEF Tidy, IdOf
  <2> QED BY <1>1, <1>2, <1>4, <2>2, <2>3, Unwinding
<1> QED
  BY <1>5, <1>6, MovesAlone

\* What holds of a client and of what is open in the inductive invariant.
LEMMA ClientFacts ==
  ASSUME ClientsIInv, NEW s \in S
  PROVE  /\ client \in [S -> Clients] /\ client[s] \in Clients
         /\ open \subseteq Things /\ IsFiniteSet(open)
         /\ unclean \in [S -> Nat] /\ unclean[s] \in Nat
         /\ Stage(s) /\ Tidy(s)
         /\ client[s].step \notin {"idle", "leave_session", "leave_transport"} =>
              ~ Connected(s)
         /\ \A kind \in {"session", "transport"} :
              /\ Thing(kind, s).kind = kind /\ Thing(kind, s).server = s
              /\ Thing(kind, s).id = IdOf(client[s], kind)
         /\ \A x \in Things : x.kind \in {"session", "transport"} /\ x.id # 0
                              /\ x.server \in S
BY DEF ClientsIInv, McpTypeOK, Stage, Thing, IdOf, Things

LEMMA EnterTransportSound ==
  ASSUME ClientsIInv, NEW s \in S, EnterTransport(s), UNCHANGED manager
  PROVE  ClientsIInv'
<1> DEFINE c == client[s]
           d == [c EXCEPT !.step = "session", !.session = c.attempt]
           x0 == Thing("transport", s)
<1>1. /\ client \in [S -> Clients] /\ c \in Clients
      /\ open \subseteq Things /\ IsFiniteSet(open)
      /\ unclean \in [S -> Nat] /\ unclean[s] \in Nat
      /\ Stage(s) /\ Tidy(s) /\ c.step = "transport" /\ ~ Connected(s)
      /\ unclean' = unclean
  BY ClientFacts DEF EnterTransport
<1>2. CASE To(s, d) /\ open' = open \cup {x0}
  <2>1. /\ d \in Clients /\ d.step = "session" /\ d.transport = c.transport
        /\ d.session = c.attempt /\ d.attempt = c.attempt /\ d.state = c.state
    BY <1>1 DEF Clients
  <2> HIDE DEF d
  <2>2. client'[s] = d
    BY <1>1, <1>2 DEF To
  <2>3. c.transport = c.attempt /\ c.attempt # 0
    BY <1>1 DEF Stage
  <2>4. x0 \in Things /\ x0.server = s /\ x0.kind = "transport" /\ x0.id = c.transport
    BY <1>1, <2>3 DEF Thing, Things, Clients
  <2>5. Thing("transport", s)' = x0
    BY <2>1, <2>2 DEF Thing
  <2> HIDE DEF x0
  <2>6. open' \subseteq Things /\ IsFiniteSet(open')
    BY <1>1, <1>2, <2>4, FS_AddElement
  <2>7. ClientMoves(s, d)
    BY <1>1, <1>2, <2>1, <2>4, <2>6 DEF ClientMoves, To
  <2>8. Stage(s)'
    BY <1>1, <1>2, <2>1, <2>2, <2>3, <2>5 DEF Stage, Connected
  <2>9. Lost(s)' = Lost(s)
    BY <1>1, <1>2, <2>1, <2>2, <2>4 DEF Lost, Busy
  <2>10. unclean[s] = 0 => \A x \in open : x.server # s
    BY <1>1 DEF Tidy
  <2>11. unclean[s] = 0 => \A x \in open' : x.server = s =>
           Busy(d) /\ d.step # "transport" /\ x.id = IdOf(d, x.kind)
    BY <1>2, <2>1, <2>4, <2>10 DEF Busy, IdOf
  <2>12. Tidy(s)'
    BY <1>1, <2>2, <2>9, <2>11 DEF Tidy
  <2> QED BY <1>1, <2>7, <2>8, <2>12, MovesAlone
<1>3. CASE To(s, Failed(c)) /\ UNCHANGED open
  BY <1>1, <1>3, FailedSound
<1> QED
  BY <1>2, <1>3 DEF EnterTransport

LEMMA EnterSessionSound ==
  ASSUME ClientsIInv, NEW s \in S, EnterSession(s), UNCHANGED manager
  PROVE  ClientsIInv'
<1> DEFINE c == client[s]
           d(step) == [c EXCEPT !.step = step]
           x0 == Thing("session", s)
<1>1. /\ client \in [S -> Clients] /\ c \in Clients
      /\ open \subseteq Things /\ IsFiniteSet(open)
      /\ unclean \in [S -> Nat] /\ unclean[s] \in Nat
      /\ Stage(s) /\ Tidy(s) /\ c.step = "session" /\ ~ Connected(s)
      /\ unclean' = unclean
  BY ClientFacts DEF EnterSession
<1>2. /\ c.transport = c.attempt /\ c.session = c.attempt /\ c.attempt # 0
      /\ Thing("transport", s) \in open
  BY <1>1 DEF Stage
<1>3. ASSUME NEW step \in {"initialize", "undo"}, To(s, d(step)),
             open' = IF step = "initialize" THEN open \cup {x0} ELSE open
      PROVE  ClientsIInv'
  <2> DEFINE e == d(step)
  <2>1. /\ e \in Clients /\ e.step = step /\ e.transport = c.transport
        /\ e.session = c.session /\ e.attempt = c.attempt /\ e.state = c.state
    BY <1>1 DEF Clients
  <2>2. client' = [client EXCEPT ![s] = e]
    BY <1>3 DEF To
  <2> HIDE DEF e
  <2>3. client'[s] = e
    BY <1>1, <2>2
  <2>4. x0 \in Things /\ x0.server = s /\ x0.kind = "session" /\ x0.id = c.session
    BY <1>1, <1>2 DEF Thing, Things, Clients
  <2>5. Thing("transport", s)' = Thing("transport", s) /\ Thing("session", s)' = x0
    BY <2>1, <2>3 DEF Thing
  <2> HIDE DEF x0
  <2>6. open' \subseteq Things /\ IsFiniteSet(open') /\ open \subseteq open'
    BY <1>1, <1>3, <2>4, FS_AddElement
  <2>7. ClientMoves(s, e)
    BY <1>1, <1>3, <2>1, <2>2, <2>4, <2>6 DEF ClientMoves
  <2>8. Stage(s)'
    BY <1>1, <1>2, <1>3, <2>1, <2>3, <2>5, <2>6 DEF Stage, Connected
  <2>9. Lost(s)' = Lost(s)
    BY <1>1, <1>3, <2>1, <2>3, <2>4 DEF Lost, Busy
  <2>10. unclean[s] = 0 => \A x \in open' : x.server = s =>
           Busy(e) /\ e.step # "transport" /\ x.id = IdOf(e, x.kind)
    BY <1>1, <1>3, <2>1, <2>4 DEF Busy, IdOf, Tidy
  <2>11. Tidy(s)'
    BY <1>1, <2>3, <2>9, <2>10 DEF Tidy
  <2> QED BY <1>1, <2>7, <2>8, <2>11, MovesAlone
<1>4. CASE To(s, d("initialize")) /\ open' = open \cup {x0}
  <2> HIDE DEF d, x0
  <2> QED BY <1>3, <1>4
<1>5. CASE To(s, d("undo")) /\ UNCHANGED open
  <2> HIDE DEF d, x0
  <2> QED BY <1>3, <1>5
<1>6. CASE To(s, Failed(c)) /\ UNCHANGED open
  BY <1>1, <1>6, FailedSound
<1> QED
  BY <1>4, <1>5, <1>6 DEF EnterSession

LEMMA InitializeSound ==
  ASSUME ClientsIInv, NEW s \in S, Initialize(s), UNCHANGED manager
  PROVE  ClientsIInv'
<1> DEFINE c == client[s]
           d == [c EXCEPT !.step = "discover"]
<1>1. /\ client \in [S -> Clients] /\ c \in Clients
      /\ open \subseteq Things /\ IsFiniteSet(open)
      /\ unclean \in [S -> Nat] /\ unclean[s] \in Nat
      /\ Stage(s) /\ Tidy(s) /\ c.step = "initialize" /\ ~ Connected(s)
      /\ unclean' = unclean /\ open' = open
  BY ClientFacts DEF Initialize
<1>2. CASE To(s, d)
  <2>1. /\ d \in Clients /\ d.step = "discover" /\ d.transport = c.transport
        /\ d.session = c.session /\ d.attempt = c.attempt /\ d.state = c.state
    BY <1>1 DEF Clients
  <2> HIDE DEF d
  <2>2. client'[s] = d
    BY <1>1, <1>2 DEF To
  <2>3. ClientMoves(s, d)
    BY <1>1, <1>2, <2>1 DEF ClientMoves, To
  <2>4. \A kind : Thing(kind, s)' = Thing(kind, s)
    BY <2>1, <2>2 DEF Thing
  <2>5. Stage(s)'
    BY <1>1, <2>1, <2>2, <2>4 DEF Stage, Connected
  <2>6. Lost(s)' = Lost(s)
    BY <1>1, <2>1, <2>2 DEF Lost, Busy
  <2>7. Tidy(s)'
    BY <1>1, <2>1, <2>2, <2>6 DEF Tidy, Busy, IdOf
  <2> QED BY <1>1, <2>3, <2>5, <2>7, MovesAlone
<1>3. CASE To(s, Failed(c))
  BY <1>1, <1>3, FailedSound
<1> QED
  BY <1>2, <1>3 DEF Initialize

LEMMA DiscoverSound ==
  ASSUME ClientsIInv, NEW s \in S, Discover(s), UNCHANGED manager
  PROVE  ClientsIInv'
<1> DEFINE c == client[s]
           d(tools) == [c EXCEPT !.step = "idle", !.state = "connected", !.tools = tools]
<1>1. /\ client \in [S -> Clients] /\ c \in Clients
      /\ open \subseteq Things /\ IsFiniteSet(open)
      /\ unclean \in [S -> Nat] /\ unclean[s] \in Nat
      /\ Stage(s) /\ Tidy(s) /\ c.step = "discover" /\ ~ Connected(s)
      /\ unclean' = unclean /\ open' = open
  BY ClientFacts DEF Discover
<1>2. ASSUME NEW tools \in {Offers[s], {}}, To(s, d(tools))
      PROVE  ClientsIInv'
  <2> DEFINE e == d(tools)
  <2>0. tools \in SUBSET UNION {Offers[q] : q \in S}
    OBVIOUS
  <2>1. /\ e \in Clients /\ e.step = "idle" /\ e.transport = c.transport
        /\ e.session = c.session /\ e.attempt = c.attempt /\ e.state = "connected"
    BY <1>1, <2>0 DEF Clients
  <2>2. client' = [client EXCEPT ![s] = e]
    BY <1>2 DEF To
  <2> HIDE DEF e
  <2>3. client'[s] = e
    BY <1>1, <2>2
  <2>4. ClientMoves(s, e)
    BY <1>1, <2>1, <2>2 DEF ClientMoves
  <2>5. \A kind : Thing(kind, s)' = Thing(kind, s)
    BY <2>1, <2>3 DEF Thing
  <2>6. Stage(s)'
    BY <1>1, <2>1, <2>3, <2>5 DEF Stage, Connected, Connection
  <2>7. Lost(s)' = Lost(s)
    BY <1>1, <2>1, <2>3 DEF Lost, Busy
  <2>8. Tidy(s)'
    BY <1>1, <2>1, <2>3, <2>7 DEF Tidy, Busy, IdOf
  <2> QED BY <1>1, <2>4, <2>6, <2>8, MovesAlone
<1>3. CASE To(s, Failed(c))
  BY <1>1, <1>3, FailedSound
<1> QED
  BY <1>2, <1>3 DEF Discover

\* A session or a transport is left: e is the client afterwards.
LEMMA LeftSound ==
  ASSUME ClientsIInv, NEW s \in S, client[s].step \notin {"idle", "transport"},
         NEW kind \in {"session", "transport"}, NEW e \in Clients,
         e.after = "disconnected" \/ e.state = "error",
         e.session = IF kind = "session" THEN 0 ELSE client[s].session,
         e.transport = IF kind = "transport" THEN 0 ELSE client[s].transport,
         To(s, Unwind(e)), open' = open \ {Thing(kind, s)},
         UNCHANGED <<unclean, manager>>
  PROVE  ClientsIInv'
<1> DEFINE c == client[s]
           x0 == Thing(kind, s)
<1>1. /\ client \in [S -> Clients] /\ c \in Clients
      /\ open \subseteq Things /\ IsFiniteSet(open)
      /\ unclean \in [S -> Nat] /\ unclean[s] \in Nat /\ Tidy(s)
      /\ x0.kind = kind /\ x0.server = s /\ x0.id = IdOf(c, kind)
  BY ClientFacts
<1>2. \A x \in open : x.kind = kind /\ x.server = s /\ x.id = IdOf(c, kind) => x = x0
  <2> SUFFICES ASSUME NEW x \in open, x.kind = kind, x.server = s,
                      x.id = IdOf(c, kind)
               PROVE  x = x0
    OBVIOUS
  <2>1. x \in Things
    BY <1>1
  <2>2. x = [kind |-> x.kind, server |-> x.server, id |-> x.id]
    BY <2>1 DEF Things
  <2> QED BY <2>2 DEF Thing, IdOf
<1> HIDE DEF x0
<1>3. Unwind(e) \in Clients
  BY UnwindFacts DEF Unwound
<1>4. client'[s] = Unwind(e)
  BY <1>1 DEF To
<1>5. open' \subseteq open /\ open' \subseteq Things /\ IsFiniteSet(open')
  BY <1>1, FS_Subset DEF x0
<1>6. ClientMoves(s, Unwind(e))
  BY <1>1, <1>3, <1>5 DEF ClientMoves, To, x0
<1> DEFINE T == {x \in open' : /\ x.kind = "transport" /\ x.server = s
                               /\ x.id # e.transport}
<1>7. T = Lost(s)
  <2>1. Busy(c)
    BY DEF Busy
  <2>2. \A x \in open : x.kind = "transport" /\ x.server = s =>
          x.id # c.transport <=> x \in open' /\ x.id # e.transport
    <3>1. CASE kind = "session"
      BY <1>1, <3>1 DEF x0
    <3>2. CASE kind = "transport"
      <4>1. e.transport = 0 /\ IdOf(c, kind) = c.transport
        BY <3>2 DEF IdOf
      <4>2. \A x \in open : x.id # 0
        BY <1>1 DEF Things
      <4> QED BY <1>1, <1>2, <3>2, <4>1, <4>2 DEF x0
    <3> QED BY <3>1, <3>2
  <2> QED BY <1>5, <2>1, <2>2 DEF Lost
<1>8. Cardinality(T) <= unclean'[s]
  <2> HIDE DEF T
  <2> QED BY <1>1, <1>7 DEF Tidy
<1>9. unclean'[s] = 0 => \A x \in open' : x.server = s => x.id = IdOf(e, x.kind)
  <2> SUFFICES ASSUME unclean[s] = 0, NEW x \in open', x.server = s
               PROVE  x.id = IdOf(e, x.kind)
    OBVIOUS
  <2>1. x \in open /\ x # x0 /\ x.kind \in {"session", "transport"}
    BY <1>1, <1>5 DEF Things, x0
  <2>2. x.id = IdOf(c, x.kind)
    BY <1>1, <2>1 DEF Tidy
  <2>3. x.kind # kind
    BY <1>2, <2>1, <2>2
  <2> QED BY <2>1, <2>2, <2>3 DEF IdOf
<1>10. Stage(s)' /\ Tidy(s)'
  BY <1>1, <1>4, <1>5, <1>8, <1>9, Unwinding
<1> QED
  BY <1>6, <1>10, MovesAlone

LEMMA UndoSound ==
  ASSUME ClientsIInv, NEW s \in S, Undo(s), UNCHANGED manager
  PROVE  ClientsIInv'
<1> DEFINE c == client[s]
<1>1. /\ client \in [S -> Clients] /\ c \in Clients
      /\ open \subseteq Things /\ IsFiniteSet(open)
      /\ unclean \in [S -> Nat] /\ unclean[s] \in Nat
      /\ Tidy(s) /\ c.step = "undo" /\ ~ Connected(s)
  BY ClientFacts DEF Undo
<1>2. CASE /\ open' = open \ {Thing("transport", s)}
           /\ To(s, Failed([c EXCEPT !.transport = 0]))
           /\ UNCHANGED unclean
  <2> DEFINE d == [c EXCEPT !.transport = 0]
             e == [d EXCEPT !.state = "error", !.after = "error"]
  <2>1. d \in Clients /\ d.transport = 0 /\ d.session = c.session
    BY <1>1 DEF Clients
  <2>2. To(s, Failed(d))
    BY <1>2
  <2> HIDE DEF d
  <2>3. /\ e \in Clients /\ Failed(d) = Unwind(e) /\ e.state = "error"
        /\ e.transport = 0 /\ e.session = c.session
    BY <2>1, FailedFacts
  <2> HIDE DEF e
  <2>4. To(s, Unwind(e))
    BY <2>2, <2>3
  <2> QED BY <1>1, <1>2, <2>3, <2>4, LeftSound
<1>3. CASE /\ To(s, Failed(c))
           /\ unclean' = [unclean EXCEPT ![s] = @ + 1]
           /\ UNCHANGED open
  <2> DEFINE e == [c EXCEPT !.state = "error", !.after = "error"]
  <2>1. /\ e \in Clients /\ Failed(c) = Unwind(e) /\ e.state = "error"
        /\ e.transport = c.transport /\ e.session = c.session
    BY <1>1, FailedFacts
  <2> HIDE DEF e
  <2>2. Unwind(e) \in Clients
    BY <2>1, UnwindFacts DEF Unwound
  <2>3. client'[s] = Unwind(e)
    BY <1>1, <1>3, <2>1 DEF To
  <2>4. /\ unclean' \in [S -> Nat] /\ unclean'[s] = unclean[s] + 1
        /\ unclean'[s] \in Nat
        /\ \A q \in S \ {s} : unclean'[q] = unclean[q]
    BY <1>1, <1>3
  <2>5. ClientMoves(s, Unwind(e))
    BY <1>1, <1>3, <2>1, <2>2, <2>4 DEF ClientMoves, To
  <2> DEFINE T == {x \in open' : /\ x.kind = "transport" /\ x.server = s
                                 /\ x.id # e.transport}
  <2>6. T = Lost(s) /\ T \subseteq open
    BY <1>1, <1>3, <2>1 DEF Lost, Busy
  <2>7. Cardinality(T) <= unclean[s] + 1 /\ unclean[s] + 1 # 0
    <3> HIDE DEF T
    <3>1. Cardinality(T) \in Nat /\ Cardinality(T) <= Cardinality(T) + 1
      BY <1>1, <2>6, FS_Subset, FS_CardinalityType
    <3>2. Cardinality(T) <= unclean[s]
      BY <1>1, <2>6 DEF Tidy
    <3> QED BY <1>1, <3>1, <3>2
  <2>8. Cardinality(T) <= unclean'[s] /\ unclean'[s] # 0
    BY <2>4, <2>7
  <2>9. Stage(s)' /\ Tidy(s)'
    BY <1>1, <1>3, <2>1, <2>3, <2>4, <2>8, Unwinding
  <2> QED BY <1>1, <2>5, <2>9, MovesAlone
<1> QED
  BY <1>2, <1>3 DEF Undo

LEMMA LeaveSound ==
  ASSUME ClientsIInv, NEW s \in S, NEW kind \in {"session", "transport"},
         NEW left \in Clients, left.after = client[s].after,
         left.state = client[s].state,
         left.session = IF kind = "session" THEN 0 ELSE client[s].session,
         left.transport = IF kind = "transport" THEN 0 ELSE client[s].transport,
         client[s].step \in {"leave_session", "leave_transport"},
         Exit(kind, s, left), UNCHANGED manager
  PROVE  ClientsIInv'
<1> DEFINE c == client[s]
<1>1. /\ client \in [S -> Clients] /\ c \in Clients
      /\ open \subseteq Things /\ IsFiniteSet(open)
      /\ unclean \in [S -> Nat] /\ unclean[s] \in Nat
      /\ Stage(s) /\ Tidy(s)
  BY ClientFacts
<1>2. c.after = "disconnected" \/ c.state = "error"
  BY <1>1 DEF Stage
<1>3. CASE /\ open' = open \ {Thing(kind, s)} /\ To(s, Unwind(left))
           /\ UNCHANGED unclean
  BY <1>2, <1>3, LeftSound
<1>4. CASE /\ To(s, Settled(c))
           /\ unclean' = [unclean EXCEPT ![s] = @ + 1]
           /\ UNCHANGED open
  <2>1. client'[s] = Settled(c)
    BY <1>1, <1>4 DEF To
  <2>2. /\ unclean' \in [S -> Nat] /\ unclean'[s] = unclean[s] + 1
        /\ \A q \in S \ {s} : unclean'[q] = unclean[q]
    <3>1. unclean[s] + 1 \in Nat /\ unclean \in [S -> Nat]
      BY <1>1
    <3> QED BY <1>4, <3>1
  <2>3. ClientMoves(s, Settled(c))
    BY <1>1, <1>4, <2>2, SettledFacts DEF ClientMoves, To
  <2>4. Stage(s)' /\ Tidy(s)'
    BY <1>1, <1>4, <2>1, <2>2, Settling DEF ClientsIInv
  <2> QED BY <2>3, <2>4, MovesAlone
<1> QED
  BY <1>3, <1>4 DEF Exit

LEMMA LeaveSessionSound ==
  ASSUME ClientsIInv, NEW s \in S, LeaveSession(s), UNCHANGED manager
  PROVE  ClientsIInv'
<1> DEFINE left == [client[s] EXCEPT !.session = 0]
<1>1. /\ left \in Clients /\ left.after = client[s].after
      /\ left.state = client[s].state /\ left.session = 0
      /\ left.transport = client[s].transport
  <2>1. client[s] \in Clients
    BY ClientFacts
  <2> QED BY <2>1 DEF Clients
<1>2. client[s].step = "leave_session" /\ Exit("session", s, left)
  BY DEF LeaveSession
<1> HIDE DEF left
<1> QED
  BY <1>1, <1>2, LeaveSound

LEMMA LeaveTransportSound ==
  ASSUME ClientsIInv, NEW s \in S, LeaveTransport(s), UNCHANGED manager
  PROVE  ClientsIInv'
<1> DEFINE left == [client[s] EXCEPT !.transport = 0]
<1>1. /\ left \in Clients /\ left.after = client[s].after
      /\ left.state = client[s].state /\ left.transport = 0
      /\ left.session = client[s].session
  <2>1. client[s] \in Clients
    BY ClientFacts
  <2> QED BY <2>1 DEF Clients
<1>2. client[s].step = "leave_transport" /\ Exit("transport", s, left)
  BY DEF LeaveTransport
<1> HIDE DEF left
<1> QED
  BY <1>1, <1>2, LeaveSound

LEMMA RefreshEndsSound ==
  ASSUME ClientsIInv, NEW s \in S, RefreshEnds(s)
  PROVE  ClientsIInv'
<1> DEFINE c == client[s]
<1>1. /\ client \in [S -> Clients] /\ c \in Clients
      /\ open \subseteq Things /\ IsFiniteSet(open)
      /\ unclean \in [S -> Nat] /\ unclean[s] \in Nat
      /\ Stage(s) /\ Tidy(s)
      /\ open' = open /\ unclean' = unclean /\ manager' = manager
  BY ClientFacts DEF RefreshEnds
<1>2. PICK tools \in {Offers[s], {}} : To(s, [c EXCEPT !.tools = tools])
  BY DEF RefreshEnds
<1>3. tools \in SUBSET UNION {Offers[q] : q \in S}
  OBVIOUS
<1> DEFINE e == [c EXCEPT !.tools = tools]
<1>4. /\ e \in Clients /\ e.step = c.step /\ e.transport = c.transport
      /\ e.session = c.session /\ e.attempt = c.attempt /\ e.state = c.state
      /\ e.after = c.after
  BY <1>1, <1>3 DEF Clients
<1>5. client' = [client EXCEPT ![s] = e]
  BY <1>2 DEF To
<1> HIDE DEF e
<1>6. client'[s] = e
  BY <1>1, <1>5
<1>7. ClientMoves(s, e)
  BY <1>1, <1>4, <1>5 DEF ClientMoves
<1>8. \A kind : Thing(kind, s)' = Thing(kind, s)
  BY <1>4, <1>6 DEF Thing
<1>9. Stage(s)'
  BY <1>1, <1>4, <1>6, <1>8 DEF Stage, Connected, Connection
<1>10. Lost(s)' = Lost(s)
  BY <1>1, <1>4, <1>6 DEF Lost, Busy
<1>11. Tidy(s)'
  BY <1>1, <1>4, <1>6, <1>10 DEF Tidy, Busy, IdOf
<1> QED
  BY <1>4, <1>7, <1>9, <1>11, MovesAlone

\* The manager's steps that leave the clients alone.
LEMMA ManagerMoves ==
  ASSUME ClientsIInv, UNCHANGED <<client, open, unclean>>,
         manager' \in Managers, Locked'
  PROVE  ClientsIInv'
<1>1. McpTypeOK /\ \A s \in S : Stage(s) /\ Tidy(s)
  BY DEF ClientsIInv
<1>2. McpTypeOK'
  BY <1>1 DEF McpTypeOK
<1>3. \A s \in S : Stage(s)' /\ Tidy(s)'
  BY <1>1 DEF Stage, Connected, Connection, Thing, Tidy, Lost
<1> QED
  BY <1>2, <1>3 DEF ClientsIInv

\* All clients start to connect, or to disconnect.
LEMMA StartSound ==
  ASSUME ClientsIInv, Start
  PROVE  ClientsIInv'
<1>1. McpTypeOK /\ \A s \in S : Stage(s) /\ Tidy(s) /\ client[s].step = "idle"
  BY DEF ClientsIInv, Start, Operation, Locked, Idle
<1>2. \A s \in S : client'[s] \in Clients /\ Stage(s)' /\ Tidy(s)'
  BY <1>1, StartsConnecting DEF Start
<1>3. client' \in [S -> Clients]
  BY <1>2 DEF Start
<1>4. manager' \in Managers /\ manager'.op = "start" /\ manager'.todo = manager.todo
  BY <1>1 DEF Start, McpTypeOK, Managers
<1>5. McpTypeOK' /\ Locked'
  BY <1>1, <1>3, <1>4 DEF McpTypeOK, Locked, Start
<1> QED
  BY <1>2, <1>5 DEF ClientsIInv

LEMMA StopSound ==
  ASSUME ClientsIInv, Stop
  PROVE  ClientsIInv'
<1>1. McpTypeOK /\ \A s \in S : Stage(s) /\ Tidy(s) /\ client[s].step = "idle"
  BY DEF ClientsIInv, Stop, Operation, Locked, Idle
<1>2. \A s \in S : client'[s] \in Clients /\ Stage(s)' /\ Tidy(s)'
  BY <1>1, StartsDisconnecting DEF Stop
<1>3. client' \in [S -> Clients]
  BY <1>2 DEF Stop
<1>4. manager' \in Managers /\ manager'.op = "stop" /\ manager'.todo = manager.todo
  BY <1>1 DEF Stop, McpTypeOK, Managers
<1>5. McpTypeOK' /\ Locked'
  BY <1>1, <1>3, <1>4 DEF McpTypeOK, Locked, Stop
<1> QED
  BY <1>2, <1>5 DEF ClientsIInv

LEMMA ReconnectSound ==
  ASSUME ClientsIInv, Reconnect
  PROVE  ClientsIInv'
<1> DEFINE todo(names) ==
             [i \in 1 .. 2 * Len(names) |->
                <<IF i % 2 = 1 THEN "disconnect" ELSE "connect",
                  names[(i + 1) \div 2]>>]
<1>1. manager \in Managers /\ UNCHANGED <<client, open, unclean>>
  BY DEF ClientsIInv, McpTypeOK, Reconnect
<1>2. PICK names \in {Servers} \cup {<<s>> : s \in S} :
        manager' = [manager EXCEPT !.op = "reconnect", !.todo = todo(names)]
  BY DEF Reconnect
<1>3. names \in Seq(S)
  <2>1. CASE names = Servers
    BY <2>1, ServersAssumption DEF S
  <2>2. ASSUME NEW s \in S PROVE <<s>> \in Seq(S)
    OBVIOUS
  <2> QED BY <1>2, <2>1, <2>2
<1>4. todo(names) \in Seq({"connect", "disconnect"} \X S)
  <2> DEFINE n == Len(names)
  <2>1. n \in Nat
    BY <1>3, LenProperties
  <2>2. \A j \in 1 .. n : names[j] \in S
    BY <1>3, ElementOfSeq
  <2> HIDE DEF n
  <2>3. \A i \in 1 .. 2 * n : (i + 1) \div 2 \in 1 .. n
    BY <2>1
  <2>4. 2 * n \in Nat
    BY <2>1
  <2> DEFINE X == {"connect", "disconnect"} \X S
             e(i) == <<IF i % 2 = 1 THEN "disconnect" ELSE "connect",
                       names[(i + 1) \div 2]>>
  <2>5. \A i \in 1 .. 2 * n : e(i) \in X
    BY <2>2, <2>3
  <2> HIDE DEF X, e
  <2>6. [i \in 1 .. 2 * n |-> e(i)] \in Seq(X)
    BY <2>4, <2>5, IsASeq
  <2> QED BY <2>6 DEF n, X, e
<1> HIDE DEF todo
<1>5. manager' \in Managers /\ manager'.op = "reconnect"
  BY <1>1, <1>2, <1>4 DEF Managers
<1>6. Locked'
  BY <1>5 DEF Locked
<1> QED
  BY <1>1, <1>5, <1>6, ManagerMoves

LEMMA ReconnectNextSound ==
  ASSUME ClientsIInv, ReconnectNext
  PROVE  ClientsIInv'
<1> DEFINE X == {"connect", "disconnect"} \X S
           h == Head(manager.todo)
<1>1. /\ McpTypeOK /\ Locked /\ Idle /\ manager \in Managers
      /\ client \in [S -> Clients] /\ manager.todo # << >>
      /\ UNCHANGED <<open, unclean>>
      /\ manager' = [manager EXCEPT !.todo = Tail(@)]
      /\ \A q \in S : Stage(q) /\ Tidy(q) /\ client[q].step = "idle"
  BY DEF ClientsIInv, McpTypeOK, ReconnectNext, Idle
<1>2. h \in X /\ Tail(manager.todo) \in Seq(X)
  BY <1>1, HeadTailProperties DEF Managers
<1>3. PICK s \in S : s = h[2]
  BY <1>2
<1>4. \/ client' = [client EXCEPT ![s] = Connecting(s, client[s])]
      \/ client' = [client EXCEPT ![s] = Disconnecting(client[s])]
  BY <1>3 DEF ReconnectNext, To
<1>5. client'[s] \in Clients /\ Stage(s)' /\ Tidy(s)'
  <2>1. \/ client'[s] = Connecting(s, client[s])
        \/ client'[s] = Disconnecting(client[s])
    BY <1>1, <1>4
  <2>2. Stage(s) /\ Tidy(s) /\ client[s].step = "idle" /\ open' = open
        /\ unclean'[s] = unclean[s]
    BY <1>1
  <2>3. CASE client'[s] = Connecting(s, client[s])
    BY <1>1, <2>2, <2>3, StartsConnecting
  <2>4. CASE client'[s] = Disconnecting(client[s])
    BY <1>1, <2>2, <2>4, StartsDisconnecting
  <2> QED BY <2>1, <2>3, <2>4
<1>6. manager' \in Managers /\ manager'.op = manager.op
      /\ manager.op # "none"
  BY <1>1, <1>2 DEF Managers, Locked
<1>7. \A q \in S \ {s} : client'[q] = client[q]
  BY <1>1, <1>4
<1>8. McpTypeOK' /\ Locked'
  <2>1. client' \in [S -> Clients]
    BY <1>1, <1>4, <1>5
  <2> QED BY <1>1, <1>6, <2>1 DEF McpTypeOK, Locked
<1>9. ASSUME NEW q \in S
      PROVE  Stage(q)' /\ Tidy(q)'
  <2>1. CASE q = s
    BY <1>5, <2>1
  <2>2. CASE q # s
    <3>1. client'[q] = client[q] /\ unclean'[q] = unclean[q] /\ open' = open
      BY <1>1, <1>7, <2>2
    <3>2. Lost(q)' = Lost(q)
      BY <3>1 DEF Lost
    <3>3. Tidy(q)'
      BY <1>1, <3>1, <3>2 DEF Tidy
    <3>4. Stage(q)'
      BY <1>1, <3>1 DEF Stage, Connected, Connection, Thing
    <3> QED BY <3>3, <3>4
  <2> QED BY <2>1, <2>2
<1> QED
  BY <1>8, <1>9 DEF ClientsIInv

LEMMA EndSound ==
  ASSUME ClientsIInv, EndOperation
  PROVE  ClientsIInv'
<1>1. manager \in Managers /\ UNCHANGED <<client, open, unclean>> /\ Idle
      /\ manager.todo = << >>
  BY DEF ClientsIInv, McpTypeOK, EndOperation
<1>2. \E b \in BOOLEAN : manager' = [manager EXCEPT !.op = "none", !.started = b]
  <2>1. manager.started \in BOOLEAN
    BY <1>1 DEF Managers
  <2> QED BY <2>1 DEF EndOperation
<1>3. manager' \in Managers /\ manager'.todo = << >>
  BY <1>1, <1>2 DEF Managers
<1>4. Locked'
  BY <1>1, <1>3 DEF Locked, Idle
<1> QED
  BY <1>1, <1>3, <1>4, ManagerMoves

\* The inductive invariant of the clients and of what is open.
THEOREM McpClients == McpSpec => []ClientsIInv
<1>1. McpInit => ClientsIInv
  <2> SUFFICES ASSUME McpInit PROVE ClientsIInv
    OBVIOUS
  <2>1. /\ client = [s \in S |-> NewClient] /\ open = {}
        /\ unclean = [s \in S |-> 0]
        /\ manager = [started |-> FALSE, op |-> "none", todo |-> << >>]
    BY DEF McpInit
  <2>2. NewClient \in Clients /\ NewClient.step = "idle"
        /\ NewClient.state = "disconnected"
    BY DEF NewClient, Clients
  <2>3. \A s \in S : client[s] = NewClient /\ unclean[s] = 0
    BY <2>1
  <2>4. manager \in Managers
    BY <2>1, EmptySeq DEF Managers
  <2>5. McpTypeOK /\ Locked
    BY <2>1, <2>2, <2>4, FS_EmptySet DEF McpTypeOK, Locked, Idle
  <2>6. \A s \in S : Stage(s)
    BY <2>2, <2>3 DEF Stage, Connected
  <2>7. \A s \in S : Lost(s) = {}
    BY <2>1 DEF Lost
  <2>8. ASSUME NEW s \in S PROVE Tidy(s)
    <3>1. Cardinality(Lost(s)) = 0 /\ unclean[s] = 0 /\ open = {}
      BY <2>1, <2>3, <2>7, FS_EmptySet
    <3> QED BY <3>1 DEF Tidy
  <2> QED BY <2>5, <2>6, <2>8 DEF ClientsIInv
<1>2. ClientsIInv /\ [McpNext]_mcpvars => ClientsIInv'
  <2> SUFFICES ASSUME ClientsIInv, [McpNext]_mcpvars
               PROVE  ClientsIInv'
    OBVIOUS
  <2>1. ASSUME NEW s \in S, ClientStep(s)
        PROVE  ClientsIInv'
    BY <2>1, EnterTransportSound, EnterSessionSound, UndoSound, InitializeSound,
       DiscoverSound, LeaveSessionSound, LeaveTransportSound DEF ClientStep
  <2>2. ASSUME NEW s \in S, RefreshEnds(s)
        PROVE  ClientsIInv'
    BY <2>2, RefreshEndsSound
  <2>3. CASE Start \/ Stop \/ Reconnect \/ ReconnectNext \/ EndOperation
    BY <2>3, StartSound, StopSound, ReconnectSound, ReconnectNextSound, EndSound
  <2>4. ASSUME UNCHANGED <<client, open, unclean, manager>>
        PROVE  ClientsIInv'
    <3>1. manager' \in Managers /\ Locked'
      BY <2>4 DEF ClientsIInv, McpTypeOK, Locked, Idle
    <3> QED BY <2>4, <3>1, ManagerMoves
  <2>5. CASE Refresh
    BY <2>4, <2>5 DEF Refresh
  <2>6. CASE Submit \/ CallStep \/ (\E i \in DOMAIN batch.calls : AnswerCall(i)) \/ Return
    BY <2>4, <2>6 DEF Submit, CallStep, Refuse, Raise, Send, TimeOut, AnswerCall, Return, mcp
  <2>7. CASE UNCHANGED mcpvars
    BY <2>4, <2>7 DEF mcpvars
  <2> QED
    BY <2>1, <2>2, <2>3, <2>5, <2>6, <2>7 DEF McpNext
<1> QED
  BY <1>1, <1>2, PTL DEF McpSpec

\* A connected client holds an open session over its transport, and whatever
\* else is open is owed to an exit that failed (OneConnection).
THEOREM McpOneConnection == McpSpec => []OneConnection
<1>1. ClientsIInv => OneConnection
  <2> SUFFICES ASSUME ClientsIInv PROVE OneConnection
    OBVIOUS
  <2>1. ASSUME NEW s \in S, client[s].step = "idle", Connected(s)
        PROVE  /\ client[s].session = client[s].transport
               /\ {Thing("session", s), Thing("transport", s)} \subseteq open
    BY <2>1 DEF ClientsIInv, Stage, Connection
  <2>2. ASSUME NEW s \in S
        PROVE  Cardinality({x \in open : x.kind = "transport" /\ x.server = s
                                         /\ x # Thing("transport", s)}) <= unclean[s]
    <3> DEFINE T == {x \in open : x.kind = "transport" /\ x.server = s
                                  /\ x # Thing("transport", s)}
    <3>1. T \subseteq Lost(s) /\ T \subseteq open /\ Lost(s) \subseteq open
      <4>1. \A x \in open : x = [kind |-> x.kind, server |-> x.server, id |-> x.id]
        BY ClientFacts DEF Things
      <4>2. \A x \in open : x.kind = "transport" /\ x.server = s
               /\ x.id = client[s].transport => x = Thing("transport", s)
        BY <4>1 DEF Thing
      <4> QED BY <4>2 DEF Lost
    <3>2. Cardinality(Lost(s)) <= unclean[s] /\ unclean[s] \in Nat /\ IsFiniteSet(open)
      BY ClientFacts DEF Tidy
    <3> HIDE DEF T
    <3>3. /\ Cardinality(T) <= Cardinality(Lost(s))
          /\ Cardinality(T) \in Nat /\ Cardinality(Lost(s)) \in Nat
      BY <3>1, <3>2, LostFacts
    <3>4. Cardinality(T) <= unclean[s]
      BY <3>2, <3>3
    <3> QED BY <3>4 DEF T
  <2>3. ASSUME NEW s \in S, client[s].step = "idle", ~ Connected(s), unclean[s] = 0
        PROVE  \A x \in open : x.server # s
    BY <2>3 DEF ClientsIInv, Tidy, Busy, Connected
  <2> QED BY <2>1, <2>2, <2>3 DEF OneConnection
<1> QED
  BY <1>1, McpClients, PTL

-----------------------------------------------------------------------------
\* A request: a call that has its result.

\* d is b after the call i has its result.
Finished(b, d, i, ok, audited) ==
  /\ IsBatch(d)
  /\ d.phase = b.phase /\ d.mode = b.mode /\ d.calls = b.calls
  /\ d.at = [b.at EXCEPT ![i] = "done"]
  /\ d.answer = [b.answer EXCEPT ![i] = Success(ok)]
  /\ audited /\ b.mode # "direct" => d.audit = Append(b.audit, <<i, ok>>)
  /\ ~ audited \/ b.mode = "direct" => d.audit = b.audit
  /\ b.mode = "sequential" =>
       d.results = Append(b.results, [id |-> i, is |-> Success(ok)])

LEMMA DoneFacts ==
  ASSUME NEW b, IsBatch(b), NEW i, NEW ok \in BOOLEAN, NEW audited \in BOOLEAN
  PROVE  Finished(b, Done(b, i, ok, audited), i, ok, audited)
<1> DEFINE x == Success(ok)
           at == [b.at EXCEPT ![i] = "done"]
           answer == [b.answer EXCEPT ![i] = x]
           audit == IF audited /\ b.mode # "direct" THEN Append(b.audit, <<i, ok>>)
                    ELSE b.audit
           results == IF b.mode = "sequential"
                      THEN Append(b.results, [id |-> i, is |-> x]) ELSE b.results
           d == [phase |-> b.phase, mode |-> b.mode, calls |-> b.calls, at |-> at,
                 session |-> b.session, answer |-> answer, results |-> results,
                 audit |-> audit]
<1>1. Done(b, i, ok, audited)
      = [b EXCEPT !.at = at, !.answer = answer, !.audit = audit, !.results = results]
  BY DEF Done
<1>2. audited /\ b.mode # "direct" => audit = Append(b.audit, <<i, ok>>)
  OBVIOUS
<1>3. ~ audited \/ b.mode = "direct" => audit = b.audit
  OBVIOUS
<1>4. b.mode = "sequential" => results = Append(b.results, [id |-> i, is |-> x])
  OBVIOUS
<1> HIDE DEF at, answer, audit, results
<1>5. Done(b, i, ok, audited) = d
  BY <1>1 DEF IsBatch
<1>6. /\ IsBatch(d) /\ d.phase = b.phase /\ d.mode = b.mode /\ d.calls = b.calls
      /\ d.at = at /\ d.answer = answer /\ d.audit = audit /\ d.results = results
  BY DEF IsBatch
<1> HIDE DEF d, x
<1> QED
  BY <1>2, <1>3, <1>4, <1>5, <1>6 DEF Finished, at, answer, x

\* What the log says of a call stays when other calls are entered.
LEMMA EntryKept ==
  ASSUME NEW b, NEW d, NEW j, Entered(b, j), d.mode = b.mode, d.calls = b.calls,
         d.at[j] = b.at[j], d.answer[j] = b.answer[j], Recorded(d, j) = Recorded(b, j),
         \A k \in DOMAIN b.audit : k \in DOMAIN d.audit /\ d.audit[k] = b.audit[k]
  PROVE  Entered(d, j)
<1>1. CASE b.at[j] # "done" \/ b.mode = "direct" \/ b.calls[j].kind = "odd"
  BY <1>1 DEF Entered
<1>2. CASE ~ (b.at[j] # "done" \/ b.mode = "direct" \/ b.calls[j].kind = "odd")
  <2>1. PICK k \in DOMAIN b.audit :
          Recorded(b, j) = {k} /\ b.audit[k] = <<j, b.answer[j] = "ok">>
    BY <1>2 DEF Entered
  <2>2. k \in DOMAIN d.audit /\ Recorded(d, j) = {k} /\ d.audit[k] = b.audit[k]
    BY <2>1
  <2>3. d.audit[k] = <<j, d.answer[j] = "ok">>
    BY <2>1, <2>2
  <2> QED BY <1>2, <2>2, <2>3 DEF Entered
<1> QED
  BY <1>1, <1>2

\* The log after a call has its result.
LEMMA LoggedFacts ==
  ASSUME NEW b, NEW d, BatchTyped(b), Logged(b), NEW i \in 1 .. Size(b),
         b.at[i] # "done", NEW ok \in BOOLEAN, NEW audited \in BOOLEAN,
         Finished(b, d, i, ok, audited),
         b.mode # "direct" => (audited <=> b.calls[i].kind # "odd")
  PROVE  Logged(d)
<1> DEFINE e == <<i, ok>>
           m == Len(b.audit) + 1
<1>1. /\ d.mode = b.mode /\ d.calls = b.calls /\ Size(d) = Size(b)
      /\ d.at = [b.at EXCEPT ![i] = "done"]
      /\ d.answer = [b.answer EXCEPT ![i] = Success(ok)]
      /\ b.at \in [1 .. Size(b) -> {"queued", "sent", "done"}]
      /\ b.answer \in [1 .. Size(b) -> {"none", "ok", "error"}]
      /\ b.audit \in Seq((1 .. Size(b)) \X BOOLEAN)
  BY DEF Finished, BatchTyped, Size
<1>2. /\ d.at[i] = "done" /\ d.answer[i] = Success(ok)
      /\ \A j \in 1 .. Size(b) :
           j # i => d.at[j] = b.at[j] /\ d.answer[j] = b.answer[j]
  BY <1>1
<1>3. Recorded(b, i) = {}
  BY DEF Logged, Entered
<1>4. CASE ~ audited \/ b.mode = "direct"
  <2>1. d.audit = b.audit
    BY <1>4 DEF Finished
  <2>2. \A j \in 1 .. Size(b) : Recorded(d, j) = Recorded(b, j)
    BY <2>1 DEF Recorded
  <2>3. ASSUME NEW j \in 1 .. Size(b), j # i
        PROVE  Entered(d, j)
    BY <1>1, <1>2, <2>1, <2>2, <2>3, EntryKept DEF Logged
  <2>4. d.mode = "direct" \/ d.calls[i].kind = "odd"
    BY <1>1, <1>4
  <2>5. Entered(d, i)
    BY <1>3, <2>2, <2>4 DEF Entered
  <2> QED BY <1>1, <2>3, <2>5 DEF Logged
<1>5. CASE audited /\ b.mode # "direct"
  <2>1. d.audit = Append(b.audit, e)
    BY <1>5 DEF Finished
  <2>2. e \in (1 .. Size(b)) \X BOOLEAN /\ e[1] = i
    OBVIOUS
  <2> HIDE DEF e
  <2>3. /\ m \in Nat /\ DOMAIN b.audit = 1 .. m - 1 /\ DOMAIN d.audit = 1 .. m
        /\ m \notin 1 .. m - 1 /\ m \in 1 .. m /\ d.audit[m] = e
        /\ \A k \in 1 .. m - 1 : k \in 1 .. m /\ d.audit[k] = b.audit[k]
    BY <1>1, <2>1, <2>2, AppendProperties, LenProperties
  <2>4. \A k \in 1 .. m : k \in 1 .. m - 1 \/ k = m
    BY <2>3
  <2> HIDE DEF m
  <2>5. \A j : Recorded(d, j) = Recorded(b, j) \cup {k \in {m} : e[1] = j}
    BY <2>3, <2>4 DEF Recorded
  <2>6. Recorded(d, i) = {m}
    BY <1>3, <2>2, <2>5
  <2>7. ASSUME NEW j \in 1 .. Size(b), j # i
        PROVE  Entered(d, j)
    <3>1. Recorded(d, j) = Recorded(b, j)
      BY <2>2, <2>5, <2>7
    <3>2. Entered(b, j) /\ d.at[j] = b.at[j] /\ d.answer[j] = b.answer[j]
      BY <1>2, <2>7 DEF Logged
    <3>3. \A k \in DOMAIN b.audit : k \in DOMAIN d.audit /\ d.audit[k] = b.audit[k]
      BY <2>3
    <3> QED BY <1>1, <3>1, <3>2, <3>3, EntryKept
  <2>8. ok = (d.answer[i] = "ok")
    BY <1>2 DEF Success
  <2>9. d.audit[m] = <<i, d.answer[i] = "ok">>
    BY <2>3, <2>8 DEF e
  <2>10. d.mode # "direct" /\ d.calls[i].kind # "odd" /\ d.at[i] = "done"
    BY <1>1, <1>2, <1>5
  <2>11. Entered(d, i)
    BY <2>3, <2>6, <2>9, <2>10 DEF Entered
  <2> QED BY <1>1, <2>7, <2>11 DEF Logged
<1> QED
  BY <1>4, <1>5

LEMMA DoneSound ==
  ASSUME BatchIInv, batch.phase = "running", NEW i \in 1 .. Size(batch),
         batch.at[i] # "done", NEW ok \in BOOLEAN, NEW audited \in BOOLEAN,
         batch.mode # "direct" => (audited <=> batch.calls[i].kind # "odd"),
         batch.mode = "sequential" =>
           i = Len(batch.results) + 1 /\ \A j \in 1 .. Size(batch) : batch.at[j] = "sent" => j = i,
         batch' = Done(batch, i, ok, audited)
  PROVE  BatchIInv'
<1> DEFINE b == batch
           d == batch'
<1>1. BatchTyped(b) /\ Logged(b) /\ SentSafely(b) /\ Finished(b, d, i, ok, audited)
  BY DoneFacts DEF BatchIInv, BatchTyped
<1>2. /\ IsBatch(b) /\ Size(b) \in Nat /\ DOMAIN b.calls = 1 .. Size(b)
      /\ b.at \in [1 .. Size(b) -> {"queued", "sent", "done"}]
      /\ b.answer \in [1 .. Size(b) -> {"none", "ok", "error"}]
      /\ b.audit \in Seq((1 .. Size(b)) \X BOOLEAN)
      /\ b.mode \in {"direct", "parallel", "sequential"}
  BY <1>1 DEF BatchTyped
<1>3. /\ IsBatch(d) /\ d.phase = "running" /\ d.mode = b.mode /\ d.calls = b.calls
      /\ d.at = [b.at EXCEPT ![i] = "done"] /\ Size(d) = Size(b)
      /\ d.answer = [b.answer EXCEPT ![i] = Success(ok)]
  BY <1>1 DEF Finished, Size
<1>4. Success(ok) \in {"ok", "error"}
  BY DEF Success
<1>5. /\ d.at \in [1 .. Size(b) -> {"queued", "sent", "done"}]
      /\ d.answer \in [1 .. Size(b) -> {"none", "ok", "error"}]
      /\ d.at[i] = "done" /\ d.answer[i] = Success(ok)
      /\ \A j \in 1 .. Size(b) : j # i => d.at[j] = b.at[j] /\ d.answer[j] = b.answer[j]
  BY <1>2, <1>3, <1>4
<1>6. d.audit \in Seq((1 .. Size(b)) \X BOOLEAN)
  <2> DEFINE X == (1 .. Size(b)) \X BOOLEAN
             y == <<i, ok>>
  <2>1. y \in X /\ b.audit \in Seq(X)
    BY <1>2
  <2>2. d.audit = b.audit \/ d.audit = Append(b.audit, y)
    BY <1>1 DEF Finished
  <2> HIDE DEF X, y
  <2>3. d.audit \in Seq(X)
    BY <2>1, <2>2, AppendProperties
  <2> QED BY <2>3 DEF X
<1>7. BatchTyped(d)
  BY <1>2, <1>3, <1>5, <1>6 DEF BatchTyped
<1>8. Logged(d)
  BY <1>1, LoggedFacts
<1>9. SentSafely(d)
  BY <1>1, <1>3, <1>5 DEF SentSafely
<1>10. ASSUME d.mode = "sequential"
       PROVE  InSequence(d)
  <2> DEFINE x == [id |-> i, is |-> Success(ok)]
             R == [id : Nat, is : {"none", "ok", "error"}]
             m == Len(b.results)
  <2>1. InSequence(b) /\ i = m + 1 /\ b.results \in Seq(R)
        /\ d.results = Append(b.results, x)
    BY <1>1, <1>3, <1>10 DEF BatchIInv, InSequence, Finished
  <2>2. x \in R /\ i \in Nat
    BY <1>2, <1>4
  <2> HIDE DEF R, x
  <2>3. /\ d.results \in Seq(R) /\ Len(d.results) = m + 1 /\ m \in Nat
        /\ d.results[m + 1] = x
        /\ \A j \in 1 .. m : d.results[j] = b.results[j]
    <3> DEFINE s == b.results
               u == d.results
    <3>1. s \in Seq(R) /\ u = Append(s, x)
      BY <2>1
    <3> HIDE DEF s, u
    <3>2. u \in Seq(R) /\ Len(u) = Len(s) + 1 /\ Len(s) \in Nat /\ u[Len(s) + 1] = x
          /\ \A j \in 1 .. Len(s) : u[j] = s[j]
      BY <2>2, <3>1, AppendProperties, LenProperties
    <3> QED BY <3>2 DEF s, u
  <2>4. \A j \in 1 .. m + 1 : d.results[j] = [id |-> j, is |-> d.answer[j]]
    <3>1. ASSUME NEW j \in 1 .. m
          PROVE  d.results[j] = [id |-> j, is |-> d.answer[j]]
      <4>1. j \in 1 .. Size(b) /\ j # i
        BY <1>2, <2>1, <2>3
      <4>2. b.results[j] = [id |-> j, is |-> b.answer[j]]
        BY <2>1, <3>1 DEF InSequence
      <4> QED BY <1>5, <2>3, <4>1, <4>2
    <3>2. d.results[i] = [id |-> i, is |-> d.answer[i]]
      BY <1>5, <2>1, <2>3 DEF x
    <3> QED BY <2>1, <2>3, <3>1, <3>2
  <2>5. \A j \in 1 .. Size(b) : d.at[j] = "done" <=> j <= m + 1
    BY <1>5, <2>1, <2>3 DEF InSequence
  <2>6. \A j \in 1 .. Size(b) : d.at[j] # "sent"
    BY <1>3, <1>5, <1>10
  <2> QED BY <1>2, <1>3, <2>1, <2>3, <2>4, <2>5, <2>6 DEF InSequence, R
<1> QED
  BY <1>3, <1>7, <1>8, <1>9, <1>10 DEF BatchIInv

-----------------------------------------------------------------------------
\* A request: the actions.

LEMMA BatchFacts ==
  ASSUME BatchIInv
  PROVE  /\ BatchTyped(batch) /\ Logged(batch) /\ SentSafely(batch) /\ IsBatch(batch)
         /\ Size(batch) \in Nat /\ DOMAIN batch.calls = 1 .. Size(batch)
         /\ batch.at \in [1 .. Size(batch) -> {"queued", "sent", "done"}]
         /\ batch.mode \in {"direct", "parallel", "sequential"}
BY DEF BatchIInv, BatchTyped

\* In a sequence a call begins after the one before it is done.
LEMMA BeginsInSequence ==
  ASSUME BatchIInv, NEW i \in 1 .. Size(batch), MayBegin(i),
         batch.mode = "sequential"
  PROVE  /\ i = Len(batch.results) + 1
         /\ \A j \in 1 .. Size(batch) : batch.at[j] # "sent"
<1> DEFINE b == batch
           m == Len(b.results)
<1>1. /\ InSequence(b) /\ b.at[i] = "queued" /\ Size(b) \in Nat
      /\ \A j \in 1 .. (i - 1) : b.at[j] # "queued"
      /\ b.at \in [1 .. Size(b) -> {"queued", "sent", "done"}]
      /\ DOMAIN b.at = 1 .. Size(b) /\ Cardinality(Running(b)) < 1
  BY BatchFacts DEF BatchIInv, MayBegin
<1>2. IsFiniteSet(Running(b))
  <2>1. Running(b) \subseteq 1 .. Size(b)
    BY <1>1 DEF Running
  <2>2. IsFiniteSet(1 .. Size(b))
    BY BatchFacts, FS_Interval
  <2> QED BY <2>1, <2>2, FS_Subset
<1>3. Running(b) = {}
  BY <1>1, <1>2, FS_CardinalityType, FS_EmptySet
<1>4. \A j \in 1 .. Size(b) : b.at[j] # "sent"
  BY <1>1, <1>3 DEF Running
<1>5. m \in Nat /\ (\A j \in 1 .. Size(b) : b.at[j] = "done" <=> j <= m)
  BY <1>1, LenProperties DEF InSequence
<1>6. m < i
  BY <1>1, <1>5
<1>7. i = 1 \/ (i - 1 \in 1 .. Size(b) /\ i - 1 \in 1 .. (i - 1))
  BY <1>1
<1>8. i = 1 \/ b.at[i - 1] = "done"
  BY <1>1, <1>4, <1>7
<1>9. i <= m + 1
  BY <1>5, <1>7, <1>8
<1> QED
  BY <1>4, <1>5, <1>6, <1>9

LEMMA RefuseSound ==
  ASSUME BatchIInv, NEW i \in DOMAIN batch.calls, Refuse(i)
  PROVE  BatchIInv'
<1>1. /\ i \in 1 .. Size(batch) /\ MayBegin(i) /\ batch.phase = "running"
      /\ batch.at[i] # "done" /\ batch.calls[i].kind # "odd"
      /\ batch' = Done(batch, i, FALSE, TRUE)
  BY BatchFacts DEF Refuse, MayBegin
<1>2. batch.mode = "sequential" =>
        /\ i = Len(batch.results) + 1
        /\ \A j \in 1 .. Size(batch) : batch.at[j] = "sent" => j = i
  BY <1>1, BeginsInSequence
<1> QED
  BY <1>1, <1>2, DoneSound

LEMMA RaiseSound ==
  ASSUME BatchIInv, NEW i \in DOMAIN batch.calls, Raise(i)
  PROVE  BatchIInv'
<1>1. /\ i \in 1 .. Size(batch) /\ MayBegin(i) /\ batch.phase = "running"
      /\ batch.at[i] # "done" /\ batch.calls[i].kind = "odd"
  BY BatchFacts DEF Raise, MayBegin
<1>2. CASE batch.mode = "parallel"
  <2>1. batch' = Done(batch, i, FALSE, FALSE) /\ batch.mode # "sequential"
    BY <1>2 DEF Raise
  <2> QED BY <1>1, <2>1, DoneSound
<1>3. CASE batch.mode # "parallel"
  <2>1. batch' = [batch EXCEPT !.phase = "raised"]
    BY <1>3 DEF Raise
  <2>2. /\ IsBatch(batch') /\ batch'.phase = "raised" /\ batch'.mode = batch.mode
        /\ batch'.calls = batch.calls /\ batch'.at = batch.at
        /\ batch'.answer = batch.answer /\ batch'.audit = batch.audit
    BY <2>1, BatchFacts DEF IsBatch
  <2>3. Size(batch') = Size(batch)
    BY <2>2 DEF Size
  <2>4. BatchTyped(batch)'
    BY <2>2, <2>3, BatchFacts DEF BatchTyped
  <2>5. Logged(batch')
    <3>1. \A j : Recorded(batch', j) = Recorded(batch, j)
      BY <2>2 DEF Recorded
    <3>2. \A j \in 1 .. Size(batch) : Entered(batch', j)
      BY <2>2, <3>1, BatchFacts, EntryKept DEF Logged
    <3> QED BY <2>3, <3>2 DEF Logged
  <2>6. SentSafely(batch)'
    BY <2>2, <2>3, BatchFacts DEF SentSafely
  <2> QED BY <2>2, <2>4, <2>5, <2>6 DEF BatchIInv
<1> QED
  BY <1>2, <1>3

LEMMA SendSound ==
  ASSUME BatchIInv, NEW i \in DOMAIN batch.calls, Send(i)
  PROVE  BatchIInv'
<1>1. /\ i \in 1 .. Size(batch) /\ MayBegin(i) /\ batch.phase = "running"
      /\ batch.at[i] = "queued"
      /\ batch.mode # "direct" => batch.calls[i].kind # "odd"
  BY BatchFacts DEF Send, MayBegin
<1>2. batch.mode = "sequential" =>
        /\ i = Len(batch.results) + 1
        /\ \A j \in 1 .. Size(batch) : batch.at[j] # "sent"
  BY <1>1, BeginsInSequence
<1>3. CASE batch' = Done(batch, i, FALSE, TRUE)
  BY <1>1, <1>2, <1>3, DoneSound
<1>4. ASSUME NEW n, batch' = [batch EXCEPT !.at[i] = "sent", !.session[i] = n]
      PROVE  BatchIInv'
  <2> DEFINE b == batch
             d == batch'
  <2>1. /\ IsBatch(d) /\ d.phase = "running" /\ d.mode = b.mode /\ d.calls = b.calls
        /\ d.at = [b.at EXCEPT ![i] = "sent"] /\ d.answer = b.answer
        /\ d.audit = b.audit /\ d.results = b.results
    BY <1>1, <1>4, BatchFacts DEF IsBatch
  <2>2. Size(d) = Size(b)
    BY <2>1 DEF Size
  <2>3. /\ d.at \in [1 .. Size(b) -> {"queued", "sent", "done"}] /\ d.at[i] = "sent"
        /\ \A j \in 1 .. Size(b) : j # i => d.at[j] = b.at[j]
    BY <1>1, <2>1, BatchFacts
  <2>4. BatchTyped(d)
    BY <2>1, <2>2, <2>3, BatchFacts DEF BatchTyped
  <2>5. \A j : Recorded(d, j) = Recorded(b, j)
    BY <2>1 DEF Recorded
  <2>6. ASSUME NEW j \in 1 .. Size(b)
        PROVE  Entered(d, j)
    <3>1. CASE j = i
      <4>1. Recorded(b, j) = {}
        BY <1>1, <3>1, BatchFacts DEF Logged, Entered
      <4> QED BY <2>3, <2>5, <3>1, <4>1 DEF Entered
    <3>2. CASE j # i
      <4>1. Entered(b, j)
        BY BatchFacts DEF Logged
      <4> QED BY <2>1, <2>3, <2>5, <3>2, <4>1, EntryKept
    <3> QED BY <3>1, <3>2
  <2>7. Logged(d)
    BY <2>2, <2>6 DEF Logged
  <2>8. SentSafely(d)
    BY <1>1, <2>1, <2>2, <2>3, BatchFacts DEF SentSafely
  <2>9. b.mode = "sequential" => InSequence(d)
    <3> SUFFICES ASSUME b.mode = "sequential" PROVE InSequence(d)
      OBVIOUS
    <3>1. InSequence(b)
      BY <1>1 DEF BatchIInv
    <3> QED BY <1>1, <1>2, <2>1, <2>2, <2>3, <3>1 DEF InSequence
  <2> QED BY <2>1, <2>4, <2>7, <2>8, <2>9 DEF BatchIInv
<1> QED
  BY <1>3, <1>4 DEF Send

\* A call that was sent has its result, or its time is over.
LEMMA SentEnds ==
  ASSUME BatchIInv, NEW i \in DOMAIN batch.calls, batch.phase = "running",
         batch.at[i] = "sent", NEW ok \in BOOLEAN, batch' = Done(batch, i, ok, TRUE)
  PROVE  BatchIInv'
<1>1. /\ i \in 1 .. Size(batch) /\ batch.at[i] # "done"
      /\ batch.mode # "direct" => batch.calls[i].kind # "odd"
  BY BatchFacts DEF SentSafely
<1>2. batch.mode = "sequential" =>
        /\ i = Len(batch.results) + 1
        /\ \A j \in 1 .. Size(batch) : batch.at[j] = "sent" => j = i
  BY <1>1 DEF BatchIInv, InSequence
<1> QED
  BY <1>1, <1>2, DoneSound

LEMMA ReturnSound ==
  ASSUME BatchIInv, Return
  PROVE  BatchIInv'
<1> DEFINE b == batch
           d == batch'
           list == [i \in DOMAIN b.calls |-> [id |-> i, is |-> b.answer[i]]]
<1>1. \A i \in 1 .. Size(b) : b.at[i] = "done"
  BY BatchFacts DEF Return
<1>2. b.mode = "sequential" => b.results = list
  <2> SUFFICES ASSUME b.mode = "sequential" PROVE b.results = list
    OBVIOUS
  <2> DEFINE R == [id : Nat, is : {"none", "ok", "error"}]
             s == b.results
  <2>1. InSequence(b) /\ Size(b) \in Nat /\ DOMAIN b.calls = 1 .. Size(b)
    BY BatchFacts DEF BatchIInv, Return
  <2>2. s \in Seq(R) /\ Len(s) <= Size(b) /\ (\A i \in 1 .. Size(b) : i <= Len(s))
        /\ \A i \in 1 .. Len(s) : s[i] = [id |-> i, is |-> b.answer[i]]
    BY <1>1, <2>1 DEF InSequence
  <2> HIDE DEF R, s
  <2>3. Len(s) \in Nat /\ s = [i \in 1 .. Len(s) |-> s[i]]
    BY <2>2, LenProperties
  <2>4. Len(s) = Size(b)
    BY <2>1, <2>2, <2>3
  <2>5. s = list
    BY <2>1, <2>2, <2>3, <2>4
  <2> QED BY <2>5 DEF s
<1>3. b.mode # "sequential" => d = [b EXCEPT !.phase = "returned", !.results = list]
  BY DEF Return
<1>4. b.mode = "sequential" => d = [b EXCEPT !.phase = "returned"]
  BY BatchFacts DEF Return, IsBatch
<1> HIDE DEF list
<1>5. /\ IsBatch(d) /\ d.phase = "returned" /\ d.mode = b.mode /\ d.calls = b.calls
      /\ d.at = b.at /\ d.answer = b.answer /\ d.audit = b.audit
      /\ d.results = list
  BY <1>2, <1>3, <1>4, BatchFacts DEF IsBatch
<1>6. Size(d) = Size(b)
  BY <1>5 DEF Size
<1>7. BatchTyped(d)
  BY <1>5, <1>6, BatchFacts DEF BatchTyped
<1>8. Logged(d)
  <2>1. \A j : Recorded(d, j) = Recorded(b, j)
    BY <1>5 DEF Recorded
  <2>2. \A j \in 1 .. Size(b) : Entered(d, j)
    BY <1>5, <2>1, BatchFacts, EntryKept DEF Logged
  <2> QED BY <1>6, <2>2 DEF Logged
<1>9. SentSafely(d)
  BY <1>1, <1>5, <1>6 DEF SentSafely
<1>10. d.results = [i \in DOMAIN d.calls |-> [id |-> i, is |-> d.answer[i]]]
  BY <1>5 DEF list
<1> QED
  BY <1>1, <1>5, <1>6, <1>7, <1>8, <1>9, <1>10 DEF BatchIInv

LEMMA SubmitSound ==
  ASSUME Submit
  PROVE  BatchIInv'
<1>1. PICK r \in Batches :
        batch' = [NoBatch EXCEPT !.phase = "running", !.mode = r.mode, !.calls = r.calls,
                    !.at = [i \in DOMAIN r.calls |-> "queued"],
                    !.session = [i \in DOMAIN r.calls |-> 0],
                    !.answer = [i \in DOMAIN r.calls |-> "none"]]
  BY DEF Submit
<1> DEFINE d == batch'
           calls == r.calls
           session == [i \in DOMAIN r.calls |-> 0]
           n == Len(calls)
<1>2. /\ calls \in Seq(ToSet(calls))
      /\ r.mode \in {"direct", "parallel", "sequential"}
  BY BatchesAssumption
<1>3. n \in Nat /\ DOMAIN calls = 1 .. n
  BY <1>2, LenProperties
<1>4. d = [phase |-> "running", mode |-> r.mode, calls |-> calls,
           at |-> [i \in DOMAIN calls |-> "queued"], session |-> session,
           answer |-> [i \in DOMAIN calls |-> "none"], results |-> << >>,
           audit |-> << >>]
  BY <1>1 DEF NoBatch
<1> HIDE DEF calls, n, session
<1>5. /\ IsBatch(d) /\ d.phase = "running" /\ d.mode = r.mode /\ d.calls = calls
      /\ d.at = [i \in 1 .. n |-> "queued"] /\ d.answer = [i \in 1 .. n |-> "none"]
      /\ d.results = << >> /\ d.audit = << >>
  BY <1>3, <1>4 DEF IsBatch
<1> HIDE DEF d
<1>6. Size(d) = n
  BY <1>5 DEF Size, n
<1>7. BatchTyped(d)
  BY <1>2, <1>3, <1>5, <1>6, EmptySeq DEF BatchTyped
<1>8. \A i : Recorded(d, i) = {}
  BY <1>5 DEF Recorded
<1>9. \A i \in 1 .. n : d.at[i] = "queued"
  BY <1>5
<1>10. Logged(d) /\ SentSafely(d)
  BY <1>6, <1>8, <1>9 DEF Logged, Entered, SentSafely
<1>11. InSequence(d)
  <2>1. Len(d.results) = 0
    BY <1>5
  <2>2. d.results \in Seq([id : Nat, is : {"none", "ok", "error"}])
    BY <1>5, EmptySeq
  <2> QED BY <1>3, <1>6, <1>9, <2>1, <2>2 DEF InSequence
<1> QED
  BY <1>5, <1>7, <1>10, <1>11 DEF BatchIInv, d

\* The inductive invariant of a request.
THEOREM McpRequests == McpSpec => []BatchIInv
<1>1. McpInit => BatchIInv
  <2> SUFFICES ASSUME McpInit PROVE BatchIInv
    OBVIOUS
  <2>1. batch = NoBatch
    BY DEF McpInit
  <2>2. /\ IsBatch(batch) /\ batch.phase = "none" /\ batch.mode = "direct"
        /\ batch.calls = << >> /\ batch.at = << >> /\ batch.answer = << >>
        /\ batch.audit = << >>
    BY <2>1 DEF NoBatch, IsBatch
  <2>3. Size(batch) = 0 /\ 1 .. Size(batch) = {}
    BY <2>2 DEF Size
  <2>4. BatchTyped(batch)
    BY <2>2, <2>3, EmptySeq DEF BatchTyped
  <2> QED BY <2>2, <2>3, <2>4 DEF BatchIInv, Logged, SentSafely
<1>2. BatchIInv /\ [McpNext]_mcpvars => BatchIInv'
  <2> SUFFICES ASSUME BatchIInv, [McpNext]_mcpvars
               PROVE  BatchIInv'
    OBVIOUS
  <2>1. CASE batch' = batch
    BY <2>1 DEF BatchIInv
  <2>2. CASE Submit
    BY <2>2, SubmitSound
  <2>3. ASSUME NEW i \in DOMAIN batch.calls, Refuse(i) \/ Raise(i) \/ Send(i)
        PROVE  BatchIInv'
    BY <2>3, RefuseSound, RaiseSound, SendSound
  <2>4. ASSUME NEW i \in DOMAIN batch.calls, TimeOut(i) \/ AnswerCall(i)
        PROVE  BatchIInv'
    <3>1. batch.phase = "running" /\ batch.at[i] = "sent"
          /\ \E ok \in BOOLEAN : batch' = Done(batch, i, ok, TRUE)
      BY <2>4 DEF TimeOut, AnswerCall
    <3> QED BY <3>1, SentEnds
  <2>5. CASE Return
    BY <2>5, ReturnSound
  <2>6. CASE Start \/ Stop \/ Reconnect \/ ReconnectNext \/ EndOperation \/ Refresh
             \/ \E s \in S : ClientStep(s) \/ RefreshEnds(s)
    BY <2>1, <2>6 DEF Start, Stop, Reconnect, ReconnectNext, EndOperation, Refresh, ClientStep,
       RefreshEnds
  <2>7. CASE UNCHANGED mcpvars
    BY <2>1, <2>7 DEF mcpvars
  <2> QED
    BY <2>2, <2>3, <2>4, <2>5, <2>6, <2>7 DEF McpNext, CallStep
<1> QED
  BY <1>1, <1>2, PTL DEF McpSpec

\* A request gives one result per call, in order, and each executed call is in
\* the log once with its outcome (Accounted).
THEOREM McpAccounted == McpSpec => []Accounted
<1>1. BatchIInv => Accounted
  <2> SUFFICES ASSUME BatchIInv, batch.phase = "returned"
               PROVE  Accounted
    BY DEF Accounted
  <2>1. /\ batch.results = [i \in DOMAIN batch.calls |-> [id |-> i, is |-> batch.answer[i]]]
        /\ \A i \in 1 .. Size(batch) : batch.at[i] = "done"
    BY DEF BatchIInv
  <2>2. ASSUME NEW i \in DOMAIN batch.calls
        PROVE  IF batch.mode = "direct" \/ batch.calls[i].kind = "odd"
               THEN Recorded(batch, i) = {}
               ELSE \E k \in DOMAIN batch.audit :
                      /\ Recorded(batch, i) = {k}
                      /\ batch.audit[k] = <<i, batch.answer[i] = "ok">>
    <3>1. Entered(batch, i) /\ batch.at[i] = "done"
      BY <2>1, BatchFacts DEF Logged
    <3> QED BY <3>1 DEF Entered
  <2> QED BY <2>1, <2>2 DEF Accounted
<1> QED
  BY <1>1, McpRequests, PTL
=============================================================================
