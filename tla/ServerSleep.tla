------------------------------ MODULE ServerSleep ------------------------------
(***************************************************************************)
(* Sleep and wake of the HTTP server (vmlx_engine/server.py): the two      *)
(* sleep endpoints and the middleware that wakes the server for an         *)
(* inference request take _wake_lock, the wake endpoint does not.          *)
(*                                                                         *)
(* A call is a task of the event loop, and what it does between two awaits *)
(* is one action; load_model runs in a thread of its own, statement by     *)
(* statement between those of the others.  The engine behind _engine is a  *)
(* SimpleEngine, which load_model starts, or a BatchedEngine, which starts *)
(* when the first request uses it (vmlx_engine/engine).  A draft model and *)
(* image models are left out.  What a request does with a SimpleEngine is  *)
(* the subject of SimpleEngine, which extends this module.                 *)
(***************************************************************************)
EXTENDS Naturals, FiniteSets, SequencesExt

CONSTANTS
  Calls,      \* the HTTP calls; each is made once
  Kinds,      \* the kinds of calls: "infer", "soft", "deep", "wake", "cancel"
  Modes,      \* the values of _cli_args["use_batching"] to consider
  None

ASSUME SleepAssumption ==
  /\ IsFiniteSet(Calls)
  /\ Kinds \subseteq {"infer", "soft", "deep", "wake", "cancel"}
  /\ Modes \subseteq BOOLEAN
  /\ None \notin Nat \cup {"normal", "low"} \cup Calls

VARIABLES
  batching,   \* _cli_args["use_batching"]
  standby,    \* _standby_state
  lock,       \* the queue at _wake_lock; its head holds the lock
  engine,     \* _engine: the number of an engine object, or None
  made,       \* the number of the last engine object
  loaded,     \* the engine objects that hold a model in memory
  native,     \* those whose preserve_native_tool_format has been set
  error,      \* _model_load_error is set
  limit,      \* the Metal cache limit
  saved,      \* _pre_sleep_cache_limit
  call        \* what each call is doing

svars == <<batching, standby, lock, engine, made, loaded, native, error, limit,
           saved, call>>

EngineIds == 0 .. Cardinality(Calls)

\* kind, where it is, and the engine object it works with.
NoCall == [kind |-> "none", pc |-> "none", eng |-> None]

\* The server has been started with a model.
SleepInit ==
  /\ batching \in Modes
  /\ standby = "active" /\ lock = << >>
  /\ engine = 0 /\ made = 0 /\ loaded = {0} /\ native = {0}
  /\ error = FALSE
  /\ limit = "normal" /\ saved = None
  /\ call = [c \in Calls |-> NoCall]

At(c, pc) == call[c].pc = pc

\* Bug: each call makes a lock of its own.
BugHolds(c) == c \in ToSet(lock)

Holds(c) == lock # << >> /\ Head(lock) = c
Loading(c) == call[c].pc \in {"drop", "construct", "start", "starting", "wired", "ready"}

\* Simple engines that nothing refers to are collected with their model.  A
\* batched engine is kept alive by its own loop until it is stopped.
Kept(ld) ==
  IF batching THEN ld
  ELSE {e \in ld : e = engine' \/ \E c \in Calls : call'[c].eng = e}

Goto(c, pc) == call' = [call EXCEPT ![c].pc = pc]

-----------------------------------------------------------------------------
\* set_cache_limit on the way out of a sleep.
RestoreLimit ==
  /\ limit' = IF saved # None THEN saved ELSE limit
  /\ saved' = None

\* Bug: the server is declared active before its model is loaded.
BugWake(c, resume) ==
  /\ standby # "active"
  /\ RestoreLimit
  /\ standby' = "active"
  /\ Goto(c, IF standby = "deep" THEN "drop" ELSE resume)
  /\ lock' = IF standby = "soft" /\ Holds(c) THEN Tail(lock) ELSE lock
  /\ UNCHANGED <<engine, loaded, made, error>>

\* admin_wake up to its await: a soft sleep ends at once.
Wake(c, resume) ==
  \/ /\ standby = "soft"
     /\ RestoreLimit
     /\ standby' = "active"
     /\ Goto(c, resume)
     /\ lock' = IF Holds(c) THEN Tail(lock) ELSE lock
     /\ UNCHANGED <<engine, loaded, made, error>>
  \/ /\ standby = "deep"
     /\ RestoreLimit
     /\ Goto(c, "drop")
     /\ UNCHANGED <<standby, lock, engine, loaded, made, error>>

\* POST /admin/wake.
WakeCall(c) ==
  /\ call[c].kind = "wake" /\ At(c, "begin")
  /\ \/ Wake(c, "done")
     \/ /\ standby = "active"
        /\ Goto(c, "done")
        /\ UNCHANGED <<standby, lock, engine, loaded, made, error, limit, saved>>

\* A call arrives.  Middleware and sleep endpoints queue at the lock.
Arrive(c, kind) ==
  /\ At(c, "none")
  /\ LET queues == kind \in {"soft", "deep"} \/ (kind = "infer" /\ standby # "active")
     IN  /\ lock' = IF queues THEN Append(lock, c) ELSE lock
         /\ call' = [call EXCEPT ![c] =
                       [kind |-> kind, eng |-> None,
                        pc |-> IF queues THEN "queued"
                               ELSE IF kind = "infer" THEN "handler" ELSE "begin"]]
  /\ UNCHANGED <<standby, engine, loaded, made, error, limit, saved>>

\* The middleware has the lock: another request may have woken the server.
JitWake(c) ==
  /\ call[c].kind = "infer" /\ At(c, "queued") /\ Holds(c)
  /\ \/ Wake(c, "handler")
     \/ /\ standby = "active"
        /\ Goto(c, "handler")
        /\ lock' = Tail(lock)
        /\ UNCHANGED <<standby, engine, loaded, made, error, limit, saved>>

-----------------------------------------------------------------------------
\* load_model in its thread.

LoadDrop(c) ==
  /\ At(c, "drop")
  /\ engine' = None
  /\ error' = FALSE
  /\ Goto(c, "construct")
  /\ UNCHANGED <<standby, lock, made, limit, saved>>
  /\ loaded' = Kept(loaded)

LoadConstruct(c) ==
  /\ At(c, "construct")
  /\ made' = made + 1
  /\ engine' = made'
  /\ Goto(c, IF batching THEN "wired" ELSE "start")
  /\ UNCHANGED <<standby, lock, error, limit, saved>>
  /\ loaded' = Kept(loaded)

\* asyncio.run(_engine.start()) on whatever _engine is by now.
LoadStart(c) ==
  /\ At(c, "start") /\ engine # None
  /\ call' = [call EXCEPT ![c].pc = "starting", ![c].eng = engine]
  /\ UNCHANGED <<standby, lock, engine, loaded, made, error, limit, saved>>

LoadStarted(c) ==
  /\ At(c, "starting") /\ engine # None
  /\ call' = [call EXCEPT ![c].pc = "wired", ![c].eng = None]
  /\ UNCHANGED <<standby, lock, engine, made, error, limit, saved>>
  /\ loaded' = Kept(loaded \cup {call[c].eng})

\* What admin_wake leaves behind, and the end of the middleware's lock.
WakeEnds(c, ok) ==
  /\ standby' = "active"
  /\ lock' = IF Holds(c) THEN Tail(lock) ELSE lock

\* The rest of load_model: templates and limits of whatever _engine is by now,
\* and last the tool format it keeps.
LoadWire(c) ==
  /\ At(c, "wired") /\ engine # None
  /\ native' = native \cup {engine}
  /\ Goto(c, "ready")
  /\ UNCHANGED <<standby, lock, engine, loaded, made, error, limit, saved>>

\* The thread has finished: the event loop resumes the call.
Loaded(c) ==
  /\ At(c, "ready")
  /\ WakeEnds(c, TRUE)
  /\ Goto(c, IF call[c].kind = "infer" THEN "handler" ELSE "done")
  /\ UNCHANGED <<engine, loaded, made, error, limit, saved>>

\* Constructing or starting the engine raises; with _engine gone it must.
LoadFails(c) ==
  /\ \/ call[c].pc \in {"construct", "start", "starting"}
     \/ At(c, "wired") /\ engine = None
  /\ WakeEnds(c, FALSE)
  /\ error' = TRUE
  /\ call' = [call EXCEPT ![c].pc = "done", ![c].eng = None]
  /\ UNCHANGED <<engine, made, limit, saved>>
  /\ loaded' = Kept(loaded)

-----------------------------------------------------------------------------
\* An inference request past the middleware.

\* get_engine.
GetEngine(c) ==
  /\ At(c, "handler")
  /\ call' = [call EXCEPT ![c].eng = engine,
                          ![c].pc = IF engine = None THEN "done" ELSE "use"]
  /\ UNCHANGED <<standby, lock, engine, loaded, made, error, limit, saved>>

\* BatchedEngine.generate: an engine that is not loaded is started first.
UseEngine(c) ==
  /\ At(c, "use") /\ batching
  /\ Goto(c, "run")
  /\ loaded' = loaded \cup {call[c].eng}
  /\ UNCHANGED <<standby, lock, engine, made, error, limit, saved>>

Answer(c) ==
  /\ At(c, "run")
  /\ call' = [call EXCEPT ![c].pc = "done", ![c].eng = None]
  /\ UNCHANGED <<standby, lock, engine, made, error, limit, saved>>
  /\ loaded' = Kept(loaded)

-----------------------------------------------------------------------------
\* The sleep endpoints, once they have the lock.

\* A deep sleep keeps what a soft sleep has saved.
SaveLimit ==
  /\ saved' = IF saved = None THEN limit ELSE saved
  /\ limit' = IF saved = None THEN "low" ELSE limit

\* A sleep there is nothing to do for.
SleepRefused(c) ==
  /\ At(c, "queued") /\ Holds(c)
  /\ \/ call[c].kind = "soft" /\ standby # "active"
     \/ call[c].kind = "deep" /\ standby = "deep"
  /\ Goto(c, "done") /\ lock' = Tail(lock)
  /\ UNCHANGED <<standby, engine, loaded, made, error, limit, saved>>

SoftSleep(c) ==
  /\ call[c].kind = "soft" /\ At(c, "queued") /\ Holds(c) /\ standby = "active"
  /\ saved' = limit /\ limit' = "low"
  /\ standby' = "soft"
  /\ Goto(c, "done") /\ lock' = Tail(lock)
  /\ UNCHANGED <<engine, loaded, made, error>>

\* A batched engine that runs is stopped first, which takes a while.
DeepSleep(c) ==
  /\ call[c].kind = "deep" /\ At(c, "queued") /\ Holds(c) /\ standby # "deep"
  /\ SaveLimit
  /\ IF batching /\ engine \in loaded
     THEN /\ call' = [call EXCEPT ![c].pc = "stopping", ![c].eng = engine]
          /\ UNCHANGED <<standby, lock, engine, loaded>>
     ELSE /\ standby' = "deep" /\ engine' = None
          /\ Goto(c, "done") /\ lock' = Tail(lock)
          /\ loaded' = loaded \ {engine}
  /\ UNCHANGED <<made, error>>

DeepStopped(c) ==
  /\ At(c, "stopping")
  /\ standby' = "deep" /\ engine' = None
  /\ loaded' = loaded \ {call[c].eng}
  /\ call' = [call EXCEPT ![c].pc = "done", ![c].eng = None]
  /\ lock' = Tail(lock)
  /\ UNCHANGED <<made, error, limit, saved>>

-----------------------------------------------------------------------------
\* What a call does on its way past the middleware, in a batched engine, or as
\* a sleep or wake.
SleepStep(c) ==
  /\ \/ WakeCall(c) \/ JitWake(c)
     \/ GetEngine(c) \/ UseEngine(c) \/ Answer(c)
     \/ SleepRefused(c) \/ SoftSleep(c) \/ DeepSleep(c) \/ DeepStopped(c)
     \/ LoadDrop(c) \/ LoadConstruct(c) \/ LoadStart(c) \/ LoadStarted(c)
     \/ Loaded(c) \/ LoadFails(c)
  /\ UNCHANGED <<batching, native>>

-----------------------------------------------------------------------------
(***************************************************************************)
(* Properties.                                                             *)
(***************************************************************************)

\* The types of the variables.
SleepTypeOK ==
  /\ standby \in {"active", "soft", "deep"}
  /\ lock \in Seq(Calls)
  /\ engine \in EngineIds \cup {None} /\ made \in EngineIds
  /\ loaded \subseteq EngineIds /\ native \subseteq EngineIds /\ error \in BOOLEAN
  /\ limit \in {"normal", "low"} /\ saved \in {"normal", "low", None}
  /\ \A c \in Calls :
       /\ call[c].kind \in Kinds \cup {"none"}
       /\ call[c].eng \in EngineIds \cup {None}

\* However many requests arrive at a sleeping server and however the loads of
\* others end, the middleware loads one model at a time.
MiddlewareLoadsOnce ==
  \A c, d \in Calls :
    /\ Loading(c) /\ call[c].kind = "infer"
    /\ Loading(d) /\ call[d].kind = "infer"
    => c = d

\* Only the middleware wakes the server, under the lock.
JitOnly == \A c \in Calls : call[c].kind # "wake"

\* Unless the wake endpoint is used, the cache limit of a server that serves,
\* with no sleep under way, is the one it had before it slept.
LimitRestored ==
  JitOnly /\ standby = "active" /\ (\A c \in Calls : ~ At(c, "stopping")) =>
    limit = "normal" /\ saved = None

\* Unless the wake endpoint is used, a server that says it is active has an
\* engine whose tool format is set, or says why it has not.
ActiveHasEngine ==
  /\ SleepTypeOK /\ LimitRestored
  /\ JitOnly /\ standby = "active" => engine \in native \/ error

\* Every call is answered, however sleeps, wakes and failing loads meet.
Answered == \A c \in Calls : call[c].kind # "none" ~> At(c, "done")
=============================================================================
