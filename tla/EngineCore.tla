------------------------------ MODULE EngineCore ------------------------------
(***************************************************************************)
(* EngineCore (vmlx_engine/engine_core.py) on top of the scheduler: the    *)
(* engine loop, the output collectors (vmlx_engine/output_collector.py)    *)
(* and the coroutines that wait for a request, all tasks of one event      *)
(* loop.  An action is what one task does between two awaits.              *)
(*                                                                         *)
(* The n-th token of a request is the number n, so a consumer that has     *)
(* received 1, 2, ..., n has received everything once and in order.        *)
(***************************************************************************)
EXTENDS Scheduler

CONSTANTS
  StreamInterval   \* config.stream_interval

VARIABLES
  loop,       \* the loop's task: "run", or "backoff" after an error; stop has
              \* been called: "cancelled" or "dying" in turn; "ended"; "closed"
  reg,        \* the keys of _output_collectors, _stream_states and events
  buffer,     \* what r's collector holds, an output or None
  event,      \* r's finished event is set
  stream,     \* r's RequestStreamState
  task        \* the coroutine that waits for r

evars == <<sch, faults, loop, reg, buffer, event, stream, task>>

Outs == [toks : Seq(1 .. Most), finished : BOOLEAN,
         reason : {"none", "stop", "length", "error", "aborted", "raised"}]

ASSUME EngineAssumption == StreamInterval \in Nat \ {0} /\ None \notin Outs

Output(toks, finished, reason) ==
  [toks |-> toks, finished |-> finished, reason |-> reason]

FreshStream == [sent |-> 0, pending |-> << >>]

NoTask == [kind |-> "none", phase |-> "none", got |-> << >>, reason |-> "none"]

EngineInit ==
  /\ sch = EmptyScheduler /\ faults = 0
  /\ loop = "run"
  /\ reg = {}
  /\ buffer = [r \in Requests |-> None]
  /\ event = [r \in Requests |-> FALSE]
  /\ stream = [r \in Requests |-> FreshStream]
  /\ task = [r \in Requests |-> NoTask]

Streaming(r) == task[r].kind = "stream" /\ task[r].phase = "active"
Generating(r) == task[r].kind = "generate" /\ task[r].phase = "active"
Waiting(r) == Streaming(r) \/ Generating(r)

-----------------------------------------------------------------------------
\* RequestOutputCollector.put: merged with an output that is still there.
Put(old, o) ==
  IF old = None THEN o
  ELSE Output(old.toks \o o.toks, o.finished, o.reason)

\* Bug: the scheduler's entry survives its consumer.
BugCleaned(s, r, broken) == s

\* The scheduler's part of _cleanup_request.
Cleaned(s, r, broken) == Abort(s, r, broken)

\* _cleanup_request: a consumer that still reads the collector finds a final
\* output there.
CleanupRequest(r, broken) ==
  /\ reg' = reg \ {r}
  /\ sch' = Cleaned(sch, r, broken)
  /\ faults' = IF broken THEN faults + 1 ELSE faults

\* The library may fail to remove a running request.
MayBreak(r) ==
  IF "remove" \in FaultKinds /\ faults < MaxFaults /\ r \in sch.known
     /\ sch.uid[r] # None
  THEN BOOLEAN ELSE {FALSE}

-----------------------------------------------------------------------------
\* The clients.

\* add_request, called by stream_generate or generate, which go on to wait.
AddRequest(r, kind) ==
  /\ task[r].phase = "none" /\ loop # "closed"
  /\ reg' = reg \cup {r}
  /\ task' = [task EXCEPT ![r].kind = kind, ![r].phase = "active"]
  /\ sch' = Enqueue(sch, r)
  /\ UNCHANGED <<faults, loop, buffer, event, stream>>

\* add_request for an empty prompt: the scheduler raises when the collector
\* is already registered, and no caller has entered its try block yet.
AddRejected(r, kind) ==
  /\ task[r].phase = "none" /\ loop # "closed"
  /\ reg' = reg \cup {r}
  /\ task' = [task EXCEPT ![r].kind = kind, ![r].phase = "done",
                          ![r].reason = "rejected"]
  /\ UNCHANGED <<sch, faults, loop, buffer, event, stream>>

\* The end of a consumer: its result, and the finally block.
Finish(r, got, reason, broken) ==
  /\ CleanupRequest(r, broken)
  /\ task' = [task EXCEPT ![r].phase = "done", ![r].got = got,
                          ![r].reason = reason]
  /\ buffer' = [buffer EXCEPT ![r] = None]
  /\ stream' = [stream EXCEPT ![r] = FreshStream]
  /\ event' = [event EXCEPT ![r] = FALSE]
  /\ UNCHANGED loop

\* stream_outputs yields what is in the collector.
StreamGet(r) ==
  LET o == buffer[r]
      got == task[r].got \o o.toks
  IN  /\ Streaming(r) /\ o # None
      /\ IF o.finished
         THEN \E broken \in MayBreak(r) : Finish(r, got, o.reason, broken)
         ELSE /\ buffer' = [buffer EXCEPT ![r] = None]
              /\ task' = [task EXCEPT ![r].got = got]
              /\ UNCHANGED <<sch, faults, loop, reg, event, stream>>

\* generate wakes when its event is set, and takes what the collector holds
\* when that is still registered.
GenerateReturn(r) ==
  LET there == r \in reg /\ buffer[r] # None
  IN  /\ Generating(r) /\ event[r]
      /\ \E broken \in MayBreak(r) :
           Finish(r, IF there THEN buffer[r].toks ELSE << >>,
                  IF there THEN buffer[r].reason ELSE "raised", broken)

\* A consumer is cancelled (its client is gone) or its timeout expires.
Leave(r) ==
  /\ Waiting(r)
  /\ \E broken \in MayBreak(r) : Finish(r, task[r].got, "left", broken)

\* abort_request: the cancel endpoint.
AbortRequest(r) ==
  /\ Waiting(r) /\ r \in reg
  /\ \E broken \in MayBreak(r) : CleanupRequest(r, broken)
  /\ buffer' = [buffer EXCEPT ![r] =
                  Put(@, Output(stream[r].pending, TRUE, "aborted"))]
  /\ stream' = [stream EXCEPT ![r] = FreshStream]
  /\ event' = [event EXCEPT ![r] = TRUE]
  /\ UNCHANGED <<loop, task>>

-----------------------------------------------------------------------------
\* The engine loop.

\* should_send.
ShouldSend(r, o) ==
  \/ o.finish # "none"
  \/ stream[r].sent = 0
  \/ o.tok >= stream[r].sent + StreamInterval

\* Bug: skipped tokens are not kept.
BugDistribute(outs) ==
  LET has(r) == r \in reg /\ \E o \in ToSet(outs) : o.req = r
      out(r) == CHOOSE o \in ToSet(outs) : o.req = r
      sends(r) == has(r) /\ ShouldSend(r, out(r))
      done(r) == has(r) /\ out(r).finish # "none"
  IN  /\ buffer' = [r \in Requests |->
           IF sends(r)
           THEN Put(buffer[r], Output(<<out(r).tok>>, done(r), out(r).finish))
           ELSE buffer[r]]
      /\ stream' = [r \in Requests |->
           IF sends(r) THEN [sent |-> out(r).tok, pending |-> << >>]
           ELSE stream[r]]
      /\ event' = [r \in Requests |-> event[r] \/ done(r)]

\* The distribution of a step's outputs to the registered collectors.
Distribute(outs) ==
  LET has(r) == r \in reg /\ \E o \in ToSet(outs) : o.req = r
      out(r) == CHOOSE o \in ToSet(outs) : o.req = r
      sends(r) == has(r) /\ ShouldSend(r, out(r))
      toks(r) == Append(stream[r].pending, out(r).tok)
      done(r) == has(r) /\ out(r).finish # "none"
  IN  /\ buffer' = [r \in Requests |->
           IF sends(r) THEN Put(buffer[r], Output(toks(r), done(r), out(r).finish))
           ELSE buffer[r]]
      /\ stream' = [r \in Requests |->
           IF sends(r) THEN [sent |-> out(r).tok, pending |-> << >>]
           ELSE IF has(r) THEN [stream[r] EXCEPT !.pending = toks(r)]
           ELSE stream[r]]
      /\ event' = [r \in Requests |-> event[r] \/ done(r)]

\* The ghost check and the orphan check: running requests without a
\* collector are aborted, sooner or later.
ReapOne(s, r) == IF r \in reg THEN s ELSE Abort(s, r, FALSE)

Reap(s) ==
  LET after[n \in 0 .. Len(s.running)] ==
        IF n = 0 THEN s ELSE ReapOne(after[n - 1], s.running[n])
  IN  after[Len(s.running)]

\* Abort the requests of a sequence; after one that fails (if any) no more.
AbortNext(st, r, failing) ==
  IF st.stop THEN st
  ELSE [s |-> Abort(st.s, r, r = failing), stop |-> r = failing]

AbortAll(s, rs, failing) ==
  LET after[n \in 0 .. Len(rs)] ==
        IF n = 0 THEN [s |-> s, stop |-> FALSE]
        ELSE AbortNext(after[n - 1], rs[n], failing)
  IN  after[Len(rs)].s

\* Bug: nobody is told.
BugTellAll == UNCHANGED <<buffer, event>>

\* _fail_active_requests: every registered collector gets a final output.
TellAll ==
  /\ buffer' = [r \in Requests |->
                  IF r \in reg THEN Put(buffer[r], Output(<< >>, TRUE, "error"))
                  ELSE buffer[r]]
  /\ event' = [r \in Requests |-> event[r] \/ r \in reg]

\* And every request of the scheduler is aborted.
FailActive(s, spent) ==
  /\ TellAll
  /\ \E failing \in {None} \cup
       (IF "remove" \in FaultKinds /\ faults + spent < MaxFaults
        THEN Active(s) ELSE {}) :
       /\ sch' = AbortAll(s, s.running \o s.waiting, failing)
       /\ faults' = faults + spent + (IF failing = None THEN 0 ELSE 1)
  /\ UNCHANGED stream

\* A round of _engine_loop with work to do.  The engine is checked without
\* prompt lookup decoding: its rounds have no drafts.
EngineStep ==
  /\ loop = "run" /\ HasRequests(sch)
  /\ \E m \in Mishaps, ending \in SUBSET Active(ScheduleWaiting(sch, {})) :
       /\ Possible(sch, m)
       /\ \E res \in {Step(sch, m, ending, NoRound)} :
            IF res.raised
            THEN FailActive(res.s, Weight(m)) /\ loop' = "backoff"
            ELSE /\ Distribute(res.outs)
                 /\ sch' \in {res.s, Reap(res.s)}
                 /\ faults' = faults + Weight(m)
                 /\ UNCHANGED loop
  /\ UNCHANGED <<reg, task>>

\* The pause after an error ends.
Resume ==
  /\ loop = "backoff"
  /\ loop' = "run"
  /\ UNCHANGED <<sch, faults, reg, buffer, event, stream, task>>

\* stop: the loop's task is cancelled ...
Stop ==
  /\ loop \in {"run", "backoff"}
  /\ loop' = IF loop = "run" THEN "cancelled" ELSE "dying"
  /\ UNCHANGED <<sch, faults, reg, buffer, event, stream, task>>

\* ... which it notices at its next await: it fails what is active, unless it
\* was in the pause after an error, where the exception ends it.
LoopEnds ==
  /\ loop \in {"cancelled", "dying"}
  /\ loop' = "ended"
  /\ IF loop = "cancelled"
     THEN FailActive(sch, 0)
     ELSE UNCHANGED <<sch, faults, buffer, event, stream>>
  /\ UNCHANGED <<reg, task>>

\* The caller of stop goes on and closes the engine: deep_reset, and clear
\* for every collector, which raises in a consumer that waits for it.  The
\* events are dropped as they are.
Close ==
  /\ loop = "ended"
  /\ loop' = "closed"
  /\ sch' = ResetAll(sch)
  /\ buffer' = [r \in Requests |->
                  IF r \notin reg THEN buffer[r]
                  ELSE IF Streaming(r) THEN Output(<< >>, TRUE, "raised")
                  ELSE None]
  /\ reg' = {}
  /\ stream' = [r \in Requests |-> FreshStream]
  /\ UNCHANGED <<faults, event, task>>

-----------------------------------------------------------------------------
Client(r) ==
  \/ \E kind \in {"stream", "generate"} : AddRequest(r, kind)
                                          \/ AddRejected(r, kind)
  \/ StreamGet(r)
  \/ GenerateReturn(r)
  \/ Leave(r)
  \/ AbortRequest(r)

\* The event loop runs the tasks that can run.  For the engine's this is
\* WF_evars(EngineStep), with what enables a step that changes something in
\* place of ENABLED.
LoopFairness ==
  <>[](loop = "run" /\ CanStep(sch)) => []<><<EngineStep>>_evars

Fairness ==
  /\ LoopFairness
  /\ WF_evars(Resume) /\ WF_evars(LoopEnds) /\ WF_evars(Close)
  /\ \A r \in Requests : WF_evars(StreamGet(r)) /\ WF_evars(GenerateReturn(r))

ServeNext == EngineStep \/ Resume \/ \E r \in Requests : Client(r)

ShutdownNext == ServeNext \/ Stop \/ LoopEnds \/ Close
ShutdownSpec == EngineInit /\ [][ShutdownNext]_evars /\ Fairness

-----------------------------------------------------------------------------
(***************************************************************************)
(* Properties.                                                             *)
(***************************************************************************)

\* The types of the variables.
EngineTypeOK ==
  /\ SchedulerTypeOK
  /\ loop \in {"run", "backoff", "cancelled", "dying", "ended", "closed"}
  /\ reg \subseteq Requests
  /\ buffer \in [Requests -> Outs \cup {None}]
  /\ event \in [Requests -> BOOLEAN]
  /\ stream \in [Requests -> [sent : 0 .. Most, pending : Seq(1 .. Most)]]
  /\ \A r \in Requests :
       /\ task[r].kind \in {"none", "stream", "generate"}
       /\ task[r].phase \in {"none", "active", "done"}
       /\ task[r].got \in Seq(1 .. Most)

\* The scheduler works only for requests that somebody waits for and whose
\* outputs reach that consumer.
WorkHasConsumer ==
  /\ EngineTypeOK
  /\ \A r \in sch.known : r \in reg /\ Waiting(r)

\* What a consumer has received, then what its collector and its stream
\* state hold.
Pipeline(r) ==
  task[r].got \o (IF buffer[r] = None THEN << >> ELSE buffer[r].toks)
              \o stream[r].pending

\* A consumer gets every token once and in order: its pipeline is 1, 2, ...
\* without a gap or a repetition, and a request that ends with stop or length
\* has received every token that was made for it.
Delivered ==
  \A r \in Requests :
    /\ \A i \in 1 .. Len(Pipeline(r)) : Pipeline(r)[i] = i
    /\ task[r].reason \in {"stop", "length"} => Len(task[r].got) = sch.made[r]

\* stop has not been called.
Serving == loop \in {"run", "backoff"}

\* While the engine serves every consumer returns, after finitely many faults,
\* and a stream ends even when the engine is stopped under it; and a request
\* that abort_request could not remove from the generator does not run for ever.
NobodyHangs ==
  \A r \in Requests :
    /\ Waiting(r) ~> ~ Waiting(r) \/ ~ Serving
    /\ Streaming(r) ~> ~ Streaming(r)
    /\ (r \in Active(sch) /\ r \notin sch.known) ~> r \notin Active(sch)
=============================================================================
