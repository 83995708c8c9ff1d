--------------------------------- MODULE Mllm ---------------------------------
(***************************************************************************)
(* MLLMScheduler (vmlx_engine/mllm_scheduler.py) over MLLMBatchGenerator   *)
(* (vmlx_engine/mllm_batch_generator.py).  Unlike the text engine, whose   *)
(* scheduler runs in the event loop, step() runs in a thread of its own    *)
(* (asyncio.to_thread) while the event loop goes on adding and aborting    *)
(* requests; _queue_lock and _batch_lock keep the two apart.               *)
(*                                                                         *)
(* An action of the step thread is what it does between two lock           *)
(* operations, an action of the event loop what a task does between two    *)
(* awaits, except that an abort waits for _batch_lock in the middle        *)
(* (aborting), with _queue_lock held and the whole loop blocked.           *)
(*                                                                         *)
(* A token is <<attempt, n>>, the n-th of its request's attempt.           *)
(***************************************************************************)
EXTENDS Integers, FiniteSets, Functions, Lists

CONSTANTS
  Requests, None,
  Images,          \* the number of images and videos of a request
  MaxImages,       \* the greatest of these numbers
  Kind,            \* the caller of a request: "stream" or "generate"
  StopIds, Eos,    \* a request's stop_token_ids, the tokenizer's own
  MaxNumSeqs,      \* config.max_num_seqs
  BatchSize,       \* the generator's completion_batch_size
  MaxTokens,       \* max_tokens of every request
  MaxRetries,      \* max_retries in step
  QueueCap,        \* the size of an output queue (8192 in the code)
  FaultKinds,      \* what may fail: "create", "insert", "next", "prefill", "process"
  MaxFaults

VARIABLES
  known,      \* the keys of self.requests
  waiting,    \* self.waiting
  running,    \* the keys of self.running, in order
  uid,        \* request_id_to_uid and its inverse
  req,        \* the MLLMRequest
  stops,      \* self.stop_tokens
  gen,        \* self.batch_generator
  queue,      \* output_queues: None, or what r's queue holds
  client,     \* who waits for r
  last,       \* the last output it has received
  thread,     \* where _process_loop and the step thread are
  aborting,   \* the request whose abort waits for _batch_lock
  alive,      \* self._running
  untold,     \* history: consumers an exception or a full queue kept from being told
  faults      \* history: faults so far

serving == <<known, waiting, running, uid, req, stops>>
ends == <<queue, client, last>>
vars == <<serving, gen, ends, thread, aborting, alive, untold, faults>>

\* What a queue holds besides None, and what the generator answers.
Fins == {"none", "stop", "length", "error"}
Items == {o \in [req : Requests, tok : (Nat \X Nat) \cup {None}, fin : Fins] :
            o.fin = "none" => o.tok # None}
Responses == [uid : Nat, fin : Fins, bad : BOOLEAN]

ASSUME MllmAssumption ==
  /\ None \notin Requests \cup Nat
  /\ None \notin Nat \X Nat /\ None \notin Items
  /\ None \notin Seq(Items \cup {None})
  /\ MaxImages \in Nat /\ Images \in [Requests -> 0 .. MaxImages]
  /\ Kind \in [Requests -> {"stream", "generate"}]
  /\ {MaxNumSeqs, BatchSize, MaxTokens} \subseteq Nat \ {0}
  /\ MaxRetries \in Nat /\ MaxFaults \in Nat
  /\ QueueCap \in Nat \ {0, 1}

Out(r, tok, fin) == [req |-> r, tok |-> tok, fin |-> fin]
Idle == [at |-> "idle", outs |-> << >>]
At(phase) == [at |-> phase, outs |-> << >>]
NewReq == [status |-> "new", made |-> 0, retries |-> 0, added |-> {}]
NoUids == [r \in Requests |-> None]

\* Whoever awaits nothing runs: the loop's tasks are blocked while an abort
\* waits for the lock, and _queue_lock is taken.
LoopFree == aborting = None

Init ==
  /\ known = {} /\ waiting = << >> /\ running = << >>
  /\ uid = NoUids
  /\ req = [r \in Requests |-> NewReq]
  /\ stops = Eos
  /\ gen = None
  /\ queue = [r \in Requests |-> None]
  /\ client = [r \in Requests |-> "none"]
  /\ last = [r \in Requests |-> None]
  /\ thread = Idle /\ aborting = None /\ alive = TRUE
  /\ untold = {} /\ faults = 0

Removed(s, r) == Without(s, {r})

-----------------------------------------------------------------------------
(***************************************************************************)
(* The batch generator: requests to prefill, the active batch, and the     *)
(* next uid.  stop_tokens is the set it was given, which the scheduler     *)
(* goes on using, unless that one was empty ("stop_tokens or set()"):      *)
(* the stop tokens of requests are then in the generator's own alone.      *)
(***************************************************************************)
NewGenerator == [pend |-> << >>, batch |-> << >>, next |-> 0,
                 shared |-> stops # {}, own |-> {}]

\* What has fewer images comes first.
FewerFirst(s) ==
  LET sorted[k \in 0 .. MaxImages + 1] ==
        IF k = 0 THEN << >>
        ELSE sorted[k - 1] \o Only(s, {e \in ToSet(s) : Images[e.req] = k - 1})
  IN  sorted[MaxImages + 1]

\* insert: uids in order.
Entered(g, rs) ==
  [i \in 1 .. Len(rs) |-> [uid |-> g.next + i - 1, req |-> rs[i], n |-> 0]]

Inserted(g, rs) == [g EXCEPT !.pend = FewerFirst(@ \o Entered(g, rs)),
                             !.next = @ + Len(rs)]

\* Bug: what still waits for its prefill is not removed.
BugDrop(g, us) == [g EXCEPT !.batch = Only(@, {e \in ToSet(@) : e.uid \notin us})]

\* remove.
Drop(g, us) ==
  [g EXCEPT !.pend = Only(@, {e \in ToSet(@) : e.uid \notin us}),
            !.batch = Only(@, {e \in ToSet(@) : e.uid \notin us})]

Response(e, fin) == [uid |-> e.uid, fin |-> fin, bad |-> FALSE]

\* next: prefill what the batch has room for, where the requests of bad fail
\* one by one, then one token for each of the batch; ending draw a stop token.
\* Returns the generator and the responses, the failed ones first.
Generated(g, bad, ending) ==
  LET room == BatchSize - Len(g.batch)
      taken == IF room > 0 THEN SubSeq(g.pend, 1, IF room < Len(g.pend) THEN room
                                                  ELSE Len(g.pend))
               ELSE << >>
      ok == Only(taken, {e \in ToSet(taken) : e.req \notin bad})
      failed == Only(taken, {e \in ToSet(taken) : e.req \in bad})
      active == g.batch \o ok
      batch == [i \in DOMAIN active |-> [active[i] EXCEPT !.n = @ + 1]]
      fin(e) == IF e.req \in ending THEN "stop"
                ELSE IF e.n >= MaxTokens THEN "length" ELSE "none"
  IN  [gen |-> [g EXCEPT !.pend = SubSeq(@, Len(taken) + 1, Len(@)),
                         !.batch = Only(batch, {e \in ToSet(batch) : fin(e) = "none"})],
       outs |-> [i \in DOMAIN failed |->
                   [uid |-> failed[i].uid, fin |-> "stop", bad |-> TRUE]]
                \o [i \in DOMAIN batch |-> Response(batch[i], fin(batch[i]))]]

-----------------------------------------------------------------------------
(***************************************************************************)
(* The output queues.                                                      *)
(***************************************************************************)
\* put_nowait, or nothing when the queue is full.
Offer(q, x) == IF q = None \/ Len(q) >= QueueCap THEN q ELSE Append(q, x)

\* What must be delivered drains one item when the queue is full.
Deliver(q, x) ==
  IF q = None THEN q
  ELSE Append(IF Len(q) >= QueueCap THEN Tail(q) ELSE q, x)

\* _dispatch_outputs for one output.
Dispatched(q, o) ==
  IF o.fin = "none" THEN Offer(q, o) ELSE Deliver(Deliver(q, o), None)

\* _fail_all_requests for one queue.
Failed(q, r) == Deliver(Offer(q, Out(r, None, "error")), None)

-----------------------------------------------------------------------------
(***************************************************************************)
(* The clients, in the event loop.                                         *)
(***************************************************************************)
\* add_request_async, by stream or generate, which go on to read the queue.
Add(r) ==
  /\ LoopFree /\ client[r] = "none" /\ alive
  /\ known' = known \cup {r}
  /\ waiting' = Append(waiting, r)
  /\ req' = [req EXCEPT ![r] = [NewReq EXCEPT !.status = "waiting"]]
  /\ queue' = [queue EXCEPT ![r] = << >>]
  /\ client' = [client EXCEPT ![r] = Kind[r]]
  /\ UNCHANGED <<running, uid, stops, gen, last, thread, aborting, alive,
                 untold, faults>>

Reading(r) == client[r] \in {"stream", "generate"}

\* What abort_request does outside the generator, to its end.
Forget(r, known0, left) ==
  /\ known' = known0 \ {r}
  /\ waiting' = IF req[r].status = "waiting" THEN Removed(waiting, r) ELSE waiting
  /\ running' = Removed(running, r)
  /\ uid' = [uid EXCEPT ![r] = None]
  /\ req' = [req EXCEPT ![r] = NewReq]
  /\ queue' = [queue EXCEPT ![r] = IF left THEN None ELSE Deliver(@, None)]

\* abort_request of a known request, whose consumer has left or not.  With a
\* uid and a generator it has to wait for _batch_lock.
Abort(r, known0, left) ==
  IF uid[r] # None /\ gen # None
  THEN /\ aborting' = r
       /\ known' = known0 \ {r}
       /\ waiting' = IF req[r].status = "waiting" THEN Removed(waiting, r)
                     ELSE waiting
       /\ queue' = [queue EXCEPT ![r] = IF left THEN None ELSE @]
       /\ UNCHANGED <<running, uid, req>>
  ELSE Forget(r, known0, left) /\ UNCHANGED aborting

\* The end of stream_outputs: the queue goes, and a request that runs is
\* aborted.  What still waits is left to run for nobody ("ghost").  generate
\* drops its request from the table on a normal end.
End(r, normally) ==
  LET known0 == IF normally /\ client[r] = "generate" THEN known \ {r} ELSE known
      runs == r \in ToSet(running)
  IN  /\ client' = [client EXCEPT ![r] =
                      IF ~ runs /\ r \in ToSet(waiting) THEN "ghost" ELSE "gone"]
      /\ IF runs /\ r \in known
         THEN Abort(r, known0, TRUE)
         ELSE /\ queue' = [queue EXCEPT ![r] = None]
              /\ known' = known0
              /\ UNCHANGED <<waiting, running, uid, req, aborting>>

\* The consumer takes the next output; None ends a stream, a finished output
\* ends generate.
Get(r) ==
  /\ LoopFree /\ Reading(r) /\ queue[r] # << >>
  /\ LET x == Head(queue[r])
         ends_ == x = None \/ (client[r] = "generate" /\ x.fin # "none")
     IN  /\ last' = [last EXCEPT ![r] = IF ends_ THEN None ELSE x]
         /\ IF ends_
            THEN End(r, TRUE)
            ELSE /\ queue' = [queue EXCEPT ![r] = Tail(@)]
                 /\ UNCHANGED <<known, waiting, running, uid, req, client, aborting>>
  /\ UNCHANGED <<stops, gen, thread, alive, untold, faults>>

\* The client disconnects, or its timeout expires.
Leave(r) ==
  /\ LoopFree /\ Reading(r)
  /\ End(r, FALSE)
  /\ last' = [last EXCEPT ![r] = None]
  /\ UNCHANGED <<stops, gen, thread, alive, untold, faults>>

\* The cancel endpoint.
Cancel(r) ==
  /\ LoopFree /\ Reading(r) /\ r \in known
  /\ Abort(r, known, FALSE)
  /\ UNCHANGED <<stops, gen, client, last, thread, alive, untold, faults>>

\* _batch_lock is free for the abort.  If a failing step has dropped the
\* generator meanwhile, remove is called on None and the rest is not done.
AbortResumes ==
  /\ aborting # None
  /\ aborting' = None
  /\ IF gen # None
     THEN /\ gen' = Drop(gen, {uid[aborting]})
          /\ Forget(aborting, known, queue[aborting] = None)
          /\ UNCHANGED untold
     ELSE /\ untold' = untold \cup {aborting}
          /\ UNCHANGED <<known, waiting, running, uid, req, gen, queue>>
  /\ UNCHANGED <<stops, client, last, thread, alive, faults>>

\* deep_reset, by admin_soft_sleep: sentinels to all, a full queue gets none.
Reset ==
  /\ LoopFree
  /\ known' = {} /\ waiting' = << >> /\ running' = << >> /\ uid' = NoUids
  /\ gen' = None
  /\ req' = [r \in Requests |-> NewReq]
  /\ queue' = [r \in Requests |-> Offer(queue[r], None)]
  /\ untold' = untold \cup {r \in Requests : queue[r] # None
                                             /\ Len(queue[r]) >= QueueCap}
  /\ UNCHANGED <<stops, client, last, thread, aborting, alive, faults>>

\* stop: the loop's task ends, the thread does not, and nobody is told.
Stop ==
  /\ LoopFree /\ alive
  /\ alive' = FALSE
  /\ gen' = None
  /\ UNCHANGED <<serving, ends, thread, aborting, untold, faults>>

-----------------------------------------------------------------------------
(***************************************************************************)
(* _process_loop, in the event loop, and step, in its thread.              *)
(***************************************************************************)
HasRequests == waiting # << >> \/ running # << >>

\* The loop hands a step to the thread.
StartStep ==
  /\ LoopFree /\ alive /\ thread.at = "idle" /\ HasRequests
  /\ thread' = At("start")
  /\ UNCHANGED <<serving, gen, ends, aborting, alive, untold, faults>>

Fault(kind) ==
  /\ kind \in FaultKinds /\ faults < MaxFaults
  /\ faults' = faults + 1

\* _schedule_waiting under _queue_lock: the first k that wait run now.  Memory
\* pressure may stop it early, but only when something runs.
Schedule ==
  /\ thread.at = "start" /\ LoopFree
  /\ LET g == IF gen = None THEN NewGenerator ELSE gen
         free == MaxNumSeqs - Len(running)
         most == IF free < Len(waiting) THEN free ELSE Len(waiting)
     IN  \E k \in 0 .. most :
           /\ k < most => running # << >> \/ k > 0
           /\ LET new == SubSeq(waiting, 1, k)
                  ids == UNION {StopIds[r] : r \in ToSet(new)}
                  g1 == Inserted(g, new)
              IN  /\ waiting' = SubSeq(waiting, k + 1, Len(waiting))
                  /\ running' = running \o new
                  /\ stops' = IF g.shared THEN stops \cup ids ELSE stops
                  /\ req' = [r \in Requests |->
                       IF r \notin ToSet(new) THEN req[r]
                       ELSE [req[r] EXCEPT !.status = "running",
                                           !.added = StopIds[r]]]
                  /\ \/ /\ uid' = [r \in Requests |->
                             IF r \in ToSet(new)
                             THEN g.next + (CHOOSE i \in 1 .. k : new[i] = r) - 1
                             ELSE uid[r]]
                        /\ gen' = IF g.shared THEN g1 ELSE [g1 EXCEPT !.own = @ \cup ids]
                        /\ thread' = At(IF running' = << >> THEN "done" ELSE "gen")
                        /\ UNCHANGED faults
                     \/ \* insert raises
                        /\ k > 0 /\ Fault("insert")
                        /\ gen' = g
                        /\ thread' = At("raised")
                        /\ UNCHANGED uid
  /\ UNCHANGED <<known, ends, aborting, alive, untold>>

\* The generator cannot be made.
CreateFails ==
  /\ thread.at = "start" /\ LoopFree /\ gen = None
  /\ Fault("create")
  /\ thread' = At("raised")
  /\ UNCHANGED <<serving, gen, ends, aborting, alive, untold>>

\* batch_generator.next() under _batch_lock, without _queue_lock.
NextTokens ==
  /\ thread.at = "gen" /\ gen # None
  /\ \E bad \in {{}} \cup (IF "prefill" \in FaultKinds /\ faults < MaxFaults
                           THEN {{e.req} : e \in ToSet(gen.pend)} ELSE {}),
        ending \in SUBSET {e.req : e \in ToSet(gen.pend \o gen.batch)} :
       LET res == Generated(gen, bad, ending)
       IN  /\ gen' = res.gen
           /\ thread' = [at |-> "resp", outs |-> res.outs]
           /\ faults' = faults + Cardinality(bad)
  /\ UNCHANGED <<serving, ends, aborting, alive, untold>>

\* It raises: also when the generator was dropped since the lock was released.
NextRaises ==
  /\ thread.at = "gen"
  /\ IF gen = None THEN UNCHANGED faults ELSE Fault("next")
  /\ thread' = At("broken")
  /\ UNCHANGED <<serving, gen, ends, aborting, alive, untold>>

\* The failed generator is dropped, under no lock.
DropGenerator ==
  /\ thread.at = "broken"
  /\ gen' = None
  /\ thread' = At("failed")
  /\ UNCHANGED <<serving, ends, aborting, alive, untold, faults>>

\* Bug: the attempt is not counted.
BugAgain(r) == [req[r] EXCEPT !.status = "waiting", !.made = 0]

\* A running request whose step failed starts again.
Again(r) == [req[r] EXCEPT !.status = "waiting", !.made = 0, !.retries = @ + 1]

\* What running requests become after a failed step: those with retries left
\* go back to the front of the queue, one before the other.
Recover ==
  /\ thread.at = "failed" /\ LoopFree
  /\ LET again == Only(running, {r \in Requests : req[r].retries < MaxRetries})
         over == Without(running, ToSet(again))
         told == Only(over, known)
     IN  /\ waiting' = Reverse(again) \o waiting
         /\ req' = [r \in Requests |->
              IF r \in ToSet(again)
              THEN Again(r)
              ELSE IF r \in ToSet(over) THEN NewReq ELSE req[r]]
         /\ known' = known \ ToSet(over)
         /\ thread' = [at |-> "done",
                       outs |-> [i \in DOMAIN told |-> Out(told[i], None, "error")]]
  /\ running' = << >> /\ uid' = NoUids
  /\ UNCHANGED <<stops, gen, ends, aborting, alive, untold, faults>>

-----------------------------------------------------------------------------
\* Who a response belongs to, None for one that was aborted meanwhile.
Owner(o) ==
  IF \E r \in ToSet(running) : uid[r] = o.uid
  THEN CHOOSE r \in ToSet(running) : uid[r] = o.uid ELSE None

\* _process_batch_responses: the outputs, where those of cut end on a stop
\* string.
Outputs(cut) ==
  LET mine == Only(thread.outs, {o \in ToSet(thread.outs) : Owner(o) # None})
      fin(o) == IF o.fin = "none" /\ Owner(o) \in cut THEN "stop" ELSE o.fin
  IN  [i \in DOMAIN mine |->
         LET r == Owner(mine[i])
         IN  Out(r, <<req[r].retries, req[r].made + 1>>, fin(mine[i]))]

\* The stop tokens _cleanup_finished takes out of the generator's set.
Removable(fins, r) ==
  req[r].added \ (stops \cup UNION {req[s].added : s \in ToSet(running) \ fins})

\* Bug: the finished request keeps its place among the running ones.
BugCleanup(fins) ==
  /\ uid' = [r \in Requests |-> IF r \in fins THEN None ELSE uid[r]]
  /\ known' = known \ fins
  /\ UNCHANGED running

\* _cleanup_finished.
Cleanup(fins) ==
  /\ running' = Without(running, fins)
  /\ uid' = [r \in Requests |-> IF r \in fins THEN None ELSE uid[r]]
  /\ known' = known \ fins

\* The end of a step under _queue_lock.
Process ==
  /\ thread.at = "resp" /\ LoopFree
  /\ \E cut \in SUBSET ToSet(running) :
       LET outs == Outputs(cut)
           fins == {outs[i].req : i \in {j \in DOMAIN outs : outs[j].fin # "none"}}
           dead == UNION {Removable(fins, r) : r \in fins}
       IN  /\ req' = [r \in Requests |->
                        IF r \in fins THEN NewReq
                        ELSE IF \E i \in DOMAIN outs : outs[i].req = r
                        THEN [req[r] EXCEPT !.made = @ + 1] ELSE req[r]]
           /\ gen' = IF gen = None THEN None
                     ELSE LET g == Drop(gen, {uid[r] : r \in cut \cap fins})
                          IN  IF g.shared THEN g ELSE [g EXCEPT !.own = @ \ dead]
           /\ stops' = IF gen # None /\ gen.shared THEN stops \ dead ELSE stops
           /\ thread' = [at |-> "done", outs |-> outs]
           /\ Cleanup(fins)
  /\ UNCHANGED <<waiting, ends, aborting, alive, untold, faults>>

\* It raises (a detokenizer or a cache does).
ProcessRaises ==
  /\ thread.at = "resp" /\ LoopFree
  /\ Fault("process")
  /\ thread' = At("raised")
  /\ UNCHANGED <<serving, gen, ends, aborting, alive, untold>>

\* What the queues hold after the outputs outs.
Dispatching(outs) ==
  LET after[n \in 0 .. Len(outs)] ==
        IF n = 0 THEN queue
        ELSE [after[n - 1] EXCEPT ![outs[n].req] = Dispatched(@, outs[n])]
  IN  after[Len(outs)]

\* The loop dispatches the outputs of the step, unless it was stopped.
Dispatch ==
  /\ thread.at = "done" /\ LoopFree
  /\ thread' = Idle
  /\ queue' = IF alive THEN Dispatching(thread.outs) ELSE queue
  /\ UNCHANGED <<serving, gen, client, last, aborting, alive, untold, faults>>

\* Bug: the requests that wait are cleared without a word.
BugTell(lost) ==
  queue' = [r \in Requests |->
              IF r \in ToSet(running) THEN Failed(queue[r], r) ELSE queue[r]]

\* _fail_all_requests tells everybody.
Tell(lost) ==
  queue' = [r \in Requests |-> IF r \in lost THEN Failed(queue[r], r) ELSE queue[r]]

\* The loop sees the exception of a step.
FailAll ==
  /\ thread.at = "raised" /\ LoopFree
  /\ thread' = Idle
  /\ IF alive
     THEN LET lost == ToSet(running \o waiting)
          IN  /\ Tell(lost)
              /\ known' = known \ lost
              /\ waiting' = << >> /\ running' = << >>
              /\ uid' = [r \in Requests |-> IF r \in lost THEN None ELSE uid[r]]
              /\ req' = [r \in Requests |-> IF r \in lost
                           THEN NewReq ELSE req[r]]
              /\ gen' = None
     ELSE UNCHANGED <<queue, known, waiting, running, uid, req, gen>>
  /\ UNCHANGED <<stops, client, last, aborting, alive, untold, faults>>

-----------------------------------------------------------------------------
Step == \/ StartStep \/ Schedule \/ CreateFails \/ NextTokens \/ NextRaises
        \/ DropGenerator \/ Recover \/ Process \/ ProcessRaises
        \/ Dispatch \/ FailAll

Client(r) ==
  \/ Add(r) \/ Get(r) \/ Leave(r) \/ Cancel(r)

Next == Step \/ AbortResumes \/ Reset \/ Stop \/ \E r \in Requests : Client(r)

\* Weak fairness of Step, AbortResumes and Get: the event loop and the thread
\* go on, and a consumer reads its queue.  It is written with what enables them
\* and what only they change, in place of ENABLED and the actions.
CanStep == LoopFree /\ (thread.at # "idle" \/ (alive /\ HasRequests))
CanGet(r) == LoopFree /\ Reading(r) /\ queue[r] # << >>

Fairness ==
  /\ <>[]CanStep => []<><<TRUE>>_thread
  /\ <>[](aborting # None) => []<><<TRUE>>_aborting
  /\ \A r \in Requests : <>[]CanGet(r) => []<><<TRUE>>_<<last[r], client[r]>>

Spec == Init /\ [][Next]_vars
FairSpec == Spec /\ Fairness

-----------------------------------------------------------------------------
(***************************************************************************)
(* Properties.                                                             *)
(***************************************************************************)
Phases == {"idle", "start", "gen", "resp", "broken", "failed", "done", "raised"}

\* The types of the variables.
TypeOK ==
  /\ known \subseteq Requests /\ untold \subseteq Requests
  /\ waiting \in Seq(Requests) /\ running \in Seq(Requests)
  /\ uid \in [Requests -> Nat \cup {None}]
  /\ thread.at \in Phases
  /\ aborting \in Requests \cup {None}
  /\ \A r \in Requests : queue[r] # None => Len(queue[r]) <= QueueCap
  /\ client \in [Requests -> {"none", "stream", "generate", "gone", "ghost"}]

\* A request is queued or running, once; the uid of a running request leads to
\* its own row of the generator, and every row of the generator is that of a
\* running request.  Nothing of a request that left the tables stays behind.
Rows == IF gen = None THEN << >> ELSE gen.pend \o gen.batch

UidsAgree ==
  /\ TypeOK
  /\ IsInjective(waiting \o running)
  /\ \A r \in Requests : uid[r] # None => r \in ToSet(running)
  /\ \A i, j \in DOMAIN Rows : Rows[i].uid = Rows[j].uid => i = j
  /\ \A i \in DOMAIN Rows : uid[Rows[i].req] = Rows[i].uid

\* r's consumer is told that this is the end, or is about to be.
Told(r) ==
  \/ queue[r] # None /\ \E i \in DOMAIN queue[r] :
        queue[r][i] = None \/ queue[r][i].fin # "none"
  \/ thread.at = "done" /\ \E i \in DOMAIN thread.outs :
        thread.outs[i].req = r /\ thread.outs[i].fin # "none"

\* Whoever waits for a request waits for one that is queued or running, or is
\* told; and what runs has a consumer, unless that one left before it ran.
ConsumersServed ==
  \A r \in Requests \ untold :
    /\ Reading(r) /\ alive /\ aborting # r =>
         r \in ToSet(waiting \o running) \/ Told(r)
    /\ r \in ToSet(running) => Reading(r) \/ client[r] = "ghost" \/ aborting = r

\* A consumer gets the tokens of its own request, of each attempt in order and
\* none twice, and nothing after the end.
Later(a, b) == a[1] < b[1] \/ (a[1] = b[1] /\ a[2] < b[2])

Pipeline(r) ==
  (IF last[r] = None THEN << >> ELSE <<last[r]>>)
    \o (IF queue[r] = None THEN << >>
        ELSE Without(queue[r], {None}))

InOrder ==
  \A r \in Requests : \A i \in DOMAIN Pipeline(r) :
    LET o == Pipeline(r)[i]
    IN  /\ o.req = r
        /\ i < Len(Pipeline(r)) => o.fin = "none"
        /\ o.tok # None => \A j \in 1 .. i - 1 : Later(Pipeline(r)[j].tok, o.tok)

\* After finitely many faults every consumer returns, as long as the scheduler
\* is not stopped.
NobodyHangs ==
  \A r \in Requests : Reading(r) ~> ~ Reading(r) \/ ~ alive \/ r \in untold
=============================================================================
