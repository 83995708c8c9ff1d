------------------------------- MODULE Scheduler -------------------------------
(***************************************************************************)
(* The scheduler of text models (vmlx_engine/scheduler.py): the waiting    *)
(* queue, the running requests, the maps between requests and the uids of  *)
(* the batch generator, and what happens to them when a step fails.        *)
(*                                                                         *)
(* The scheduler's methods are called by one thread and never wait, so     *)
(* each is one action.  The batch generator is a library class: it hands   *)
(* out uids, advances every uid by one token per call of next, and drops   *)
(* a uid that meets a stop token or its token limit.  Prompt caches are    *)
(* the subject of BlockAwareCache; a request starts at its prompt here.    *)
(* With prompt lookup decoding (NumDrafts > 0) the scheduler may take a    *)
(* request out of the generator after a token, let the model verify a few  *)
(* drafted tokens in one pass, and insert the request again.               *)
(***************************************************************************)
EXTENDS Naturals, FiniteSets, SequencesExt, Lists

CONSTANTS
  Requests,    \* request ids; each is used once
  None,
  Params,      \* Params[r]: r's temperature, top_p, ..., as one value
  StopIds,     \* StopIds[r]: the stop_token_ids of r
  Eos,         \* the stop tokens of the tokenizer
  MaxNumSeqs,  \* config.max_num_seqs
  MaxTokens,   \* sampling_params.max_tokens
  MaxRetries,  \* max_retries of step
  NumDrafts,   \* _pld_num_drafts, 0 when prompt lookup decoding is off
  MaxRounds,   \* bound on the rounds of drafts a generator sees
  Hybrids,     \* _is_hybrid: the kinds of model to consider
  FaultKinds,  \* the faults of the library that may happen:
               \*   "cache":  next() fails in a way step retries,
               \*   "fatal":  next() fails otherwise,
               \*   "insert": insert() fails, "create": the constructor does,
               \*   "remove": remove() does, "verify": the pass over drafts
  MaxFaults    \* bound on their number

VARIABLES
  sch,         \* the scheduler
  faults       \* faults so far

ASSUME SchedulerAssumption ==
  /\ None \notin Requests \cup Nat /\ IsFiniteSet(Requests)
  /\ MaxNumSeqs \in Nat \ {0} /\ MaxTokens \in Nat \ {0}
  /\ MaxRetries \in Nat /\ MaxFaults \in Nat
  /\ NumDrafts \in Nat /\ MaxRounds \in Nat /\ Hybrids \subseteq BOOLEAN
  /\ DOMAIN Params = Requests /\ DOMAIN StopIds = Requests
  /\ FaultKinds \subseteq
       {"cache", "fatal", "insert", "create", "remove", "verify"}

\* A generator counts its uids from 0; it sees a request once, and again
\* after each round of drafts.
Uids == 0 .. Cardinality(Requests) + MaxRounds - 1

\* left[u] is the number of tokens that the generator will still make for u,
\* 0 for a uid it does not have.  A stray uid is one that goes on without a
\* request.
NoGenerator ==
  [live |-> FALSE, params |-> None, stops |-> {},
   left |-> [u \in Uids |-> 0], next |-> 0, rounds |-> 0, stray |-> {}]

\* _create_batch_generator for the request that asks for it.
NewGenerator(r) ==
  [NoGenerator EXCEPT !.live = TRUE, !.params = Params[r],
                      !.stops = Eos \cup StopIds[r]]

NoUids == [r \in Requests |-> None]

EmptyScheduler ==
  [waiting |-> << >>,                        \* request ids in order
   running |-> << >>,                        \* in the order of the dict
   known   |-> {},                           \* the keys of requests
   uid     |-> NoUids,                       \* request_id_to_uid
   owner   |-> [u \in Uids |-> None],        \* uid_to_request_id
   gen     |-> NoGenerator,                  \* batch_generator
   made    |-> [r \in Requests |-> 0],       \* num_output_tokens
   cached  |-> [r \in Requests |-> 0],       \* output tokens in r's KV cache
   fed     |-> [r \in Requests |-> 0],       \* ... that insert was given
   hurt    |-> {},                           \* inserted again in an emergency
   hybrid  |-> FALSE,                        \* _is_hybrid
   added   |-> [r \in Requests |-> {}]]      \* _added_stop_tokens

Queued(s) == ToSet(s.waiting)
Active(s) == ToSet(s.running)
Working(s) == {u \in Uids : s.gen.left[u] > 0}
HasRequests(s) == s.waiting # << >> \/ s.running # << >>

\* A step can change something: schedule a request or make a token.
CanStep(s) ==
  \/ s.waiting # << >> /\ Len(s.running) < MaxNumSeqs
  \/ \E r \in Active(s) : s.uid[r] \in Working(s)

\* reset: everything is aborted and cleared; the requests themselves keep
\* what they know.
ResetAll(s) ==
  [EmptyScheduler EXCEPT !.made = s.made, !.added = s.added,
                         !.cached = s.cached, !.hybrid = s.hybrid]

\* Stop tokens that the requests which stay in running still need.
StillNeeded(s, leaving) == UNION {s.added[q] : q \in Active(s) \ leaving}

-----------------------------------------------------------------------------
\* The end of add_request.
Enqueue(s, r) ==
  [s EXCEPT !.known = @ \cup {r}, !.waiting = Append(@, r)]

\* Bug: a request that is running keeps its uid.
BugAbort(s, r, broken) ==
  IF r \notin s.known THEN s
  ELSE [s EXCEPT !.known = @ \ {r}, !.waiting = Without(@, {r}),
                 !.running = Without(@, {r})]

\* abort_request.  When the generator's remove raises (broken) the call ends
\* there: the request is no longer known but still runs.
Abort(s, r, broken) ==
  LET u == s.uid[r]
      gone == s.added[r] \ StillNeeded(s, {r})
      head == [s EXCEPT !.known = @ \ {r}, !.waiting = Without(@, {r}),
                        !.gen.stops = @ \ gone]
  IN  IF r \notin s.known THEN s
      ELSE IF u = None THEN [head EXCEPT !.running = Without(@, {r})]
      ELSE IF broken THEN head
      ELSE [head EXCEPT !.gen.left[u] = 0, !.uid[r] = None,
                        !.owner[u] = None, !.running = Without(@, {r})]

\* _ensure_batch_generator: a generator with other parameters is replaced
\* only while nothing runs.
Ensure(s, r) ==
  IF s.gen.live /\ (s.gen.params = Params[r] \/ s.running # << >>)
  THEN s.gen ELSE NewGenerator(r)

\* Bug: a request that cannot be inserted goes to the end of the queue and
\* scheduling goes on.
BugPutBack(st, r) == [st EXCEPT !.s.waiting = Append(Tail(@), r)]

\* insert failed: the request stays at the head and scheduling ends.
PutBack(st, r) == [st EXCEPT !.stop = TRUE]

\* insert gives the request at the head of the queue a uid of generator g.
Insert(s, r, g) ==
  [s EXCEPT !.waiting = Tail(@), !.running = Append(@, r),
            !.uid[r] = g.next, !.owner[g.next] = r,
            !.gen = [g EXCEPT !.left[g.next] = MaxTokens, !.next = @ + 1,
                              !.stops = @ \cup StopIds[r]],
            !.added[r] = StopIds[r]]

\* A round of _schedule_waiting.  The requests in bad cannot be inserted,
\* with or without a cache.
ScheduleOne(st, bad) ==
  LET s == st.s
      r == Head(s.waiting)
      g == Ensure(s, r)
  IN  IF st.stop \/ s.waiting = << >> \/ Len(s.running) >= MaxNumSeqs
      THEN [st EXCEPT !.stop = TRUE]
      ELSE IF r \in bad THEN PutBack([st EXCEPT !.s.gen = g], r)
      ELSE [st EXCEPT !.s = Insert(s, r, g)]

\* _schedule_waiting.
ScheduleWaiting(s, bad) ==
  LET after[n \in 0 .. Len(s.waiting)] ==
        IF n = 0 THEN [s |-> s, stop |-> FALSE]
        ELSE ScheduleOne(after[n - 1], bad)
  IN  after[Len(s.waiting)].s

\* _recover_from_cache_error.
Recover(s) ==
  [s EXCEPT !.gen = NoGenerator, !.uid = NoUids,
            !.owner = [u \in Uids |-> None]]

\* _reschedule_running_requests: one after the other to the front, to start
\* again from the prompt.
Reschedule(s) ==
  LET zero(f) == [r \in Requests |-> IF r \in Active(s) THEN 0 ELSE f[r]]
  IN  [s EXCEPT !.waiting = Reverse(s.running) \o @, !.running = << >>,
                !.made = zero(@), !.cached = zero(@), !.fed = zero(@),
                !.hurt = @ \ Active(s)]

\* What step does after a failure that it retries.
Retry(s, bad) == ScheduleWaiting(Reschedule(Recover(s)), bad)

\* The requests that get a token from next(), in the order of running.
Responding(s) == Only(s.running, {r \in Requests : s.uid[r] \in Working(s)})

\* Why a request ends with the token that next() makes for it: it meets a
\* stop token, or the last one of its count.
EndsWith(s, r, ending) ==
  IF r \in ending THEN "stop"
  ELSE IF s.gen.left[s.uid[r]] = 1 THEN "length" ELSE "none"

\* next() and the append of its tokens to the requests.  The token goes into
\* the cache at once, after one that insert was given.
Advance(s, ending) ==
  LET now == ToSet(Responding(s))
      plus(f, g) == [r \in Requests |-> IF r \in now THEN f[r] + g[r] + 1
                                                    ELSE f[r]]
      none == [r \in Requests |-> 0]
  IN  [s EXCEPT
         !.made = plus(@, none), !.cached = plus(@, s.fed),
         !.fed = [r \in Requests |-> IF r \in now THEN 0 ELSE @[r]],
         !.gen.left = [u \in Uids |->
            IF @[u] = 0 \/ s.owner[u] \in ending THEN 0 ELSE @[u] - 1],
         !.gen.stray = {u \in @ : s.gen.left[u] > 1}]

-----------------------------------------------------------------------------
\* Prompt lookup decoding.

\* A round of drafts for req: k tokens are drafted and the first a of them
\* accepted; the tokens that this gives the request hold a stop token at
\* place cut, or a stop string; or the pass fails, before or after it has
\* changed the cache.
Rounds ==
  {d \in [req  : Requests, k : 1 .. NumDrafts, a : 0 .. NumDrafts,
          ends : {"no", "string", "token", "fails"}, cut : 0 .. NumDrafts + 1] :
     /\ d.a <= d.k
     /\ d.ends = "token" => d.cut \in 1 .. d.a + 1
     /\ d.ends \in {"no", "string"} => d.cut = 0
     /\ d.ends = "fails" => d.a = 0 /\ d.cut \in {0, 1}}

NoRound == [req |-> None, ends |-> "no"]

Remaining(s, r) == MaxTokens - s.made[r]

\* Bug: a hybrid model's other layers are trimmed like those of the rest.
BugTrimmed(s, d) == d.k - d.a

\* The places that the cache is set back by after the pass: an array cache
\* cannot be trimmed, so a hybrid model goes back to where it was.
Trimmed(s, d) ==
  IF d.a = d.k THEN 0 ELSE IF s.hybrid THEN d.k ELSE d.k - d.a

\* The tokens that the round gives: the accepted ones that stay and a bonus.
Given(s, d) ==
  IF d.a < d.k /\ s.hybrid THEN 1 ELSE d.a + 1

\* _try_speculative_decode takes the request out of the generator and inserts
\* it again with one token to process.
Reinsert(s, r, cached, left) ==
  LET u == s.uid[r]
      v == s.gen.next
  IN  [s EXCEPT !.gen.left = [@ EXCEPT ![u] = 0, ![v] = left],
                !.gen.next = @ + 1, !.gen.rounds = @ + 1,
                !.owner = [@ EXCEPT ![u] = None, ![v] = r],
                !.uid[r] = v, !.cached[r] = cached, !.fed[r] = 1]

AtLeastOne(n) == IF n < 1 THEN 1 ELSE n

\* The round, and the tokens up to a stop token given to the request.  After
\* a failure the token that is in the cache already is inserted again.
Speculate(s, d) ==
  LET r == d.req
      n == s.made[r]
  IN  IF d.ends = "fails"
      THEN [Reinsert(s, r, n + (IF d.cut = 1 THEN d.k ELSE 0),
                     AtLeastOne(Remaining(s, r) - 1))
              EXCEPT !.hurt = @ \cup {r}]
      ELSE [Reinsert(s, r, n + d.k - Trimmed(s, d),
                     AtLeastOne(Remaining(s, r) - Given(s, d)))
              EXCEPT !.made[r] = n + (IF d.ends = "token" THEN d.cut - 1
                                      ELSE Given(s, d))]

\* A stop string ends the request's work in the generator; a stop token among
\* the given ones does not: the uid goes on without a request.
EndRound(s, d) ==
  LET u == s.uid[d.req]
  IN  IF d.ends = "string" THEN [s EXCEPT !.gen.left[u] = 0]
      ELSE IF d.ends = "token" THEN [s EXCEPT !.gen.stray = @ \cup {u}]
      ELSE s

\* There is such a round after the token that next() made.
MayRound(s, d) ==
  /\ d.req \in Active(s) /\ s.uid[d.req] \in Working(s)
  /\ Remaining(s, d.req) > 1 /\ d.k <= Remaining(s, d.req) - 1
  /\ d.ends = "token" => d.cut <= Given(s, d)
  /\ s.gen.rounds < MaxRounds

-----------------------------------------------------------------------------
\* _cleanup_finished.
Cleanup(s, done) ==
  [s EXCEPT
     !.gen.stops = @ \ (((UNION {s.added[r] : r \in done})
                            \ StillNeeded(s, done)) \ Eos),
     !.known = @ \ done,
     !.running = Without(@, done),
     !.uid = [r \in Requests |-> IF r \in done THEN None ELSE @[r]],
     !.owner = [u \in Uids |-> IF @[u] \in done THEN None ELSE @[u]]]

\* What happens to the responses of next(): one output per request.
Generate(s, ending, d) ==
  LET told == Advance(s, ending)
      spec == IF d.req # None /\ MayRound(told, d)
              THEN EndRound(Speculate(told, d), d) ELSE told
      stopped(r) == r = d.req /\ spec # told /\ d.ends \in {"string", "token"}
      outs == [i \in 1 .. Len(Responding(s)) |->
                 LET r == Responding(s)[i]
                 IN  [req |-> r, tok |-> spec.made[r],
                      finish |-> IF stopped(r) THEN "stop"
                                 ELSE EndsWith(s, r, ending)]]
      done == {o.req : o \in {x \in ToSet(outs) : x.finish # "none"}}
  IN  [s |-> Cleanup(spec, done), outs |-> outs, raised |-> FALSE]

\* How a step may go: failures of next() in a row, one that is not retried,
\* requests that cannot be inserted, a generator that cannot be created.
Mishaps ==
  {m \in [cache  : IF "cache" \in FaultKinds THEN 0 .. MaxRetries + 1 ELSE {0},
          fatal  : IF "fatal" \in FaultKinds THEN BOOLEAN ELSE {FALSE},
          create : IF "create" \in FaultKinds THEN BOOLEAN ELSE {FALSE},
          bad    : IF "insert" \in FaultKinds THEN SUBSET Requests ELSE {{}}] :
     /\ m.fatal => m.cache <= MaxRetries
     /\ m.create => m.cache = 0 /\ ~ m.fatal /\ m.bad = {}}

Weight(m) == m.cache + (IF m.fatal THEN 1 ELSE 0)
               + (IF m.create THEN 1 ELSE 0) + Cardinality(m.bad)

\* The head of the queue needs a generator that does not exist yet.
WouldCreate(s) ==
  /\ s.waiting # << >> /\ Len(s.running) < MaxNumSeqs
  /\ Ensure(s, Head(s.waiting)) # s.gen

\* step.  A failed constructor raises when the request has left the queue.
Step(s, m, ending, d) ==
  LET first == ScheduleWaiting(s, m.bad)
      last[i \in 0 .. MaxRetries + 1] ==
        IF i = 0 THEN first ELSE Retry(last[i - 1], m.bad)
  IN  IF m.create
      THEN [s |-> [s EXCEPT !.waiting = Tail(@)], outs |-> << >>,
            raised |-> TRUE]
      ELSE IF ~ first.gen.live \/ first.running = << >>
      THEN [s |-> first, outs |-> << >>, raised |-> FALSE]
      ELSE IF m.cache > MaxRetries
      THEN [s |-> last[MaxRetries], outs |-> << >>, raised |-> TRUE]
      ELSE IF m.fatal
      THEN [s |-> last[m.cache], outs |-> << >>, raised |-> TRUE]
      ELSE Generate(last[m.cache], ending, d)

Possible(s, m) ==
  /\ faults + Weight(m) <= MaxFaults
  /\ m.create => WouldCreate(s)
  /\ m.cache > 0 \/ m.fatal =>
       LET first == ScheduleWaiting(s, m.bad)
       IN  first.gen.live /\ first.running # << >>

-----------------------------------------------------------------------------
\* The scheduler with a caller that adds, steps and aborts as it likes and
\* stops after a step that raised (generate_batch_sync does).
Unused(r) == sch.made[r] = 0 /\ sch.added[r] = {} /\ r \notin sch.known

SchedulerInit ==
  /\ \E h \in Hybrids : sch = [EmptyScheduler EXCEPT !.hybrid = h]
  /\ faults = 0

AddOne(r) ==
  /\ Unused(r)
  /\ sch' = Enqueue(sch, r)
  /\ UNCHANGED faults

AbortOne(r) ==
  /\ r \in sch.known
  /\ sch' = Abort(sch, r, FALSE)
  /\ UNCHANGED faults

\* The rounds that may follow the token of a step without a retry.
RoundsNow(ending) ==
  {d \in Rounds : /\ d.req \in sch.known \ ending
                  /\ d.k <= Remaining(sch, d.req) - 2
                  /\ d.ends = "fails" =>
                       "verify" \in FaultKinds /\ faults < MaxFaults}

\* In a step at most one request has a round of drafts (a bound).
StepOnce ==
  /\ HasRequests(sch)
  /\ \E m \in {x \in Mishaps : ~ x.create /\ Possible(sch, x)} :
     \E ending \in SUBSET Active(ScheduleWaiting(sch, m.bad)) :
     \E d \in {NoRound} \cup (IF Weight(m) = 0 THEN RoundsNow(ending) ELSE {}) :
     \E res \in {Step(sch, m, ending, d)} :
       /\ ~ res.raised
       /\ sch' = res.s
       /\ faults' = faults + Weight(m)
                      + (IF d.ends = "fails" THEN 1 ELSE 0)

SchedulerNext ==
  \/ \E r \in Requests : AddOne(r) \/ AbortOne(r)
  \/ StepOnce

SchedulerSpec == SchedulerInit /\ [][SchedulerNext]_<<sch, faults>>

-----------------------------------------------------------------------------
(***************************************************************************)
(* Properties of the scheduler.                                            *)
(***************************************************************************)

\* The last token of a round may be followed by one too many.
Most == MaxTokens + (IF NumDrafts = 0 THEN 0 ELSE 1)

StopTokens == Eos \cup UNION ToSet(StopIds)

Generators ==
  [live : BOOLEAN, params : ToSet(Params) \cup {None},
   stops : SUBSET StopTokens, left : [Uids -> 0 .. MaxTokens],
   next : Nat, rounds : Nat, stray : SUBSET Uids]

Schedulers ==
  [waiting : Seq(Requests), running : Seq(Requests), known : SUBSET Requests,
   uid : [Requests -> Uids \cup {None}], owner : [Uids -> Requests \cup {None}],
   gen : Generators, made : [Requests -> 0 .. Most],
   cached : [Requests -> Nat], fed : [Requests -> {0, 1}],
   hurt : SUBSET Requests, hybrid : BOOLEAN,
   added : [Requests -> SUBSET StopTokens]]

\* The types of the scheduler's state; a request gets at most max_tokens
\* tokens, and one more with prompt lookup decoding.
SchedulerTypeOK == sch \in Schedulers /\ faults \in 0 .. MaxFaults

\* A request that is known is in exactly one of waiting and running, once.
NoneLost ==
  /\ IsInjective(sch.waiting) /\ IsInjective(sch.running)
  /\ Queued(sch) \cap Active(sch) = {}
  /\ sch.known = Queued(sch) \cup Active(sch)

\* No request is lost, the two maps are inverse to each other and the generator
\* works for the running requests, and for nobody else but uids whose request
\* met a stop token among drafted tokens, across aborts, failed inserts, rounds
\* of drafts and generators that are thrown away.
UidsAgree ==
  /\ SchedulerTypeOK /\ NoneLost
  /\ \A r \in Requests : sch.uid[r] # None <=> r \in Active(sch)
  /\ \A r \in Active(sch) : sch.owner[sch.uid[r]] = r
  /\ \A u \in Uids : sch.owner[u] # None => sch.uid[sch.owner[u]] = u
  /\ Working(sch) = {sch.uid[r] : r \in Active(sch)} \cup sch.gen.stray
  /\ \A u \in sch.gen.stray : sch.owner[u] = None

\* The generator goes on from the last token that the request was given: its
\* cache and the token it is to process are the request's tokens, however
\* many drafts were accepted, unless the request was inserted in an emergency.
\* And the stop tokens a running request asked for are in effect, whoever else
\* that used them has left.
InSync ==
  \A r \in Active(sch) :
    /\ r \notin sch.hurt => sch.cached[r] + sch.fed[r] = sch.made[r]
    /\ StopIds[r] \subseteq sch.gen.stops

\* A request does not start before one that is in front of it in the queue.
NoOvertaking ==
  [][\A i, j \in 1 .. Len(sch.waiting) :
       i < j /\ sch'.uid[sch.waiting[j]] # None =>
         sch.waiting[i] \notin ToSet(sch'.waiting)]_<<sch, faults>>
=============================================================================
