----------------------------- MODULE SimpleEngine -----------------------------
(***************************************************************************)
(* SimpleEngine (vmlx_engine/engine/simple.py) behind the server of        *)
(* ServerSleep: requests that stream or wait for an answer, one at a time  *)
(* under _generation_lock, the flag with which the cancel endpoints stop a *)
(* stream, and the clients that go away.                                   *)
(*                                                                         *)
(* The model computes in a worker thread that a request waits for.  A      *)
(* request that is cancelled while it waits, because its client is gone or *)
(* its timeout is over, leaves the thread behind: asyncio cannot stop it.  *)
(***************************************************************************)
EXTENDS ServerSleep, Lists

CONSTANTS
  Modalities,  \* the values of _is_mllm to consider
  MaxChunks    \* bound on the tokens of a stream

ASSUME SimpleAssumption == Modalities \subseteq BOOLEAN /\ MaxChunks \in Nat

VARIABLES
  mllm,        \* _is_mllm
  lane,        \* of each engine object: the queue at its lock, whose head holds
               \* it, _abort_requested and _current_request_id
  chat         \* of each call: stream or generate, the tokens it has got, how
               \* it ended, and the call that a cancel is for

vars == <<svars, mllm, lane, chat>>

FreshLane == [queue |-> << >>, abort |-> FALSE, current |-> None]
NoChat == [mode |-> "none", n |-> 0, end |-> "none", target |-> None]

Init ==
  /\ SleepInit
  /\ mllm \in Modalities
  /\ lane = [e \in EngineIds |-> FreshLane]
  /\ chat = [c \in Calls |-> NoChat]

Eng(c) == call[c].eng
MyLane(c) == lane[Eng(c)]
Streams(c) == chat[c].mode = "stream"

\* Only the calls, the engines in memory and this module's variables change.
SleepUnchanged ==
  UNCHANGED <<batching, standby, lock, engine, made, native, error, limit, saved>>

-----------------------------------------------------------------------------
\* Bug: a flag that was set for an earlier request stays set.
BugMarked(l, c) == [l EXCEPT !.current = c]

\* The start of a stream.
Marked(l, c) == [l EXCEPT !.abort = FALSE, !.current = c]

\* generate, stream_generate or stream_chat up to the first await: the engine
\* is started if need be.  A stream of a multimodal model marks itself as the
\* current one before it has the lock.
Enter(c, mode) ==
  LET l == MyLane(c)
      free == l.queue = << >>
      q == [l EXCEPT !.queue = Append(@, c)]
  IN  /\ At(c, "use") /\ ~ batching
      /\ lane' = [lane EXCEPT ![Eng(c)] =
                    IF mode = "stream" /\ (free \/ mllm) THEN Marked(q, c) ELSE q]
      /\ chat' = [chat EXCEPT ![c].mode = mode]
      /\ Goto(c, IF free THEN "thread" ELSE "waiting")
      /\ loaded' = loaded \cup {Eng(c)}
      /\ SleepUnchanged /\ UNCHANGED mllm

\* Bug: the end of a request does not hand the lock on.
BugReleased(l, c) == l

\* The end of the block that holds the lock, or of the wait for it.
Released(l, c) == [l EXCEPT !.queue = Without(@, {c})]

\* A call ends, for the server and for the engine.
End(c, l, how) ==
  /\ lane' = [lane EXCEPT ![Eng(c)] = Released(l, c)]
  /\ chat' = [chat EXCEPT ![c].end = how]
  /\ call' = [call EXCEPT ![c].pc = "done", ![c].eng = None]
  /\ SleepUnchanged /\ UNCHANGED mllm
  /\ loaded' = Kept(loaded)

\* The lock is handed to the next request.  A model that a deep sleep has
\* taken away meanwhile makes it fail.
Acquire(c) ==
  LET l == MyLane(c)
      begun == IF Streams(c) /\ ~ mllm THEN Marked(l, c) ELSE l
  IN  /\ At(c, "waiting") /\ l.queue # << >> /\ Head(l.queue) = c
      /\ IF Eng(c) \in loaded
         THEN /\ lane' = [lane EXCEPT ![Eng(c)] = begun]
              /\ Goto(c, "thread")
              /\ SleepUnchanged /\ UNCHANGED <<mllm, loaded, chat>>
         ELSE End(c, begun, "error")

\* The thread has made a token for a stream that nobody has stopped.
Token(c) ==
  /\ At(c, "thread") /\ Streams(c) /\ ~ MyLane(c).abort
  /\ chat[c].n < MaxChunks
  /\ chat' = [chat EXCEPT ![c].n = @ + 1]
  /\ SleepUnchanged /\ UNCHANGED <<loaded, call, mllm, lane>>

\* It has, but the flag is set: the token is dropped.  Only the stream of a
\* text model ends with the reset of the current id.
Aborted(c) ==
  /\ At(c, "thread") /\ Streams(c) /\ MyLane(c).abort
  /\ End(c, [MyLane(c) EXCEPT !.abort = FALSE,
                              !.current = IF mllm THEN @ ELSE None], "abort")

\* The model has come to an end.
Ends(c) ==
  /\ At(c, "thread")
  /\ End(c, [MyLane(c) EXCEPT !.current = IF Streams(c) THEN None ELSE @], "stop")

\* The model raises; the current id stays.
Raises(c) ==
  /\ At(c, "thread")
  /\ End(c, MyLane(c), "error")

\* A client goes away, or the timeout of its request is over.  The lock is
\* released; a thread that computes goes on.
Leave(c, computes) ==
  /\ At(c, "waiting") \/ At(c, "thread")
  /\ computes => At(c, "thread")
  /\ IF computes
     THEN /\ lane' = [lane EXCEPT ![Eng(c)] = Released(MyLane(c), c)]
          /\ chat' = [chat EXCEPT ![c].end = "left"]
          /\ Goto(c, "orphan")
          /\ SleepUnchanged /\ UNCHANGED <<mllm, loaded>>
     ELSE End(c, MyLane(c), "left")

\* The thread that was left behind is done.
OrphanEnds(c) ==
  /\ At(c, "orphan")
  /\ call' = [call EXCEPT ![c].pc = "done", ![c].eng = None]
  /\ SleepUnchanged /\ UNCHANGED <<mllm, lane, chat>>
  /\ loaded' = Kept(loaded)

\* abort_request takes an id that is the current one, or any if there is none.
Matches(l, d) == l.current \in {None, d}

\* A cancel endpoint is called with the id of d.
Cancel(c, d) ==
  /\ At(c, "none") /\ "cancel" \in Kinds /\ call[d].kind = "infer"
  /\ call' = [call EXCEPT ![c] = [kind |-> "cancel", pc |-> "done", eng |-> None]]
  /\ chat' = [chat EXCEPT ![c].target = d]
  /\ lane' = IF engine # None /\ ~ batching /\ Matches(lane[engine], d)
             THEN [lane EXCEPT ![engine].abort = TRUE] ELSE lane
  /\ SleepUnchanged /\ UNCHANGED <<mllm, loaded>>

-----------------------------------------------------------------------------
Proceed(c) ==
  \/ SleepStep(c) /\ UNCHANGED <<mllm, lane, chat>>
  \/ LoadWire(c) /\ UNCHANGED <<batching, mllm, lane, chat>>
  \/ \E mode \in {"stream", "generate"} : Enter(c, mode)
  \/ Acquire(c) \/ Token(c) \/ Aborted(c) \/ Ends(c) \/ Raises(c) \/ OrphanEnds(c)

Environment(c) ==
  \/ \E kind \in Kinds \ {"cancel"} :
       Arrive(c, kind) /\ UNCHANGED <<batching, native, mllm, lane, chat>>
  \/ \E d \in Calls : Cancel(c, d)
  \/ \E computes \in BOOLEAN : Leave(c, computes)

Next == \E c \in Calls : Proceed(c) \/ Environment(c)

\* Tasks and threads that can run do; a load, a stop and a generation end.
Spec == Init /\ [][Next]_vars /\ \A c \in Calls : WF_vars(Proceed(c))

-----------------------------------------------------------------------------
(***************************************************************************)
(* Properties.                                                             *)
(***************************************************************************)

\* The types of this module's variables.
SimpleTypeOK ==
  /\ mllm \in BOOLEAN
  /\ lane \in [EngineIds -> [queue : Seq(Calls), abort : BOOLEAN,
                             current : Calls \cup {None}]]
  /\ chat \in [Calls -> [mode : {"none", "stream", "generate"}, n : 0 .. MaxChunks,
                         end : {"none", "stop", "abort", "error", "left"},
                         target : Calls \cup {None}]]

\* One request at a time works with the model, and a stream of a text model
\* that ends as aborted was cancelled itself: a cancel that comes too late, or
\* before a request has the lock, does not stop another's.
OwnAbort ==
  /\ SimpleTypeOK
  /\ \A c, d \in Calls :
       At(c, "thread") /\ At(d, "thread") /\ ~ batching /\ Eng(c) = Eng(d) => c = d
  /\ ~ mllm => \A d \in Calls :
       chat[d].end = "abort" => \E c \in Calls : chat[c].target = d
=============================================================================
