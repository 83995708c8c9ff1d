-------------------------------- MODULE Mcp --------------------------------
(***************************************************************************)
(* The clients of tool servers: MCPClient (mcp/client.py), their manager   *)
(* (mcp/manager.py), and ToolExecutor with its sandbox (mcp/executor.py,   *)
(* mcp/security.py).  Every await is a step of its own: entering and       *)
(* leaving a transport and a session, the first exchange, listing the      *)
(* tools, and a call.  A server may answer, fail or stay silent at each.   *)
(* Names of tools hold no "__"; arguments and contents are left out.       *)
(***************************************************************************)
EXTENDS Integers, Sequences, FiniteSets, SequencesExt

CONSTANTS Servers,     \* in the order of the configuration
          Enabled,     \* the servers whose configuration enables them
          Offers,      \* the tools of each server
          Batches,     \* the requests: [mode, calls]
          MaxParallel, \* ToolExecutor.max_parallel
          PerMinute,   \* ToolSandbox.max_calls_per_minute
          MaxOps       \* starts, stops, reconnects and refreshes of a behaviour

ASSUME ServersAssumption ==
  /\ Servers \in Seq(ToSet(Servers)) /\ IsInjective(Servers)
  /\ Enabled \subseteq ToSet(Servers)
ASSUME BoundsAssumption == {MaxParallel, PerMinute, MaxOps} \subseteq Nat \ {0}
ASSUME BatchesAssumption ==
  \A r \in Batches : /\ r.mode \in {"direct", "parallel", "sequential"}
                     /\ r.calls \in Seq(ToSet(r.calls))

VARIABLES client,   \* the MCPClients, with the step of the operation under way
          open,     \* transports and sessions entered and not left
          unclean,  \* the exits that failed, per server
          manager,  \* the MCPClientManager, with the operation that holds its lock
          refresh,  \* the session whose tools a refresh awaits, 0 for none
          batch,    \* the request under way
          recent,   \* the calls of this request that the sandbox let pass
          ops       \* operations so far

mcpvars == <<client, open, unclean, manager, refresh, batch, recent, ops>>
mcp  == <<client, open, unclean, manager, refresh, ops>>

S == ToSet(Servers)

NewClient == [state |-> "disconnected", step |-> "idle", after |-> "disconnected",
              attempt |-> 0, transport |-> 0, session |-> 0, tools |-> {}]

NoBatch == [phase |-> "none", mode |-> "direct", calls |-> << >>, at |-> << >>,
            session |-> << >>, answer |-> << >>, results |-> << >>, audit |-> << >>]

McpInit ==
  /\ client = [s \in S |-> NewClient]
  /\ open = {} /\ unclean = [s \in S |-> 0]
  /\ manager = [started |-> FALSE, op |-> "none", todo |-> << >>]
  /\ refresh = [s \in S |-> 0]
  /\ batch = NoBatch
  /\ recent = [k \in (S \cup {"unknown"}) \X UNION {Offers[s] : s \in S} |-> 0]
  /\ ops = 0

Connected(s) == client[s].state = "connected"
Idle == \A s \in S : client[s].step = "idle"

-----------------------------------------------------------------------------
(* One client: what an operation does to it between two awaits.            *)

Settled(c) ==
  IF c.after = "error" THEN [c EXCEPT !.step = "idle"]
  ELSE [c EXCEPT !.step = "idle", !.state = "disconnected", !.tools = {}]

\* The session is left first, then the transport.
Unwind(c) ==
  CASE c.session # 0 -> [c EXCEPT !.step = "leave_session"]
    [] c.session = 0 /\ c.transport # 0 -> [c EXCEPT !.step = "leave_transport"]
    [] OTHER -> Settled(c)

\* Mutant: a connection that fails leaves what it had opened.
BugFailed(c) == [c EXCEPT !.state = "error", !.step = "idle"]

Failed(c) == Unwind([c EXCEPT !.state = "error", !.after = "error"])

Connecting(s, c) ==
  IF c.state = "connected" \/ s \notin Enabled THEN c
  ELSE [c EXCEPT !.state = "connecting", !.step = "transport",
                 !.attempt = @ + 1, !.transport = c.attempt + 1]

Disconnecting(c) ==
  IF c.state = "disconnected" THEN c ELSE Unwind([c EXCEPT !.after = "disconnected"])

Thing(kind, s) ==
  [kind |-> kind, server |-> s,
   id |-> IF kind = "session" THEN client[s].session ELSE client[s].transport]

To(s, c) == client' = [client EXCEPT ![s] = c]

-----------------------------------------------------------------------------
(* The awaits of connect; thirty seconds are given to all of them.         *)

EnterTransport(s) ==
  /\ client[s].step = "transport"
  /\ \/ /\ To(s, [client[s] EXCEPT !.step = "session", !.session = client[s].attempt])
        /\ open' = open \cup {Thing("transport", s)}
     \/ To(s, Failed(client[s])) /\ UNCHANGED open
  /\ UNCHANGED unclean

\* On an error the transport is left at once; on a timeout connect does it.
EnterSession(s) ==
  /\ client[s].step = "session"
  /\ \/ /\ To(s, [client[s] EXCEPT !.step = "initialize"])
        /\ open' = open \cup {Thing("session", s)}
     \/ To(s, [client[s] EXCEPT !.step = "undo"]) /\ UNCHANGED open
     \/ To(s, Failed(client[s])) /\ UNCHANGED open
  /\ UNCHANGED unclean

Undo(s) ==
  /\ client[s].step = "undo"
  /\ \/ /\ open' = open \ {Thing("transport", s)}
        /\ To(s, Failed([client[s] EXCEPT !.transport = 0]))
        /\ UNCHANGED unclean
     \/ /\ To(s, Failed(client[s]))
        /\ unclean' = [unclean EXCEPT ![s] = @ + 1]
        /\ UNCHANGED open

Initialize(s) ==
  /\ client[s].step = "initialize"
  /\ \/ To(s, [client[s] EXCEPT !.step = "discover"])
     \/ To(s, Failed(client[s]))
  /\ UNCHANGED <<open, unclean>>

\* A listing that fails leaves the client connected, without tools.
Discover(s) ==
  /\ client[s].step = "discover"
  /\ \/ \E tools \in {Offers[s], {}} :
          To(s, [client[s] EXCEPT !.step = "idle", !.state = "connected", !.tools = tools])
     \/ To(s, Failed(client[s]))
  /\ UNCHANGED <<open, unclean>>

\* After an exit that fails the rest of the chain is skipped; what was to be
\* left counts as open.
Exit(kind, s, left) ==
  \/ /\ open' = open \ {Thing(kind, s)}
     /\ To(s, Unwind(left))
     /\ UNCHANGED unclean
  \/ /\ To(s, Settled(client[s]))
     /\ unclean' = [unclean EXCEPT ![s] = @ + 1]
     /\ UNCHANGED open

LeaveSession(s) ==
  /\ client[s].step = "leave_session"
  /\ Exit("session", s, [client[s] EXCEPT !.session = 0])

LeaveTransport(s) ==
  /\ client[s].step = "leave_transport"
  /\ Exit("transport", s, [client[s] EXCEPT !.transport = 0])

ClientStep(s) ==
  /\ \/ EnterTransport(s) \/ EnterSession(s) \/ Undo(s) \/ Initialize(s)
     \/ Discover(s) \/ LeaveSession(s) \/ LeaveTransport(s)
  /\ UNCHANGED <<manager, refresh, batch, recent, ops>>

-----------------------------------------------------------------------------
(* The manager.  Its lock is held from an operation's start to its end.    *)

Operation == manager.op = "none" /\ ops < MaxOps /\ ops' = ops + 1

Start ==
  /\ Operation /\ ~manager.started
  /\ client' = [s \in S |-> Connecting(s, client[s])]
  /\ manager' = [manager EXCEPT !.op = "start"]
  /\ UNCHANGED <<open, unclean, refresh, batch, recent>>

Stop ==
  /\ Operation /\ manager.started
  /\ client' = [s \in S |-> Disconnecting(client[s])]
  /\ manager' = [manager EXCEPT !.op = "stop"]
  /\ UNCHANGED <<open, unclean, refresh, batch, recent>>

Reconnect ==
  /\ Operation
  /\ \E names \in {Servers} \cup {<<s>> : s \in S} :
       manager' = [manager EXCEPT !.op = "reconnect",
                     !.todo = [i \in 1 .. 2 * Len(names) |->
                                 <<IF i % 2 = 1 THEN "disconnect" ELSE "connect",
                                   names[(i + 1) \div 2]>>]]
  /\ UNCHANGED <<client, open, unclean, refresh, batch, recent>>

\* The next disconnect or connect of a reconnect.
ReconnectNext ==
  /\ manager.todo # << >> /\ Idle
  /\ LET s == Head(manager.todo)[2]
     IN  To(s, IF Head(manager.todo)[1] = "connect" THEN Connecting(s, client[s])
               ELSE Disconnecting(client[s]))
  /\ manager' = [manager EXCEPT !.todo = Tail(@)]
  /\ UNCHANGED <<open, unclean, refresh, batch, recent, ops>>

EndOperation ==
  /\ manager.op # "none" /\ manager.todo = << >> /\ Idle
  /\ manager' = [manager EXCEPT !.op = "none",
                   !.started = CASE manager.op = "start" -> TRUE
                                 [] manager.op = "stop"  -> FALSE
                                 [] OTHER -> @]
  /\ UNCHANGED <<client, open, unclean, refresh, batch, recent, ops>>

\* refresh_tools takes no lock.
Refresh ==
  /\ ops < MaxOps /\ ops' = ops + 1
  /\ \A s \in S : refresh[s] = 0
  /\ refresh' = [s \in S |-> IF Connected(s) THEN client[s].session ELSE 0]
  /\ UNCHANGED <<client, open, unclean, manager, batch, recent>>

RefreshEnds(s) ==
  /\ refresh[s] # 0
  /\ refresh' = [refresh EXCEPT ![s] = 0]
  /\ \E tools \in {Offers[s], {}} : To(s, [client[s] EXCEPT !.tools = tools])
  /\ UNCHANGED <<open, unclean, manager, batch, recent, ops>>

-----------------------------------------------------------------------------
(* Calls.  A request is one call of the endpoint ("direct"), or a batch    *)
(* of the executor.                                                        *)

Has(s, tool) == Connected(s) /\ tool \in client[s].tools

\* The first connected server that has the tool.
FindToolServer(tool) ==
  IF \E s \in S : Has(s, tool) THEN SelectSeq(Servers, LAMBDA s : Has(s, tool))[1]
  ELSE "unknown"

ServerOf(call) == IF call.server # "" THEN call.server ELSE FindToolServer(call.tool)

Reachable(s) == s \in S /\ Connected(s) /\ client[s].session # 0

Running(b) == {i \in DOMAIN b.at : b.at[i] = "sent"}

\* The arguments do not match the schema, if the tool is known.
Invalid(call) ==
  call.kind = "invalid" /\ \E s \in S : Has(s, call.tool) /\ call.server \in {"", s}

\* The tool or its arguments are on the sandbox's lists.
Blocked(call) == call.kind = "blocked"

OverRate(call) == recent[<<ServerOf(call), call.tool>>] >= PerMinute

Refused(call) == Invalid(call) \/ Blocked(call) \/ OverRate(call)

Success(ok) == IF ok THEN "ok" ELSE "error"

\* Mutant: a failed call of a sequence is recorded and then forgotten.
BugDone(b, i, ok, audited) ==
  [b EXCEPT !.at[i] = "done", !.answer[i] = Success(ok),
            !.audit = IF audited /\ b.mode # "direct" THEN Append(@, <<i, ok>>) ELSE @,
            !.results = IF b.mode = "sequential" /\ ok
                        THEN Append(@, [id |-> i, is |-> Success(ok)]) ELSE @]

\* A call has its result: the sandbox records it.
Done(b, i, ok, audited) ==
  [b EXCEPT !.at[i] = "done", !.answer[i] = Success(ok),
            !.audit = IF audited /\ b.mode # "direct" THEN Append(@, <<i, ok>>) ELSE @,
            !.results = IF b.mode = "sequential"
                        THEN Append(@, [id |-> i, is |-> Success(ok)]) ELSE @]

\* A minute or more after the last one.
Submit ==
  /\ batch.phase # "running"
  /\ \E r \in Batches :
       batch' = [NoBatch EXCEPT !.phase = "running", !.mode = r.mode, !.calls = r.calls,
                   !.at = [i \in DOMAIN r.calls |-> "queued"],
                   !.session = [i \in DOMAIN r.calls |-> 0],
                   !.answer = [i \in DOMAIN r.calls |-> "none"]]
  /\ recent' = [k \in DOMAIN recent |-> 0]
  /\ UNCHANGED mcp

\* Calls begin in order, as many at a time as the mode permits.
MayBegin(i) ==
  /\ batch.phase = "running"
  /\ batch.at[i] = "queued" /\ \A j \in 1..(i - 1) : batch.at[j] # "queued"
  /\ Cardinality(Running(batch)) < IF batch.mode = "parallel" THEN MaxParallel ELSE 1

Refuse(i) ==
  /\ MayBegin(i) /\ batch.mode # "direct"
  /\ batch.calls[i].kind # "odd" /\ Refused(batch.calls[i])
  /\ batch' = Done(batch, i, FALSE, TRUE)
  /\ UNCHANGED <<mcp, recent>>

\* The sandbox breaks on arguments that are no object: gather turns the
\* exception into a result, a sequence is abandoned.
Raise(i) ==
  /\ MayBegin(i) /\ batch.mode # "direct" /\ batch.calls[i].kind = "odd"
  /\ batch' = IF batch.mode = "parallel" THEN Done(batch, i, FALSE, FALSE)
              ELSE [batch EXCEPT !.phase = "raised"]
  /\ UNCHANGED <<mcp, recent>>

\* execute_tool: no await between the choice of the server and the call.
Send(i) ==
  LET call == batch.calls[i]
      s    == ServerOf(call)
  IN  /\ MayBegin(i)
      /\ batch.mode = "direct" \/ (call.kind # "odd" /\ ~Refused(call))
      /\ recent' = IF batch.mode = "direct" THEN recent
                   ELSE [recent EXCEPT ![<<s, call.tool>>] = @ + 1]
      /\ batch' = IF Reachable(s)
                  THEN [batch EXCEPT !.at[i] = "sent", !.session[i] = client[s].session]
                  ELSE Done(batch, i, FALSE, TRUE)
      /\ UNCHANGED mcp

\* The server answers, with a result or an error, or its session is closed.
AnswerCall(i) ==
  /\ batch.phase = "running" /\ batch.at[i] = "sent"
  /\ \E ok \in BOOLEAN :
       /\ ok => \E x \in open : x.kind = "session" /\ x.id = batch.session[i]
       /\ batch' = Done(batch, i, ok, TRUE)
  /\ UNCHANGED <<mcp, recent>>

\* Mutant: a call without a limit of time.
BugTimeOut(i) == FALSE /\ UNCHANGED mcpvars

TimeOut(i) ==
  /\ batch.phase = "running" /\ batch.at[i] = "sent"
  /\ batch' = Done(batch, i, FALSE, TRUE)
  /\ UNCHANGED <<mcp, recent>>

Return ==
  /\ batch.phase = "running" /\ \A i \in DOMAIN batch.at : batch.at[i] = "done"
  /\ batch' = [batch EXCEPT !.phase = "returned",
                 !.results = IF batch.mode = "sequential" THEN @
                             ELSE [i \in DOMAIN batch.calls |->
                                     [id |-> i, is |-> batch.answer[i]]]]
  /\ UNCHANGED <<mcp, recent>>

-----------------------------------------------------------------------------
CallStep == \E i \in DOMAIN batch.calls : Refuse(i) \/ Raise(i) \/ Send(i) \/ TimeOut(i)

McpNext ==
  \/ \E s \in S : ClientStep(s) \/ RefreshEnds(s)
  \/ Start \/ Stop \/ Reconnect \/ ReconnectNext \/ EndOperation \/ Refresh
  \/ Submit \/ CallStep \/ (\E i \in DOMAIN batch.calls : AnswerCall(i)) \/ Return

McpSpec == McpInit /\ [][McpNext]_mcpvars

\* Connections and calls have a limit of time; leaving a session and a
\* transport has none and is assumed to end.
McpFairSpec ==
  /\ McpSpec
  /\ \A s \in S : WF_mcpvars(ClientStep(s))
  /\ WF_mcpvars(ReconnectNext) /\ WF_mcpvars(EndOperation)
  /\ WF_mcpvars(CallStep) /\ WF_mcpvars(Return)

-----------------------------------------------------------------------------
(* A connected client that is not being closed holds an open session over  *)
(* the transport of the same connection, and an open transport that no     *)
(* client holds is owed to an exit that failed: connect cleans up after    *)
(* each of its steps, and reconnect loses nothing (client.py, connect).    *)
OneConnection ==
  /\ \A s \in S : client[s].step = "idle" /\ Connected(s) =>
       /\ client[s].session = client[s].transport
       /\ {Thing("session", s), Thing("transport", s)} \subseteq open
  /\ \A s \in S :
       Cardinality({x \in open : x.kind = "transport" /\ x.server = s
                                 /\ x # Thing("transport", s)}) <= unclean[s]
  /\ \A s \in S : client[s].step = "idle" /\ ~Connected(s) /\ unclean[s] = 0 =>
       \A x \in open : x.server # s

\* The entries of the sandbox's log about a call.
Recorded(b, i) == {k \in DOMAIN b.audit : b.audit[k][1] = i}

(* A request returns one result per call, in the order of the calls, and   *)
(* the sandbox has recorded each executed call once with its outcome; what *)
(* raises in a parallel batch is an error of that call alone               *)
(* (executor.py, _execute_parallel and _execute_sequential).               *)
Accounted ==
  batch.phase = "returned" =>
    /\ batch.results = [i \in DOMAIN batch.calls |-> [id |-> i, is |-> batch.answer[i]]]
    /\ \A i \in DOMAIN batch.calls :
         IF batch.mode = "direct" \/ batch.calls[i].kind = "odd" THEN Recorded(batch, i) = {}
         ELSE \E k \in DOMAIN batch.audit :
                /\ Recorded(batch, i) = {k}
                /\ batch.audit[k] = <<i, batch.answer[i] = "ok">>

(* Whatever the servers do, the manager's lock is released and a request   *)
(* ends: a silent server costs its limit of time (client.py, wait_for).    *)
Progress ==
  /\ manager.op # "none" ~> manager.op = "none"
  /\ batch.phase = "running" ~> batch.phase # "running"
=============================================================================
