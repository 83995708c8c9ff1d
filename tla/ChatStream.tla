----------------------------- MODULE ChatStream -----------------------------
(***************************************************************************)
(* One streamed answer of the server: stream_chat_completion, with the     *)
(* Anthropic adapter over it (api/anthropic_adapter.py), and               *)
(* stream_responses_api, from the first chunk to the last.  The engine     *)
(* yields the model's output in deltas; the generator separates reasoning  *)
(* from content, stops sending when it sees the marker of a tool call, and *)
(* settles the rest after the stream.  Meanwhile the engine may fail, the  *)
(* time limit may pass, and the client may leave or be cancelled.          *)
(* Usage numbers, keep-alive comments and response_format are left out.    *)
(***************************************************************************)
EXTENDS OutputText

CONSTANTS Cases,      \* the requests, with what the model writes for them
          MaxDelta,   \* symbols in a delta of the engine
          TailLen     \* symbols of reasoning searched for a marker (30 characters)

ASSUME DeltaAssumption == MaxDelta \in Nat \ {0} /\ TailLen \in Nat \ {0}

VARIABLES req,      \* [api, output, wrote, family, parser, inPrompt, suppress, choice]
          pos,      \* the symbols of req.output that the engine has yielded
          gen,      \* the local variables of the generator
          sent,     \* the chunks yielded to the client
          adapter,  \* the AnthropicStreamAdapter
          phase,    \* where the generator is
          engine,   \* the engine's side of the request
          client    \* the client's connection

vars == <<req, pos, gen, sent, adapter, phase, engine, client>>

Markers == {"<tool_call>", "<|tool_call|>", "[TOOL_CALLS]", "<function=f>",
            "<function=g>", "<minimax:tool_call>", "[Calling f(",
            "[Calling g(", "<|calls|>", "<|call|>f", "<|call|>g"}

Marked(t) == \E m \in Markers : Has(t, m)

NoResponse == "[Model produced no response]"
OnlyReasoning == "[Model produced only internal reasoning]"

Chunk(kind, r, c, fin) == [kind |-> kind, reasoning |-> r, content |-> c,
                           finish |-> fin, calls |-> << >>]
Content(c, fin) == Chunk("delta", << >>, c, fin)
CallsChunk(calls) == [Chunk("delta", << >>, << >>, "tool_calls") EXCEPT !.calls = calls]
ErrorChunk == Chunk("error", << >>, << >>, "")
Done       == Chunk("done", << >>, << >>, "")

NonEmpty(c) == IF c.content = << >> THEN << >> ELSE <<c>>

-----------------------------------------------------------------------------
(* The Anthropic adapter: a chunk opens, extends and closes content        *)
(* blocks; finalize closes what is open.                                   *)

\* Mutant: the index stays.
BugCloseBlocks(kinds, a) ==
  LET closing == SelectSeq(kinds, LAMBDA kind : kind \in a.open)
  IN  [a EXCEPT !.events = @ \o [i \in DOMAIN closing |->
                                   [type |-> "stop", kind |-> closing[i],
                                    index |-> a.index]],
                !.open = @ \ ToSet(kinds)]

\* The blocks of kinds that are open are closed, in that order.
CloseBlocks(kinds, a) ==
  LET closing == SelectSeq(kinds, LAMBDA kind : kind \in a.open)
  IN  [a EXCEPT !.events = @ \o [i \in DOMAIN closing |->
                                   [type |-> "stop", kind |-> closing[i],
                                    index |-> a.index + i - 1]],
                !.index = @ + Len(closing), !.open = @ \ ToSet(kinds)]

\* A delta for a block, which is opened if it is not open.
Extend(kind, a) ==
  LET Event(type) == [type |-> type, kind |-> kind, index |-> a.index]
  IN  [a EXCEPT !.events = @ \o (IF kind \in a.open THEN << >> ELSE <<Event("start")>>)
                             \o <<Event("delta")>>,
                !.open = @ \cup {kind}]

Reasons(c, a) == IF c.reasoning = << >> THEN a ELSE Extend("thinking", a)

Texts(c, a) ==
  IF c.content = << >> THEN a
  ELSE Extend("text", IF "text" \in a.open THEN a
                      ELSE CloseBlocks(<<"thinking", "tool">>, a))

Tools(c, a) ==
  FoldLeft(LAMBDA b, call : Extend("tool", CloseBlocks(<<"thinking", "tool", "text">>, b)),
           a, c.calls)

ProcessChunk(a, c) ==
  IF c.kind = "done" THEN a
  ELSE IF c.kind = "error" THEN [a EXCEPT !.started = TRUE]
  ELSE Tools(c, Texts(c, Reasons(c, [a EXCEPT !.started = TRUE])))

Finalize(a) ==
  LET End(b) == [b EXCEPT !.events = Append(@, [type |-> "end", kind |-> "message",
                                                index |-> b.index])]
  IN  IF a.started THEN End(CloseBlocks(<<"thinking", "text", "tool">>, a)) ELSE a

-----------------------------------------------------------------------------
Init ==
  /\ req \in Cases
  /\ pos = 0
  /\ gen = [content |-> << >>, reasoning |-> << >>, streamed |-> << >>,
            buffering |-> FALSE, thought |-> FALSE, prefixed |-> FALSE]
  /\ sent = << >>
  /\ adapter = [started |-> FALSE, index |-> 0, open |-> {}, events |-> << >>]
  /\ phase = "role"
  /\ engine = "running"
  /\ client = "there"

Text == SubSeq(req.output, 1, pos)
ToolsActive == req.choice # "none"

\* The generator yields chunks; last says that it then returns.
Yield(chunks, last) ==
  \E out \in {chunks} :
    /\ sent' = sent \o out
    /\ adapter' = IF req.api # "anthropic" THEN adapter
                  ELSE LET a == FoldLeft(ProcessChunk, adapter, out)
                       IN  IF last THEN Finalize(a) ELSE a

Role ==
  /\ phase = "role"
  /\ phase' = "stream"
  /\ Yield(<<Content(<< >>, "")>>, FALSE)
  /\ UNCHANGED <<req, pos, gen, engine, client>>

\* A delta with a reasoning parser: the new locals and the chunks.
Parsed(delta, last) ==
  LET d   == ExtractStreaming(Text, delta, req.inPrompt)
      c   == gen.content \o d.content
      r   == gen.reasoning \o d.reasoning
      tail == SubSeq(r, IF Len(r) > TailLen THEN Len(r) - TailLen + 1 ELSE 1, Len(r))
      buf == \/ gen.buffering
             \/ /\ ToolsActive
                /\ \/ d.content # << >> /\ Marked(c)
                   \/ d.reasoning # << >> /\ Marked(tail)
      shown == IF req.suppress THEN << >> ELSE d.reasoning
      quiet == shown = << >> /\ d.content = << >>
               /\ (~ last \/ req.api = "responses")
      noted == [gen EXCEPT !.content = c, !.reasoning = r, !.buffering = buf]
  IN  IF delta = << >> \/ d.skip THEN [gen |-> gen, out |-> << >>]
      ELSE IF buf \/ quiet THEN [gen |-> noted, out |-> << >>]
      ELSE [gen |-> [noted EXCEPT !.streamed = @ \o d.content,
                                  !.thought = @ \/ shown # << >>],
            out |-> <<Chunk("delta", shown, d.content,
                            IF last THEN req.finish ELSE "")>>]

\* A delta without one: a template that opens <think> is mended.
Plain(delta, last) ==
  LET buf    == \/ gen.buffering
                \/ ToolsActive /\ delta # << >> /\ Marked(Text \o delta)
      prefix == req.inPrompt /\ ~ gen.prefixed /\ delta # << >>
      shown  == IF prefix THEN <<"<think>">> \o delta ELSE delta
  IN  IF buf THEN [gen |-> [gen EXCEPT !.buffering = TRUE], out |-> << >>]
      ELSE [gen |-> [gen EXCEPT !.streamed = @ \o shown, !.prefixed = @ \/ prefix],
            out |-> IF req.api = "responses" /\ delta = << >> THEN << >>
                    ELSE <<Content(shown, IF last THEN req.finish ELSE "")>>]

\* The engine yields n symbols; last is its finished output.
Deliver(n, last) ==
  /\ phase = "stream" /\ engine = "running" /\ client = "there"
  /\ pos + n <= Len(req.output)
  /\ last => pos + n = Len(req.output)
  /\ n = 0 => last
  /\ LET delta == SubSeq(req.output, pos + 1, pos + n)
     IN  \E s \in {IF req.parser THEN Parsed(delta, last) ELSE Plain(delta, last)} :
           gen' = s.gen /\ Yield(s.out, FALSE)
  /\ pos' = pos + n
  /\ engine' = IF last THEN "finished" ELSE engine
  /\ phase' = IF last THEN "post" ELSE phase
  /\ UNCHANGED <<req, client>>

\* The client has closed its connection; the next output finds out, aborts
\* the request and goes on to what follows the stream.
Leave ==
  /\ phase = "stream" /\ client = "there"
  /\ client' = "left"
  /\ UNCHANGED <<req, pos, gen, sent, adapter, phase, engine>>

Abandon ==
  /\ phase = "stream" /\ engine = "running" /\ client = "left"
  /\ engine' = "aborted"
  /\ phase' = "post"
  /\ UNCHANGED <<req, pos, gen, sent, adapter, client>>

\* Mutant: the return after the error is missing.
BugFail ==
  /\ phase = "stream" /\ engine = "running"
  /\ engine' = "aborted"
  /\ phase' = "post"
  /\ Yield(<<ErrorChunk, Done>>, FALSE)
  /\ UNCHANGED <<req, pos, gen, client>>

\* An exception of the engine, or the time limit found between two outputs.
Fail ==
  /\ phase = "stream" /\ engine = "running"
  /\ engine' = "aborted"
  /\ phase' = "ended"
  /\ Yield(<<ErrorChunk, Done>>, TRUE)
  /\ UNCHANGED <<req, pos, gen, client>>

\* The task of the response is cancelled: the finally of the keep-alive
\* wrapper cancels the engine's generator, which aborts the request.
Cancel ==
  /\ phase # "ended"
  /\ client' = "cancelled"
  /\ phase' = "ended"
  /\ engine' = IF engine = "running" THEN "aborted" ELSE engine
  /\ Yield(<< >>, TRUE)
  /\ UNCHANGED <<req, pos, gen>>

-----------------------------------------------------------------------------
(* After the stream.                                                       *)

\* The text searched for tool calls.
ParseText ==
  LET p == IF req.parser /\ gen.content # << >> THEN gen.content
           ELSE IF req.parser /\ gen.reasoning # << >> THEN gen.reasoning
           ELSE StripThink[Text]
  IN  IF p = << >> THEN Text ELSE p

\* Mutant: what was streamed is not taken away.
BugRest(full) == full

\* What of full the client has not got, by comparison with what it has.
Rest(full) ==
  IF gen.streamed = << >> THEN full
  ELSE IF IsPrefix(gen.streamed, full)
       THEN SubSeq(full, Len(gen.streamed) + 1, Len(full))
  ELSE << >>

LastFinish == IF engine = "finished" THEN req.finish ELSE "stop"

\* The chunks that follow when no call was sent.
Closing ==
  LET flush == IF gen.buffering /\ Text # << >>
               THEN Rest(IF req.parser THEN gen.content ELSE Text) ELSE << >>
      silent == gen.streamed = << >> /\ gen.reasoning # << >>
  IN  NonEmpty(Content(flush, LastFinish))
      \o (IF req.parser /\ silent /\ ~ gen.thought /\ ~ req.suppress
          THEN <<Content(gen.reasoning, "stop")>> ELSE << >>)
      \o (IF req.suppress /\ silent
          THEN <<Content(<<OnlyReasoning>>, "stop")>> ELSE << >>)
      \o (IF Text = << >> THEN <<Content(<<NoResponse>>, "stop")>> ELSE << >>)
      \o (IF req.choice = "required" THEN <<ErrorChunk>> ELSE << >>)

Settle ==
  /\ phase = "post" /\ req.api # "responses"
  /\ \E r \in {IF gen.buffering /\ Text # << >>
               THEN ParseTools(req.family)[ParseText] ELSE Result(<< >>, << >>)} :
       Yield((IF r.calls = << >> THEN Closing
              ELSE NonEmpty(Content(Rest(r.text), "")) \o <<CallsChunk(r.calls)>>)
             \o <<Done>>, TRUE)
  /\ phase' = "ended"
  /\ UNCHANGED <<req, pos, gen, engine, client>>

\* The text of the message item that closes a response.
FirstOf(x) == IF x.content # << >> THEN x.content ELSE x.reasoning

Display(cleaned) ==
  IF req.parser /\ gen.content # << >> THEN gen.content
  ELSE IF req.parser /\ gen.reasoning # << >> /\ ~ gen.thought /\ ~ req.suppress
       THEN gen.reasoning
  ELSE IF req.parser /\ FirstOf(Extract[cleaned]) # << >> THEN FirstOf(Extract[cleaned])
  ELSE IF cleaned # << >> THEN cleaned
  ELSE IF Text # << >> THEN Text
  ELSE IF req.suppress /\ gen.reasoning # << >> THEN <<OnlyReasoning>>
  ELSE <<NoResponse>>

SettleResponse ==
  /\ phase = "post" /\ req.api = "responses"
  /\ \E r \in {IF req.choice = "none" THEN Result(<< >>, Text)
               ELSE ParseTools(req.family)[ParseText]} :
       Yield(<<Chunk("item", << >>,
                     IF r.calls = << >> THEN Display(r.text)
                     ELSE IF req.parser /\ r.text # << >> THEN FirstOf(Extract[r.text])
                     ELSE r.text, "")>>
             \o (IF r.calls # << >> THEN <<CallsChunk(r.calls)>> ELSE << >>)
             \o (IF req.choice = "required" /\ r.calls = << >>
                 THEN <<ErrorChunk>> ELSE << >>)
             \o <<Done>>, TRUE)
  /\ phase' = "ended"
  /\ UNCHANGED <<req, pos, gen, engine, client>>

Next ==
  \/ Role
  \/ \E n \in 0 .. MaxDelta, last \in BOOLEAN : Deliver(n, last)
  \/ Leave
  \/ Abandon
  \/ Fail
  \/ Cancel
  \/ Settle
  \/ SettleResponse

Spec == Init /\ [][Next]_vars

\* The event loop runs the generator, and the engine goes on yielding until
\* its request is finished (EngineCore: every stream ends).
Progress ==
  \/ Role \/ Abandon \/ Settle \/ SettleResponse
  \/ \E n \in 0 .. MaxDelta, last \in BOOLEAN : Deliver(n, last)

FairSpec == Spec /\ WF_vars(Progress)

-----------------------------------------------------------------------------
(* The answer to the same request without stream.                          *)

Complete ==
  [r \in Cases |->
    LET x == IF r.parser THEN Extract[r.output]
             ELSE [reasoning |-> << >>, content |-> r.output]
        c == IF x.content # << >> THEN x.content
             ELSE IF x.reasoning # << >> THEN << >> ELSE r.output
        t == StripThink[c]
    IN  IF r.choice = "none" THEN Result(<< >>, t) ELSE ParseTools(r.family)[t]]

-----------------------------------------------------------------------------
(* What the client has got.                                                *)

Words == {"w1", "w2", "w3", "w4", "w5", "w6", "w7", "w8", "w9"}
WordsOf(t) == SelectSeq(t, LAMBDA s : s \in Words)

Deltas   == SelectSeq(sent, LAMBDA c : c.kind = "delta")
Items    == SelectSeq(sent, LAMBDA c : c.kind = "item")
GotText  == WordsOf(IF Items # << >> THEN Items[1].content
                    ELSE FlattenSeq([i \in DOMAIN Deltas |-> Deltas[i].content]))
GotThoughts == WordsOf(FlattenSeq([i \in DOMAIN Deltas |-> Deltas[i].reasoning]))
GotCalls == FlattenSeq([i \in DOMAIN Deltas |-> Deltas[i].calls])

Answered == phase = "ended" /\ client = "there"
            /\ \A i \in DOMAIN sent : sent[i].kind # "error"

Ordered(t) ==
  \A i, j \in DOMAIN t : i < j => Index(req.output, t[i]) < Index(req.output, t[j])

\* Outputs on which the two answers differ by design of the code (README, section 5).
Thoughts == Extract[req.output].reasoning
Tidy ==
  /\ Has(req.output, "<think>") => req.output[1] = "<think>"
  /\ req.parser => ~ Marked(Thoughts)
  /\ req.inPrompt <=> req.output # Before(req.output, "</think>")
                      /\ ~ Has(req.output, "<think>")
  /\ ~ req.parser /\ Marked(req.output) =>
       ~ req.inPrompt /\ StripThink[req.output] = req.output
  /\ req.api = "responses" /\ req.parser => Extract[req.output].content # << >>

\* No word of the model reaches the client twice or out of its order, as
\* reasoning or as content.
ToldOnce ==
  /\ Ordered(GotText) /\ Ordered(GotThoughts)
  /\ ToSet(GotText) \cap ToSet(GotThoughts) = {}
  /\ req.parser /\ req.suppress =>
       ToSet(GotText \o GotThoughts) \cap ToSet(Thoughts) = {}

\* A complete stream gives at least the content of the answer without stream,
\* and reports the calls that the model wrote, as does the answer without
\* stream, whatever the format and however the deltas cut it.
NothingMissing ==
  Answered =>
    /\ ToSet(WordsOf(Complete[req].text)) \subseteq ToSet(GotText)
    /\ req.choice # "none" => GotCalls = req.wrote /\ Complete[req].calls = req.wrote

\* What the client of a stream has at its end is what the model said (chunks are
\* never taken back, so that it is enough to look at the end).
AnswerAgrees == phase = "ended" /\ client = "there" /\ Tidy => ToldOnce /\ NothingMissing

\* The events of the Anthropic stream: blocks open one at a time, with the next
\* index, are extended only while open, and are all closed before the end.
BlocksNest ==
  LET ev == adapter.events
      Opens(i) == ev[i].type = "start"
  IN  phase = "ended" /\ Tidy => \A i \in DOMAIN ev :
        /\ ev[i].type = "delta" =>
             \E j \in 1 .. i - 1 :
               /\ ev[j].type = "start" /\ ev[j].index = ev[i].index
               /\ ev[j].kind = ev[i].kind
               /\ \A k \in j + 1 .. i : ev[k].type = "delta"
        /\ ev[i].type = "start" =>
             /\ ev[i].index = Cardinality({j \in 1 .. i - 1 : Opens(j)})
             /\ i > 1 => ev[i - 1].type = "stop"
        /\ ev[i].type = "end" => i = Len(ev) /\ (i > 1 => ev[i - 1].type = "stop")

\* Every stream ends, its client gets exactly one end unless it was cancelled,
\* and the engine no longer works for it.
Ends ==
  <>[](/\ phase = "ended" /\ engine # "running"
       /\ Cardinality({i \in DOMAIN sent : sent[i].kind = "done"})
            = IF client = "cancelled" THEN 0 ELSE 1)
=============================================================================
