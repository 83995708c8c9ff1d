----------------------------- MODULE Endpoints ------------------------------
(***************************************************************************)
(* From the client's dialogue to the prompt: create_chat_completion,       *)
(* create_response, create_anthropic_message and ollama_chat of server.py, *)
(* their conversions in api/, and the chat template as the batched and     *)
(* simple engines apply it.  A client keeps a dialogue and sends all of it *)
(* in every turn, in the form of its API.  The template itself and the     *)
(* model's answers are external.  A text is a sequence of pieces, tuples   *)
(* such as <<"text">>, <<"think">>, <<"image">>, <<"call", f>>,            *)
(* <<"result", f>>, <<"json">> and <<"tool", f>>.                          *)
(***************************************************************************)
EXTENDS Naturals, Sequences, SequencesExt, FiniteSets, FiniteSetsExt

CONSTANTS Cases,     \* [setup, opts]: a server and the options of a client
          Openings,  \* for each API, how dialogues begin
          Answers,   \* what the model may write
          MaxTurns   \* entries of a dialogue

VARIABLES setup,     \* the server
          opts,      \* the options that the client sends in every turn
          dialogue,  \* what was said: a sequence of [who, parts]
          stage,     \* "client", "engine" or "model"
          messages,  \* what the handler hands to the engine
          kwargs,    \* [told, tools, extra, suffix, suppress, inThink]
          prompt,    \* what the model reads: a sequence of <<role, piece>>
          key        \* the part of the previous prompt the prefix cache keeps

vars == <<setup, opts, dialogue, stage, messages, kwargs, prompt, key>>

Has(parts, kind) == \E i \in DOMAIN parts : parts[i][1] = kind
Without(parts, kinds) == SelectSeq(parts, LAMBDA p : p[1] \notin kinds)
Only(parts, kind) == SelectSeq(parts, LAMBDA p : p[1] = kind)
Each(seq, Op(_)) == FlattenSeq([i \in DOMAIN seq |-> Op(seq[i])])

\* A message: form is what its content is, a string, a list or null.
Message(role, form, parts, calls) ==
  [role |-> role, form |-> form, parts |-> parts, calls |-> calls]

-----------------------------------------------------------------------------
(* The client's side: a dialogue in the form of the API.                   *)

ChatMessage(turn) ==
  LET text == Without(turn.parts, {"call"})
  IN  Message(turn.who,
              IF text = << >> THEN "none" ELSE IF Has(text, "image") THEN "list" ELSE "text",
              text, Only(turn.parts, "call"))

AnthropicMessage(turn) ==
  [role |-> IF turn.who = "tool" THEN "user" ELSE turn.who, blocks |-> turn.parts]

ResponsesItems(turn) ==
  LET text == Without(turn.parts, {"call"})
      Item(type, parts) == [type |-> type, role |-> turn.who, parts |-> parts]
      calls == Only(turn.parts, "call")
  IN  IF turn.who = "tool" THEN <<Item("function_call_output", turn.parts)>>
      ELSE (IF text = << >> THEN << >> ELSE <<Item("message", text)>>)
           \o [i \in DOMAIN calls |-> Item("function_call", <<calls[i]>>)]

-----------------------------------------------------------------------------
(* The conversions of api/utils.py, api/anthropic_adapter.py and           *)
(* _responses_input_to_messages.                                           *)

NormalizeRole(role) == IF role = "developer" THEN "system" ELSE role

\* Mutant: the text before a call is dropped.
BugExtract(m) ==
  IF m.role = "tool" THEN Message("user", "text", m.parts, << >>)
  ELSE IF m.role = "assistant" /\ m.calls # << >>
  THEN Message(m.role, "text", m.calls, << >>)
  ELSE Message(NormalizeRole(m.role), "text", Without(m.parts, {"image"}), << >>)

\* extract_multimodal_content of one message, for a model whose template has
\* no roles for calls and results: both become text.
Extract(m) ==
  IF m.role = "tool" THEN Message("user", "text", m.parts, << >>)
  ELSE IF m.role = "assistant" /\ m.calls # << >>
  THEN Message(m.role, "text", m.parts \o m.calls, << >>)
  ELSE Message(NormalizeRole(m.role), "text", Without(m.parts, {"image"}), << >>)

\* The same with preserve_native_format.
ExtractNative(m) ==
  IF m.role = "tool" \/ m.calls # << >>
  THEN [m EXCEPT !.form = "text", !.parts = Without(@, {"image"})]
  ELSE Message(NormalizeRole(m.role), "text", Without(m.parts, {"image"}), << >>)

ExtractAll(ms, native) ==
  [i \in DOMAIN ms |-> IF native THEN ExtractNative(ms[i]) ELSE Extract(ms[i])]

\* A model with vision keeps the messages and takes the images out itself.
KeepAll(ms) == [i \in DOMAIN ms |-> [ms[i] EXCEPT !.role = NormalizeRole(@)]]

ConvertAssistant(m) ==
  LET text == Without(m.blocks, {"think", "call"})
  IN  Message("assistant", IF text = << >> THEN "none" ELSE "text", text,
              Only(m.blocks, "call"))

\* Results become messages of their own, behind the rest of the content.
ConvertUser(m) ==
  LET rest == Without(m.blocks, {"result"})
      results == Only(m.blocks, "result")
  IN  (IF rest = << >> /\ results # << >> THEN << >>
       ELSE <<Message("user", IF Has(rest, "image") THEN "list" ELSE "text", rest, << >>)>>)
      \o [i \in DOMAIN results |-> Message("tool", "text", <<results[i]>>, << >>)]

ToChatCompletion(system, ms) ==
  (IF system = << >> THEN << >> ELSE <<Message("system", "text", system, << >>)>>)
  \o Each(ms, LAMBDA m : IF m.role = "assistant" THEN <<ConvertAssistant(m)>>
                         ELSE ConvertUser(m))

\* _resolve_content: lists with media stay lists for a model with vision.
ResolveContent(role, parts, mllm) ==
  IF mllm /\ Has(parts, "image") THEN Message(role, "list", parts, << >>)
  ELSE Message(role, "text", Without(parts, {"image"}), << >>)

InputToMessages(instructions, items, mllm) ==
  (IF instructions = << >> THEN << >>
   ELSE <<Message("system", "text", instructions, << >>)>>)
  \o [i \in DOMAIN items |->
        LET item == items[i]
        IN  CASE item.type = "function_call"        -> Message("assistant", "none", << >>, item.parts)
              [] item.type = "function_call_output" -> Message("tool", "text", item.parts, << >>)
              [] item.type = "message" -> ResolveContent(NormalizeRole(item.role), item.parts, mllm)]

\* The first system message gets the piece, or a new one in front.
IntoSystem(ms, pieces) ==
  LET found == {i \in DOMAIN ms : ms[i].role = "system"}
  IN  IF found = {} THEN <<Message("system", "text", pieces, << >>)>> \o ms
      ELSE [ms EXCEPT ![Min(found)].parts = @ \o pieces]

InjectJson(ms, json) == IF json THEN IntoSystem(ms, <<<<"json">>>>) ELSE ms

\* The regular expression over assistant strings; a message that was only
\* thinking is dropped.
StripThinking(ms, off) ==
  LET Strip(m) ==
        LET p == Without(m.parts, {"think"})
        IN  IF ~ (off /\ m.role = "assistant" /\ m.form = "text") \/ p = m.parts THEN <<m>>
            ELSE IF p = << >> THEN << >> ELSE <<[m EXCEPT !.parts = p]>>
  IN  Each(ms, Strip)

-----------------------------------------------------------------------------
(* Options.  A preference is "on", "off" or "unset".                       *)

First(preferences) ==
  LET set == SelectSeq(preferences, LAMBDA p : p # "unset")
  IN  IF set = << >> THEN "unset" ELSE set[1]

\* enable_thinking of _merge_ct_kwargs: the request's value, null and junk
\* included, replaces the server's; strings are read, the rest is dropped.
MergeCt(default, value) ==
  LET v == IF value = "absent" THEN default ELSE value
  IN  CASE v \in {"off", "text off"} -> "off"
        [] v = "on" -> "on"
        [] OTHER -> "unset"

\* A streamed Ollama chat has a path of its own.
OllamaStreams == opts.api = "ollama" /\ opts.stream

Ct == MergeCt(setup.ct, IF opts.api \in {"chat", "responses"} THEN opts.ct ELSE "absent")

Asked == First(<<opts.top, Ct, setup.default>>)

\* From the model's configuration, its parser or its tokenizer.
Auto == IF setup.template # "plain" \/ setup.parser # "none" THEN "on" ELSE "off"

ExplicitlyOff == opts.top = "off" \/ Ct = "off"

\* What the engine is told.
ChatTold == First(<<Asked, Auto>>)

\* The Anthropic handler leaves it out if nobody asked, the Ollama stream
\* always, and then the engine takes True.
Told ==
  CASE opts.api = "anthropic" -> First(<<Asked, "on">>)
    [] OllamaStreams -> First(<<opts.top, "on">>)
    [] OTHER -> ChatTold

\* The names of the extra template arguments; Mistral's parser turns the
\* preference given into an effort.
Effort == IF opts.effort THEN {"reasoning_effort", "thinking_budget"} ELSE {}

MistralEffort(asked) ==
  IF setup.parser = "mistral" /\ asked \in {"on", "off"} THEN {"reasoning_effort"} ELSE {}

Extra ==
  CASE opts.api = "responses" -> Effort \cup MistralEffort(ChatTold)
    [] opts.api = "anthropic" -> MistralEffort(opts.top)
    [] OllamaStreams -> {}
    [] OTHER -> Effort \cup MistralEffort(opts.top)

\* The tools of the MCP servers and the client's, or the one it names.
ChatTools ==
  IF opts.choice = "none" THEN {}
  ELSE setup.mcp \cup IF opts.choice \in opts.tools THEN {opts.choice} ELSE opts.tools

ResponsesTools ==
  IF opts.choice = "none" THEN {}
  ELSE setup.mcp \cup IF opts.choice = "auto" THEN opts.tools
                      ELSE {opts.choice} \cap opts.tools

\* The handler of Anthropic's API and the Ollama stream give the engine none.
ToolsOf ==
  CASE opts.api = "anthropic" \/ OllamaStreams -> {}
    [] opts.api = "responses" -> ResponsesTools
    [] OTHER -> ChatTools

\* The Harmony prefix of GPT-OSS takes the place of the generation prompt.
Suffix == setup.parser = "harmony" /\ Told = "on" /\ opts.api \in {"chat", "responses"}

\* The Anthropic handler collects a stream for an answer in one piece.
Streamed == opts.stream \/ opts.api = "anthropic"

\* The answer hides the reasoning.
Suppressed ==
  IF Streamed THEN Asked = "off"
  ELSE Told = "off" \/ ExplicitlyOff

\* _template_always_thinks takes Qwen's templates for ones that do not.
AlwaysThinks == setup.template = "always" /\ ~ setup.qwen

\* Mutant: the check of templates that close the block themselves is lost.
BugInThink == setup.template # "plain" /\ (Asked = "off" => AlwaysThinks)

\* Some templates put a complete block into the generation prompt.
CompletesThinking == setup.template = "seeded"

\* Where the streaming parser believes the answer to begin: inside a block.
InThink ==
  /\ setup.template # "plain" /\ ~ CompletesThinking
  /\ Asked = "off" => AlwaysThinks

-----------------------------------------------------------------------------
(* The handlers.                                                           *)

System == IF dialogue[1].who = "system" THEN dialogue[1].parts ELSE << >>
Spoken == SelectSeq(dialogue, LAMBDA turn : turn.who # "system")

Handed(ms) ==
  /\ stage = "client"
  /\ Last(dialogue).who \in {"user", "tool"}
  /\ messages' = ms
  /\ kwargs' = [told |-> Told, tools |-> ToolsOf, extra |-> Extra, suffix |-> Suffix,
                suppress |-> Suppressed, inThink |-> InThink]
  /\ stage' = "engine"
  /\ UNCHANGED <<setup, opts, dialogue, prompt, key>>

Chat ==
  LET sent == [i \in DOMAIN dialogue |-> ChatMessage(dialogue[i])]
      ms == IF setup.mllm THEN KeepAll(sent) ELSE ExtractAll(sent, setup.native)
  IN  /\ opts.api \in {"chat", "ollama"} /\ ~ OllamaStreams
      /\ Handed(StripThinking(InjectJson(ms, opts.json), ExplicitlyOff))

OllamaStream ==
  LET sent == [i \in DOMAIN dialogue |-> ChatMessage(dialogue[i])]
  IN  /\ OllamaStreams
      /\ Handed(IF setup.mllm THEN sent ELSE ExtractAll(sent, FALSE))

Responses ==
  LET ms == InputToMessages(System, Each(Spoken, ResponsesItems), setup.mllm)
  IN  /\ opts.api = "responses"
      /\ Handed(StripThinking(InjectJson(ms, opts.json), ExplicitlyOff))

Messages ==
  LET sent == [i \in DOMAIN Spoken |-> AnthropicMessage(Spoken[i])]
  IN  /\ opts.api = "anthropic"
      /\ Handed(StripThinking(ToChatCompletion(System, sent), ExplicitlyOff))

-----------------------------------------------------------------------------
(* The engine.                                                             *)

Said(ms) ==
  Each(ms, LAMBDA m : [i \in DOMAIN (m.parts \o m.calls) |->
                         <<m.role, (m.parts \o m.calls)[i]>>])

Listed(tools) ==
  LET names == SetToSeq(tools)
  IN  [i \in DOMAIN names |-> <<"tool", names[i]>>]

\* The template (external): tools, messages and the generation prompt.
Template(ms, given, generate) ==
  LET mode == IF "enable_thinking" \in given THEN kwargs.told ELSE "on"
      shown == /\ "tools" \in given
               /\ setup.lists = "thinking" => mode = "on"
      ends == CASE setup.template = "plain"  -> << >>
                [] setup.template = "seeded" -> <<<<"open">>, <<"closed">>>>
                [] setup.template = "obeys" /\ mode = "off" -> <<<<"open">>, <<"closed">>>>
                [] OTHER -> <<<<"open">>>>
      Tagged(role, pieces) == [i \in DOMAIN pieces |-> <<role, pieces[i]>>]
  IN  (IF shown THEN Tagged("tools", Listed(kwargs.tools)) ELSE << >>)
      \o Said(ms)
      \o IF generate THEN Tagged("gen", <<<<"assistant">>>> \o ends) ELSE << >>

\* The arguments, the least important last; the engine takes them away from
\* the end until the template accepts the rest.
Given ==
  LET keys == <<"enable_thinking">> \o (IF kwargs.tools = {} THEN << >> ELSE <<"tools">>)
              \o SetToSeq(kwargs.extra)
      most == Max({n \in 0..Len(keys) : \A i \in 1..n : keys[i] \notin setup.rejects})
  IN  ToSet(SubSeq(keys, 1, most))

\* check_and_inject_fallback_tools: not all names of the tools are in the
\* prompt, so they are described in the system message.
Fallback(ms, p, given, generate) ==
  LET named == {p[i][2][2] : i \in {j \in DOMAIN p : p[j][2][1] \in {"tool", "call"}}}
  IN  IF kwargs.tools \subseteq named THEN p
      ELSE Template(IntoSystem(ms, Listed(kwargs.tools)), given \ {"tools"}, generate)

\* An open <think> at the end of the prompt is taken away if thinking is off.
Unthink(p) ==
  IF kwargs.told = "off" /\ p # << >> /\ Last(p)[2] = <<"open">> THEN Front(p) ELSE p

\* The first turn of a dialogue with images goes through mlx_vlm, which
\* always adds the generation prompt.
Vision ==
  /\ setup.engine = "batched" /\ setup.mllm /\ kwargs.tools = {}
  /\ Cardinality({i \in DOMAIN messages : messages[i].role # "system"}) <= 2
  /\ \E i \in DOMAIN messages : Has(messages[i].parts, "image")
  /\ kwargs.extra \cap setup.rejects = {}

Filled(generate) == Fallback(messages, Template(messages, Given, generate), Given, generate)

ApplyTemplate(generate) ==
  Unthink(IF Vision THEN Template(messages, Given, TRUE) ELSE Filled(generate))

\* Mutant: the tools are left out when the prompt is rendered again.
BugGenPromptLen(p) ==
  Len(p) - Len(Template(messages, {"enable_thinking"}, FALSE))

\* The tokens that the generation prompt adds.
GenPromptLen(p) ==
  LET without == Len(ApplyTemplate(FALSE))
  IN  IF Len(p) > without THEN Len(p) - without ELSE 0

WithSuffix(p) == IF kwargs.suffix THEN p \o <<<<"gen", <<"analysis">>>>>> ELSE p

\* chat and stream_chat of the batched engine, up to the generation.
BatchedChat ==
  /\ stage = "engine" /\ setup.engine = "batched"
  /\ \E p \in {ApplyTemplate(~ kwargs.suffix)} :
       LET strip == IF kwargs.suffix THEN 0 ELSE GenPromptLen(p)
           all == WithSuffix(p)
       IN  prompt' = all /\ key' = SubSeq(all, 1, Len(all) - strip)
  /\ stage' = "model"
  /\ UNCHANGED <<setup, opts, dialogue, messages, kwargs>>

\* Those of the simple engine, which keeps no prefix.
SimpleChat ==
  /\ stage = "engine" /\ setup.engine = "simple"
  /\ prompt' = WithSuffix(Filled(~ kwargs.suffix))
  /\ stage' = "model"
  /\ UNCHANGED <<setup, opts, dialogue, messages, kwargs, key>>

-----------------------------------------------------------------------------
Init ==
  /\ \E c \in Cases : setup = c.setup /\ opts = c.opts
  /\ dialogue \in Openings[opts.api]
  /\ stage = "client"
  /\ messages = << >>
  /\ kwargs = [told |-> "unset", tools |-> {}, extra |-> {}, suffix |-> FALSE,
               suppress |-> FALSE, inThink |-> FALSE]
  /\ prompt = << >>
  /\ key = << >>

\* The model answers, and the client notes what it was given.
Answer ==
  /\ stage = "model"
  /\ Len(dialogue) < MaxTurns
  /\ \E parts \in Answers : dialogue' = Append(dialogue, [who |-> "assistant", parts |-> parts])
  /\ stage' = "client"
  /\ UNCHANGED <<setup, opts, messages, kwargs, prompt, key>>

\* The client goes on: with the results of the calls, or with a question.
GoOn ==
  /\ stage = "client"
  /\ Last(dialogue).who = "assistant"
  /\ LET calls == Only(Last(dialogue).parts, "call")
         next == IF calls = << >> THEN <<[who |-> "user", parts |-> <<<<"text">>>>]>>
                 ELSE [i \in DOMAIN calls |->
                         [who |-> "tool", parts |-> <<<<"result", calls[i][2]>>>>]]
     IN  dialogue' = dialogue \o next
  /\ UNCHANGED <<setup, opts, stage, messages, kwargs, prompt, key>>

Next == Chat \/ OllamaStream \/ Responses \/ Messages \/ BatchedChat \/ SimpleChat
        \/ Answer \/ GoOn

Spec == Init /\ [][Next]_vars

-----------------------------------------------------------------------------
(* The dialogue as the model should read it: the client's, with developers *)
(* taken for the system, without images if the model has no vision, and    *)
(* without reasoning if thinking is off or the API drops it.               *)
Meant ==
  LET quiet == opts.api = "anthropic" \/ (ExplicitlyOff /\ ~ OllamaStreams)
      hidden == (IF quiet THEN {"think"} ELSE {})
                \cup (IF setup.mllm \/ opts.api = "anthropic" THEN {} ELSE {"image"})
      Read(turn) == Message(IF turn.who = "tool" THEN "user" ELSE NormalizeRole(turn.who),
                            "text", Without(turn.parts, hidden), << >>)
      json == opts.json /\ opts.api \in {"chat", "responses"}
  IN  Said(InjectJson([i \in DOMAIN dialogue |-> Read(dialogue[i])], json))

\* What was said, as the prompt has it: roles of results are the user's.
Read ==
  LET kept == SelectSeq(prompt, LAMBDA p : p[1] \notin {"tools", "gen"} /\ p[2][1] # "tool")
  IN  [i \in DOMAIN kept |-> <<IF kept[i][1] = "tool" THEN "user" ELSE kept[i][1], kept[i][2]>>]

\* Whatever API, kind of model and options, the model reads exactly what the
\* dialogue says, in order: no text, call, result or image is lost, doubled
\* or given to another speaker on the way (the conversions of api/ and
\* server.py; the comments there tell of messages that vanished).  And the tools
\* described in the prompt, by the template or in the system message, are those
\* the client may expect, each once: none if it chose none, otherwise the one it
\* named or all, and the MCP servers' (the template may drop tools or refuse
\* arguments; check_and_inject_fallback_tools).
Conversation ==
  stage = "model" =>
    /\ Read = Meant
    /\ opts.api \in {"chat", "responses"} =>
         LET shown == SelectSeq(prompt, LAMBDA p : p[2][1] = "tool")
             wanted == IF opts.choice = "none" THEN {}
                       ELSE setup.mcp \cup IF opts.choice \in opts.tools THEN {opts.choice}
                                                                       ELSE opts.tools
         IN  /\ Len(shown) = Cardinality(wanted)
             /\ {shown[i][2][2] : i \in DOMAIN shown} = wanted

\* What the engine is told, what the answer hides and where the streaming
\* parser believes the answer to begin agree with the prompt: reasoning is
\* hidden exactly if thinking was turned off, and the parser starts inside a
\* block exactly if the prompt ends in an open one (three places resolve
\* enable_thinking on their own).
ThinkingAgrees ==
  stage = "model" =>
    /\ setup.parser # "none" => (kwargs.suppress <=> kwargs.told = "off")
    /\ Streamed /\ ~ kwargs.suffix => (kwargs.inThink <=> Last(prompt)[2] = <<"open">>)
    /\ ExplicitlyOff => ~ \E i \in DOMAIN prompt : prompt[i][2] = <<"think">>

\* What the prefix cache keeps of a turn's prompt is all of it but the
\* generation prompt, and the next turn's prompt begins with it
\* (_compute_gen_prompt_len, "enables multi-turn prefix cache hits").
KeyIsPrefix ==
  [][BatchedChat /\ ~ kwargs.suffix
        /\ ~ (setup.mllm /\ \E i \in DOMAIN dialogue : Has(dialogue[i].parts, "image"))
     => LET Text(p) == SelectSeq(p, LAMBDA a : a[1] # "gen")
        IN  IsPrefix(key, prompt') /\ key' = Text(prompt')]_vars
=============================================================================
