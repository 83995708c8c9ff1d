---------------------------- MODULE MCEndpoints -----------------------------
(* Servers, requests and dialogues for TLC.                                *)
EXTENDS Endpoints

Server == [engine |-> "batched", mllm |-> FALSE, native |-> FALSE, template |-> "obeys",
           lists |-> "always", rejects |-> {}, qwen |-> FALSE, parser |-> "think",
           default |-> "unset", ct |-> "absent", mcp |-> {}]

Options == [api |-> "chat", stream |-> TRUE, top |-> "unset", ct |-> "absent",
            choice |-> "auto", tools |-> {}, json |-> FALSE, effort |-> FALSE]

\* Servers that differ in the template, the engine and the defaults.
MCSetups ==
  {[Server EXCEPT !.engine = e, !.template = t, !.parser = p, !.default = d, !.qwen = q] :
     e \in {"batched", "simple"}, t \in {"plain", "obeys", "always", "seeded"},
     p \in {"think", "mistral", "harmony"}, d \in {"unset", "off"}, q \in BOOLEAN}
  \cup {[Server EXCEPT !.native = n, !.mllm = v, !.ct = c] :
          n \in BOOLEAN, v \in BOOLEAN, c \in {"absent", "off"}}

\* Servers that differ in what the template does with tools.
MCToolSetups ==
  {[Server EXCEPT !.engine = e, !.lists = l, !.rejects = r, !.mcp = m, !.native = n] :
     e \in {"batched", "simple"}, l \in {"always", "thinking"},
     r \in {{}, {"tools"}, {"thinking_budget"}}, m \in {{}, {"m"}}, n \in BOOLEAN}

MCRequests ==
  {[Options EXCEPT !.api = a, !.stream = s, !.top = t, !.ct = c, !.json = j] :
     a \in {"chat", "responses", "anthropic", "ollama"}, s \in BOOLEAN,
     t \in {"on", "off", "unset"}, c \in {"absent", "text off", "null"}, j \in BOOLEAN}

MCToolRequests ==
  {[Options EXCEPT !.api = a, !.top = t, !.choice = c, !.tools = {"f", "g"}, !.effort = e] :
     a \in {"chat", "responses"}, t \in {"off", "unset"},
     c \in {"auto", "none", "f"}, e \in BOOLEAN}

\* The combinations on which the code contradicts itself (README, section 5)
\* and those that an API does not have are left out.
Tidy(s, o) ==
  LET ct == IF o.api \in {"chat", "responses"} THEN MergeCt(s.ct, o.ct) ELSE MergeCt(s.ct, "absent")
      off == First(<<o.top, ct, s.default>>) = "off"
  IN  /\ o.top = "on" => ct # "off"
      /\ off /\ s.template = "always" => (s.qwen <=> s.engine = "batched")
      /\ o.choice = "f" => s.lists = "always" /\ s.rejects = {}
      /\ o.api \in {"anthropic", "ollama"} => o.ct = "absent" /\ ~ o.json
      /\ o.api = "ollama" => o.top = "unset" /\ (o.stream => ~ off)
      /\ s.qwen => s.template = "always"

MCCases ==
  {c \in [setup : MCSetups, opts : MCRequests] \cup [setup : MCToolSetups, opts : MCToolRequests] :
     Tidy(c.setup, c.opts)}

Turn(who, parts) == [who |-> who, parts |-> parts]

MCQuestions == {<<Turn("user", <<<<"text">>>>)>>, <<Turn("user", <<<<"image">>, <<"text">>>>)>>}

MCOpenings ==
  LET Led(who) == {<<Turn(who, <<<<"text">>>>)>> \o q : q \in MCQuestions}
  IN  [a \in {"chat", "responses", "anthropic", "ollama"} |->
         MCQuestions \cup Led("system")
         \cup IF a \in {"chat", "responses"} THEN Led("developer") ELSE {}]

\* Calls of two tools stand for results in more than one message.
MCAnswers == {<<<<"text">>>>, <<<<"think">>, <<"text">>>>, <<<<"call", "f">>>>,
              <<<<"think">>, <<"text">>, <<"call", "f">>>>, <<<<"think">>>>,
              <<<<"text">>, <<"call", "f">>, <<"call", "f">>>>}
=============================================================================
