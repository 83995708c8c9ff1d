---------------------------- MODULE MCChatStream ----------------------------
(***************************************************************************)
(* Small instance of ChatStream: an optional block of reasoning, words and *)
(* calls in the format of each family of parsers.                          *)
(***************************************************************************)
EXTENDS ChatStream

Call(family) ==
  CASE family \in {"none", "qwen", "hermes"} -> <<"<tool_call>", "{f}", "</tool_call>">>
    [] family \in {"llama"}          -> <<"<function=f>", "{args}", "</function>">>
    [] family \in {"nemotron", "step3p5", "auto"} ->
         <<"<tool_call>", "<function=f>", "{args}", "</function>", "</tool_call>">>
    [] family = "glm47"   -> <<"<tool_call>", "f", "<args>", "</tool_call>">>
    [] family \in {"kimi", "deepseek"} -> <<"<|calls|>", "<|call|>f", "{args}", "<|/call|>">>
    [] family = "mistral" -> <<"[TOOL_CALLS]", "f", "{args}">>
    [] family = "granite" -> <<"<|tool_call|>", "[{f}]">>
    [] family = "minimax" -> <<"<minimax:tool_call>", "<invoke f>", "{args}", "</invoke>",
                               "</minimax:tool_call>">>

Families == {"none", "qwen", "hermes", "llama", "nemotron", "step3p5", "auto",
             "glm47", "kimi", "deepseek", "mistral", "granite", "minimax"}

\* Words are numbered by their place.
Word == <<"w1", "w2", "w3", "w4", "w5", "w6", "w7", "w8", "w9">>
Numbered(t) == [i \in DOMAIN t |-> IF t[i] = "w" THEN Word[i] ELSE t[i]]

\* What comes before the answer, and whether the template opened the block.
Openings == {[t |-> << >>, inPrompt |-> FALSE], [t |-> << >>, inPrompt |-> TRUE],
             [t |-> <<"<think>", "w", "</think>">>, inPrompt |-> FALSE],
             [t |-> <<"<think>", "w">>, inPrompt |-> FALSE],
             [t |-> <<"w", "</think>">>, inPrompt |-> TRUE]}

Bodies(family) ==
  LET call == Call(family)
  IN  {[t |-> << >>, calls |-> << >>], [t |-> <<"w">>, calls |-> << >>],
       [t |-> call, calls |-> <<"f">>],
       [t |-> <<"w">> \o call, calls |-> <<"f">>],
       [t |-> <<"w", call[1], "w">>, calls |-> << >>]}
      \cup IF family \in {"granite", "mistral"} THEN {}
           ELSE {[t |-> call \o <<"w">>, calls |-> <<"f">>]}

Case(api, o, b, family, parser, suppress, choice) ==
  [api |-> api, output |-> Numbered(o.t \o b.t), wrote |-> b.calls,
   family |-> family, parser |-> parser, inPrompt |-> o.inPrompt,
   suppress |-> suppress, choice |-> choice, finish |-> "length"]

\* Every way to answer with the generic parser; every parser for one of them.
MCCases ==
  {Case(k[1], o, b, "none", s[1], s[2], k[2]) :
     k \in {<<"chat", "auto">>, <<"chat", "none">>, <<"chat", "required">>,
            <<"anthropic", "auto">>, <<"responses", "auto">>},
     o \in Openings, b \in Bodies("none"),
     s \in {<<FALSE, FALSE>>, <<TRUE, FALSE>>, <<TRUE, TRUE>>}}
  \cup
  UNION {{Case("chat", o, b, family, TRUE, FALSE, "auto") :
            o \in {[t |-> << >>, inPrompt |-> FALSE],
                   [t |-> <<"<think>", "w", "</think>">>, inPrompt |-> FALSE]},
            b \in Bodies(family)} : family \in Families \ {"none"}}
=============================================================================
