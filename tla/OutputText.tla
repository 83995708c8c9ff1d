----------------------------- MODULE OutputText -----------------------------
(***************************************************************************)
(* Parsing of what a model writes: the reasoning parsers                   *)
(* (reasoning/think_parser.py and the classes over it), the tool parsers   *)
(* (tool_parsers/*.py, api/tool_calling.py) and the choice between them    *)
(* (_parse_tool_calls_with_parser in server.py).                           *)
(*                                                                         *)
(* A text is a sequence of symbols.  A symbol is a word, a tag, or a whole *)
(* JSON value: "{f}" is an object that names the function f, "{args}" one  *)
(* that names none, "{bad}" is text in braces that does not decode and     *)
(* "[{f}]" an array of one call.  Tags that carry a name are symbols of    *)
(* their own ("<function=f>").  White space, and with it every strip(), is *)
(* left out.                                                               *)
(***************************************************************************)
EXTENDS Integers, FiniteSets, SequencesExt

Strings == Seq(STRING)

\* The text at the positions of t that are not in I.
Cut(t, I) ==
  LET kept == SelectSeq([i \in DOMAIN t |-> i], LAMBDA i : i \notin I)
  IN  [k \in DOMAIN kept |-> t[kept[k]]]

Has(t, s)    == \E i \in DOMAIN t : t[i] = s
Index(t, s)  == IF Has(t, s)
                THEN CHOOSE i \in DOMAIN t : t[i] = s /\ \A j \in 1 .. i - 1 : t[j] # s
                ELSE 0
Before(t, s) == IF Has(t, s) THEN SubSeq(t, 1, Index(t, s) - 1) ELSE t
After(t, s)  == IF Has(t, s) THEN SubSeq(t, Index(t, s) + 1, Len(t)) ELSE << >>

At(t, i, s) == i + Len(s) - 1 <= Len(t) /\ SubSeq(t, i, i + Len(s) - 1) = s

-----------------------------------------------------------------------------
(* Regular expressions of the form  open body close,  where the body is    *)
(* lazy and, when brace is set, begins and ends with a brace.              *)

Objects == {"{f}", "{g}"}
Braces  == Objects \cup {"{args}", "{bad}"}

\* The function that a symbol names.
Names == [s \in Objects \cup {"f", "g", "<function=f>", "<function=g>",
            "[Calling f(", "[Calling g(", "<|call|>f", "<|call|>g",
            "<invoke f>", "<invoke g>", "[{f}]", "[{g}]"} |->
            IF s \in {"{f}", "f", "<function=f>", "[Calling f(", "<|call|>f",
                      "<invoke f>", "[{f}]"} THEN "f" ELSE "g"]

OpensAt(t, i, o, p) ==
  /\ At(t, i, o)
  /\ p.brace => i + Len(o) \in DOMAIN t /\ t[i + Len(o)] \in Braces

ClosesAt(t, i, k, p) ==
  /\ At(t, k, p.close)
  /\ p.brace => k > i /\ t[k - 1] \in Braces

\* The matches that begin anywhere: o opens at i, the body ends before k.
Candidates(p) ==
  [t \in Strings |->
    {[from |-> i, to |-> k + Len(p.close) - 1, head |-> Last(o),
      body |-> SubSeq(t, i + Len(o), k - 1)] :
       <<i, o, k>> \in {x \in (DOMAIN t) \X p.open \X (DOMAIN t) :
         /\ OpensAt(t, x[1], x[2], p)
         /\ x[3] >= x[1] + Len(x[2]) /\ ClosesAt(t, x[1] + Len(x[2]), x[3], p)
         /\ \A j \in x[1] + Len(x[2]) .. x[3] - 1 :
              ~ ClosesAt(t, x[1] + Len(x[2]), j, p)}}]

Spans == [from : Nat, to : Nat, head : STRING, body : Strings]

\* findall: no match inside an earlier one.
Leftmost ==
  [all \in SUBSET Spans |->
    {m \in all : \A n \in all : n.from < m.from => n.to < m.from}]

Matches(p) == [t \in Strings |-> Leftmost[Candidates(p)[t]]]

Covered(ms) == UNION {m.from .. m.to : m \in ms}

\* sub: the text without the matches.
Without(p) == [t \in Strings |-> Cut(t, Covered(Matches(p)[t]))]

\* Removing <think>...</think>, or what precedes a </think> that stands alone
\* because the template had put the <think> into the prompt.
ThinkTags == [open |-> {<<"<think>">>}, close |-> <<"</think>">>, brace |-> FALSE]

StripThink ==
  [t \in Strings |-> IF Matches(ThinkTags)[t] # {} THEN Without(ThinkTags)[t]
                  ELSE IF Has(t, "</think>") THEN After(t, "</think>") ELSE t]

-----------------------------------------------------------------------------
(* Reasoning.                                                              *)

\* A whole text: reasoning and content.
Extract ==
  [t \in Strings |->
    LET inside == IF Has(t, "<think>") THEN After(t, "<think>") ELSE t
    IN  IF Has(t, "<think>") \/ Has(t, "</think>")
        THEN [reasoning |-> Before(inside, "</think>"),
              content   |-> After(inside, "</think>")]
        ELSE [reasoning |-> << >>, content |-> t]]

Skip == [skip |-> TRUE, reasoning |-> << >>, content |-> << >>]

\* One delta of a stream, after the text prev.
ExtractStreaming(prev, delta, inPrompt) ==
  LET cur == prev \o delta
      s   == Index(delta, "<think>")
      e   == Index(delta, "</think>")
      Says(r, c) == [skip |-> FALSE, reasoning |-> r, content |-> c]
      Split(from) == Says(SubSeq(delta, from, e - 1),
                          SubSeq(delta, e + 1, Len(delta)))
      Inside == IF e # 0 THEN Split(1)
                ELSE IF Has(prev, "</think>") THEN Says(<< >>, delta)
                ELSE Says(delta, << >>)
  IN  IF delta \in {<<"<think>">>, <<"</think>">>} THEN Skip
      ELSE IF Has(prev, "<think>") THEN Inside
      ELSE IF s # 0 THEN IF e # 0 THEN Split(s + 1)
                         ELSE Says(SubSeq(delta, s + 1, Len(delta)), << >>)
      ELSE IF Has(cur, "</think>") THEN Inside
      ELSE IF inPrompt THEN Says(delta, << >>)
      ELSE Says(<< >>, delta)

-----------------------------------------------------------------------------
(* Tool calls.  A result holds the names of the calls and the text left.   *)

Result(calls, text) == [calls |-> calls, text |-> text]
Results == [calls : Strings, text : Strings]

Pattern(open, close, brace) ==
  [open |-> open, close |-> close, brace |-> brace, strict |-> FALSE]

Bracket  == Pattern({<<"[Calling f(">>, <<"[Calling g(">>}, <<")]">>, TRUE)
ToolJson == Pattern({<<"<tool_call>">>}, <<"</tool_call>">>, TRUE)
ToolAny  == Pattern({<<"<tool_call>">>}, <<"</tool_call>">>, FALSE)
Fun      == Pattern({<<"<function=f>">>, <<"<function=g>">>}, <<"</function>">>, TRUE)
ToolFun  == Pattern({<<"<tool_call>", f>> : f \in {"<function=f>", "<function=g>"}},
                    <<"</function>", "</tool_call>">>, FALSE)
KimiCall == Pattern({<<"<|call|>f">>, <<"<|call|>g">>}, <<"<|/call|>">>, FALSE)
Minimax  == Pattern({<<"<minimax:tool_call>">>}, <<"</minimax:tool_call>">>, FALSE)
Invoke   == Pattern({<<"<invoke f>">>, <<"<invoke g>">>}, <<"</invoke>">>, FALSE)

\* Strings that does not decode as JSON is no call.
Strict(p) == [p EXCEPT !.strict = TRUE]

\* The call in one match: named by its opening tag, or by the JSON object.
IsCall(m, strict) ==
  IF m.head \in DOMAIN Names
  THEN strict => m.body \in {<<o>> : o \in Objects \cup {"{args}"}}
  ELSE m.body \in {<<o>> : o \in Objects}

CallName(m) == Names[IF m.head \in DOMAIN Names THEN m.head ELSE m.body[1]]

InOrder == [ms \in SUBSET Spans |-> SetToSortSeq(ms, LAMBDA m, n : m.from < n.from)]

CallsOf(strict) ==
  [ms \in SUBSET Spans |->
    LET calls == InOrder[{m \in ms : IsCall(m, strict)}]
    IN  [i \in DOMAIN calls |-> CallName(calls[i])]]

\* One pattern applied to what earlier ones left.
Pass(p) ==
  [r \in Results |->
    Result(r.calls \o CallsOf(p.strict)[Matches(p)[r.text]], Without(p)[r.text])]

\* Patterns, one after another.
Further(ps) ==
  [r \in Results |->
    LET upto[i \in 0 .. Len(ps)] == IF i = 0 THEN r ELSE Pass(ps[i])[upto[i - 1]]
    IN  upto[Len(ps)]]

Passes(ps) == [t \in Strings |-> Further(ps)[Result(<< >>, t)]]

\* Raw JSON: every object that names a function, if no tag was found.
RawJson ==
  [r \in Results |->
    LET found == SelectSeq(r.text, LAMBDA s : s \in Objects \cup {"[{f}]", "[{g}]"})
    IN  IF r.calls # << >> \/ found = << >> THEN r
        ELSE Result([i \in DOMAIN found |-> Names[found[i]]], << >>)]

\* The text is the whole output t when a parser finds no call.
OrWhole(t) == [r \in Results |-> IF r.calls = << >> THEN Result(<< >>, t) ELSE r]

\* parse_tool_calls, the parser used when no other is configured or finds a call.
Generic ==
  [t \in Strings |->
    RawJson[Passes(<<Strict(Bracket), ToolFun, Strict(ToolJson), Strict(Fun)>>)[t]]]

Qwen ==
  [t \in Strings |->
    OrWhole(t)[Passes(<<Strict(Bracket), Strict(ToolJson)>>)[StripThink[t]]]]

\* Only the first raw object counts.
FirstRaw ==
  [r \in Results |->
    LET i == SelectInSeq(r.text, LAMBDA s : s \in Objects)
    IN  IF r.calls # << >> \/ i = 0 THEN r
        ELSE Result(<<Names[r.text[i]]>>, Cut(r.text, {i}))]

Hermes == [t \in Strings |-> FirstRaw[Passes(<<Strict(ToolJson)>>)[StripThink[t]]]]

Llama == [t \in Strings |-> OrWhole(t)[Passes(<<Fun>>)[t]]]

Nemotron == [t \in Strings |-> OrWhole(t)[Passes(<<ToolFun>>)[t]]]

Step3p5 == [t \in Strings |-> OrWhole(t)[Passes(<<ToolFun>>)[StripThink[t]]]]

\* <tool_call>name args</tool_call> with a name the request declares, or JSON;
\* a text with calls has no content.
GlmCalls ==
  [ms \in SUBSET Spans |->
    LET named == InOrder[{m \in ms : /\ m.body # << >> /\ m.body[1] \in {"f", "g"}
                                     /\ Tail(m.body) \in {<< >>, <<"<args>">>}}]
    IN  IF named # << >> THEN [i \in DOMAIN named |-> named[i].body[1]]
        ELSE CallsOf(TRUE)[ms]]

Unsaid == [r \in Results |-> IF r.calls = << >> THEN r ELSE Result(r.calls, << >>)]

Glm47 ==
  [t \in Strings |-> Unsaid[Result(GlmCalls[Matches(ToolAny)[StripThink[t]]], StripThink[t])]]

\* The content is what precedes the section of calls.
Kimi ==
  [t \in Strings |->
    OrWhole(t)[Result(Passes(<<KimiCall>>)[t].calls,
                      IF Has(t, "<|calls|>") THEN Before(t, "<|calls|>") ELSE << >>)]]

DeepSeek == [t \in Strings |-> IF Has(t, "<|calls|>") THEN Kimi[t] ELSE Result(<< >>, t)]

\* The parts after each [TOOL_CALLS]: a name and arguments, or an array.
Parts(t) ==
  LET at == SelectSeq([i \in DOMAIN t |-> i], LAMBDA i : t[i] = "[TOOL_CALLS]")
  IN  [k \in DOMAIN at |->
         SubSeq(t, at[k] + 1, IF k = Len(at) THEN Len(t) ELSE at[k + 1] - 1)]

IsPart(p) ==
  \/ p \in {<<n, a>> : n \in {"f", "g"}, a \in Objects \cup {"{args}"}}
  \/ p # << >> /\ p[1] \in {"[{f}]", "[{g}]"}

FromParts(parts, t) ==
  IF parts = << >> THEN Result(<< >>, t)
  ELSE Result([k \in DOMAIN parts |-> Names[parts[k][1]]], Before(t, "[TOOL_CALLS]"))

Mistral == [t \in Strings |-> FromParts(SelectSeq(Parts(t), IsPart), t)]

\* Only a text that is a tag and an array, and nothing else, is a call.
Granite ==
  [t \in Strings |->
    IF t \in {<<tag, a>> : tag \in {"<|tool_call|>", "<tool_call>"},
                           a \in {"[{f}]", "[{g}]"}}
    THEN Result(<<Names[t[2]]>>, << >>) ELSE Result(<< >>, t)]

\* Every <invoke> of every block; a block without one may be a JSON object.
InBlock ==
  [m \in Spans |->
    LET inv == Passes(<<Invoke>>)[m.body].calls
    IN  IF inv # << >> THEN inv ELSE CallsOf(TRUE)[{[m EXCEPT !.head = "-"]}]]

BlockCalls ==
  [ms \in SUBSET Spans |->
    FlattenSeq([i \in DOMAIN InOrder[ms] |-> InBlock[InOrder[ms][i]]])]

MiniMax ==
  [t \in Strings |->
    OrWhole(StripThink[t])[Result(BlockCalls[Matches(Minimax)[StripThink[t]]],
                                  Without(Minimax)[StripThink[t]])]]

\* The formats of the others, one after another; arguments need not decode.
IsLoosePart(p) ==
  \/ IsPart(p)
  \/ Len(p) > 1 /\ p[1] \in {"f", "g"} /\ p[2] \in Braces

ThenMiniMax ==
  [r \in Results |->
    LET s == MiniMax[r.text]
    IN  IF s.calls = << >> THEN r ELSE Result(r.calls \o s.calls, s.text)]

Auto ==
  [t \in Strings |->
    LET m == FromParts(SelectSeq(Parts(t), IsLoosePart), t)
    IN  IF m.calls # << >> THEN m
        ELSE OrWhole(t)[RawJson[Further(<<Strict(ToolJson), Fun>>)[
               ThenMiniMax[Passes(<<Bracket, ToolFun>>)[t]]]]]]

\* The parser of the configured family; without one, none finds a call.
Configured ==
  [qwen |-> Qwen, hermes |-> Hermes, llama |-> Llama, nemotron |-> Nemotron,
   step3p5 |-> Step3p5, glm47 |-> Glm47, kimi |-> Kimi, deepseek |-> DeepSeek,
   mistral |-> Mistral, granite |-> Granite, minimax |-> MiniMax, auto |-> Auto,
   none |-> [t \in Strings |-> Result(<< >>, t)]]

\* _parse_tool_calls_with_parser: the configured parser, then the generic one.
OrGeneric(t) == [r \in Results |-> IF r.calls = << >> THEN Generic[t] ELSE r]

ParseTools(family) == [t \in Strings |-> OrGeneric(t)[Configured[family][t]]]
=============================================================================
