----------------------------- MODULE ScriptText -----------------------------
(***************************************************************************)
(* The text form of a script as the language document of dsl-runner-svc    *)
(* shows it: the lexemes that stand for given steps, in a plain style that *)
(* leaves out whatever may be left out, and in a full one that does not.   *)
(* ScriptParser has to take both back to the steps.                        *)
(***************************************************************************)
EXTENDS ScriptParser, FiniteSets

Styles == {"plain", "full"}

Sign(kind) == <<[kind |-> kind, lit |-> kind]>>
Word(w) == <<[kind |-> "word", lit |-> w]>>
Comment == <<[kind |-> "blank", lit |-> "comment"]>>

\* What the full style writes and the plain one does not.
Full(style, text) == IF style = "full" THEN text ELSE <<>>

Joined(texts, separator) ==
  FoldLeft(LAMBDA t, u : IF t = <<>> THEN u ELSE t \o separator \o u, <<>>, texts)

RECURSIVE ExprText(_, _)

PathText(parts, style) ==
  LET short == style = "plain" /\ parts[1][2] = "vars" /\ Len(parts) > 1
                 /\ parts[2][2] \notin {"input", "vars", "loop"}
      written == IF short THEN Tail(parts) ELSE parts
      PartText(p) == IF p[1] = "key" THEN Sign(".") \o Word(p[2])
                     ELSE Sign("[") \o <<[kind |-> "number", lit |-> p[2]]>> \o Sign("]")
  IN  Tail(FoldLeft(LAMBDA t, p : t \o PartText(p), <<>>, written))

IsSum(e, style) == style = "plain" /\ e[1] = "fn" /\ e[2] = "concat" /\ Len(e[3]) > 1

ExprText(e, style) ==
  LET Texts(es) == [i \in DOMAIN es |-> ExprText(es[i], style)]
      Term(x) == IF IsSum(x, style) THEN Sign("(") \o ExprText(x, style) \o Sign(")")
                 ELSE ExprText(x, style) IN
  CASE e[1] = "lit" ->
        (CASE e[2][1] = "str"  -> <<[kind |-> "string", lit |-> e[2][2]]>>
           [] e[2][1] = "num"  -> <<[kind |-> "number", lit |-> e[2][2]]>>
           [] e[2][1] = "bool" -> Word(IF e[2][2] THEN "true" ELSE "false")
           [] e[2][1] = "null" -> Word("null"))
    [] e[1] = "path" -> PathText(e[2], style)
    [] IsSum(e, style) -> Joined([i \in DOMAIN e[3] |-> Term(e[3][i])], Sign("+"))
    [] e[1] = "fn" /\ ~IsSum(e, style) ->
         Word(e[2]) \o Sign("(") \o Joined(Texts(e[3]), Sign(",")) \o Sign(")")
    [] e[1] = "arr" ->
         Sign("[") \o Joined(Texts(e[2]), Sign(","))
         \o (IF e[2] = <<>> THEN <<>> ELSE Full(style, Sign(","))) \o Sign("]")
    [] e[1] = "obj" ->
         LET keys == SetToSeq(DOMAIN e[2])
             Field(k) == Word(k) \o Sign(":") \o ExprText(e[2][k], style) IN
         Sign("{") \o Joined([i \in DOMAIN keys |-> Field(keys[i])], Full(style, Sign(",")))
         \o Sign("}")

RECURSIVE StepsText(_, _)

StepText(s, style) ==
  LET X(e) == ExprText(e, style)
      Block(steps) == Sign("{") \o Full(style, Comment) \o StepsText(steps, style) \o Sign("}")
      Field(name, e) == Word(name) \o Full(style, Sign(":")) \o X(e) IN
  CASE s.op = "let" -> Word("let") \o Word(s.name) \o Sign("=") \o X(s.value)
    [] s.op = "if" -> Word("if") \o X(s.cond) \o Block(s.then)
         \o (IF style = "plain" /\ s.else = <<>> THEN <<>> ELSE Word("else") \o Block(s.else))
    [] s.op = "repeat" -> Word("repeat") \o X(s.count) \o Block(s.do)
    [] s.op = "forEach" ->
         LET indexed == Len(s.do) > 1 /\ s.do[2].op = "let" /\ s.do[2].value = LoopPath("index")
             body == SubSeq(s.do, IF indexed THEN 3 ELSE 2, Len(s.do)) IN
         Word("for") \o Word(s.do[1].name)
         \o (IF indexed THEN Sign(",") \o Word(s.do[2].name) ELSE <<>>)
         \o Word("in") \o X(s.items) \o Block(body)
    [] s.op = "emit" ->
         Word("emit") \o X(s.name) \o Sign("{")
         \o Joined(<<Field("meta", s.meta), Field("requestMatch", s.requestMatch),
                     Field("responseTemplate", s.responseTemplate)>>, Full(style, Sign(",")))
         \o Sign("}")
    [] s.op = "assert" ->
         Word("assert") \o X(s.cond) \o Full(style, Sign(","))
         \o <<[kind |-> "string", lit |-> s.error]>>

StepsText(steps, style) ==
  FoldLeft(LAMBDA t, s : t \o StepText(s, style) \o Full(style, Sign(";")), <<>>, steps)

ScriptText(steps, style) ==
  Word("version") \o <<[kind |-> "number", lit |-> 1]>> \o StepsText(steps, style)

\* Braces that open and close in pairs.
Balanced(text) ==
  LET Count(kind, i) == Cardinality({j \in 1 .. i : text[j].kind = kind}) IN
  /\ \A i \in DOMAIN text : Count("}", i) <= Count("{", i)
  /\ Count("}", Len(text)) = Count("{", Len(text))

\* Steps with a negative number can only be given as JSON.
HasText(steps) ==
  \A x \in Range(ScriptText(steps, "full")) : x.kind = "number" => x.lit \in Nat

\* The steps are what either style of their text is read as.
ReadsAs(steps) ==
  \A style \in Styles : ParseTextScript(ScriptText(steps, style)) = Read(steps, <<>>)

\* A text one lexeme of which is missing is refused, or is the text of other steps.
ReadsCutTexts(text) ==
  \A i \in DOMAIN text :
    LET cut == RemoveAt(text, i)
        r == ParseTextScript(cut) IN
    r.ok => Balanced(cut) /\ ReadsAs(r.value)

==============================================================================
