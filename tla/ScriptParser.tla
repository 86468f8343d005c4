---------------------------- MODULE ScriptParser ----------------------------
(***************************************************************************)
(* How dsl-runner-svc reads a script: ParseScript takes the text form and  *)
(* the older JSON form to the same steps.                                  *)
(*                                                                         *)
(* A text is a sequence of lexemes [kind, lit]; the kind of a word is      *)
(* "word", of blanks and comments "blank", of what the lexer refuses       *)
(* "odd", of punctuation the sign itself.  Numbers are whole; the lexer    *)
(* knows no sign, JSON does.  A JSON document is a record with the fields  *)
(* it has, so is each of its steps.                                        *)
(*                                                                         *)
(* An expression is <<"lit", value>>, <<"path", parts>>, <<"fn", name,     *)
(* arguments>>, <<"arr", elements>> or <<"obj", function>>; a part of a    *)
(* path is <<"key", name>> or <<"at", n>>.                                 *)
(***************************************************************************)
EXTENDS ScriptValues, SequencesExt

(***************************************************************************)
(* What a parse function returns: an error, or a value and the tokens left.*)
(***************************************************************************)
Error == [ok |-> FALSE]
Read(value, rest) == [ok |-> TRUE, value |-> value, rest |-> rest]

\* if err != nil { return err }
Try(r, Next(_, _)) == IF r.ok THEN Next(r.value, r.rest) ELSE Error

(***************************************************************************)
(* textLexer.                                                              *)
(***************************************************************************)
Keywords == {"version", "let", "if", "else", "repeat", "for", "in", "emit",
             "assert", "true", "false", "null"}

Token(x) ==
  IF x.kind # "word" THEN x
  ELSE [x EXCEPT !.kind = IF x.lit \in Keywords THEN x.lit ELSE "ident"]

EOF == [kind |-> "eof", lit |-> ""]

Readable(x) == x.kind # "odd" /\ (x.kind = "number" => x.lit >= 0)

LexAll(text) ==
  IF \E i \in DOMAIN text : ~Readable(text[i]) THEN Error
  ELSE LET Solid(x) == x.kind # "blank"
           words == SelectSeq(text, Solid)
       IN  Read([i \in DOMAIN words |-> Token(words[i])] \o <<EOF>>, <<>>)

(***************************************************************************)
(* textParser.  ts are the tokens from p.pos on.                           *)
(***************************************************************************)
Kind(ts) == Head(ts).kind

Expect(ts, kind) == IF Kind(ts) = kind THEN Read(Head(ts).lit, Tail(ts)) ELSE Error

Match(ts, kinds) == IF Kind(ts) \in kinds THEN Tail(ts) ELSE ts

RECURSIVE MatchAll(_, _)
MatchAll(ts, kind) == IF Kind(ts) = kind THEN MatchAll(Tail(ts), kind) ELSE ts

RECURSIVE ParseExpr(_), ParsePrimary(_), ParseSum(_), ParseArgs(_), ParsePath(_),
          ParseObject(_, _), ParseArray(_)

\* a + b + c is one call of concat.
ParseExpr(ts) ==
  Try(ParsePrimary(ts), LAMBDA left, r1 :
    IF Kind(r1) # "+" THEN Read(left, r1)
    ELSE Try(ParseSum(r1), LAMBDA others, r2 :
           Read(<<"fn", "concat", <<left>> \o others>>, r2)))

ParseSum(ts) ==
  IF Kind(ts) # "+" THEN Read(<<>>, ts)
  ELSE Try(ParsePrimary(Tail(ts)), LAMBDA right, r1 :
         Try(ParseSum(r1), LAMBDA others, r2 : Read(<<right>> \o others, r2)))

\* Bare names are variables.
Rooted(path) ==
  IF path[1][2] \in {"input", "vars", "loop"} THEN path ELSE <<<<"key", "vars">>>> \o path

ParsePathOrCall(ts) ==
  LET name == Head(ts).lit  r1 == Tail(ts) IN
  IF Kind(r1) # "("
  THEN Try(ParsePath(r1), LAMBDA parts, r2 :
         Read(<<"path", Rooted(<<<<"key", name>>>> \o parts)>>, r2))
  ELSE Try(IF Kind(Tail(r1)) = ")" THEN Read(<<>>, Tail(r1)) ELSE ParseArgs(Tail(r1)),
           LAMBDA args, r2 :
             Try(Expect(r2, ")"), LAMBDA paren, r3 : Read(<<"fn", name, args>>, r3)))

ParsePrimary(ts) ==
  LET Lit(value) == Read(<<"lit", value>>, Tail(ts)) IN
  CASE Kind(ts) = "string" -> Lit(<<"str", Head(ts).lit>>)
    [] Kind(ts) = "number" -> Lit(<<"num", Head(ts).lit>>)
    [] Kind(ts) = "true"   -> Lit(<<"bool", TRUE>>)
    [] Kind(ts) = "false"  -> Lit(<<"bool", FALSE>>)
    [] Kind(ts) = "null"   -> Lit(Null)
    [] Kind(ts) = "ident"  -> ParsePathOrCall(ts)
    [] Kind(ts) = "("      -> Try(ParseExpr(Tail(ts)), LAMBDA value, r1 :
                                Try(Expect(r1, ")"), LAMBDA paren, r2 : Read(value, r2)))
    [] Kind(ts) = "{"      -> ParseObject(Tail(ts), <<>>)
    [] Kind(ts) = "["      -> ParseArray(Tail(ts))
    [] OTHER -> Error

ParseArgs(ts) ==
  Try(ParseExpr(ts), LAMBDA arg, r1 :
    IF Kind(r1) # "," THEN Read(<<arg>>, r1)
    ELSE Try(ParseArgs(Tail(r1)), LAMBDA others, r2 : Read(<<arg>> \o others, r2)))

ParsePath(ts) ==
  LET More(part, rest) ==
        Try(ParsePath(rest), LAMBDA parts, r : Read(<<part>> \o parts, r)) IN
  CASE Kind(ts) = "." -> Try(Expect(Tail(ts), "ident"), LAMBDA name, r1 :
                           More(<<"key", name>>, r1))
    [] Kind(ts) = "[" -> Try(Expect(Tail(ts), "number"), LAMBDA n, r1 :
                           Try(Expect(r1, "]"), LAMBDA bracket, r2 :
                             More(<<"at", n>>, r2)))
    [] OTHER -> Read(<<>>, ts)

\* A comma may be left out before the next key; a repeated key replaces the first.
ParseObject(ts, fields) ==
  IF Kind(ts) = "}" THEN Read(<<"obj", fields>>, Tail(ts))
  ELSE IF Kind(ts) \notin {"ident", "string"} THEN Error
  ELSE Try(Expect(Tail(ts), ":"), LAMBDA colon, r1 :
         Try(ParseExpr(r1), LAMBDA value, r2 :
           LET all == [k \in DOMAIN fields \union {Head(ts).lit} |->
                         IF k = Head(ts).lit THEN value ELSE fields[k]] IN
           IF Kind(r2) \in {",", "}", "ident", "string"}
           THEN ParseObject(Match(r2, {","}), all) ELSE Error))

\* ... but not between the elements of an array.
ParseArray(ts) ==
  IF Kind(ts) = "]" THEN Read(<<"arr", <<>>>>, Tail(ts))
  ELSE Try(ParseExpr(ts), LAMBDA value, r1 :
         IF Kind(r1) \in {",", "]"}
         THEN Try(ParseArray(Match(r1, {","})), LAMBDA arr, r2 :
                Read(<<"arr", <<value>> \o arr[2]>>, r2))
         ELSE Error)

RECURSIVE ParseStep(_), ParseStepsUntil(_, _), ParseFields(_, _)

ParseStepsUntil(ts, stop) ==
  LET r == MatchAll(ts, ";") IN
  IF Kind(r) = stop THEN Read(<<>>, r)
  ELSE IF Kind(r) = "eof" THEN Error
  ELSE Try(ParseStep(r), LAMBDA step, r1 :
         Try(ParseStepsUntil(r1, stop), LAMBDA steps, r2 : Read(<<step>> \o steps, r2)))

ParseBlock(ts) ==
  Try(Expect(ts, "{"), LAMBDA open, r1 :
    Try(ParseStepsUntil(r1, "}"), LAMBDA steps, r2 : Read(steps, Tail(r2))))

Let(name, value) == [op |-> "let", name |-> name, value |-> value]
LoopPath(field) == <<"path", <<<<"key", "loop">>, <<"key", field>>>>>>

ParseLet(ts) ==
  Try(Expect(ts, "ident"), LAMBDA name, r1 :
    Try(Expect(r1, "="), LAMBDA equal, r2 :
      Try(ParseExpr(r2), LAMBDA value, r3 : Read(Let(name, value), r3))))

ParseIf(ts) ==
  Try(ParseExpr(ts), LAMBDA cond, r1 :
    Try(ParseBlock(r1), LAMBDA yes, r2 :
      Try(IF Kind(r2) = "else" THEN ParseBlock(Tail(r2)) ELSE Read(<<>>, r2),
          LAMBDA no, r3 :
            Read([op |-> "if", cond |-> cond, then |-> yes, else |-> no], r3))))

ParseRepeat(ts) ==
  Try(ParseExpr(ts), LAMBDA count, r1 :
    Try(ParseBlock(r1), LAMBDA body, r2 :
      Read([op |-> "repeat", count |-> count, do |-> body], r2)))

\* A parseFor that forgets the index.
ParseForItem(ts) ==
  Try(Expect(ts, "ident"), LAMBDA item, r1 :
    Try(IF Kind(r1) = "," THEN Expect(Tail(r1), "ident") ELSE Read("", r1),
        LAMBDA index, r2 :
      Try(Expect(r2, "in"), LAMBDA in, r3 :
        Try(ParseExpr(r3), LAMBDA items, r4 :
          Try(ParseBlock(r4), LAMBDA body, r5 :
            Read([op |-> "forEach", items |-> items, do |->
                    <<Let(item, LoopPath("item"))>> \o body], r5))))))

\* The names of the loop become variables set at the start of the body.
ParseFor(ts) ==
  Try(Expect(ts, "ident"), LAMBDA item, r1 :
    Try(IF Kind(r1) = "," THEN Expect(Tail(r1), "ident") ELSE Read("", r1),
        LAMBDA index, r2 :
      Try(Expect(r2, "in"), LAMBDA in, r3 :
        Try(ParseExpr(r3), LAMBDA items, r4 :
          Try(ParseBlock(r4), LAMBDA body, r5 :
            Read([op |-> "forEach", items |-> items, do |->
                    <<Let(item, LoopPath("item"))>>
                    \o (IF index = "" THEN <<>> ELSE <<Let(index, LoopPath("index"))>>)
                    \o body], r5))))))

EmitFields == {"requestMatch", "responseTemplate", "meta"}

ParseFields(ts, fields) ==
  IF Kind(ts) = "}" THEN Read(fields, Tail(ts))
  ELSE Try(Expect(ts, "ident"), LAMBDA name, r1 :
         Try(ParseExpr(Match(r1, {":"})), LAMBDA value, r2 :
           IF name \notin EmitFields THEN Error
           ELSE ParseFields(Match(r2, {",", ";"}),
                            [k \in DOMAIN fields \union {name} |->
                               IF k = name THEN value ELSE fields[k]])))

ParseEmit(ts) ==
  Try(ParseExpr(ts), LAMBDA name, r1 :
    Try(Expect(r1, "{"), LAMBDA open, r2 :
      Try(ParseFields(r2, <<>>), LAMBDA fields, r3 :
        IF DOMAIN fields # EmitFields THEN Error
        ELSE Read([op |-> "emit", name |-> name, requestMatch |-> fields["requestMatch"],
                   responseTemplate |-> fields["responseTemplate"],
                   meta |-> fields["meta"]], r3))))

ParseAssert(ts) ==
  Try(ParseExpr(ts), LAMBDA cond, r1 :
    Try(Expect(Match(r1, {","}), "string"), LAMBDA msg, r2 :
      Read([op |-> "assert", cond |-> cond, error |-> msg], r2)))

ParseStep(ts) ==
  CASE Kind(ts) = "let"    -> ParseLet(Tail(ts))
    [] Kind(ts) = "if"     -> ParseIf(Tail(ts))
    [] Kind(ts) = "repeat" -> ParseRepeat(Tail(ts))
    [] Kind(ts) = "for"    -> ParseFor(Tail(ts))
    [] Kind(ts) = "emit"   -> ParseEmit(Tail(ts))
    [] Kind(ts) = "assert" -> ParseAssert(Tail(ts))
    [] OTHER -> Error

ParseProgram(ts) ==
  Try(Expect(ts, "version"), LAMBDA version, r1 :
    Try(Expect(r1, "number"), LAMBDA n, r2 :
      IF n # 1 THEN Error
      ELSE Try(ParseStepsUntil(Match(r2, {";"}), "eof"), LAMBDA steps, r3 :
             IF steps = <<>> THEN Error ELSE Read(steps, <<>>))))

ParseTextScript(text) == Try(LexAll(text), LAMBDA ts, none : ParseProgram(ts))

(***************************************************************************)
(* script.go: the JSON form.  Unknown fields are refused, and all the      *)
(* fields of a step but else are required.                                 *)
(***************************************************************************)
Fields ==
  [let |-> {"op", "name", "value"}, if |-> {"op", "cond", "then", "else"},
   repeat |-> {"op", "count", "do"}, forEach |-> {"op", "items", "do"},
   emit |-> {"op", "name"} \union EmitFields, assert |-> {"op", "cond", "error"}]

RECURSIVE ParseJSONStep(_), ParseJSONSteps(_)

ParseJSONSteps(raws) ==
  LET read == [i \in DOMAIN raws |-> ParseJSONStep(raws[i])] IN
  IF \E i \in DOMAIN raws : ~read[i].ok THEN Error
  ELSE Read([i \in DOMAIN raws |-> read[i].value], <<>>)

ParseJSONStep(raw) ==
  LET missing == Fields[raw.op] \ DOMAIN raw IN
  IF \/ raw.op \notin DOMAIN Fields
     \/ DOMAIN raw \ Fields[raw.op] # {}
     \/ missing \ {"else"} # {}
     \/ raw.op = "let" /\ raw.name = ""
     \/ raw.op = "assert" /\ raw.error = ""
  THEN Error
  ELSE CASE raw.op = "if" ->
              Try(ParseJSONSteps(raw.then), LAMBDA yes, r1 :
                Try(ParseJSONSteps(IF missing = {} THEN raw.else ELSE <<>>), LAMBDA no, r2 :
                  Read([op |-> "if", cond |-> raw.cond, then |-> yes, else |-> no], <<>>)))
         [] raw.op \in {"repeat", "forEach"} ->
              Try(ParseJSONSteps(raw.do), LAMBDA body, r1 :
                Read([raw EXCEPT !.do = body], <<>>))
         [] OTHER -> Read(raw, <<>>)

ParseJSONScript(doc) ==
  IF DOMAIN doc # {"version", "steps"} \/ doc.version # 1 \/ doc.steps = <<>> THEN Error
  ELSE ParseJSONSteps(doc.steps)

IsText(source) == "text" \in DOMAIN source

\* A text does not start with a brace.
ParseScript(source) ==
  IF IsText(source) THEN ParseTextScript(source.text) ELSE ParseJSONScript(source.doc)

==============================================================================
