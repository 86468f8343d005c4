---------------------------- MODULE MCScriptExec ----------------------------
\* Small scripts for TLC: every leaf around and inside of an inner loop, and a
\* list of scripts for what the loops do not show.
EXTENDS ScriptMeaning

Num(n) == <<"lit", <<"num", n>>>>
Str(s) == <<"lit", <<"str", s>>>>
Path(root, field) == <<"path", <<<<"key", root>>, <<"key", field>>>>>>
Var(x) == Path("vars", x)
Param(x) == <<"path", Path("input", "params")[2] \o <<<<"key", x>>>>>>
Fn(f, args) == <<"fn", f, args>>
Obj(f) == <<"obj", f>>
Nothing == <<"lit", Null>>

Emitting(name, response, meta) ==
  [op |-> "emit", name |-> name, requestMatch |-> Obj(<<>>),
   responseTemplate |-> response, meta |-> meta]
If(cond, yes, no) == [op |-> "if", cond |-> cond, then |-> yes, else |-> no]
Repeat(count, body) == [op |-> "repeat", count |-> count, do |-> body]
For(x, items, body) ==
  [op |-> "forEach", items |-> items, do |-> <<Let(x, LoopPath("item"))>> \o body]
ForIndexed(x, i, items, body) ==
  For(x, items, <<Let(i, LoopPath("index"))>> \o body)
Insisting(cond) == [op |-> "assert", cond |-> cond, error |-> "refused"]

Draws == Obj([b |-> Fn("randUUID", <<>>), a |-> Fn("randInt", <<Num(0), Num(1)>>)])
Default(e, d) == Fn("get", <<e, d>>)

EmitIndex == Emitting(Fn("concat", <<Str("g"), LoopPath("index")>>), Draws, Nothing)
EmitItem == Emitting(Fn("concat", <<Str("i"), Default(Var("x"), Str("d"))>>),
                     Var("it"), LoopPath("item"))
LetIndex == Let("x", LoopPath("index"))
Choice == If(LoopPath("index"), <<EmitIndex>>, <<Let("x", LoopPath("item"))>>)
Insist == Insisting(Default(Var("x"), Str("set")))

Leaves == {EmitIndex, EmitItem, LetIndex, Choice, Insist}

Loops(body) == {Repeat(Num(2), body), For("it", Param("items"), body),
                ForIndexed("it", "x", Param("items"), body)}

Nested == {<<outer>> : outer \in UNION {
             UNION {Loops(<<a, inner, c>>) : inner \in UNION {Loops(<<b>>) : b \in Leaves}} :
             a \in Leaves, c \in Leaves \union {Repeat(Num(2), <<EmitIndex>>)}}}

Others == {
  <<Repeat(Num(2), <<EmitIndex>>), Let("x", Default(LoopPath("index"), Str("out"))), EmitItem>>,
  <<Let("it", Num(1)), For("it", Param("items"), <<EmitItem>>), EmitIndex>>,
  <<For("it", Param("items"), <<If(Var("it"), <<>>, <<>>)>>),
    Emitting(Str("a"), Nothing, LoopPath("item")), Repeat(Num(0), <<EmitIndex>>),
    Repeat(Str("1"), <<EmitIndex>>)>>,
  <<Repeat(Num(2), <<For("it", Param("none"), <<>>)>>), EmitIndex>>,
  <<For("it", Param("n"), <<EmitItem>>)>>,
  <<Repeat(Param("items"), <<EmitItem>>)>>,
  <<Repeat(Param("unknown"), <<EmitItem>>)>>,
  <<For("it", Var("x"), <<EmitItem>>)>>,
  <<Emitting(Num(1), Fn("randUUID", <<Num(1)>>), Nothing)>>,
  <<Emitting(Str("a"), Fn("randInt", <<Num(2), Num(1)>>), Nothing)>>,
  <<Let("x", Fn("randUUID", <<>>)), EmitItem>>,
  <<Emitting(Fn("randString", <<Str("hex"), Num(1)>>), Fn("randBool", <<Num(1)>>),
             Fn("randChoice", <<Param("items")>>)),
    Emitting(Fn("randString", <<Str("octal"), Num(1)>>), Nothing, Nothing)>>,
  <<Let("x", Num(1)),
    Emitting(Str("a"), Default(Str("vars.x"), Str("d")), Default(Str("vars.y"), Str("d"))),
    Repeat(Default(Str("loop.index"), Num(1)), <<Let("x", Default(Str("other"), Num(0)))>>),
    Let("x", Fn("get", <<Var("x")>>)), Let("x", Default(Num(1), Num(2)))>>,
  <<Emitting(Fn("randChoice", <<<<"arr", <<Str("c"), Str("d")>>>>>>),
             Fn("randBool", <<Num(0)>>), Nothing),
    Emitting(Fn("randChoice", <<<<"arr", <<Str("c"), Num(1)>>>>>>), Nothing, Nothing)>>,
  <<Emitting(Fn("randUUID", <<>>), <<"arr", <<Fn("len", <<Param("items")>>), Nothing>>>>,
             Fn("toInt", <<Str("7")>>))>>,
  <<Let("x", <<"path", Param("items")[2] \o <<<<"at", 1>>, <<"key", "name">>>>>>),
    If(Fn("unknown", <<Var("x")>>), <<EmitItem>>, <<>>)>>,
  <<Let("x", <<"path", Param("items")[2] \o <<<<"at", 1>>, <<"key", "name">>>>>>),
    If(Var("x"), <<EmitItem>>, <<Insisting(Num(0))>>), Insisting(Fn("toString", <<Var("x")>>)),
    Insisting(<<"lit", <<"bool", FALSE>>>>)>>,
  <<Let("x", Fn("concat", <<Fn("concat", <<Str("a"), <<"lit", <<"bool", TRUE>>>>>>), Num(1)>>)),
    Emitting(Var("x"), Obj([a |-> Obj([b |-> Var("x")])]), <<"arr", <<>>>>)>>}

\* loop.item.name
EmitName == Emitting(Str("n"), Nothing, <<"path", LoopPath("item")[2] \o <<<<"key", "name">>>>>>)
Reaching == {<<For("it", Param("items"), <<EmitName>>)>>}

JSON(doc) == [doc |-> doc, seed |-> "seed"]
Document(steps) == JSON([version |-> 1, steps |-> steps])
Written(text) == [text |-> text, seed |-> "seed"]
Text(steps, style) == Written(ScriptText(steps, style))

Odd == <<[kind |-> "odd", lit |-> "%"]>>
Refused == {
  Document(<<>>), JSON([steps |-> <<LetIndex>>]), JSON([version |-> 2, steps |-> <<LetIndex>>]),
  Document(<<[op |-> "goto"]>>), Document(<<[op |-> "let", name |-> "x"]>>),
  Document(<<Let("", Num(1))>>), Document(<<[LetIndex EXCEPT !.op = "assert"]>>),
  Document(<<Repeat(Num(1), <<[op |-> "repeat", count |-> Num(1)]>>)>>),
  Document(<<If(Num(1), <<Let("", Num(1))>>, <<>>)>>),
  Written(ScriptText(<<LetIndex>>, "plain") \o Odd), Written(Word("version")),
  Text(<<Let("x", Num(-1))>>, "plain"),
  [Document(<<EmitItem>>) EXCEPT !.seed = ""], [Document(<<>>) EXCEPT !.seed = ""]}

MCSources ==
  {Document(steps) : steps \in Nested \union Others \union Reaching}
  \union {Document(<<[op |-> "if", cond |-> Num(1), then |-> <<EmitItem>>]>>),
          Document(<<Repeat(Num(-1), <<>>)>>),
          Document(<<Emitting(Str("a"), Fn("randInt", <<Num(-1), Num(1)>>), Nothing)>>)}
  \union {Text(steps, style) : steps \in Others \union Reaching, style \in Styles}
  \union Refused

ReachingSources == {Document(steps) : steps \in Reaching}

MCBase == <<"obj", [path |-> <<"str", "b">>]>>
MCParams ==
  <<"obj", [items |-> <<"arr", <<<<"obj", [name |-> <<"str", "p">>]>>,
                                 <<"obj", [name |-> <<"str", "q">>]>>>>>>,
            none |-> <<"arr", <<>>>>, n |-> <<"num", 2>>]>>
MCLimits == {[mocks |-> 3, bytes |-> 9], [mocks |-> 0, bytes |-> 3], [mocks |-> 9, bytes |-> 0]}
MCKeys == <<"a", "b">>
MCSpelled == ("vars.x" :> Var("x")[2]) @@ ("vars.y" :> Var("y")[2])
             @@ ("loop.index" :> LoopPath("index")[2])
MCDraw(rand, n) == (rand.seed + rand.draws) % n

\* The evaluator of the executor.  It is a LET so that TLC, when it counts what each
\* expression costs, does not unfold the recursion of Eval at every use.
MCEvalExpr(c, e) == LET result == Eval(c, e) IN result

==============================================================================
