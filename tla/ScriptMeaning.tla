---------------------------- MODULE ScriptMeaning ----------------------------
(***************************************************************************)
(* What a script means, and that Executor.Run answers by it: the parser,   *)
(* the expressions and the executor together.                              *)
(***************************************************************************)
EXTENDS ScriptExec, ScriptExpr, ScriptText

(***************************************************************************)
(* What a script means, apart from how it is run: loops bind index and     *)
(* item for their body only, and the limits cut what the script emits      *)
(* without them.  st is what was done so far: vars, mocks, and the error   *)
(* that ended it; at tells whether the error came from an emit.            *)
(***************************************************************************)
RECURSIVE Meaning(_, _, _)

Wrong(st, error, at) == [st EXCEPT !.error = error, !.at = at]

\* The body once for each pair of index and item.
Each(body, scopes, st) ==
  FoldLeft(LAMBDA acc, scope : Meaning(body, scope, acc), st, scopes)

AfterEmit(st, r) ==
  IF r.error # "" THEN Wrong(st, r.error, "emit") ELSE [st EXCEPT !.mocks = Append(@, r.mock)]

\* v is the value of the step's expression, n that value as an integer.
AfterStep(s, scope, st, v, n) ==
  CASE s.op = "let" -> [st EXCEPT !.vars = (s.name :> v) @@ @]
    [] s.op = "if" -> Meaning(IF Truthy(v) THEN s.then ELSE s.else, scope, st)
    [] s.op = "assert" -> IF Truthy(v) THEN st ELSE Wrong(st, "validation", "")
    [] s.op = "repeat" ->
         IF ~n.ok \/ n.n < 0 THEN Wrong(st, "validation", "")
         ELSE Each(s.do, [k \in 1 .. n.n |-> [scope EXCEPT !.index = k - 1]], st)
    [] s.op = "forEach" ->
         IF v[1] # "arr" THEN Wrong(st, "validation", "")
         ELSE Each(s.do, [k \in DOMAIN v[2] |-> [index |-> k - 1, item |-> v[2][k]]], st)

AfterEval(s, scope, st, r) ==
  IF r.ok THEN AfterStep(s, scope, st, r.v, ToIntStrict(r.v)) ELSE Wrong(st, "eval", "")

StepMeaning(s, scope, st) ==
  LET c == [base |-> Base, params |-> Params, vars |-> st.vars, index |-> scope.index,
            item |-> scope.item, rand |-> <<>>] IN
  IF s.op = "emit" THEN AfterEmit(st, MockOf(c, s, Len(st.mocks)))
  ELSE AfterEval(s, scope, st, EvalExpr(c, CASE s.op = "let" -> s.value
                                         [] s.op = "repeat" -> s.count
                                         [] s.op = "forEach" -> s.items
                                         [] OTHER -> s.cond))

Meaning(steps, scope, st) ==
  FoldLeft(LAMBDA acc, s : IF acc.error # "" THEN acc ELSE StepMeaning(s, scope, acc),
           st, steps)

\* What is left of meaning m once the limits have cut it.
Limited(m, kept, tooMany) ==
  CASE SizeOf(kept) > MaxBytes -> [is |-> "result_too_large"]
    [] SizeOf(kept) <= MaxBytes /\ tooMany -> [is |-> "too_many_mocks"]
    [] SizeOf(kept) <= MaxBytes /\ ~tooMany ->
         IF m.error # "" THEN [is |-> m.error] ELSE [is |-> "ok", generated |-> m.mocks]

WithinLimits(m) ==
  Limited(m, IF Len(m.mocks) > MaxMocks THEN SubSeq(m.mocks, 1, MaxMocks) ELSE m.mocks,
          Len(m.mocks) + (IF m.at = "emit" THEN 1 ELSE 0) > MaxMocks)

\* The answer Run owes for a script: the first thing to go wrong decides.
Owed(steps) ==
  WithinLimits(Meaning(steps, [index |-> NoIndex, item |-> Null],
                       [vars |-> <<>>, mocks |-> <<>>, error |-> "", at |-> ""]))

(***************************************************************************)
(* Where the loop variables are still those of the loop: an inner loop     *)
(* takes them from the rest of the body it is in.                          *)
(***************************************************************************)
RECURSIVE Reads(_, _), Clears(_, _), InScope(_, _)

RECURSIVE Mentions(_, _)
Mentions(e, field) ==
  CASE e[1] = "lit" -> FALSE
    [] e[1] = "path" -> Len(e[2]) > 1 /\ <<e[2][1], e[2][2]>> = LoopPath(field)[2]
    [] e[1] = "fn" ->
         \/ \E i \in DOMAIN e[3] : Mentions(e[3][i], field)
         \/ /\ e[2] = "get" /\ e[3] # <<>> /\ e[3][1][1] = "lit"
            /\ e[3][1][2][2] \in DOMAIN Spelled
            /\ Mentions(<<"path", Spelled[e[3][1][2][2]]>>, field)
    [] OTHER -> \E i \in DOMAIN e[2] : Mentions(e[2][i], field)

Reads(s, field) ==
  LET Some(steps) == \E i \in DOMAIN steps : Reads(steps[i], field) IN
  CASE s.op = "let" -> Mentions(s.value, field)
    [] s.op = "assert" -> Mentions(s.cond, field)
    [] s.op = "if" -> Mentions(s.cond, field) \/ Some(s.then) \/ Some(s.else)
    [] s.op = "repeat" -> Mentions(s.count, field) \/ (field = "item" /\ Some(s.do))
    [] s.op = "forEach" -> Mentions(s.items, field)
    [] s.op = "emit" -> \E e \in {s.name, s.requestMatch, s.responseTemplate, s.meta} :
                          Mentions(e, field)

Clears(s, field) ==
  LET Some(steps) == \E i \in DOMAIN steps : Clears(steps[i], field) IN
  CASE s.op = "if" -> Some(s.then) \/ Some(s.else)
    [] s.op = "repeat" -> field = "index" \/ Some(s.do)
    [] s.op = "forEach" -> TRUE
    [] OTHER -> FALSE

\* No step of a body reads what a step before it has cleared; a repeat does not
\* set the item again for its next round.
InScope(steps, field) ==
  /\ \A i, k \in DOMAIN steps : i < k => ~(Clears(steps[i], field) /\ Reads(steps[k], field))
  /\ \A i \in DOMAIN steps :
       LET s == steps[i] IN
       CASE s.op = "if" -> InScope(s.then, field) /\ InScope(s.else, field)
         [] s.op = "repeat" ->
              /\ InScope(s.do, field)
              /\ field = "item" => ~(Clears(s, field) /\ Reads(s, field))
         [] s.op = "forEach" -> InScope(s.do, field)
         [] OTHER -> TRUE

(***************************************************************************)
(* Properties.                                                             *)
(***************************************************************************)
\* The text form: both styles of the text of a script are read as its steps, or are
\* refused when it has a number that no text can spell, and a text with a lexeme missing
\* is never taken for something no text stands for.
TextMeansScript ==
  LET script == ParseScript(source) IN
  outcome = "unread" /\ script.ok =>
    /\ IF HasText(script.value) THEN ReadsAs(script.value)
       ELSE \A style \in Styles : ~ParseTextScript(ScriptText(script.value, style)).ok
    /\ IsText(source) => ReadsCutTexts(source.text)

\* The answer of Run is the one the meaning of the script owes, or a time-out, whatever
\* the goroutine still does after it: nesting, limits, seeds and the order of errors
\* come out right, unless the script reads a loop variable after an inner loop.
RunsAsWritten ==
  LET script == ParseScript(source) IN
  answer.is \notin {"none", "timeout"} =>
    IF source.seed = "" THEN answer.is = "validation"
    ELSE IF ~script.ok THEN answer.is = "parse"
    ELSE (\A s \in Range(script.value), field \in {"index", "item"} : InScope(<<s>>, field)) =>
           answer = Owed(script.value)

\* The language document names loop.item among the roots of paths, as it does
\* input.base: a path may go on into the item.
LoopItemIsARoot ==
  At("emit") /\ This.meta[1] = "path" /\ Mentions(This.meta, "item") =>
    LET r == Val(This.meta)
        rest == Walk(item, SubSeq(This.meta[2], 3, Len(This.meta[2]))) IN
    r.ok = rest.ok /\ (r.ok => r.v = rest.v)

==============================================================================
