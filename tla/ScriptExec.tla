----------------------------- MODULE ScriptExec ------------------------------
(***************************************************************************)
(* Executor.Run of dsl-runner-svc: a script is read, its steps are run by  *)
(* a goroutine under a deadline, and what it has emitted is the answer.    *)
(* How a script is read and an expression is evaluated are parameters,     *)
(* which ScriptParser and ScriptExpr give their values.                    *)
(*                                                                         *)
(* The recursion of runSteps is a stack of frames.  Seeds are derived from *)
(* the job's seed, the script and the number of mocks emitted, of which    *)
(* the last one varies within a run.                                       *)
(***************************************************************************)
EXTENDS ScriptValues

CONSTANTS
  Sources,    \* the scripts: records with a text or a (JSON) doc, and the job's seed
  Base,       \* the base mock of the job
  Params,     \* its parameters
  Limits,     \* the limits asked for: records of mocks and bytes
  MockCap, MockDefault, ByteCap, ByteDefault,
  ReadScript(_),    \* ParseScript: no success, or the steps of a source
  EvalExpr(_, _)    \* the value of an expression in an environment, and the draws made

ASSUME LimitsAssumption == \A l \in Limits : l.mocks \in Int /\ l.bytes \in Int
ASSUME BoundsAssumption ==
  MockCap \in Nat \ {0} /\ MockDefault \in 1 .. MockCap
  /\ ByteCap \in Nat \ {0} /\ ByteDefault \in 1 .. ByteCap

VARIABLES
  source, limits,    \* what Run is called with
  stack,             \* the active calls of runSteps and the loops they are in
  vars, index, item, \* EvalContext: Vars, LoopIndex and LoopItem
  generated, bytes,  \* executorState: the mocks, whose number is emitted, and their size
  outcome,           \* what runSteps returned; running before
  answer             \* what Run returned; none before

env == <<vars, index, item>>
exec == <<stack, env, generated, bytes, outcome>>
allVars == <<source, limits, exec, answer>>

EnforceMax(val, cap, fallback) ==
  IF val <= 0 THEN fallback ELSE IF val > cap THEN cap ELSE val

MaxMocks == EnforceMax(limits.mocks, MockCap, MockDefault)
MaxBytes == EnforceMax(limits.bytes, ByteCap, ByteDefault)

(***************************************************************************)
(* emit.                                                                   *)
(***************************************************************************)
\* The length of a mock as JSON: what the run tells apart is a short and a long one.
Size(mock) == IF mock.meta = Null THEN 1 ELSE 2

SizeOf(mocks) ==
  LET sum[n \in 0 .. Len(mocks)] == IF n = 0 THEN 0 ELSE sum[n - 1] + Size(mocks[n])
  IN  sum[Len(mocks)]

\* The four expressions of an emit, evaluated with a seed of their own; the name is
\* looked at before the others are evaluated.
MockOf(c, s, seed) ==
  LET After(e, before) == EvalExpr([c EXCEPT !.rand = before.rand], e)
      name == EvalExpr([c EXCEPT !.rand = [seed |-> seed, draws |-> 0]], s.name)
      request == After(s.requestMatch, name)
      response == After(s.responseTemplate, request)
      meta == After(s.meta, response) IN
  CASE ~name.ok -> [error |-> "eval"]
    [] name.ok /\ (name.v[1] # "str" \/ name.v[2] = "") -> [error |-> "validation"]
    [] OTHER -> IF request.ok /\ response.ok /\ meta.ok
                THEN [error |-> "", mock |->
                       [name |-> name.v[2], requestMatch |-> request.v,
                        responseTemplate |-> response.v, meta |-> meta.v,
                        derivedSeed |-> seed]]
                ELSE [error |-> "eval"]

(***************************************************************************)
(* runSteps.                                                               *)
(***************************************************************************)
Frame(steps) == [todo |-> steps, kind |-> "block", body |-> <<>>, i |-> 0, items |-> <<>>]
Loop(kind, body, items) ==
  [todo |-> body, kind |-> kind, body |-> body, i |-> 0, items |-> items]

Top == stack[Len(stack)]
Context == [base |-> Base, params |-> Params, vars |-> vars, index |-> index,
            item |-> item, rand |-> <<>>]
Val(e) == EvalExpr(Context, e)

Init ==
  /\ source \in Sources
  /\ limits \in Limits
  /\ stack = <<>>
  /\ vars = <<>> /\ index = NoIndex /\ item = Null
  /\ generated = <<>> /\ bytes = 0
  /\ outcome = "unread"
  /\ answer = [is |-> "none"]

\* Run up to withTimeout.  Process has refused an empty script, and base and params
\* that are not JSON, before it calls Run, but not an empty seed.
Parse ==
  /\ outcome = "unread"
  /\ LET script == ReadScript(source)
         error == IF source.seed = "" THEN "validation" ELSE "parse" IN
     IF source.seed # "" /\ script.ok
     THEN /\ stack' = <<Frame(script.value)>>
          /\ outcome' = "running"
          /\ UNCHANGED answer
     ELSE /\ outcome' = error
          /\ answer' = [is |-> error]
          /\ UNCHANGED stack
  /\ UNCHANGED <<source, limits, env, generated, bytes>>

\* The first step left in the innermost call.
At(op) == outcome = "running" /\ stack # <<>> /\ Top.todo # <<>> /\ Head(Top.todo).op = op
This == Head(Top.todo)
Rest == [stack EXCEPT ![Len(stack)].todo = Tail(@)]

Halt(error) ==
  /\ outcome' = error
  /\ UNCHANGED <<stack, env, generated, bytes>>

RunLet ==
  /\ At("let")
  /\ LET r == Val(This.value) IN
     IF ~r.ok THEN Halt("eval")
     ELSE /\ vars' = (This.name :> r.v) @@ vars
          /\ stack' = Rest
          /\ UNCHANGED <<index, item, generated, bytes, outcome>>
  /\ UNCHANGED <<source, limits, answer>>

RunIf ==
  /\ At("if")
  /\ LET r == Val(This.cond) IN
     IF ~r.ok THEN Halt("eval")
     ELSE /\ stack' = Append(Rest, Frame(IF Truthy(r.v) THEN This.then ELSE This.else))
          /\ UNCHANGED <<env, generated, bytes, outcome>>
  /\ UNCHANGED <<source, limits, answer>>

RunRepeat ==
  /\ At("repeat")
  /\ LET r == Val(This.count)
         n == IF r.ok THEN ToIntStrict(r.v) ELSE Fail IN
     CASE ~r.ok -> Halt("eval")
       [] r.ok /\ (~n.ok \/ n.n < 0) -> Halt("validation")
       [] OTHER ->
            /\ IF n.n = 0 THEN stack' = Rest /\ index' = NoIndex
               ELSE /\ stack' = Append(Rest, Loop("repeat", This.do, [k \in 1 .. n.n |-> Null]))
                    /\ index' = 0
            /\ UNCHANGED <<vars, item, generated, bytes, outcome>>
  /\ UNCHANGED <<source, limits, answer>>

RunForEach ==
  /\ At("forEach")
  /\ LET r == Val(This.items) IN
     CASE ~r.ok -> Halt("eval")
       [] r.ok /\ r.v[1] # "arr" -> Halt("validation")
       [] OTHER ->
            /\ IF r.v[2] = <<>> THEN stack' = Rest /\ index' = NoIndex /\ item' = Null
               ELSE /\ stack' = Append(Rest, Loop("forEach", This.do, r.v[2]))
                    /\ index' = 0
                    /\ item' = r.v[2][1]
            /\ UNCHANGED <<vars, generated, bytes, outcome>>
  /\ UNCHANGED <<source, limits, answer>>

RunAssert ==
  /\ At("assert")
  /\ LET r == Val(This.cond) IN
     CASE ~r.ok -> Halt("eval")
       [] r.ok /\ ~Truthy(r.v) -> Halt("validation")
       [] OTHER -> stack' = Rest /\ UNCHANGED <<env, generated, bytes, outcome>>
  /\ UNCHANGED <<source, limits, answer>>

\* An emit that counts the mocks after it.
EmitThenCount ==
  /\ At("emit")
  /\ LET r == MockOf(Context, This, Len(generated)) IN
     CASE Len(generated) > MaxMocks -> Halt("too_many_mocks")
       [] Len(generated) <= MaxMocks /\ r.error # "" -> Halt(r.error)
       [] OTHER ->
            /\ bytes' = bytes + Size(r.mock)
            /\ IF bytes' > MaxBytes
               THEN outcome' = "result_too_large" /\ UNCHANGED <<stack, generated>>
               ELSE /\ generated' = Append(generated, r.mock)
                    /\ stack' = Rest
                    /\ UNCHANGED outcome
            /\ UNCHANGED env
  /\ UNCHANGED <<source, limits, answer>>

\* The mocks are counted before an emit, the bytes after it.
Emit ==
  /\ At("emit")
  /\ LET r == MockOf(Context, This, Len(generated)) IN
     CASE Len(generated) >= MaxMocks -> Halt("too_many_mocks")
       [] Len(generated) < MaxMocks /\ r.error # "" -> Halt(r.error)
       [] OTHER ->
            /\ bytes' = bytes + Size(r.mock)
            /\ IF bytes' > MaxBytes
               THEN outcome' = "result_too_large" /\ UNCHANGED <<stack, generated>>
               ELSE /\ generated' = Append(generated, r.mock)
                    /\ stack' = Rest
                    /\ UNCHANGED outcome
            /\ UNCHANGED env
  /\ UNCHANGED <<source, limits, answer>>

Pop == SubSeq(stack, 1, Len(stack) - 1)

\* An end of a loop that leaves the loop variables set.
EndBlockOnly ==
  /\ outcome = "running"
  /\ stack # <<>>
  /\ Top.todo = <<>>
  /\ LET i == Top.i + 1 IN
     IF Top.kind # "block" /\ i < Len(Top.items)
     THEN /\ stack' = Append(Pop, [Top EXCEPT !.todo = Top.body, !.i = i])
          /\ index' = i
          /\ item' = IF Top.kind = "forEach" THEN Top.items[i + 1] ELSE item
     ELSE stack' = Pop /\ UNCHANGED <<index, item>>
  /\ UNCHANGED <<source, limits, vars, generated, bytes, outcome, answer>>

\* An end of a forEach that clears the index only.
EndBlockKeepsItem ==
  /\ outcome = "running"
  /\ stack # <<>>
  /\ Top.todo = <<>>
  /\ LET i == Top.i + 1 IN
     IF Top.kind # "block" /\ i < Len(Top.items)
     THEN /\ stack' = Append(Pop, [Top EXCEPT !.todo = Top.body, !.i = i])
          /\ index' = i
          /\ item' = IF Top.kind = "forEach" THEN Top.items[i + 1] ELSE item
     ELSE /\ stack' = Pop
          /\ index' = IF Top.kind = "block" THEN index ELSE NoIndex
          /\ UNCHANGED item
  /\ UNCHANGED <<source, limits, vars, generated, bytes, outcome, answer>>

\* A call of runSteps returns, and the loop around it goes on or ends.
EndBlock ==
  /\ outcome = "running"
  /\ stack # <<>>
  /\ Top.todo = <<>>
  /\ LET i == Top.i + 1 IN
     IF Top.kind # "block" /\ i < Len(Top.items)
     THEN /\ stack' = Append(Pop, [Top EXCEPT !.todo = Top.body, !.i = i])
          /\ index' = i
          /\ item' = IF Top.kind = "forEach" THEN Top.items[i + 1] ELSE item
     ELSE /\ stack' = Pop
          /\ index' = IF Top.kind = "block" THEN index ELSE NoIndex
          /\ item' = IF Top.kind = "forEach" THEN Null ELSE item
  /\ UNCHANGED <<source, limits, vars, generated, bytes, outcome, answer>>

EndScript ==
  /\ outcome = "running"
  /\ stack = <<>>
  /\ outcome' = "ok"
  /\ UNCHANGED <<source, limits, stack, env, generated, bytes, answer>>

(***************************************************************************)
(* withTimeout: the deadline passes, or the goroutine's error is received; *)
(* after the deadline the goroutine goes on, with nobody listening.        *)
(***************************************************************************)
Timeout ==
  /\ outcome # "unread"
  /\ answer.is = "none"
  /\ answer' = [is |-> "timeout"]
  /\ UNCHANGED <<source, limits, exec>>

Return ==
  /\ outcome \notin {"unread", "running"}
  /\ answer.is = "none"
  /\ answer' = IF outcome = "ok" THEN [is |-> "ok", generated |-> generated]
               ELSE [is |-> outcome]
  /\ UNCHANGED <<source, limits, exec>>

Next ==
  \/ Parse
  \/ RunLet \/ RunIf \/ RunRepeat \/ RunForEach \/ RunAssert \/ Emit
  \/ EndBlock \/ EndScript
  \/ Timeout \/ Return

Spec == Init /\ [][Next]_allVars

(***************************************************************************)
(* Properties.                                                             *)
(***************************************************************************)
Answers == {"none", "ok", "timeout", "parse", "eval", "validation", "too_many_mocks",
            "result_too_large"}

\* Types, and the limits, which the caps bound whatever was asked for: at most
\* MaxMocks mocks of together at most MaxBytes bytes are ever kept, each with the
\* seed of its place.
TypeOK ==
  /\ limits \in Limits
  /\ outcome \in {"unread", "running"} \union (Answers \ {"none", "timeout"})
  /\ answer.is \in Answers
  /\ index >= NoIndex
  /\ MaxMocks \in 1 .. MockCap /\ MaxBytes \in 1 .. ByteCap
  /\ Len(generated) <= MaxMocks
  /\ \A i \in DOMAIN generated : generated[i].derivedSeed = i - 1
  /\ outcome # "result_too_large" => bytes = SizeOf(generated) /\ bytes <= MaxBytes
  /\ \A i \in DOMAIN stack : stack[i].i = 0 \/ stack[i].i < Len(stack[i].items)

\* No loop of a kind lies between frame k, which is one, and the step.
Innermost(k, kinds) ==
  /\ stack[k].kind \in kinds
  /\ \A j \in k + 1 .. Len(stack) : stack[j].kind \notin kinds

\* A loop variable that is set is the round of the innermost loop, or the item of the
\* innermost forEach, around the step: after an inner loop it may be missing, but it
\* never has a value from a loop that has ended.
LoopVariables ==
  /\ index # NoIndex =>
       \E k \in DOMAIN stack : Innermost(k, {"repeat", "forEach"}) /\ index = stack[k].i
  /\ item # Null =>
       \E k \in DOMAIN stack :
         Innermost(k, {"forEach"}) /\ item = stack[k].items[stack[k].i + 1]

==============================================================================
