---------------------------- MODULE ScriptValues -----------------------------
(***************************************************************************)
(* The values that scripts of dsl-runner-svc compute with: <<"num", n>>,   *)
(* <<"str", s>>, <<"bool", b>>, <<"null">>, <<"arr", values>> and          *)
(* <<"obj", function>>, as JSON has them, with whole numbers only; and     *)
(* what the executor and the functions of expressions do with any value.   *)
(***************************************************************************)
EXTENDS Integers, Sequences, TLC

Null == <<"null">>

\* EvalContext.LoopIndex outside of a loop.
NoIndex == -1

\* What an evaluation returns when it fails.
Fail == [ok |-> FALSE]

Truthy(v) == v \notin {<<"bool", FALSE>>, Null, <<"str", "">>, <<"num", 0>>}

\* Digits are read by Atoi.
MaxDigits == 20
ToIntStrict(v) ==
  CASE v[1] = "num" -> [ok |-> TRUE, n |-> v[2]]
    [] v[1] = "str" /\ \E n \in 0 .. MaxDigits : ToString(n) = v[2] ->
         [ok |-> TRUE, n |-> CHOOSE n \in 0 .. MaxDigits : ToString(n) = v[2]]
    [] OTHER -> Fail

AsString(v) ==
  CASE v[1] = "str" -> v[2]
    [] v[1] = "num" -> ToString(v[2])
    [] v[1] = "bool" -> IF v[2] THEN "true" ELSE "false"
    [] v[1] = "null" -> "null"
    [] OTHER -> ToString(v)

==============================================================================
