----------------------------- MODULE ScriptExpr ------------------------------
(***************************************************************************)
(* EvalExpr of dsl-runner-svc: paths, the functions and the literals of    *)
(* arrays and objects.  See ScriptParser for expressions.                  *)
(*                                                                         *)
(* The generator of random numbers is known by its seed and the number of  *)
(* draws made: Draw says what comes next.  A drawn text is known by them.  *)
(***************************************************************************)
EXTENDS ScriptValues, SequencesExt

CONSTANTS
  Keys,         \* the keys of objects, in the order of sort.Strings
  Spelled,      \* the paths of the strings that spell one, by parsePath
  Draw(_, _)    \* Rand.Intn: the number below n that a generator draws next

(***************************************************************************)
(* An environment c has            base, params, vars, index and item, and *)
(* rand: the seed and the draws made, or <<>> outside of an emit.          *)
(***************************************************************************)
Value(v, rand) == [ok |-> TRUE, v |-> v, rand |-> rand]

RECURSIVE Walk(_, _)
Walk(v, path) ==
  IF path = <<>> THEN [ok |-> TRUE, v |-> v]
  ELSE LET part == Head(path) IN
       CASE v[1] = "obj" /\ part[1] = "key" /\ part[2] \in DOMAIN v[2] ->
              Walk(v[2][part[2]], Tail(path))
         [] v[1] = "arr" /\ part[1] = "at" /\ part[2] \in 0 .. Len(v[2]) - 1 ->
              Walk(v[2][part[2] + 1], Tail(path))
         [] OTHER -> Fail

\* What follows loop.index or loop.item is ignored.
ResolvePath(c, path) ==
  LET root == IF path[1][1] = "key" THEN path[1][2] ELSE ""
      second == IF Len(path) >= 2 /\ path[2][1] = "key" THEN path[2][2] ELSE "" IN
  CASE root = "input" /\ second = "base"   -> Walk(c.base, SubSeq(path, 3, Len(path)))
    [] root = "input" /\ second = "params" -> Walk(c.params, SubSeq(path, 3, Len(path)))
    [] root = "vars" /\ Len(path) >= 2     -> Walk(<<"obj", c.vars>>, Tail(path))
    [] root = "loop" /\ second = "index" /\ c.index # NoIndex ->
         [ok |-> TRUE, v |-> <<"num", c.index>>]
    [] root = "loop" /\ second = "item"    -> [ok |-> TRUE, v |-> c.item]
    [] OTHER -> Fail

Concat(args) == FoldLeft(LAMBDA s, v : s \o AsString(v), "", args)

\* get has the unevaluated path as its first argument, which may be a string too.
NamesPath(e) == e[1] = "path" \/ (e[1] = "lit" /\ e[2][1] = "str")

ResolveNamed(c, e) ==
  CASE e[1] = "path" -> ResolvePath(c, e[2])
    [] e[1] = "lit" /\ e[2][2] \in DOMAIN Spelled -> ResolvePath(c, Spelled[e[2][2]])
    [] OTHER -> Fail

Get(c, e, args) ==
  LET r == ResolveNamed(c, e) IN
  IF Len(args) > 1 \/ ~NamesPath(e) THEN Fail
  ELSE IF r.ok THEN Value(r.v, c.rand)
  ELSE IF args # <<>> THEN Value(args[1], c.rand) ELSE Fail

\* DefaultFuncs on the arguments' values, without join, lower, upper and sha256.
CallPlain(name, args) ==
  LET a == IF args = <<>> THEN Null ELSE args[1]
      Just(v) == [ok |-> TRUE, v |-> v] IN
  CASE name = "concat" -> Just(<<"str", Concat(args)>>)
    [] name = "len" /\ Len(args) = 1 /\ a[1] \in {"str", "arr"} -> Just(<<"num", Len(a[2])>>)
    [] name = "toString" /\ Len(args) = 1 -> Just(<<"str", AsString(a)>>)
    [] name = "toInt" /\ Len(args) = 1 /\ ToIntStrict(a).ok ->
         Just(<<"num", ToIntStrict(a).n>>)
    [] OTHER -> Fail

\* The random functions.  Float64 is at least 0 and less than 1, so that it is less
\* than a whole number or not whatever is drawn.
Alphabets == {"alnum", "hex", "alpha"}

CallRandom(name, args, rand) ==
  LET Whole(i) == ToIntStrict(args[i])
      allowed ==
        CASE name = "randInt" -> /\ Len(args) = 2 /\ Whole(1).ok /\ Whole(2).ok
                                 /\ Whole(1).n <= Whole(2).n
          [] name = "randBool" -> Len(args) = 1 /\ Whole(1).ok
          [] name = "randChoice" -> Len(args) = 1 /\ args[1][1] = "arr" /\ args[1][2] # <<>>
          [] name = "randString" -> /\ Len(args) = 2 /\ Whole(2).ok /\ Whole(2).n >= 0
                                    /\ AsString(args[1]) \in Alphabets
          [] name = "randUUID" -> args = <<>>
      drawn ==
        CASE name = "randInt" ->
               <<"num", Draw(rand, Whole(2).n - Whole(1).n + 1) + Whole(1).n>>
          [] name = "randBool" -> <<"bool", Whole(1).n >= 1>>
          [] name = "randChoice" -> args[1][2][Draw(rand, Len(args[1][2])) + 1]
          [] name = "randString" /\ Whole(2).n = 0 -> <<"str", "">>
          [] OTHER -> <<"str", name \o ToString(<<args, rand>>)>> IN
  IF rand # <<>> /\ allowed THEN Value(drawn, [rand EXCEPT !.draws = @ + 1]) ELSE Fail

Random == {"randInt", "randBool", "randChoice", "randString", "randUUID"}

Call(c, name, args) ==
  IF name \in Random THEN CallRandom(name, args, c.rand)
  ELSE LET r == CallPlain(name, args) IN IF r.ok THEN Value(r.v, c.rand) ELSE Fail

RECURSIVE Eval(_, _), EvalAll(_, _)

Eval(c, e) ==
  CASE e[1] = "lit"  -> Value(e[2], c.rand)
    [] e[1] = "path" -> LET r == ResolvePath(c, e[2]) IN
                        IF r.ok THEN Value(r.v, c.rand) ELSE Fail
    [] e[1] = "fn" /\ e[2] = "get" ->
         IF e[3] = <<>> THEN Fail
         ELSE LET args == EvalAll(c, Tail(e[3])) IN
              IF args.ok THEN Get([c EXCEPT !.rand = args.rand], Head(e[3]), args.v) ELSE Fail
    [] e[1] = "fn" ->
         LET args == EvalAll(c, e[3]) IN
         IF args.ok THEN Call([c EXCEPT !.rand = args.rand], e[2], args.v) ELSE Fail
    [] e[1] = "arr" ->
         LET all == EvalAll(c, e[2]) IN
         IF all.ok THEN Value(<<"arr", all.v>>, all.rand) ELSE Fail
    [] e[1] = "obj" ->
         LET Has(k) == k \in DOMAIN e[2]
             keys == SelectSeq(Keys, Has)
             all == EvalAll(c, [i \in DOMAIN keys |-> e[2][keys[i]]]) IN
         IF all.ok
         THEN Value(<<"obj", [k \in DOMAIN e[2] |-> all.v[CHOOSE i \in DOMAIN keys : keys[i] = k]]>>,
                    all.rand)
         ELSE Fail

\* In order: the draws of one are made before those of the next.
EvalAll(c, es) ==
  FoldLeft(LAMBDA done, e :
             LET r == Eval([c EXCEPT !.rand = done.rand], e) IN
             IF done.ok /\ r.ok THEN Value(Append(done.v, r.v), r.rand)
             ELSE [done EXCEPT !.ok = FALSE],
           Value(<<>>, c.rand), es)

==============================================================================
