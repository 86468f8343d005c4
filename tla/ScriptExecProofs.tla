-------------------------- MODULE ScriptExecProofs ---------------------------
(***************************************************************************)
(* Proofs of the safety properties of ScriptExec, for any scripts, limits  *)
(* and expressions, however they are read and evaluated.                   *)
(***************************************************************************)
EXTENDS ScriptExec, SequenceTheorems, WellFoundedInduction, TLAPS

------------------------------------------------------------------------------
(***************************************************************************)
(* The inductive invariant.                                                *)
(***************************************************************************)
IsSequence(s) == s \in Seq({s[k] : k \in DOMAIN s})

\* A frame, at a round that it has an item for.
IsFrame(f) ==
  /\ DOMAIN f = {"todo", "kind", "body", "i", "items"}
  /\ f.kind \in {"block", "repeat", "forEach"}
  /\ f.i \in Nat
  /\ f.i = 0 \/ f.i < Len(f.items)

Loops ==
  /\ IsSequence(stack)
  /\ \A k \in 1 .. Len(stack) : IsFrame(stack[k])
  /\ index \in Int /\ index >= NoIndex
  /\ LoopVariables

Outcomes == {"unread", "running"} \union (Answers \ {"none", "timeout"})

\* What has been emitted, within the limits.
Emitted ==
  /\ IsSequence(generated)
  /\ Len(generated) <= MaxMocks
  /\ \A i \in 1 .. Len(generated) : generated[i].derivedSeed = i - 1
  /\ bytes \in Nat
  /\ outcome # "result_too_large" => bytes = SizeOf(generated) /\ bytes <= MaxBytes

IInv ==
  /\ limits \in Limits
  /\ outcome \in Outcomes
  /\ answer.is \in Answers
  /\ outcome = "unread" => stack = <<>>
  /\ Emitted
  /\ Loops

------------------------------------------------------------------------------
(***************************************************************************)
(* Sequences.                                                              *)
(***************************************************************************)
LEMMA SequenceProperties ==
  ASSUME NEW s, IsSequence(s)
  PROVE  Len(s) \in Nat /\ DOMAIN s = 1 .. Len(s)
BY LenProperties DEF IsSequence

LEMMA EmptySequence == IsSequence(<<>>) /\ Len(<<>>) = 0
BY EmptySeq DEF IsSequence

\* A sequence over any set is one over its elements.
LEMMA SequenceOver ==
  ASSUME NEW S, NEW s \in Seq(S)
  PROVE  IsSequence(s)
<1>1. Len(s) \in Nat /\ s \in [1 .. Len(s) -> S]
  BY LenProperties
<1> DEFINE T == {s[k] : k \in DOMAIN s}
<1>2. \A k \in 1 .. Len(s) : s[k] \in T
  BY <1>1
<1> HIDE DEF T
<1>3. [k \in 1 .. Len(s) |-> s[k]] \in Seq(T)
  BY <1>1, <1>2, IsASeq
<1>4. s = [k \in 1 .. Len(s) |-> s[k]]
  BY <1>1
<1> QED
  BY <1>3, <1>4 DEF IsSequence, T

LEMMA Pushed ==
  ASSUME NEW s, IsSequence(s), NEW x
  PROVE  /\ IsSequence(Append(s, x))
         /\ Len(Append(s, x)) = Len(s) + 1
         /\ Append(s, x)[Len(s) + 1] = x
         /\ \A k \in 1 .. Len(s) : Append(s, x)[k] = s[k]
<1> DEFINE S == {s[k] : k \in DOMAIN s}
<1> DEFINE T == S \union {x}
<1>1. s \in Seq(S)
  BY DEF IsSequence
<1>2. S \subseteq T /\ x \in T
  OBVIOUS
<1> HIDE DEF S, T
<1>3. s \in Seq(T)
  BY <1>1, <1>2, SeqMonotonic
<1>4. /\ Append(s, x) \in Seq(T)
      /\ Len(Append(s, x)) = Len(s) + 1
      /\ Append(s, x)[Len(s) + 1] = x
      /\ \A k \in 1 .. Len(s) : Append(s, x)[k] = s[k]
  BY <1>2, <1>3, AppendProperties
<1>5. IsSequence(Append(s, x))
  BY <1>4, SequenceOver
<1> QED
  BY <1>4, <1>5

LEMMA Popped ==
  ASSUME NEW s, IsSequence(s), s # <<>>
  PROVE  /\ Len(s) >= 1
         /\ IsSequence(SubSeq(s, 1, Len(s) - 1))
         /\ Len(SubSeq(s, 1, Len(s) - 1)) = Len(s) - 1
         /\ \A k \in 1 .. Len(s) - 1 : SubSeq(s, 1, Len(s) - 1)[k] = s[k]
<1> DEFINE S == {s[k] : k \in DOMAIN s}
<1>1. s \in Seq(S)
  BY DEF IsSequence
<1> HIDE DEF S
<1>2. PICK n \in Nat : Len(s) = n + 1
  <2>1. Len(s) \in Nat \ {0}
    BY <1>1, EmptySeq
  <2>2. Len(s) - 1 \in Nat /\ Len(s) = (Len(s) - 1) + 1
    BY <2>1
  <2> QED
    BY <2>2
<1>3. \A k \in 1 .. n : s[k] \in S
  BY <1>1, <1>2, ElementOfSeq
<1>4. /\ SubSeq(s, 1, n) \in Seq(S)
      /\ Len(SubSeq(s, 1, n)) = IF 1 <= n THEN n - 1 + 1 ELSE 0
      /\ \A k \in 1 .. n - 1 + 1 : SubSeq(s, 1, n)[k] = s[1 + k - 1]
  BY <1>2, <1>3, SubSeqProperties
<1>5. Len(SubSeq(s, 1, n)) = n
  BY <1>2, <1>4
<1>6. ASSUME NEW k \in 1 .. n
      PROVE  SubSeq(s, 1, n)[k] = s[k]
  <2>1. k \in 1 .. n - 1 + 1 /\ 1 + k - 1 = k
    BY <1>2
  <2> QED
    BY <1>4, <2>1
<1>7. IsSequence(SubSeq(s, 1, n))
  BY <1>4, SequenceOver
<1>8. Len(s) - 1 = n /\ Len(s) >= 1
  BY <1>2
<1> QED
  BY <1>5, <1>6, <1>7, <1>8

\* The step at the head of the innermost call is taken off, and nothing else.
LEMMA RestProperties ==
  ASSUME IsSequence(stack), stack # <<>>, \A k \in 1 .. Len(stack) : IsFrame(stack[k])
  PROVE  /\ IsSequence(Rest)
         /\ Len(Rest) = Len(stack)
         /\ \A k \in 1 .. Len(stack) : /\ IsFrame(Rest[k])
                                       /\ Rest[k].kind = stack[k].kind
                                       /\ Rest[k].i = stack[k].i
                                       /\ Rest[k].items = stack[k].items
<1> DEFINE N == Len(stack)
           top == [stack[N] EXCEPT !.todo = Tail(@)]
           S == {stack[k] : k \in DOMAIN stack}
           T == S \union {top}
<1>1. N \in Nat /\ N >= 1
  BY SequenceProperties, Popped
<1>2. IsFrame(stack[N])
  BY <1>1
<1>3. /\ IsFrame(top)
      /\ top.kind = stack[N].kind /\ top.i = stack[N].i /\ top.items = stack[N].items
  BY <1>2 DEF IsFrame
<1>4. stack \in Seq(S) /\ S \subseteq T /\ top \in T
  BY DEF IsSequence
<1>5. Rest = [stack EXCEPT ![N] = top]
  BY DEF Rest
<1> HIDE DEF S, T, top
<1>6. stack \in Seq(T)
  BY <1>4, SeqMonotonic
<1>7. /\ [stack EXCEPT ![N] = top] \in Seq(T)
      /\ Len([stack EXCEPT ![N] = top]) = N
      /\ \A k \in 1 .. N : [stack EXCEPT ![N] = top][k] = IF k = N THEN top ELSE stack[k]
  BY <1>1, <1>4, <1>6, ExceptSeq
<1> QED
  BY <1>3, <1>5, <1>7, SequenceOver

------------------------------------------------------------------------------
(***************************************************************************)
(* Numbers and sums.  Induction is on the least counterexample.            *)
(***************************************************************************)
LEMMA LeastNumber ==
  ASSUME NEW T \in SUBSET Nat, T # {}
  PROVE  \E n \in T : \A m \in T : n <= m
<1> DEFINE R == {p \in Nat \X Nat : p[1] < p[2]}
<1>1. IsWellFoundedOn(R, Nat)
  BY NatLessThanWellFounded DEF OpToRel
<1>2. \A m, n \in Nat : <<m, n>> \in R <=> m < n
  OBVIOUS
<1> HIDE DEF R
<1>3. \E n \in T : \A m \in T : ~ (<<m, n>> \in R)
  BY <1>1, WFMin
<1>4. PICK n \in T : \A m \in T : ~ (<<m, n>> \in R)
  BY <1>3
<1>5. \A m \in T : m \in Nat /\ ~ (m < n)
  BY <1>2, <1>4
<1> QED
  BY <1>4, <1>5

\* The partial sums of the sizes of the first n mocks.
IsSums(sum, mocks, n) ==
  sum = [k \in 0 .. n |-> IF k = 0 THEN 0 ELSE sum[k - 1] + Size(mocks[k])]

LEMMA SumsExist ==
  ASSUME NEW mocks, NEW N \in Nat
  PROVE  \E sum : IsSums(sum, mocks, N)
<1> DEFINE T == {n \in Nat : ~ \E sum : IsSums(sum, mocks, n)}
<1> SUFFICES ASSUME T # {} PROVE FALSE
  OBVIOUS
<1>1. PICK n \in T : \A m \in T : n <= m
  BY LeastNumber
<1>2. CASE n = 0
  <2>1. IsSums([k \in 0 .. 0 |-> 0], mocks, 0)
    BY DEF IsSums
  <2> QED
    BY <1>2, <2>1
<1>3. CASE n # 0
  <2>1. n - 1 \in Nat /\ n - 1 \notin T
    BY <1>1, <1>3
  <2>2. PICK sum : IsSums(sum, mocks, n - 1)
    BY <2>1
  <2> DEFINE next == [k \in 0 .. n |-> IF k = n THEN sum[n - 1] + Size(mocks[n]) ELSE sum[k]]
  <2>3. \A k \in 0 .. n - 1 : sum[k] = IF k = 0 THEN 0 ELSE sum[k - 1] + Size(mocks[k])
    BY <2>2 DEF IsSums
  <2>4. \A k \in 0 .. n : next[k] = IF k = 0 THEN 0 ELSE next[k - 1] + Size(mocks[k])
    <3> TAKE k \in 0 .. n
    <3>1. CASE k = n
      BY <1>3, <2>1, <3>1
    <3>2. CASE k # n
      <4>1. k \in 0 .. n - 1 /\ (k # 0 => k - 1 \in 0 .. n - 1)
        BY <3>2
      <4> QED
        BY <2>3, <3>2, <4>1
    <3> QED
      BY <3>1, <3>2
  <2>5. IsSums(next, mocks, n)
    BY <2>4 DEF IsSums
  <2> QED
    BY <2>5
<1> QED
  BY <1>2, <1>3

\* Mocks that begin alike have the same sums.
LEMMA SumsAgree ==
  ASSUME NEW f, NEW g, NEW s, NEW t, NEW n \in Nat, NEW m \in Nat, n <= m,
         IsSums(f, s, n), IsSums(g, t, m), \A k \in 1 .. n : s[k] = t[k]
  PROVE  f[n] = g[n]
<1> DEFINE T == {k \in 0 .. n : f[k] # g[k]}
<1> SUFFICES ASSUME T # {} PROVE FALSE
  OBVIOUS
<1>1. PICK k \in T : \A j \in T : k <= j
  <2>1. T \in SUBSET Nat
    OBVIOUS
  <2> QED
    BY <2>1, LeastNumber
<1>2. /\ \A j \in 0 .. n : f[j] = IF j = 0 THEN 0 ELSE f[j - 1] + Size(s[j])
      /\ \A j \in 0 .. n : g[j] = IF j = 0 THEN 0 ELSE g[j - 1] + Size(t[j])
  BY DEF IsSums
<1>3. k # 0 /\ k - 1 \in 0 .. n /\ k - 1 \notin T
  BY <1>1, <1>2
<1> QED
  BY <1>1, <1>2, <1>3

LEMMA SizeOfAppend ==
  ASSUME NEW s, IsSequence(s), NEW m
  PROVE  SizeOf(Append(s, m)) = SizeOf(s) + Size(m)
<1> DEFINE N == Len(s)
           t == Append(s, m)
<1>1. N \in Nat /\ Len(t) = N + 1 /\ t[N + 1] = m /\ \A k \in 1 .. N : s[k] = t[k]
  BY SequenceProperties, Pushed
<1> HIDE DEF t
<1>2. PICK f : IsSums(f, s, N) /\ SizeOf(s) = f[N]
  <2>1. PICK h : IsSums(h, s, N)
    BY <1>1, SumsExist
  <2> QED
    BY <2>1 DEF IsSums, SizeOf
<1>3. PICK g : IsSums(g, t, N + 1) /\ SizeOf(t) = g[N + 1]
  <2>1. PICK h : IsSums(h, t, N + 1)
    <3>1. N + 1 \in Nat
      BY <1>1
    <3> QED
      BY <3>1, SumsExist
  <2> QED
    BY <1>1, <2>1 DEF IsSums, SizeOf
<1>4. f[N] = g[N]
  <2>1. N + 1 \in Nat /\ N <= N + 1
    BY <1>1
  <2> QED
    BY <1>1, <1>2, <1>3, <2>1, SumsAgree
<1>5. g[N + 1] = g[N] + Size(t[N + 1])
  BY <1>1, <1>3 DEF IsSums
<1> QED
  BY <1>1, <1>2, <1>3, <1>4, <1>5 DEF t

LEMMA SizeOfNone == SizeOf(<<>>) = 0
<1>1. PICK h : IsSums(h, <<>>, 0)
  BY SumsExist
<1> QED
  BY <1>1 DEF IsSums, SizeOf

------------------------------------------------------------------------------
(***************************************************************************)
(* Steps.                                                                  *)
(***************************************************************************)
\* The frames of stack' are those of stack up to its n-th, at the same rounds.
SameUpTo(n) ==
  \A k \in 1 .. n : /\ stack'[k].kind = stack[k].kind
                    /\ stack'[k].i = stack[k].i
                    /\ stack'[k].items = stack[k].items

\* A loop variable that keeps its value, or loses it, while blocks are entered or left.
LEMMA IndexKept ==
  ASSUME IsSequence(stack), IsSequence(stack'), NEW n \in Nat, SameUpTo(n),
         n <= Len(stack), n <= Len(stack'),
         \A k \in n + 1 .. Len(stack) : stack[k].kind \notin {"repeat", "forEach"},
         \A k \in n + 1 .. Len(stack') : stack'[k].kind \notin {"repeat", "forEach"},
         index' \in {index, NoIndex},
         index # NoIndex =>
           \E k \in DOMAIN stack : Innermost(k, {"repeat", "forEach"}) /\ index = stack[k].i
  PROVE  index' # NoIndex =>
           \E k \in DOMAIN stack' : Innermost(k, {"repeat", "forEach"})' /\ index' = stack'[k].i
<1> SUFFICES ASSUME index' # NoIndex
             PROVE  \E k \in DOMAIN stack' :
                      Innermost(k, {"repeat", "forEach"})' /\ index' = stack'[k].i
  OBVIOUS
<1>1. PICK k \in DOMAIN stack : Innermost(k, {"repeat", "forEach"}) /\ index = stack[k].i
  OBVIOUS
<1>2. k \in 1 .. n /\ k \in DOMAIN stack'
  BY <1>1, SequenceProperties DEF Innermost
<1>3. index' = stack'[k].i /\ stack'[k].kind \in {"repeat", "forEach"}
  BY <1>1, <1>2 DEF SameUpTo, Innermost
<1>4. ASSUME NEW j \in k + 1 .. Len(stack')
      PROVE  stack'[j].kind \notin {"repeat", "forEach"}
  <2>1. Len(stack) \in Nat /\ Len(stack') \in Nat
    BY SequenceProperties
  <2>2. CASE j <= n
    <3>1. j \in 1 .. n /\ j \in k + 1 .. Len(stack)
      BY <1>2, <2>1, <2>2
    <3> QED
      BY <1>1, <3>1 DEF SameUpTo, Innermost
  <2>3. CASE j > n
    BY <1>2, <2>1, <2>3
  <2> QED
    BY <1>2, <2>1, <2>2, <2>3
<1> QED
  BY <1>2, <1>3, <1>4 DEF Innermost

LEMMA ItemKept ==
  ASSUME IsSequence(stack), IsSequence(stack'), NEW n \in Nat, SameUpTo(n),
         n <= Len(stack), n <= Len(stack'),
         \A k \in n + 1 .. Len(stack) : stack[k].kind # "forEach",
         \A k \in n + 1 .. Len(stack') : stack'[k].kind # "forEach",
         item' \in {item, Null},
         item # Null =>
           \E k \in DOMAIN stack :
             Innermost(k, {"forEach"}) /\ item = stack[k].items[stack[k].i + 1]
  PROVE  item' # Null =>
           \E k \in DOMAIN stack' :
             Innermost(k, {"forEach"})' /\ item' = stack'[k].items[stack'[k].i + 1]
<1> SUFFICES ASSUME item' # Null
             PROVE  \E k \in DOMAIN stack' :
                      Innermost(k, {"forEach"})' /\ item' = stack'[k].items[stack'[k].i + 1]
  OBVIOUS
<1>1. PICK k \in DOMAIN stack :
        Innermost(k, {"forEach"}) /\ item = stack[k].items[stack[k].i + 1]
  OBVIOUS
<1>2. k \in 1 .. n /\ k \in DOMAIN stack'
  BY <1>1, SequenceProperties DEF Innermost
<1>3. item' = stack'[k].items[stack'[k].i + 1] /\ stack'[k].kind = "forEach"
  BY <1>1, <1>2 DEF SameUpTo, Innermost
<1>4. ASSUME NEW j \in k + 1 .. Len(stack')
      PROVE  stack'[j].kind # "forEach"
  <2>1. Len(stack) \in Nat /\ Len(stack') \in Nat
    BY SequenceProperties
  <2>2. CASE j <= n
    <3>1. j \in 1 .. n /\ j \in k + 1 .. Len(stack)
      BY <1>2, <2>1, <2>2
    <3> QED
      BY <1>1, <3>1 DEF SameUpTo, Innermost
  <2>3. CASE j > n
    BY <1>2, <2>1, <2>3
  <2> QED
    BY <1>2, <2>1, <2>2, <2>3
<1> QED
  BY <1>2, <1>3, <1>4 DEF Innermost

LEMMA QuietLoops ==
  ASSUME Loops, stack' = stack \/ (stack # <<>> /\ stack' = Rest),
         index' \in {index, NoIndex}, item' \in {item, Null}
  PROVE  Loops'
<1> DEFINE N == Len(stack)
<1>1. N \in Nat
  BY SequenceProperties DEF Loops
<1>2. /\ IsSequence(stack') /\ Len(stack') = N
      /\ \A k \in 1 .. N : IsFrame(stack'[k])
      /\ SameUpTo(N)
  BY RestProperties DEF Loops, SameUpTo
<1>3. index' \in Int /\ index' >= NoIndex
  BY DEF Loops, NoIndex
<1>4. LoopVariables'
  BY <1>1, <1>2, IndexKept, ItemKept DEF Loops, LoopVariables
<1> QED
  BY <1>2, <1>3, <1>4 DEF Loops, IsSequence

\* A frame is pushed on a stack without its step.
LEMMA PushedFrames ==
  ASSUME Loops, stack # <<>>, NEW f, IsFrame(f), stack' = Append(Rest, f)
  PROVE  /\ IsSequence(stack') /\ Len(stack') = Len(stack) + 1
         /\ Len(stack) \in Nat
         /\ stack'[Len(stack) + 1] = f
         /\ \A k \in 1 .. Len(stack') : IsFrame(stack'[k])
         /\ SameUpTo(Len(stack))
<1>1. Len(stack) \in Nat
  BY SequenceProperties DEF Loops
<1>2. /\ IsSequence(Rest) /\ Len(Rest) = Len(stack)
      /\ \A k \in 1 .. Len(stack) : /\ IsFrame(Rest[k])
                                    /\ Rest[k].kind = stack[k].kind
                                    /\ Rest[k].i = stack[k].i
                                    /\ Rest[k].items = stack[k].items
  BY RestProperties DEF Loops
<1>3. /\ IsSequence(stack') /\ Len(stack') = Len(stack) + 1
      /\ stack'[Len(stack) + 1] = f
      /\ \A k \in 1 .. Len(stack) : stack'[k] = Rest[k]
  BY <1>2, Pushed
<1>4. \A k \in 1 .. Len(stack') : k \in 1 .. Len(stack) \/ k = Len(stack) + 1
  BY <1>1, <1>3
<1> QED
  BY <1>1, <1>2, <1>3, <1>4 DEF SameUpTo

LEMMA EnterBlock ==
  ASSUME Loops, stack # <<>>, NEW steps, stack' = Append(Rest, Frame(steps)),
         index' = index, item' = item
  PROVE  Loops'
<1> DEFINE N == Len(stack)
           f == Frame(steps)
<1>1. IsFrame(f) /\ f.kind = "block"
  BY DEF IsFrame, Frame
<1> HIDE DEF f
<1>2. /\ IsSequence(stack') /\ Len(stack') = N + 1
      /\ N \in Nat
      /\ stack'[N + 1] = f
      /\ \A k \in 1 .. Len(stack') : IsFrame(stack'[k])
      /\ SameUpTo(N)
  BY <1>1, PushedFrames DEF f
<1>3. \A k \in N + 1 .. Len(stack') : stack'[k].kind = "block"
  <2>1. \A k \in N + 1 .. Len(stack') : k = N + 1
    BY <1>2
  <2> QED
    BY <1>1, <1>2, <2>1
<1>4. N <= Len(stack') /\ \A k \in N + 1 .. N : FALSE
  BY <1>2
<1>5. LoopVariables'
  BY <1>2, <1>3, <1>4, IndexKept, ItemKept DEF Loops, LoopVariables
<1> QED
  BY <1>2, <1>5 DEF Loops, IsSequence

LEMMA EnterLoop ==
  ASSUME Loops, stack # <<>>, NEW kind, NEW body, NEW items,
         stack' = Append(Rest, Loop(kind, body, items)), index' = 0,
         \/ kind = "repeat" /\ item' = item
         \/ kind = "forEach" /\ item' = items[1]
  PROVE  Loops'
<1> DEFINE N == Len(stack)
           f == Loop(kind, body, items)
<1>1. IsFrame(f) /\ f.kind = kind /\ f.i = 0 /\ f.items = items
  BY DEF IsFrame, Loop
<1> HIDE DEF f
<1>2. /\ IsSequence(stack') /\ Len(stack') = N + 1
      /\ N \in Nat
      /\ stack'[N + 1] = f
      /\ \A k \in 1 .. Len(stack') : IsFrame(stack'[k])
      /\ SameUpTo(N)
  BY <1>1, PushedFrames DEF f
<1>3. /\ N + 1 \in DOMAIN stack'
      /\ \A k \in N + 1 .. Len(stack') : k = N + 1
      /\ \A k \in N + 1 + 1 .. Len(stack') : FALSE
      /\ N <= Len(stack') /\ \A k \in N + 1 .. N : FALSE
  BY <1>2, SequenceProperties
<1>4. index' # NoIndex =>
        \E k \in DOMAIN stack' : Innermost(k, {"repeat", "forEach"})' /\ index' = stack'[k].i
  BY <1>1, <1>2, <1>3 DEF Innermost
<1>5. item' # Null =>
        \E k \in DOMAIN stack' :
          Innermost(k, {"forEach"})' /\ item' = stack'[k].items[stack'[k].i + 1]
  <2>1. CASE kind = "repeat"
    <3>1. \A k \in N + 1 .. Len(stack') : stack'[k].kind # "forEach"
      BY <1>1, <1>2, <1>3, <2>1
    <3> QED
      BY <1>2, <1>3, <2>1, <3>1, ItemKept DEF Loops, LoopVariables
  <2>2. CASE kind = "forEach"
    BY <1>1, <1>2, <1>3, <2>2 DEF Innermost
  <2> QED
    BY <2>1, <2>2
<1>6. index' \in Int /\ index' >= NoIndex
  BY DEF NoIndex
<1> QED
  BY <1>2, <1>4, <1>5, <1>6 DEF Loops, LoopVariables, IsSequence

\* The next round of a loop, or the return from a call and the end of its loop.
LEMMA EndBlockLoops ==
  ASSUME Loops, EndBlock
  PROVE  Loops'
<1> DEFINE N == Len(stack) - 1
           i == Top.i + 1
<1>1. /\ N \in Nat /\ Len(stack) = N + 1
      /\ IsSequence(Pop) /\ Len(Pop) = N
      /\ \A k \in 1 .. N : Pop[k] = stack[k]
      /\ IsSequence(stack)
  <2>1. IsSequence(stack) /\ stack # <<>>
    BY DEF Loops, EndBlock
  <2>2. Len(stack) \in Nat
    BY <2>1, SequenceProperties
  <2>3. /\ Len(stack) >= 1
        /\ IsSequence(Pop) /\ Len(Pop) = N
        /\ \A k \in 1 .. N : Pop[k] = stack[k]
    BY <2>1, Popped DEF Pop
  <2> QED
    BY <2>1, <2>2, <2>3
<1> HIDE DEF N
<1>2. Top = stack[N + 1] /\ IsFrame(Top) /\ \A k \in 1 .. N : IsFrame(stack[k])
  BY <1>1 DEF Top, Loops
<1>3. \A k \in N + 1 .. Len(stack) : k = N + 1
  BY <1>1
<1>4. CASE Top.kind # "block" /\ i < Len(Top.items)
  <2> DEFINE f == [Top EXCEPT !.todo = Top.body, !.i = i]
  <2>1. /\ stack' = Append(Pop, f)
        /\ index' = i
        /\ item' = IF Top.kind = "forEach" THEN Top.items[i + 1] ELSE item
    BY <1>4 DEF EndBlock
  <2>2. i \in Nat /\ i >= 1
    BY <1>2 DEF IsFrame
  <2>3. IsFrame(f) /\ f.kind = Top.kind /\ f.i = i /\ f.items = Top.items
    BY <1>2, <1>4, <2>2 DEF IsFrame
  <2> HIDE DEF f, i
  <2>4. /\ IsSequence(stack') /\ Len(stack') = N + 1
        /\ stack'[N + 1] = f
        /\ \A k \in 1 .. N : stack'[k] = stack[k]
    BY <1>1, <2>1, Pushed
  <2>5. /\ N + 1 \in DOMAIN stack'
        /\ \A k \in N + 1 .. Len(stack') : k = N + 1
        /\ \A k \in N + 1 + 1 .. Len(stack') : FALSE
        /\ N <= Len(stack') /\ N <= Len(stack)
    BY <1>1, <2>4, SequenceProperties
  <2>6. \A k \in 1 .. Len(stack') : IsFrame(stack'[k])
    <3>1. \A k \in 1 .. Len(stack') : k \in 1 .. N \/ k = N + 1
      BY <1>1, <2>4
    <3> QED
      BY <1>2, <2>3, <2>4, <3>1
  <2>7. SameUpTo(N)
    BY <2>4 DEF SameUpTo
  <2>8. ASSUME item' # Null
        PROVE  \E k \in DOMAIN stack' :
                 Innermost(k, {"forEach"})' /\ item' = stack'[k].items[stack'[k].i + 1]
    <3>1. CASE Top.kind = "forEach"
      BY <2>1, <2>3, <2>4, <2>5, <3>1 DEF Innermost
    <3>2. CASE Top.kind # "forEach"
      <4>1. /\ \A k \in N + 1 .. Len(stack) : stack[k].kind # "forEach"
            /\ \A k \in N + 1 .. Len(stack') : stack'[k].kind # "forEach"
        BY <1>2, <1>3, <2>3, <2>4, <2>5, <3>2
      <4> QED
        BY <1>1, <2>1, <2>4, <2>5, <2>7, <2>8, <3>2, <4>1, ItemKept DEF Loops, LoopVariables
    <3> QED
      BY <3>1, <3>2
  <2>9. CASE Top.kind \in {"repeat", "forEach"}
    <3>1. stack'[N + 1].kind \in {"repeat", "forEach"}
      BY <2>3, <2>4, <2>9
    <3>2. index' = stack'[N + 1].i
      BY <2>1, <2>3, <2>4
    <3>3. \E k \in DOMAIN stack' :
            Innermost(k, {"repeat", "forEach"})' /\ index' = stack'[k].i
      BY <2>5, <3>1, <3>2 DEF Innermost
    <3>4. LoopVariables'
      BY <2>8, <3>3 DEF LoopVariables
    <3>5. index' \in Int /\ index' >= NoIndex
      BY <2>1, <2>2 DEF NoIndex
    <3> QED
      BY <2>4, <2>6, <3>4, <3>5 DEF Loops, IsSequence
  <2> QED
    BY <1>2, <1>4, <2>9 DEF IsFrame
<1>5. CASE ~ (Top.kind # "block" /\ i < Len(Top.items))
  <2>1. /\ stack' = Pop
        /\ index' = IF Top.kind = "block" THEN index ELSE NoIndex
        /\ item' = IF Top.kind = "forEach" THEN Null ELSE item
    BY <1>5 DEF EndBlock
  <2>2. SameUpTo(N) /\ N <= Len(stack) /\ N <= Len(stack')
    BY <1>1, <2>1 DEF SameUpTo
  <2>3. /\ \A k \in 1 .. Len(stack') : IsFrame(stack'[k])
        /\ \A k \in N + 1 .. Len(stack') : FALSE
    BY <1>1, <1>2, <2>1
  <2>4. index' # NoIndex =>
          \E k \in DOMAIN stack' :
            Innermost(k, {"repeat", "forEach"})' /\ index' = stack'[k].i
    <3>1. CASE Top.kind = "block"
      <4>1. \A k \in N + 1 .. Len(stack) : stack[k].kind \notin {"repeat", "forEach"}
        BY <1>2, <1>3, <3>1
      <4> QED
        BY <1>1, <2>1, <2>2, <2>3, <3>1, <4>1, IndexKept DEF Loops, LoopVariables
    <3>2. CASE Top.kind # "block"
      BY <2>1, <3>2
    <3> QED
      BY <3>1, <3>2
  <2>5. item' # Null =>
          \E k \in DOMAIN stack' :
            Innermost(k, {"forEach"})' /\ item' = stack'[k].items[stack'[k].i + 1]
    <3>1. CASE Top.kind # "forEach"
      <4>1. \A k \in N + 1 .. Len(stack) : stack[k].kind # "forEach"
        BY <1>2, <1>3, <3>1
      <4> QED
        BY <1>1, <2>1, <2>2, <2>3, <3>1, <4>1, ItemKept DEF Loops, LoopVariables
    <3>2. CASE Top.kind = "forEach"
      BY <2>1, <3>2
    <3> QED
      BY <3>1, <3>2
  <2>6. index' \in Int /\ index' >= NoIndex
    BY <2>1 DEF Loops, NoIndex
  <2> QED
    BY <1>1, <2>1, <2>3, <2>4, <2>5, <2>6 DEF Loops, LoopVariables, IsSequence
<1> QED
  BY <1>4, <1>5

------------------------------------------------------------------------------
(***************************************************************************)
(* What is emitted.                                                        *)
(***************************************************************************)
\* Whatever limits are asked for, the caps bound them.
LEMMA MaxProperties ==
  ASSUME limits \in Limits
  PROVE  MaxMocks \in 1 .. MockCap /\ MaxBytes \in 1 .. ByteCap
<1>1. limits.mocks \in Int /\ limits.bytes \in Int
  BY LimitsAssumption
<1> QED
  BY <1>1, BoundsAssumption DEF MaxMocks, MaxBytes, EnforceMax

LEMMA EmittedKept ==
  ASSUME Emitted, limits' = limits, generated' = generated, bytes' = bytes,
         outcome' = outcome \/ outcome # "result_too_large"
  PROVE  Emitted'
BY DEF Emitted, IsSequence, MaxMocks, MaxBytes

\* A mock has the seed it was asked for.
LEMMA MockOfProperties ==
  ASSUME NEW c, NEW s, NEW seed
  PROVE  /\ MockOf(c, s, seed).error \in {"", "eval", "validation"}
         /\ MockOf(c, s, seed).error = "" => MockOf(c, s, seed).mock.derivedSeed = seed
BY DEF MockOf

LEMMA EmitIInv ==
  ASSUME IInv, Emit
  PROVE  IInv'
<1> DEFINE r == MockOf(Context, This, Len(generated))
<1>1. /\ outcome = "running" /\ stack # <<>>
      /\ limits' = limits /\ answer' = answer
  BY DEF Emit, At
<1>2. r.error \in {"", "eval", "validation"} /\ (r.error = "" => r.mock.derivedSeed = Len(generated))
  BY MockOfProperties
<1>3. /\ IsSequence(generated) /\ Len(generated) \in Nat
      /\ Len(generated) <= MaxMocks
      /\ \A i \in 1 .. Len(generated) : generated[i].derivedSeed = i - 1
      /\ bytes \in Nat /\ bytes = SizeOf(generated) /\ bytes <= MaxBytes
  BY <1>1, SequenceProperties DEF IInv, Emitted
<1>4. MaxMocks \in Nat /\ MaxBytes \in Nat /\ MaxMocks' = MaxMocks /\ MaxBytes' = MaxBytes
  BY <1>1, MaxProperties, BoundsAssumption DEF IInv, MaxMocks, MaxBytes
<1>5. CASE \E error \in {"too_many_mocks", "eval", "validation"} : Halt(error)
  <2>1. outcome' \in Outcomes \ {"unread"}
    BY <1>5 DEF Halt, Outcomes, Answers
  <2>2. Emitted'
    BY <1>1, <1>5, EmittedKept DEF Halt, IInv
  <2>3. Loops'
    BY <1>5, QuietLoops DEF Halt, IInv, env
  <2> QED
    BY <1>1, <2>1, <2>2, <2>3 DEF IInv
<1>6. CASE /\ Len(generated) < MaxMocks /\ r.error = ""
           /\ bytes' = bytes + Size(r.mock)
           /\ IF bytes' > MaxBytes
              THEN outcome' = "result_too_large" /\ UNCHANGED <<stack, generated>>
              ELSE generated' = Append(generated, r.mock) /\ stack' = Rest /\ UNCHANGED outcome
           /\ UNCHANGED env
  <2> HIDE DEF r
  <2>1. Loops'
    BY <1>1, <1>6, QuietLoops DEF IInv, env
  <2>2. /\ Len(generated) < MaxMocks /\ r.error = ""
        /\ bytes' = bytes + Size(r.mock) /\ Size(r.mock) \in Nat
    BY <1>6 DEF Size
  <2>3. CASE bytes' > MaxBytes
    <3>1. outcome' = "result_too_large" /\ generated' = generated
      BY <1>6, <2>3
    <3>2. bytes' \in Nat
      <4>1. bytes \in Nat
        BY <1>3
      <4>2. bytes' = bytes + Size(r.mock) /\ Size(r.mock) \in Nat
        BY <2>2
      <4> QED
        BY <4>1, <4>2
    <3>3. Emitted'
      BY <1>3, <1>4, <3>1, <3>2 DEF Emitted, IsSequence
    <3>4. outcome' \in Outcomes \ {"unread"}
      BY <3>1 DEF Outcomes, Answers
    <3> QED
      BY <1>1, <2>1, <3>3, <3>4 DEF IInv
  <2>4. CASE ~ (bytes' > MaxBytes)
    <3> DEFINE next == Append(generated, r.mock)
    <3>1. outcome' = outcome /\ generated' = next
      BY <1>6, <2>4
    <3>2. /\ IsSequence(next) /\ Len(next) = Len(generated) + 1
          /\ next[Len(generated) + 1] = r.mock
          /\ \A i \in 1 .. Len(generated) : next[i] = generated[i]
      BY <1>3, Pushed
    <3>3. SizeOf(next) = SizeOf(generated) + Size(r.mock)
      BY <1>3, SizeOfAppend
    <3> HIDE DEF next
    <3>5. Len(next) <= MaxMocks
      <4>1. Len(generated) \in Nat
        BY <1>3
      <4>2. MaxMocks \in Nat
        BY <1>4
      <4>3. Len(generated) < MaxMocks
        BY <2>2
      <4>4. Len(next) = Len(generated) + 1
        BY <3>2
      <4> QED
        BY <4>1, <4>2, <4>3, <4>4
    <3>6. ASSUME NEW i \in 1 .. Len(next)
          PROVE  next[i].derivedSeed = i - 1
      <4>1. CASE i = Len(generated) + 1
        <5>1. next[i] = r.mock
          BY <3>2, <4>1
        <5>2. r.mock.derivedSeed = Len(generated)
          BY <1>2, <2>2
        <5>3. i - 1 = Len(generated)
          BY <1>3, <4>1
        <5> QED
          BY <5>1, <5>2, <5>3
      <4>2. CASE i # Len(generated) + 1
        <5>1. i \in 1 .. Len(generated)
          BY <1>3, <3>2, <4>2
        <5> QED
          BY <1>3, <3>2, <5>1
      <4> QED
        BY <4>1, <4>2
    <3>7. bytes' \in Nat /\ bytes' = SizeOf(next) /\ bytes' <= MaxBytes
      <4>1. bytes \in Nat /\ bytes = SizeOf(generated)
        BY <1>3
      <4>2. bytes' = bytes + Size(r.mock) /\ Size(r.mock) \in Nat
        BY <2>2
      <4>3. MaxBytes \in Nat
        BY <1>4
      <4> QED
        BY <2>4, <3>3, <4>1, <4>2, <4>3
    <3>8. Emitted'
      BY <1>4, <3>1, <3>2, <3>5, <3>6, <3>7 DEF Emitted, IsSequence
    <3> QED
      BY <1>1, <2>1, <3>1, <3>8 DEF IInv
  <2> QED
    BY <2>3, <2>4
<1> QED
  <2>1. \/ Len(generated) >= MaxMocks /\ Halt("too_many_mocks")
        \/ Len(generated) < MaxMocks /\ r.error # "" /\ Halt(r.error)
        \/ /\ ~ (Len(generated) >= MaxMocks)
           /\ ~ (Len(generated) < MaxMocks /\ r.error # "")
           /\ bytes' = bytes + Size(r.mock)
           /\ IF bytes' > MaxBytes
              THEN outcome' = "result_too_large" /\ UNCHANGED <<stack, generated>>
              ELSE generated' = Append(generated, r.mock) /\ stack' = Rest /\ UNCHANGED outcome
           /\ UNCHANGED env
    BY DEF Emit
  <2>2. CASE Len(generated) >= MaxMocks /\ Halt("too_many_mocks")
    BY <1>5, <2>2
  <2>3. CASE Len(generated) < MaxMocks /\ r.error # "" /\ Halt(r.error)
    BY <1>2, <1>5, <2>3
  <2>4. ~ (Len(generated) >= MaxMocks) => Len(generated) < MaxMocks
    BY <1>3, <1>4
  <2> HIDE DEF r
  <2> QED
    BY <1>6, <2>1, <2>2, <2>3, <2>4

------------------------------------------------------------------------------
(***************************************************************************)
(* The invariant and the theorems.                                         *)
(***************************************************************************)
LEMMA InitIInv ==
  ASSUME Init
  PROVE  IInv
<1>1. Emitted
  BY EmptySequence, SizeOfNone, MaxProperties, BoundsAssumption DEF Init, Emitted
<1>2. Loops
  BY EmptySequence DEF Init, Loops, LoopVariables, NoIndex
<1> QED
  BY <1>1, <1>2 DEF Init, IInv, Outcomes, Answers

LEMMA ParseIInv ==
  ASSUME IInv, Parse
  PROVE  IInv'
<1>1. /\ outcome = "unread" /\ stack = <<>>
      /\ limits' = limits /\ generated' = generated /\ bytes' = bytes
      /\ index' = index /\ item' = item
  BY DEF Parse, IInv, env
<1>2. index = NoIndex /\ item = Null
  BY <1>1, EmptySequence, SequenceProperties DEF IInv, Loops, LoopVariables
<1>3. Emitted'
  BY <1>1, EmittedKept DEF IInv
<1>4. CASE \E steps : stack' = <<Frame(steps)>> /\ outcome' = "running" /\ answer' = answer
  <2>1. PICK steps : stack' = <<Frame(steps)>>
    BY <1>4
  <2>2. /\ IsSequence(stack') /\ Len(stack') = 1 /\ stack'[1] = Frame(steps)
    <3>1. <<Frame(steps)>> \in Seq({Frame(steps)}) /\ Len(<<Frame(steps)>>) = 1
      OBVIOUS
    <3> QED
      BY <2>1, <3>1, SequenceOver
  <2>3. IsFrame(Frame(steps))
    BY DEF IsFrame, Frame
  <2>4. Loops'
    BY <1>1, <1>2, <2>2, <2>3 DEF Loops, LoopVariables, NoIndex, IsSequence
  <2> QED
    BY <1>1, <1>3, <1>4, <2>4 DEF IInv, Outcomes
<1>5. CASE \E error \in {"parse", "validation"} :
             stack' = stack /\ outcome' = error /\ answer' = [is |-> error]
  <2>1. Loops'
    BY <1>1, <1>5, QuietLoops DEF IInv
  <2> QED
    BY <1>1, <1>3, <1>5, <2>1 DEF IInv, Outcomes, Answers
<1> QED
  BY <1>4, <1>5 DEF Parse

\* A step of the goroutine that emits nothing.
LEMMA RunIInv ==
  ASSUME IInv, outcome = "running",
         outcome' \in Outcomes \ {"unread"}, limits' = limits, answer' = answer,
         generated' = generated, bytes' = bytes, Loops'
  PROVE  IInv'
<1>1. Emitted'
  BY EmittedKept DEF IInv
<1> QED
  BY <1>1 DEF IInv

LEMMA HaltIInv ==
  ASSUME IInv, outcome = "running", NEW error \in {"eval", "validation"}, Halt(error),
         limits' = limits, answer' = answer
  PROVE  IInv'
<1>1. outcome' \in Outcomes \ {"unread"} /\ generated' = generated /\ bytes' = bytes
  BY DEF Halt, Outcomes, Answers
<1>2. Loops'
  BY QuietLoops DEF Halt, IInv, env
<1> QED
  BY <1>1, <1>2, RunIInv

LEMMA RunLetIInv ==
  ASSUME IInv, RunLet
  PROVE  IInv'
<1>1. /\ outcome = "running" /\ stack # <<>>
      /\ limits' = limits /\ answer' = answer
  BY DEF RunLet, At
<1>2. CASE Halt("eval")
  BY <1>1, <1>2, HaltIInv
<1>3. CASE /\ stack' = Rest
           /\ UNCHANGED <<index, item, generated, bytes, outcome>>
  BY <1>1, <1>3, QuietLoops, RunIInv DEF IInv, Outcomes
<1> QED
  BY <1>2, <1>3 DEF RunLet

LEMMA RunIfIInv ==
  ASSUME IInv, RunIf
  PROVE  IInv'
<1>1. /\ outcome = "running" /\ stack # <<>>
      /\ limits' = limits /\ answer' = answer
  BY DEF RunIf, At
<1>2. CASE Halt("eval")
  BY <1>1, <1>2, HaltIInv
<1>3. CASE /\ \E steps : stack' = Append(Rest, Frame(steps))
           /\ UNCHANGED <<env, generated, bytes, outcome>>
  BY <1>1, <1>3, EnterBlock, RunIInv DEF IInv, Outcomes, env
<1> QED
  BY <1>2, <1>3 DEF RunIf

LEMMA RunRepeatIInv ==
  ASSUME IInv, RunRepeat
  PROVE  IInv'
<1>1. /\ outcome = "running" /\ stack # <<>>
      /\ limits' = limits /\ answer' = answer
  BY DEF RunRepeat, At
<1>2. CASE Halt("eval") \/ Halt("validation")
  BY <1>1, <1>2, HaltIInv
<1>3. CASE /\ stack' = Rest /\ index' = NoIndex
           /\ UNCHANGED <<item, generated, bytes, outcome>>
  BY <1>1, <1>3, QuietLoops, RunIInv DEF IInv, Outcomes
<1>4. CASE /\ \E items : stack' = Append(Rest, Loop("repeat", This.do, items))
           /\ index' = 0
           /\ UNCHANGED <<item, generated, bytes, outcome>>
  BY <1>1, <1>4, EnterLoop, RunIInv DEF IInv, Outcomes
<1> QED
  BY <1>2, <1>3, <1>4 DEF RunRepeat

LEMMA RunForEachIInv ==
  ASSUME IInv, RunForEach
  PROVE  IInv'
<1>1. /\ outcome = "running" /\ stack # <<>>
      /\ limits' = limits /\ answer' = answer
  BY DEF RunForEach, At
<1>2. CASE Halt("eval") \/ Halt("validation")
  BY <1>1, <1>2, HaltIInv
<1>3. CASE /\ stack' = Rest /\ index' = NoIndex /\ item' = Null
           /\ UNCHANGED <<generated, bytes, outcome>>
  BY <1>1, <1>3, QuietLoops, RunIInv DEF IInv, Outcomes
<1>4. CASE /\ \E items : /\ stack' = Append(Rest, Loop("forEach", This.do, items))
                         /\ item' = items[1]
           /\ index' = 0
           /\ UNCHANGED <<generated, bytes, outcome>>
  BY <1>1, <1>4, EnterLoop, RunIInv DEF IInv, Outcomes
<1> QED
  BY <1>2, <1>3, <1>4 DEF RunForEach

LEMMA RunAssertIInv ==
  ASSUME IInv, RunAssert
  PROVE  IInv'
<1>1. /\ outcome = "running" /\ stack # <<>>
      /\ limits' = limits /\ answer' = answer
  BY DEF RunAssert, At
<1>2. CASE Halt("eval") \/ Halt("validation")
  BY <1>1, <1>2, HaltIInv
<1>3. CASE stack' = Rest /\ UNCHANGED <<env, generated, bytes, outcome>>
  BY <1>1, <1>3, QuietLoops, RunIInv DEF IInv, Outcomes, env
<1> QED
  BY <1>2, <1>3 DEF RunAssert

LEMMA EndBlockIInv ==
  ASSUME IInv, EndBlock
  PROVE  IInv'
<1>1. Loops'
  BY EndBlockLoops DEF IInv
<1> QED
  BY <1>1, RunIInv DEF EndBlock, IInv, Outcomes

LEMMA EndScriptIInv ==
  ASSUME IInv, EndScript
  PROVE  IInv'
<1>1. Loops'
  BY QuietLoops DEF EndScript, IInv, env
<1> QED
  BY <1>1, RunIInv DEF EndScript, IInv, Outcomes, Answers

\* withTimeout and the end of Run change nothing but the answer.
LEMMA AnswerIInv ==
  ASSUME IInv, Timeout \/ Return
  PROVE  IInv'
<1>1. limits' = limits /\ UNCHANGED exec
  BY DEF Timeout, Return
<1>2. Emitted' /\ Loops'
  BY <1>1, EmittedKept, QuietLoops DEF exec, env, IInv
<1>3. answer'.is \in Answers
  BY DEF Timeout, Return, IInv, Outcomes, Answers
<1> QED
  BY <1>1, <1>2, <1>3 DEF exec, IInv

LEMMA Invariant == Spec => []IInv
<1>1. Init => IInv
  BY InitIInv
<1>2. IInv /\ [Next]_allVars => IInv'
  <2> SUFFICES ASSUME IInv, [Next]_allVars
               PROVE  IInv'
    OBVIOUS
  <2>1. CASE UNCHANGED allVars
    <3>1. Emitted' /\ Loops'
      BY <2>1, EmittedKept, QuietLoops DEF allVars, exec, env, IInv
    <3> QED
      BY <2>1, <3>1 DEF allVars, exec, IInv
  <2>2. CASE Next
    BY <2>2, ParseIInv, RunLetIInv, RunIfIInv, RunRepeatIInv, RunForEachIInv,
       RunAssertIInv, EmitIInv, EndBlockIInv, EndScriptIInv, AnswerIInv DEF Next
  <2> QED
    BY <2>1, <2>2
<1> QED
  BY <1>1, <1>2, PTL DEF Spec

\* A script never leaves more mocks or bytes than the limits allow, whatever limits
\* were asked for, each mock has the seed of its place, and no loop goes on past
\* its last item.
THEOREM TypeCorrect == Spec => []TypeOK
<1>1. IInv => TypeOK
  <2> SUFFICES ASSUME IInv
               PROVE  TypeOK
    OBVIOUS
  <2>1. DOMAIN generated = 1 .. Len(generated) /\ DOMAIN stack = 1 .. Len(stack)
    BY SequenceProperties DEF IInv, Emitted, Loops
  <2> QED
    BY <2>1, MaxProperties DEF IInv, Emitted, Loops, IsFrame, Outcomes, TypeOK
<1> QED
  BY <1>1, Invariant, PTL

\* No loop variable has a value from a loop that has ended, in any nesting.
THEOREM LoopVariablesAlways == Spec => []LoopVariables
<1>1. IInv => LoopVariables
  BY DEF IInv, Loops
<1> QED
  BY <1>1, Invariant, PTL

==============================================================================
