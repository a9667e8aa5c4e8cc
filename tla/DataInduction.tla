---------------------------- MODULE DataInduction ----------------------------
(***************************************************************************)
(* Induction over data, with sets where a scheme would have a predicate:   *)
(* what is defined by recursion over a sequence is defined, and what it    *)
(* computes follows step by step.                                          *)
(***************************************************************************)
EXTENDS Splits, SequenceTheorems, FiniteSetTheorems, WellFoundedInduction, TLAPS

\* Every set of numbers that is not empty has a least element.
LEMMA NatMin ==
  ASSUME NEW T, T \subseteq Nat, T # {}
  PROVE  \E x \in T : \A y \in T : x <= y
<1> DEFINE R == OpToRel(<, Nat)
<1>1. \A x, y \in Nat : y < x => <<y, x>> \in R
  BY DEF OpToRel
<1>2. IsWellFoundedOn(R, Nat)
  BY NatLessThanWellFounded, Zenon
<1> HIDE DEF R
<1>3. PICK x \in T : \A y \in T : <<y, x>> \notin R
  BY <1>2, WFMin, Zenon
<1>4. \A y \in T : y \in Nat /\ ~(y < x)
  BY <1>1, <1>3
<1>5. x \in Nat
  OBVIOUS
<1> QED BY <1>3, <1>4, <1>5

\* What holds at 0 and from each number to the next holds up to n.
LEMMA SegmentInduction ==
  ASSUME NEW n \in Nat, NEW T, 0 \in T,
         \A i \in 0..n-1 : i \in T => i + 1 \in T
  PROVE  0..n \subseteq T
<1> SUFFICES ASSUME NEW j \in 0..n, j \notin T PROVE FALSE
  OBVIOUS
<1> DEFINE C == {i \in 0..n : i \notin T}
<1>1. C \subseteq Nat /\ C # {}
  OBVIOUS
<1>2. PICK i \in C : \A k \in C : i <= k
  BY <1>1, NatMin
<1>3. i \in 0..n /\ i \notin T /\ i # 0
  OBVIOUS
<1>4. i - 1 \in 0..n-1 /\ i - 1 \notin C
  BY <1>2, <1>3
<1>5. i - 1 \in T
  BY <1>4
<1> QED BY <1>3, <1>4, <1>5

-----------------------------------------------------------------------------
(* Recursion over a sequence of length n: step[<<i, a>>] is what a scan      *)
(* makes of a at the i-th element.                                           *)

Steps(n, A, step) == \A i \in 1..n, a \in A : step[<<i, a>>] \in A

\* r is the run of step from base: what the scan knows after each element.
IsRun(r, n, A, base, step) ==
  /\ \A i \in 0..n : r[i] \in A
  /\ r[0] = base
  /\ \A i \in 1..n : r[i] = step[<<i, r[i-1]>>]

\* A scan has a run.
LEMMA RunExists ==
  ASSUME NEW n \in Nat, NEW A, NEW base \in A, NEW step, Steps(n, A, step)
  PROVE  \E r : IsRun(r, n, A, base, step)
<1> DEFINE Run(r, k) == /\ \A i \in 0..k : r[i] \in A
                        /\ r[0] = base
                        /\ \A i \in 1..k : r[i] = step[<<i, r[i-1]>>]
           T == {k \in 0..n : \E r : Run(r, k)}
<1>1. 0 \in T
  <2> DEFINE q == [i \in 0..0 |-> base]
  <2>1. Run(q, 0)
    OBVIOUS
  <2> HIDE DEF q, Run
  <2> QED BY <2>1
<1>2. ASSUME NEW k \in 0..n-1, k \in T PROVE k + 1 \in T
  <2>1. PICK r : Run(r, k)
    BY <1>2
  <2> DEFINE x == step[<<k+1, r[k]>>]
             q == [i \in 0..k+1 |-> IF i = k + 1 THEN x ELSE r[i]]
  <2>2. k + 1 \in 0..n /\ k + 1 \in 1..n /\ k \in 0..k
    OBVIOUS
  <2>3. x \in A
    BY <2>1, <2>2 DEF Steps
  <2>4. q[k+1] = x /\ \A i \in 0..k : q[i] = r[i]
    BY <2>2
  <2> HIDE DEF q
  <2>5. \A i \in 1..k+1 : q[i] = step[<<i, q[i-1]>>]
    <3> SUFFICES ASSUME NEW i \in 1..k+1 PROVE q[i] = step[<<i, q[i-1]>>]
      OBVIOUS
    <3>1. CASE i = k + 1
      <4>1. q[i-1] = r[k]
        BY <2>4, <3>1
      <4> QED BY <2>4, <3>1, <4>1
    <3>2. CASE i # k + 1
      <4>1. i \in 1..k /\ i - 1 \in 0..k /\ i \in 0..k
        BY <3>2
      <4> QED BY <2>1, <2>4, <4>1
    <3> QED BY <3>1, <3>2
  <2>6. Run(q, k+1)
    <3>1. \A i \in 0..k+1 : q[i] \in A
      <4> HIDE DEF x
      <4> QED BY <2>1, <2>3, <2>4
    <3>2. q[0] = base
      BY <2>1, <2>4
    <3> QED BY <2>5, <3>1, <3>2
  <2> HIDE DEF Run
  <2> QED BY <2>2, <2>6
<1>3. n \in T
  <2> HIDE DEF T
  <2>1. 0..n \subseteq T
    BY <1>1, <1>2, SegmentInduction
  <2> QED BY <2>1
<1> QED BY <1>3 DEF IsRun

\* Two runs that begin alike and take alike steps are alike.
LEMMA RunsAgree ==
  ASSUME NEW n \in Nat, NEW r, NEW q, r[0] = q[0],
         \A i \in 1..n : r[i-1] = q[i-1] => r[i] = q[i]
  PROVE  \A i \in 0..n : r[i] = q[i]
<1> DEFINE T == {i \in 0..n : r[i] = q[i]}
<1>1. 0 \in T
  OBVIOUS
<1>2. ASSUME NEW i \in 0..n-1, i \in T PROVE i + 1 \in T
  <2>1. i + 1 \in 1..n /\ i + 1 \in 0..n /\ (i + 1) - 1 = i
    OBVIOUS
  <2>2. r[i+1] = q[i+1]
    BY <1>2, <2>1
  <2> QED BY <2>1, <2>2
<1> HIDE DEF T
<1>3. 0..n \subseteq T
  BY <1>1, <1>2, SegmentInduction
<1> QED BY <1>3 DEF T

Alike(n, r, q) == r[0] = q[0] /\ \A i \in 1..n : r[i-1] = q[i-1] => r[i] = q[i]

LEMMA RunsEnd ==
  ASSUME NEW n \in Nat, NEW r, NEW q, Alike(n, r, q)
  PROVE  r[n] = q[n]
<1>1. r[0] = q[0] /\ \A i \in 1..n : r[i-1] = q[i-1] => r[i] = q[i]
  BY DEF Alike
<1>2. \A i \in 0..n : r[i] = q[i]
  BY ONLY n \in Nat, <1>1, RunsAgree
<1> QED BY <1>2

-----------------------------------------------------------------------------
(* Folds, which take the elements of a sequence from the set of its indices. *)

LEMMA MaxOf ==
  ASSUME NEW n \in Nat, NEW S \in SUBSET (1..n), S # {}
  PROVE  Max(S) \in S /\ \A x \in S : x <= Max(S)
<1> DEFINE D == {n - x : x \in S}
<1>1. D \subseteq Nat /\ D # {}
  <2>1. \A x \in S : n - x \in Nat
    OBVIOUS
  <2>2. PICK x \in S : TRUE
    OBVIOUS
  <2> QED BY <2>1, <2>2
<1>2. PICK d \in D : \A e \in D : d <= e
  BY <1>1, NatMin
<1>3. PICK m \in S : d = n - m
  BY <1>2
<1>4. ASSUME NEW x \in S PROVE x <= m
  <2>1. n - x \in D /\ x \in 1..n /\ m \in 1..n
    OBVIOUS
  <2>2. n - m <= n - x
    BY <1>2, <1>3, <2>1
  <2> QED BY <2>1, <2>2
<1>5. \A y \in S : m >= y
  BY <1>4
<1>6. \E x \in S : \A y \in S : x >= y
  BY <1>5
<1>7. Max(S) \in S /\ \A y \in S : Max(S) >= y
  BY <1>6 DEF Max
<1> QED BY <1>7

LEMMA MaxIs ==
  ASSUME NEW S, S \subseteq Nat, NEW m \in S, \A x \in S : x <= m
  PROVE  Max(S) = m
<1>1. Max(S) \in S /\ \A y \in S : Max(S) >= y
  <2>1. \A x \in S : x \in Nat
    OBVIOUS
  <2>2. \E x \in S : \A y \in S : x >= y
    BY <2>1
  <2> QED BY <2>2 DEF Max
<1>2. Max(S) >= m /\ Max(S) <= m /\ Max(S) \in Nat /\ m \in Nat
  BY <1>1
<1> QED BY ONLY <1>2

LEMMA MinOf ==
  ASSUME NEW S, S \subseteq Nat, S # {}
  PROVE  Min(S) \in S /\ \A x \in S : Min(S) <= x
<1>1. \E x \in S : \A y \in S : x <= y
  BY NatMin
<1> QED BY <1>1 DEF Min

LEMMA MaxOfSegment ==
  ASSUME NEW n \in Nat, NEW i \in 1..n
  PROVE  /\ 1..i \in SUBSET (1..n) /\ 1..i # {}
         /\ Max(1..i) = i
         /\ (1..i) \ {Max(1..i)} = 1..i-1
<1>1. 1..i \subseteq Nat /\ i \in 1..i /\ \A x \in 1..i : x <= i
  OBVIOUS
<1>2. Max(1..i) = i
  BY <1>1, MaxIs
<1>3. 1..i \in SUBSET (1..n) /\ (1..i) \ {i} = 1..i-1
  OBVIOUS
<1> QED BY <1>1, <1>2, <1>3

\* f[S] is the fold over the indices in S.
IsFold(f, S, base, step) ==
  f[S] = IF S = {} THEN base ELSE step[<<Max(S), f[S \ {Max(S)}]>>]

\* What MapThenFoldSet computes for each set of indices exists.
LEMMA FoldExists ==
  ASSUME NEW n \in Nat, NEW A, NEW base \in A, NEW step, Steps(n, A, step)
  PROVE  \E f : /\ f = [S \in SUBSET (1..n) |-> f[S]]
                /\ \A S \in SUBSET (1..n) : f[S] \in A /\ IsFold(f, S, base, step)
<1> DEFINE Folds(f, k) == /\ f = [S \in SUBSET (1..n) |-> f[S]]
                          /\ \A S \in SUBSET (1..n) : f[S] \in A
                          /\ \A S \in SUBSET (1..k) : IsFold(f, S, base, step)
           T == {k \in 0..n : \E f : Folds(f, k)}
<1>1. 0 \in T
  <2> DEFINE f == [S \in SUBSET (1..n) |-> base]
  <2>1. f = [S \in SUBSET (1..n) |-> f[S]] /\ \A S \in SUBSET (1..n) : f[S] \in A
    OBVIOUS
  <2>2. \A S \in SUBSET (1..0) : S = {}
    OBVIOUS
  <2>3. {} \in SUBSET (1..n) /\ f[{}] = base
    OBVIOUS
  <2> HIDE DEF f
  <2>4. \A S \in SUBSET (1..0) : IsFold(f, S, base, step)
    BY <2>2, <2>3 DEF IsFold
  <2>5. Folds(f, 0)
    BY <2>1, <2>4
  <2> HIDE DEF Folds
  <2> QED BY <2>5
<1>2. ASSUME NEW k \in 0..n-1, k \in T PROVE k + 1 \in T
  <2>1. PICK f : Folds(f, k)
    BY <1>2
  <2> DEFINE g == [S \in SUBSET (1..n) |->
                     IF k + 1 \in S THEN step[<<k+1, f[S \ {k+1}]>>] ELSE f[S]]
  <2>2. k + 1 \in 1..n /\ k + 1 \notin 1..k /\ k + 1 \in Nat
    OBVIOUS
  <2>3. ASSUME NEW S \in SUBSET (1..n) PROVE g[S] \in A
    <3>1. S \ {k+1} \in SUBSET (1..n)
      OBVIOUS
    <3>2. f[S \ {k+1}] \in A
      BY <2>1, <3>1
    <3>3. step[<<k+1, f[S \ {k+1}]>>] \in A
      BY <2>2, <3>2 DEF Steps
    <3> QED BY <2>1, <3>3
  <2>4. ASSUME NEW S \in SUBSET (1..k+1) PROVE IsFold(g, S, base, step)
    <3>1. S \in SUBSET (1..n) /\ S \ {k+1} \in SUBSET (1..k) /\ S \ {k+1} \in SUBSET (1..n)
      BY <2>2
    <3>2. CASE k + 1 \in S
      <4>1. Max(S) = k + 1
        <5>1. S \subseteq Nat /\ \A x \in S : x <= k + 1
          BY <3>1
        <5> QED BY <3>2, <5>1, MaxIs
      <4>2. g[S \ {k+1}] = f[S \ {k+1}]
        BY <3>1
      <4>3. g[S] = step[<<k+1, f[S \ {k+1}]>>]
        BY <3>1, <3>2
      <4> HIDE DEF g
      <4> QED BY <3>2, <4>1, <4>2, <4>3 DEF IsFold
    <3>3. CASE k + 1 \notin S
      <4>1. S \in SUBSET (1..k) /\ IsFold(f, S, base, step) /\ g[S] = f[S]
        BY <2>1, <3>1, <3>3
      <4>2. CASE S = {}
        <5> HIDE DEF g
        <5> QED BY <4>1, <4>2 DEF IsFold
      <4>3. CASE S # {}
        <5>1. g[S \ {Max(S)}] = f[S \ {Max(S)}]
          BY <3>1, <3>3
        <5> HIDE DEF g
        <5> QED BY <4>1, <4>3, <5>1 DEF IsFold
      <4> QED BY <4>2, <4>3
    <3> QED BY <3>2, <3>3
  <2>5. g = [S \in SUBSET (1..n) |-> g[S]]
    OBVIOUS
  <2>6. k + 1 \in 0..n
    OBVIOUS
  <2> HIDE DEF g
  <2>7. Folds(g, k+1)
    BY <2>3, <2>4, <2>5
  <2> HIDE DEF Folds
  <2> QED BY <2>6, <2>7
<1>3. n \in T
  <2> HIDE DEF T
  <2>1. 0..n \subseteq T
    BY <1>1, <1>2, SegmentInduction
  <2> QED BY <2>1
<1> QED BY <1>3

\* F is a fold as far as it stays in A.
Unfolds(F, n, A, base, step) ==
  /\ F[{}] = base
  /\ \A S \in SUBSET (1..n) : S # {} /\ F[S \ {Max(S)}] \in A => IsFold(F, S, base, step)

\* A fold over the indices 1..n is the end of a run.
LEMMA FoldIsRun ==
  ASSUME NEW n \in Nat, NEW A, NEW base \in A, NEW step, Steps(n, A, step),
         NEW F, Unfolds(F, n, A, base, step)
  PROVE  \E r : IsRun(r, n, A, base, step) /\ r[n] = F[1..n]
<1>1. PICK r : IsRun(r, n, A, base, step)
  BY ONLY n \in Nat, base \in A, Steps(n, A, step), RunExists
<1> DEFINE q == [k \in 0..n |-> F[1..k]]
<1>2. r[0] = q[0]
  <2>1. 1..0 = {} /\ 0 \in 0..n
    OBVIOUS
  <2> QED BY <1>1, <2>1 DEF IsRun, Unfolds
<1>3. ASSUME NEW i \in 1..n, r[i-1] = q[i-1] PROVE r[i] = q[i]
  <2>1. i \in 0..n /\ i - 1 \in 0..n
    OBVIOUS
  <2>2. q[i-1] = F[1..i-1] /\ q[i] = F[1..i]
    BY <2>1
  <2>3. F[1..i-1] \in A
    BY <1>1, <1>3, <2>1, <2>2 DEF IsRun
  <2>4. F[1..i] = step[<<i, F[1..i-1]>>]
    <3>1. IsFold(F, 1..i, base, step)
      BY <2>3, MaxOfSegment DEF Unfolds
    <3> QED BY <3>1, MaxOfSegment DEF IsFold
  <2>5. r[i] = step[<<i, r[i-1]>>]
    BY <1>1 DEF IsRun
  <2> QED BY <1>3, <2>2, <2>4, <2>5
<1> HIDE DEF q
<1>4. \A i \in 1..n : r[i-1] = q[i-1] => r[i] = q[i]
  BY <1>3
<1>5. r[n] = q[n]
  BY ONLY n \in Nat, <1>2, <1>4, RunsAgree
<1>6. q[n] = F[1..n]
  BY DEF q
<1> QED BY <1>1, <1>5, <1>6

-----------------------------------------------------------------------------
(* Prefixes of a sequence. *)

LEMMA PrefixFacts ==
  ASSUME NEW E, NEW s \in Seq(E)
  PROVE  /\ SubSeq(s, 1, 0) = <<>>
         /\ SubSeq(s, 1, Len(s)) = s
         /\ \A i \in 0..Len(s) : SubSeq(s, 1, i) \in Seq(E)
         /\ \A i \in 1..Len(s) : SubSeq(s, 1, i) = Append(SubSeq(s, 1, i-1), s[i])
<1>1. SubSeq(s, 1, Len(s)) = s
  BY SubSeqFull
<1>2. \A i \in 0..Len(s) : SubSeq(s, 1, i) \in Seq(E)
  OBVIOUS
<1>3. ASSUME NEW i \in 1..Len(s) PROVE SubSeq(s, 1, i) = Append(SubSeq(s, 1, i-1), s[i])
  OBVIOUS
<1> QED BY <1>1, <1>2, <1>3

\* What holds of the empty sequence and with each element that is appended.
LEMMA AppendInduction ==
  ASSUME NEW E, NEW T, <<>> \in T,
         \A s \in Seq(E), x \in E : s \in T => Append(s, x) \in T
  PROVE  Seq(E) \subseteq T
<1> SUFFICES ASSUME NEW s \in Seq(E) PROVE s \in T
  OBVIOUS
<1> DEFINE n == Len(s)
           Reached == {i \in 0..n : SubSeq(s, 1, i) \in T}
<1>1. n \in Nat /\ SubSeq(s, 1, n) = s /\ SubSeq(s, 1, 0) = <<>>
  <2>1. SubSeq(s, 1, n) = s
    BY SubSeqFull
  <2>2. SubSeq(s, 1, 0) = <<>>
    OBVIOUS
  <2>3. n \in Nat
    OBVIOUS
  <2> QED BY Zenon, <2>1, <2>2, <2>3
<1>2. 0 \in Reached
  <2>1. 0 \in 0..n
    BY <1>1
  <2> QED BY Zenon, <1>1, <2>1
<1>3. ASSUME NEW i \in 0..n-1, i \in Reached PROVE i + 1 \in Reached
  <2>1. i + 1 \in 1..n /\ i + 1 \in 0..n /\ (i + 1) - 1 = i /\ i \in 0..n
    BY <1>1
  <2>2. /\ SubSeq(s, 1, i) \in Seq(E) /\ s[i + 1] \in E
        /\ SubSeq(s, 1, i + 1) = Append(SubSeq(s, 1, i), s[i + 1])
    BY <2>1, PrefixFacts
  <2>3. SubSeq(s, 1, i) \in T
    BY <1>3
  <2>4. SubSeq(s, 1, i + 1) \in T
    BY Zenon, <2>2, <2>3
  <2> QED BY Zenon, <2>1, <2>4
<1> HIDE DEF Reached
<1>4. 0..n \subseteq Reached
  BY <1>1, <1>2, <1>3, SegmentInduction
<1>5. n \in Reached
  BY <1>1, <1>4
<1> QED BY Zenon, <1>1, <1>5 DEF Reached

-----------------------------------------------------------------------------
(* Split. *)

SplitStep(runs, x, symbol) ==
  IF x = symbol THEN Append(runs, <<>>) ELSE [runs EXCEPT ![Len(runs)] = Append(@, x)]

\* What a sequence may be split into whose runs are over E.
Runs(E) == Seq(Seq(E)) \ {<<>>}

LEMMA SplitStepType ==
  ASSUME NEW E, NEW symbol, NEW runs \in Runs(E \ {symbol}), NEW x \in E
  PROVE  SplitStep(runs, x, symbol) \in Runs(E \ {symbol})
<1> DEFINE R == E \ {symbol}
<1>1. runs \in Seq(Seq(R)) /\ Len(runs) \in 1..Len(runs) /\ runs[Len(runs)] \in Seq(R)
  BY DEF Runs
<1>2. CASE x = symbol
  BY <1>1, <1>2, AppendProperties DEF SplitStep, Runs
<1>3. CASE x # symbol
  <2>1. Append(runs[Len(runs)], x) \in Seq(R)
    <3>1. x \in R
      BY <1>3
    <3> HIDE DEF R
    <3> QED BY <1>1, <3>1, AppendProperties
  <2> HIDE DEF R
  <2>2. [runs EXCEPT ![Len(runs)] = Append(runs[Len(runs)], x)] \in Seq(Seq(R))
        /\ Len([runs EXCEPT ![Len(runs)] = Append(runs[Len(runs)], x)]) = Len(runs)
    BY <1>1, <2>1, ExceptSeq
  <2> QED BY <1>1, <1>3, <2>2 DEF SplitStep, Runs, R
<1> QED BY <1>2, <1>3

LEMMA SplitRun ==
  ASSUME NEW E, NEW s \in Seq(E), NEW symbol
  PROVE  \E r : /\ \A i \in 0..Len(s) : r[i] \in Runs(E \ {symbol})
                /\ r[0] = <<<<>>>>
                /\ \A i \in 1..Len(s) : r[i] = SplitStep(r[i-1], s[i], symbol)
                /\ r[Len(s)] = Split(s, symbol)
<1> DEFINE n == Len(s)
           A == Runs(E \ {symbol})
           base == <<<<>>>>
           step == [p \in (1..n) \X A |-> SplitStep(p[2], s[p[1]], symbol)]
           Is(f) == f = [S \in SUBSET (DOMAIN s) |->
                           IF S = {} THEN base
                           ELSE SplitStep(f[S \ {Max(S)}], s[Max(S)], symbol)]
           F == CHOOSE f : Is(f)
<1>1. n \in Nat /\ DOMAIN s = 1..n /\ \A i \in 1..n : s[i] \in E
  OBVIOUS
<1>2. base \in A
  BY DEF Runs
<1>3. \A i \in 1..n, a \in A : step[<<i, a>>] = SplitStep(a, s[i], symbol)
  OBVIOUS
<1> HIDE DEF step, A, base
<1>4. Steps(n, A, step)
  <2>1. ASSUME NEW i \in 1..n, NEW a \in A PROVE SplitStep(a, s[i], symbol) \in A
    <3>1. a \in Runs(E \ {symbol}) /\ s[i] \in E
      BY <1>1 DEF A
    <3>2. SplitStep(a, s[i], symbol) \in Runs(E \ {symbol})
      BY <3>1, SplitStepType
    <3> QED BY <3>2 DEF A
  <2> QED BY <1>3, <2>1 DEF Steps
<1>5. Is(F)
  <2>1. PICK f : /\ f = [S \in SUBSET (1..n) |-> f[S]]
                 /\ \A S \in SUBSET (1..n) : f[S] \in A /\ IsFold(f, S, base, step)
    BY <1>1, <1>2, <1>4, FoldExists
  <2>2. ASSUME NEW S \in SUBSET (1..n), S # {}
        PROVE  f[S] = SplitStep(f[S \ {Max(S)}], s[Max(S)], symbol)
    <3>1. Max(S) \in 1..n /\ S \ {Max(S)} \in SUBSET (1..n)
      BY <1>1, <2>2, MaxOf
    <3> QED BY <1>3, <2>1, <2>2, <3>1 DEF IsFold
  <2>3. f[{}] = base
    BY <2>1 DEF IsFold
  <2>4. Is(f)
    BY <1>1, <2>1, <2>2, <2>3
  <2> QED BY <2>4
<1>6. Split(s, symbol) = F[1..n]
  BY <1>1 DEF Split, FoldLeft, MapThenFoldSet, SplitStep, base
<1> HIDE DEF F
<1>7. Unfolds(F, n, A, base, step)
  <2>1. F[{}] = base
    BY <1>5
  <2>2. ASSUME NEW S \in SUBSET (1..n), S # {}, F[S \ {Max(S)}] \in A
        PROVE  F[S] = step[<<Max(S), F[S \ {Max(S)}]>>]
    <3>1. Max(S) \in 1..n
      BY <1>1, <2>2, MaxOf
    <3> QED BY <1>1, <1>3, <1>5, <2>2, <3>1
  <2> QED BY <2>1, <2>2 DEF Unfolds, IsFold
<1>8. PICK r : IsRun(r, n, A, base, step) /\ r[n] = F[1..n]
  BY <1>1, <1>2, <1>4, <1>7, FoldIsRun
<1>9. \A i \in 1..n : r[i] = SplitStep(r[i-1], s[i], symbol)
  <2> SUFFICES ASSUME NEW i \in 1..n PROVE r[i] = SplitStep(r[i-1], s[i], symbol)
    OBVIOUS
  <2>1. i - 1 \in 0..n
    BY <1>1
  <2> QED BY <1>3, <1>8, <2>1 DEF IsRun
<1> QED BY <1>6, <1>8, <1>9 DEF IsRun, base, A

\* The runs of a sequence hold its elements but for the symbol.
LEMMA SplitType ==
  ASSUME NEW E, NEW s \in Seq(E), NEW symbol
  PROVE  Split(s, symbol) \in Runs(E \ {symbol})
<1>1. Len(s) \in 0..Len(s)
  OBVIOUS
<1> QED BY <1>1, SplitRun

KeptOf(kept, x, dropped) == IF x = dropped THEN kept ELSE Append(kept, x)

IsFilter(r, s, dropped) ==
  /\ r[0] = <<>>
  /\ \A i \in 1..Len(s) : r[i] = KeptOf(r[i-1], s[i], dropped)
  /\ r[Len(s)] = Without(s, dropped)

LEMMA WithoutRun ==
  ASSUME NEW E, NEW s \in Seq(E), NEW dropped
  PROVE  \E r : /\ \A i \in 0..Len(s) : r[i] \in Seq(E \ {dropped})
                /\ IsFilter(r, s, dropped)
<1> DEFINE n == Len(s)
           A == Seq(E \ {dropped})
           Kept(a, x) == KeptOf(a, x, dropped)
           step == [p \in (1..n) \X A |-> Kept(p[2], s[p[1]])]
           Is(f) == f = [S \in SUBSET (DOMAIN s) |->
                           IF S = {} THEN <<>> ELSE Kept(f[S \ {Max(S)}], s[Max(S)])]
           F == CHOOSE f : Is(f)
<1>1. n \in Nat /\ DOMAIN s = 1..n /\ \A i \in 1..n : s[i] \in E
  OBVIOUS
<1>2. <<>> \in A
  OBVIOUS
<1>3. \A i \in 1..n, a \in A : step[<<i, a>>] = Kept(a, s[i])
  OBVIOUS
<1> HIDE DEF step
<1>4. Steps(n, A, step)
  <2>1. ASSUME NEW i \in 1..n, NEW a \in A PROVE Kept(a, s[i]) \in A
    <3>1. CASE s[i] = dropped
      BY <3>1 DEF KeptOf
    <3>2. CASE s[i] # dropped
      <4>1. s[i] \in E \ {dropped}
        BY <1>1, <3>2
      <4> QED BY <3>2, <4>1, AppendProperties DEF KeptOf
    <3> QED BY <3>1, <3>2
  <2> QED BY <1>3, <2>1 DEF Steps
<1>5. Is(F)
  <2> HIDE DEF A, Kept
  <2>1. PICK f : /\ f = [S \in SUBSET (1..n) |-> f[S]]
                 /\ \A S \in SUBSET (1..n) : f[S] \in A /\ IsFold(f, S, <<>>, step)
    BY <1>1, <1>2, <1>4, FoldExists
  <2>2. ASSUME NEW S \in SUBSET (1..n), S # {}
        PROVE  f[S] = Kept(f[S \ {Max(S)}], s[Max(S)])
    <3>1. Max(S) \in 1..n /\ S \ {Max(S)} \in SUBSET (1..n)
      BY <1>1, <2>2, MaxOf
    <3> QED BY <1>3, <2>1, <2>2, <3>1 DEF IsFold
  <2>3. f[{}] = <<>>
    BY <2>1 DEF IsFold
  <2>4. Is(f)
    BY <1>1, <2>1, <2>2, <2>3
  <2> QED BY <2>4
<1>6. Without(s, dropped) = F[1..n]
  BY <1>1 DEF Without, FoldLeft, MapThenFoldSet, KeptOf
<1> HIDE DEF F, A, Kept
<1>7. Unfolds(F, n, A, <<>>, step)
  <2>1. F[{}] = <<>>
    BY <1>5
  <2>2. ASSUME NEW S \in SUBSET (1..n), S # {}, F[S \ {Max(S)}] \in A
        PROVE  F[S] = step[<<Max(S), F[S \ {Max(S)}]>>]
    <3>1. Max(S) \in 1..n
      BY <1>1, <2>2, MaxOf
    <3> QED BY <1>1, <1>3, <1>5, <2>2, <3>1
  <2> QED BY <2>1, <2>2 DEF Unfolds, IsFold
<1>8. PICK r : IsRun(r, n, A, <<>>, step) /\ r[n] = F[1..n]
  BY <1>1, <1>2, <1>4, <1>7, FoldIsRun
<1>9. \A i \in 1..n : r[i] = KeptOf(r[i-1], s[i], dropped)
  <2> SUFFICES ASSUME NEW i \in 1..n PROVE r[i] = KeptOf(r[i-1], s[i], dropped)
    OBVIOUS
  <2>1. i - 1 \in 0..n
    BY <1>1
  <2>2. r[i-1] \in A /\ r[i] = step[<<i, r[i-1]>>]
    BY <1>8, <2>1 DEF IsRun
  <2> QED BY <1>3, <2>2 DEF Kept
<1> QED BY <1>6, <1>8, <1>9 DEF IsRun, IsFilter, A

LEMMA WithoutType ==
  ASSUME NEW E, NEW s \in Seq(E), NEW dropped
  PROVE  Without(s, dropped) \in Seq(E \ {dropped})
<1>1. Len(s) \in 0..Len(s)
  OBVIOUS
<1> QED BY <1>1, WithoutRun DEF IsFilter

LEMMA WithoutEmpty == ASSUME NEW dropped PROVE Without(<<>>, dropped) = <<>>
<1>1. <<>> \in Seq({}) /\ Len(<<>>) = 0
  OBVIOUS
<1>2. PICK r : IsFilter(r, <<>>, dropped)
  BY <1>1, WithoutRun
<1> QED BY Zenon, <1>1, <1>2 DEF IsFilter

LEMMA WithoutAppend ==
  ASSUME NEW E, NEW s \in Seq(E), NEW x \in E, NEW dropped
  PROVE  Without(Append(s, x), dropped) = KeptOf(Without(s, dropped), x, dropped)
<1> DEFINE n == Len(s)
           t == Append(s, x)
<1>1. /\ n \in Nat /\ t \in Seq(E) /\ Len(t) = n + 1 /\ t[n+1] = x
      /\ \A i \in 1..n : t[i] = s[i]
  BY AppendProperties
<1>2. PICK r : IsFilter(r, s, dropped)
  BY WithoutRun
<1> HIDE DEF t
<1>3. PICK q : IsFilter(q, t, dropped)
  BY <1>1, WithoutRun
<1> HIDE DEF n
<1>4. \A i \in 1..n : r[i-1] = q[i-1] => r[i] = q[i]
  <2>1. \A i \in 1..n : i \in 1..n+1
    BY <1>1
  <2> QED BY Zenon, <1>1, <1>2, <1>3, <2>1 DEF IsFilter, n
<1>5. r[n] = q[n]
  <2>1. r[0] = q[0]
    BY Zenon, <1>2, <1>3 DEF IsFilter
  <2>2. n \in Nat /\ Alike(n, r, q)
    BY Zenon, <1>1, <1>4, <2>1 DEF Alike
  <2> QED BY Zenon, <2>2, RunsEnd
<1>6. q[n+1] = KeptOf(q[n], x, dropped)
  <2>1. n + 1 \in 1..n+1 /\ (n + 1) - 1 = n
    BY <1>1
  <2> QED BY Zenon, <1>1, <1>3, <2>1 DEF IsFilter
<1> QED BY Zenon, <1>1, <1>2, <1>3, <1>5, <1>6 DEF t, n, IsFilter

LEMMA ConcatAppend ==
  ASSUME NEW E, NEW a \in Seq(E), NEW b \in Seq(E), NEW x \in E
  PROVE  a \o Append(b, x) = Append(a \o b, x) /\ a \o b \in Seq(E) /\ Append(b, x) \in Seq(E)
OBVIOUS

\* Short sequences, element by element.
LEMMA AppendToOne ==
  ASSUME NEW F, NEW one \in Seq(F), Len(one) = 1, NEW x \in F,
         NEW v \in Seq(F), Len(v) = 2, v[1] = one[1], v[2] = x
  PROVE  Append(one, x) = v
<1> DEFINE w == Append(one, x)
<1>1. w \in Seq(F) /\ Len(w) = 2 /\ w[1] = v[1] /\ w[2] = v[2]
  <2>1. Append(one, x) \in Seq(F)
    BY AppendProperties
  <2>2. Len(Append(one, x)) = Len(one) + 1 /\ Append(one, x)[Len(one) + 1] = x
    BY AppendProperties
  <2>3. Append(one, x)[1] = one[1]
    <3>1. \A i \in 1..Len(one) : Append(one, x)[i] = one[i]
      BY ONLY one \in Seq(F), x \in F, AppendProperties
    <3>2. 1 \in 1..Len(one)
      OBVIOUS
    <3> QED BY Zenon, <3>1, <3>2
  <2>4. Len(one) + 1 = 2
    OBVIOUS
  <2> QED BY Zenon, <2>1, <2>2, <2>3, <2>4
<1> HIDE DEF w
<1>2. \A i \in 1..2 : i = 1 \/ i = 2
  OBVIOUS
<1>3. \A i \in 1..Len(w) : w[i] = v[i]
  BY Zenon, <1>1, <1>2
<1>4. w = v
  BY <1>1, <1>3, SeqEqual
<1> QED BY Zenon, <1>4 DEF w

LEMMA PairIs ==
  ASSUME NEW F, NEW m \in F, NEW p \in F
  PROVE  Append(<<m>>, p) = <<m, p>>
<1> DEFINE v == <<m, p>>
           one == <<m>>
<1>1. one \in Seq(F) /\ Len(one) = 1 /\ one[1] = m
  OBVIOUS
<1>2. v \in Seq(F) /\ Len(v) = 2 /\ v[1] = m /\ v[2] = p
  OBVIOUS
<1> HIDE DEF v, one
<1>3. Append(one, p) = v
  BY Zenon, <1>1, <1>2, AppendToOne
<1> QED BY Zenon, <1>3 DEF v, one

\* Concatenations regroup; named, so that a goal matches it.
Associates(a, b, c) == (a \o b) \o c = a \o (b \o c)

LEMMA Regroup ==
  ASSUME NEW E, NEW a \in Seq(E), NEW b \in Seq(E), NEW c \in Seq(E)
  PROVE  Associates(a, b, c)
BY ConcatAssociative DEF Associates

\* A filter takes a sequence part by part.
LEMMA WithoutConcat ==
  ASSUME NEW E, NEW a \in Seq(E), NEW b \in Seq(E), NEW dropped
  PROVE  Without(a \o b, dropped) = Without(a, dropped) \o Without(b, dropped)
<1> DEFINE T == {c \in Seq(E) : Without(a \o c, dropped) = Without(a, dropped) \o Without(c, dropped)}
           A == Seq(E \ {dropped})
<1>1. <<>> \in T
  <2>1. a \o <<>> = a /\ <<>> \in Seq(E)
    OBVIOUS
  <2>2. Without(a, dropped) \o <<>> = Without(a, dropped)
    BY WithoutType, ConcatEmptySeq
  <2> QED BY Zenon, <2>1, <2>2, WithoutEmpty
<1>2. ASSUME NEW c \in Seq(E), NEW x \in E, c \in T PROVE Append(c, x) \in T
  <2> DEFINE both == a \o c
  <2>1. a \o Append(c, x) = Append(both, x) /\ both \in Seq(E) /\ Append(c, x) \in Seq(E)
    BY ConcatAppend
  <2>2. Without(a \o Append(c, x), dropped) = KeptOf(Without(both, dropped), x, dropped)
    <3> HIDE DEF both
    <3>1. Without(Append(both, x), dropped) = KeptOf(Without(both, dropped), x, dropped)
      BY <2>1, WithoutAppend
    <3> QED BY Zenon, <2>1, <3>1
  <2>3. Without(Append(c, x), dropped) = KeptOf(Without(c, dropped), x, dropped)
    BY SMT, WithoutAppend
  <2>4. Without(a, dropped) \in A /\ Without(c, dropped) \in A
    BY WithoutType
  <2>5. Without(a \o c, dropped) = Without(a, dropped) \o Without(c, dropped)
    BY Zenon, <1>2
  <2>6. x # dropped => Append(Without(a, dropped) \o Without(c, dropped), x)
                          = Without(a, dropped) \o Append(Without(c, dropped), x)
    <3> DEFINE u == Without(a, dropped)
               v == Without(c, dropped)
    <3> SUFFICES ASSUME x # dropped PROVE Append(u \o v, x) = u \o Append(v, x)
      OBVIOUS
    <3> DEFINE R == E \ {dropped}
    <3>1. u \in Seq(R) /\ v \in Seq(R) /\ x \in R
      BY <2>4
    <3> HIDE DEF u, v, R
    <3>2. u \o Append(v, x) = Append(u \o v, x)
      BY ONLY <3>1, ConcatAppend
    <3> QED BY Zenon, <3>2
  <2>7. Without(a \o Append(c, x), dropped)
          = Without(a, dropped) \o Without(Append(c, x), dropped)
    BY Zenon, <2>2, <2>3, <2>5, <2>6 DEF KeptOf
  <2> QED BY Zenon, <2>1, <2>7
<1> HIDE DEF T
<1>3. Seq(E) \subseteq T
  BY <1>1, <1>2, AppendInduction
<1> QED BY Zenon, <1>3 DEF T

-----------------------------------------------------------------------------
(* Split, element by element and part by part. *)

IsScan(r, s, symbol) ==
  /\ r[0] = <<<<>>>>
  /\ \A i \in 1..Len(s) : r[i] = SplitStep(r[i-1], s[i], symbol)
  /\ r[Len(s)] = Split(s, symbol)

LEMMA SplitScan ==
  ASSUME NEW E, NEW s \in Seq(E), NEW symbol
  PROVE  \E r : IsScan(r, s, symbol)
BY SplitRun DEF IsScan

LEMMA SplitEmpty == ASSUME NEW symbol PROVE Split(<<>>, symbol) = <<<<>>>>
<1>1. <<>> \in Seq({}) /\ Len(<<>>) = 0
  OBVIOUS
<1>2. PICK r : IsScan(r, <<>>, symbol)
  BY <1>1, SplitScan
<1> QED BY Zenon, <1>1, <1>2 DEF IsScan

LEMMA SplitAppend ==
  ASSUME NEW E, NEW s \in Seq(E), NEW x \in E, NEW symbol
  PROVE  Split(Append(s, x), symbol) = SplitStep(Split(s, symbol), x, symbol)
<1> DEFINE n == Len(s)
           t == Append(s, x)
<1>1. /\ n \in Nat /\ t \in Seq(E) /\ Len(t) = n + 1 /\ t[n+1] = x
      /\ \A i \in 1..n : t[i] = s[i]
  BY AppendProperties
<1>2. PICK r : IsScan(r, s, symbol)
  BY SplitScan
<1> HIDE DEF t
<1>3. PICK q : IsScan(q, t, symbol)
  BY <1>1, SplitScan
<1> HIDE DEF n
<1>4. \A i \in 1..n : r[i-1] = q[i-1] => r[i] = q[i]
  <2>1. \A i \in 1..n : i \in 1..n+1
    BY <1>1
  <2> QED BY Zenon, <1>1, <1>2, <1>3, <2>1 DEF IsScan, n
<1>5. r[n] = q[n]
  <2>1. r[0] = q[0]
    BY Zenon, <1>2, <1>3 DEF IsScan
  <2>2. n \in Nat /\ Alike(n, r, q)
    BY Zenon, <1>1, <1>4, <2>1 DEF Alike
  <2> QED BY Zenon, <2>2, RunsEnd
<1>6. q[n+1] = SplitStep(q[n], x, symbol)
  <2>1. n + 1 \in 1..n+1 /\ (n + 1) - 1 = n
    BY <1>1
  <2> QED BY Zenon, <1>1, <1>3, <2>1 DEF IsScan
<1> QED BY Zenon, <1>1, <1>2, <1>3, <1>5, <1>6 DEF t, n, IsScan

\* A sequence without the symbol is one run.
LEMMA SplitNone ==
  ASSUME NEW E, NEW symbol, NEW s \in Seq(E), \A i \in 1..Len(s) : s[i] # symbol
  PROVE  Split(s, symbol) = <<s>>
<1> DEFINE R == E \ {symbol}
           T == {t \in Seq(R) : Split(t, symbol) = <<t>>}
<1>1. <<>> \in T
  BY SplitEmpty
<1>2. ASSUME NEW t \in Seq(R), NEW x \in R, t \in T PROVE Append(t, x) \in T
  <2>1. x # symbol /\ Split(t, symbol) = <<t>>
    BY <1>2
  <2> HIDE DEF T, R
  <2>2. Split(Append(t, x), symbol) = SplitStep(<<t>>, x, symbol)
    BY <2>1, SplitAppend
  <2>3. SplitStep(<<t>>, x, symbol) = <<Append(t, x)>> /\ Append(t, x) \in Seq(R)
    BY <2>1 DEF SplitStep
  <2> QED BY <2>2, <2>3 DEF T
<1>3. s \in Seq(R)
  BY SeqOfRange
<1> HIDE DEF T, R
<1>4. Seq(R) \subseteq T
  BY <1>1, <1>2, AppendInduction
<1> QED BY Zenon, <1>3, <1>4 DEF T

\* Runs before others do not change what a step does to the last.
LEMMA StepAfter ==
  ASSUME NEW E, NEW a \in Seq(E), NEW runs \in Seq(E), runs # <<>>, NEW new \in E
  PROVE  [a \o runs EXCEPT ![Len(a \o runs)] = new] = a \o [runs EXCEPT ![Len(runs)] = new]
<1> DEFINE both == a \o runs
           left == [both EXCEPT ![Len(both)] = new]
           last == [runs EXCEPT ![Len(runs)] = new]
           right == a \o last
           m == Len(a)
           n == Len(runs)
<1>1. /\ last \in Seq(E) /\ Len(last) = n /\ last[n] = new
      /\ \A i \in 1..n-1 : last[i] = runs[i]
  OBVIOUS
<1>2. /\ both \in Seq(E) /\ Len(both) = m + n /\ m \in Nat /\ n \in Nat /\ n # 0
      /\ \A i \in 1..m+n : both[i] = IF i <= m THEN a[i] ELSE runs[i-m]
  BY ConcatProperties
<1> HIDE DEF last, both
<1>3. /\ right \in Seq(E) /\ Len(right) = m + n
      /\ \A i \in 1..m+n : right[i] = IF i <= m THEN a[i] ELSE last[i-m]
  <2>1. /\ right \in Seq(E) /\ Len(right) = m + Len(last)
        /\ \A i \in 1..m+Len(last) : right[i] = IF i <= m THEN a[i] ELSE last[i-m]
    BY <1>1, ConcatProperties
  <2> QED BY Zenon, <1>1, <2>1
<1>4. /\ left \in Seq(E) /\ Len(left) = m + n /\ left[m + n] = new
      /\ \A i \in 1..m+n-1 : left[i] = both[i]
  BY <1>2
<1> HIDE DEF left, right, m, n
<1>5. \A i \in 1..m+n : left[i] = right[i]
  <2> SUFFICES ASSUME NEW i \in 1..m+n PROVE left[i] = right[i]
    OBVIOUS
  <2>1. CASE i = m + n
    BY <1>1, <1>2, <1>3, <1>4, <2>1
  <2>2. CASE i # m + n /\ i <= m
    BY <1>2, <1>3, <1>4, <2>2
  <2>3. CASE i # m + n /\ ~(i <= m)
    <3>1. i \in 1..m+n-1 /\ i - m \in 1..n-1
      BY <1>2, <2>3
    <3> QED BY <1>1, <1>2, <1>3, <1>4, <2>3, <3>1
  <2> QED BY <2>1, <2>2, <2>3
<1>6. left = right
  BY <1>3, <1>4, <1>5, SeqEqual
<1> QED BY Zenon, <1>6 DEF left, right, last, both

\* A split around a symbol is a split of what is before it and of what is after it.
LEMMA SplitJoin ==
  ASSUME NEW E, NEW symbol \in E, NEW a \in Seq(E), NEW b \in Seq(E)
  PROVE  Split(Append(a, symbol) \o b, symbol) = Split(a, symbol) \o Split(b, symbol)
<1> DEFINE head == Append(a, symbol)
           A == Seq(E \ {symbol})
           T == {c \in Seq(E) : Split(head \o c, symbol) = Split(a, symbol) \o Split(c, symbol)}
<1>1. head \in Seq(E)
  OBVIOUS
<1>2. Split(a, symbol) \in Seq(A)
  BY SplitType DEF Runs
<1>3. ASSUME NEW c \in Seq(E) PROVE Split(c, symbol) \in Seq(A) /\ Split(c, symbol) # <<>>
  BY SplitType DEF Runs
<1>4. <<>> \in T
  <2>1. head \o <<>> = head /\ <<>> \in Seq(E)
    BY <1>1
  <2>2. Split(head, symbol) = Append(Split(a, symbol), <<>>)
    BY SplitAppend DEF SplitStep
  <2>3. Split(<<>>, symbol) = <<<<>>>>
    BY SplitEmpty
  <2> DEFINE before == Split(a, symbol)
  <2>4. before \in Seq(A)
    BY <1>2
  <2> HIDE DEF before, A
  <2>5. Append(before, <<>>) = before \o <<<<>>>>
    BY <2>4
  <2> QED BY Zenon, <2>1, <2>2, <2>3, <2>5 DEF before
<1>5. ASSUME NEW c \in Seq(E), NEW x \in E, c \in T PROVE Append(c, x) \in T
  <2> DEFINE both == head \o c
             before == Split(a, symbol)
             runs == Split(c, symbol)
  <2>1. head \o Append(c, x) = Append(both, x) /\ both \in Seq(E) /\ Append(c, x) \in Seq(E)
    BY <1>1, ConcatAppend
  <2>2. Split(both, symbol) = before \o runs
    BY <1>5
  <2>3. /\ before \in Seq(A) /\ runs \in Seq(A) /\ runs # <<>>
    BY <1>2, <1>3
  <2> HIDE DEF T, both, before, runs, head
  <2>4. Split(Append(both, x), symbol) = SplitStep(before \o runs, x, symbol)
    BY <2>1, <2>2, SplitAppend
  <2>5. Split(Append(c, x), symbol) = SplitStep(runs, x, symbol)
    BY SplitAppend DEF runs
  <2>6. SplitStep(before \o runs, x, symbol) = before \o SplitStep(runs, x, symbol)
    <3>1. CASE x = symbol
      <4>1. Append(before \o runs, <<>>) = before \o Append(runs, <<>>)
        <5> DEFINE none == <<>>
        <5>1. none \in A
          BY EmptySeq
        <5> HIDE DEF A, none
        <5>2. before \o Append(runs, none) = Append(before \o runs, none)
          BY ONLY <2>3, <5>1, ConcatAppend
        <5> QED BY Zenon, <5>2 DEF none
      <4> QED BY Zenon, <3>1, <4>1 DEF SplitStep
    <3>2. CASE x # symbol
      <4> DEFINE new == Append(runs[Len(runs)], x)
      <4>1. new \in A
        <5> DEFINE R == E \ {symbol}
        <5>1. x \in R /\ runs[Len(runs)] \in Seq(R)
          BY <2>3, <3>2
        <5> HIDE DEF R
        <5>2. new \in Seq(R)
          BY <5>1
        <5> QED BY <5>2 DEF R
      <4>2. (before \o runs)[Len(before \o runs)] = runs[Len(runs)]
        <5> HIDE DEF A
        <5>1. /\ Len(before \o runs) = Len(before) + Len(runs)
              /\ Len(before) \in Nat /\ Len(runs) \in Nat /\ Len(runs) # 0
          BY <2>3, ConcatProperties
        <5> DEFINE p == Len(before \o runs)
        <5>2. \A i \in 1..Len(before)+Len(runs) :
                (before \o runs)[i] = IF i <= Len(before) THEN before[i] ELSE runs[i-Len(before)]
          BY <2>3, ConcatProperties
        <5>3. /\ p \in 1..Len(before)+Len(runs)
              /\ ~(p <= Len(before))
              /\ p - Len(before) = Len(runs)
          BY <5>1
        <5> HIDE DEF p
        <5>4. (before \o runs)[p] = runs[Len(runs)]
          BY Zenon, <5>2, <5>3
        <5> QED BY Zenon, <5>4 DEF p
      <4> HIDE DEF new, A
      <4>3. [before \o runs EXCEPT ![Len(before \o runs)] = new]
              = before \o [runs EXCEPT ![Len(runs)] = new]
        BY <2>3, <4>1, StepAfter
      <4> QED BY Zenon, <3>2, <4>2, <4>3 DEF SplitStep, new
    <3> QED BY Zenon, <3>1, <3>2
  <2>7. Split(head \o Append(c, x), symbol) = before \o Split(Append(c, x), symbol)
    BY Zenon, <2>1, <2>4, <2>5, <2>6
  <2> QED BY Zenon, <2>1, <2>7 DEF T, before
<1> HIDE DEF T
<1>6. Seq(E) \subseteq T
  BY <1>4, <1>5, AppendInduction
<1> QED BY Zenon, <1>6 DEF T, head

-----------------------------------------------------------------------------
(* How often an element occurs in a sequence. *)

Places(s, x) == {i \in 1..Len(s) : s[i] = x}

Occurs(s, x) == Cardinality(Places(s, x))

LEMMA PlacesFinite ==
  ASSUME NEW E, NEW s \in Seq(E), NEW x
  PROVE  IsFiniteSet(Places(s, x)) /\ Occurs(s, x) \in Nat
<1>1. IsFiniteSet(1..Len(s))
  BY FS_Interval
<1>2. Places(s, x) \in SUBSET (1..Len(s))
  BY DEF Places
<1>3. IsFiniteSet(Places(s, x))
  BY <1>1, <1>2, FS_Subset
<1> QED BY <1>3, FS_CardinalityType DEF Occurs

LEMMA OccursNot ==
  ASSUME NEW E, NEW s \in Seq(E), NEW x, x \notin ToSet(s)
  PROVE  Occurs(s, x) = 0
<1>1. Places(s, x) = {}
  BY DEF Places, ToSet
<1> QED BY <1>1, FS_EmptySet DEF Occurs

LEMMA OccursEmpty ==
  ASSUME NEW x
  PROVE  Occurs(<<>>, x) = 0
<1>1. Places(<<>>, x) = {}
  BY DEF Places
<1> QED BY <1>1, FS_EmptySet DEF Occurs

LEMMA OccursSingle ==
  ASSUME NEW y, NEW x
  PROVE  Occurs(<<y>>, x) = IF y = x THEN 1 ELSE 0
<1>1. CASE y = x
  <2>1. Places(<<y>>, x) = {1}
    BY <1>1 DEF Places
  <2> QED BY <1>1, <2>1, FS_Singleton DEF Occurs
<1>2. CASE y # x
  <2>1. Places(<<y>>, x) = {}
    BY <1>2 DEF Places
  <2> QED BY <1>2, <2>1, FS_EmptySet DEF Occurs
<1> QED BY <1>1, <1>2

LEMMA OccursConcat ==
  ASSUME NEW E, NEW s \in Seq(E), NEW t \in Seq(E), NEW x
  PROVE  Occurs(s \o t, x) = Occurs(s, x) + Occurs(t, x)
<1> DEFINE m == Len(s)
           n == Len(t)
           shifted == {i \in m+1..m+n : t[i - m] = x}
<1>1. m \in Nat /\ n \in Nat
  OBVIOUS
<1>2. /\ Len(s \o t) = m + n
      /\ \A i \in 1..m+n : (s \o t)[i] = IF i <= m THEN s[i] ELSE t[i - m]
  BY ConcatProperties
<1> HIDE DEF m, n
<1>3. Places(s \o t, x) = Places(s, x) \cup shifted
  <2>1. Len(s) = m
    BY DEF m
  <2>2. \A i \in 1..m+n : i \in 1..m \/ i \in m+1..m+n
    BY <1>1
  <2>3. \A i \in 1..m : i \in 1..m+n /\ i <= m
    BY <1>1
  <2>4. \A i \in m+1..m+n : i \in 1..m+n /\ ~(i <= m)
    BY <1>1
  <2> QED BY <1>2, <2>1, <2>2, <2>3, <2>4 DEF Places
<1>4. Places(s, x) \cap shifted = {}
  <2>1. \A i \in Places(s, x) : i \in 1..m
    BY DEF Places, m
  <2>2. \A i \in 1..m : i \notin m+1..m+n
    BY <1>1
  <2> QED BY <2>1, <2>2
<1>5. IsFiniteSet(shifted) /\ Cardinality(shifted) = Occurs(t, x)
  <2> DEFINE f == [i \in Places(t, x) |-> i + m]
  <2>1. \A i \in Places(t, x) : i \in 1..n /\ t[i] = x
    BY DEF Places, n
  <2>2. f \in [Places(t, x) -> shifted]
    <3>1. \A i \in Places(t, x) : i + m \in m+1..m+n /\ (i + m) - m = i
      BY <1>1, <2>1
    <3> QED BY <2>1, <3>1
  <2>3. \A i, j \in Places(t, x) : f[i] = f[j] => i = j
    BY <1>1, <2>1
  <2>4. \A k \in shifted : \E i \in Places(t, x) : f[i] = k
    <3> SUFFICES ASSUME NEW k \in shifted PROVE \E i \in Places(t, x) : f[i] = k
      OBVIOUS
    <3>1. k - m \in 1..n /\ t[k - m] = x /\ (k - m) + m = k
      BY <1>1
    <3>2. k - m \in Places(t, x)
      BY <3>1 DEF Places, n
    <3> QED BY <3>1, <3>2
  <2>5. f \in Bijection(Places(t, x), shifted)
    <3> HIDE DEF f, shifted
    <3> QED BY <2>2, <2>3, <2>4 DEF Bijection, Injection, Surjection, IsInjective
  <2> HIDE DEF f, shifted
  <2>6. IsFiniteSet(Places(t, x))
    BY PlacesFinite
  <2>7. ExistsBijection(Places(t, x), shifted)
    BY <2>5 DEF ExistsBijection
  <2> QED BY <2>6, <2>7, FS_Bijection DEF Occurs
<1> HIDE DEF shifted
<1>6. IsFiniteSet(Places(s, x)) /\ Occurs(s, x) \in Nat /\ Occurs(t, x) \in Nat
  BY PlacesFinite
<1>7. Cardinality(Places(s, x) \cup shifted) =
        Cardinality(Places(s, x)) + Cardinality(shifted) - Cardinality({})
  BY <1>4, <1>5, <1>6, FS_Union
<1> QED BY <1>3, <1>5, <1>6, <1>7, FS_EmptySet DEF Occurs

-----------------------------------------------------------------------------
(* FlattenSeq. *)

LEMMA FlattenRun ==
  ASSUME NEW E, NEW s \in Seq(Seq(E))
  PROVE  \E r : /\ \A i \in 0..Len(s) : r[i] \in Seq(E)
                /\ r[0] = <<>>
                /\ \A i \in 1..Len(s) : r[i] = r[i-1] \o s[i]
                /\ r[Len(s)] = FlattenSeq(s)
<1> DEFINE n == Len(s)
           A == Seq(E)
           step == [p \in (1..n) \X A |-> p[2] \o s[p[1]]]
           Is(f) == f = [i \in 1..n |-> IF i = 1 THEN s[i] ELSE f[i-1] \o s[i]]
           F == CHOOSE f : Is(f)
<1>1. n \in Nat /\ <<>> \in A /\ \A i \in 1..n : s[i] \in A
  OBVIOUS
<1>2. \A i \in 1..n, a \in A : step[<<i, a>>] = a \o s[i]
  OBVIOUS
<1>3. /\ \A i \in 1..n, a \in A : a \o s[i] \in A
      /\ \A i \in 1..n : <<>> \o s[i] = s[i]
  BY <1>1, ConcatProperties, ConcatEmptySeq
<1> HIDE DEF step, A, n
<1>4. Steps(n, A, step)
  BY <1>2, <1>3 DEF Steps
<1>5. PICK r : IsRun(r, n, A, <<>>, step)
  BY <1>1, <1>4, RunExists
<1>6. /\ \A i \in 0..n : r[i] \in A
      /\ r[0] = <<>>
      /\ \A i \in 1..n : r[i] = r[i-1] \o s[i]
  <2> SUFFICES ASSUME NEW i \in 1..n PROVE r[i] = r[i-1] \o s[i]
    BY <1>5 DEF IsRun
  <2>1. i - 1 \in 0..n
    BY <1>1
  <2> QED BY <1>2, <1>5, <2>1 DEF IsRun
<1>9. ASSUME 1 \in 1..n PROVE r[1] = s[1]
  <2>1. r[1] = r[1 - 1] \o s[1]
    BY Zenon, <1>6, <1>9
  <2>2. <<>> \o s[1] = s[1]
    BY Zenon, <1>3, <1>9
  <2>3. 1 - 1 = 0
    OBVIOUS
  <2> QED BY Zenon, <1>6, <2>1, <2>2, <2>3
<1>7. CASE n = 0
  <2>1. s = <<>>
    BY <1>7 DEF n
  <2>2. FlattenSeq(s) = <<>>
    BY <1>7, <2>1 DEF FlattenSeq, n
  <2> QED BY <1>6, <1>7, <2>2 DEF n, A
<1>8. CASE n # 0
  <2>1. Is(F)
    <3> DEFINE f == [i \in 1..n |-> r[i]]
    <3>1. ASSUME NEW i \in 1..n
          PROVE  f[i] = IF i = 1 THEN s[i] ELSE f[i-1] \o s[i]
      <4>1. CASE i = 1
        <5> QED BY <1>9, <4>1
      <4>2. CASE i # 1
        <5>1. i - 1 \in 1..n
          BY <1>1, <4>2
        <5> QED BY <1>6, <4>2, <5>1
      <4> QED BY <4>1, <4>2
    <3>2. Is(f)
      BY <3>1
    <3> HIDE DEF f
    <3> QED BY <3>2
  <2>2. FlattenSeq(s) = F[n]
    BY <1>8 DEF FlattenSeq, n
  <2> HIDE DEF F
  <2> DEFINE q == [i \in 0..n |-> IF i = 0 THEN <<>> ELSE F[i]]
  <2>3. r[0] = q[0]
    BY <1>1, <1>6
  <2>4. ASSUME NEW i \in 1..n, r[i-1] = q[i-1] PROVE r[i] = q[i]
    <3>1. F[i] = IF i = 1 THEN s[i] ELSE F[i-1] \o s[i]
      BY <2>1
    <3>2. i \in 0..n /\ i - 1 \in 0..n /\ i # 0
      BY <1>1
    <3>3. q[i] = F[i]
      BY <3>2
    <3>4. r[i] = r[i-1] \o s[i]
      BY <1>6
    <3>5. CASE i = 1
      <4> QED BY <1>9, <3>1, <3>3, <3>5
    <3>6. CASE i # 1
      <4>1. i - 1 # 0
        BY <1>1, <3>6
      <4>2. q[i-1] = F[i-1]
        BY <3>2, <4>1
      <4> QED BY <2>4, <3>1, <3>3, <3>4, <3>6, <4>2
    <3> QED BY <3>5, <3>6
  <2> HIDE DEF q
  <2>5. r[n] = q[n]
    <3>1. \A i \in 1..n : r[i-1] = q[i-1] => r[i] = q[i]
      BY <2>4
    <3>2. n \in Nat /\ Alike(n, r, q)
      BY <1>1, <2>3, <3>1 DEF Alike
    <3> QED BY Zenon, <3>2, RunsEnd
  <2>6. q[n] = F[n]
    BY <1>1, <1>8 DEF q
  <2> QED BY <1>6, <2>2, <2>5, <2>6 DEF n, A
<1> QED BY <1>7, <1>8

LEMMA FlattenEmpty == FlattenSeq(<<>>) = <<>>
BY DEF FlattenSeq

LEMMA FlattenAppend ==
  ASSUME NEW E, NEW s \in Seq(Seq(E)), NEW x \in Seq(E)
  PROVE  /\ FlattenSeq(s) \in Seq(E)
         /\ FlattenSeq(Append(s, x)) = FlattenSeq(s) \o x
<1> DEFINE n == Len(s)
           t == Append(s, x)
<1>1. /\ n \in Nat /\ n \in 0..n
      /\ t \in Seq(Seq(E)) /\ Len(t) = n + 1 /\ t[n+1] = x
      /\ \A i \in 1..n : t[i] = s[i]
  BY AppendProperties
<1>2. PICK r : /\ \A i \in 0..n : r[i] \in Seq(E)
               /\ r[0] = <<>>
               /\ \A i \in 1..n : r[i] = r[i-1] \o s[i]
               /\ r[n] = FlattenSeq(s)
  BY FlattenRun
<1> HIDE DEF t
<1>3. PICK q : /\ q[0] = <<>>
               /\ \A i \in 1..Len(t) : q[i] = q[i-1] \o t[i]
               /\ q[Len(t)] = FlattenSeq(t)
  BY <1>1, FlattenRun
<1> HIDE DEF n
<1>4. \A i \in 1..n : r[i-1] = q[i-1] => r[i] = q[i]
  <2>1. \A i \in 1..n : i \in 1..n+1
    BY <1>1
  <2> QED BY <1>1, <1>2, <1>3, <2>1
<1>5. r[n] = q[n]
  <2>1. r[0] = q[0]
    BY <1>2, <1>3
  <2>2. n \in Nat /\ Alike(n, r, q)
    BY <1>1, <1>4, <2>1 DEF Alike
  <2> QED BY Zenon, <2>2, RunsEnd
<1>6. q[n+1] = q[n] \o x
  <2>1. n + 1 \in 1..n+1 /\ (n + 1) - 1 = n
    BY <1>1
  <2> QED BY <1>1, <1>3, <2>1
<1> QED BY <1>1, <1>2, <1>3, <1>5, <1>6 DEF t

-----------------------------------------------------------------------------
(* The first run of a split. *)

First(s, symbol, p, m) ==
  /\ Len(p) <= m
  /\ p = SubSeq(s, 1, Len(p))
  /\ Len(p) # m => s[Len(p) + 1] = symbol

LEMMA FirstKept ==
  ASSUME NEW s, NEW symbol, NEW p, NEW m \in Nat, Len(p) \in Nat, Len(p) # m,
         First(s, symbol, p, m)
  PROVE  First(s, symbol, p, m + 1)
<1>1. Len(p) <= m
  BY Zenon DEF First
<1>2. Len(p) <= m + 1
  BY <1>1
<1> QED BY Zenon, <1>2 DEF First

LEMMA SplitFirst ==
  ASSUME NEW E, NEW s \in Seq(E), NEW symbol
  PROVE  /\ Split(s, symbol)[1] \in Seq(E \ {symbol})
         /\ Len(Split(s, symbol)[1]) <= Len(s)
         /\ Split(s, symbol)[1] = SubSeq(s, 1, Len(Split(s, symbol)[1]))
         /\ Len(Split(s, symbol)[1]) # Len(s) => s[Len(Split(s, symbol)[1]) + 1] = symbol
<1> DEFINE n == Len(s)
<1>1. PICK r : /\ \A i \in 0..n : r[i] \in Runs(E \ {symbol})
               /\ r[0] = <<<<>>>>
               /\ \A i \in 1..n : r[i] = SplitStep(r[i-1], s[i], symbol)
               /\ r[n] = Split(s, symbol)
  BY SplitRun
<1> DEFINE T == {i \in 0..n : First(s, symbol, r[i][1], i) /\ (Len(r[i]) = 1 <=> Len(r[i][1]) = i)}
<1>2. n \in Nat /\ \A i \in 1..n : SubSeq(s, 1, i) = Append(SubSeq(s, 1, i-1), s[i])
  BY PrefixFacts
<1>3. 0 \in T
  <2>1. r[0][1] = <<>> /\ Len(<<>>) = 0 /\ SubSeq(s, 1, 0) = <<>> /\ Len(r[0]) = 1
    BY <1>1, PrefixFacts
  <2>2. 0 \in 0..n /\ 0 <= 0
    BY <1>2
  <2> QED BY <2>1, <2>2 DEF First
<1>4. ASSUME NEW i \in 0..n-1, i \in T PROVE i + 1 \in T
  <2>1. i \in Nat /\ i \in 0..n /\ i + 1 \in 0..n /\ i + 1 \in 1..n /\ (i + 1) - 1 = i
    BY <1>2
  <2> DEFINE runs == r[i]
             new == r[i+1]
             x == s[i+1]
             first == runs[1]
  <2>2. new = SplitStep(runs, x, symbol)
    BY <1>1, <2>1
  <2>3. /\ runs \in Seq(Seq(E \ {symbol})) /\ Len(runs) \in Nat /\ Len(runs) >= 1
        /\ first \in Seq(E \ {symbol}) /\ Len(first) \in Nat
    <3>1. r[i] \in Runs(E \ {symbol})
      BY <1>1, <2>1
    <3> QED BY <3>1 DEF Runs
  <2>4. First(s, symbol, first, i) /\ (Len(runs) = 1 <=> Len(first) = i)
    BY <1>4
  <2>9. /\ Len(runs) \in Nat /\ Len(runs) >= 1 /\ Len(first) \in Nat
        /\ Len(first) <= i /\ Len(first) # i + 1
    BY <2>1, <2>3, <2>4 DEF First
  <2>5. SubSeq(s, 1, i+1) = Append(SubSeq(s, 1, i), x)
    BY <1>2, <2>1
  <2> HIDE DEF n, runs, x, first, T
  <2>6. CASE x = symbol
    <3>1. new = Append(runs, <<>>)
      BY <2>2, <2>6 DEF SplitStep
    <3>2. Len(new) = Len(runs) + 1 /\ new[1] = first
      BY <2>3, <3>1 DEF first
    <3> HIDE DEF new
    <3>3. First(s, symbol, first, i + 1)
      <4>1. CASE Len(first) = i
        BY <2>1, <2>4, <2>6, <4>1 DEF x, First
      <4>2. CASE Len(first) # i
        BY Zenon, <2>1, <2>4, <2>9, <4>2, FirstKept
      <4> QED BY <4>1, <4>2
    <3>4. Len(new) # 1 /\ Len(first) # i + 1
      BY <2>9, <3>2
    <3> QED BY <2>1, <3>2, <3>3, <3>4 DEF new, T
  <2>7. CASE x # symbol /\ Len(runs) # 1
    <3>1. new = [runs EXCEPT ![Len(runs)] = Append(runs[Len(runs)], x)]
      BY <2>2, <2>7 DEF SplitStep
    <3>2. Len(new) = Len(runs) /\ new[1] = first
      BY <2>3, <2>7, <3>1 DEF first
    <3> HIDE DEF new
    <3>3. Len(first) # i /\ Len(first) <= i
      BY <2>4, <2>7 DEF First
    <3>4. First(s, symbol, first, i + 1) /\ Len(first) # i + 1
      BY Zenon, <2>1, <2>4, <2>9, <3>3, FirstKept
    <3> QED BY <2>1, <2>7, <3>2, <3>4 DEF new, T
  <2>8. CASE x # symbol /\ Len(runs) = 1
    <3>1. new = [runs EXCEPT ![1] = Append(first, x)]
      BY <2>2, <2>8 DEF SplitStep, first
    <3>2. Len(new) = 1 /\ new[1] = Append(first, x)
      BY <2>3, <2>8, <3>1
    <3>3. Len(first) = i /\ first = SubSeq(s, 1, i)
      BY <2>4, <2>8 DEF First
    <3>4. Append(first, x) = SubSeq(s, 1, i+1)
      BY <2>5, <3>3
    <3>5. Len(Append(first, x)) = i + 1
      BY <2>3, <3>3
    <3> HIDE DEF new
    <3>6. First(s, symbol, new[1], i + 1) /\ Len(new[1]) = i + 1
      BY <2>1, <3>2, <3>4, <3>5 DEF First
    <3> QED BY <2>1, <3>2, <3>6 DEF new, T
  <2> QED BY <2>6, <2>7, <2>8
<1>5. n \in T
  <2> HIDE DEF T, n
  <2>1. 0..n \subseteq T
    BY <1>2, <1>3, <1>4, SegmentInduction
  <2> QED BY <1>2, <2>1
<1>6. First(s, symbol, Split(s, symbol)[1], n)
  BY <1>1, <1>5
<1>7. Split(s, symbol) \in Runs(E \ {symbol})
  BY SplitType
<1>8. Split(s, symbol)[1] \in Seq(E \ {symbol})
  BY <1>7 DEF Runs
<1> QED BY <1>6, <1>8 DEF First

-----------------------------------------------------------------------------
(* The runs of a split, by their places in what was split. *)

\* c is what s holds between l and r: a symbol, or the end, on either side of it
\* and none in it.
Gap(s, symbol, l, r, c) ==
  /\ l \in 0..Len(s) /\ r \in l+1..Len(s)+1
  /\ l # 0 => s[l] = symbol
  /\ r # Len(s) + 1 => s[r] = symbol
  /\ Len(c) = r - l - 1
  /\ \A i \in 1..Len(c) : c[i] = s[l+i] /\ c[i] # symbol

AreGaps(s, symbol, runs) ==
  /\ \A c : c = runs[Len(runs)] => \E l : Gap(s, symbol, l, Len(s)+1, c)
  /\ \A j \in 1..Len(runs)-1 : \E l, r : r # Len(s) + 1 /\ Gap(s, symbol, l, r, runs[j])

LEMMA GapKept ==
  ASSUME NEW E, NEW s \in Seq(E), NEW x \in E, NEW symbol, NEW c, NEW l, NEW r,
         r # Len(s) + 1 \/ x = symbol,
         Gap(s, symbol, l, r, c)
  PROVE  Gap(Append(s, x), symbol, l, r, c) /\ r # Len(Append(s, x)) + 1
<1> DEFINE t == Append(s, x)
           n == Len(s)
<1>1. /\ n \in Nat /\ Len(t) = n + 1 /\ t[n+1] = x
      /\ \A i \in 1..n : t[i] = s[i]
  BY AppendProperties
<1> HIDE DEF t
<1>2. /\ l \in 0..n /\ r \in l+1..n+1
      /\ l # 0 => s[l] = symbol
      /\ r # n + 1 => s[r] = symbol
      /\ Len(c) = r - l - 1
      /\ \A i \in 1..Len(c) : c[i] = s[l+i] /\ c[i] # symbol
  BY Zenon DEF Gap
<1> HIDE DEF n
<1>3. /\ l \in 0..n+1 /\ r \in l+1..(n+1)+1 /\ r # (n+1)+1
      /\ l # 0 => l \in 1..n
      /\ r # n + 1 => r \in 1..n
      /\ \A i \in 1..Len(c) : l + i \in 1..n
  BY <1>1, <1>2
<1>4. r = n + 1 => x = symbol
  BY Zenon DEF n
<1>5. t[r] = symbol
  BY <1>1, <1>2, <1>3, <1>4
<1>6. l # 0 => t[l] = symbol
  BY <1>1, <1>2, <1>3
<1>7. \A i \in 1..Len(c) : c[i] = t[l+i]
  BY Zenon, <1>1, <1>2, <1>3
<1> QED BY Zenon, <1>1, <1>2, <1>3, <1>5, <1>6, <1>7 DEF Gap, t

LEMMA GapGrows ==
  ASSUME NEW E, NEW s \in Seq(E), NEW x \in E, NEW symbol, x # symbol,
         NEW c \in Seq(E), NEW l, Gap(s, symbol, l, Len(s) + 1, c)
  PROVE  Gap(Append(s, x), symbol, l, Len(Append(s, x)) + 1, Append(c, x))
<1> DEFINE t == Append(s, x)
           n == Len(s)
           d == Append(c, x)
           m == Len(c)
<1>1. /\ n \in Nat /\ Len(t) = n + 1 /\ t[n+1] = x
      /\ \A i \in 1..n : t[i] = s[i]
  BY AppendProperties
<1>2. /\ m \in Nat /\ Len(d) = m + 1 /\ d[m+1] = x
      /\ \A i \in 1..m : d[i] = c[i]
  BY AppendProperties
<1> HIDE DEF t, d
<1>3. /\ l \in 0..n
      /\ l # 0 => s[l] = symbol
      /\ m = (n + 1) - l - 1
      /\ \A i \in 1..m : c[i] = s[l+i] /\ c[i] # symbol
  BY Zenon DEF Gap
<1> HIDE DEF n, m
<1>4. /\ l \in 0..n+1 /\ (n+1)+1 \in l+1..(n+1)+1
      /\ l # 0 => l \in 1..n
      /\ m + 1 = ((n + 1) + 1) - l - 1 /\ l + (m + 1) = n + 1
      /\ \A i \in 1..m : l + i \in 1..n
      /\ \A i \in 1..m+1 : i = m + 1 \/ i \in 1..m
  BY <1>1, <1>2, <1>3
<1>5. l # 0 => t[l] = symbol
  BY <1>1, <1>3, <1>4
<1>6. \A i \in 1..m+1 : d[i] = t[l+i] /\ d[i] # symbol
  <2> SUFFICES ASSUME NEW i \in 1..m+1 PROVE d[i] = t[l+i] /\ d[i] # symbol
    OBVIOUS
  <2>1. CASE i = m + 1
    BY Zenon, <1>1, <1>2, <1>4, <2>1
  <2>2. CASE i \in 1..m
    BY Zenon, <1>1, <1>2, <1>3, <1>4, <2>2
  <2> QED BY Zenon, <1>4, <2>1, <2>2
<1>7. Gap(t, symbol, l, (n+1)+1, d)
  BY Zenon, <1>1, <1>2, <1>4, <1>5, <1>6 DEF Gap
<1> QED BY Zenon, <1>1, <1>7 DEF t, d

LEMMA GapBegins ==
  ASSUME NEW E, NEW s \in Seq(E), NEW symbol \in E
  PROVE  Gap(Append(s, symbol), symbol, Len(s) + 1, Len(Append(s, symbol)) + 1, <<>>)
<1>1. /\ Len(s) \in Nat /\ Len(Append(s, symbol)) = Len(s) + 1
      /\ Append(s, symbol)[Len(s) + 1] = symbol
  BY AppendProperties
<1> QED BY <1>1 DEF Gap

\* Every run is a gap.
LEMMA RunsAreGaps ==
  ASSUME NEW E, NEW s \in Seq(E), NEW symbol
  PROVE  AreGaps(s, symbol, Split(s, symbol))
<1> DEFINE T == {t \in Seq(E) : AreGaps(t, symbol, Split(t, symbol))}
<1>1. <<>> \in T
  <2> DEFINE none == <<>>
             one == <<none>>
  <2>1. Split(<<>>, symbol) = one
    BY Zenon, SplitEmpty
  <2>2. Len(one) = 1 /\ one[1] = none /\ 1..Len(one)-1 = {}
    OBVIOUS
  <2>3. Gap(none, symbol, 0, Len(none) + 1, none)
    BY DEF Gap
  <2>4. none \in Seq(E)
    OBVIOUS
  <2> HIDE DEF none, one
  <2>5. AreGaps(none, symbol, one)
    BY Zenon, <2>2, <2>3 DEF AreGaps
  <2> QED BY Zenon, <2>1, <2>4, <2>5 DEF none
<1>2. ASSUME NEW t \in Seq(E), NEW x \in E, t \in T PROVE Append(t, x) \in T
  <2> DEFINE u == Append(t, x)
             runs == Split(t, symbol)
             m == Len(runs)
             new == Split(u, symbol)
  <2>1. u \in Seq(E)
    OBVIOUS
  <2>2. new = SplitStep(runs, x, symbol)
    BY Zenon, SplitAppend
  <2>3. /\ runs \in Seq(Seq(E \ {symbol})) /\ m \in Nat \ {0}
        /\ \A j \in 1..m : runs[j] \in Seq(E \ {symbol})
    <3>1. runs \in Runs(E \ {symbol})
      BY Zenon, SplitType
    <3> HIDE DEF runs
    <3> QED BY <3>1 DEF Runs
  <2>4. \A j \in 1..m : runs[j] \in Seq(E)
    BY ONLY <2>3, SeqMonotonic, E \ {symbol} \subseteq E
  <2>5. AreGaps(t, symbol, runs)
    BY Zenon, <1>2
  <2> HIDE DEF runs, u, new, T
  <2>6. PICK l : Gap(t, symbol, l, Len(t) + 1, runs[m])
    BY Zenon, <2>5 DEF AreGaps
  <2>7. ASSUME NEW j \in 1..m-1
        PROVE  \E k, r : r # Len(u) + 1 /\ Gap(u, symbol, k, r, runs[j])
    <3>1. PICK k, r : r # Len(t) + 1 /\ Gap(t, symbol, k, r, runs[j])
      BY Zenon, <2>5 DEF AreGaps
    <3> QED BY Zenon, <3>1, GapKept DEF u
  <2>8. CASE x = symbol
    <3>1. new = Append(runs, <<>>)
      BY Zenon, <2>2, <2>8 DEF SplitStep
    <3>2. /\ Len(new) = m + 1 /\ new[m+1] = <<>> /\ (m + 1) - 1 = m
          /\ \A j \in 1..m : new[j] = runs[j]
      BY ONLY <2>3, <3>1, AppendProperties
    <3>3. \E k : Gap(u, symbol, k, Len(u) + 1, <<>>)
      BY Zenon, <2>8, GapBegins DEF u
    <3>4. \E k, r : r # Len(u) + 1 /\ Gap(u, symbol, k, r, runs[m])
      BY Zenon, <2>6, <2>8, GapKept DEF u
    <3>5. ASSUME NEW j \in 1..m
          PROVE  \E k, r : r # Len(u) + 1 /\ Gap(u, symbol, k, r, new[j])
      <4>1. new[j] = runs[j]
        BY Zenon, <3>2
      <4>2. CASE j = m
        BY Zenon, <3>4, <4>1, <4>2
      <4>3. CASE j # m
        <5>1. j \in 1..m-1
          BY <2>3, <4>3
        <5> QED BY Zenon, <2>7, <4>1, <5>1
      <4> QED BY Zenon, <4>2, <4>3
    <3>6. AreGaps(u, symbol, new)
      BY Zenon, <3>2, <3>3, <3>5 DEF AreGaps
    <3> QED BY Zenon, <2>1, <3>6 DEF T, new, u
  <2>9. CASE x # symbol
    <3> DEFINE longer == Append(runs[m], x)
    <3>1. new = [runs EXCEPT ![m] = longer]
      BY Zenon, <2>2, <2>9 DEF SplitStep
    <3> HIDE DEF longer
    <3>2. /\ Len(new) = m /\ new[m] = longer
          /\ \A j \in 1..m-1 : new[j] = runs[j]
      BY ONLY <2>3, <3>1
    <3>3. runs[m] \in Seq(E)
      BY <2>3, <2>4
    <3>4. Gap(u, symbol, l, Len(u) + 1, longer)
      BY Zenon, <2>6, <2>9, <3>3, GapGrows DEF u, longer
    <3>5. AreGaps(u, symbol, new)
      BY Zenon, <2>7, <3>2, <3>4 DEF AreGaps
    <3> QED BY Zenon, <2>1, <3>5 DEF T, new, u
  <2> QED BY Zenon, <2>8, <2>9
<1> HIDE DEF T
<1>3. Seq(E) \subseteq T
  BY <1>1, <1>2, AppendInduction
<1> QED BY Zenon, <1>3 DEF T


\* The place a of s is in the gap of the last run, or of one before it.
InLast(s, symbol, runs, a) ==
  \E l : l < a /\ Gap(s, symbol, l, Len(s)+1, runs[Len(runs)])

InOther(s, symbol, runs, a) ==
  \E j \in 1..Len(runs)-1 : \E l, r :
    l < a /\ a < r /\ r # Len(s)+1 /\ Gap(s, symbol, l, r, runs[j])

Covered(s, symbol, runs) ==
  \A a \in 1..Len(s) :
    s[a] = symbol \/ InLast(s, symbol, runs, a) \/ InOther(s, symbol, runs, a)

\* Whatever is no symbol is in a run.
LEMMA RunsCover ==
  ASSUME NEW E, NEW s \in Seq(E), NEW symbol
  PROVE  Covered(s, symbol, Split(s, symbol))
<1> DEFINE T == {t \in Seq(E) : Covered(t, symbol, Split(t, symbol))}
<1>1. <<>> \in T
  <2> DEFINE none == <<>>
  <2>1. none \in Seq(E) /\ 1..Len(none) = {}
    OBVIOUS
  <2> HIDE DEF none
  <2>2. Covered(none, symbol, Split(none, symbol))
    BY Zenon, <2>1 DEF Covered
  <2> QED BY Zenon, <2>1, <2>2 DEF none
<1>2. ASSUME NEW t \in Seq(E), NEW x \in E, t \in T PROVE Append(t, x) \in T
  <2> DEFINE u == Append(t, x)
             n == Len(t)
             runs == Split(t, symbol)
             m == Len(runs)
             new == Split(u, symbol)
  <2>1. /\ u \in Seq(E) /\ n \in Nat /\ Len(u) = n + 1 /\ u[n+1] = x
        /\ \A a \in 1..n : u[a] = t[a]
    BY AppendProperties
  <2>2. new = SplitStep(runs, x, symbol)
    BY Zenon, SplitAppend
  <2>3. /\ runs \in Seq(Seq(E \ {symbol})) /\ m \in Nat \ {0}
        /\ \A j \in 1..m : runs[j] \in Seq(E \ {symbol})
    <3>1. runs \in Runs(E \ {symbol})
      BY Zenon, SplitType
    <3> HIDE DEF runs
    <3> QED BY <3>1 DEF Runs
  <2>4. runs[m] \in Seq(E)
    <3>1. runs[m] \in Seq(E \ {symbol})
      BY <2>3
    <3> QED BY ONLY <3>1, SeqMonotonic, E \ {symbol} \subseteq E
  <2>5. Covered(t, symbol, runs) /\ AreGaps(t, symbol, runs)
    BY Zenon, <1>2, RunsAreGaps
  <2> HIDE DEF runs, u, new, T
  <2>6. PICK k : Gap(t, symbol, k, n + 1, runs[m])
    BY Zenon, <2>5 DEF AreGaps
  <2>7. ASSUME NEW l, NEW r, NEW c, Gap(t, symbol, l, r, c), r # n + 1 \/ x = symbol
        PROVE  Gap(u, symbol, l, r, c) /\ r # Len(u) + 1
    BY Zenon, <2>7, GapKept DEF u
  <2>8. Covered(u, symbol, new)
    <3> SUFFICES ASSUME NEW a \in 1..n+1
                 PROVE  u[a] = symbol \/ InLast(u, symbol, new, a) \/ InOther(u, symbol, new, a)
      BY Zenon, <2>1 DEF Covered
    <3>1. a \in 1..n => t[a] = symbol \/ InLast(t, symbol, runs, a) \/ InOther(t, symbol, runs, a)
      BY Zenon, <2>5 DEF Covered
    <3>2. CASE x = symbol
      <4>1. new = Append(runs, <<>>)
        BY Zenon, <2>2, <3>2 DEF SplitStep
      <4>2. /\ Len(new) - 1 = m /\ m \in 1..m /\ \A j \in 1..m-1 : j \in 1..m
            /\ \A j \in 1..m : new[j] = runs[j]
        BY ONLY <2>3, <4>1, AppendProperties
      <4>3. CASE a = n + 1
        BY Zenon, <2>1, <3>2, <4>3
      <4>4. CASE a \in 1..n /\ t[a] = symbol
        BY Zenon, <2>1, <4>4
      <4>5. CASE a \in 1..n /\ InLast(t, symbol, runs, a)
        <5>1. PICK l : l < a /\ Gap(t, symbol, l, n + 1, runs[m])
          BY Zenon, <4>5 DEF InLast
        <5>2. Gap(u, symbol, l, n + 1, new[m]) /\ n + 1 # Len(u) + 1
          BY Zenon, <2>7, <3>2, <4>2, <5>1
        <5>3. a < n + 1
          BY <2>1, <4>5
        <5> QED BY Zenon, <4>2, <5>1, <5>2, <5>3 DEF InOther
      <4>6. CASE a \in 1..n /\ InOther(t, symbol, runs, a)
        <5>1. PICK j, l, r :
                j \in 1..m-1 /\ l < a /\ a < r /\ r # n + 1 /\ Gap(t, symbol, l, r, runs[j])
          BY Zenon, <4>6 DEF InOther
        <5>2. Gap(u, symbol, l, r, new[j]) /\ r # Len(u) + 1
          BY Zenon, <2>7, <4>2, <5>1
        <5> QED BY Zenon, <4>2, <5>1, <5>2 DEF InOther
      <4>7. a = n + 1 \/ a \in 1..n
        BY <2>1
      <4> QED BY Zenon, <3>1, <4>3, <4>4, <4>5, <4>6, <4>7
    <3>3. CASE x # symbol
      <4> DEFINE longer == Append(runs[m], x)
      <4>1. new = [runs EXCEPT ![m] = longer]
        BY Zenon, <2>2, <3>3 DEF SplitStep
      <4> HIDE DEF longer
      <4>2. /\ Len(new) = m /\ new[m] = longer
            /\ \A j \in 1..m-1 : new[j] = runs[j]
        BY ONLY <2>3, <4>1
      <4>3. ASSUME NEW l, Gap(t, symbol, l, n + 1, runs[m])
            PROVE  Gap(u, symbol, l, Len(u) + 1, new[m])
        BY Zenon, <2>4, <3>3, <4>2, <4>3, GapGrows DEF u, longer
      <4>4. CASE a \in 1..n /\ t[a] = symbol
        BY Zenon, <2>1, <4>4
      <4>5. CASE a \in 1..n /\ InLast(t, symbol, runs, a)
        BY Zenon, <4>2, <4>3, <4>5 DEF InLast
      <4>6. CASE a \in 1..n /\ InOther(t, symbol, runs, a)
        <5>1. PICK j, l, r :
                j \in 1..m-1 /\ l < a /\ a < r /\ r # n + 1 /\ Gap(t, symbol, l, r, runs[j])
          BY Zenon, <4>6 DEF InOther
        <5>2. Gap(u, symbol, l, r, new[j]) /\ r # Len(u) + 1
          BY Zenon, <2>7, <4>2, <5>1
        <5> QED BY Zenon, <4>2, <5>1, <5>2 DEF InOther
      <4>7. CASE a = n + 1
        <5>1. k < n + 1
          BY <2>1, <2>6 DEF Gap
        <5> QED BY Zenon, <2>6, <4>2, <4>3, <4>7, <5>1 DEF InLast
      <4>8. a = n + 1 \/ a \in 1..n
        BY <2>1
      <4> QED BY Zenon, <3>1, <4>4, <4>5, <4>6, <4>7, <4>8
    <3> QED BY Zenon, <3>2, <3>3
  <2> QED BY Zenon, <2>1, <2>8 DEF T, new, u
<1> HIDE DEF T
<1>3. Seq(E) \subseteq T
  BY <1>1, <1>2, AppendInduction
<1> QED BY Zenon, <1>3 DEF T

\* A run is what is between two symbols, and what is no symbol is in a run.
LEMMA SplitIsGaps ==
  ASSUME NEW E, NEW s \in Seq(E), NEW symbol
  PROVE  /\ \A c \in ToSet(Split(s, symbol)) :
              c \in Seq(E) /\ \E l, r : Gap(s, symbol, l, r, c)
         /\ \A a \in 1..Len(s) : s[a] # symbol =>
              \E c \in ToSet(Split(s, symbol)) : \E l, r :
                l < a /\ a < r /\ Gap(s, symbol, l, r, c)
<1> DEFINE runs == Split(s, symbol)
           m == Len(runs)
<1>1. /\ runs \in Seq(Seq(E \ {symbol})) /\ m \in 1..m
      /\ DOMAIN runs = 1..m /\ \A j \in 1..m-1 : j \in 1..m
      /\ \A j \in 1..m : j = m \/ j \in 1..m-1
      /\ \A j \in 1..m : runs[j] \in Seq(E \ {symbol})
  <2>1. runs \in Runs(E \ {symbol})
    BY Zenon, SplitType
  <2> HIDE DEF runs
  <2> QED BY <2>1 DEF Runs
<1>2. Seq(E \ {symbol}) \subseteq Seq(E)
  BY SeqMonotonic, E \ {symbol} \subseteq E
<1>3. AreGaps(s, symbol, runs) /\ Covered(s, symbol, runs)
  BY Zenon, RunsAreGaps, RunsCover
<1>4. Len(s) \in Nat
  OBVIOUS
<1> HIDE DEF runs
<1>5. ASSUME NEW c \in ToSet(runs)
      PROVE  c \in Seq(E) /\ \E l, r : Gap(s, symbol, l, r, c)
  <2>1. PICK j \in 1..m : c = runs[j]
    BY Zenon, <1>1 DEF ToSet
  <2>2. c \in Seq(E)
    BY Zenon, <1>1, <1>2, <2>1
  <2> QED BY Zenon, <1>1, <1>3, <2>1, <2>2 DEF AreGaps
<1>6. ASSUME NEW a \in 1..Len(s), s[a] # symbol
      PROVE  \E c \in ToSet(runs) : \E l, r : l < a /\ a < r /\ Gap(s, symbol, l, r, c)
  <2>1. \A j \in 1..m : runs[j] \in ToSet(runs)
    BY Zenon, <1>1 DEF ToSet
  <2>2. a < Len(s) + 1
    BY <1>4
  <2>3. CASE InLast(s, symbol, runs, a)
    BY Zenon, <1>1, <2>1, <2>2, <2>3 DEF InLast
  <2>4. CASE InOther(s, symbol, runs, a)
    BY Zenon, <1>1, <2>1, <2>4 DEF InOther
  <2> QED BY Zenon, <1>3, <1>6, <2>3, <2>4 DEF Covered
<1> QED BY Zenon, <1>5, <1>6 DEF runs

=============================================================================
