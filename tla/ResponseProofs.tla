---------------------------- MODULE ResponseProofs ----------------------------
(***************************************************************************)
(* What module Response, and the start of the process that it extends,     *)
(* promise for every configuration: proofs.                                *)
(***************************************************************************)
EXTENDS Response, DataInduction, FiniteSetTheorems

(* Paths: what Joined puts together is what Split took apart. *)

JoinStep(path, c) == IF path = <<>> THEN c ELSE path \o <<"/">> \o c

\* The literals are named: the provers do not know them to be strings.
Texts == STRING

Byte == STRING \cup {"/", "i", "a"}

Bytes == Seq(Byte)

LEMMA Slash == "/" \in Byte /\ <<"/">> \in Bytes
<1>1. "/" \in Byte
  BY DEF Byte
<1> QED BY <1>1 DEF Bytes

LEMMA JoinedRun ==
  ASSUME NEW s \in Seq(Bytes)
  PROVE  \E r : /\ \A i \in 0..Len(s) : r[i] \in Bytes
                /\ r[0] = <<>>
                /\ \A i \in 1..Len(s) : r[i] = JoinStep(r[i-1], s[i])
                /\ r[Len(s)] = Joined(s)
<1> DEFINE n == Len(s)
           step == [p \in (1..n) \X Bytes |-> JoinStep(p[2], s[p[1]])]
           Is(f) == f = [S \in SUBSET (DOMAIN s) |->
                           IF S = {} THEN <<>> ELSE JoinStep(f[S \ {Max(S)}], s[Max(S)])]
           F == CHOOSE f : Is(f)
<1>1. n \in Nat /\ DOMAIN s = 1..n /\ \A i \in 1..n : s[i] \in Bytes
  OBVIOUS
<1>2. <<>> \in Bytes
  BY DEF Bytes
<1>3. \A i \in 1..n, a \in Bytes : step[<<i, a>>] = JoinStep(a, s[i])
  OBVIOUS
<1> HIDE DEF step
<1>4. Steps(n, Bytes, step)
  <2>1. ASSUME NEW i \in 1..n, NEW a \in Bytes PROVE JoinStep(a, s[i]) \in Bytes
    <3>1. s[i] \in Bytes /\ <<"/">> \in Bytes
      BY <1>1, Slash
    <3>2. a \o <<"/">> \in Bytes
      BY <3>1, ConcatProperties DEF Bytes
    <3>3. (a \o <<"/">>) \o s[i] \in Bytes
      BY <3>1, <3>2, ConcatProperties DEF Bytes
    <3> QED BY <3>1, <3>3 DEF JoinStep
  <2> QED BY <1>3, <2>1 DEF Steps
<1>5. Is(F)
  <2>1. PICK f : /\ f = [S \in SUBSET (1..n) |-> f[S]]
                 /\ \A S \in SUBSET (1..n) : f[S] \in Bytes /\ IsFold(f, S, <<>>, step)
    BY <1>1, <1>2, <1>4, FoldExists
  <2>2. ASSUME NEW S \in SUBSET (1..n), S # {}
        PROVE  f[S] = JoinStep(f[S \ {Max(S)}], s[Max(S)])
    <3>1. Max(S) \in 1..n /\ S \ {Max(S)} \in SUBSET (1..n)
      BY <1>1, <2>2, MaxOf
    <3> QED BY <1>3, <2>1, <2>2, <3>1 DEF IsFold
  <2>3. f[{}] = <<>>
    BY <2>1 DEF IsFold
  <2>4. Is(f)
    BY <1>1, <2>1, <2>2, <2>3
  <2> QED BY <2>4
<1>6. Joined(s) = F[1..n]
  BY <1>1 DEF Joined, FoldLeft, MapThenFoldSet, JoinStep
<1> HIDE DEF F
<1>7. Unfolds(F, n, Bytes, <<>>, step)
  <2>1. F[{}] = <<>>
    BY <1>5
  <2>2. ASSUME NEW S \in SUBSET (1..n), S # {}, F[S \ {Max(S)}] \in Bytes
        PROVE  F[S] = step[<<Max(S), F[S \ {Max(S)}]>>]
    <3>1. Max(S) \in 1..n
      BY <1>1, <2>2, MaxOf
    <3> QED BY <1>1, <1>3, <1>5, <2>2, <3>1
  <2> QED BY <2>1, <2>2 DEF Unfolds, IsFold
<1>8. PICK r : IsRun(r, n, Bytes, <<>>, step) /\ r[n] = F[1..n]
  BY <1>1, <1>2, <1>4, <1>7, FoldIsRun
<1>9. \A i \in 1..n : r[i] = JoinStep(r[i-1], s[i])
  <2> SUFFICES ASSUME NEW i \in 1..n PROVE r[i] = JoinStep(r[i-1], s[i])
    OBVIOUS
  <2>1. i - 1 \in 0..n
    BY <1>1
  <2> QED BY <1>3, <1>8, <2>1 DEF IsRun
<1> QED BY <1>6, <1>8, <1>9 DEF IsRun

LEMMA JoinedAppend ==
  ASSUME NEW s \in Seq(Bytes), NEW c \in Bytes
  PROVE  /\ Joined(s) \in Bytes
         /\ Joined(Append(s, c)) = JoinStep(Joined(s), c)
<1> DEFINE n == Len(s)
           t == Append(s, c)
<1>1. /\ n \in Nat /\ n \in 0..n
      /\ t \in Seq(Bytes) /\ Len(t) = n + 1 /\ t[n+1] = c
      /\ \A i \in 1..n : t[i] = s[i]
  BY AppendProperties
<1>2. PICK r : /\ \A i \in 0..n : r[i] \in Bytes
               /\ r[0] = <<>>
               /\ \A i \in 1..n : r[i] = JoinStep(r[i-1], s[i])
               /\ r[n] = Joined(s)
  BY JoinedRun
<1> HIDE DEF t
<1>3. PICK q : /\ q[0] = <<>>
               /\ \A i \in 1..Len(t) : q[i] = JoinStep(q[i-1], t[i])
               /\ q[Len(t)] = Joined(t)
  BY <1>1, JoinedRun
<1> HIDE DEF n
<1>4. \A i \in 1..n : r[i-1] = q[i-1] => r[i] = q[i]
  <2>1. \A i \in 1..n : i \in 1..n+1
    BY <1>1
  <2> QED BY <1>1, <1>2, <1>3, <2>1
<1>5. r[n] = q[n]
  <2>1. r[0] = q[0]
    BY <1>2, <1>3
  <2>2. n \in Nat
    BY <1>1
  <2>3. \A i \in 0..n : r[i] = q[i]
    BY <1>4, <2>1, <2>2, RunsAgree, SMTT(30)
  <2> QED BY <1>1, <2>3
<1>6. q[n+1] = JoinStep(q[n], c)
  <2>1. n + 1 \in 1..Len(t) /\ (n + 1) - 1 = n
    BY <1>1
  <2> QED BY <1>1, <1>3, <2>1
<1> QED BY <1>1, <1>2, <1>3, <1>5, <1>6 DEF t

LEMMA JoinedEmpty == Joined(<<>>) = <<>>
<1>1. <<>> \in Seq(Bytes) /\ Len(<<>>) = 0
  OBVIOUS
<1>2. PICK r : r[0] = <<>> /\ r[0] = Joined(<<>>)
  BY <1>1, JoinedRun
<1> QED BY <1>2

\* What Split knows of a prefix p of its argument, once it is split into runs.
Halved(p, runs) ==
  \E F \in Seq(Bytes), l \in Bytes :
    /\ runs = Append(F, l)
    /\ <<>> \notin ToSet(F) =>
         IF F = <<>> THEN p = l
         ELSE Joined(F) # <<>> /\ p = (Joined(F) \o <<"/">>) \o l

LEMMA ToSetAppend ==
  ASSUME NEW E, NEW F \in Seq(E), NEW x \in E
  PROVE  ToSet(Append(F, x)) = ToSet(F) \cup {x}
<1>1. /\ Append(F, x) \in Seq(E) /\ Len(Append(F, x)) = Len(F) + 1
      /\ Append(F, x)[Len(F) + 1] = x
      /\ \A i \in 1..Len(F) : Append(F, x)[i] = F[i]
  BY AppendProperties
<1>2. DOMAIN F = 1..Len(F) /\ DOMAIN Append(F, x) = 1..Len(F) + 1
  BY <1>1
<1>3. \A i \in 1..Len(F) + 1 : i = Len(F) + 1 \/ i \in 1..Len(F)
  OBVIOUS
<1>4. \A i \in 1..Len(F) : i \in 1..Len(F) + 1
  OBVIOUS
<1>5. Len(F) + 1 \in 1..Len(F) + 1
  OBVIOUS
<1> HIDE <1>1
<1>6. ASSUME NEW y \in ToSet(Append(F, x)) PROVE y \in ToSet(F) \cup {x}
  BY <1>1, <1>2, <1>3 DEF ToSet
<1>7. ASSUME NEW y \in ToSet(F) PROVE y \in ToSet(Append(F, x))
  BY <1>1, <1>2, <1>4 DEF ToSet
<1>8. x \in ToSet(Append(F, x))
  BY <1>1, <1>2, <1>5 DEF ToSet
<1> QED BY <1>6, <1>7, <1>8

LEMMA HalvedStep ==
  ASSUME NEW p \in Bytes, NEW runs, Halved(p, runs), NEW x \in Byte
  PROVE  Halved(Append(p, x), SplitStep(runs, x, "/"))
<1>1. PICK F \in Seq(Bytes), l \in Bytes :
        /\ runs = Append(F, l)
        /\ <<>> \notin ToSet(F) =>
             IF F = <<>> THEN p = l
             ELSE Joined(F) # <<>> /\ p = (Joined(F) \o <<"/">>) \o l
  BY DEF Halved
<1>2. /\ runs \in Seq(Bytes) /\ Len(runs) = Len(F) + 1 /\ runs[Len(runs)] = l
      /\ \A i \in 1..Len(F) : runs[i] = F[i]
  BY <1>1, AppendProperties
<1>3. Append(p, x) = p \o <<x>> /\ <<>> \in Bytes /\ <<x>> \in Bytes /\ <<"/">> \in Bytes
  <2>1. Append(p, x) = p \o <<x>> /\ <<>> \in Bytes /\ <<x>> \in Bytes
    BY AppendIsConcat DEF Bytes
  <2> QED BY <2>1, Slash
<1>4. CASE x = "/"
  <2>1. SplitStep(runs, x, "/") = Append(runs, <<>>)
    BY <1>4 DEF SplitStep
  <2>2. ToSet(runs) = ToSet(F) \cup {l}
    BY <1>1, ToSetAppend
  <2>3. runs # <<>>
    BY <1>2
  <2>4. ASSUME <<>> \notin ToSet(runs)
        PROVE  Joined(runs) # <<>> /\ Append(p, x) = (Joined(runs) \o <<"/">>) \o <<>>
    <3>1. Joined(runs) = JoinStep(Joined(F), l)
      BY <1>1, JoinedAppend
    <3>2. Joined(runs) = p /\ p # <<>>
      <4>1. CASE F = <<>>
        <5>1. p = l /\ l # <<>>
          BY <1>1, <2>2, <2>4, <4>1
        <5>2. Joined(F) = <<>>
          BY <4>1, JoinedEmpty
        <5> QED BY <3>1, <5>1, <5>2 DEF JoinStep
      <4>2. CASE F # <<>>
        <5>1. Joined(F) # <<>> /\ p = (Joined(F) \o <<"/">>) \o l /\ l # <<>>
          BY <1>1, <2>2, <2>4, <4>2
        <5>2. Joined(F) \in Bytes
          BY <1>1, JoinedAppend
        <5>3. (Joined(F) \o <<"/">>) \in Bytes
          BY <1>3, <5>2, ConcatProperties DEF Bytes
        <5>4. p # <<>>
          BY <5>1, <5>3, ConcatEqualIffEmpty DEF Bytes
        <5> QED BY <3>1, <5>1, <5>4 DEF JoinStep
      <4> QED BY <4>1, <4>2
    <3>3. p \o <<x>> \in Bytes
      BY <1>3, ConcatProperties DEF Bytes
    <3>4. (p \o <<x>>) \o <<>> = p \o <<x>>
      BY <3>3, ConcatEmptySeq DEF Bytes
    <3> QED BY <1>3, <1>4, <3>2, <3>4
  <2> QED BY <1>2, <1>3, <2>1, <2>3, <2>4 DEF Halved
<1>5. CASE x # "/"
  <2>1. Append(l, x) \in Bytes /\ Append(l, x) = l \o <<x>>
    BY AppendProperties, AppendIsConcat DEF Bytes
  <2>2. SplitStep(runs, x, "/") = Append(F, Append(l, x))
    <3>1. SplitStep(runs, x, "/") = [runs EXCEPT ![Len(runs)] = Append(l, x)]
      BY <1>2, <1>5 DEF SplitStep
    <3> DEFINE new == [runs EXCEPT ![Len(runs)] = Append(l, x)]
               old == Append(F, Append(l, x))
    <3>2. /\ old \in Seq(Bytes) /\ Len(old) = Len(F) + 1 /\ old[Len(F) + 1] = Append(l, x)
          /\ \A i \in 1..Len(F) : old[i] = F[i]
      BY <2>1, AppendProperties
    <3>3. Len(runs) \in 1..Len(runs)
      BY <1>2
    <3>4. /\ new \in Seq(Bytes) /\ Len(new) = Len(runs)
          /\ \A i \in 1..Len(runs) : new[i] = IF i = Len(runs) THEN Append(l, x) ELSE runs[i]
      BY <1>2, <2>1, <3>3, ExceptSeq
    <3> HIDE DEF new, old
    <3>5. \A i \in 1..Len(new) : new[i] = old[i]
      <4>1. \A i \in 1..Len(F) + 1 : i = Len(F) + 1 \/ i \in 1..Len(F)
        OBVIOUS
      <4> QED BY <1>2, <3>2, <3>4, <4>1
    <3>6. new = old
      BY <1>2, <3>2, <3>4, <3>5, SeqEqual
    <3> QED BY <3>1, <3>6 DEF new, old
  <2>3. ASSUME <<>> \notin ToSet(F)
        PROVE  IF F = <<>> THEN Append(p, x) = Append(l, x)
               ELSE Joined(F) # <<>> /\ Append(p, x) = (Joined(F) \o <<"/">>) \o Append(l, x)
    <3>1. CASE F = <<>>
      BY <1>1, <2>3, <3>1
    <3>2. CASE F # <<>>
      <4>1. Joined(F) # <<>> /\ p = (Joined(F) \o <<"/">>) \o l
        BY <1>1, <2>3, <3>2
      <4>2. Joined(F) \in Bytes
        BY <1>1, JoinedAppend
      <4>3. (Joined(F) \o <<"/">>) \in Bytes
        BY <1>3, <4>2, ConcatProperties DEF Bytes
      <4>4. ((Joined(F) \o <<"/">>) \o l) \o <<x>> = (Joined(F) \o <<"/">>) \o (l \o <<x>>)
        BY <1>3, <4>3, ConcatAssociative DEF Bytes
      <4> QED BY <1>3, <2>1, <3>2, <4>1, <4>4
    <3> QED BY <3>1, <3>2
  <2> QED BY <2>1, <2>2, <2>3 DEF Halved
<1> QED BY <1>4, <1>5

\* A path without an empty component is that of its components.
LEMMA SplitJoins ==
  ASSUME NEW bytes \in Bytes, <<>> \notin ToSet(Split(bytes, "/"))
  PROVE  Joined(Split(bytes, "/")) = bytes
<1> DEFINE n == Len(bytes)
<1>1. PICK r : /\ r[0] = <<<<>>>>
               /\ \A i \in 1..n : r[i] = SplitStep(r[i-1], bytes[i], "/")
               /\ r[n] = Split(bytes, "/")
  BY SplitRun DEF Bytes
<1>2. /\ SubSeq(bytes, 1, 0) = <<>> /\ SubSeq(bytes, 1, n) = bytes
      /\ \A i \in 0..n : SubSeq(bytes, 1, i) \in Bytes
      /\ \A i \in 1..n : SubSeq(bytes, 1, i) = Append(SubSeq(bytes, 1, i-1), bytes[i])
      /\ \A i \in 1..n : bytes[i] \in Byte
      /\ n \in Nat
  BY PrefixFacts DEF Bytes
<1> DEFINE T == {i \in 0..n : Halved(SubSeq(bytes, 1, i), r[i])}
<1> HIDE DEF n
<1>3. 0 \in T
  <2>1. <<>> \in Seq(Bytes) /\ <<>> \in Bytes /\ <<<<>>>> = Append(<<>>, <<>>)
    BY DEF Bytes
  <2>2. Halved(<<>>, <<<<>>>>)
    BY <2>1 DEF Halved
  <2>3. 0 \in 0..n
    BY <1>2
  <2> QED BY <1>1, <1>2, <2>2, <2>3
<1>4. ASSUME NEW i \in 0..n-1, i \in T PROVE i + 1 \in T
  <2>1. i \in 0..n /\ i + 1 \in 0..n /\ i + 1 \in 1..n /\ (i + 1) - 1 = i
    BY <1>2
  <2>2. Halved(Append(SubSeq(bytes, 1, i), bytes[i+1]), SplitStep(r[i], bytes[i+1], "/"))
    BY <1>2, <1>4, <2>1, HalvedStep
  <2>3. /\ SubSeq(bytes, 1, i+1) = Append(SubSeq(bytes, 1, i), bytes[i+1])
        /\ r[i+1] = SplitStep(r[i], bytes[i+1], "/")
    BY <1>1, <1>2, <2>1
  <2> QED BY <2>1, <2>2, <2>3
<1> HIDE DEF T
<1>5. n \in T
  <2>1. 0..n \subseteq T
    BY <1>2, <1>3, <1>4, SegmentInduction
  <2> QED BY <1>2, <2>1
<1>6. Halved(bytes, Split(bytes, "/"))
  BY <1>1, <1>2, <1>5 DEF T
<1>7. PICK F \in Seq(Bytes), l \in Bytes :
        /\ Split(bytes, "/") = Append(F, l)
        /\ <<>> \notin ToSet(F) =>
             IF F = <<>> THEN bytes = l
             ELSE Joined(F) # <<>> /\ bytes = (Joined(F) \o <<"/">>) \o l
  BY <1>6 DEF Halved
<1>8. <<>> \notin ToSet(F)
  <2>1. ToSet(Append(F, l)) = ToSet(F) \cup {l}
    BY ToSetAppend
  <2> QED BY <1>7, <2>1
<1>9. Joined(Split(bytes, "/")) = JoinStep(Joined(F), l)
  BY <1>7, JoinedAppend
<1> QED BY <1>7, <1>8, <1>9, JoinedEmpty DEF JoinStep

LEMMA ParsedPath ==
  ASSUME NEW bytes \in Bytes, NEW path, path = ParseComponents(bytes), path # Invalid
  PROVE  path # <<>> /\ IsNormal(path) /\ Joined(path) = bytes
<1> DEFINE E == Byte \ {"\\"}
<1>1. /\ "\\" \notin ToSet(bytes)
      /\ ToSet(Split(bytes, "/")) \cap ({<<>>} \cup Dots) = {}
      /\ path = Split(bytes, "/")
  BY DEF ParseComponents
<1>2. Joined(path) = bytes
  BY <1>1, SplitJoins
<1>3. bytes \in Seq(E)
  <2>1. bytes \in [1..Len(bytes) -> Byte] /\ Len(bytes) \in Nat /\ DOMAIN bytes = 1..Len(bytes)
    BY DEF Bytes
  <2>2. \A i \in 1..Len(bytes) : bytes[i] \in E
    BY <1>1, <2>1 DEF ToSet
  <2> HIDE DEF E
  <2>3. bytes \in [1..Len(bytes) -> E]
    BY <2>1, <2>2
  <2> QED BY <2>1, <2>3, SeqDef
<1>4. path \in Seq(Seq(E \ {"/"})) /\ path # <<>>
  <2> HIDE DEF E
  <2> QED BY <1>1, <1>3, SplitType DEF Runs
<1>5. ASSUME NEW c \in ToSet(path) PROVE ToSet(c) \cap {"/", "\\"} = {}
  <2>1. c \in Seq(E \ {"/"})
    <3> HIDE DEF E
    <3>1. PICK i \in DOMAIN path : c = path[i]
      BY DEF ToSet
    <3> QED BY <1>4, <3>1
  <2>2. \A i \in DOMAIN c : c[i] \in E \ {"/"}
    <3> HIDE DEF E
    <3> QED BY <2>1
  <2> QED BY <2>2 DEF ToSet
<1> QED BY <1>1, <1>2, <1>4, <1>5 DEF IsNormal

LEMMA ParsedPrefix ==
  ASSUME NEW bytes \in Bytes, NEW path, path = ParseUrlPrefix(bytes), path # Invalid
  PROVE  /\ path # <<>> /\ IsNormal(path)
         /\ LET prefix == <<"/">> \o Joined(path)
            IN bytes \in {prefix, prefix \o <<"/">>}
<1>1. bytes # <<>> /\ Head(bytes) = "/" /\ Len(bytes) \in Nat /\ Len(bytes) >= 1
  BY DEF ParseUrlPrefix, Bytes
<1>2. CASE Len(bytes) > 1 /\ Last(bytes) = "/"
  <2> DEFINE inner == SubSeq(bytes, 2, Len(bytes) - 1)
  <2>1. path = ParseComponents(inner) /\ inner \in Bytes
    BY <1>1, <1>2 DEF ParseUrlPrefix, Bytes
  <2>2. path # <<>> /\ IsNormal(path) /\ Joined(path) = inner
    <3> HIDE DEF inner
    <3> QED BY <2>1, ParsedPath
  <2>3. (<<"/">> \o inner) \o <<"/">> = bytes
    BY <1>1, <1>2 DEF Bytes, Last
  <2> QED BY <2>2, <2>3
<1>3. CASE ~(Len(bytes) > 1 /\ Last(bytes) = "/")
  <2>1. path = ParseComponents(Tail(bytes)) /\ Tail(bytes) \in Bytes
    BY <1>1, <1>3 DEF ParseUrlPrefix, Bytes
  <2>2. path # <<>> /\ IsNormal(path) /\ Joined(path) = Tail(bytes)
    BY <2>1, ParsedPath
  <2>3. <<"/">> \o Tail(bytes) = bytes
    BY <1>1 DEF Bytes
  <2> QED BY <2>2, <2>3
<1> QED BY <1>2, <1>3

-----------------------------------------------------------------------------
(* The settings. *)

Flags == {"GZIP", "BROTLI", "DENY_DOTFILES"}

Timeouts == {"REQUEST_TIMEOUT_SECS", "SHUTDOWN_TIMEOUT_SECS"}

GoodPath(path, given) == path # <<>> /\ IsNormal(path) /\ Joined(path) = given

GoodPrefix(path, given) ==
  /\ path # <<>> /\ IsNormal(path)
  /\ LET prefix == <<"/">> \o Joined(path) IN given \in {prefix, prefix \o <<"/">>}

GoodHeaders(headers) ==
  headers \in Seq(Texts) /\ Len(headers) <= 32 /\ ToSet(headers) \cap Reserved = {}

\* What a setting is for the process that runs with it.
Good(v, raw, setting) ==
  /\ v = "THREADS" => setting \in 1..256
  /\ v = "QUEUE_SIZE" => setting \in 1..MaxQueueSize
  /\ v \in Timeouts => setting \in 1..300
  /\ v \in Flags => setting \in BOOLEAN
  /\ v = "ROOT" => setting = "absolute"
  /\ v = "INDEX" => GoodPath(setting, Or(raw, DefaultIndex))
  /\ v = "ASSETS_PATH" => GoodPrefix(setting, Or(raw, DefaultAssets))
  /\ v = "EXTRA_HEADERS" => GoodHeaders(setting)

\* Where a default may depend on another setting, that one is read before.
Known(v, before) == v = "QUEUE_SIZE" => before.THREADS \in 1..256

\* A setting that is taken is what it should be.
Right(v, raw, setting) == setting # Invalid => Good(v, raw, setting)

LEMMA SomeCpus == Least(Cpus, 32) \in 1..256
<1>1. Cpus \in Nat /\ Cpus # 0
  BY Zenon, ConfigAssumption
<1> QED BY SMT, <1>1 DEF Least

LEMMA TextsAreBytes ==
  Seq(Texts) \subseteq Bytes /\ DefaultIndex \in Bytes /\ DefaultAssets \in Bytes
<1>1. Texts \subseteq Byte /\ "/" \in Byte /\ "i" \in Byte /\ "a" \in Byte
  BY Zenon DEF Texts, Byte
<1>2. Seq(Texts) \subseteq Seq(Byte)
  BY SMT, <1>1, SeqMonotonic
<1> QED BY SMT, <1>1, <1>2 DEF Bytes, DefaultIndex, DefaultAssets

LEMMA AddressRight ==
  ASSUME NEW raw, NEW before
  PROVE  Right("LISTEN_ADDR", raw, Setting("LISTEN_ADDR", raw, before))
<1> DEFINE v == "LISTEN_ADDR"
           setting == Setting(v, raw, before)
<1>1. Good(v, raw, setting)
  BY SMT DEF Good, Flags, Timeouts
<1> QED BY Zenon, <1>1 DEF Right

LEMMA RootRight ==
  ASSUME NEW raw, NEW before
  PROVE  Right("ROOT", raw, Setting("ROOT", raw, before))
<1> DEFINE v == "ROOT"
           setting == Setting(v, raw, before)
<1>1. setting = IF raw = "absolute" THEN raw ELSE Invalid
  BY SMT DEF Setting
<1>2. setting = "absolute" => Good(v, raw, setting)
  BY SMT DEF Good, Flags, Timeouts
<1> HIDE DEF setting
<1>3. Right(v, raw, setting)
  BY Zenon, <1>1, <1>2 DEF Right
<1> QED BY <1>3 DEF setting

LEMMA IndexRight ==
  ASSUME NEW raw \in {Unset} \cup Seq(Texts), NEW before
  PROVE  Right("INDEX", raw, Setting("INDEX", raw, before))
<1> DEFINE v == "INDEX"
           setting == Setting(v, raw, before)
<1>1. setting = ParseRelativePath(Or(raw, DefaultIndex))
  BY SMT DEF Setting
<1>2. GoodPath(setting, Or(raw, DefaultIndex)) => Good(v, raw, setting)
  BY SMT DEF Good, Flags, Timeouts
<1> HIDE DEF setting
<1>3. Or(raw, DefaultIndex) \in Bytes
  BY SMT, TextsAreBytes DEF Or
<1>4. setting # Invalid => GoodPath(setting, Or(raw, DefaultIndex))
  <2>1. setting # Invalid => setting = ParseComponents(Or(raw, DefaultIndex))
    BY SMT, <1>1 DEF ParseRelativePath
  <2> QED BY SMT, <1>3, <2>1, ParsedPath DEF GoodPath
<1>5. Right(v, raw, setting)
  BY Zenon, <1>2, <1>4 DEF Right
<1> QED BY <1>5 DEF setting

LEMMA AssetsRight ==
  ASSUME NEW raw \in {Unset} \cup Seq(Texts), NEW before
  PROVE  Right("ASSETS_PATH", raw, Setting("ASSETS_PATH", raw, before))
<1> DEFINE v == "ASSETS_PATH"
           setting == Setting(v, raw, before)
<1>1. setting = ParseUrlPrefix(Or(raw, DefaultAssets))
  BY SMT DEF Setting
<1>2. GoodPrefix(setting, Or(raw, DefaultAssets)) => Good(v, raw, setting)
  BY SMT DEF Good, Flags, Timeouts
<1> HIDE DEF setting
<1>3. Or(raw, DefaultAssets) \in Bytes
  BY SMT, TextsAreBytes DEF Or
<1>4. setting # Invalid => GoodPrefix(setting, Or(raw, DefaultAssets))
  BY SMT, <1>1, <1>3, ParsedPrefix DEF GoodPrefix
<1>5. Right(v, raw, setting)
  BY Zenon, <1>2, <1>4 DEF Right
<1> QED BY <1>5 DEF setting

LEMMA ThreadsRight ==
  ASSUME NEW raw, NEW before
  PROVE  Right("THREADS", raw, Setting("THREADS", raw, before))
<1> DEFINE v == "THREADS"
           setting == Setting(v, raw, before)
<1>1. setting = ParseNumber(raw, Least(Cpus, 32), 256)
  BY SMT DEF Setting, MaxThreads
<1>2. Least(Cpus, 32) \in 1..256
  BY Zenon, SomeCpus
<1>3. setting \in 1..256 => Good(v, raw, setting)
  BY SMT DEF Good, Flags, Timeouts
<1> HIDE DEF setting
<1>4. setting # Invalid => setting \in 1..256
  BY Zenon, <1>1, <1>2 DEF ParseNumber
<1>5. Right(v, raw, setting)
  BY Zenon, <1>3, <1>4 DEF Right
<1> QED BY <1>5 DEF setting

LEMMA LeastIn ==
  ASSUME NEW m \in Nat, NEW n \in Nat, m # 0, n # 0
  PROVE  Least(m, n) \in 1..n
BY SMT DEF Least

LEMMA SomeQueue == MaxQueueSize \in Nat /\ MaxQueueSize # 0
BY SMT DEF MaxQueueSize

LEMMA QueueLimit == MaxQueueSize = LongestQueue
BY SMT DEF MaxQueueSize, LongestQueue

LEMMA QueueRight ==
  ASSUME NEW raw, NEW before, Known("QUEUE_SIZE", before)
  PROVE  Right("QUEUE_SIZE", raw, Setting("QUEUE_SIZE", raw, before))
<1> DEFINE v == "QUEUE_SIZE"
           setting == Setting(v, raw, before)
<1>1. setting = ParseNumber(raw, DefaultQueue(before), MaxQueueSize)
  BY SMT DEF Setting
<1>2. DefaultQueue(before) \in 1..MaxQueueSize
  <2> DEFINE threads == before.THREADS
  <2>1. threads \in 1..256
    BY Zenon DEF Known
  <2> HIDE DEF threads
  <2>2. Least(threads * 64, MaxQueueSize) \in 1..MaxQueueSize
    <3>1. threads * 64 \in Nat /\ threads * 64 # 0
      BY SMT, <2>1
    <3> QED BY SMT, <3>1, LeastIn, SomeQueue
  <2> QED BY Zenon, <2>2 DEF threads, DefaultQueue
<1>3. setting \in 1..MaxQueueSize => Good(v, raw, setting)
  BY SMT DEF Good, Flags, Timeouts
<1> HIDE DEF setting
<1>4. setting # Invalid => setting \in 1..MaxQueueSize
  BY Zenon, <1>1, <1>2 DEF ParseNumber
<1>5. Right(v, raw, setting)
  BY Zenon, <1>3, <1>4 DEF Right
<1> QED BY <1>5 DEF setting

LEMMA RequestTimeoutRight ==
  ASSUME NEW raw, NEW before
  PROVE  Right("REQUEST_TIMEOUT_SECS", raw, Setting("REQUEST_TIMEOUT_SECS", raw, before))
<1> DEFINE v == "REQUEST_TIMEOUT_SECS"
           setting == Setting(v, raw, before)
<1>1. setting = ParseNumber(raw, 5, 300)
  BY SMT DEF Setting, MaxTimeout
<1>2. 5 \in 1..300
  OBVIOUS
<1>3. setting \in 1..300 => Good(v, raw, setting)
  BY SMT DEF Good, Flags, Timeouts
<1> HIDE DEF setting
<1>4. setting # Invalid => setting \in 1..300
  BY Zenon, <1>1, <1>2 DEF ParseNumber
<1>5. Right(v, raw, setting)
  BY Zenon, <1>3, <1>4 DEF Right
<1> QED BY <1>5 DEF setting

LEMMA ShutdownTimeoutRight ==
  ASSUME NEW raw, NEW before
  PROVE  Right("SHUTDOWN_TIMEOUT_SECS", raw, Setting("SHUTDOWN_TIMEOUT_SECS", raw, before))
<1> DEFINE v == "SHUTDOWN_TIMEOUT_SECS"
           setting == Setting(v, raw, before)
<1>1. setting = ParseNumber(raw, 10, 300)
  BY SMT DEF Setting, MaxTimeout
<1>2. 10 \in 1..300
  OBVIOUS
<1>3. setting \in 1..300 => Good(v, raw, setting)
  BY SMT DEF Good, Flags, Timeouts
<1> HIDE DEF setting
<1>4. setting # Invalid => setting \in 1..300
  BY Zenon, <1>1, <1>2 DEF ParseNumber
<1>5. Right(v, raw, setting)
  BY Zenon, <1>3, <1>4 DEF Right
<1> QED BY <1>5 DEF setting

LEMMA FlagRight ==
  ASSUME NEW v \in Flags, NEW raw, NEW before
  PROVE  Right(v, raw, Setting(v, raw, before))
<1> DEFINE setting == Setting(v, raw, before)
<1>1. setting = ParseBool(raw, TRUE)
  <2>1. CASE v = "GZIP"
    BY SMT, <2>1 DEF Setting
  <2>2. CASE v = "BROTLI"
    BY SMT, <2>2 DEF Setting
  <2>3. CASE v = "DENY_DOTFILES"
    BY SMT, <2>3 DEF Setting
  <2> QED BY Zenon, <2>1, <2>2, <2>3 DEF Flags
<1>2. setting \in BOOLEAN => Good(v, raw, setting)
  BY Zenon DEF Good, Flags, Timeouts
<1> HIDE DEF setting
<1>3. setting # Invalid => setting \in BOOLEAN
  BY Zenon, <1>1 DEF ParseBool
<1>4. Right(v, raw, setting)
  BY Zenon, <1>2, <1>3 DEF Right
<1> QED BY <1>4 DEF setting

LEMMA HeadersRight ==
  ASSUME NEW raw \in {Unset, NotUtf8} \cup Seq(Texts), NEW before
  PROVE  Right("EXTRA_HEADERS", raw, Setting("EXTRA_HEADERS", raw, before))
<1> DEFINE v == "EXTRA_HEADERS"
           setting == Setting(v, raw, before)
<1>1. setting = IF raw = NotUtf8 THEN Invalid ELSE ParseExtraHeaders(Or(raw, <<>>))
  BY SMT DEF Setting
<1>2. GoodHeaders(setting) => Good(v, raw, setting)
  BY SMT DEF Good, Flags, Timeouts
<1> HIDE DEF setting
<1>3. ASSUME setting # Invalid PROVE GoodHeaders(setting)
  <2>1. raw # NotUtf8 /\ setting = ParseExtraHeaders(Or(raw, <<>>))
    BY Zenon, <1>1, <1>3
  <2>2. Or(raw, <<>>) \in Seq(Texts)
    BY SMT, <2>1, EmptySeq DEF Or
  <2> DEFINE blank == ""
  <2>3. setting = Without(Or(raw, <<>>), blank)
    BY Zenon, <1>3, <2>1 DEF ParseExtraHeaders
  <2>4. ~TooMany(setting) /\ ToSet(setting) \cap (Reserved \cup {"malformed"}) = {}
    BY Zenon, <1>3, <2>1 DEF ParseExtraHeaders
  <2> HIDE DEF blank
  <2>5. setting \in Seq(Texts)
    <3>1. setting \in Seq(Texts \ {blank})
      BY SMT, <2>2, <2>3, WithoutType
    <3> QED BY SMT, <3>1, SeqMonotonic
  <2>6. Len(setting) <= 32
    BY SMT, <2>4, <2>5 DEF TooMany, MaxExtraHeaders
  <2> QED BY SMT, <2>4, <2>5, <2>6 DEF GoodHeaders
<1>4. Right(v, raw, setting)
  BY Zenon, <1>2, <1>3 DEF Right
<1> QED BY <1>4 DEF setting

LEMMA RawOf ==
  /\ Raw("INDEX") = {Unset} \cup Seq(Texts)
  /\ Raw("ASSETS_PATH") = {Unset} \cup Seq(Texts)
  /\ Raw("EXTRA_HEADERS") = {Unset, NotUtf8} \cup Seq(Texts)
<1>1. Raw("INDEX") = {Unset} \cup Seq(Texts)
  BY Zenon DEF Raw, Texts
<1>2. Raw("ASSETS_PATH") = {Unset} \cup Seq(Texts)
  BY Zenon DEF Raw, Texts
<1>3. Raw("EXTRA_HEADERS") = {Unset, NotUtf8} \cup Seq(Texts)
  BY Zenon DEF Raw, Texts
<1> QED BY <1>1, <1>2, <1>3

LEMMA SettingRight ==
  ASSUME NEW v \in ToSet(Variables), NEW raw \in Raw(v), NEW before, Known(v, before)
  PROVE  Right(v, raw, Setting(v, raw, before))
<1>1. CASE v = "LISTEN_ADDR"
  BY Zenon, <1>1, AddressRight
<1>2. CASE v = "ROOT"
  BY Zenon, <1>2, RootRight
<1>3. CASE v = "INDEX"
  BY Zenon, <1>3, IndexRight, RawOf
<1>4. CASE v = "ASSETS_PATH"
  BY Zenon, <1>4, AssetsRight, RawOf
<1>5. CASE v = "THREADS"
  BY Zenon, <1>5, ThreadsRight
<1>6. CASE v = "QUEUE_SIZE"
  BY Zenon, <1>6, QueueRight
<1>7. CASE v \in Timeouts
  BY Zenon, <1>7, RequestTimeoutRight, ShutdownTimeoutRight DEF Timeouts
<1>8. CASE v \in Flags
  BY Zenon, <1>8, FlagRight
<1>9. CASE v = "EXTRA_HEADERS"
  BY Zenon, <1>9, HeadersRight, RawOf
<1>10. v \in {"LISTEN_ADDR", "ROOT", "INDEX", "ASSETS_PATH", "THREADS", "QUEUE_SIZE",
              "EXTRA_HEADERS"} \cup Timeouts \cup Flags
  BY SMT DEF ToSet, Variables, Timeouts, Flags
<1> QED BY Zenon, <1>1, <1>2, <1>3, <1>4, <1>5, <1>6, <1>7, <1>8, <1>9, <1>10

-----------------------------------------------------------------------------
(* The variables, in the order in which they are read. *)

Read(n) == {Variables[i] : i \in 1..n}

LEMMA Distinct ==
  ASSUME NEW i \in 1..12, NEW j \in 1..12, Variables[i] = Variables[j]
  PROVE  i = j
BY SMT DEF Variables

LEMMA ReadCount ==
  ASSUME NEW n \in 0..12
  PROVE  IsFiniteSet(Read(n)) /\ Cardinality(Read(n)) = n
<1> DEFINE T == {k \in 0..12 : IsFiniteSet(Read(k)) /\ Cardinality(Read(k)) = k}
<1>1. 0 \in T
  <2>1. Read(0) = {}
    BY SMT DEF Read
  <2> QED BY SMT, <2>1, FS_EmptySet
<1>2. ASSUME NEW k \in 0..12-1, k \in T PROVE k + 1 \in T
  <2>1. Read(k+1) = Read(k) \cup {Variables[k+1]}
    BY SMT DEF Read
  <2>2. Variables[k+1] \notin Read(k)
    BY SMT, Distinct DEF Read
  <2>3. IsFiniteSet(Read(k+1)) /\ Cardinality(Read(k+1)) = k + 1
    BY SMT, <1>2, <2>1, <2>2, FS_AddElement
  <2> QED BY SMT, <2>3
<1> HIDE DEF T
<1>3. 0..12 \subseteq T
  BY SMT, <1>1, <1>2, SegmentInduction
<1> QED BY SMT, <1>3 DEF T

LEMMA ReadAll == Read(12) = ToSet(Variables)
<1>1. DOMAIN Variables = 1..12
  BY SMT DEF Variables
<1> QED BY Zenon, <1>1 DEF Read, ToSet

-----------------------------------------------------------------------------
(* The start. *)

\* from_env has read a prefix of the variables, and goes on until they are all read.
Progress ==
  /\ \E n \in 0..12 :
       /\ DOMAIN environment = Read(n)
       /\ pc = "main" => n = 0
       /\ pc = "config" => n < 12
       /\ pc \in RunCalls \cup {"serve"} => n = 12
  /\ error # "none" => pc = "exited" /\ error \in DOMAIN environment

SettingsGood == \A v \in DOMAIN settings : Good(v, environment[v], settings[v])

StartupInv == StartupTypeOK /\ Progress /\ SettingsGood

LEMMA StartupInitInv == StartupInit => StartupInv
<1> SUFFICES ASSUME StartupInit PROVE StartupInv
  OBVIOUS
<1> USE DEF StartupInit
<1>1. DOMAIN environment = {} /\ DOMAIN settings = {}
  BY SMT
<1>2. StartupTypeOK
  <2>1. /\ DOMAIN environment \subseteq ToSet(Variables)
        /\ DOMAIN settings = IF error = "none" THEN DOMAIN environment
                             ELSE DOMAIN environment \ {error}
        /\ Invalid \notin {settings[v] : v \in DOMAIN settings}
    BY Zenon, <1>1
  <2>2. handlers \subseteq Signals /\ shutdown \in BOOLEAN /\ signalled \in BOOLEAN
    BY Zenon
  <2>3. /\ pc \in RunCalls \cup {"main", "config", "serve", "exited"}
        /\ exit \in {"running", "0", "1", "2", "panic", "killed"}
        /\ (pc = "exited") = (exit # "running")
    BY Zenon
  <2> QED BY Zenon, <2>1, <2>2, <2>3 DEF StartupTypeOK
<1>3. Progress
  <2>1. Read(0) = {} /\ 0 \in 0..12
    BY SMT DEF Read
  <2> QED BY Zenon, <1>1, <2>1 DEF Progress, RunCalls
<1>4. SettingsGood
  BY Zenon, <1>1 DEF SettingsGood
<1> QED BY <1>2, <1>3, <1>4 DEF StartupInv

\* The variable that is read next is a new one, and those it depends on are read.
LEMMA NextIsNew ==
  ASSUME StartupInv, pc = "config"
  PROVE  \E n \in 0..11 :
           /\ DOMAIN environment = Read(n) /\ DOMAIN settings = Read(n) /\ error = "none"
           /\ NextVariable = Variables[n+1]
           /\ NextVariable \in ToSet(Variables) /\ NextVariable \notin Read(n)
           /\ Read(n+1) = Read(n) \cup {NextVariable}
           /\ Known(NextVariable, settings)
           /\ NextVariable = Last(Variables) <=> n = 11
<1>1. PICK n \in 0..12 : DOMAIN environment = Read(n) /\ n < 12
  BY Zenon DEF StartupInv, Progress
<1>2. error = "none"
  BY Zenon DEF StartupInv, Progress
<1>3. DOMAIN settings = Read(n)
  BY Zenon, <1>1, <1>2 DEF StartupInv, StartupTypeOK
<1>4. n \in 0..11 /\ n + 1 \in 1..12
  BY SMT, <1>1
<1>5. NextVariable = Variables[n+1]
  BY Zenon, <1>1, ReadCount DEF NextVariable
<1>6. Read(n+1) = Read(n) \cup {NextVariable}
  BY SMT, <1>4, <1>5 DEF Read
<1>7. NextVariable \notin Read(n)
  BY SMT, <1>4, <1>5, Distinct DEF Read
<1>8. DOMAIN Variables = 1..12 /\ Len(Variables) = 12
  BY SMT DEF Variables
<1>9. NextVariable \in ToSet(Variables)
  BY Zenon, <1>4, <1>5, <1>8 DEF ToSet
<1>10. NextVariable = Last(Variables) <=> n = 11
  <2>1. Last(Variables) = Variables[12] /\ 12 \in 1..12
    BY SMT, <1>8 DEF Last
  <2> QED BY SMT, <1>4, <1>5, <2>1, Distinct
<1>11. Known(NextVariable, settings)
  <2> SUFFICES ASSUME NextVariable = "QUEUE_SIZE" PROVE settings.THREADS \in 1..256
    BY Zenon DEF Known
  <2>1. Variables[6] = "QUEUE_SIZE" /\ Variables[5] = "THREADS"
    BY SMT DEF Variables
  <2>2. n = 5
    BY SMT, <1>4, <1>5, <2>1, Distinct
  <2>3. "THREADS" \in Read(n)
    BY SMT, <2>1, <2>2 DEF Read
  <2>4. Good("THREADS", environment["THREADS"], settings["THREADS"])
    BY Zenon, <1>3, <2>3 DEF StartupInv, SettingsGood
  <2> QED BY SMT, <2>4 DEF Good
<1> QED BY Zenon, <1>1, <1>2, <1>3, <1>4, <1>5, <1>6, <1>7, <1>9, <1>10, <1>11

\* One more variable is read.
LEMMA ReadsVariableInv ==
  ASSUME StartupInv, NEW raw \in Raw(NextVariable), ReadsVariable(raw)
  PROVE  StartupInv'
<1> DEFINE v == NextVariable
           setting == Setting(v, raw, settings)
<1>1. PICK n \in 0..11 :
           /\ DOMAIN environment = Read(n) /\ DOMAIN settings = Read(n) /\ error = "none"
           /\ v \in ToSet(Variables) /\ v \notin Read(n)
           /\ Read(n+1) = Read(n) \cup {v}
           /\ Known(v, settings)
           /\ v = Last(Variables) <=> n = 11
  BY Zenon, NextIsNew DEF ReadsVariable
<1>2. Right(v, raw, setting)
  BY Zenon, <1>1, SettingRight
<1>3. /\ pc = "config"
      /\ environment' = With(environment, v, raw)
      /\ IF setting = Invalid
         THEN pc' = "exited" /\ exit' = "2" /\ error' = v /\ settings' = settings
         ELSE /\ settings' = With(settings, v, setting)
              /\ pc' = IF v = Last(Variables) THEN "reset" ELSE "config"
              /\ error' = error /\ exit' = exit
      /\ handlers' = handlers /\ shutdown' = shutdown /\ signalled' = signalled
  BY Zenon DEF ReadsVariable, Exit
<1> HIDE DEF v, setting
<1>4. /\ DOMAIN environment' = Read(n+1) /\ environment'[v] = raw
      /\ \A w \in Read(n) : environment'[w] = environment[w]
  <2>1. /\ DOMAIN With(environment, v, raw) = DOMAIN environment \cup {v}
        /\ With(environment, v, raw)[v] = raw
        /\ \A w \in DOMAIN environment : w # v => With(environment, v, raw)[w] = environment[w]
    BY SMT DEF With
  <2> QED BY Zenon, <1>1, <1>3, <2>1
<1>5. setting # Invalid =>
        /\ DOMAIN settings' = Read(n+1) /\ settings'[v] = setting
        /\ \A w \in Read(n) : settings'[w] = settings[w]
  <2>1. /\ DOMAIN With(settings, v, setting) = DOMAIN settings \cup {v}
        /\ With(settings, v, setting)[v] = setting
        /\ \A w \in DOMAIN settings : w # v => With(settings, v, setting)[w] = settings[w]
    BY SMT DEF With
  <2> QED BY Zenon, <1>1, <1>3, <2>1
<1>6. n + 1 \in 0..12 /\ (n + 1 = 12 <=> n = 11) /\ (n # 11 => n + 1 < 12)
  BY SMT
<1>7. v # "none"
  BY SMT, <1>1 DEF ToSet, Variables
<1>8. StartupTypeOK'
  <2>1. DOMAIN environment' \subseteq ToSet(Variables)
    BY Zenon, <1>1, <1>4 DEF StartupInv, StartupTypeOK
  <2>2. DOMAIN settings' = IF error' = "none" THEN DOMAIN environment'
                           ELSE DOMAIN environment' \ {error'}
    <3>1. CASE setting = Invalid
      <4>1. DOMAIN settings' = Read(n) /\ error' = v /\ DOMAIN environment' = Read(n) \cup {v}
        BY Zenon, <1>1, <1>3, <1>4, <3>1
      <4>2. (Read(n) \cup {v}) \ {v} = Read(n)
        BY Zenon, <1>1
      <4> QED BY Zenon, <1>7, <4>1, <4>2
    <3>2. CASE setting # Invalid
      BY Zenon, <1>1, <1>3, <1>4, <1>5, <3>2
    <3> QED BY <3>1, <3>2
  <2>3. Invalid \notin {settings'[w] : w \in DOMAIN settings'}
    <3>1. \A w \in Read(n) : settings[w] # Invalid
      BY Zenon, <1>1 DEF StartupInv, StartupTypeOK
    <3>2. \A w \in DOMAIN settings' : settings'[w] # Invalid
      BY Zenon, <1>1, <1>3, <1>5, <3>1
    <3> QED BY Zenon, <3>2
  <2>4. /\ pc' \in RunCalls \cup {"main", "config", "serve", "exited"}
        /\ exit' \in {"running", "0", "1", "2", "panic", "killed"}
        /\ (pc' = "exited") = (exit' # "running")
    <3>1. exit = "running"
      BY SMT, <1>3 DEF StartupInv, StartupTypeOK
    <3> QED BY SMT, <1>3, <3>1 DEF RunCalls
  <2>5. handlers' \subseteq Signals /\ shutdown' \in BOOLEAN /\ signalled' \in BOOLEAN
    BY Zenon, <1>3 DEF StartupInv, StartupTypeOK
  <2> QED BY Zenon, <2>1, <2>2, <2>3, <2>4, <2>5 DEF StartupTypeOK
<1>9. Progress'
  <2>1. pc' # "main" /\ (pc' = "config" => n # 11) /\ (pc' \in RunCalls \cup {"serve"} => n = 11)
    <3>1. CASE setting = Invalid
      BY Zenon, <1>3, <3>1 DEF RunCalls
    <3>2. CASE setting # Invalid /\ n = 11
      BY Zenon, <1>1, <1>3, <3>2 DEF RunCalls
    <3>3. CASE setting # Invalid /\ n # 11
      BY Zenon, <1>1, <1>3, <3>3 DEF RunCalls
    <3> QED BY <3>1, <3>2, <3>3
  <2>2. error' # "none" => pc' = "exited" /\ error' \in Read(n+1)
    BY Zenon, <1>1, <1>3
  <2> QED BY Zenon, <1>4, <1>6, <2>1, <2>2 DEF Progress
<1>10. SettingsGood'
  <2>1. \A w \in Read(n) : Good(w, environment[w], settings[w])
    BY Zenon, <1>1 DEF StartupInv, SettingsGood
  <2>2. setting # Invalid => Good(v, raw, setting)
    BY Zenon, <1>2 DEF Right
  <2>3. \A w \in DOMAIN settings' : Good(w, environment'[w], settings'[w])
    BY Zenon, <1>1, <1>3, <1>4, <1>5, <2>1, <2>2
  <2> QED BY Zenon, <2>3 DEF SettingsGood
<1> QED BY Zenon, <1>8, <1>9, <1>10 DEF StartupInv

kept == <<environment, settings, error>>

\* Every other step of the start leaves what was read alone.
LEMMA KeepsInv ==
  ASSUME StartupInv, StartupTypeOK', UNCHANGED kept,
         pc' \notin {"main", "config"},
         pc' \in RunCalls \cup {"serve"} => pc \in RunCalls \cup {"serve"},
         pc = "exited" => pc' = "exited"
  PROVE  StartupInv'
<1>1. environment' = environment /\ settings' = settings /\ error' = error
  BY Zenon DEF kept
<1>2. Progress'
  BY Zenon, <1>1 DEF StartupInv, Progress
<1>3. SettingsGood'
  BY Zenon, <1>1 DEF StartupInv, SettingsGood
<1> QED BY Zenon, <1>2, <1>3 DEF StartupInv

LEMMA StartedInv ==
  ASSUME StartupInv, Started
  PROVE  StartupInv'
<1> USE DEF StartupInv
<1>1. CASE ReadsArguments
  <2>1. /\ pc = "main" /\ pc' = "config" /\ exit' = exit
        /\ UNCHANGED <<environment, settings, error, handlers, shutdown, signalled>>
    BY Zenon, <1>1 DEF ReadsArguments, Proceed
  <2>2. StartupTypeOK'
    BY SMT, <2>1 DEF StartupTypeOK
  <2>3. Progress'
    <3>1. 0 < 12 /\ 0 \in 0..12
      BY SMT
    <3> QED BY Zenon, <2>1, <3>1 DEF Progress, RunCalls
  <2>4. SettingsGood'
    BY Zenon, <2>1 DEF SettingsGood
  <2> QED BY <2>2, <2>3, <2>4
<1>2. CASE PrintsVersion \/ CallFails \/ SpawnPanics \/ Stops
  <2>1. /\ pc # "exited" /\ pc' = "exited" /\ exit' \in {"0", "1", "panic"}
        /\ UNCHANGED <<environment, settings, error, handlers, shutdown, signalled>>
    BY Zenon, <1>2 DEF PrintsVersion, CallFails, SpawnPanics, Stops, Exit, Signals
  <2>2. StartupTypeOK'
    BY SMT, <2>1 DEF StartupTypeOK
  <2> QED BY Zenon, <2>1, <2>2, KeepsInv DEF kept, RunCalls
<1>3. CASE pc = "config" /\ ReadsSome
  BY Zenon, <1>3, ReadsVariableInv DEF ReadsSome
<1>4. CASE CallSucceeds
  <2>1. /\ pc \in RunCalls /\ pc' = After(pc) /\ exit' = exit
        /\ handlers' = handlers \cup ({pc} \cap Signals)
        /\ shutdown' = (shutdown /\ ~Resets(pc))
        /\ UNCHANGED <<environment, settings, error, signalled>>
    BY Zenon, <1>4 DEF CallSucceeds, Proceed
  <2>2. pc' \in RunCalls \cup {"serve"} /\ pc' \notin {"main", "config", "exited"}
    BY SMT, <2>1 DEF RunCalls, After
  <2>3. StartupTypeOK'
    <3>1. pc # "exited" /\ exit = "running" /\ (pc' = "exited") = (exit' # "running")
      BY SMT, <2>1, <2>2 DEF StartupTypeOK, RunCalls
    <3>2. shutdown' \in BOOLEAN /\ handlers' \subseteq Signals
      BY Zenon, <2>1 DEF StartupTypeOK
    <3> QED BY Zenon, <2>1, <2>2, <3>1, <3>2 DEF StartupTypeOK
  <2> QED BY Zenon, <2>1, <2>2, <2>3, KeepsInv DEF kept, RunCalls
<1>5. CASE \E s \in Signals : Signal(s)
  <2>1. /\ pc # "exited"
        /\ \/ shutdown' = TRUE /\ signalled' = TRUE /\ pc' = pc /\ exit' = exit
           \/ pc' = "exited" /\ exit' = "killed" /\ UNCHANGED <<shutdown, signalled>>
        /\ UNCHANGED <<environment, settings, error, handlers>>
    BY Zenon, <1>5 DEF Signal, Exit
  <2>2. StartupTypeOK'
    <3>1. exit = "running" /\ (pc' = "exited") = (exit' # "running")
      BY SMT, <2>1 DEF StartupTypeOK
    <3>2. shutdown' \in BOOLEAN /\ signalled' \in BOOLEAN
      BY Zenon, <2>1 DEF StartupTypeOK
    <3>3. pc' \in RunCalls \cup {"main", "config", "serve", "exited"}
      BY Zenon, <2>1 DEF StartupTypeOK
    <3>4. exit' \in {"running", "0", "1", "2", "panic", "killed"}
      BY Zenon, <2>1, <3>1
    <3> QED BY Zenon, <2>1, <3>1, <3>2, <3>3, <3>4 DEF StartupTypeOK
  <2>3. CASE pc' = "exited"
    BY Zenon, <2>1, <2>2, <2>3, KeepsInv DEF kept, RunCalls
  <2>4. CASE pc' = pc
    BY Zenon, <2>1, <2>2, <2>4 DEF Progress, SettingsGood
  <2> QED BY <2>1, <2>3, <2>4
<1> QED BY Zenon, <1>1, <1>2, <1>3, <1>4, <1>5 DEF Started, Main

LEMMA StartedSettings ==
  ASSUME StartupInv, Started, settings' # settings
  PROVE  pc = "config"
BY Zenon DEF Started, Main, ReadsArguments, PrintsVersion, CallSucceeds, CallFails, SpawnPanics,
             Stops, Signal

\* A process that gets past its configuration has all its settings, each of them good.
LEMMA SettingsComplete ==
  ASSUME StartupInv, pc \in RunCalls \cup {"serve"}
  PROVE  \A v \in ToSet(Variables) : Good(v, environment[v], settings[v])
<1>1. DOMAIN environment = Read(12)
  BY Zenon DEF StartupInv, Progress
<1>2. error = "none"
  BY Zenon DEF StartupInv, Progress, RunCalls
<1>3. DOMAIN settings = ToSet(Variables)
  BY Zenon, <1>1, <1>2, ReadAll DEF StartupInv, StartupTypeOK
<1> QED BY Zenon, <1>3 DEF StartupInv, SettingsGood

LEMMA AreVariables ==
  {"ROOT", "INDEX", "ASSETS_PATH", "THREADS", "QUEUE_SIZE", "GZIP", "BROTLI",
   "REQUEST_TIMEOUT_SECS", "SHUTDOWN_TIMEOUT_SECS", "EXTRA_HEADERS"} \subseteq ToSet(Variables)
<1>1. DOMAIN Variables = 1..12
  BY SMT DEF Variables
<1> QED BY SMT, <1>1 DEF ToSet, Variables

LEMMA ServedSettings ==
  ASSUME StartupInv, pc \in RunCalls \cup {"serve"}
  PROVE  /\ settings.THREADS \in 1..256
         /\ settings.QUEUE_SIZE \in 1..MaxQueueSize
         /\ settings.REQUEST_TIMEOUT_SECS \in 1..300
         /\ settings.SHUTDOWN_TIMEOUT_SECS \in 1..300
         /\ settings.ROOT = "absolute"
         /\ settings.GZIP \in BOOLEAN /\ settings.BROTLI \in BOOLEAN
         /\ GoodPath(settings.INDEX, Or(environment.INDEX, DefaultIndex))
         /\ GoodPrefix(settings.ASSETS_PATH, Or(environment.ASSETS_PATH, DefaultAssets))
         /\ GoodHeaders(settings.EXTRA_HEADERS)
<1>1. \A v \in {"ROOT", "INDEX", "ASSETS_PATH", "THREADS", "QUEUE_SIZE", "GZIP", "BROTLI",
              "REQUEST_TIMEOUT_SECS", "SHUTDOWN_TIMEOUT_SECS", "EXTRA_HEADERS"} :
        Good(v, environment[v], settings[v])
  BY Zenon, SettingsComplete, AreVariables
<1>2. settings.THREADS \in 1..256
  BY Zenon, <1>1 DEF Good
<1>3. settings.QUEUE_SIZE \in 1..MaxQueueSize
  BY Zenon, <1>1 DEF Good
<1>4. settings.REQUEST_TIMEOUT_SECS \in 1..300 /\ settings.SHUTDOWN_TIMEOUT_SECS \in 1..300
  BY Zenon, <1>1 DEF Good, Timeouts
<1>5. settings.ROOT = "absolute"
  BY Zenon, <1>1 DEF Good
<1>6. settings.GZIP \in BOOLEAN /\ settings.BROTLI \in BOOLEAN
  BY Zenon, <1>1 DEF Good, Flags
<1>7. GoodPath(settings.INDEX, Or(environment.INDEX, DefaultIndex))
  BY Zenon, <1>1 DEF Good
<1>8. GoodPrefix(settings.ASSETS_PATH, Or(environment.ASSETS_PATH, DefaultAssets))
  BY Zenon, <1>1 DEF Good
<1>9. GoodHeaders(settings.EXTRA_HEADERS)
  BY Zenon, <1>1 DEF Good
<1> QED BY Zenon, <1>2, <1>3, <1>4, <1>5, <1>6, <1>7, <1>8, <1>9

LEMMA InvSafe == StartupInv => SafeToServe
<1> SUFFICES ASSUME StartupInv, pc \in RunCalls \cup {"serve"} PROVE SafeToServe
  BY Zenon DEF SafeToServe
<1> HIDE DEF MaxQueueSize
<1>1. /\ GoodPath(settings.INDEX, Or(environment.INDEX, DefaultIndex))
      /\ GoodPrefix(settings.ASSETS_PATH, Or(environment.ASSETS_PATH, DefaultAssets))
      /\ GoodHeaders(settings.EXTRA_HEADERS)
  BY Zenon, ServedSettings
<1>2. PathsAreSafe
  BY Zenon, <1>1 DEF PathsAreSafe, GoodPath, GoodPrefix
<1>3. HeadersAreSafe
  BY Zenon, <1>1 DEF HeadersAreSafe, GoodHeaders, Reserved
<1>4. settings.ROOT = "absolute"
  BY Zenon, ServedSettings
<1>5. NumbersAreSafe
  <2> DEFINE threads == settings.THREADS
             queue == settings.QUEUE_SIZE
             request == settings.REQUEST_TIMEOUT_SECS
             stop == settings.SHUTDOWN_TIMEOUT_SECS
  <2>1. threads \in 1..256 /\ queue \in 1..MaxQueueSize /\ request \in 1..300 /\ stop \in 1..300
    BY Zenon, ServedSettings
  <2> HIDE DEF threads, queue, request, stop
  <2>2. queue \in 1..LongestQueue
    BY Zenon, <2>1, QueueLimit
  <2> QED BY SMT, <2>1, <2>2 DEF NumbersAreSafe, threads, queue, request, stop
<1> QED BY Zenon, <1>2, <1>3, <1>4, <1>5 DEF SafeToServe

-----------------------------------------------------------------------------
(* Heads. *)

Fixed == <<"server", "connection", "x-content-type-options", "date", "content-length">>

Validators == <<"cache-control", "etag", "last-modified">>

\* The literals are named, as those of Byte are.
HeaderName ==
  Texts \cup {"server", "connection", "x-content-type-options", "date", "content-length",
             "content-type", "cache-control", "allow", "etag", "last-modified", "vary",
             "content-encoding"}

Headers == Seq(HeaderName)

LEMMA CountConcat ==
  ASSUME NEW s \in Headers, NEW t \in Headers, NEW x
  PROVE  /\ s \o t \in Headers
         /\ Occurs(s \o t, x) = Occurs(s, x) + Occurs(t, x)
         /\ Occurs(s, x) \in Nat
<1>1. s \o t \in Headers
  BY SMT, ConcatProperties DEF Headers
<1>2. Occurs(s \o t, x) = Occurs(s, x) + Occurs(t, x)
  BY SMT, OccursConcat DEF Headers
<1>3. Occurs(s, x) \in Nat
  BY SMT, PlacesFinite DEF Headers
<1> QED BY <1>1, <1>2, <1>3

LEMMA OnlyIfCount ==
  ASSUME NEW condition \in BOOLEAN, NEW name \in HeaderName, NEW x
  PROVE  /\ OnlyIf(condition, name) \in Headers
         /\ Occurs(OnlyIf(condition, name), x) = IF condition /\ name = x THEN 1 ELSE 0
<1>1. CASE condition
  <2>1. OnlyIf(condition, name) = <<name>>
    BY Zenon, <1>1 DEF OnlyIf
  <2>2. <<name>> \in Headers
    BY SMT DEF Headers
  <2>3. Occurs(<<name>>, x) = IF name = x THEN 1 ELSE 0
    BY SMT, OccursSingle
  <2> QED BY Zenon, <1>1, <2>1, <2>2, <2>3
<1>2. CASE ~condition
  <2>1. OnlyIf(condition, name) = <<>>
    BY Zenon, <1>2 DEF OnlyIf
  <2>2. <<>> \in Headers
    BY SMT DEF Headers
  <2>3. Occurs(<<>>, x) = 0
    BY SMT, OccursEmpty
  <2> QED BY Zenon, <1>2, <2>1, <2>2, <2>3
<1> QED BY <1>1, <1>2

LEMMA FixedCount ==
  ASSUME NEW x \in Reserved
  PROVE  /\ Fixed \in Headers
         /\ Occurs(Fixed, x) =
              IF x \in {"server", "connection", "date", "content-length"} THEN 1 ELSE 0
<1>1. Fixed \in Headers
  <2>1. {"server", "connection", "x-content-type-options", "date", "content-length"} \subseteq HeaderName
    BY Zenon DEF HeaderName
  <2> QED BY SMT, <2>1 DEF Fixed, Headers
<1>2. Len(Fixed) = 5
  BY SMT DEF Fixed
<1>3. CASE x = "server"
  <2>1. Places(Fixed, x) = {1}
    BY SMT, <1>2, <1>3 DEF Places, Fixed
  <2> QED BY Zenon, <1>1, <1>3, <2>1, FS_Singleton DEF Occurs
<1>4. CASE x = "connection"
  <2>1. Places(Fixed, x) = {2}
    BY SMT, <1>2, <1>4 DEF Places, Fixed
  <2> QED BY Zenon, <1>1, <1>4, <2>1, FS_Singleton DEF Occurs
<1>5. CASE x = "date"
  <2>1. Places(Fixed, x) = {4}
    BY SMT, <1>2, <1>5 DEF Places, Fixed
  <2> QED BY Zenon, <1>1, <1>5, <2>1, FS_Singleton DEF Occurs
<1>6. CASE x = "content-length"
  <2>1. Places(Fixed, x) = {5}
    BY SMT, <1>2, <1>6 DEF Places, Fixed
  <2> QED BY Zenon, <1>1, <1>6, <2>1, FS_Singleton DEF Occurs
<1>7. CASE x \notin {"server", "connection", "date", "content-length"}
  <2>1. Places(Fixed, x) = {}
    BY SMT, <1>2, <1>7 DEF Places, Fixed, Reserved
  <2> QED BY Zenon, <1>1, <1>7, <2>1, FS_EmptySet DEF Occurs
<1> QED BY Zenon, <1>3, <1>4, <1>5, <1>6, <1>7

LEMMA ValidatorsCount ==
  ASSUME NEW x \in Reserved
  PROVE  /\ Validators \in Headers
         /\ Occurs(Validators, x) =
              IF x \in {"cache-control", "etag", "last-modified"} THEN 1 ELSE 0
<1>1. Validators \in Headers
  <2>1. {"cache-control", "etag", "last-modified"} \subseteq HeaderName
    BY Zenon DEF HeaderName
  <2> QED BY SMT, <2>1 DEF Validators, Headers
<1>2. Len(Validators) = 3
  BY SMT DEF Validators
<1>3. CASE x = "cache-control"
  <2>1. Places(Validators, x) = {1}
    BY SMT, <1>2, <1>3 DEF Places, Validators
  <2> QED BY Zenon, <1>1, <1>3, <2>1, FS_Singleton DEF Occurs
<1>4. CASE x = "etag"
  <2>1. Places(Validators, x) = {2}
    BY SMT, <1>2, <1>4 DEF Places, Validators
  <2> QED BY Zenon, <1>1, <1>4, <2>1, FS_Singleton DEF Occurs
<1>5. CASE x = "last-modified"
  <2>1. Places(Validators, x) = {3}
    BY SMT, <1>2, <1>5 DEF Places, Validators
  <2> QED BY Zenon, <1>1, <1>5, <2>1, FS_Singleton DEF Occurs
<1>6. CASE x \notin {"cache-control", "etag", "last-modified"}
  <2>1. Places(Validators, x) = {}
    BY SMT, <1>2, <1>6 DEF Places, Validators, Reserved
  <2> QED BY Zenon, <1>1, <1>6, <2>1, FS_EmptySet DEF Occurs
<1> QED BY Zenon, <1>3, <1>4, <1>5, <1>6

\* The headers that a kind of response adds, in terms of those Statika owns.
Added(x, file, vary, coded) ==
  \/ x = "cache-control"
  \/ file /\ x \in {"etag", "last-modified"}
  \/ vary /\ x = "vary"
  \/ coded /\ x = "content-encoding"

Shaped(headers, file, vary, coded) ==
  /\ headers \in Headers
  /\ \A x \in Reserved : Occurs(headers, x) = IF Added(x, file, vary, coded) THEN 1 ELSE 0

LEMMA CacheControlShaped == Shaped(<<"cache-control">>, FALSE, FALSE, FALSE)
<1>1. "cache-control" \in HeaderName
  BY Zenon DEF HeaderName
<1>2. <<"cache-control">> \in Headers
  BY SMT, <1>1 DEF Headers
<1>3. \A x : Occurs(<<"cache-control">>, x) = IF "cache-control" = x THEN 1 ELSE 0
  BY SMT, OccursSingle
<1> QED BY Zenon, <1>2, <1>3 DEF Shaped, Added

LEMMA ErrorShaped ==
  ASSUME NEW allowed \in BOOLEAN
  PROVE  Shaped(<<"cache-control">> \o OnlyIf(allowed, "allow"), FALSE, FALSE, FALSE)
<1> DEFINE one == <<"cache-control">>
           two == OnlyIf(allowed, "allow")
<1>1. "allow" \in HeaderName
  BY Zenon DEF HeaderName
<1>2. one \in Headers /\ \A x \in Reserved : Occurs(one, x) = IF x = "cache-control" THEN 1 ELSE 0
  BY Zenon, CacheControlShaped DEF Shaped, Added
<1>3. two \in Headers /\ \A x \in Reserved : Occurs(two, x) = 0
  <2>1. \A x \in Reserved : x # "allow"
    BY Zenon DEF Reserved
  <2>2. two \in Headers /\ \A x : Occurs(two, x) = IF allowed /\ "allow" = x THEN 1 ELSE 0
    BY Zenon, <1>1, OnlyIfCount
  <2> QED BY Zenon, <2>1, <2>2
<1> HIDE DEF one, two
<1>4. one \o two \in Headers
  BY Zenon, <1>2, <1>3, CountConcat
<1>5. ASSUME NEW x \in Reserved
      PROVE  Occurs(one \o two, x) = IF x = "cache-control" THEN 1 ELSE 0
  <2>1. Occurs(one \o two, x) = Occurs(one, x) + Occurs(two, x)
    BY Zenon, <1>2, <1>3, CountConcat
  <2> QED BY SMT, <1>2, <1>3, <2>1
<1>6. Shaped(one \o two, FALSE, FALSE, FALSE)
  BY Zenon, <1>4, <1>5 DEF Shaped, Added
<1> QED BY Zenon, <1>6 DEF one, two

LEMMA FileShaped ==
  ASSUME NEW vary \in BOOLEAN, NEW coded \in BOOLEAN
  PROVE  Shaped(Validators \o OnlyIf(vary, "vary") \o OnlyIf(coded, "content-encoding"),
                TRUE, vary, coded)
<1> DEFINE one == Validators
           two == OnlyIf(vary, "vary")
           three == OnlyIf(coded, "content-encoding")
<1>1. "vary" \in HeaderName /\ "content-encoding" \in HeaderName
  BY Zenon DEF HeaderName
<1>2. one \in Headers /\ \A x \in Reserved :
        Occurs(one, x) = IF x \in {"cache-control", "etag", "last-modified"} THEN 1 ELSE 0
  <2>1. "etag" \in Reserved
    BY Zenon DEF Reserved
  <2> QED BY Zenon, <2>1, ValidatorsCount
<1>3. two \in Headers /\ \A x \in Reserved : Occurs(two, x) = IF vary /\ "vary" = x THEN 1 ELSE 0
  BY Zenon, <1>1, OnlyIfCount
<1>4. three \in Headers /\ \A x \in Reserved :
        Occurs(three, x) = IF coded /\ "content-encoding" = x THEN 1 ELSE 0
  BY Zenon, <1>1, OnlyIfCount
<1> HIDE DEF one, two, three
<1>5. one \o two \in Headers /\ (one \o two) \o three \in Headers
  BY Zenon, <1>2, <1>3, <1>4, CountConcat
<1>6. ASSUME NEW x \in Reserved
      PROVE  Occurs((one \o two) \o three, x) = IF Added(x, TRUE, vary, coded) THEN 1 ELSE 0
  <2>1. Occurs(one \o two, x) = Occurs(one, x) + Occurs(two, x)
    BY Zenon, <1>2, <1>3, CountConcat
  <2>2. Occurs((one \o two) \o three, x) = Occurs(one \o two, x) + Occurs(three, x)
    BY Zenon, <1>4, <1>5, CountConcat
  <2>3. Occurs((one \o two) \o three, x) = Occurs(one, x) + Occurs(two, x) + Occurs(three, x)
    BY Zenon, <2>1, <2>2
  <2>4. CASE x \in {"cache-control", "etag", "last-modified"}
    <3>1. x # "vary" /\ x # "content-encoding"
      BY Zenon, <2>4
    <3>2. Occurs(one, x) = 1 /\ Occurs(two, x) = 0 /\ Occurs(three, x) = 0
      BY Zenon, <1>2, <1>3, <1>4, <2>4, <3>1
    <3>3. Added(x, TRUE, vary, coded)
      BY Zenon, <2>4 DEF Added
    <3> QED BY SMT, <2>3, <3>2, <3>3
  <2>5. CASE x = "vary"
    <3>1. x \notin {"cache-control", "etag", "last-modified", "content-encoding"}
      BY Zenon, <2>5
    <3>2. Occurs(one, x) = 0 /\ Occurs(three, x) = 0
      BY Zenon, <1>2, <1>4, <3>1
    <3>3. Occurs(two, x) = IF vary THEN 1 ELSE 0
      BY Zenon, <1>3, <2>5
    <3>5. Occurs((one \o two) \o three, x) = Occurs(two, x)
      BY SMT, <2>3, <3>2, <3>3
    <3>4. Added(x, TRUE, vary, coded) <=> vary
      BY Zenon, <2>5, <3>1 DEF Added
    <3> QED BY Zenon, <3>3, <3>4, <3>5
  <2>6. CASE x = "content-encoding"
    <3>1. x \notin {"cache-control", "etag", "last-modified", "vary"}
      BY Zenon, <2>6
    <3>2. Occurs(one, x) = 0 /\ Occurs(two, x) = 0
      BY Zenon, <1>2, <1>3, <3>1
    <3>3. Occurs(three, x) = IF coded THEN 1 ELSE 0
      BY Zenon, <1>4, <2>6
    <3>5. Occurs((one \o two) \o three, x) = Occurs(three, x)
      BY SMT, <2>3, <3>2, <3>3
    <3>4. Added(x, TRUE, vary, coded) <=> coded
      BY Zenon, <2>6, <3>1 DEF Added
    <3> QED BY Zenon, <3>3, <3>4, <3>5
  <2>7. CASE x \notin {"cache-control", "etag", "last-modified", "vary", "content-encoding"}
    <3>1. Occurs(one, x) = 0 /\ Occurs(two, x) = 0 /\ Occurs(three, x) = 0
      BY Zenon, <1>2, <1>3, <1>4, <2>7
    <3>2. ~Added(x, TRUE, vary, coded)
      BY Zenon, <2>7 DEF Added
    <3> QED BY SMT, <2>3, <3>1, <3>2
  <2> QED BY Zenon, <2>4, <2>5, <2>6, <2>7
<1>7. Shaped((one \o two) \o three, TRUE, vary, coded)
  BY Zenon, <1>5, <1>6 DEF Shaped
<1> QED BY Zenon, <1>7 DEF one, two, three

Framing == {"server", "connection", "date", "content-length"}

\* A head has each of the headers Statika owns once or not at all, whatever it adds.
LEMMA HeadCount ==
  ASSUME NEW status, NEW headers, NEW file, NEW vary, NEW coded,
         Shaped(headers, file, vary, coded), NEW extra, GoodHeaders(extra), NEW x \in Reserved
  PROVE  Occurs(HeadOf(status, headers \o extra), x) =
           IF \/ x \in Framing
              \/ status # 304 /\ x = "content-type"
              \/ Added(x, file, vary, coded)
           THEN 1 ELSE 0
<1> DEFINE typed == OnlyIf(status # 304, "content-type")
<1>1. "content-type" \in HeaderName /\ Texts \subseteq HeaderName
  BY Zenon DEF HeaderName
<1>2. Fixed \in Headers /\ typed \in Headers
  BY Zenon, <1>1, FixedCount, OnlyIfCount
<1>3. extra \in Seq(Texts) /\ x \notin ToSet(extra)
  BY Zenon DEF GoodHeaders
<1>4. extra \in Headers
  BY SMT, <1>1, <1>3, SeqMonotonic DEF Headers
<1>5. headers \in Headers
  BY Zenon DEF Shaped
<1>6. HeadOf(status, headers \o extra) = (Fixed \o typed) \o (headers \o extra)
  BY Zenon DEF HeadOf, Fixed
<1>7. Occurs(typed, x) = IF status # 304 /\ x = "content-type" THEN 1 ELSE 0
  BY Zenon, <1>1, OnlyIfCount
<1> HIDE DEF typed
<1>8. Fixed \o typed \in Headers /\ headers \o extra \in Headers
  BY Zenon, <1>2, <1>4, <1>5, CountConcat
<1>9. Occurs(Fixed \o typed, x) = Occurs(Fixed, x) + Occurs(typed, x)
  BY Zenon, <1>2, CountConcat
<1>15. Occurs(headers \o extra, x) = Occurs(headers, x) + Occurs(extra, x)
  BY Zenon, <1>4, <1>5, CountConcat
<1>10. Occurs((Fixed \o typed) \o (headers \o extra), x) =
         Occurs(Fixed \o typed, x) + Occurs(headers \o extra, x)
  BY Zenon, <1>8, CountConcat
<1>11. Occurs(extra, x) = 0
  BY Zenon, <1>3, OccursNot
<1>12. /\ Occurs(Fixed, x) = IF x \in Framing THEN 1 ELSE 0
       /\ Occurs(headers, x) = IF Added(x, file, vary, coded) THEN 1 ELSE 0
  BY Zenon, FixedCount DEF Shaped, Framing
<1>13. /\ Occurs(Fixed, x) \in Nat /\ Occurs(typed, x) \in Nat /\ Occurs(headers, x) \in Nat
  BY Zenon, <1>2, <1>5, CountConcat
<1>14. Occurs(HeadOf(status, headers \o extra), x) =
         Occurs(Fixed, x) + Occurs(typed, x) + Occurs(headers, x)
  BY SMT, <1>6, <1>9, <1>15, <1>10, <1>11, <1>13
<1> DEFINE count == Occurs(HeadOf(status, headers \o extra), x)
<1> HIDE DEF count
<1>16. CASE x \in Framing
  <2>1. x # "content-type" /\ ~Added(x, file, vary, coded)
    BY Zenon, <1>16 DEF Framing, Added
  <2>2. Occurs(Fixed, x) = 1 /\ Occurs(typed, x) = 0 /\ Occurs(headers, x) = 0
    BY Zenon, <1>7, <1>12, <1>16, <2>1
  <2>3. count = 1
    BY SMT, <1>14, <2>2 DEF count
  <2> QED BY Zenon, <1>16, <2>3 DEF count
<1>17. CASE status # 304 /\ x = "content-type"
  <2>1. x \notin Framing /\ ~Added(x, file, vary, coded)
    BY Zenon, <1>17 DEF Framing, Added
  <2>2. Occurs(Fixed, x) = 0 /\ Occurs(typed, x) = 1 /\ Occurs(headers, x) = 0
    BY Zenon, <1>7, <1>12, <1>17, <2>1
  <2>3. count = 1
    BY SMT, <1>14, <2>2 DEF count
  <2> QED BY Zenon, <1>17, <2>3 DEF count
<1>18. CASE Added(x, file, vary, coded)
  <2>1. x \notin Framing /\ x # "content-type"
    BY Zenon, <1>18 DEF Framing, Added
  <2>2. Occurs(Fixed, x) = 0 /\ Occurs(typed, x) = 0 /\ Occurs(headers, x) = 1
    BY Zenon, <1>7, <1>12, <1>18, <2>1
  <2>3. count = 1
    BY SMT, <1>14, <2>2 DEF count
  <2> QED BY Zenon, <1>18, <2>3 DEF count
<1>19. CASE ~(\/ x \in Framing
              \/ status # 304 /\ x = "content-type"
              \/ Added(x, file, vary, coded))
  <2>1. Occurs(Fixed, x) = 0 /\ Occurs(typed, x) = 0 /\ Occurs(headers, x) = 0
    BY Zenon, <1>7, <1>12, <1>19
  <2>2. count = 0
    BY SMT, <1>14, <2>1 DEF count
  <2> QED BY Zenon, <1>19, <2>2 DEF count
<1> QED BY Zenon, <1>16, <1>17, <1>18, <1>19

\* What HeadIsRight says of the names of a head, of a server that encodes or not.
Framed(names, encodes) ==
  /\ \A x \in {"server", "connection", "date", "content-length", "cache-control"} :
       Occurs(names, x) = 1
  /\ \A x \in {"content-type", "etag", "last-modified", "vary", "content-encoding"} :
       Occurs(names, x) <= 1
  /\ Occurs(names, "transfer-encoding") = 0
  /\ Occurs(names, "etag") = 1 =>
       /\ Occurs(names, "content-encoding") = 1 => Occurs(names, "vary") = 1
       /\ encodes => Occurs(names, "vary") = 1

LEMMA HeadFramed ==
  ASSUME NEW status, NEW headers, NEW file, NEW vary, NEW coded,
         Shaped(headers, file, vary, coded), NEW extra, GoodHeaders(extra), NEW encodes,
         coded => vary, file /\ encodes => vary
  PROVE  Framed(HeadOf(status, headers \o extra), encodes)
<1> DEFINE names == HeadOf(status, headers \o extra)
<1>1. ASSUME NEW x \in Reserved
      PROVE  Occurs(names, x) = IF \/ x \in Framing
                                   \/ status # 304 /\ x = "content-type"
                                   \/ Added(x, file, vary, coded)
                                THEN 1 ELSE 0
  BY SMT, HeadCount
<1> HIDE DEF names
<1>2. ASSUME NEW x \in {"server", "connection", "date", "content-length", "cache-control"}
      PROVE  Occurs(names, x) = 1
  <2>1. x \in Reserved
    BY Zenon DEF Reserved
  <2>2. x \in Framing \/ Added(x, file, vary, coded)
    BY Zenon DEF Framing, Added
  <2> QED BY Zenon, <1>1, <2>1, <2>2
<1>3. ASSUME NEW x \in {"content-type", "etag", "last-modified", "vary", "content-encoding"}
      PROVE  Occurs(names, x) <= 1
  <2>1. x \in Reserved
    BY Zenon DEF Reserved
  <2>2. Occurs(names, x) = 0 \/ Occurs(names, x) = 1
    BY Zenon, <1>1, <2>1
  <2> QED BY SMT, <2>2
<1>4. Occurs(names, "transfer-encoding") = 0
  <2>1. /\ "transfer-encoding" \in Reserved
        /\ "transfer-encoding" \notin Framing
        /\ ~Added("transfer-encoding", file, vary, coded)
    BY Zenon DEF Reserved, Framing, Added
  <2> QED BY Zenon, <1>1, <2>1
<1>5. Occurs(names, "etag") = 1 => file
  <2>1. "etag" \in Reserved /\ "etag" \notin Framing
    BY Zenon DEF Reserved, Framing
  <2>2. Added("etag", file, vary, coded) => file
    BY Zenon DEF Added
  <2>3. 0 # 1
    OBVIOUS
  <2> QED BY Zenon, <1>1, <2>1, <2>2, <2>3
<1>6. Occurs(names, "content-encoding") = 1 => coded
  <2>1. "content-encoding" \in Reserved /\ "content-encoding" \notin Framing
    BY Zenon DEF Reserved, Framing
  <2>2. Added("content-encoding", file, vary, coded) => coded
    BY Zenon DEF Added
  <2>3. 0 # 1
    OBVIOUS
  <2> QED BY Zenon, <1>1, <2>1, <2>2, <2>3
<1>7. vary => Occurs(names, "vary") = 1
  <2>1. "vary" \in Reserved
    BY Zenon DEF Reserved
  <2>2. vary => Added("vary", file, vary, coded)
    BY Zenon DEF Added
  <2> QED BY Zenon, <1>1, <2>1, <2>2
<1>8. Framed(names, encodes)
  BY Zenon, <1>2, <1>3, <1>4, <1>5, <1>6, <1>7 DEF Framed
<1> QED BY <1>8 DEF names

-----------------------------------------------------------------------------
(* Responses. *)

Encodes == settings.BROTLI \/ settings.GZIP

\* What each stage of a response says of it.
Staged ==
  /\ stage \in {"ready", "head", "body", "done"}
  /\ response.length \in Lengths \cup {0}
  /\ response.error \in {"none", "refused"}
  /\ stage = "ready" => response = NoResponse
  /\ stage \in {"head", "body"} => response.failure \in {"write_body", "send_file"}
  /\ stage \in {"ready", "head"} => sent = Nothing /\ outcome.bytes = 0
  /\ stage = "body" => sent = [head |-> TRUE, body |-> 0] /\ HasBody /\ outcome.bytes = 0

Written ==
  /\ sent.head \in BOOLEAN
  /\ sent.body \in 0..response.length
  /\ sent.body > 0 => sent.head
  /\ outcome.bytes \in {0, sent.body}

HeadsGood ==
  response # NoResponse => pc \in {"serve", "exited"} /\ Framed(response.names, Encodes)

Serving == stage # "ready" => pc \in {"serve", "exited"}

ResponseInv == StartupInv /\ Serving /\ Staged /\ Written /\ LogIsTrue /\ HeadsGood

LEMMA SameResponse ==
  ASSUME Staged, Written, LogIsTrue, UNCHANGED <<stage, response, sent, outcome>>
  PROVE  Staged' /\ Written' /\ LogIsTrue'
<1>1. stage' = stage /\ response' = response /\ sent' = sent /\ outcome' = outcome
  OBVIOUS
<1>2. HasBody' = HasBody
  BY Zenon, <1>1 DEF HasBody
<1>3. Written'
  BY SMT, <1>1 DEF Written
<1>4. LogIsTrue'
  BY SMT, <1>1 DEF LogIsTrue
<1>5. Staged'
  BY SMT, <1>1, <1>2 DEF Staged
<1> QED BY <1>3, <1>4, <1>5

LEMMA ResponseInitInv == ServiceInit => ResponseInv
<1> SUFFICES ASSUME StartupInit, ResponseInit PROVE ResponseInv
  BY Zenon DEF ServiceInit
<1>1. StartupInv
  BY Zenon, StartupInitInv
<1>2. Staged /\ Serving
  BY SMT DEF ResponseInit, Staged, Serving, NoResponse
<1>3. Written
  BY SMT DEF ResponseInit, Written, NoResponse, Nothing
<1>4. LogIsTrue /\ HeadsGood
  BY Zenon DEF ResponseInit, LogIsTrue, HeadsGood
<1> QED BY Zenon, <1>1, <1>2, <1>3, <1>4 DEF ResponseInv

\* The start moves on while no response is under way.
LEMMA StartedKeeps ==
  ASSUME ResponseInv, Started, UNCHANGED responseVars
  PROVE  ResponseInv'
<1>1. StartupInv'
  BY Zenon, StartedInv DEF ResponseInv
<1>2. /\ stage' = stage /\ response' = response /\ sent' = sent /\ outcome' = outcome
  BY Zenon DEF responseVars
<1>3. pc \in {"serve", "exited"} => pc' \in {"serve", "exited"}
  BY Zenon DEF Started, Main, ReadsArguments, PrintsVersion, ReadsSome, CallSucceeds, CallFails,
               SpawnPanics, Stops, Signal, Exit, Proceed, RunCalls, Signals
<1>4. Serving'
  BY Zenon, <1>2, <1>3 DEF ResponseInv, Serving
<1>5. Staged' /\ Written' /\ LogIsTrue'
  BY Zenon, <1>2, SameResponse DEF ResponseInv
<1>6. HeadsGood'
  <2>1. pc \in {"serve", "exited"} => settings' = settings
    BY Zenon, StartedSettings DEF ResponseInv
  <2> QED BY Zenon, <1>2, <1>3, <2>1 DEF ResponseInv, HeadsGood, Encodes
<1> QED BY Zenon, <1>1, <1>4, <1>5, <1>6 DEF ResponseInv

LEMMA SameStartup ==
  ASSUME StartupInv, UNCHANGED startupVars
  PROVE  StartupInv' /\ pc' = pc /\ settings' = settings
<1>1. /\ pc' = pc /\ exit' = exit /\ environment' = environment /\ settings' = settings
      /\ error' = error /\ handlers' = handlers /\ shutdown' = shutdown
      /\ signalled' = signalled
  BY SMT DEF startupVars
<1>2. StartupTypeOK' /\ Progress'
  BY Zenon, <1>1 DEF StartupInv, StartupTypeOK, Progress
<1>3. SettingsGood'
  BY Zenon, <1>1 DEF StartupInv, SettingsGood
<1> QED BY Zenon, <1>1, <1>2, <1>3 DEF StartupInv

\* What a response adds is enough for its head to be framed.
LEMMA HeadServed ==
  ASSUME ResponseInv, pc = "serve", NEW headers, NEW file, NEW vary, NEW coded,
         Shaped(headers, file, vary, coded), coded => vary, file /\ Encodes => vary
  PROVE  \A status : Framed(HeadOf(status, headers \o settings.EXTRA_HEADERS), Encodes)
<1>1. GoodHeaders(settings.EXTRA_HEADERS)
  BY Zenon, ServedSettings DEF ResponseInv
<1> QED BY SMT, <1>1, HeadFramed

LEMMA RespondKeeps ==
  ASSUME ResponseInv, pc = "serve", UNCHANGED startupVars,
         NEW status, NEW method, NEW length \in Lengths, NEW headers,
         NEW told \in {"none", "refused"}, NEW failure \in {"write_body", "send_file"},
         Respond(status, method, length, headers, told, failure),
         Framed(HeadOf(status, headers \o settings.EXTRA_HEADERS), Encodes)
  PROVE  ResponseInv'
<1>1. StartupInv' /\ pc' = pc /\ settings' = settings
  BY Zenon, SameStartup DEF ResponseInv
<1> DEFINE names == HeadOf(status, headers \o settings.EXTRA_HEADERS)
<1>2. /\ stage = "ready" /\ stage' = "head" /\ sent' = sent /\ outcome' = outcome
      /\ response' = [status |-> status, method |-> method, length |-> length,
                      names |-> names, error |-> told, failure |-> failure]
  BY Zenon DEF Respond
<1>3. Framed(names, Encodes)
  OBVIOUS
<1> HIDE DEF names
<1>4. /\ response'.length = length /\ response'.error = told /\ response'.failure = failure
      /\ response'.names = names
  BY SMT, <1>2
<1>5. sent = Nothing /\ outcome.bytes = 0
  BY Zenon, <1>2 DEF ResponseInv, Staged
<1>6. Serving' /\ Staged'
  BY Zenon, <1>1, <1>2, <1>4, <1>5 DEF Serving, Staged
<1>7. Written'
  <2>1. length \in Nat
    BY ResponseAssumption
  <2> QED BY SMT, <1>2, <1>4, <1>5, <2>1 DEF Written, Nothing
<1>8. LogIsTrue'
  BY Zenon, <1>2 DEF LogIsTrue
<1>9. HeadsGood'
  BY Zenon, <1>1, <1>3, <1>4 DEF HeadsGood, Encodes
<1> QED BY Zenon, <1>1, <1>6, <1>7, <1>8, <1>9 DEF ResponseInv

LEMMA AnswersKeep ==
  ASSUME ResponseInv, pc = "serve", UNCHANGED startupVars,
         RefusesUnread \/ RefusesRequest \/ AnswersHealth \/ AnswersFile
  PROVE  ResponseInv'
<1>1. ASSUME NEW status, NEW method, NEW length \in Lengths, SimpleError(status, method, length)
      PROVE  ResponseInv'
  <2> DEFINE headers == <<"cache-control">> \o OnlyIf(status = 405, "allow")
  <2>1. Shaped(headers, FALSE, FALSE, FALSE)
    <3>1. (status = 405) \in BOOLEAN
      BY Zenon
    <3> QED BY Zenon, <3>1, ErrorShaped
  <2>2. Respond(status, method, length, headers, "refused", "write_body")
    BY Zenon, <1>1 DEF SimpleError
  <2> HIDE DEF headers
  <2>3. Framed(HeadOf(status, headers \o settings.EXTRA_HEADERS), Encodes)
    BY Zenon, <2>1, HeadServed
  <2> QED BY Zenon, <2>2, <2>3, RespondKeeps
<1>2. CASE RefusesUnread \/ RefusesRequest
  BY Zenon, <1>1, <1>2 DEF RefusesUnread, RefusesRequest
<1>3. CASE AnswersHealth
  <2> DEFINE headers == <<"cache-control">>
  <2>1. PICK method \in Methods, length \in Lengths :
          Respond(200, method, length, headers, "none", "write_body")
    BY Zenon, <1>3 DEF AnswersHealth
  <2>2. Shaped(headers, FALSE, FALSE, FALSE)
    BY CacheControlShaped
  <2> HIDE DEF headers
  <2>3. Framed(HeadOf(200, headers \o settings.EXTRA_HEADERS), Encodes)
    BY Zenon, <2>2, HeadServed
  <2> QED BY Zenon, <2>1, <2>3, RespondKeeps
<1>4. CASE AnswersFile
  <2> DEFINE headers(encoding) ==
        <<"cache-control", "etag", "last-modified">> \o OnlyIf(Varies, "vary")
          \o OnlyIf(encoding # "identity", "content-encoding")
  <2>1. PICK status \in {200, 304}, method \in Methods, length \in Lengths,
             encoding \in {"identity"} \cup {e \in {"br", "gzip"} :
                             IF e = "br" THEN settings.BROTLI ELSE settings.GZIP} :
          Respond(status, method, length, headers(encoding), "none", "send_file")
    BY Zenon, <1>4 DEF AnswersFile
  <2> DEFINE file == TRUE
             vary == Varies
             coded == encoding # "identity"
  <2>2. coded => vary
    BY Zenon DEF Varies
  <2>3. vary \in BOOLEAN /\ coded \in BOOLEAN
    BY Zenon DEF Varies
  <2>4. Shaped(headers(encoding), file, vary, coded)
    BY Zenon, <2>3, FileShaped DEF Validators
  <2>5. file /\ Encodes => vary
    BY Zenon DEF Encodes, Varies
  <2> HIDE DEF headers, file, vary, coded
  <2>6. Framed(HeadOf(status, headers(encoding) \o settings.EXTRA_HEADERS), Encodes)
    BY SMT, <2>2, <2>4, <2>5, HeadServed
  <2> QED BY Zenon, <2>1, <2>6, RespondKeeps
<1> QED BY Zenon, <1>2, <1>3, <1>4

LEMMA WritesKeep ==
  ASSUME ResponseInv, pc = "serve", UNCHANGED startupVars,
         ReadBreaks \/ WritesHead \/ WriteHeadFails \/ WritesBody \/ WriteBodyFails
  PROVE  ResponseInv'
<1>1. StartupInv' /\ pc' = pc /\ settings' = settings
  BY Zenon, SameStartup DEF ResponseInv
<1>2. response' = response
  BY Zenon DEF ReadBreaks, WritesHead, WriteHeadFails, WritesBody, WriteBodyFails
<1>3. HeadsGood'
  BY Zenon, <1>1, <1>2 DEF ResponseInv, HeadsGood, Encodes
<1>4. HasBody' = HasBody
  BY Zenon, <1>2 DEF HasBody
<1>5. response.length \in Nat
  <2>1. response.length \in Lengths \cup {0}
    BY Zenon DEF ResponseInv, Staged
  <2>2. Lengths \cup {0} \subseteq Nat
    BY ResponseAssumption
  <2> QED BY Zenon, <2>1, <2>2
<1>9. Serving'
  BY Zenon, <1>1 DEF Serving
<1>6. CASE ReadBreaks \/ WriteHeadFails
  <2>1. /\ stage \in {"ready", "head"} /\ stage' = "done" /\ sent' = sent
        /\ \/ outcome' = [bytes |-> 0, error |-> "read_io"]
           \/ outcome' = [bytes |-> 0, error |-> "write_header"]
    BY Zenon, <1>6 DEF ReadBreaks, WriteHeadFails, Logs
  <2>2. sent = Nothing
    BY Zenon, <2>1 DEF ResponseInv, Staged
  <2>3. outcome'.bytes = 0 /\ outcome'.error \notin {"none", "refused"}
    BY SMT, <2>1
  <2>4. Staged'
    BY Zenon, <1>1, <1>2, <2>1 DEF ResponseInv, Staged
  <2>5. Written'
    BY SMT, <1>2, <1>5, <2>1, <2>2, <2>3 DEF Written, Nothing
  <2>6. LogIsTrue'
    BY Zenon, <2>3 DEF LogIsTrue
  <2> QED BY Zenon, <1>1, <1>3, <1>9, <2>4, <2>5, <2>6 DEF ResponseInv
<1>7. CASE WritesHead
  <2>1. /\ stage = "head" /\ sent' = [sent EXCEPT !.head = TRUE]
        /\ IF HasBody THEN stage' = "body" /\ outcome' = outcome
           ELSE stage' = "done" /\ outcome' = [bytes |-> 0, error |-> response.error]
    BY Zenon, <1>7 DEF WritesHead, Logs
  <2>2. sent = Nothing /\ outcome.bytes = 0 /\ response.failure \in {"write_body", "send_file"}
    BY Zenon, <2>1 DEF ResponseInv, Staged
  <2>3. sent' = [head |-> TRUE, body |-> 0]
    <3>1. sent' = [sent EXCEPT !.head = TRUE] /\ sent = [head |-> FALSE, body |-> 0]
      BY Zenon, <2>1, <2>2 DEF Nothing
    <3> QED BY <3>1
  <2>4. sent'.head = TRUE /\ sent'.body = 0
    BY SMT, <2>3
  <2>5. outcome'.bytes = 0
    BY SMT, <2>1, <2>2
  <2>6. Staged'
    BY Zenon, <1>1, <1>2, <1>4, <2>1, <2>2, <2>3, <2>5 DEF ResponseInv, Staged
  <2>7. Written'
    <3>1. 0 \in 0..response.length /\ ~(0 > 0)
      BY SMT, <1>5
    <3> QED BY Zenon, <1>2, <2>4, <2>5, <3>1 DEF Written
  <2>8. LogIsTrue'
    <3>1. CASE HasBody
      BY Zenon, <2>1, <3>1 DEF LogIsTrue
    <3>2. CASE ~HasBody
      <4>1. response.method = "HEAD" \/ response.status = 304
        BY Zenon, <3>2 DEF HasBody
      <4> QED BY Zenon, <1>2, <2>4, <2>5, <4>1 DEF LogIsTrue
    <3> QED BY <3>1, <3>2
  <2> QED BY Zenon, <1>1, <1>3, <1>9, <2>6, <2>7, <2>8 DEF ResponseInv
<1>8. CASE WritesBody \/ WriteBodyFails
  <2>1. PICK n \in 0..response.length :
          /\ stage = "body" /\ stage' = "done" /\ sent' = [sent EXCEPT !.body = n]
          /\ \/ n = response.length
                  /\ outcome' = [bytes |-> response.length, error |-> response.error]
             \/ outcome' = [bytes |-> 0, error |-> response.failure]
    <3>1. response.length \in 0..response.length
      BY SMT, <1>5
    <3> QED BY Zenon, <1>8, <3>1 DEF WritesBody, WriteBodyFails, Logs
  <2>2. /\ sent = [head |-> TRUE, body |-> 0] /\ HasBody
        /\ response.failure \in {"write_body", "send_file"}
    BY Zenon, <2>1 DEF ResponseInv, Staged
  <2>3. sent'.head = TRUE /\ sent'.body = n
    BY SMT, <2>1, <2>2
  <2>4. \/ outcome'.bytes = n /\ n = response.length
        \/ outcome'.bytes = 0 /\ outcome'.error \notin {"none", "refused"}
    <3>1. CASE n = response.length
            /\ outcome' = [bytes |-> response.length, error |-> response.error]
      BY SMT, <3>1
    <3>2. CASE outcome' = [bytes |-> 0, error |-> response.failure]
      BY SMT, <2>2, <3>2
    <3> QED BY Zenon, <2>1, <3>1, <3>2
  <2>5. Staged'
    BY Zenon, <1>1, <1>2, <2>1 DEF ResponseInv, Staged
  <2>6. Written'
    BY Zenon, <1>2, <2>3, <2>4 DEF Written
  <2>7. LogIsTrue'
    <3>1. ~(response.method = "HEAD" \/ response.status = 304)
      BY Zenon, <2>2 DEF HasBody
    <3> QED BY Zenon, <1>2, <2>3, <2>4, <3>1 DEF LogIsTrue
  <2> QED BY Zenon, <1>1, <1>3, <1>9, <2>5, <2>6, <2>7 DEF ResponseInv
<1> QED BY Zenon, <1>6, <1>7, <1>8

LEMMA ResponseStep == ResponseInv /\ [ServiceNext]_serviceVars => ResponseInv'
<1> SUFFICES ASSUME ResponseInv, [ServiceNext]_serviceVars PROVE ResponseInv'
  OBVIOUS
<1>1. CASE Started /\ UNCHANGED responseVars
  BY Zenon, <1>1, StartedKeeps
<1>2. CASE pc = "serve" /\ ResponseNext /\ UNCHANGED startupVars
  BY Zenon, <1>2, AnswersKeep, WritesKeep DEF ResponseNext
<1>3. CASE UNCHANGED serviceVars
  <2>1. UNCHANGED startupVars /\ UNCHANGED responseVars
    BY Zenon, <1>3 DEF serviceVars
  <2>2. StartupInv' /\ pc' = pc /\ settings' = settings
    BY Zenon, <2>1, SameStartup DEF ResponseInv
  <2>3. stage' = stage /\ response' = response /\ sent' = sent /\ outcome' = outcome
    BY Zenon, <2>1 DEF responseVars
  <2>4. Staged' /\ Written' /\ LogIsTrue'
    BY Zenon, <2>3, SameResponse DEF ResponseInv
  <2>5. Serving' /\ HeadsGood'
    BY Zenon, <2>2, <2>3 DEF ResponseInv, Serving, HeadsGood, Encodes
  <2> QED BY Zenon, <2>2, <2>4, <2>5 DEF ResponseInv
<1> QED BY Zenon, <1>1, <1>2, <1>3 DEF ServiceNext

\* The invariant of the service is inductive.
THEOREM ServiceInvariant == ServiceSpec => []ResponseInv
BY ResponseInitInv, ResponseStep, PTL DEF ServiceSpec

LEMMA InvTypeOK == ResponseInv => ServiceTypeOK
BY Zenon DEF ResponseInv, StartupInv, Staged, Written, ServiceTypeOK

LEMMA InvHeads == ResponseInv => HeadIsRight
<1> SUFFICES ASSUME ResponseInv, response # NoResponse PROVE HeadIsRight
  BY Zenon DEF HeadIsRight, OwnedOnce, VaryTold
<1>1. \A name : Times(name) = Occurs(response.names, name)
  BY Zenon DEF Times, Occurs, Places
<1>2. Framed(response.names, Encodes)
  BY Zenon DEF ResponseInv, HeadsGood
<1> QED BY Zenon, <1>1, <1>2 DEF HeadIsRight, OwnedOnce, VaryTold, Framed, Encodes

-----------------------------------------------------------------------------
(* Theorems. *)

\* The state of the start and of a response is what its variables are declared to be,
\* and nothing of a body is sent before its head or beyond its length.
THEOREM ServiceIsTyped == ServiceSpec => []ServiceTypeOK
BY ServiceInvariant, InvTypeOK, PTL

\* from_env of src/config.rs: run is reached with settings that all of the rest may
\* rely on, whatever the environment holds.
THEOREM SettingsAreSafe == ServiceSpec => []SafeToServe
<1>1. ResponseInv => SafeToServe
  BY Zenon, InvSafe DEF ResponseInv
<1> QED BY ServiceInvariant, <1>1, PTL

\* No list of extra headers, however long or chosen, makes a head that has one of
\* Statika's own headers twice, or an encoded response that does not say so to caches.
THEOREM HeadsAreRight == ServiceSpec => []HeadIsRight
BY ServiceInvariant, InvHeads, PTL

\* The log tells the truth of what a response sent.
THEOREM LogsAreTrue == ServiceSpec => []LogIsTrue
<1>1. ResponseInv => LogIsTrue
  BY Zenon DEF ResponseInv
<1> QED BY ServiceInvariant, <1>1, PTL
=============================================================================
