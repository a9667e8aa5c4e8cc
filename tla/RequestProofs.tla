---------------------------- MODULE RequestProofs ----------------------------
(***************************************************************************)
(* Proofs about module Request.                                            *)
(***************************************************************************)
EXTENDS Request, DataInduction

-----------------------------------------------------------------------------
(* Header lines by name. *)

NamedIn(lines, name) == {i \in 1..Len(lines) : lines[i].name = name}

LEMMA NamedFinite ==
  ASSUME NEW lines \in Seq(Lines), NEW name
  PROVE  /\ NamedIn(lines, name) \in SUBSET (1..Len(lines))
         /\ IsFiniteSet(NamedIn(lines, name))
<1>1. NamedIn(lines, name) \in SUBSET (1..Len(lines))
  BY DEF NamedIn
<1>2. IsFiniteSet(1..Len(lines))
  BY FS_Interval
<1> QED BY <1>1, <1>2, FS_Subset

\* What one more line adds.
LEMMA NamedAppend ==
  ASSUME NEW lines \in Seq(Lines), NEW line \in Lines
  PROVE  /\ Append(lines, line) \in Seq(Lines)
         /\ Len(Append(lines, line)) = Len(lines) + 1
         /\ Append(lines, line)[Len(lines) + 1] = line
         /\ \A i \in 1..Len(lines) : Append(lines, line)[i] = lines[i]
         /\ \A name : NamedIn(Append(lines, line), name) =
              IF line.name = name THEN NamedIn(lines, name) \cup {Len(lines) + 1}
              ELSE NamedIn(lines, name)
<1> DEFINE more == Append(lines, line)
           n == Len(lines)
<1>1. /\ n \in Nat /\ more \in Seq(Lines) /\ Len(more) = n + 1
      /\ more[n + 1] = line /\ \A i \in 1..n : more[i] = lines[i]
  BY AppendProperties
<1> HIDE DEF more, n
<1>2. ASSUME NEW name
      PROVE  NamedIn(more, name) = IF line.name = name THEN NamedIn(lines, name) \cup {n + 1}
                                   ELSE NamedIn(lines, name)
  <2>1. NamedIn(lines, name) = {i \in 1..n : lines[i].name = name}
    BY DEF NamedIn, n
  <2>2. NamedIn(more, name) = {i \in 1..n+1 : more[i].name = name}
    BY <1>1 DEF NamedIn
  <2>3. \A i : i \in 1..n+1 <=> i \in 1..n \/ i = n + 1
    BY <1>1
  <2>4. n + 1 \notin 1..n
    BY <1>1
  <2> QED BY Zenon, <1>1, <2>1, <2>2, <2>3, <2>4
<1> QED BY <1>1, <1>2 DEF more, n

LEMMA NamedCount ==
  ASSUME NEW lines \in Seq(Lines), NEW line \in Lines, NEW name
  PROVE  /\ Cardinality(NamedIn(lines, name)) \in Nat
         /\ Cardinality(NamedIn(Append(lines, line), name)) =
              IF line.name = name THEN Cardinality(NamedIn(lines, name)) + 1
              ELSE Cardinality(NamedIn(lines, name))
<1> DEFINE before == NamedIn(lines, name)
           after == NamedIn(Append(lines, line), name)
           n == Len(lines)
<1>1. after = IF line.name = name THEN before \cup {n + 1} ELSE before
  BY SMT, NamedAppend
<1>2. IsFiniteSet(before) /\ n + 1 \notin before
  <2>1. before \in SUBSET (1..n) /\ n \in Nat /\ IsFiniteSet(before)
    BY NamedFinite
  <2> QED BY <2>1
<1>3. Cardinality(before) \in Nat /\ Cardinality(before \cup {n + 1}) = Cardinality(before) + 1
  BY <1>2, FS_CardinalityType, FS_AddElement
<1> HIDE DEF before, after
<1>4. CASE line.name = name
  BY Zenon, <1>1, <1>3, <1>4 DEF before, after
<1>5. CASE line.name # name
  BY Zenon, <1>1, <1>3, <1>5 DEF before, after
<1> QED BY <1>4, <1>5 DEF before, after

\* The last line of a name.
IsLast(more, lines, line, name) ==
  /\ line.name = name =>
       NamedIn(more, name) # {} /\ more[Max(NamedIn(more, name))] = line
  /\ line.name # name =>
       /\ NamedIn(more, name) = NamedIn(lines, name)
       /\ NamedIn(lines, name) # {} =>
            more[Max(NamedIn(lines, name))] = lines[Max(NamedIn(lines, name))]

LEMMA NamedLast ==
  ASSUME NEW lines \in Seq(Lines), NEW line \in Lines, NEW name
  PROVE  IsLast(Append(lines, line), lines, line, name)
<1> DEFINE before == NamedIn(lines, name)
           more == Append(lines, line)
           after == NamedIn(more, name)
           n == Len(lines)
<1>1. /\ n \in Nat /\ before \in SUBSET (1..n)
      /\ more[n + 1] = line /\ \A i \in 1..n : more[i] = lines[i]
      /\ after = IF line.name = name THEN before \cup {n + 1} ELSE before
  <2>1. n \in Nat
    OBVIOUS
  <2>2. before \in SUBSET (1..n)
    BY NamedFinite
  <2>3. more[n + 1] = line /\ \A i \in 1..n : more[i] = lines[i]
    BY SMT, NamedAppend
  <2>4. after = IF line.name = name THEN before \cup {n + 1} ELSE before
    BY SMT, NamedAppend
  <2> QED BY <2>1, <2>2, <2>3, <2>4
<1> HIDE DEF before, more, after, n
<1>2. CASE line.name = name
  <2>1. after = before \cup {n + 1}
    BY <1>1, <1>2
  <2>2. after \subseteq Nat /\ n + 1 \in after /\ \A i \in after : i <= n + 1
    BY <1>1, <2>1
  <2>3. Max(after) = n + 1
    BY <2>2, MaxIs
  <2> QED BY Zenon, <1>1, <1>2, <2>2, <2>3 DEF before, more, after, IsLast
<1>3. CASE line.name # name
  <2>1. after = before
    BY <1>1, <1>3
  <2>2. before # {} => Max(before) \in 1..n
    BY <1>1, MaxOf
  <2>3. before # {} => more[Max(before)] = lines[Max(before)]
    BY Zenon, <1>1, <2>2
  <2> QED BY Zenon, <1>3, <2>1, <2>3 DEF before, more, after, IsLast
<1> QED BY Zenon, <1>2, <1>3 DEF more, before, after, IsLast

-----------------------------------------------------------------------------
(* The parser. *)

\* A line of a name has the members that go with it.
LEMMA LineMembers ==
  ASSUME NEW line \in Lines
  PROVE  /\ line.name = "host" => line.empty \in BOOLEAN
         /\ line.name = "accept-encoding" => line.items \in Seq(Items)
         /\ line.name = "if-none-match" => line.tags \in Seq(Symbols)
         /\ line.name = "if-modified-since" => line.date \in Dates \cup {None}
<1> DEFINE Named1 == [name : {"malformed", "other"}]
           Named2 == [name : {"host"}, empty : BOOLEAN]
           Named3 == [name : {"accept-encoding"}, items : Seq(Items)]
           Named4 == [name : {"if-none-match"}, tags : Seq(Symbols)]
           Named5 == [name : {"if-modified-since"}, date : Dates \cup {None}]
<1>1. line \in Named1 \/ line \in Named2 \/ line \in Named3 \/ line \in Named4 \/ line \in Named5
  BY Zenon DEF Lines
<1>2. CASE line \in Named1
  BY Zenon, <1>2
<1>3. CASE line \in Named2
  BY Zenon, <1>3
<1>4. CASE line \in Named3
  BY Zenon, <1>4
<1>5. CASE line \in Named4
  BY Zenon, <1>5
<1>6. CASE line \in Named5
  BY Zenon, <1>6
<1> QED BY Zenon, <1>1, <1>2, <1>3, <1>4, <1>5, <1>6

HeaderIsRead == parsing \in {"headers", "encodings", "accepted"}

\* Nothing of a header is known before its request line is read.
StartsEmpty ==
  parsing = "start" =>
    /\ seen = <<>> /\ hostCount = 0
    /\ acceptEncoding = <<>> /\ noneMatch = None /\ modifiedSince = None

HostsAreCounted ==
  HeaderIsRead =>
    /\ AfterRequestLine(requestLine) = "headers"
    /\ NamedIn(seen, "malformed") = {}
    /\ \A i \in NamedIn(seen, "host") : ~seen[i].empty
    /\ hostCount = Cardinality(NamedIn(seen, "host"))

HostIsNamed ==
  parsing \in {"encodings", "accepted"} /\ requestLine.version = "HTTP/1.1" => hostCount = 1

OneHost == \E i \in NamedIn(seen, "host") : NamedIn(seen, "host") = {i}

RefusalIsRight ==
  /\ parsing = "BadRequest" =>
       \/ ~requestLine.formed \/ requestLine.version \notin Versions
       \/ NamedIn(seen, "malformed") # {}
       \/ \E i \in NamedIn(seen, "host") : seen[i].empty
       \/ requestLine.version = "HTTP/1.1" /\ ~OneHost
  /\ parsing = "MethodNotAllowed" =>
       requestLine.formed /\ requestLine.method \notin Methods /\ seen = <<>>

ParserInv ==
  /\ ParserTypeOK
  /\ requestLine \in RequestLines
  /\ StartsEmpty
  /\ HostsAreCounted
  /\ HostIsNamed
  /\ RefusalIsRight

LEMMA ParserInitInv == ParserInit => ParserInv
<1> SUFFICES ASSUME ParserInit PROVE ParserInv
  OBVIOUS
<1>1. ParserTypeOK
  <2>1. seen \in Seq(Lines) /\ hostCount \in 0..Len(seen) /\ acceptEncoding \in Seq(Items)
    BY DEF ParserInit
  <2>2. quality \in [Codings -> 0..1000 \cup {None}]
    BY DEF ParserInit
  <2> QED BY <2>1, <2>2 DEF ParserInit, ParserTypeOK
<1> QED BY Zenon, <1>1
     DEF ParserInit, ParserInv, StartsEmpty, HostsAreCounted, HeaderIsRead, HostIsNamed,
         RefusalIsRight

\* One host is what a count of one means.
LEMMA OneHostCounts ==
  ASSUME NEW S, IsFiniteSet(S)
  PROVE  Cardinality(S) = 1 <=> \E i \in S : S = {i}
BY FS_Singleton

LEMMA RequestLineInv == ParserInv /\ ReadRequestLine => ParserInv'
<1> SUFFICES ASSUME ParserInv, ReadRequestLine PROVE ParserInv'
  OBVIOUS
<1> USE DEF ParserInv
<1>1. /\ parsing = "start" /\ parsing' = AfterRequestLine(requestLine)
      /\ requestLine' = requestLine /\ seen' = seen /\ hostCount' = hostCount
      /\ acceptEncoding' = acceptEncoding /\ quality' = quality
      /\ noneMatch' = noneMatch /\ modifiedSince' = modifiedSince
  BY SMT DEF ReadRequestLine
<1>2. seen = <<>> /\ hostCount = 0
  BY Zenon, <1>1 DEF StartsEmpty
<1>3. parsing' \in {"headers"} \cup Refused
  BY Zenon, <1>1 DEF AfterRequestLine, Refused
<1>4. ParserTypeOK'
  <2>1. parsing' \in {"start", "headers", "encodings", "accepted"} \cup Refused
    BY Zenon, <1>3
  <2> QED BY Zenon, <1>1, <2>1 DEF ParserTypeOK
<1>5. NamedIn(seen', "malformed") = {} /\ NamedIn(seen', "host") = {}
  BY <1>1, <1>2 DEF NamedIn
<1>6. Cardinality({}) = 0
  BY FS_EmptySet
<1>7. HostsAreCounted'
  BY Zenon, <1>1, <1>2, <1>3, <1>5, <1>6 DEF HostsAreCounted, HeaderIsRead, Refused
<1>8. RefusalIsRight'
  BY Zenon, <1>1, <1>2 DEF RefusalIsRight, AfterRequestLine
<1>9. StartsEmpty' /\ HostIsNamed'
  BY Zenon, <1>3 DEF StartsEmpty, HostIsNamed, Refused
<1> QED BY Zenon, <1>1, <1>4, <1>7, <1>8, <1>9

LEMMA HeaderInv == ASSUME NEW line \in Lines, ParserInv, ReadHeader(line) PROVE ParserInv'
<1> USE DEF ParserInv
<1>1. /\ parsing = "headers" /\ seen' = Append(seen, line) /\ seen \in Seq(Lines)
      /\ requestLine' = requestLine /\ quality' = quality
  BY SMT DEF ReadHeader, ParserTypeOK
<1>2. /\ seen' \in Seq(Lines) /\ Len(seen') = Len(seen) + 1 /\ Len(seen) \in Nat
      /\ seen'[Len(seen) + 1] = line /\ \A i \in 1..Len(seen) : seen'[i] = seen[i]
  BY SMT, <1>1, NamedAppend
<1>3. /\ line.name = "malformed" => Len(seen) + 1 \in NamedIn(seen', "malformed")
      /\ line.name # "malformed" => NamedIn(seen', "malformed") = NamedIn(seen, "malformed")
      /\ line.name = "host" => NamedIn(seen', "host") = NamedIn(seen, "host") \cup {Len(seen) + 1}
      /\ line.name # "host" => NamedIn(seen', "host") = NamedIn(seen, "host")
  BY SMT, <1>1, NamedAppend
<1>4. NamedIn(seen, "host") \subseteq 1..Len(seen)
  BY <1>1, NamedFinite
<1>5. CASE IsRefused(line)
  <2>1. /\ parsing' = "BadRequest" /\ hostCount' = hostCount
        /\ acceptEncoding' = acceptEncoding
        /\ noneMatch' = noneMatch /\ modifiedSince' = modifiedSince
    BY SMT, <1>5 DEF ReadHeader
  <2>2. \/ NamedIn(seen', "malformed") # {}
        \/ \E i \in NamedIn(seen', "host") : seen'[i].empty
    BY Zenon, <1>2, <1>3, <1>5 DEF IsRefused
  <2>3. hostCount' \in 0..Len(seen')
    BY <1>2, <2>1 DEF ParserTypeOK
  <2>4. ParserTypeOK'
    BY Zenon, <1>1, <1>2, <2>1, <2>3 DEF ParserTypeOK, Refused
  <2>5. RefusalIsRight'
    BY Zenon, <2>1, <2>2 DEF RefusalIsRight
  <2> QED BY Zenon, <1>1, <2>1, <2>4, <2>5 DEF StartsEmpty, HostsAreCounted, HeaderIsRead, HostIsNamed
<1>6. CASE ~IsRefused(line)
  <2>1. /\ parsing' = "headers" /\ hostCount' = Hosts(line)
        /\ acceptEncoding' = IF line.name = "accept-encoding"
                             THEN Joined(line.items) ELSE acceptEncoding
        /\ noneMatch' = IF line.name = "if-none-match" THEN line.tags ELSE noneMatch
        /\ modifiedSince' = IF line.name = "if-modified-since"
                            THEN DateOf(line) ELSE modifiedSince
    BY Zenon, <1>1, <1>6 DEF ReadHeader
  <2>2. hostCount' \in 0..Len(seen')
    <3>1. hostCount \in 0..Len(seen)
      BY Zenon DEF ParserTypeOK
    <3>2. hostCount' = hostCount \/ hostCount' = hostCount + 1
      BY Zenon, <2>1 DEF Hosts
    <3> QED BY <1>2, <3>1, <3>2
  <2>3. acceptEncoding' \in Seq(Items)
    <3>1. acceptEncoding \in Seq(Items)
      BY Zenon DEF ParserTypeOK
    <3>2. CASE line.name = "accept-encoding"
      <4>1. line.items \in Seq(Items)
        BY Zenon, <3>2, LineMembers
      <4>2. acceptEncoding' = acceptEncoding \o line.items
        BY Zenon, <3>2, <2>1 DEF Joined
      <4> QED BY <3>1, <4>1, <4>2
    <3> QED BY Zenon, <2>1, <3>1, <3>2
  <2>4. (noneMatch' # None => noneMatch' \in Seq(Symbols)) /\ modifiedSince' \in Dates \cup {None}
    BY Zenon, <2>1, LineMembers DEF ParserTypeOK, DateOf
  <2>5. ParserTypeOK'
    BY Zenon, <1>1, <1>2, <2>1, <2>2, <2>3, <2>4 DEF ParserTypeOK
  <2>6. Cardinality(NamedIn(seen', "host")) = hostCount'
    <3>1. hostCount = Cardinality(NamedIn(seen, "host"))
      BY Zenon, <1>1 DEF HostsAreCounted, HeaderIsRead
    <3>2. Cardinality(NamedIn(seen', "host")) =
            IF line.name = "host" THEN Cardinality(NamedIn(seen, "host")) + 1
            ELSE Cardinality(NamedIn(seen, "host"))
      BY <1>1, NamedCount
    <3> QED BY Zenon, <2>1, <3>1, <3>2 DEF Hosts
  <2>7. \A i \in NamedIn(seen', "host") : ~seen'[i].empty
    <3> SUFFICES ASSUME NEW i \in NamedIn(seen', "host") PROVE ~seen'[i].empty
      OBVIOUS
    <3>1. CASE i \in NamedIn(seen, "host")
      BY Zenon, <1>1, <1>2, <1>4, <3>1 DEF HostsAreCounted, HeaderIsRead
    <3>2. CASE i \notin NamedIn(seen, "host")
      <4>1. line.name = "host" /\ i = Len(seen) + 1
        BY Zenon, <1>3, <3>2
      <4> QED BY Zenon, <1>2, <1>6, <4>1 DEF IsRefused
    <3> QED BY Zenon, <3>1, <3>2
  <2>8. HostsAreCounted'
    BY Zenon, <1>1, <1>3, <1>6, <2>6, <2>7 DEF HostsAreCounted, HeaderIsRead, IsRefused
  <2>9. StartsEmpty' /\ HostIsNamed' /\ RefusalIsRight'
    BY Zenon, <2>1 DEF StartsEmpty, HostIsNamed, RefusalIsRight
  <2> QED BY Zenon, <1>1, <2>5, <2>8, <2>9
<1> QED BY Zenon, <1>5, <1>6

LEMMA EndHeadersInv == ParserInv /\ EndHeaders => ParserInv'
<1> SUFFICES ASSUME ParserInv, EndHeaders PROVE ParserInv'
  OBVIOUS
<1> USE DEF ParserInv
<1>1. /\ parsing = "headers"
      /\ requestLine' = requestLine /\ seen' = seen /\ hostCount' = hostCount
      /\ acceptEncoding' = acceptEncoding /\ quality' = quality
      /\ noneMatch' = noneMatch /\ modifiedSince' = modifiedSince
  BY SMT DEF EndHeaders
<1>2. parsing' = IF requestLine.version = "HTTP/1.1" /\ hostCount # 1
                THEN "BadRequest" ELSE "encodings"
  BY Zenon DEF EndHeaders
<1>3. ParserTypeOK'
  BY Zenon, <1>1, <1>2 DEF ParserTypeOK, Refused
<1>4. hostCount = Cardinality(NamedIn(seen, "host")) /\ IsFiniteSet(NamedIn(seen, "host"))
  <2>1. seen \in Seq(Lines)
    BY Zenon DEF ParserTypeOK
  <2> QED BY Zenon, <1>1, <2>1, NamedFinite DEF HostsAreCounted, HeaderIsRead
<1>5. hostCount = 1 <=> OneHost
  BY Zenon, <1>4, OneHostCounts DEF OneHost
<1>6. OneHost' = OneHost
  BY Zenon, <1>1 DEF OneHost
<1>7. RefusalIsRight' /\ HostIsNamed' /\ StartsEmpty'
  BY Zenon, <1>1, <1>2, <1>5, <1>6 DEF RefusalIsRight, HostIsNamed, StartsEmpty
<1>8. HostsAreCounted'
  BY Zenon, <1>1 DEF HostsAreCounted, HeaderIsRead
<1> QED BY Zenon, <1>1, <1>3, <1>7, <1>8

-----------------------------------------------------------------------------
(* Qualities. *)

LEMMA NumberRun ==
  ASSUME NEW s \in Seq(Digits)
  PROVE  \E r : /\ \A i \in 0..Len(s) : r[i] \in Nat
                /\ r[0] = 0
                /\ \A i \in 1..Len(s) : r[i] = 10 * r[i-1] + s[i]
                /\ r[Len(s)] = Number(s)
<1> DEFINE n == Len(s)
           A == Nat
           base == 0
           step == [p \in (1..n) \X A |-> 10 * p[2] + s[p[1]]]
           Is(f) == f = [S \in SUBSET (DOMAIN s) |->
                           IF S = {} THEN base ELSE 10 * f[S \ {Max(S)}] + s[Max(S)]]
           F == CHOOSE f : Is(f)
<1>1. n \in Nat /\ DOMAIN s = 1..n /\ \A i \in 1..n : s[i] \in Nat
  BY DEF Digits
<1>2. \A i \in 1..n, a \in A : step[<<i, a>>] = 10 * a + s[i]
  OBVIOUS
<1>9. base \in A /\ A = Nat
  OBVIOUS
<1> HIDE DEF step, A, base
<1>3. Steps(n, A, step)
  <2>1. ASSUME NEW i \in 1..n, NEW a \in A PROVE step[<<i, a>>] \in A
    <3>1. step[<<i, a>>] = 10 * a + s[i] /\ s[i] \in Nat
      BY <1>1, <1>2
    <3> QED BY <1>9, <3>1
  <2> QED BY <2>1 DEF Steps
<1>4. Is(F)
  <2>1. PICK f : /\ f = [S \in SUBSET (1..n) |-> f[S]]
                 /\ \A S \in SUBSET (1..n) : f[S] \in A /\ IsFold(f, S, base, step)
    BY <1>1, <1>3, <1>9, FoldExists
  <2>2. ASSUME NEW S \in SUBSET (1..n), S # {}
        PROVE  f[S] = 10 * f[S \ {Max(S)}] + s[Max(S)]
    <3>1. Max(S) \in 1..n /\ S \ {Max(S)} \in SUBSET (1..n)
      BY <1>1, <2>2, MaxOf
    <3> QED BY <1>2, <2>1, <2>2, <3>1 DEF IsFold
  <2>3. f[{}] = base
    BY <2>1 DEF IsFold
  <2>4. Is(f)
    BY <1>1, <2>1, <2>2, <2>3
  <2> QED BY <2>4
<1>5. Number(s) = F[1..n]
  BY <1>1 DEF Number, FoldLeft, MapThenFoldSet, base
<1> HIDE DEF F
<1>6. Unfolds(F, n, A, base, step)
  <2>1. F[{}] = base
    BY <1>4
  <2>2. ASSUME NEW S \in SUBSET (1..n), S # {}, F[S \ {Max(S)}] \in A
        PROVE  F[S] = step[<<Max(S), F[S \ {Max(S)}]>>]
    <3>1. Max(S) \in 1..n
      BY <1>1, <2>2, MaxOf
    <3> QED BY <1>1, <1>2, <1>4, <2>2, <3>1
  <2> QED BY <2>1, <2>2 DEF Unfolds, IsFold
<1>7. PICK r : IsRun(r, n, A, base, step) /\ r[n] = F[1..n]
  <2>1. n \in Nat
    BY <1>1
  <2>2. base \in A
    BY <1>9
  <2> HIDE DEF n
  <2> QED BY <2>1, <2>2, <1>3, <1>6, FoldIsRun
<1>8. \A i \in 1..n : r[i] = 10 * r[i-1] + s[i]
  <2> SUFFICES ASSUME NEW i \in 1..n PROVE r[i] = 10 * r[i-1] + s[i]
    OBVIOUS
  <2>1. r[i-1] \in A
    <3>1. i - 1 \in 0..n
      BY <1>1
    <3> QED BY <1>7, <3>1 DEF IsRun
  <2>2. r[i] = step[<<i, r[i-1]>>]
    BY <1>7 DEF IsRun
  <2> QED BY <1>2, <2>1, <2>2
<1> QED BY <1>5, <1>7, <1>8 DEF IsRun, base, A

\* What up to three digits after the point say, in thousandths.
LEMMA FractionNumber ==
  ASSUME NEW s \in Seq(Digits), Len(s) \in 1..3
  PROVE  /\ Len(s) = 1 => Number(s) * Padding[Len(s)] = 100 * s[1]
         /\ Len(s) = 2 => Number(s) * Padding[Len(s)] = 100 * s[1] + 10 * s[2]
         /\ Len(s) = 3 => Number(s) * Padding[Len(s)] = 100 * s[1] + 10 * s[2] + s[3]
<1>1. PICK r : /\ r[0] = 0
               /\ \A i \in 1..Len(s) : r[i] = 10 * r[i-1] + s[i]
               /\ r[Len(s)] = Number(s)
  BY NumberRun
<1>2. \A i \in 1..Len(s) : s[i] \in 0..9
  BY DEF Digits
<1>3. Padding[1] = 100 /\ Padding[2] = 10 /\ Padding[3] = 1
  BY DEF Padding
<1>4. r[1] = s[1] /\ s[1] \in 0..9
  <2>1. 1 \in 1..Len(s)
    OBVIOUS
  <2>2. r[1] = 10 * r[1-1] + s[1]
    BY <1>1, <2>1
  <2> QED BY <1>1, <1>2, <2>1, <2>2
<1>5. Len(s) >= 2 => r[2] = 10 * r[1] + s[2] /\ s[2] \in 0..9
  <2> SUFFICES ASSUME Len(s) >= 2 PROVE r[2] = 10 * r[1] + s[2] /\ s[2] \in 0..9
    OBVIOUS
  <2>1. 2 \in 1..Len(s)
    OBVIOUS
  <2>2. r[2] = 10 * r[2-1] + s[2]
    BY <1>1, <2>1
  <2> QED BY <1>2, <2>1, <2>2
<1>6. Len(s) = 3 => r[3] = 10 * r[2] + s[3] /\ s[3] \in 0..9
  <2> SUFFICES ASSUME Len(s) = 3 PROVE r[3] = 10 * r[2] + s[3] /\ s[3] \in 0..9
    OBVIOUS
  <2>1. 3 \in 1..Len(s)
    OBVIOUS
  <2>2. r[3] = 10 * r[3-1] + s[3]
    BY <1>1, <2>1
  <2> QED BY <1>2, <2>1, <2>2
<1>7. CASE Len(s) = 1
  BY <1>1, <1>3, <1>4, <1>7
<1>8. CASE Len(s) = 2
  <2>1. Number(s) = 10 * s[1] + s[2] /\ s[1] \in 0..9 /\ s[2] \in 0..9
    BY <1>1, <1>4, <1>5, <1>8
  <2>2. Padding[Len(s)] = 10
    BY <1>3, <1>8
  <2>3. Number(s) * Padding[Len(s)] = (10 * s[1] + s[2]) * 10
    BY Zenon, <2>1, <2>2
  <2>4. (10 * s[1] + s[2]) * 10 = 100 * s[1] + 10 * s[2]
    <3> DEFINE a == s[1]
               b == s[2]
    <3>1. a \in Nat /\ b \in Nat
      BY <2>1
    <3> HIDE DEF a, b
    <3>2. (10 * a + b) * 10 = 100 * a + 10 * b
      BY <3>1
    <3> QED BY <3>2 DEF a, b
  <2> QED BY SMT, <1>8, <2>3, <2>4
<1>9. CASE Len(s) = 3
  <2>1. /\ Number(s) = 10 * (10 * s[1] + s[2]) + s[3]
        /\ s[1] \in 0..9 /\ s[2] \in 0..9 /\ s[3] \in 0..9
    BY <1>1, <1>4, <1>5, <1>6, <1>9
  <2>2. Padding[Len(s)] = 1
    BY <1>3, <1>9
  <2>3. Number(s) * Padding[Len(s)] = (10 * (10 * s[1] + s[2]) + s[3]) * 1
    BY Zenon, <2>1, <2>2
  <2>4. (10 * (10 * s[1] + s[2]) + s[3]) * 1 = 100 * s[1] + 10 * s[2] + s[3]
    <3> DEFINE a == s[1]
               b == s[2]
               c == s[3]
    <3>1. a \in Nat /\ b \in Nat /\ c \in Nat
      BY <2>1
    <3> HIDE DEF a, b, c
    <3>2. (10 * (10 * a + b) + c) * 1 = 100 * a + 10 * b + c
      BY <3>1
    <3> QED BY <3>2 DEF a, b, c
  <2> QED BY SMT, <1>9, <2>3, <2>4
<1> QED BY <1>7, <1>8, <1>9

LEMMA PrefixElements ==
  ASSUME NEW E, NEW s \in Seq(E), NEW n \in 0..Len(s)
  PROVE  /\ SubSeq(s, 1, n) \in Seq(E) /\ Len(SubSeq(s, 1, n)) = n
         /\ \A i \in 1..n : SubSeq(s, 1, n)[i] = s[i]
OBVIOUS

\* Zeros after the point, if anything.
LEMMA SpellingIs ==
  ASSUME NEW d \in Nat, NEW value \in Seq(Nat)
  PROVE  value \in Spellings(d) <=>
           /\ Len(value) \in 1..5
           /\ \A i \in 1..Len(value) : value[i] = IF i = 1 THEN d ELSE IF i = 2 THEN Dot ELSE 0
<1> DEFINE all == <<d, Dot, 0, 0, 0>>
           Of(n) == SubSeq(all, 1, n)
<1>1. ASSUME NEW n \in 1..5
      PROVE  /\ Of(n) \in Seq(Nat) /\ Len(Of(n)) = n
             /\ \A i \in 1..n : Of(n)[i] = IF i = 1 THEN d ELSE IF i = 2 THEN Dot ELSE 0
  <2>1. all \in Seq(Nat) /\ Len(all) = 5
    BY DEF Dot
  <2>2. \A i \in 1..5 : all[i] = IF i = 1 THEN d ELSE IF i = 2 THEN Dot ELSE 0
    BY DEF Dot
  <2> HIDE DEF all
  <2>3. Of(n) \in Seq(Nat) /\ Len(Of(n)) = n /\ \A i \in 1..n : Of(n)[i] = all[i]
    <3>1. n \in 0..Len(all)
      BY <2>1
    <3> QED BY <2>1, <3>1, PrefixElements
  <2> HIDE DEF Of
  <2> QED BY <2>2, <2>3
<1>2. value \in Spellings(d) <=> \E n \in 1..5 : value = Of(n)
  BY DEF Spellings
<1> HIDE DEF Of
<1>3. ASSUME NEW n \in 1..5, value = Of(n)
      PROVE  /\ Len(value) \in 1..5
             /\ \A i \in 1..Len(value) : value[i] = IF i = 1 THEN d ELSE IF i = 2 THEN Dot ELSE 0
  BY <1>1, <1>3
<1>4. ASSUME Len(value) \in 1..5,
             \A i \in 1..Len(value) : value[i] = IF i = 1 THEN d ELSE IF i = 2 THEN Dot ELSE 0
      PROVE  value = Of(Len(value))
  <2>1. Of(Len(value)) \in Seq(Nat) /\ Len(Of(Len(value))) = Len(value)
    BY <1>1, <1>4
  <2>2. \A i \in 1..Len(value) : value[i] = Of(Len(value))[i]
    BY <1>1, <1>4
  <2> QED BY <2>1, <2>2, SeqEqual
<1> QED BY <1>2, <1>3, <1>4

\* A quality is read as its digits say, and everything else is 0.
LEMMA QualityIs ==
  ASSUME NEW value \in Seq(Nat)
  PROVE  /\ ParseQuality(value) = IF IsQuality(value) THEN Thousandths(value) ELSE 0
         /\ ParseQuality(value) \in 0..1000
<1> DEFINE n == Len(value)
<1>1. n \in Nat /\ \A i \in 1..n : value[i] \in Nat
  OBVIOUS
<1>2. Dot = 10 /\ 0 \in Digits /\ 1 \in Digits /\ Digits = 0..9
  BY DEF Dot, Digits
<1>3. CASE value \in Spellings(0)
  <2>1. /\ n \in 1..5
        /\ \A i \in 1..n : value[i] = IF i = 1 THEN 0 ELSE IF i = 2 THEN Dot ELSE 0
    BY <1>3, SpellingIs
  <2>2. value[1] = 0 /\ Place(value, 3) = 0 /\ Place(value, 4) = 0 /\ Place(value, 5) = 0
    BY <2>1 DEF Place
  <2>3. Thousandths(value) = 0
    BY <2>2 DEF Thousandths
  <2>4. ParseQuality(value) = 0
    BY Zenon, <1>3 DEF ParseQuality
  <2> QED BY <2>3, <2>4
<1>4. CASE value \notin Spellings(0) /\ value \in Spellings(1)
  <2>1. /\ n \in 1..5
        /\ \A i \in 1..n : value[i] = IF i = 1 THEN 1 ELSE IF i = 2 THEN Dot ELSE 0
    BY <1>4, SpellingIs
  <2>2. value[1] = 1 /\ Place(value, 3) = 0 /\ Place(value, 4) = 0 /\ Place(value, 5) = 0
    BY <2>1 DEF Place
  <2>3. Thousandths(value) = 1000
    BY <2>2 DEF Thousandths
  <2>4. \A i \in 1..n : IF i = 2 THEN value[i] = Dot ELSE value[i] \in Digits
    BY <1>2, <2>1
  <2>5. IsQuality(value)
    BY <2>1, <2>3, <2>4 DEF IsQuality
  <2>6. ParseQuality(value) = 1000
    BY Zenon, <1>4 DEF ParseQuality
  <2> QED BY <2>3, <2>5, <2>6
<1>5. CASE value \notin Spellings(0) /\ value \notin Spellings(1) /\ IsFraction(value)
  <2> DEFINE s == SubSeq(value, 3, n)
  <2>1. n \in 3..5 /\ \A i \in 3..n : value[i] \in Digits
    BY <1>5 DEF IsFraction
  <2>2. value[1] = 0 /\ value[2] = Dot
    <3>1. SubSeq(value, 1, 2) = <<0, Dot>>
      BY <1>5 DEF IsFraction
    <3>2. 2 \in 0..n /\ 1 \in 1..2 /\ 2 \in 1..2
      BY <2>1
    <3>3. SubSeq(value, 1, 2)[1] = value[1] /\ SubSeq(value, 1, 2)[2] = value[2]
      BY <3>2, PrefixElements
    <3>4. <<0, Dot>>[1] = 0 /\ <<0, Dot>>[2] = Dot
      OBVIOUS
    <3> QED BY Zenon, <3>1, <3>3, <3>4
  <2>3. s \in Seq(Digits) /\ Len(s) = n - 2 /\ \A i \in 1..n-2 : s[i] = value[i + 2]
    <3>1. n \in 3..5 /\ 3 \in Int /\ n \in Int
      BY <2>1
    <3>2. /\ s \in Seq(Digits)
          /\ Len(s) = IF 3 <= n THEN n - 3 + 1 ELSE 0
          /\ \A i \in 1..n-3+1 : s[i] = value[3 + i - 1]
      <4> HIDE DEF n
      <4> QED BY ONLY <3>1, <2>1, SubSeqProperties
    <3>3. n - 3 + 1 = n - 2 /\ \A i \in 1..n-2 : 3 + i - 1 = i + 2
      BY <3>1
    <3> HIDE DEF s, n
    <3> QED BY <3>1, <3>2, <3>3
  <2>4. ParseQuality(value) = Number(s) * Padding[n - 2]
    BY Zenon, <1>5 DEF ParseQuality
  <2> HIDE DEF s
  <2>5. /\ value[3] \in 0..9
        /\ n >= 4 => value[4] \in 0..9
        /\ n = 5 => value[5] \in 0..9
    BY <1>2, <2>1
  <2>6. /\ n = 3 => ParseQuality(value) = 100 * value[3]
        /\ n = 4 => ParseQuality(value) = 100 * value[3] + 10 * value[4]
        /\ n = 5 => ParseQuality(value) = 100 * value[3] + 10 * value[4] + value[5]
    <3>1. Len(s) \in 1..3
      BY <2>1, <2>3
    <3>2. /\ Len(s) = 1 => ParseQuality(value) = 100 * s[1]
          /\ Len(s) = 2 => ParseQuality(value) = 100 * s[1] + 10 * s[2]
          /\ Len(s) = 3 => ParseQuality(value) = 100 * s[1] + 10 * s[2] + s[3]
      BY Zenon, <2>3, <2>4, <3>1, FractionNumber
    <3>3. /\ s[1] = value[3]
          /\ n >= 4 => s[2] = value[4]
          /\ n = 5 => s[3] = value[5]
      BY <2>1, <2>3
    <3>4. /\ n = 3 => Len(s) = 1
          /\ n = 4 => Len(s) = 2 /\ n >= 4
          /\ n = 5 => Len(s) = 3 /\ n >= 4
      BY <2>3
    <3> QED BY Zenon, <3>2, <3>3, <3>4
  <2>7. Thousandths(value) = ParseQuality(value) /\ ParseQuality(value) \in 0..1000
    <3> DEFINE a == Place(value, 3)
               b == Place(value, 4)
               c == Place(value, 5)
    <3>1. /\ n = 3 => a = value[3] /\ b = 0 /\ c = 0
          /\ n = 4 => a = value[3] /\ b = value[4] /\ c = 0
          /\ n = 5 => a = value[3] /\ b = value[4] /\ c = value[5]
      BY DEF Place
    <3>2. a \in 0..9 /\ b \in 0..9 /\ c \in 0..9
      BY <2>1, <2>5, <3>1
    <3> DEFINE d == value[1]
    <3>3. Thousandths(value) = 1000 * d + 100 * a + 10 * b + c /\ d = 0
      BY Zenon, <2>2 DEF Thousandths
    <3> HIDE DEF a, b, c, d
    <3>4. 1000 * d + 100 * a + 10 * b + c = 100 * a + 10 * b + c
      BY <3>2, <3>3
    <3>5. ParseQuality(value) = 100 * a + 10 * b + c
      BY <2>1, <2>5, <2>6, <3>1
    <3>6. 100 * a + 10 * b + c \in 0..1000
      BY <3>2
    <3>7. Thousandths(value) = 100 * a + 10 * b + c
      <4> DEFINE left == 1000 * d + 100 * a + 10 * b + c
                 right == 100 * a + 10 * b + c
      <4>1. Thousandths(value) = left
        BY ONLY <3>3, Zenon
      <4>2. left = right
        BY ONLY <3>4, Zenon
      <4> HIDE DEF left, right
      <4>3. Thousandths(value) = right
        BY ONLY <4>1, <4>2, Zenon
      <4> QED BY ONLY <4>3, Zenon DEF right
    <3> QED BY Zenon, <3>5, <3>6, <3>7
  <2>8. IsQuality(value)
    <3>1. \A i \in 1..n : i = 1 \/ i = 2 \/ i \in 3..n
      BY <2>1
    <3>2. \A i \in 1..n : IF i = 2 THEN value[i] = Dot ELSE value[i] \in Digits
      BY <1>2, <2>1, <2>2, <3>1
    <3>3. n \in 1..5 /\ Thousandths(value) <= 1000
      <4>1. n \in 1..5
        BY <2>1
      <4> DEFINE all == Thousandths(value)
      <4>2. all \in 0..1000
        BY Zenon, <2>7
      <4> HIDE DEF all
      <4>3. all <= 1000
        BY <4>2
      <4> QED BY Zenon, <4>1, <4>3 DEF all
    <3> QED BY Zenon, <3>2, <3>3 DEF IsQuality
  <2> QED BY <2>7, <2>8
<1>6. CASE value \notin Spellings(0) /\ value \notin Spellings(1) /\ ~IsFraction(value)
  <2>1. ParseQuality(value) = 0
    BY Zenon, <1>6 DEF ParseQuality
  <2>2. ASSUME IsQuality(value) PROVE FALSE
    <3>1. /\ n \in 1..5 /\ Thousandths(value) <= 1000
          /\ \A i \in 1..n : IF i = 2 THEN value[i] = Dot ELSE value[i] \in Digits
      BY <2>2 DEF IsQuality
    <3>2. /\ value[1] \in 0..9
          /\ n >= 2 => value[2] = Dot
          /\ \A i \in 3..n : value[i] \in 0..9
      BY <1>2, <3>1
    <3>3. Place(value, 3) \in 0..9 /\ Place(value, 4) \in 0..9 /\ Place(value, 5) \in 0..9
      BY <3>1, <3>2 DEF Place
    <3>4. \/ value[1] = 0
          \/ /\ value[1] = 1
             /\ Place(value, 3) = 0 /\ Place(value, 4) = 0 /\ Place(value, 5) = 0
      <4> DEFINE d == value[1]
                 a == Place(value, 3)
                 b == Place(value, 4)
                 c == Place(value, 5)
      <4>1. d \in 0..9 /\ a \in 0..9 /\ b \in 0..9 /\ c \in 0..9
        BY <3>2, <3>3
      <4>2. 1000 * d + 100 * a + 10 * b + c <= 1000
        BY <3>1 DEF Thousandths
      <4> HIDE DEF a, b, c, d
      <4>3. d = 0 \/ (d = 1 /\ a = 0 /\ b = 0 /\ c = 0)
        BY <4>1, <4>2
      <4> QED BY Zenon, <4>3 DEF a, b, c, d
    <3>5. CASE value[1] = 1
      <4>1. \A i \in 3..n : value[i] = 0
        <5>1. /\ n >= 3 => value[3] = 0
              /\ n >= 4 => value[4] = 0
              /\ n >= 5 => value[5] = 0
          <6>1. Place(value, 3) = 0 /\ Place(value, 4) = 0 /\ Place(value, 5) = 0
            BY <3>4, <3>5
          <6> QED BY <6>1 DEF Place
        <5>2. n \in 1..5
          BY <3>1
        <5> QED BY <5>1, <5>2
      <4>2. \A i \in 1..n : value[i] = IF i = 1 THEN 1 ELSE IF i = 2 THEN Dot ELSE 0
        BY <3>2, <3>5, <4>1
      <4> QED BY <1>6, <3>1, <4>2, SpellingIs
    <3>6. CASE value[1] = 0 /\ n <= 2
      <4>1. \A i \in 1..n : value[i] = IF i = 1 THEN 0 ELSE IF i = 2 THEN Dot ELSE 0
        BY <3>2, <3>6
      <4> QED BY <1>6, <3>1, <4>1, SpellingIs
    <3>7. CASE value[1] = 0 /\ n > 2
      <4>1. SubSeq(value, 1, 2) = <<0, Dot>>
        <5>1. value[1] = 0 /\ value[2] = Dot
          BY <3>2, <3>7
        <5>2. 2 \in 0..n
          BY <3>7
        <5>3. /\ SubSeq(value, 1, 2) \in Seq(Nat) /\ Len(SubSeq(value, 1, 2)) = 2
              /\ \A i \in 1..2 : SubSeq(value, 1, 2)[i] = value[i]
          BY <5>2, PrefixElements
        <5> DEFINE p == SubSeq(value, 1, 2)
        <5>4. p \in Seq(Nat) /\ Len(p) = 2 /\ p[1] = 0 /\ p[2] = 10
          BY <1>2, <5>1, <5>3
        <5> HIDE DEF p
        <5>5. p = <<0, 10>>
          BY <5>4
        <5> QED BY <1>2, <5>5 DEF p
      <4>2. IsFraction(value)
        <5>1. n \in 3..5 /\ \A i \in 3..n : value[i] \in Digits
          BY <1>2, <3>1, <3>2, <3>7
        <5> QED BY Zenon, <4>1, <5>1 DEF IsFraction
      <4> QED BY <1>6, <4>2
    <3> QED BY <3>1, <3>4, <3>5, <3>6, <3>7
  <2> QED BY <2>1, <2>2
<1> QED BY <1>3, <1>4, <1>5, <1>6

\* What an item says of its coding.
LEMMA ItemQualityIs ==
  ASSUME NEW item \in Items
  PROVE  QualityOf(item) = ItemQuality(item) /\ QualityOf(item) \in 0..1000
<1>1. item.q \in Seq(Seq(Nat))
  BY DEF Items
<1>2. CASE item.q = <<>>
  BY <1>2 DEF QualityOf, ItemQuality
<1>3. CASE item.q # <<>>
  <2>1. Last(item.q) \in Seq(Nat)
    BY <1>1, <1>3 DEF Last
  <2>2. QualityOf(item) = ParseQuality(Last(item.q))
    BY Zenon, <1>3 DEF QualityOf
  <2>3. ItemQuality(item) = IF IsQuality(Last(item.q)) THEN Thousandths(Last(item.q)) ELSE 0
    BY Zenon, <1>3 DEF ItemQuality
  <2> DEFINE value == Last(item.q)
  <2>4. value \in Seq(Nat)
    BY <2>1
  <2> HIDE DEF value
  <2>5. /\ ParseQuality(value) = IF IsQuality(value) THEN Thousandths(value) ELSE 0
        /\ ParseQuality(value) \in 0..1000
    BY <2>4, QualityIs
  <2> QED BY Zenon, <2>2, <2>3, <2>5 DEF value
<1> QED BY <1>2, <1>3

-----------------------------------------------------------------------------
(* The rest of the parser. *)

LEMMA NextItemInv == ParserInv /\ NextItem => ParserInv'
<1> SUFFICES ASSUME ParserInv, NextItem PROVE ParserInv'
  OBVIOUS
<1> USE DEF ParserInv
<1> DEFINE item == Head(acceptEncoding)
<1>1. /\ parsing = "encodings" /\ acceptEncoding # <<>>
      /\ quality' = IF item.token \in Codings
                    THEN [quality EXCEPT ![item.token] = QualityOf(item)] ELSE quality
      /\ acceptEncoding' = Tail(acceptEncoding)
  BY Zenon DEF NextItem
<1>2. /\ parsing' = parsing /\ requestLine' = requestLine /\ seen' = seen
      /\ hostCount' = hostCount /\ noneMatch' = noneMatch /\ modifiedSince' = modifiedSince
  BY SMT DEF NextItem
<1>3. item \in Items /\ acceptEncoding' \in Seq(Items)
  <2>1. acceptEncoding \in Seq(Items)
    BY Zenon DEF ParserTypeOK
  <2> QED BY <1>1, <2>1
<1>4. quality' \in [Codings -> 0..1000 \cup {None}]
  <2>1. quality \in [Codings -> 0..1000 \cup {None}]
    BY Zenon DEF ParserTypeOK
  <2> HIDE DEF item
  <2>2. QualityOf(item) \in 0..1000
    BY <1>3, ItemQualityIs
  <2>3. CASE item.token \in Codings
    <3> DEFINE c == item.token
               q == QualityOf(item)
               T == 0..1000 \cup {None}
    <3>1. quality' = [quality EXCEPT ![c] = q] /\ c \in Codings
      BY Zenon, <1>1, <2>3
    <3>2. q \in T /\ quality \in [Codings -> T]
      BY Zenon, <2>1, <2>2
    <3> HIDE DEF c, q, T
    <3>3. quality' \in [Codings -> T]
      BY ONLY <3>1, <3>2
    <3> QED BY Zenon, <3>3 DEF T
  <2>4. CASE item.token \notin Codings
    BY Zenon, <1>1, <2>1, <2>4
  <2> QED BY Zenon, <2>3, <2>4
<1>5. ParserTypeOK'
  BY Zenon, <1>2, <1>3, <1>4 DEF ParserTypeOK
<1>6. HostsAreCounted' /\ HostIsNamed' /\ RefusalIsRight'
  BY Zenon, <1>2 DEF HostsAreCounted, HostIsNamed, RefusalIsRight, HeaderIsRead, OneHost
<1> QED BY Zenon, <1>1, <1>2, <1>5, <1>6 DEF StartsEmpty

LEMMA AcceptInv == ParserInv /\ Accept => ParserInv'
<1> SUFFICES ASSUME ParserInv, Accept PROVE ParserInv'
  OBVIOUS
<1> USE DEF ParserInv
<1>1. /\ parsing = "encodings" /\ parsing' = "accepted"
      /\ quality' = [c \in Codings |-> IF c = "*" THEN quality[c] ELSE WithDefault(c)]
  BY Zenon DEF Accept
<1>2. /\ acceptEncoding' = acceptEncoding /\ requestLine' = requestLine /\ seen' = seen
      /\ hostCount' = hostCount /\ noneMatch' = noneMatch /\ modifiedSince' = modifiedSince
  BY SMT DEF Accept
<1>3. quality' \in [Codings -> 0..1000 \cup {None}]
  <2> DEFINE Values == 0..1000 \cup {None}
  <2>1. quality \in [Codings -> Values]
    BY Zenon DEF ParserTypeOK
  <2>2. 0 \in Values
    OBVIOUS
  <2>3. "*" \in Codings
    BY Zenon DEF Codings
  <2> HIDE DEF Values
  <2>4. \A c \in Codings : quality[c] \in Values
    BY Zenon, <2>1
  <2>5. ASSUME NEW c \in Codings
        PROVE  (IF c = "*" THEN quality[c] ELSE WithDefault(c)) \in Values
    BY Zenon, <2>2, <2>3, <2>4 DEF WithDefault
  <2>6. quality' \in [Codings -> Values]
    BY Zenon, <1>1, <2>5
  <2> QED BY Zenon, <2>6 DEF Values
<1>4. ParserTypeOK'
  BY Zenon, <1>1, <1>2, <1>3 DEF ParserTypeOK
<1>5. HostsAreCounted' /\ HostIsNamed' /\ RefusalIsRight'
  BY Zenon, <1>1, <1>2 DEF HostsAreCounted, HostIsNamed, RefusalIsRight, HeaderIsRead
<1> QED BY Zenon, <1>1, <1>2, <1>4, <1>5 DEF StartsEmpty

LEMMA ParserStutter == ParserInv /\ UNCHANGED parserVars => ParserInv'
<1> SUFFICES ASSUME ParserInv, UNCHANGED parserVars PROVE ParserInv'
  OBVIOUS
<1>1. /\ parsing' = parsing /\ requestLine' = requestLine /\ seen' = seen
      /\ hostCount' = hostCount /\ acceptEncoding' = acceptEncoding /\ quality' = quality
      /\ noneMatch' = noneMatch /\ modifiedSince' = modifiedSince
  BY SMT DEF parserVars
<1>2. ParserTypeOK'
  BY Zenon, <1>1 DEF ParserInv, ParserTypeOK
<1> QED BY Zenon, <1>1, <1>2
     DEF ParserInv, StartsEmpty, HostsAreCounted, HeaderIsRead, HostIsNamed, RefusalIsRight,
         OneHost

LEMMA ParserStepInv == ParserInv /\ (ParserStep \/ UNCHANGED parserVars) => ParserInv'
<1> SUFFICES ASSUME ParserInv, ParserStep \/ UNCHANGED parserVars PROVE ParserInv'
  OBVIOUS
<1>1. CASE ReadRequestLine
  BY Zenon, <1>1, RequestLineInv
<1>2. ASSUME NEW line \in HeaderLines(requestLine, seen) \cap Lines, ReadHeader(line)
      PROVE  ParserInv'
  <2>1. line \in Lines
    BY Zenon
  <2> QED BY Zenon, <1>2, <2>1, HeaderInv
<1>3. CASE EndHeaders
  BY Zenon, <1>3, EndHeadersInv
<1>4. CASE NextItem
  BY Zenon, <1>4, NextItemInv
<1>5. CASE Accept
  BY Zenon, <1>5, AcceptInv
<1>6. CASE UNCHANGED parserVars
  BY Zenon, <1>6, ParserStutter
<1> QED BY Zenon, <1>1, <1>2, <1>3, <1>4, <1>5, <1>6 DEF ParserStep

\* Whatever a request does, its parser takes a step of its own or none.
LEMMA ParserMoves == RequestNext => ParserStep \/ UNCHANGED parserVars
BY Zenon DEF RequestNext, RefusesHeader, DecodesTarget, RefusesTarget, AnswersHealth,
   ServesStatic, Answers, Returns, LogsRequest

THEOREM ParserInvariant == RequestSpec => []ParserInv
<1>1. RequestInit => ParserInv
  BY Zenon, ParserInitInv DEF RequestInit
<1>2. ParserInv /\ [RequestNext]_requestVars => ParserInv'
  <2>1. UNCHANGED requestVars => UNCHANGED parserVars
    BY Zenon DEF requestVars
  <2> QED BY Zenon, <2>1, ParserMoves, ParserStepInv
<1> QED BY <1>1, <1>2, PTL DEF RequestSpec

\* A request is accepted exactly when its request line and headers deserve it.
THEOREM VerdictsAreRight == RequestSpec => []VerdictIsRight
<1>1. ParserInv => VerdictIsRight
  <2> SUFFICES ASSUME ParserInv PROVE VerdictIsRight
    OBVIOUS
  <2>1. Named("malformed") = NamedIn(seen, "malformed") /\ Named("host") = NamedIn(seen, "host")
    BY Zenon DEF Named, NamedIn
  <2>2. /\ parsing = "BadRequest" =>
             \/ ~requestLine.formed \/ requestLine.version \notin Versions
             \/ Named("malformed") # {}
             \/ \E i \in Named("host") : seen[i].empty
             \/ requestLine.version = "HTTP/1.1" /\ ~\E i \in Named("host") : Named("host") = {i}
        /\ parsing = "MethodNotAllowed" =>
             requestLine.formed /\ requestLine.method \notin Methods /\ seen = <<>>
    BY Zenon, <2>1 DEF ParserInv, RefusalIsRight, OneHost
  <2>3. ASSUME parsing = "accepted"
        PROVE  /\ requestLine.formed
               /\ requestLine.method \in Methods /\ requestLine.version \in Versions
               /\ Named("malformed") = {}
               /\ \A i \in Named("host") : ~seen[i].empty
               /\ requestLine.version = "HTTP/1.1" =>
                    \E i \in Named("host") : Named("host") = {i}
    <3>1. HostsAreCounted /\ HostIsNamed /\ HeaderIsRead /\ seen \in Seq(Lines)
      BY Zenon, <2>3 DEF ParserInv, ParserTypeOK, HeaderIsRead
    <3>2. requestLine.formed /\ requestLine.method \in Methods /\ requestLine.version \in Versions
      <4>1. AfterRequestLine(requestLine) = "headers"
        BY Zenon, <3>1 DEF HostsAreCounted
      <4> QED BY Zenon, <4>1 DEF AfterRequestLine
    <3>3. IsFiniteSet(Named("host"))
      BY Zenon, <2>1, <3>1, NamedFinite
    <3>4. requestLine.version = "HTTP/1.1" => Cardinality(Named("host")) = 1
      BY Zenon, <2>1, <2>3, <3>1 DEF HostsAreCounted, HostIsNamed
    <3>5. requestLine.version = "HTTP/1.1" => \E i \in Named("host") : Named("host") = {i}
      BY Zenon, <3>3, <3>4, OneHostCounts
    <3> QED BY Zenon, <2>1, <3>1, <3>2, <3>5 DEF HostsAreCounted
  <2> QED BY Zenon, <2>2, <2>3 DEF VerdictIsRight
<1> QED BY <1>1, ParserInvariant, PTL

-----------------------------------------------------------------------------
(* What an accepted request says. *)

\* The items of these lines, and how one more line adds to them.
ItemsOn(line) == IF line.name = "accept-encoding" THEN line.items ELSE <<>>

ItemsIn(lines) == FlattenSeq([i \in 1..Len(lines) |-> ItemsOn(lines[i])])

LEMMA ItemsAppend ==
  ASSUME NEW lines \in Seq(Lines), NEW line \in Lines
  PROVE  /\ ItemsIn(lines) \in Seq(Items)
         /\ ItemsIn(Append(lines, line)) = ItemsIn(lines) \o ItemsOn(line)
<1> DEFINE Parts(ls) == [i \in 1..Len(ls) |-> ItemsOn(ls[i])]
           more == Append(lines, line)
           n == Len(lines)
<1>1. \A l \in Lines : ItemsOn(l) \in Seq(Items)
  <2> SUFFICES ASSUME NEW l \in Lines PROVE ItemsOn(l) \in Seq(Items)
    OBVIOUS
  <2>1. <<>> \in Seq(Items)
    OBVIOUS
  <2> QED BY Zenon, <2>1, LineMembers DEF ItemsOn
<1>2. /\ n \in Nat /\ more \in Seq(Lines) /\ Len(more) = n + 1
      /\ more[n + 1] = line /\ \A i \in 1..n : more[i] = lines[i]
  BY AppendProperties
<1> HIDE DEF more
<1>3. Parts(lines) \in Seq(Seq(Items)) /\ Len(Parts(lines)) = n
  <2>1. \A i \in 1..n : ItemsOn(lines[i]) \in Seq(Items)
    <3>1. \A i \in 1..n : lines[i] \in Lines
      OBVIOUS
    <3> QED BY Zenon, <1>1, <3>1
  <2> DEFINE A == Seq(Items)
  <2>2. \A i \in 1..n : ItemsOn(lines[i]) \in A
    BY <2>1
  <2> HIDE DEF A
  <2>3. Parts(lines) \in Seq(A) /\ Len(Parts(lines)) = n
    BY <1>2, <2>2
  <2> QED BY Zenon, <2>3 DEF A
<1>4. Parts(more) = Append(Parts(lines), ItemsOn(line))
  <2>1. /\ Len(Append(Parts(lines), ItemsOn(line))) = n + 1
        /\ Append(Parts(lines), ItemsOn(line))[n + 1] = ItemsOn(line)
        /\ \A i \in 1..n : Append(Parts(lines), ItemsOn(line))[i] = ItemsOn(lines[i])
        /\ Append(Parts(lines), ItemsOn(line)) \in Seq(Seq(Items))
    <3> DEFINE A == Seq(Items)
               parts == Parts(lines)
               last == ItemsOn(line)
    <3>1. parts \in Seq(A) /\ last \in A /\ Len(parts) = n
      BY Zenon, <1>1, <1>3
    <3>2. \A i \in 1..n : parts[i] = ItemsOn(lines[i])
      OBVIOUS
    <3> HIDE DEF A, parts, last
    <3>3. /\ Append(parts, last) \in Seq(A) /\ Len(Append(parts, last)) = n + 1
          /\ Append(parts, last)[n + 1] = last
          /\ \A i \in 1..n : Append(parts, last)[i] = parts[i]
      BY <3>1, AppendProperties
    <3> QED BY Zenon, <3>2, <3>3 DEF A, parts, last
  <2>2. Len(Parts(more)) = n + 1 /\ \A i \in 1..n+1 : Parts(more)[i] = ItemsOn(more[i])
    BY <1>2
  <2>3. Parts(more) \in Seq(Seq(Items))
    <3> DEFINE A == Seq(Items)
    <3>1. \A i \in 1..n+1 : more[i] \in Lines
      BY <1>2
    <3>2. \A i \in 1..n+1 : ItemsOn(more[i]) \in A
      BY Zenon, <1>1, <3>1
    <3> HIDE DEF A
    <3>3. Parts(more) \in Seq(A)
      BY <1>2, <3>2
    <3> QED BY Zenon, <3>3 DEF A
  <2> DEFINE A == Seq(Items)
             left == Parts(more)
             right == Append(Parts(lines), ItemsOn(line))
  <2>4. left \in Seq(A) /\ right \in Seq(A) /\ Len(left) = n + 1 /\ Len(right) = n + 1
    BY Zenon, <2>1, <2>2, <2>3
  <2>5. \A i \in 1..n : left[i] = right[i]
    <3>1. \A i \in 1..n : i \in 1..n+1
      BY <1>2
    <3> QED BY Zenon, <1>2, <2>1, <2>2, <3>1
  <2>6. left[n + 1] = right[n + 1]
    <3>1. n + 1 \in 1..n+1
      BY <1>2
    <3> QED BY Zenon, <1>2, <2>1, <2>2, <3>1
  <2> HIDE DEF A, left, right
  <2>7. \A i \in 1..n+1 : left[i] = right[i]
    BY <1>2, <2>5, <2>6
  <2>8. left = right
    BY <2>4, <2>7, SeqEqual
  <2> QED BY Zenon, <2>8 DEF left, right
<1>5. ItemsOn(line) \in Seq(Items)
  BY Zenon, <1>1
<1> HIDE DEF Parts
<1>6. /\ FlattenSeq(Parts(lines)) \in Seq(Items)
      /\ FlattenSeq(Append(Parts(lines), ItemsOn(line))) = FlattenSeq(Parts(lines)) \o ItemsOn(line)
  BY SMT, <1>3, <1>5, FlattenAppend
<1> QED BY Zenon, <1>4, <1>6 DEF ItemsIn, Parts, more

\* What the last of the first k items says that names this.
Naming(all, k, token) == {i \in 1..k : all[i].token = token}

Latest(all, k, token) ==
  IF Naming(all, k, token) = {} THEN None ELSE ItemQuality(all[Max(Naming(all, k, token))])

LEMMA LatestStep ==
  ASSUME NEW all \in Seq(Items), NEW k \in Nat, k < Len(all), NEW token
  PROVE  Latest(all, k + 1, token) =
           IF all[k + 1].token = token THEN ItemQuality(all[k + 1]) ELSE Latest(all, k, token)
<1> DEFINE before == Naming(all, k, token)
           after == Naming(all, k + 1, token)
<1>1. before \subseteq 1..k /\ k + 1 \in 1..k+1 /\ \A i : i \in 1..k+1 <=> i \in 1..k \/ i = k + 1
  BY DEF Naming
<1>2. CASE all[k + 1].token = token
  <2>1. after \subseteq Nat /\ k + 1 \in after /\ \A i \in after : i <= k + 1
    BY <1>1, <1>2 DEF Naming
  <2>2. Max(after) = k + 1
    BY <2>1, MaxIs
  <2> QED BY Zenon, <1>2, <2>1, <2>2 DEF Latest
<1>3. CASE all[k + 1].token # token
  <2>1. after = before
    BY Zenon, <1>1, <1>3 DEF Naming
  <2> QED BY Zenon, <1>3, <2>1 DEF Latest
<1> QED BY Zenon, <1>2, <1>3

LEMMA LatestIs ==
  ASSUME NEW all \in Seq(Items), NEW k \in 0..Len(all), NEW token
  PROVE  /\ Latest(all, k, token) # None <=> Naming(all, k, token) # {}
         /\ Latest(all, 0, token) = None
<1>1. Naming(all, 0, token) = {}
  BY DEF Naming
<1>2. ASSUME Naming(all, k, token) # {}
      PROVE  Latest(all, k, token) # None
  <2> DEFINE said == Naming(all, k, token)
  <2>1. said \in SUBSET (1..k) /\ k \in Nat
    BY DEF Naming
  <2>2. Max(said) \in said
    BY <1>2, <2>1, MaxOf
  <2>3. Max(said) \in 1..Len(all)
    BY <2>1, <2>2
  <2>4. all[Max(said)] \in Items
    BY <2>3
  <2>5. ItemQuality(all[Max(said)]) \in 0..1000
    <3> DEFINE item == all[Max(said)]
    <3>1. item \in Items
      BY Zenon, <2>4
    <3> HIDE DEF item
    <3>2. QualityOf(item) = ItemQuality(item) /\ QualityOf(item) \in 0..1000
      BY ONLY <3>1, ItemQualityIs
    <3>3. ItemQuality(item) \in 0..1000
      BY ONLY <3>2
    <3> QED BY ONLY <3>3, Zenon DEF item
  <2>6. ItemQuality(all[Max(said)]) # None
    <3>1. None \notin Nat
      BY Zenon, ParserAssumption
    <3> DEFINE what == ItemQuality(all[Max(said)])
    <3>2. what \in Nat
      <4>1. what \in 0..1000
        BY Zenon, <2>5
      <4> HIDE DEF what
      <4> QED BY <4>1
    <3> QED BY Zenon, <3>1, <3>2
  <2> QED BY Zenon, <1>2, <2>6 DEF Latest
<1> QED BY Zenon, <1>1, <1>2 DEF Latest

ValidatorsAreKept ==
  HeaderIsRead =>
    /\ noneMatch = IF NamedIn(seen, "if-none-match") = {} THEN None
                   ELSE seen[Max(NamedIn(seen, "if-none-match"))].tags
    /\ modifiedSince = IF NamedIn(seen, "if-modified-since") = {} THEN None
                       ELSE seen[Max(NamedIn(seen, "if-modified-since"))].date

NothingSaid == \A c \in Codings : quality[c] = None

ItemsAreKept ==
  parsing \in {"start", "headers"} => acceptEncoding = ItemsIn(seen) /\ NothingSaid

\* The items that are left, and what those before them said.
ItemsAreRead(all) ==
  \E k \in 0..Len(all) :
    /\ acceptEncoding = SubSeq(all, k + 1, Len(all))
    /\ \A c \in Codings : quality[c] = Latest(all, k, c)

QualitiesAreRight ==
  /\ parsing = "encodings" => ItemsAreRead(ItemsIn(seen))
  /\ parsing = "accepted" => EncodingsAreRight

AcceptedInv ==
  /\ ParserInv
  /\ ValidatorsAreKept
  /\ ItemsAreKept
  /\ QualitiesAreRight

LEMMA NoLines ==
  /\ ItemsIn(<<>>) = <<>>
  /\ \A name : NamedIn(<<>>, name) = {}
<1>1. [i \in 1..Len(<<>>) |-> ItemsOn(<<>>[i])] = <<>>
  OBVIOUS
<1>2. ItemsIn(<<>>) = <<>>
  BY Zenon, <1>1, FlattenEmpty DEF ItemsIn
<1>3. ASSUME NEW name PROVE NamedIn(<<>>, name) = {}
  BY DEF NamedIn
<1> QED BY <1>2, <1>3

LEMMA ItemsType == ASSUME NEW lines \in Seq(Lines) PROVE ItemsIn(lines) \in Seq(Items)
<1>1. lines = <<>> \/ \E ls \in Seq(Lines), l \in Lines : lines = Append(ls, l)
  BY SequenceEmptyOrAppend
<1>2. CASE lines = <<>>
  BY Zenon, <1>2, NoLines, EmptySeq
<1>3. CASE lines # <<>>
  <2>1. PICK ls \in Seq(Lines), l \in Lines : lines = Append(ls, l)
    BY Zenon, <1>1, <1>3
  <2>2. ItemsIn(ls) \in Seq(Items) /\ ItemsIn(lines) = ItemsIn(ls) \o ItemsOn(l)
    BY SMT, <2>1, ItemsAppend
  <2>3. ItemsOn(l) \in Seq(Items)
    BY Zenon, LineMembers, EmptySeq DEF ItemsOn
  <2> QED BY <2>2, <2>3, ConcatProperties
<1> QED BY Zenon, <1>2, <1>3

LEMMA AcceptedInitInv == ParserInit => AcceptedInv
<1> SUFFICES ASSUME ParserInit PROVE AcceptedInv
  OBVIOUS
<1>1. ParserInv
  BY Zenon, ParserInitInv
<1>2. /\ parsing = "start" /\ seen = <<>> /\ acceptEncoding = <<>>
      /\ quality = [c \in Codings |-> None]
  BY Zenon DEF ParserInit
<1>3. NothingSaid
  BY Zenon, <1>2 DEF NothingSaid
<1>4. ItemsAreKept
  BY Zenon, <1>2, <1>3, NoLines DEF ItemsAreKept
<1> QED BY Zenon, <1>1, <1>2, <1>4 DEF AcceptedInv, ValidatorsAreKept, HeaderIsRead, QualitiesAreRight

LEMMA AcceptedRequestLine == AcceptedInv /\ ReadRequestLine => AcceptedInv'
<1> SUFFICES ASSUME AcceptedInv, ReadRequestLine PROVE AcceptedInv'
  OBVIOUS
<1>1. ParserInv'
  BY Zenon, RequestLineInv DEF AcceptedInv
<1>2. /\ parsing = "start" /\ parsing' = AfterRequestLine(requestLine)
      /\ seen' = seen /\ acceptEncoding' = acceptEncoding /\ quality' = quality
      /\ noneMatch' = noneMatch /\ modifiedSince' = modifiedSince
  BY SMT DEF ReadRequestLine
<1>3. parsing' \in {"headers"} \cup Refused
  BY Zenon, <1>2 DEF AfterRequestLine, Refused
<1>4. seen = <<>> /\ noneMatch = None /\ modifiedSince = None
  BY Zenon, <1>2 DEF AcceptedInv, ParserInv, StartsEmpty
<1>5. ValidatorsAreKept'
  BY Zenon, <1>2, <1>4, NoLines DEF ValidatorsAreKept
<1>6. ItemsAreKept'
  BY Zenon, <1>2 DEF AcceptedInv, ItemsAreKept, NothingSaid
<1>7. QualitiesAreRight'
  BY Zenon, <1>3 DEF QualitiesAreRight, Refused
<1> QED BY Zenon, <1>1, <1>5, <1>6, <1>7 DEF AcceptedInv

LEMMA AcceptedHeader ==
  ASSUME NEW line \in Lines, AcceptedInv, ReadHeader(line) PROVE AcceptedInv'
<1>1. ParserInv'
  BY Zenon, HeaderInv DEF AcceptedInv
<1>2. /\ parsing = "headers" /\ seen' = Append(seen, line) /\ quality' = quality
  BY SMT DEF ReadHeader
<1>3. seen \in Seq(Lines) /\ acceptEncoding \in Seq(Items)
  BY Zenon DEF AcceptedInv, ParserInv, ParserTypeOK
<1>4. CASE IsRefused(line)
  <2>1. parsing' = "BadRequest"
    BY SMT, <1>4 DEF ReadHeader
  <2> QED BY Zenon, <1>1, <2>1
       DEF AcceptedInv, ValidatorsAreKept, HeaderIsRead, ItemsAreKept, QualitiesAreRight
<1>5. CASE ~IsRefused(line)
  <2>1. /\ parsing' = "headers"
        /\ acceptEncoding' = IF line.name = "accept-encoding"
                             THEN Joined(line.items) ELSE acceptEncoding
        /\ noneMatch' = IF line.name = "if-none-match" THEN line.tags ELSE noneMatch
        /\ modifiedSince' = IF line.name = "if-modified-since"
                            THEN DateOf(line) ELSE modifiedSince
    BY Zenon, <1>2, <1>5 DEF ReadHeader
  <2>2. IsLast(seen', seen, line, "if-none-match")
    BY SMT, <1>2, <1>3, NamedLast
  <2>3. IsLast(seen', seen, line, "if-modified-since")
    BY SMT, <1>2, <1>3, NamedLast
  <2>4. ValidatorsAreKept
    BY Zenon DEF AcceptedInv
  <2>5. ValidatorsAreKept'
    <3>1. noneMatch' = IF NamedIn(seen', "if-none-match") = {} THEN None
                       ELSE seen'[Max(NamedIn(seen', "if-none-match"))].tags
      BY Zenon, <1>2, <2>1, <2>2, <2>4 DEF ValidatorsAreKept, HeaderIsRead, IsLast
    <3>2. modifiedSince' = IF NamedIn(seen', "if-modified-since") = {} THEN None
                           ELSE seen'[Max(NamedIn(seen', "if-modified-since"))].date
      BY Zenon, <1>2, <2>1, <2>3, <2>4 DEF ValidatorsAreKept, HeaderIsRead, DateOf, IsLast
    <3> QED BY Zenon, <3>1, <3>2 DEF ValidatorsAreKept
  <2>6. ItemsIn(seen') = ItemsIn(seen) \o ItemsOn(line) /\ ItemsIn(seen) \in Seq(Items)
    BY SMT, <1>2, <1>3, ItemsAppend
  <2>7. acceptEncoding = ItemsIn(seen) /\ NothingSaid
    BY Zenon, <1>2 DEF AcceptedInv, ItemsAreKept
  <2>8. acceptEncoding' = ItemsIn(seen')
    <3>1. CASE line.name = "accept-encoding"
      BY Zenon, <2>1, <2>6, <2>7, <3>1 DEF Joined, ItemsOn
    <3>2. CASE line.name # "accept-encoding"
      <4>1. ItemsIn(seen) \o <<>> = ItemsIn(seen)
        BY <2>6, ConcatEmptySeq
      <4> QED BY Zenon, <2>1, <2>6, <2>7, <3>2, <4>1 DEF ItemsOn
    <3> QED BY Zenon, <3>1, <3>2
  <2>9. ItemsAreKept' /\ QualitiesAreRight'
    BY Zenon, <1>2, <2>1, <2>7, <2>8 DEF ItemsAreKept, NothingSaid, QualitiesAreRight
  <2> QED BY Zenon, <1>1, <2>5, <2>9 DEF AcceptedInv
<1> QED BY Zenon, <1>4, <1>5

LEMMA AcceptedEndHeaders == AcceptedInv /\ EndHeaders => AcceptedInv'
<1> SUFFICES ASSUME AcceptedInv, EndHeaders PROVE AcceptedInv'
  OBVIOUS
<1>1. ParserInv'
  BY Zenon, EndHeadersInv DEF AcceptedInv
<1>2. /\ parsing = "headers" /\ seen' = seen /\ acceptEncoding' = acceptEncoding
      /\ quality' = quality /\ noneMatch' = noneMatch /\ modifiedSince' = modifiedSince
  BY SMT DEF EndHeaders
<1>3. parsing' \in {"BadRequest", "encodings"}
  BY Zenon DEF EndHeaders
<1>4. ValidatorsAreKept'
  BY Zenon, <1>2 DEF AcceptedInv, ValidatorsAreKept, HeaderIsRead
<1>5. ItemsIn(seen) \in Seq(Items)
  <2>1. acceptEncoding = ItemsIn(seen) /\ acceptEncoding \in Seq(Items)
    BY Zenon, <1>2 DEF AcceptedInv, ItemsAreKept, ParserInv, ParserTypeOK
  <2> QED BY Zenon, <2>1
<1>6. ItemsAreRead(ItemsIn(seen))
  <2> DEFINE all == ItemsIn(seen)
  <2>1. all \in Seq(Items) /\ acceptEncoding = all /\ NothingSaid
    BY Zenon, <1>2, <1>5 DEF AcceptedInv, ItemsAreKept
  <2> HIDE DEF all
  <2>2. SubSeq(all, 0 + 1, Len(all)) = all /\ 0 \in 0..Len(all)
    BY <2>1, SubSeqFull
  <2>3. \A c \in Codings : quality[c] = Latest(all, 0, c)
    BY Zenon, <2>1, <2>2, LatestIs DEF NothingSaid
  <2>4. ItemsAreRead(all)
    BY Zenon, <2>1, <2>2, <2>3 DEF ItemsAreRead
  <2> QED BY Zenon, <2>4 DEF all
<1>7. ItemsAreRead(ItemsIn(seen))'
  BY Zenon, <1>2, <1>6 DEF ItemsAreRead
<1> QED BY Zenon, <1>1, <1>3, <1>4, <1>7 DEF AcceptedInv, ItemsAreKept, QualitiesAreRight

LEMMA AcceptedNextItem == AcceptedInv /\ NextItem => AcceptedInv'
<1> SUFFICES ASSUME AcceptedInv, NextItem PROVE AcceptedInv'
  OBVIOUS
<1> DEFINE item == Head(acceptEncoding)
           all == ItemsIn(seen)
<1>1. ParserInv' /\ ParserInv
  BY Zenon, NextItemInv DEF AcceptedInv
<1>2. /\ parsing = "encodings" /\ acceptEncoding # <<>>
      /\ quality' = IF item.token \in Codings
                    THEN [quality EXCEPT ![item.token] = QualityOf(item)] ELSE quality
      /\ acceptEncoding' = Tail(acceptEncoding)
  BY Zenon DEF NextItem
<1>3. /\ parsing' = parsing /\ seen' = seen /\ noneMatch' = noneMatch
      /\ modifiedSince' = modifiedSince
  BY SMT DEF NextItem
<1>4. ValidatorsAreKept'
  BY Zenon, <1>3 DEF AcceptedInv, ValidatorsAreKept, HeaderIsRead
<1>5. all \in Seq(Items)
  BY Zenon, <1>1, ItemsType DEF ParserInv, ParserTypeOK
<1>6. PICK k \in 0..Len(all) : /\ acceptEncoding = SubSeq(all, k + 1, Len(all))
                               /\ \A c \in Codings : quality[c] = Latest(all, k, c)
  BY Zenon, <1>2 DEF AcceptedInv, QualitiesAreRight, ItemsAreRead
<1>7. quality \in [Codings -> 0..1000 \cup {None}]
  BY Zenon, <1>1 DEF ParserInv, ParserTypeOK
<1> HIDE DEF all
<1>8. /\ k < Len(all) /\ k \in Nat /\ k + 1 \in 0..Len(all) /\ item = all[k + 1]
      /\ acceptEncoding' = SubSeq(all, (k + 1) + 1, Len(all))
      /\ all[k + 1] \in Items
  <2>1. k < Len(all) /\ k \in Nat
    BY <1>2, <1>5, <1>6
  <2> QED BY <1>2, <1>5, <1>6, <2>1
<1> HIDE DEF item
<1>9. \A c \in Codings : quality'[c] = Latest(all, k + 1, c)
  <2> SUFFICES ASSUME NEW c \in Codings PROVE quality'[c] = Latest(all, k + 1, c)
    OBVIOUS
  <2>1. Latest(all, k + 1, c) =
          IF item.token = c THEN ItemQuality(item) ELSE Latest(all, k, c)
    BY SMT, <1>5, <1>8, LatestStep
  <2>2. QualityOf(item) = ItemQuality(item)
    BY Zenon, <1>8, ItemQualityIs
  <2> QED BY Zenon, <1>2, <1>6, <1>7, <2>1, <2>2
<1>10. ItemsAreRead(ItemsIn(seen))'
  BY Zenon, <1>3, <1>8, <1>9 DEF ItemsAreRead, all
<1> QED BY Zenon, <1>1, <1>2, <1>3, <1>4, <1>10 DEF AcceptedInv, ItemsAreKept, QualitiesAreRight

LEMMA AcceptedAccept == AcceptedInv /\ Accept => AcceptedInv'
<1> SUFFICES ASSUME AcceptedInv, Accept PROVE AcceptedInv'
  OBVIOUS
<1> DEFINE all == ItemsIn(seen)
           n == Len(all)
<1>1. ParserInv' /\ ParserInv
  BY Zenon, AcceptInv DEF AcceptedInv
<1>2. /\ parsing = "encodings" /\ parsing' = "accepted" /\ acceptEncoding = <<>>
      /\ quality' = [c \in Codings |-> IF c = "*" THEN quality[c] ELSE WithDefault(c)]
  BY Zenon DEF Accept
<1>3. seen' = seen /\ noneMatch' = noneMatch /\ modifiedSince' = modifiedSince
  BY SMT DEF Accept
<1>4. ValidatorsAreKept'
  BY Zenon, <1>2, <1>3 DEF AcceptedInv, ValidatorsAreKept, HeaderIsRead
<1>5. PICK k \in 0..n : /\ acceptEncoding = SubSeq(all, k + 1, n)
                        /\ \A c \in Codings : quality[c] = Latest(all, k, c)
  BY Zenon, <1>2 DEF AcceptedInv, QualitiesAreRight, ItemsAreRead
<1>6. all \in Seq(Items)
  BY Zenon, <1>1, ItemsType DEF ParserInv, ParserTypeOK
<1>7. AllItems' = all
  BY Zenon, <1>3 DEF AllItems, ItemsIn, ItemsOn
<1> HIDE DEF all
<1>8. k = n /\ n \in 0..n
  <2>1. n \in Nat /\ k \in 0..n
    BY <1>6
  <2>2. ASSUME k < n PROVE FALSE
    <3>1. /\ k + 1 \in Int /\ n \in Int /\ \A i \in k+1..n : all[i] \in Items
      BY <1>6, <2>1
    <3> HIDE DEF n
    <3>2. Len(SubSeq(all, k + 1, n)) = IF k + 1 <= n THEN n - (k + 1) + 1 ELSE 0
      BY <3>1, SubSeqProperties
    <3>3. n - (k + 1) + 1 # 0 /\ k + 1 <= n
      BY <2>1, <2>2
    <3>4. Len(<<>>) = 0
      OBVIOUS
    <3> QED BY Zenon, <1>2, <1>5, <3>2, <3>3, <3>4
  <2> QED BY <2>1, <2>2
<1>9. \A c : ItemsFor(c)' = Naming(all, n, c)
  BY Zenon, <1>7 DEF ItemsFor, Naming
<1>10. \A c \in Codings : /\ quality[c] = Latest(all, n, c)
                          /\ Latest(all, n, c) # None <=> Naming(all, n, c) # {}
  BY Zenon, <1>5, <1>6, <1>8, LatestIs
<1>11. EncodingsAreRight'
  <2> SUFFICES ASSUME NEW c \in {"br", "gzip"}
               PROVE  quality'[c] = IF ItemsFor(c)' # {} THEN ItemQuality(all[Max(ItemsFor(c)')])
                                    ELSE IF ItemsFor("*")' # {}
                                    THEN ItemQuality(all[Max(ItemsFor("*")')])
                                    ELSE 0
    BY Zenon, <1>7 DEF EncodingsAreRight
  <2>1. c \in Codings /\ "*" \in Codings /\ c # "*"
    BY Zenon DEF Codings
  <2>2. quality'[c] = WithDefault(c)
    BY Zenon, <1>2, <2>1
  <2> QED BY Zenon, <1>9, <1>10, <2>1, <2>2 DEF WithDefault, Latest
<1> QED BY Zenon, <1>1, <1>2, <1>4, <1>11 DEF AcceptedInv, ItemsAreKept, QualitiesAreRight

LEMMA AcceptedStutter == AcceptedInv /\ UNCHANGED parserVars => AcceptedInv'
<1> SUFFICES ASSUME AcceptedInv, UNCHANGED parserVars PROVE AcceptedInv'
  OBVIOUS
<1>1. /\ parsing' = parsing /\ seen' = seen /\ acceptEncoding' = acceptEncoding
      /\ quality' = quality /\ noneMatch' = noneMatch /\ modifiedSince' = modifiedSince
  BY SMT DEF parserVars
<1>2. ParserInv'
  BY Zenon, ParserStutter DEF AcceptedInv
<1>3. EncodingsAreRight => EncodingsAreRight'
  BY Zenon, <1>1 DEF EncodingsAreRight, ItemsFor, AllItems
<1>4. ItemsAreRead(ItemsIn(seen)) => ItemsAreRead(ItemsIn(seen))'
  BY Zenon, <1>1 DEF ItemsAreRead
<1> QED BY Zenon, <1>1, <1>2, <1>3, <1>4
     DEF AcceptedInv, ValidatorsAreKept, HeaderIsRead, ItemsAreKept, NothingSaid, QualitiesAreRight

LEMMA AcceptedStep == AcceptedInv /\ (ParserStep \/ UNCHANGED parserVars) => AcceptedInv'
<1> SUFFICES ASSUME AcceptedInv, ParserStep \/ UNCHANGED parserVars PROVE AcceptedInv'
  OBVIOUS
<1>1. CASE ReadRequestLine
  BY Zenon, <1>1, AcceptedRequestLine
<1>2. ASSUME NEW line \in HeaderLines(requestLine, seen) \cap Lines, ReadHeader(line)
      PROVE  AcceptedInv'
  <2>1. line \in Lines
    BY Zenon
  <2> QED BY Zenon, <1>2, <2>1, AcceptedHeader
<1>3. CASE EndHeaders
  BY Zenon, <1>3, AcceptedEndHeaders
<1>4. CASE NextItem
  BY Zenon, <1>4, AcceptedNextItem
<1>5. CASE Accept
  BY Zenon, <1>5, AcceptedAccept
<1>6. CASE UNCHANGED parserVars
  BY Zenon, <1>6, AcceptedStutter
<1> QED BY Zenon, <1>1, <1>2, <1>3, <1>4, <1>5, <1>6 DEF ParserStep

THEOREM AcceptedInvariant == RequestSpec => []AcceptedInv
<1>1. RequestInit => AcceptedInv
  BY Zenon, AcceptedInitInv DEF RequestInit
<1>2. AcceptedInv /\ [RequestNext]_requestVars => AcceptedInv'
  <2>1. UNCHANGED requestVars => UNCHANGED parserVars
    BY Zenon DEF requestVars
  <2> QED BY Zenon, <2>1, ParserMoves, AcceptedStep
<1> QED BY <1>1, <1>2, PTL DEF RequestSpec

\* What an accepted request says of encodings and validators is what its header says.
THEOREM AcceptedRequestsAreRight == RequestSpec => []AcceptedIsRight
<1>1. AcceptedInv => AcceptedIsRight
  <2> SUFFICES ASSUME AcceptedInv PROVE AcceptedIsRight
    OBVIOUS
  <2>1. \A name : Named(name) = NamedIn(seen, name)
    BY Zenon DEF Named, NamedIn
  <2>2. ValidatorsAreTheLast
    BY Zenon, <2>1 DEF AcceptedInv, ValidatorsAreKept, HeaderIsRead, ValidatorsAreTheLast
  <2>3. EncodingsAreRight
    <3>1. parsing = "accepted" => EncodingsAreRight
      BY Zenon DEF AcceptedInv, QualitiesAreRight
    <3> QED BY Zenon, <3>1 DEF EncodingsAreRight
  <2> QED BY Zenon, <2>2, <2>3 DEF AcceptedIsRight
<1> QED BY <1>1, AcceptedInvariant, PTL

-----------------------------------------------------------------------------
(* What comes before a byte. *)

Begins(p, s) == Len(p) <= Len(s) /\ \A i \in 1..Len(p) : p[i] = s[i]

LEMMA BeforeIs ==
  ASSUME NEW E, NEW s \in Seq(E), NEW byte
  PROVE  /\ Before(s, byte) \in Seq(E)
         /\ Begins(Before(s, byte), s)
         /\ \A i \in 1..Len(Before(s, byte)) : s[i] # byte
         /\ \/ Before(s, byte) = s
            \/ Len(Before(s, byte)) < Len(s) /\ s[Len(Before(s, byte)) + 1] = byte
<1> DEFINE places == Positions(s, byte)
           p == Before(s, byte)
<1>1. places \subseteq 1..Len(s) /\ Len(s) \in Nat
  BY DEF Positions
<1>2. CASE places = {}
  <2>1. p = s
    BY Zenon, <1>2 DEF Before
  <2>2. \A i \in 1..Len(s) : s[i] # byte
    BY Zenon, <1>2 DEF Positions
  <2> QED BY <2>1, <2>2 DEF Begins
<1>3. CASE places # {}
  <2> DEFINE m == Min(places)
  <2>1. m \in places /\ \A x \in places : m <= x
    <3>1. places \subseteq Nat
      BY <1>1
    <3> HIDE DEF places
    <3> QED BY <1>3, <3>1, MinOf
  <2>2. p = SubSeq(s, 1, m - 1)
    BY Zenon, <1>3 DEF Before
  <2>3. m \in 1..Len(s) /\ s[m] = byte
    BY <1>1, <2>1 DEF Positions
  <2>4. \A i \in 1..m-1 : s[i] # byte
    <3> SUFFICES ASSUME NEW i \in 1..m-1, s[i] = byte PROVE FALSE
      OBVIOUS
    <3> HIDE DEF m
    <3>1. i \in places
      BY <2>3 DEF Positions
    <3> QED BY <2>1, <2>3, <3>1
  <2> HIDE DEF m, p
  <2>5. m - 1 \in 0..Len(s)
    BY <2>3
  <2>6. /\ p \in Seq(E) /\ Len(p) = m - 1 /\ \A i \in 1..m-1 : p[i] = s[i]
    BY Zenon, <2>2, <2>5, PrefixElements
  <2> QED BY <2>3, <2>4, <2>6 DEF Begins, p
<1> QED BY <1>2, <1>3

\* What comes before a symbol, and what comes after it, is what a split begins
\* with and goes on with.
After(s, symbol) == SubSeq(s, Len(Before(s, symbol)) + 2, Len(s))

LEMMA AfterIs ==
  ASSUME NEW E, NEW s \in Seq(E), NEW symbol
  PROVE  /\ After(s, symbol) \in Seq(E)
         /\ Len(After(s, symbol)) <= Len(s)
         /\ Before(s, symbol) = s => After(s, symbol) = <<>>
         /\ Before(s, symbol) # s =>
              /\ Len(s) = Len(Before(s, symbol)) + 1 + Len(After(s, symbol))
              /\ s = Append(Before(s, symbol), symbol) \o After(s, symbol)
         /\ \A i \in 1..Len(After(s, symbol)) :
              After(s, symbol)[i] = s[Len(s) - Len(After(s, symbol)) + i]
<1> DEFINE p == Before(s, symbol)
           t == After(s, symbol)
           m == Len(p)
           n == Len(s)
<1>1. /\ p \in Seq(E) /\ m \in Nat /\ n \in Nat /\ m <= n /\ \A i \in 1..m : p[i] = s[i]
      /\ p = s \/ (m < n /\ s[m + 1] = symbol)
  BY SMT, BeforeIs DEF Begins
<1> HIDE DEF p
<1>2. /\ t \in Seq(E)
      /\ Len(t) = IF m + 2 <= n THEN n - (m + 2) + 1 ELSE 0
      /\ \A i \in 1..n-(m+2)+1 : t[i] = s[m + 2 + i - 1]
  <2>1. m + 2 \in Int /\ n \in Int /\ \A i \in m+2..n : s[i] \in E
    BY <1>1
  <2>2. t = SubSeq(s, m + 2, n)
    BY Zenon DEF After, p
  <2> DEFINE from == m + 2
  <2>3. from \in Int /\ n \in Int /\ \A i \in from..n : s[i] \in E
    BY <2>1
  <2> HIDE DEF t, n, from
  <2>4. /\ SubSeq(s, from, n) \in Seq(E)
        /\ Len(SubSeq(s, from, n)) = IF from <= n THEN n - from + 1 ELSE 0
        /\ \A i \in 1..n-from+1 : SubSeq(s, from, n)[i] = s[from + i - 1]
    BY <2>3, SubSeqProperties
  <2> QED BY Zenon, <2>2, <2>4 DEF from
<1> HIDE DEF t
<1>3. CASE p = s
  <2>1. Len(t) = 0 /\ t = <<>>
    BY <1>1, <1>2, <1>3
  <2> QED BY <1>1, <1>2, <1>3, <2>1 DEF p, t
<1>4. CASE p # s
  <2>1. /\ m < n /\ s[m + 1] = symbol /\ Len(t) = n - m - 1
        /\ \A i \in 1..n-m-1 : t[i] = s[m + 1 + i]
    <3>1. m < n /\ s[m + 1] = symbol
      BY <1>1, <1>4
    <3>2. Len(t) = n - m - 1
      BY <1>1, <1>2, <3>1
    <3>3. \A i \in 1..n-m-1 : i \in 1..n-(m+2)+1 /\ m + 2 + i - 1 = m + 1 + i
      BY <1>1
    <3> QED BY <1>2, <3>1, <3>2, <3>3
  <2> DEFINE head == Append(p, symbol)
             whole == head \o t
  <2>2. /\ symbol \in E
        /\ head \in Seq(E) /\ Len(head) = m + 1
        /\ \A i \in 1..m+1 : head[i] = IF i = m + 1 THEN symbol ELSE p[i]
    <3>1. symbol \in E
      BY <1>1, <2>1
    <3> QED BY <1>1, <3>1, AppendProperties
  <2> HIDE DEF head
  <2>3. /\ whole \in Seq(E) /\ Len(whole) = Len(head) + Len(t)
        /\ \A i \in 1..Len(head)+Len(t) :
             whole[i] = IF i <= Len(head) THEN head[i] ELSE t[i - Len(head)]
    BY <1>2, <2>2, ConcatProperties
  <2> HIDE DEF whole, m
  <2>4. Len(whole) = n
    BY <1>1, <2>1, <2>2, <2>3
  <2>5. \A i \in 1..n : whole[i] = s[i]
    <3> SUFFICES ASSUME NEW i \in 1..n PROVE whole[i] = s[i]
      OBVIOUS
    <3>1. i \in 1..Len(head)+Len(t)
      BY <2>3, <2>4
    <3>2. CASE i <= m + 1
      <4>1. whole[i] = head[i] /\ i \in 1..m+1
        BY <1>1, <2>2, <2>3, <3>1, <3>2
      <4> QED BY <1>1, <2>1, <2>2, <4>1
    <3>3. CASE i > m + 1
      <4>1. whole[i] = t[i - (m + 1)] /\ i - (m + 1) \in 1..n-m-1
        BY <1>1, <2>1, <2>2, <2>3, <3>1, <3>3
      <4>2. m + 1 + (i - (m + 1)) = i
        BY <1>1
      <4> QED BY <2>1, <4>1, <4>2
    <3> QED BY <1>1, <3>2, <3>3
  <2>6. whole = s
    BY <2>3, <2>4, <2>5, SeqEqual
  <2>7. n = m + 1 + Len(t) /\ Len(t) <= n
    BY <1>1, <2>1
  <2>8. \A i \in 1..Len(t) : t[i] = s[n - Len(t) + i]
    BY <1>1, <2>1
  <2> QED BY <1>2, <1>4, <2>6, <2>7, <2>8 DEF p, t, m, whole, head
<1> QED BY <1>3, <1>4

LEMMA BeforeSplit ==
  ASSUME NEW E, NEW symbol \in E, NEW s \in Seq(E)
  PROVE  /\ Before(s, symbol) = s => Split(s, symbol) = <<s>>
         /\ Before(s, symbol) # s =>
              Split(s, symbol) = <<Before(s, symbol)>> \o Split(After(s, symbol), symbol)
<1> DEFINE p == Before(s, symbol)
           t == After(s, symbol)
<1>1. p \in Seq(E) /\ Begins(p, s) /\ \A i \in 1..Len(p) : s[i] # symbol
  BY SMT, BeforeIs
<1>2. t \in Seq(E) /\ (p # s => s = Append(p, symbol) \o t)
  BY SMT, AfterIs
<1> HIDE DEF p, t
<1>3. Split(p, symbol) = <<p>>
  <2>1. \A i \in 1..Len(p) : p[i] # symbol
    BY <1>1 DEF Begins
  <2> QED BY <1>1, <2>1, SplitNone
<1>4. CASE p = s
  BY Zenon, <1>3, <1>4 DEF p
<1>5. CASE p # s
  <2>1. Split(Append(p, symbol) \o t, symbol) = Split(p, symbol) \o Split(t, symbol)
    BY <1>1, <1>2, SplitJoin
  <2> QED BY Zenon, <1>2, <1>3, <1>5, <2>1 DEF p, t
<1> QED BY Zenon, <1>4, <1>5 DEF p

-----------------------------------------------------------------------------
(* Numbering the elements of a set in order. *)

Rank(U, i) == Cardinality({j \in U : j <= i})

\* d lists what at says of the elements of U below c.
Enumerates(U, c, d, at) ==
  /\ Len(d) = Cardinality({i \in U : i < c})
  /\ \A i \in U : i < c => d[Rank(U, i)] = at[i]
  /\ \A k \in 1..Len(d) : \E i \in U : i < c /\ Rank(U, i) = k

LEMMA RankIs ==
  ASSUME NEW n \in Nat, NEW U \in SUBSET (1..n), NEW c \in Nat
  PROVE  /\ IsFiniteSet({i \in U : i < c}) /\ Cardinality({i \in U : i < c}) \in Nat
         /\ \A i \in U : i < c => Rank(U, i) \in 1..Cardinality({j \in U : j < c})
<1> DEFINE B == {i \in U : i < c}
<1>1. IsFiniteSet(1..n)
  BY FS_Interval
<1>2. IsFiniteSet(B) /\ Cardinality(B) \in Nat
  <2>1. B \subseteq 1..n
    OBVIOUS
  <2> HIDE DEF B
  <2> QED BY <1>1, <2>1, FS_Subset, FS_CardinalityType
<1>3. ASSUME NEW i \in U, i < c PROVE Rank(U, i) \in 1..Cardinality(B)
  <2> DEFINE L == {j \in U : j <= i}
  <2>0. \A j \in U : j <= i => j < c
    <3>1. i \in 1..n /\ \A j \in U : j \in 1..n
      OBVIOUS
    <3> QED BY <1>3, <3>1
  <2>1. L \subseteq B /\ i \in L
    <3>1. i <= i
      OBVIOUS
    <3> QED BY Zenon, <2>0, <3>1
  <2> HIDE DEF B, L
  <2>2. IsFiniteSet(L) /\ Cardinality(L) <= Cardinality(B) /\ Cardinality(L) \in Nat
    BY <1>2, <2>1, FS_Subset, FS_CardinalityType
  <2>3. Cardinality(L) # 0
    BY <2>1, <2>2, FS_EmptySet
  <2>4. Cardinality(L) \in 1..Cardinality(B)
    BY <1>2, <2>2, <2>3
  <2> QED BY Zenon, <2>4 DEF L, Rank
<1> QED BY Zenon, <1>2, <1>3

LEMMA EnumerateNone ==
  ASSUME NEW n \in Nat, NEW U \in SUBSET (1..n), NEW at
  PROVE  Enumerates(U, 1, <<>>, at)
<1>1. \A i \in U : ~(i < 1)
  OBVIOUS
<1>2. {i \in U : i < 1} = {}
  BY Zenon, <1>1
<1>3. Cardinality({i \in U : i < 1}) = 0
  BY Zenon, <1>2, FS_EmptySet
<1>4. Len(<<>>) = 0 /\ \A k \in 1..Len(<<>>) : FALSE
  OBVIOUS
<1> QED BY Zenon, <1>1, <1>3, <1>4 DEF Enumerates

LEMMA EnumerateNext ==
  ASSUME NEW n \in Nat, NEW U \in SUBSET (1..n), NEW c \in U, NEW next \in Nat, c < next,
         \A i \in U : c < i => next <= i,
         NEW E, NEW d \in Seq(E), NEW x \in E, NEW at, at[c] = x,
         Enumerates(U, c, d, at)
  PROVE  Enumerates(U, next, Append(d, x), at)
<1> DEFINE B == {i \in U : i < c}
           more == Append(d, x)
<1>1. /\ more \in Seq(E) /\ Len(more) = Len(d) + 1 /\ Len(d) \in Nat
      /\ more[Len(d) + 1] = x /\ \A k \in 1..Len(d) : more[k] = d[k]
  BY AppendProperties
<1>2. c \in 1..n /\ c \in Nat
  OBVIOUS
<1>3. /\ IsFiniteSet(B) /\ Cardinality(B) = Len(d)
      /\ \A i \in U : i < c => Rank(U, i) \in 1..Len(d)
  BY <1>2, RankIs DEF Enumerates
<1>4. {i \in U : i < next} = B \cup {c} /\ {i \in U : i <= c} = B \cup {c} /\ c \notin B
  <2>1. \A i \in U : i \in 1..n
    OBVIOUS
  <2>2. \A i \in U : i < next <=> i < c \/ i = c
    BY <1>2, <2>1
  <2>3. \A i \in U : i <= c <=> i < c \/ i = c
    BY <1>2, <2>1
  <2>4. ~(c < c)
    BY <1>2
  <2> QED BY Zenon, <2>2, <2>3, <2>4
<1>5. Cardinality(B \cup {c}) = Len(d) + 1
  <2> HIDE DEF B
  <2> QED BY <1>3, <1>4, FS_AddElement
<1>6. Rank(U, c) = Len(d) + 1
  BY Zenon, <1>4, <1>5 DEF Rank
<1> HIDE DEF more, B
<1>7. Len(more) = Cardinality({i \in U : i < next})
  BY Zenon, <1>1, <1>4, <1>5
<1>8. ASSUME NEW i \in U, i < next PROVE more[Rank(U, i)] = at[i]
  <2>1. i \in B \/ i = c
    BY Zenon, <1>4, <1>8
  <2>2. CASE i = c
    BY Zenon, <1>1, <1>6, <2>2
  <2>3. CASE i \in B
    <3>1. i < c
      BY Zenon, <2>3 DEF B
    <3> QED BY Zenon, <1>1, <1>3, <3>1 DEF Enumerates
  <2> QED BY Zenon, <2>1, <2>2, <2>3
<1>9. ASSUME NEW k \in 1..Len(more) PROVE \E i \in U : i < next /\ Rank(U, i) = k
  <2>1. CASE k = Len(d) + 1
    BY Zenon, <1>6, <2>1
  <2>2. CASE k # Len(d) + 1
    <3>1. k \in 1..Len(d)
      BY <1>1, <2>2
    <3>2. PICK i \in U : i < c /\ Rank(U, i) = k
      BY Zenon, <3>1 DEF Enumerates
    <3>3. i < next
      BY <1>2, <3>2
    <3> QED BY Zenon, <3>2, <3>3
  <2> QED BY Zenon, <2>1, <2>2
<1> QED BY Zenon, <1>7, <1>8, <1>9 DEF Enumerates, more

\* Ascending makes the list of the whole set.
IsListed(U, d, at) ==
  /\ Len(Ascending(U)) = Len(d)
  /\ \A k \in 1..Len(d) : Ascending(U)[k] \in U /\ at[Ascending(U)[k]] = d[k]

LEMMA EnumerateAll ==
  ASSUME NEW n \in Nat, NEW U \in SUBSET (1..n), NEW c \in Nat, \A i \in U : i < c,
         NEW E, NEW d \in Seq(E), NEW at, Enumerates(U, c, d, at)
  PROVE  IsListed(U, d, at)
<1>1. {i \in U : i < c} = U
  OBVIOUS
<1>2. Cardinality(U) = Len(d) /\ Len(d) \in Nat
  BY Zenon, <1>1, LenProperties DEF Enumerates
<1> DEFINE Which(k) == CHOOSE i \in U : Cardinality({j \in U : j <= i}) = k
<1>3. Ascending(U) = [k \in 1..Len(d) |-> Which(k)]
  BY Zenon, <1>2 DEF Ascending
<1>4. ASSUME NEW k \in 1..Len(d) PROVE Which(k) \in U /\ at[Which(k)] = d[k]
  <2>1. \E i \in U : Cardinality({j \in U : j <= i}) = k
    BY Zenon DEF Enumerates, Rank
  <2>2. Which(k) \in U /\ Rank(U, Which(k)) = k
    BY Zenon, <2>1 DEF Rank
  <2> HIDE DEF Which
  <2> QED BY Zenon, <2>2 DEF Enumerates
<1> HIDE DEF Which
<1>5. Len(Ascending(U)) = Len(d)
  BY <1>2, <1>3
<1>6. \A k \in 1..Len(d) : Ascending(U)[k] = Which(k)
  BY <1>3
<1> QED BY Zenon, <1>4, <1>5, <1>6 DEF IsListed

-----------------------------------------------------------------------------
(* The target, decoded.  What a cursor has passed is read as the target is read *)
(* without one.                                                                  *)

Bytes == STRING \cup {"/"} \cup {ByteOf[d] : d \in HexDigits \X HexDigits}

Units == {i \in 1..Len(target) : Unit(i)}

Meanings == [i \in 1..Len(target) |-> ByteAt(i)]

\* d is what the path says before c.
ReadTo(c, d) ==
  /\ Len(d) < c
  /\ \A i \in 1..c-1 : Path[i] = "%" =>
       i + 3 <= c /\ Path[i + 1] \in HexDigits /\ Path[i + 2] \in HexDigits
  /\ Enumerates(Units, c, d, Meanings)
  /\ c > 1 => d # <<>> /\ (Path[c - 1] = "/" => Last(d) = "/")

LEMMA PathIs ==
  ASSUME target \in Seq(Bytes)
  PROVE  /\ Path \in Seq(Bytes)
         /\ Begins(Path, target)
         /\ \A i : InPath(i) <=> i \in 1..Len(Path)
<1> DEFINE E == Bytes
           t == target
           p == Path
<1> HIDE DEF E
<1>1. /\ p \in Seq(E) /\ Begins(p, t)
      /\ \A i \in 1..Len(p) : t[i] # "?"
      /\ p = t \/ (Len(p) < Len(t) /\ t[Len(p) + 1] = "?")
  <2>1. t \in Seq(E)
    BY Zenon DEF E
  <2>2. p = Before(t, "?")
    BY Zenon DEF Path
  <2> QED BY Zenon, <2>1, <2>2, BeforeIs
<1>2. Len(p) \in Nat /\ Len(t) \in Nat
  BY <1>1, LenProperties DEF E
<1> HIDE DEF p, t
<1>3. ASSUME NEW i, i \in 1..Len(t), \A j \in 1..i : t[j] # "?" PROVE i \in 1..Len(p)
  <2>1. CASE p = t
    BY <1>3, <2>1
  <2>2. CASE Len(p) < Len(t) /\ t[Len(p) + 1] = "?"
    <3>1. Len(p) + 1 \notin 1..i
      BY Zenon, <1>3, <2>2
    <3> QED BY <1>2, <1>3, <3>1
  <2> QED BY Zenon, <1>1, <2>1, <2>2
<1>4. ASSUME NEW i, i \in 1..Len(p) PROVE i \in 1..Len(t) /\ \A j \in 1..i : t[j] # "?"
  <2>1. Len(p) <= Len(t)
    BY <1>1 DEF Begins
  <2>2. i \in 1..Len(t) /\ \A j \in 1..i : j \in 1..Len(p)
    BY <1>2, <1>4, <2>1
  <2> QED BY Zenon, <1>1, <2>2
<1> QED BY Zenon, <1>1, <1>3, <1>4 DEF InPath, E, t, p

LEMMA UnitIs ==
  ASSUME target \in Seq(Bytes), NEW i
  PROVE  /\ Unit(i) <=> /\ i \in 1..Len(Path)
                        /\ i > 1 => Path[i - 1] # "%"
                        /\ i > 2 => Path[i - 2] # "%"
         /\ Unit(i) => i \in 1..Len(target)
<1> DEFINE p == Path
<1>1. /\ Len(p) \in Nat /\ Len(target) \in Nat /\ Len(p) <= Len(target)
      /\ \A j \in 1..Len(p) : p[j] = target[j]
      /\ InPath(i) <=> i \in 1..Len(p)
  <2>1. p \in Seq(Bytes) /\ Begins(p, target) /\ (InPath(i) <=> i \in 1..Len(p))
    BY Zenon, PathIs
  <2>2. Len(p) \in Nat /\ Len(target) \in Nat
    BY Zenon, <2>1, LenProperties
  <2> QED BY Zenon, <2>1, <2>2 DEF Begins
<1> HIDE DEF p
<1>2. CASE i \notin 1..Len(p)
  BY Zenon, <1>1, <1>2 DEF Unit, p
<1>3. CASE i \in 1..Len(p)
  <2>1. /\ i - 1 \in 1..Len(target) <=> i > 1
        /\ i - 2 \in 1..Len(target) <=> i > 2
        /\ i \in 1..Len(target)
    BY <1>1, <1>3
  <2>2. /\ i > 1 => p[i - 1] = target[i - 1]
        /\ i > 2 => p[i - 2] = target[i - 2]
    BY <1>1, <1>3
  <2> QED BY Zenon, <1>1, <1>3, <2>1, <2>2 DEF Unit, p
<1> QED BY Zenon, <1>2, <1>3

LEMMA UnitsAre ==
  ASSUME target \in Seq(Bytes)
  PROVE  /\ Len(target) \in Nat
         /\ Units \in SUBSET (1..Len(target))
         /\ \A i : i \in Units <=> /\ i \in 1..Len(Path)
                                   /\ i > 1 => Path[i - 1] # "%"
                                   /\ i > 2 => Path[i - 2] # "%"
<1>1. Len(target) \in Nat
  BY Zenon, LenProperties
<1>2. Units \in SUBSET (1..Len(target))
  BY Zenon DEF Units
<1>3. \A i : i \in Units <=> Unit(i)
  BY Zenon, UnitIs DEF Units
<1> QED BY Zenon, <1>1, <1>2, <1>3, UnitIs

\* Before the first byte nothing has been read.
LEMMA ReadNothing ==
  /\ target \in Seq(Bytes) => ReadTo(1, <<>>)
  /\ target' \in Seq(Bytes) => ReadTo(1, <<>>)'
<1>1. Len(<<>>) < 1 /\ ~(1 > 1) /\ \A i \in 1..1-1 : FALSE
  OBVIOUS
<1>2. ASSUME target \in Seq(Bytes) PROVE Enumerates(Units, 1, <<>>, Meanings)
  <2>1. Len(target) \in Nat /\ Units \in SUBSET (1..Len(target))
    BY Zenon, <1>2, UnitsAre
  <2> QED BY <2>1, EnumerateNone
<1>3. ASSUME target' \in Seq(Bytes) PROVE Enumerates(Units', 1, <<>>, Meanings')
  <2>1. Len(target') \in Nat
    BY Zenon, <1>3, LenProperties
  <2>2. Units' \in SUBSET (1..Len(target'))
    BY Zenon DEF Units
  <2> QED BY <2>1, <2>2, EnumerateNone
<1> QED BY Zenon, <1>1, <1>2, <1>3 DEF ReadTo

LEMMA ReadPlain ==
  ASSUME target \in Seq(Bytes), NEW c \in 1..Len(Path), Path[c] # "%",
         NEW d \in Seq(Bytes), ReadTo(c, d)
  PROVE  Append(d, Path[c]) \in Seq(Bytes) /\ ReadTo(c + 1, Append(d, Path[c]))
<1> DEFINE p == Path
           x == Path[c]
           more == Append(d, x)
           U == Units
           E == Bytes
           at == Meanings
           next == c + 1
<1> HIDE DEF E
<1>1. /\ p \in Seq(E) /\ Len(p) \in Nat /\ Len(p) <= Len(target)
      /\ \A i \in 1..Len(p) : p[i] = target[i]
  BY SMT, PathIs DEF Begins, E
<1> HIDE DEF p
<1>2. c \in 1..Len(p) /\ c \in Nat /\ next \in Nat /\ c < next /\ next > 1 /\ next - 1 = c
  <2>1. c \in 1..Len(p)
    BY Zenon DEF p
  <2> QED BY <1>1, <2>1
<1>3. /\ Len(target) \in Nat /\ U \in SUBSET (1..Len(target))
      /\ \A i : i \in U <=> i \in 1..Len(p) /\ (i > 1 => p[i - 1] # "%") /\ (i > 2 => p[i - 2] # "%")
  BY Zenon, UnitsAre DEF p
<1>4. /\ Len(d) < c
      /\ \A i \in 1..c-1 : p[i] = "%" =>
           i + 3 <= c /\ p[i + 1] \in HexDigits /\ p[i + 2] \in HexDigits
      /\ Enumerates(U, c, d, at)
  BY Zenon DEF ReadTo, p
<1>5. x = p[c] /\ p[c] # "%"
  BY Zenon DEF p
<1>6. x \in E /\ d \in Seq(E)
  BY Zenon, <1>1, <1>2, <1>5, ElementOfSeq DEF E
<1> HIDE DEF x
<1>7. /\ more \in Seq(E) /\ Len(more) = Len(d) + 1 /\ Len(d) \in Nat /\ more[Len(d) + 1] = x
  BY <1>6, AppendProperties
<1>8. c \in U
  <2>1. c > 1 => p[c - 1] # "%"
    BY <1>2, <1>4
  <2>2. c > 2 => p[c - 2] # "%"
    BY <1>2, <1>4
  <2> QED BY Zenon, <1>2, <1>3, <2>1, <2>2
<1>9. \A i \in U : c < i => next <= i
  BY <1>2, <1>3
<1>10. at[c] = x
  <2>1. c \in 1..Len(target)
    BY <1>3, <1>8
  <2>2. at[c] = ByteAt(c)
    BY Zenon, <2>1 DEF Meanings
  <2>3. target[c] = x
    BY Zenon, <1>1, <1>2, <1>5
  <2> QED BY Zenon, <1>5, <2>2, <2>3 DEF ByteAt
<1> HIDE DEF U, at, next
<1>11. Enumerates(U, next, more, at)
  BY Zenon, <1>2, <1>3, <1>4, <1>6, <1>8, <1>9, <1>10, EnumerateNext
<1>12. Len(more) < next /\ more # <<>> /\ Last(more) = x
  BY <1>2, <1>4, <1>7 DEF next, Last
<1>13. \A i \in 1..next-1 : p[i] = "%" =>
         i + 3 <= next /\ p[i + 1] \in HexDigits /\ p[i + 2] \in HexDigits
  <2> SUFFICES ASSUME NEW i \in 1..next-1, p[i] = "%"
               PROVE  i + 3 <= next /\ p[i + 1] \in HexDigits /\ p[i + 2] \in HexDigits
    OBVIOUS
  <2>1. i \in 1..c-1
    BY <1>2, <1>5 DEF next
  <2>2. i + 3 <= c /\ p[i + 1] \in HexDigits /\ p[i + 2] \in HexDigits
    BY Zenon, <1>4, <2>1
  <2> QED BY <1>2, <2>1, <2>2 DEF next
<1> HIDE DEF more
<1>14. ReadTo(next, more)
  BY Zenon, <1>2, <1>5, <1>11, <1>12, <1>13 DEF ReadTo, p, U, at
<1> QED BY Zenon, <1>7, <1>14 DEF next, more, x, E

LEMMA ReadEscape ==
  ASSUME target \in Seq(Bytes), NEW c \in 1..Len(Path), Path[c] = "%", c + 2 <= Len(Path),
         Path[c + 1] \in HexDigits, Path[c + 2] \in HexDigits,
         NEW d \in Seq(Bytes), ReadTo(c, d)
  PROVE  /\ Append(d, ByteOf[Path[c + 1], Path[c + 2]]) \in Seq(Bytes)
         /\ ReadTo(c + 3, Append(d, ByteOf[Path[c + 1], Path[c + 2]]))
<1> DEFINE p == Path
           x == ByteOf[Path[c + 1], Path[c + 2]]
           more == Append(d, x)
           U == Units
           E == Bytes
           at == Meanings
           next == c + 3
<1>0. x \in E
  BY Zenon DEF Bytes
<1> HIDE DEF E
<1>1. /\ p \in Seq(E) /\ Len(p) \in Nat /\ Len(p) <= Len(target)
      /\ \A i \in 1..Len(p) : p[i] = target[i]
  BY SMT, PathIs DEF Begins, E
<1>5. p[c] = "%" /\ p[c + 1] \in HexDigits /\ p[c + 2] \in HexDigits /\ c + 2 <= Len(p)
  BY Zenon
<1>51. "%" \notin HexDigits /\ "/" \notin HexDigits
  BY Zenon, DecoderAssumption
<1> HIDE DEF p
<1>2. /\ c \in 1..Len(p) /\ c + 1 \in 1..Len(p) /\ c + 2 \in 1..Len(p)
      /\ c \in Nat /\ next \in Nat /\ c < next /\ next > 1 /\ next - 1 = c + 2
  <2>1. c \in 1..Len(p)
    BY Zenon DEF p
  <2> QED BY <1>1, <1>5, <2>1
<1>3. /\ Len(target) \in Nat /\ U \in SUBSET (1..Len(target))
      /\ \A i : i \in U <=> i \in 1..Len(p) /\ (i > 1 => p[i - 1] # "%") /\ (i > 2 => p[i - 2] # "%")
  BY Zenon, UnitsAre DEF p
<1>4. /\ Len(d) < c
      /\ \A i \in 1..c-1 : p[i] = "%" =>
           i + 3 <= c /\ p[i + 1] \in HexDigits /\ p[i + 2] \in HexDigits
      /\ Enumerates(U, c, d, at)
  BY Zenon DEF ReadTo, p
<1>6. d \in Seq(E)
  BY Zenon DEF E
<1>61. x = ByteOf[p[c + 1], p[c + 2]]
  BY Zenon DEF p
<1> HIDE DEF x
<1>7. /\ more \in Seq(E) /\ Len(more) = Len(d) + 1 /\ Len(d) \in Nat /\ more[Len(d) + 1] = x
  BY <1>0, <1>6, AppendProperties
<1>8. c \in U
  <2>1. c > 1 => p[c - 1] # "%"
    BY <1>2, <1>4
  <2>2. c > 2 => p[c - 2] # "%"
    BY <1>2, <1>4
  <2> QED BY Zenon, <1>2, <1>3, <2>1, <2>2
<1>9. \A i \in U : c < i => next <= i
  <2> SUFFICES ASSUME NEW i \in U, c < i, i < next PROVE FALSE
    BY <1>2, <1>3
  <2>1. i = c + 1 \/ i = c + 2
    BY <1>2, <1>3
  <2>2. CASE i = c + 1
    <3>1. i > 1 /\ i - 1 = c
      BY <1>2, <2>2
    <3> QED BY Zenon, <1>3, <1>5, <3>1
  <2>3. CASE i = c + 2
    <3>1. i > 2 /\ i - 2 = c
      BY <1>2, <2>3
    <3> QED BY Zenon, <1>3, <1>5, <3>1
  <2> QED BY Zenon, <2>1, <2>2, <2>3
<1>10. at[c] = x
  <2>1. c \in 1..Len(target)
    BY <1>3, <1>8
  <2>2. at[c] = ByteAt(c)
    BY Zenon, <2>1 DEF Meanings
  <2>3. target[c] = "%" /\ target[c + 1] = p[c + 1] /\ target[c + 2] = p[c + 2]
    BY Zenon, <1>1, <1>2, <1>5
  <2> QED BY Zenon, <1>61, <2>2, <2>3 DEF ByteAt
<1> HIDE DEF U, at, next
<1>11. Enumerates(U, next, more, at)
  BY Zenon, <1>0, <1>2, <1>3, <1>4, <1>6, <1>8, <1>9, <1>10, EnumerateNext
<1>12. Len(more) < next /\ more # <<>> /\ Last(more) = x
  BY <1>2, <1>4, <1>7 DEF next, Last
<1>13. \A i \in 1..next-1 : p[i] = "%" =>
         i + 3 <= next /\ p[i + 1] \in HexDigits /\ p[i + 2] \in HexDigits
  <2> SUFFICES ASSUME NEW i \in 1..next-1, p[i] = "%"
               PROVE  i + 3 <= next /\ p[i + 1] \in HexDigits /\ p[i + 2] \in HexDigits
    OBVIOUS
  <2>1. i \in 1..c-1 \/ i = c \/ i = c + 1 \/ i = c + 2
    BY <1>2 DEF next
  <2>2. i # c + 1 /\ i # c + 2
    BY Zenon, <1>5, <1>51
  <2>3. CASE i = c
    <3>1. c + 3 <= next
      BY <1>2 DEF next
    <3> QED BY Zenon, <1>5, <2>3, <3>1
  <2>4. CASE i \in 1..c-1
    <3>1. i + 3 <= c /\ p[i + 1] \in HexDigits /\ p[i + 2] \in HexDigits
      BY Zenon, <1>4, <2>4
    <3> QED BY <1>2, <2>4, <3>1 DEF next
  <2> QED BY Zenon, <2>1, <2>2, <2>3, <2>4
<1> HIDE DEF more
<1>14. ReadTo(next, more)
  <2>1. p[c + 2] # "/"
    BY Zenon, <1>5, <1>51
  <2> QED BY Zenon, <1>2, <1>11, <1>12, <1>13, <2>1 DEF ReadTo, p, U, at
<1> QED BY Zenon, <1>7, <1>14 DEF next, more, x, E

\* A path that has been read to its end is well escaped, and reads as what came of it.
LEMMA ReadAll ==
  ASSUME target \in Seq(Bytes), NEW d \in Seq(Bytes), ReadTo(Len(Path) + 1, d)
  PROVE  WellEscaped /\ Reading = d
<1> DEFINE p == Path
           U == Units
           E == Bytes
           at == Meanings
           c == Len(p) + 1
<1> HIDE DEF E
<1>1. /\ Len(p) \in Nat /\ c \in Nat
      /\ \A i \in 1..Len(p) : p[i] = target[i]
      /\ \A i : InPath(i) <=> i \in 1..Len(p)
  BY SMT, PathIs DEF Begins, E
<1> HIDE DEF p
<1>2. /\ Len(target) \in Nat /\ U \in SUBSET (1..Len(target))
      /\ \A i \in U : i \in 1..Len(p)
  BY Zenon, UnitsAre DEF p
<1>3. /\ \A i \in 1..c-1 : p[i] = "%" =>
           i + 3 <= c /\ p[i + 1] \in HexDigits /\ p[i + 2] \in HexDigits
      /\ Enumerates(U, c, d, at)
  BY Zenon DEF ReadTo, p
<1>4. WellEscaped
  <2> SUFFICES ASSUME NEW i \in Positions(target, "%"), InPath(i)
               PROVE  \A j \in {i + 1, i + 2} : InPath(j) /\ target[j] \in HexDigits
    BY Zenon DEF WellEscaped
  <2>1. i \in 1..Len(p) /\ p[i] = "%"
    <3>1. i \in 1..Len(p) /\ target[i] = "%"
      BY Zenon, <1>1 DEF Positions
    <3> QED BY Zenon, <1>1, <3>1
  <2>2. i \in 1..c-1
    BY <1>1, <2>1
  <2>3. i + 3 <= c /\ p[i + 1] \in HexDigits /\ p[i + 2] \in HexDigits
    BY Zenon, <1>3, <2>1, <2>2
  <2>4. i + 1 \in 1..Len(p) /\ i + 2 \in 1..Len(p)
    BY <1>1, <2>1, <2>3
  <2> QED BY Zenon, <1>1, <2>3, <2>4
<1>5. d \in Seq(E)
  BY Zenon DEF E
<1>6. \A i \in U : i < c
  BY <1>1, <1>2
<1> HIDE DEF c, at, U
<1>7. /\ Len(Ascending(U)) = Len(d)
      /\ \A k \in 1..Len(d) : Ascending(U)[k] \in U /\ at[Ascending(U)[k]] = d[k]
  <2>1. c \in Nat /\ Enumerates(U, c, d, at)
    BY Zenon, <1>1, <1>3
  <2>2. Len(target) \in Nat /\ U \in SUBSET (1..Len(target))
    BY Zenon, <1>2
  <2> DEFINE n == Len(target)
  <2>3. n \in Nat /\ U \in SUBSET (1..n)
    BY Zenon, <2>2
  <2> HIDE DEF n
  <2>4. IsListed(U, d, at)
    BY ONLY Zenon, <1>5, <1>6, <2>1, <2>3, EnumerateAll
  <2> QED BY Zenon, <2>4 DEF IsListed
<1> DEFINE read == [k \in 1..Len(Ascending(U)) |-> ByteAt(Ascending(U)[k])]
<1>8. Reading = read
  BY Zenon DEF Reading, U, Units
<1>9. \A k \in 1..Len(d) : ByteAt(Ascending(U)[k]) = d[k]
  <2>1. \A i \in U : at[i] = ByteAt(i)
    BY Zenon, <1>2 DEF at, Meanings
  <2> QED BY Zenon, <1>7, <2>1
<1>10. read = [k \in 1..Len(d) |-> d[k]]
  BY Zenon, <1>7, <1>9
<1>11. d = [k \in 1..Len(d) |-> d[k]]
  BY <1>5
<1> QED BY Zenon, <1>4, <1>8, <1>10, <1>11

\* A target is read as long as it stays.
LEMMA ReadKept ==
  ASSUME target' = target
  PROVE  /\ Path' = Path
         /\ ReadTo(cursor', decoded') => ReadTo(cursor, decoded)'
         /\ WellEscaped' <=> WellEscaped
         /\ IsAllowed' <=> IsAllowed
<1>1. Path' = Path
  BY Zenon DEF Path
<1>2. \A i : InPath(i)' <=> InPath(i)
  BY Zenon DEF InPath
<1>3. \A i : Unit(i)' <=> Unit(i)
  BY Zenon, <1>2 DEF Unit
<1>4. Units' = Units
  BY Zenon, <1>3 DEF Units
<1>5. \A i : ByteAt(i)' = ByteAt(i)
  BY Zenon DEF ByteAt
<1>6. Meanings' = Meanings
  BY Zenon, <1>5 DEF Meanings
<1>7. WellEscaped' <=> WellEscaped
  BY Zenon, <1>2 DEF WellEscaped
<1>8. Reading' = Reading
  <2> DEFINE units == Ascending(Units)
  <2>1. Reading = [k \in 1..Len(units) |-> ByteAt(units[k])]
    BY Zenon DEF Reading, Units
  <2>2. Reading' = [k \in 1..Len(units') |-> ByteAt(units[k])']
    BY Zenon DEF Reading, Units
  <2>3. units' = units
    BY Zenon, <1>4
  <2>4. \A k : ByteAt(units[k])' = ByteAt(units[k])
    BY Zenon, <2>3 DEF ByteAt
  <2> QED BY Zenon, <2>1, <2>2, <2>3, <2>4
<1> QED BY Zenon, <1>1, <1>4, <1>6, <1>7, <1>8 DEF ReadTo, IsAllowed

-----------------------------------------------------------------------------
(* The invariant of the decoder. *)

Ends(r, d) ==
  /\ Len(r) <= Len(d)
  /\ \A i \in 1..Len(r) : r[i] = d[Len(d) - Len(r) + i]

DecoderShape ==
  /\ decoding \in {"idle", "decode", "split", "accepted", "BadRequest"}
  /\ slash \in BOOLEAN
  /\ target \in Seq(Bytes)
  /\ cursor \in 1..Len(Path) + 1
  /\ decoded \in Seq(Bytes) /\ rest \in Seq(Bytes) /\ components \in Seq(Seq(Bytes))
  /\ Ends(rest, decoded)
  /\ Len(components) + Len(rest) <= Len(decoded)

PathIsRead ==
  /\ decoding = "idle" => cursor = 1 /\ decoded = <<>>
  /\ ReadTo(cursor, decoded)
  /\ decoding # "idle" => Path # <<>> /\ (slash => Last(Path) = "/")

NamesIn(s) == Without(Split(s, "/"), <<>>)

\* Every run of r is one of d.
RunsOf(r, d) == ToSet(Split(r, "/")) \subseteq ToSet(Split(d, "/")) \cup {<<>>}

SplitIsRight ==
  /\ decoding \in {"idle", "decode"} => rest = <<>> /\ components = <<>>
  /\ decoding \in {"split", "accepted"} =>
       /\ cursor = Len(Path) + 1
       /\ IsSafe
       /\ components \o NamesIn(rest) = NamesIn(decoded)
       /\ RunsOf(rest, decoded)
  /\ decoding = "accepted" => rest = <<>>

RefusalIsDeserved == decoding = "BadRequest" /\ WellEscaped => ~IsAllowed

DecoderInv ==
  /\ DecoderShape
  /\ PathIsRead
  /\ SplitIsRight
  /\ ComponentsAreNormal
  /\ RefusalIsDeserved

LEMMA DecoderInitInv == DecoderInit => DecoderInv
<1> SUFFICES ASSUME DecoderInit PROVE DecoderInv
  OBVIOUS
<1>1. /\ decoding = "idle" /\ target = <<>> /\ slash = FALSE /\ cursor = 1
      /\ decoded = <<>> /\ rest = <<>> /\ components = <<>>
  BY Zenon DEF DecoderInit
<1>2. /\ <<>> \in Seq(Bytes) /\ <<>> \in Seq(Seq(Bytes)) /\ Len(<<>>) = 0 /\ 0 + 0 <= 0
      /\ 1..0 = {} /\ ToSet(<<>>) = {}
  BY DEF ToSet
<1>3. 1 \in 1..Len(Path) + 1
  BY SMT, <1>1, <1>2, PathIs
<1>4. Ends(<<>>, <<>>)
  BY DEF Ends
<1>5. DecoderShape
  BY Zenon, <1>1, <1>2, <1>3, <1>4 DEF DecoderShape
<1>6. PathIsRead
  BY Zenon, <1>1, <1>2, ReadNothing DEF PathIsRead
<1>7. ComponentsAreNormal
  BY Zenon, <1>1, <1>2 DEF ComponentsAreNormal
<1> QED BY Zenon, <1>1, <1>5, <1>6, <1>7 DEF DecoderInv, SplitIsRight, RefusalIsDeserved

LEMMA StartInv ==
  ASSUME NEW bytes \in Seq(Bytes), bytes # <<>>, Head(bytes) = "/",
         DecoderInv, StartDecoding(bytes)
  PROVE  DecoderInv'
<1>1. /\ decoding = "idle" /\ decoding' = "decode" /\ target' = bytes
      /\ slash' = (Last(Before(bytes, "?")) = "/")
      /\ cursor' = cursor /\ decoded' = decoded /\ rest' = rest /\ components' = components
  BY SMT DEF StartDecoding
<1> DEFINE p == Before(bytes, "?")
<1>2. Path' = p
  BY Zenon, <1>1 DEF Path
<1>3. Len(p) \in Nat /\ p # <<>>
  <2>1. /\ p \in Seq(Bytes) /\ Begins(p, bytes)
        /\ p = bytes \/ (Len(p) < Len(bytes) /\ bytes[Len(p) + 1] = "?")
    BY Zenon, BeforeIs
  <2> HIDE DEF p
  <2>2. Len(p) \in Nat
    BY Zenon, <2>1, LenProperties
  <2>3. bytes[1] = "/"
    BY HeadTailProperties
  <2>4. ASSUME p = <<>> PROVE FALSE
    <3>1. Len(p) = 0 /\ 0 + 1 = 1
      BY <2>4
    <3>2. bytes[1] = "?"
      BY Zenon, <2>1, <2>4, <3>1
    <3> QED BY Zenon, <2>3, <3>2
  <2> QED BY <2>2, <2>4
<1>4. cursor = 1 /\ decoded = <<>> /\ rest = <<>> /\ components = <<>>
  BY Zenon, <1>1 DEF DecoderInv, PathIsRead, SplitIsRight
<1> HIDE DEF p
<1>5. 1 \in 1..Len(p) + 1
  BY <1>3
<1>6. DecoderShape'
  <2>1. slash' \in BOOLEAN
    BY Zenon, <1>1
  <2>2. Ends(rest, decoded)' /\ (Len(components) + Len(rest) <= Len(decoded))'
    BY Zenon, <1>1 DEF DecoderInv, DecoderShape, Ends
  <2> QED BY Zenon, <1>1, <1>2, <1>4, <1>5, <2>1, <2>2 DEF DecoderInv, DecoderShape
<1>7. PathIsRead'
  <2>1. ReadTo(cursor, decoded)'
    BY Zenon, <1>1, <1>4, ReadNothing DEF ReadTo
  <2> QED BY Zenon, <1>1, <1>2, <1>3, <2>1 DEF PathIsRead, p
<1>8. ComponentsAreNormal'
  BY Zenon, <1>1 DEF DecoderInv, ComponentsAreNormal
<1> QED BY Zenon, <1>1, <1>4, <1>6, <1>7, <1>8 DEF DecoderInv, SplitIsRight, RefusalIsDeserved

\* One more byte of the path has been read.
LEMMA DecodingInv ==
  ASSUME DecoderInv, decoding = "decode",
         decoding' = decoding, target' = target, slash' = slash, rest' = rest,
         components' = components,
         cursor' \in 1..Len(Path) + 1, decoded' \in Seq(Bytes), ReadTo(cursor', decoded')
  PROVE  DecoderInv'
<1>1. Path' = Path /\ ReadTo(cursor, decoded)'
  BY Zenon, ReadKept
<1>2. rest = <<>> /\ components = <<>>
  BY Zenon DEF DecoderInv, SplitIsRight
<1>3. DecoderShape'
  <2>1. Len(decoded') \in Nat
    BY Zenon, LenProperties
  <2>2. Ends(<<>>, decoded')
    BY <2>1 DEF Ends
  <2>3. Len(<<>>) + Len(<<>>) <= Len(decoded')
    BY <2>1
  <2>4. Ends(rest, decoded)' /\ (Len(components) + Len(rest) <= Len(decoded))'
    BY Zenon, <1>2, <2>2, <2>3 DEF Ends
  <2> QED BY Zenon, <1>1, <2>4 DEF DecoderInv, DecoderShape
<1>4. PathIsRead'
  BY Zenon, <1>1 DEF DecoderInv, PathIsRead
<1>5. SplitIsRight'
  BY Zenon, <1>2 DEF SplitIsRight
<1>6. ComponentsAreNormal'
  BY Zenon DEF DecoderInv, ComponentsAreNormal
<1> QED BY Zenon, <1>3, <1>4, <1>5, <1>6 DEF DecoderInv, RefusalIsDeserved

\* A target is refused for a reason.
LEMMA RefusingInv ==
  ASSUME DecoderInv, decoding # "idle", WellEscaped => ~IsAllowed, Refuse
  PROVE  DecoderInv'
<1>1. /\ decoding' = "BadRequest" /\ target' = target /\ slash' = slash /\ cursor' = cursor
      /\ decoded' = decoded /\ rest' = rest /\ components' = components
  BY SMT DEF Refuse
<1>2. /\ Path' = Path /\ (ReadTo(cursor', decoded') => ReadTo(cursor, decoded)')
      /\ (WellEscaped' <=> WellEscaped) /\ (IsAllowed' <=> IsAllowed)
  BY Zenon, <1>1, ReadKept
<1>3. DecoderShape'
  <2>1. Ends(rest, decoded)'
    BY Zenon, <1>1 DEF DecoderInv, DecoderShape, Ends
  <2> QED BY Zenon, <1>1, <1>2, <2>1 DEF DecoderInv, DecoderShape
<1>4. PathIsRead'
  BY Zenon, <1>1, <1>2 DEF DecoderInv, PathIsRead
<1>5. ComponentsAreNormal'
  BY Zenon, <1>1 DEF DecoderInv, ComponentsAreNormal
<1>6. SplitIsRight' /\ RefusalIsDeserved'
  BY Zenon, <1>1, <1>2 DEF SplitIsRight, RefusalIsDeserved
<1> QED BY Zenon, <1>3, <1>4, <1>5, <1>6 DEF DecoderInv

LEMMA DecodePlainInv == DecoderInv /\ DecodePlain => DecoderInv'
<1> SUFFICES ASSUME DecoderInv, DecodePlain PROVE DecoderInv'
  OBVIOUS
<1>1. /\ decoding = "decode" /\ cursor <= Len(Path) /\ Path[cursor] # "%"
      /\ decoded' = Append(decoded, Path[cursor]) /\ cursor' = cursor + 1
      /\ decoding' = decoding /\ target' = target /\ slash' = slash /\ rest' = rest
      /\ components' = components
  BY SMT DEF DecodePlain
<1>2. /\ target \in Seq(Bytes) /\ decoded \in Seq(Bytes) /\ ReadTo(cursor, decoded)
      /\ cursor \in 1..Len(Path) + 1
  BY Zenon DEF DecoderInv, DecoderShape, PathIsRead
<1> DEFINE n == Len(Path)
<1>3. n \in Nat
  BY Zenon, <1>2, PathIs, LenProperties
<1>4. cursor <= n /\ cursor \in 1..n+1
  BY Zenon, <1>1, <1>2
<1> HIDE DEF n
<1>5. cursor \in 1..n /\ cursor + 1 \in 1..n+1
  BY <1>3, <1>4
<1>6. decoded' \in Seq(Bytes) /\ ReadTo(cursor', decoded')
  BY Zenon, <1>1, <1>2, <1>5, ReadPlain DEF n
<1> QED BY Zenon, <1>1, <1>5, <1>6, DecodingInv DEF n

LEMMA DecodeEscapeInv == DecoderInv /\ DecodeEscape => DecoderInv'
<1> SUFFICES ASSUME DecoderInv, DecodeEscape PROVE DecoderInv'
  OBVIOUS
<1>1. decoding = "decode" /\ cursor <= Len(Path) /\ Path[cursor] = "%"
  BY Zenon DEF DecodeEscape
<1>2. /\ target \in Seq(Bytes) /\ decoded \in Seq(Bytes) /\ ReadTo(cursor, decoded)
      /\ cursor \in 1..Len(Path) + 1
  BY Zenon DEF DecoderInv, DecoderShape, PathIsRead
<1> DEFINE n == Len(Path)
<1>3. /\ n \in Nat /\ \A i \in 1..n : Path[i] = target[i]
      /\ \A i : InPath(i) <=> i \in 1..n
  BY SMT, <1>2, PathIs DEF Begins
<1>4. cursor <= n /\ cursor \in 1..n+1
  BY Zenon, <1>1, <1>2
<1> HIDE DEF n
<1>5. cursor \in 1..n
  BY <1>3, <1>4
<1>6. CASE IsEscape
  <2>1. /\ cursor + 2 <= n /\ Path[cursor + 1] \in HexDigits /\ Path[cursor + 2] \in HexDigits
    BY Zenon, <1>6 DEF IsEscape, n
  <2>2. /\ decoded' = Append(decoded, ByteOf[Path[cursor + 1], Path[cursor + 2]])
        /\ cursor' = cursor + 3
        /\ decoding' = decoding /\ target' = target /\ slash' = slash /\ rest' = rest
        /\ components' = components
    <3>1. /\ decoded' = Append(decoded, ByteOf[Path[cursor + 1], Path[cursor + 2]])
          /\ cursor' = cursor + 3
          /\ UNCHANGED <<decoding, target, slash, rest, components>>
      BY Zenon, <1>6 DEF DecodeEscape, Width
    <3>2. /\ decoding' = decoding /\ target' = target /\ slash' = slash /\ rest' = rest
          /\ components' = components
      BY ONLY <3>1
    <3> QED BY Zenon, <3>1, <3>2
  <2>3. cursor + 3 \in 1..n+1
    BY <1>3, <1>5, <2>1
  <2>4. decoded' \in Seq(Bytes) /\ ReadTo(cursor', decoded')
    BY Zenon, <1>1, <1>2, <1>5, <2>1, <2>2, ReadEscape DEF n
  <2> QED BY Zenon, <1>1, <2>2, <2>3, <2>4, DecodingInv DEF n
<1>7. CASE ~IsEscape
  <2>1. ~WellEscaped
    <3> SUFFICES ASSUME WellEscaped PROVE FALSE
      OBVIOUS
    <3>1. cursor \in Positions(target, "%") /\ InPath(cursor)
      <4>1. n <= Len(target) /\ Len(target) \in Nat
        BY SMT, <1>2, PathIs, LenProperties DEF Begins, n
      <4>2. cursor \in 1..Len(target)
        BY <1>3, <1>5, <4>1
      <4>3. target[cursor] = "%"
        BY Zenon, <1>1, <1>3, <1>5
      <4> QED BY Zenon, <1>3, <1>5, <4>2, <4>3 DEF Positions
    <3>2. \A j \in {cursor + 1, cursor + 2} : j \in 1..n /\ target[j] \in HexDigits
      BY Zenon, <1>3, <3>1 DEF WellEscaped
    <3>3. cursor + 1 \in 1..n /\ cursor + 2 \in 1..n
      BY Zenon, <3>2
    <3>4. Path[cursor + 1] \in HexDigits /\ Path[cursor + 2] \in HexDigits
      BY Zenon, <1>3, <3>2, <3>3
    <3>5. cursor + 2 <= n
      BY <1>3, <3>3
    <3> QED BY Zenon, <1>7, <3>4, <3>5 DEF IsEscape, n
  <2>2. Refuse
    BY Zenon, <1>7 DEF DecodeEscape
  <2> QED BY Zenon, <1>1, <2>1, <2>2, RefusingInv
<1> QED BY Zenon, <1>6, <1>7

LEMMA NamesType ==
  ASSUME NEW s \in Seq(Bytes)
  PROVE  NamesIn(s) \in Seq(Seq(Bytes))
<1> DEFINE runs == Split(s, "/")
<1>1. runs \in Seq(Seq(Bytes))
  <2>1. runs \in Seq(Seq(Bytes \ {"/"}))
    BY Zenon, SplitType DEF Runs
  <2>2. Bytes \ {"/"} \subseteq Bytes
    BY Zenon
  <2> HIDE DEF runs
  <2> QED BY <2>1, <2>2, SeqMonotonic
<1> HIDE DEF runs
<1>2. Without(runs, <<>>) \in Seq(Seq(Bytes) \ {<<>>})
  BY <1>1, WithoutType
<1>3. Without(runs, <<>>) \in Seq(Seq(Bytes))
  BY <1>2, SeqMonotonic
<1> QED BY Zenon, <1>3 DEF NamesIn, runs

LEMMA CheckDecodedInv == DecoderInv /\ CheckDecoded => DecoderInv'
<1> SUFFICES ASSUME DecoderInv, CheckDecoded PROVE DecoderInv'
  OBVIOUS
<1>1. decoding = "decode" /\ cursor > Len(Path)
  BY Zenon DEF CheckDecoded
<1>2. /\ target \in Seq(Bytes) /\ decoded \in Seq(Bytes) /\ ReadTo(cursor, decoded)
      /\ cursor \in 1..Len(Path) + 1
  BY Zenon DEF DecoderInv, DecoderShape, PathIsRead
<1> DEFINE n == Len(Path)
<1>3. cursor = n + 1
  <2>1. n \in Nat
    BY Zenon, <1>2, PathIs, LenProperties
  <2>2. cursor > n /\ cursor \in 1..n+1
    BY Zenon, <1>1, <1>2
  <2> HIDE DEF n
  <2> QED BY <2>1, <2>2
<1>4. Reading = decoded
  BY Zenon, <1>2, <1>3, ReadAll
<1>5. CASE IsSafe
  <2>1. /\ decoding' = "split" /\ rest' = decoded /\ target' = target /\ slash' = slash
        /\ cursor' = cursor /\ decoded' = decoded /\ components' = components
    BY SMT, <1>5 DEF CheckDecoded
  <2>2. Path' = Path /\ (ReadTo(cursor', decoded') => ReadTo(cursor, decoded)')
    BY Zenon, <2>1, ReadKept
  <2>3. components = <<>>
    BY Zenon, <1>1 DEF DecoderInv, SplitIsRight
  <2>4. DecoderShape'
    <3>1. Len(decoded) \in Nat /\ Len(<<>>) + Len(decoded) <= Len(decoded)
      BY <1>2
    <3>2. \A i \in 1..Len(decoded) : decoded[i] = decoded[Len(decoded) - Len(decoded) + i]
      BY <3>1
    <3>3. Len(decoded) <= Len(decoded)
      BY <3>1
    <3>4. Ends(decoded, decoded)
      BY Zenon, <3>2, <3>3 DEF Ends
    <3>5. Ends(rest, decoded)'
      BY Zenon, <2>1, <3>4 DEF Ends
    <3> QED BY Zenon, <1>2, <2>1, <2>2, <2>3, <3>1, <3>5 DEF DecoderInv, DecoderShape
  <2>5. PathIsRead'
    BY Zenon, <1>1, <2>1, <2>2 DEF DecoderInv, PathIsRead
  <2>6. SplitIsRight'
    <3>1. <<>> \o NamesIn(decoded) = NamesIn(decoded)
      <4>1. NamesIn(decoded) \in Seq(Seq(Bytes))
        BY Zenon, <1>2, NamesType
      <4> QED BY <4>1, ConcatEmptySeq
    <3>2. RunsOf(decoded, decoded)
      BY Zenon DEF RunsOf
    <3>3. IsSafe'
      BY Zenon, <1>5, <2>1 DEF IsSafe
    <3>4. RunsOf(rest, decoded)'
      BY Zenon, <2>1, <3>2 DEF RunsOf
    <3>5. components' \o NamesIn(rest)' = NamesIn(decoded)'
      BY Zenon, <2>1, <2>3, <3>1 DEF NamesIn
    <3> QED BY Zenon, <1>3, <2>1, <2>2, <3>3, <3>4, <3>5 DEF SplitIsRight
  <2>7. ComponentsAreNormal'
    BY Zenon, <2>1 DEF DecoderInv, ComponentsAreNormal
  <2> QED BY Zenon, <2>1, <2>4, <2>5, <2>6, <2>7 DEF DecoderInv, RefusalIsDeserved
<1>6. CASE ~IsSafe
  <2>1. PICK i \in 1..Len(decoded) : decoded[i] \in Forbidden
    BY Zenon, <1>6 DEF IsSafe
  <2>2. decoded[i] \in ToSet(Reading)
    <3>1. decoded[i] \in ToSet(decoded)
      BY <1>2, <2>1 DEF ToSet
    <3> QED BY Zenon, <1>4, <3>1
  <2>3. ~IsAllowed
    BY Zenon, <2>1, <2>2 DEF IsAllowed
  <2>4. Refuse
    BY Zenon, <1>6 DEF CheckDecoded
  <2> QED BY Zenon, <1>1, <2>3, <2>4, RefusingInv
<1> QED BY Zenon, <1>5, <1>6

\* What splitting off the first run of a sequence leaves.
NamesOf(c) == IF c = <<>> THEN <<>> ELSE <<c>>

LEMMA NextRun ==
  ASSUME NEW s \in Seq(Bytes), s # <<>>
  PROVE  /\ 1 + Len(After(s, "/")) <= Len(s)
         /\ NamesIn(s) = NamesOf(Before(s, "/")) \o NamesIn(After(s, "/"))
         /\ Before(s, "/") \in ToSet(Split(s, "/"))
         /\ RunsOf(After(s, "/"), s)
<1> DEFINE E == Bytes
           slash1 == "/"
           c == Before(s, slash1)
           t == After(s, slash1)
           F == Seq(Bytes)
           none == <<>>
<1>1. slash1 \in E /\ s \in Seq(E)
  BY Zenon DEF Bytes
<1> HIDE DEF E, slash1
<1>2. /\ c \in Seq(E) /\ t \in Seq(E) /\ Len(c) \in Nat /\ Len(t) \in Nat /\ Len(s) \in Nat
      /\ c = s => t = <<>>
      /\ c # s => Len(s) = Len(c) + 1 + Len(t)
      /\ c = s => Split(s, slash1) = <<s>>
      /\ c # s => Split(s, slash1) = <<c>> \o Split(t, slash1)
  <2>1. c \in Seq(E)
    BY Zenon, <1>1, BeforeIs
  <2>2. t \in Seq(E) /\ (c = s => t = <<>>) /\ (c # s => Len(s) = Len(c) + 1 + Len(t))
    BY Zenon, <1>1, AfterIs
  <2>3. /\ c = s => Split(s, slash1) = <<s>>
        /\ c # s => Split(s, slash1) = <<c>> \o Split(t, slash1)
    BY Zenon, <1>1, BeforeSplit
  <2> QED BY Zenon, <1>1, <2>1, <2>2, <2>3, LenProperties
<1> HIDE DEF c, t
<1>3. 1 + Len(t) <= Len(s)
  <2>1. CASE c = s
    <3>1. Len(s) # 0 /\ Len(t) = 0
      BY <1>1, <1>2, <2>1
    <3> QED BY <1>2, <3>1
  <2>2. CASE c # s
    BY <1>2, <2>2
  <2> QED BY Zenon, <2>1, <2>2
<1> DEFINE left == Split(t, slash1)
<1>4. left \in Seq(F)
  <2>1. left \in Seq(Seq(E \ {slash1}))
    BY Zenon, <1>2, SplitType DEF Runs
  <2>2. Seq(E \ {slash1}) \subseteq F
    <3>1. E \ {slash1} \subseteq E
      BY Zenon
    <3> QED BY <3>1, SeqMonotonic DEF E
  <2> HIDE DEF left, F
  <2> QED BY <2>1, <2>2, SeqMonotonic
<1>5. c \in F /\ s \in F /\ <<c>> \in Seq(F) /\ <<s>> \in Seq(F)
  <2>1. c \in F /\ s \in F
    BY Zenon, <1>1, <1>2 DEF E
  <2> HIDE DEF F
  <2> QED BY <2>1
<1>6. Without(<<c>>, <<>>) = NamesOf(c) /\ Without(<<<<>>>>, <<>>) = <<>>
  <2>1. ASSUME NEW x \in F PROVE Without(<<x>>, <<>>) = NamesOf(x)
    <3> HIDE DEF F
    <3>1. <<>> \in Seq(F) /\ <<x>> = Append(<<>>, x)
      BY <2>1
    <3> DEFINE zero == <<>>
               alone == Append(zero, x)
    <3> HIDE DEF zero
    <3>2. zero \in Seq(F)
      BY Zenon, <3>1 DEF zero
    <3>3. Without(alone, none) = KeptOf(Without(zero, none), x, none)
      BY Zenon, <2>1, <3>2, WithoutAppend
    <3>4. Without(zero, none) = <<>>
      BY Zenon, WithoutEmpty DEF zero
    <3> QED BY Zenon, <3>1, <3>3, <3>4 DEF KeptOf, NamesOf, zero
  <2>2. <<>> \in F
    BY Zenon, EmptySeq
  <2> QED BY Zenon, <1>5, <2>1, <2>2 DEF NamesOf
<1>7. CASE c = s
  <2>1. left = <<<<>>>>
    BY Zenon, <1>2, <1>7, SplitEmpty
  <2>2. NamesIn(t) = <<>> /\ NamesIn(s) = NamesOf(c)
    BY Zenon, <1>2, <1>6, <1>7, <2>1 DEF NamesIn, slash1
  <2>3. NamesOf(c) \o <<>> = NamesOf(c)
    <3>1. NamesOf(c) \in Seq(F)
      BY Zenon, <1>5, EmptySeq DEF NamesOf
    <3> QED BY <3>1, ConcatEmptySeq
  <2>4. ToSet(<<s>>) = {s} /\ ToSet(<<<<>>>>) = {<<>>}
    BY DEF ToSet
  <2>5. c \in ToSet(Split(s, slash1)) /\ ToSet(left) \subseteq {<<>>}
    BY Zenon, <1>2, <1>7, <2>1, <2>4
  <2> QED BY Zenon, <1>3, <2>2, <2>3, <2>5 DEF c, t, slash1, RunsOf
<1>8. CASE c # s
  <2> HIDE DEF left, F, none
  <2> DEFINE one == <<c>>
             both == one \o left
  <2>1. Split(s, slash1) = both
    BY Zenon, <1>2, <1>8 DEF left
  <2>2. one \in Seq(F) /\ Len(one) = 1 /\ one[1] = c
    BY <1>5
  <2> HIDE DEF one
  <2>3. Without(both, none) = Without(one, none) \o Without(left, none)
    <3>1. left \in Seq(F) /\ one \in Seq(F)
      BY Zenon, <1>4, <2>2
    <3> QED BY ONLY <3>1, WithoutConcat
  <2>4. /\ both \in Seq(F) /\ Len(both) = Len(one) + Len(left) /\ Len(left) \in Nat
        /\ \A i \in 1..Len(one)+Len(left) :
             both[i] = IF i <= Len(one) THEN one[i] ELSE left[i - Len(one)]
    <3>1. left \in Seq(F) /\ one \in Seq(F)
      BY Zenon, <1>4, <2>2
    <3>2. Len(left) \in Nat
      BY Zenon, <3>1, LenProperties
    <3>3. /\ one \o left \in Seq(F) /\ Len(one \o left) = Len(one) + Len(left)
          /\ \A i \in 1..Len(one)+Len(left) :
               (one \o left)[i] = IF i <= Len(one) THEN one[i] ELSE left[i - Len(one)]
      BY ONLY <3>1, ConcatProperties
    <3> QED BY Zenon, <3>2, <3>3
  <2> HIDE DEF both
  <2>5. NamesIn(s) = NamesOf(c) \o NamesIn(t)
    BY Zenon, <1>6, <2>1, <2>3 DEF NamesIn, slash1, left, none, one
  <2>6. c \in ToSet(both) /\ ToSet(left) \subseteq ToSet(both)
    <3>1. DOMAIN both = 1..1+Len(left) /\ DOMAIN left = 1..Len(left)
      BY <1>4, <2>2, <2>4
    <3>2. 1 \in 1..1+Len(left) /\ both[1] = c
      BY <2>2, <2>4
    <3>3. ASSUME NEW i \in 1..Len(left) PROVE i + 1 \in 1..1+Len(left) /\ left[i] = both[i + 1]
      <4>1. i + 1 \in 1..Len(one)+Len(left) /\ ~(i + 1 <= Len(one)) /\ (i + 1) - Len(one) = i
        BY <2>2, <2>4
      <4>2. both[i + 1] = left[i]
        BY Zenon, <2>4, <4>1
      <4> QED BY Zenon, <2>2, <4>1, <4>2
    <3> QED BY Zenon, <3>1, <3>2, <3>3 DEF ToSet
  <2> QED BY Zenon, <1>3, <2>1, <2>5, <2>6 DEF c, t, slash1, left, RunsOf
<1> QED BY Zenon, <1>7, <1>8

\* The end of an end is an end.
LEMMA EndsAfter ==
  ASSUME NEW d \in Seq(Bytes), NEW r \in Seq(Bytes), NEW t \in Seq(Bytes), Ends(r, d),
         Len(t) <= Len(r), \A i \in 1..Len(t) : t[i] = r[Len(r) - Len(t) + i]
  PROVE  Ends(t, d)
<1>1. Len(d) \in Nat /\ Len(r) \in Nat /\ Len(t) \in Nat /\ Len(r) <= Len(d)
      /\ \A i \in 1..Len(r) : r[i] = d[Len(d) - Len(r) + i]
  BY Zenon, LenProperties DEF Ends
<1>2. ASSUME NEW i \in 1..Len(t) PROVE t[i] = d[Len(d) - Len(t) + i]
  <2> DEFINE k == Len(r) - Len(t) + i
  <2>1. k \in 1..Len(r) /\ Len(d) - Len(r) + k = Len(d) - Len(t) + i
    BY <1>1
  <2>2. t[i] = r[k]
    BY Zenon
  <2> HIDE DEF k
  <2>3. r[k] = d[Len(d) - Len(r) + k]
    BY Zenon, <1>1, <2>1
  <2> QED BY Zenon, <2>1, <2>2, <2>3
<1>3. Len(t) <= Len(d)
  BY <1>1
<1> QED BY Zenon, <1>2, <1>3 DEF Ends

LEMMA SplitNextInv == DecoderInv /\ SplitNext => DecoderInv'
<1> SUFFICES ASSUME DecoderInv, SplitNext PROVE DecoderInv'
  OBVIOUS
<1> DEFINE c == Before(rest, "/")
           t == After(rest, "/")
<1>1. decoding = "split" /\ rest # <<>>
  BY Zenon DEF SplitNext
<1>2. /\ target \in Seq(Bytes) /\ decoded \in Seq(Bytes) /\ rest \in Seq(Bytes)
      /\ components \in Seq(Seq(Bytes))
      /\ ReadTo(cursor, decoded) /\ Ends(rest, decoded)
      /\ Len(components) + Len(rest) <= Len(decoded)
  BY Zenon DEF DecoderInv, DecoderShape, PathIsRead
<1>3. /\ cursor = Len(Path) + 1 /\ IsSafe
      /\ components \o NamesIn(rest) = NamesIn(decoded)
      /\ RunsOf(rest, decoded)
  BY Zenon, <1>1 DEF DecoderInv, SplitIsRight
<1>4. /\ 1 + Len(t) <= Len(rest)
      /\ NamesIn(rest) = NamesOf(c) \o NamesIn(t)
      /\ c \in ToSet(Split(rest, "/"))
      /\ RunsOf(t, rest)
  BY Zenon, <1>1, <1>2, NextRun
<1>5. c \in Seq(Bytes) /\ Begins(c, rest) /\ \A i \in 1..Len(c) : rest[i] # "/"
  BY Zenon, <1>2, BeforeIs
<1>6. /\ t \in Seq(Bytes) /\ Len(t) <= Len(rest)
      /\ \A i \in 1..Len(t) : t[i] = rest[Len(rest) - Len(t) + i]
  <2>1. rest \in Seq(Bytes)
    BY Zenon, <1>2
  <2> QED BY ONLY SMT, <2>1, AfterIs
<1>7. t = SubSeq(rest, Len(c) + 2, Len(rest))
  BY Zenon DEF After
<1>8. CASE IsDots(c)
  <2>1. Refuse
    BY Zenon, <1>8 DEF SplitNext
  <2>2. <<".">> # <<>> /\ <<".", ".">> # <<>>
    OBVIOUS
  <2>3. c \in {<<".">>, <<".", ".">>} /\ c # <<>>
    BY Zenon, <1>8, <2>2 DEF IsDots
  <2>4. c \in ToSet(Split(decoded, "/"))
    BY Zenon, <1>3, <1>4, <2>3 DEF RunsOf
  <2>5. Reading = decoded
    BY Zenon, <1>2, <1>3, ReadAll
  <2>6. ~IsAllowed
    BY Zenon, <2>3, <2>4, <2>5 DEF IsAllowed
  <2> QED BY Zenon, <1>1, <2>1, <2>6, RefusingInv
<1>9. CASE ~IsDots(c)
  <2>1. /\ components' = ComponentsWith(c) /\ rest' = t
        /\ UNCHANGED <<decoding, target, slash, cursor, decoded>>
    BY Zenon, <1>7, <1>9 DEF SplitNext
  <2>2. /\ decoding' = decoding /\ target' = target /\ slash' = slash /\ cursor' = cursor
        /\ decoded' = decoded
    BY ONLY <2>1
  <2>3. Path' = Path /\ (ReadTo(cursor', decoded') => ReadTo(cursor, decoded)')
    BY Zenon, <2>2, ReadKept
  <2> HIDE DEF c, t
  <2>4. /\ components' = components \o NamesOf(c)
        /\ components' \in Seq(Seq(Bytes)) /\ NamesOf(c) \in Seq(Seq(Bytes))
        /\ Len(components') <= Len(components) + 1
        /\ ToSet(components') \subseteq ToSet(components) \cup (IF c = <<>> THEN {} ELSE {c})
    <3> DEFINE F == Seq(Bytes)
    <3>1. c \in F /\ components \in Seq(F) /\ Len(components) \in Nat
      BY Zenon, <1>2, <1>5, LenProperties
    <3> HIDE DEF F
    <3>2. CASE c = <<>>
      <4>1. components' = components /\ NamesOf(c) = <<>>
        BY Zenon, <2>1, <3>2 DEF ComponentsWith, NamesOf
      <4>2. components \o <<>> = components /\ <<>> \in Seq(F) /\ Len(components) <= Len(components) + 1
        BY <3>1, ConcatEmptySeq
      <4> QED BY Zenon, <3>1, <4>1, <4>2 DEF F
    <3>3. CASE c # <<>>
      <4>1. components' = Append(components, c) /\ NamesOf(c) = <<c>>
        BY Zenon, <2>1, <3>3 DEF ComponentsWith, NamesOf
      <4>2. /\ Append(components, c) = components \o <<c>> /\ <<c>> \in Seq(F)
            /\ Append(components, c) \in Seq(F)
            /\ Len(Append(components, c)) = Len(components) + 1
            /\ Len(components) + 1 <= Len(components) + 1
        BY <3>1
      <4>3. ToSet(Append(components, c)) \subseteq ToSet(components) \cup {c}
        BY <3>1 DEF ToSet
      <4> QED BY Zenon, <3>3, <4>1, <4>2, <4>3 DEF F
    <3> QED BY Zenon, <3>2, <3>3
  <2>5. DecoderShape'
    <3>1. Ends(t, decoded)
      BY Zenon, <1>2, <1>6, EndsAfter
    <3>2. Ends(rest, decoded)'
      BY Zenon, <2>1, <2>2, <3>1 DEF Ends
    <3>3. Len(components') + Len(t) <= Len(decoded)
      <4>1. /\ Len(components') \in Nat /\ Len(t) \in Nat /\ Len(decoded) \in Nat
            /\ Len(components) \in Nat /\ Len(rest) \in Nat
        BY Zenon, <1>2, <1>6, <2>4, LenProperties
      <4> QED BY <1>2, <1>4, <2>4, <4>1
    <3> QED BY Zenon, <1>6, <2>1, <2>2, <2>3, <2>4, <3>2, <3>3 DEF DecoderInv, DecoderShape
  <2>6. PathIsRead'
    BY Zenon, <2>2, <2>3 DEF DecoderInv, PathIsRead
  <2>7. SplitIsRight'
    <3>1. components' \o NamesIn(t) = NamesIn(decoded)
      <4>1. NamesIn(t) \in Seq(Seq(Bytes))
        BY Zenon, <1>6, NamesType
      <4> DEFINE F == Seq(Bytes)
                 a == NamesOf(c)
                 b == NamesIn(t)
      <4>2. components \in Seq(F) /\ a \in Seq(F) /\ b \in Seq(F)
        BY Zenon, <1>2, <2>4, <4>1
      <4> HIDE DEF F, a, b
      <4>3. (components \o a) \o b = components \o (a \o b)
        BY ONLY <4>2, ConcatAssociative
      <4> QED BY Zenon, <1>3, <1>4, <2>4, <4>3 DEF a, b
    <3>2. RunsOf(t, decoded)
      BY Zenon, <1>3, <1>4 DEF RunsOf
    <3>3. IsSafe'
      BY Zenon, <1>3, <2>2 DEF IsSafe
    <3>4. RunsOf(rest, decoded)'
      BY Zenon, <2>1, <2>2, <3>2 DEF RunsOf
    <3>5. components' \o NamesIn(rest)' = NamesIn(decoded)'
      BY Zenon, <2>1, <2>2, <3>1 DEF NamesIn
    <3> QED BY Zenon, <1>1, <1>3, <2>2, <2>3, <3>3, <3>4, <3>5 DEF SplitIsRight
  <2>8. ComponentsAreNormal'
    <3>1. ToSet(c) \cap (Forbidden \cup {"/"}) = {}
      <4> SUFFICES ASSUME NEW x \in ToSet(c), x \in Forbidden \/ x = "/" PROVE FALSE
        BY Zenon
      <4>1. PICK i \in 1..Len(c) : x = c[i]
        BY <1>5 DEF ToSet
      <4>2. x = rest[i] /\ x # "/"
        BY Zenon, <1>5, <4>1 DEF Begins
      <4> DEFINE k == Len(decoded) - Len(rest) + i
      <4>3. k \in 1..Len(decoded) /\ i \in 1..Len(rest)
        <5>1. Len(decoded) \in Nat /\ Len(rest) \in Nat /\ Len(c) \in Nat
          BY Zenon, <1>2, <1>5, LenProperties
        <5>2. Len(c) <= Len(rest) /\ Len(rest) <= Len(decoded)
          BY Zenon, <1>2, <1>5 DEF Begins, Ends
        <5> QED BY <5>1, <5>2
      <4>4. rest[i] = decoded[k]
        BY Zenon, <1>2, <4>3 DEF Ends
      <4> HIDE DEF k
      <4> QED BY Zenon, <1>3, <4>2, <4>3, <4>4 DEF IsSafe
    <3>2. c \notin {<<".">>, <<".", ".">>}
      BY Zenon, <1>9 DEF IsDots
    <3> SUFFICES ASSUME NEW x \in ToSet(components')
                 PROVE  /\ x \notin {<<>>, <<".">>, <<".", ".">>}
                        /\ ToSet(x) \cap (Forbidden \cup {"/"}) = {}
      BY Zenon DEF ComponentsAreNormal
    <3>3. x \in ToSet(components) \/ (x = c /\ c # <<>>)
      BY Zenon, <2>4
    <3> QED BY Zenon, <3>1, <3>2, <3>3 DEF DecoderInv, ComponentsAreNormal
  <2> QED BY Zenon, <1>1, <2>2, <2>5, <2>6, <2>7, <2>8 DEF DecoderInv, RefusalIsDeserved
<1> QED BY Zenon, <1>8, <1>9

LEMMA EndSplitInv == DecoderInv /\ EndSplit => DecoderInv'
<1> SUFFICES ASSUME DecoderInv, EndSplit PROVE DecoderInv'
  OBVIOUS
<1>1. /\ decoding = "split" /\ rest = <<>> /\ decoding' = "accepted"
      /\ target' = target /\ slash' = slash /\ cursor' = cursor
      /\ decoded' = decoded /\ rest' = rest /\ components' = components
  BY SMT DEF EndSplit
<1>2. Path' = Path /\ (ReadTo(cursor', decoded') => ReadTo(cursor, decoded)')
  BY Zenon, <1>1, ReadKept
<1>3. DecoderShape'
  <2>1. Ends(rest, decoded)'
    BY Zenon, <1>1 DEF DecoderInv, DecoderShape, Ends
  <2> QED BY Zenon, <1>1, <1>2, <2>1 DEF DecoderInv, DecoderShape
<1>4. PathIsRead'
  BY Zenon, <1>1, <1>2 DEF DecoderInv, PathIsRead
<1>5. ComponentsAreNormal'
  BY Zenon, <1>1 DEF DecoderInv, ComponentsAreNormal
<1>6. SplitIsRight'
  BY Zenon, <1>1, <1>2 DEF DecoderInv, SplitIsRight, IsSafe, NamesIn, RunsOf
<1> QED BY Zenon, <1>1, <1>3, <1>4, <1>5, <1>6 DEF DecoderInv, RefusalIsDeserved

LEMMA DecoderStutter == DecoderInv /\ UNCHANGED decoderVars => DecoderInv'
<1> SUFFICES ASSUME DecoderInv, UNCHANGED decoderVars PROVE DecoderInv'
  OBVIOUS
<1>1. /\ decoding' = decoding /\ target' = target /\ slash' = slash /\ cursor' = cursor
      /\ decoded' = decoded /\ rest' = rest /\ components' = components
  BY SMT DEF decoderVars
<1>2. /\ Path' = Path /\ (ReadTo(cursor', decoded') => ReadTo(cursor, decoded)')
      /\ (WellEscaped' <=> WellEscaped) /\ (IsAllowed' <=> IsAllowed)
  BY Zenon, <1>1, ReadKept
<1>3. DecoderShape'
  <2>1. Ends(rest, decoded)'
    BY Zenon, <1>1 DEF DecoderInv, DecoderShape, Ends
  <2> QED BY Zenon, <1>1, <1>2, <2>1 DEF DecoderInv, DecoderShape
<1>4. PathIsRead'
  BY Zenon, <1>1, <1>2 DEF DecoderInv, PathIsRead
<1>5. ComponentsAreNormal'
  BY Zenon, <1>1 DEF DecoderInv, ComponentsAreNormal
<1>6. SplitIsRight'
  BY Zenon, <1>1, <1>2 DEF DecoderInv, SplitIsRight, IsSafe, NamesIn, RunsOf
<1>7. RefusalIsDeserved'
  BY Zenon, <1>1, <1>2 DEF DecoderInv, RefusalIsDeserved
<1> QED BY Zenon, <1>3, <1>4, <1>5, <1>6, <1>7 DEF DecoderInv

LEMMA DecoderStepInv == DecoderInv /\ DecoderStep => DecoderInv'
BY Zenon, DecodePlainInv, DecodeEscapeInv, CheckDecodedInv, SplitNextInv, EndSplitInv
   DEF DecoderStep

-----------------------------------------------------------------------------
(* The decoder reads the target of the request that the parser has accepted. *)

TargetIsTheRequests ==
  decoding # "idle" => parsing = "accepted" /\ target = requestLine.target

LEMMA DecoderMoves ==
  ASSUME RequestNext
  PROVE  \/ DecoderStep /\ UNCHANGED parserVars
         \/ parsing = "accepted" /\ StartDecoding(requestLine.target) /\ UNCHANGED parserVars
         \/ UNCHANGED decoderVars /\ (ParserStep \/ UNCHANGED parserVars)
BY Zenon DEF RequestNext, RefusesHeader, DecodesTarget, RefusesTarget, AnswersHealth,
             ServesStatic, Answers, Returns, LogsRequest

LEMMA ParserIsDone == ParserStep => parsing # "accepted"
BY Zenon DEF ParserStep, ReadRequestLine, ReadHeader, EndHeaders, NextItem, Accept

LEMMA TargetType ==
  ASSUME ParserInv, parsing = "accepted"
  PROVE  /\ requestLine.target \in Seq(Bytes)
         /\ requestLine.target # <<>> /\ Head(requestLine.target) = "/"
<1>1. requestLine \in RequestLines /\ requestLine.formed
  BY Zenon DEF ParserInv, HostsAreCounted, HeaderIsRead, AfterRequestLine
<1>2. requestLine.target # <<>> /\ Head(requestLine.target) = "/"
  BY Zenon, <1>1, ParserAssumption
<1> DEFINE Texts == STRING
<1>3. requestLine.target \in Seq(Texts)
  <2>1. requestLine \in [formed : BOOLEAN, method : Seq(Texts), target : Seq(Texts), version : Texts]
    BY Zenon, <1>1, ParserAssumption
  <2> HIDE DEF Texts
  <2> QED BY <2>1
<1>4. Texts \subseteq Bytes
  BY Zenon DEF Bytes
<1> HIDE DEF Texts
<1>5. requestLine.target \in Seq(Bytes)
  BY <1>3, <1>4, SeqMonotonic
<1> QED BY Zenon, <1>2, <1>5

RequestInv ==
  /\ ParserInv
  /\ TargetIsTheRequests
  /\ DecoderInv

LEMMA RequestInitInv == RequestInit => RequestInv
BY Zenon, ParserInitInv, DecoderInitInv
   DEF RequestInit, RequestInv, TargetIsTheRequests, DecoderInit

LEMMA RequestStepInv == RequestInv /\ [RequestNext]_requestVars => RequestInv'
<1> SUFFICES ASSUME RequestInv, [RequestNext]_requestVars PROVE RequestInv'
  OBVIOUS
<1>1. ParserInv /\ TargetIsTheRequests /\ DecoderInv
  BY Zenon DEF RequestInv
<1>2. CASE DecoderStep /\ UNCHANGED parserVars
  <2>1. parsing' = parsing /\ requestLine' = requestLine
    BY ONLY <1>2 DEF parserVars
  <2>2. decoding # "idle" /\ target' = target
    <3>1. decoding # "idle"
      BY Zenon, <1>2
      DEF DecoderStep, DecodePlain, DecodeEscape, CheckDecoded, SplitNext, EndSplit
    <3>2. target' = target
      <4>1. CASE DecodePlain
        BY SMT, <4>1 DEF DecodePlain
      <4>2. CASE DecodeEscape
        <5>1. Refuse \/ UNCHANGED <<decoding, target, slash, rest, components>>
          BY Zenon, <4>2 DEF DecodeEscape
        <5> QED BY ONLY <5>1 DEF Refuse
      <4>3. CASE CheckDecoded
        BY SMT, <4>3 DEF CheckDecoded, Refuse
      <4>4. CASE SplitNext
        <5>1. Refuse \/ UNCHANGED <<decoding, target, slash, cursor, decoded>>
          BY Zenon, <4>4 DEF SplitNext
        <5> QED BY ONLY <5>1 DEF Refuse
      <4>5. CASE EndSplit
        BY SMT, <4>5 DEF EndSplit
      <4> QED BY Zenon, <1>2, <4>1, <4>2, <4>3, <4>4, <4>5 DEF DecoderStep
    <3> QED BY Zenon, <3>1, <3>2
  <2> QED BY Zenon, <1>1, <1>2, <2>1, <2>2, ParserStutter, DecoderStepInv
      DEF RequestInv, TargetIsTheRequests
<1>3. CASE parsing = "accepted" /\ StartDecoding(requestLine.target) /\ UNCHANGED parserVars
  <2>1. parsing' = parsing /\ requestLine' = requestLine
    BY ONLY <1>3 DEF parserVars
  <2>2. target' = requestLine.target
    BY Zenon, <1>3 DEF StartDecoding
  <2>3. DecoderInv'
    BY Zenon, <1>1, <1>3, TargetType, StartInv
  <2> QED BY Zenon, <1>1, <1>3, <2>1, <2>2, <2>3, ParserStutter
      DEF RequestInv, TargetIsTheRequests
<1>4. CASE UNCHANGED decoderVars /\ (ParserStep \/ UNCHANGED parserVars)
  <2>1. decoding' = decoding /\ target' = target
    BY ONLY <1>4 DEF decoderVars
  <2>2. CASE ParserStep
    BY Zenon, <1>1, <1>4, <2>1, <2>2, ParserIsDone, ParserStepInv, DecoderStutter
    DEF RequestInv, TargetIsTheRequests
  <2>3. CASE UNCHANGED parserVars
    <3>1. parsing' = parsing /\ requestLine' = requestLine
      BY ONLY <2>3 DEF parserVars
    <3> QED BY Zenon, <1>1, <1>4, <2>1, <2>3, <3>1, ParserStutter, DecoderStutter
        DEF RequestInv, TargetIsTheRequests
  <2> QED BY Zenon, <1>4, <2>2, <2>3
<1>5. UNCHANGED requestVars => UNCHANGED parserVars /\ UNCHANGED decoderVars
  BY Zenon DEF requestVars
<1> QED BY Zenon, <1>2, <1>3, <1>4, <1>5, DecoderMoves

\* The parser and the decoder work on one request, and what each has done is
\* what its variables say.
THEOREM RequestInvariant == RequestSpec => []RequestInv
<1> QED BY RequestInitInv, RequestStepInv, PTL DEF RequestSpec

\* A target is decoded as a reading of it that does not scan it, and nothing but a
\* broken escape, a forbidden byte or a dot segment is refused.
THEOREM TargetsAreRead == RequestSpec => []TargetIsRead
<1>1. RequestInv => TargetIsRead
  <2> SUFFICES ASSUME RequestInv PROVE TargetIsRead
    OBVIOUS
  <2>1. DecoderShape /\ PathIsRead /\ SplitIsRight /\ ComponentsAreNormal /\ RefusalIsDeserved
    BY Zenon DEF RequestInv, DecoderInv
  <2>2. ASSUME decoding = "accepted"
        PROVE  /\ WellEscaped
               /\ components = Without(Split(Reading, "/"), <<>>)
               /\ slash => Last(Reading) = "/"
    <3>1. /\ cursor = Len(Path) + 1 /\ rest = <<>>
          /\ components \o NamesIn(rest) = NamesIn(decoded)
      BY Zenon, <2>1, <2>2 DEF SplitIsRight
    <3>2. /\ target \in Seq(Bytes) /\ decoded \in Seq(Bytes) /\ components \in Seq(Seq(Bytes))
          /\ ReadTo(cursor, decoded)
      BY Zenon, <2>1 DEF DecoderShape, PathIsRead
    <3>3. WellEscaped /\ Reading = decoded
      BY Zenon, <3>1, <3>2, ReadAll
    <3>4. components = NamesIn(decoded)
      <4>1. NamesIn(<<>>) = <<>>
        <5> DEFINE none == <<>>
                   one == <<none>>
        <5>1. Split(<<>>, "/") = one
          BY Zenon, SplitEmpty
        <5>2. one = Append(none, none) /\ none \in Seq({none})
          OBVIOUS
        <5>3. Without(none, none) = none
          BY Zenon, WithoutEmpty
        <5> HIDE DEF none
        <5>4. Without(Append(none, none), none) = KeptOf(Without(none, none), none, none)
          BY ONLY <5>2, WithoutAppend
        <5> QED BY Zenon, <5>1, <5>2, <5>3, <5>4 DEF NamesIn, KeptOf, none
      <4>2. components \o <<>> = components
        BY <3>2, ConcatEmptySeq
      <4> QED BY Zenon, <3>1, <4>1, <4>2
    <3>5. slash => Last(decoded) = "/"
      <4> SUFFICES ASSUME slash PROVE Last(decoded) = "/"
        OBVIOUS
      <4>1. Path # <<>> /\ Last(Path) = "/"
        BY Zenon, <2>1, <2>2 DEF PathIsRead
      <4>2. Path \in Seq(Bytes)
        BY Zenon, <3>2, PathIs
      <4>3. cursor > 1 /\ cursor - 1 = Len(Path)
        BY <3>1, <4>1, <4>2
      <4>4. Path[cursor - 1] = "/"
        BY Zenon, <4>1, <4>3 DEF Last
      <4> QED BY Zenon, <3>2, <4>3, <4>4 DEF ReadTo
    <3> QED BY Zenon, <3>3, <3>4, <3>5 DEF NamesIn
  <2> QED BY Zenon, <2>1, <2>2 DEF TargetIsRead, RefusalIsDeserved
<1> QED BY <1>1, RequestInvariant, PTL

-----------------------------------------------------------------------------
(* What a reader of JSON makes of a text that was escaped. *)

\* Every character, named where its being a string has to be known.
Marks ==
  STRING \cup {"\"", "\\", ":", "n", "r", "t", "u", "LF", "CR", "TAB", "UNKNOWN"}
    \cup Controls \cup {Codes[c] : c \in Controls}

Readers ==
  [in : {"nothing", "string", "escape", "code"}, strings : Seq(Seq(Marks))]

LEMMA AddsType ==
  ASSUME NEW strings \in Seq(Seq(Marks)), NEW c \in Marks
  PROVE  Adds(strings, c) \in Readers
<1> DEFINE n == Len(strings)
           last == Append(strings[n], c)
           more == [strings EXCEPT ![n] = last]
           E == Marks
<1>1. more \in Seq(Seq(E))
  <2>1. CASE strings = <<>>
    <3>1. DOMAIN strings = {} /\ strings = [i \in {} |-> strings[i]]
      BY <2>1
    <3> HIDE DEF last, n
    <3>2. more = [i \in DOMAIN strings |-> IF i = n THEN last ELSE strings[i]]
      OBVIOUS
    <3>3. more = [i \in {} |-> IF i = n THEN last ELSE strings[i]]
      BY Zenon, <3>1, <3>2
    <3>4. more = [i \in {} |-> more[i]]
      BY <3>3
    <3>5. \A f, g : f = [i \in {} |-> f[i]] /\ g = [i \in {} |-> g[i]] => f = g
      OBVIOUS
    <3> HIDE DEF more
    <3> QED BY Zenon, <3>1, <3>4, <3>5
  <2>2. CASE strings # <<>>
    <3> HIDE DEF E
    <3>1. n \in 1..Len(strings) /\ strings[n] \in Seq(E)
      BY <2>2 DEF E
    <3>2. last \in Seq(E)
      BY <3>1, AppendProperties DEF E
    <3> HIDE DEF n, last
    <3>3. strings \in Seq(Seq(E))
      BY Zenon DEF E
    <3> QED BY <3>1, <3>2, <3>3, ExceptSeq
  <2> QED BY Zenon, <2>1, <2>2
<1> HIDE DEF more
<1>2. At("string", more) \in Readers
  BY <1>1 DEF At, Readers
<1> QED BY Zenon, <1>2 DEF Adds, more

LEMMA ReadsType ==
  ASSUME NEW r \in Readers, NEW c \in Marks
  PROVE  Reads(r, c) \in Readers
<1>1. r.in \in {"nothing", "string", "escape", "code"} /\ r.strings \in Seq(Seq(Marks))
  BY DEF Readers
<1>2. \A in \in {"nothing", "string", "escape", "code"}, strings \in Seq(Seq(Marks)) :
        At(in, strings) \in Readers
  BY DEF At, Readers
<1>3. CASE r.in = "nothing"
  <2>1. Append(r.strings, <<>>) \in Seq(Seq(Marks))
    <3>1. <<>> \in Seq(Marks)
      BY Zenon, EmptySeq
    <3> QED BY <1>1, <3>1, AppendProperties
  <2> QED BY Zenon, <1>2, <1>3, <2>1 DEF Reads
<1>4. CASE r.in = "string"
  BY Zenon, <1>1, <1>2, <1>4, AddsType DEF Reads
<1>5. CASE r.in = "escape"
  <2>1. Unescaped(c) \in Marks
    <3>1. "LF" \in Marks /\ "CR" \in Marks /\ "TAB" \in Marks
      BY Zenon DEF Marks
    <3> QED BY Zenon, <3>1 DEF Unescaped
  <2> QED BY Zenon, <1>1, <1>2, <1>5, <2>1, AddsType DEF Reads
<1>6. CASE r.in = "code"
  <2>1. OfCode(c) \in Marks
    BY Zenon DEF OfCode, Marks
  <2> QED BY Zenon, <1>1, <1>6, <2>1, AddsType DEF Reads
<1> QED BY Zenon, <1>1, <1>3, <1>4, <1>5, <1>6

IsReading(r, line) ==
  /\ r[0] = At("nothing", <<>>)
  /\ \A i \in 1..Len(line) : r[i] = Reads(r[i-1], line[i])
  /\ r[Len(line)] = Strings(line)

LEMMA StringsRun ==
  ASSUME NEW s \in Seq(Marks)
  PROVE  \E r : IsReading(r, s) /\ \A i \in 0..Len(s) : r[i] \in Readers
<1> DEFINE n == Len(s)
           A == Readers
           base == At("nothing", <<>>)
           step == [p \in (1..n) \X A |-> Reads(p[2], s[p[1]])]
           Is(f) == f = [S \in SUBSET (DOMAIN s) |->
                           IF S = {} THEN base
                           ELSE Reads(f[S \ {Max(S)}], s[Max(S)])]
           F == CHOOSE f : Is(f)
<1>1. n \in Nat /\ DOMAIN s = 1..n /\ \A i \in 1..n : s[i] \in Marks
  OBVIOUS
<1>2. base \in A
  BY DEF Readers, At
<1>3. \A i \in 1..n, a \in A : step[<<i, a>>] = Reads(a, s[i])
  OBVIOUS
<1> HIDE DEF step, A, base
<1>4. Steps(n, A, step)
  <2>1. ASSUME NEW i \in 1..n, NEW a \in A PROVE Reads(a, s[i]) \in A
    BY Zenon, <1>1, ReadsType DEF A
  <2> QED BY <1>3, <2>1 DEF Steps
<1>5. Is(F)
  <2>1. PICK f : /\ f = [S \in SUBSET (1..n) |-> f[S]]
                 /\ \A S \in SUBSET (1..n) : f[S] \in A /\ IsFold(f, S, base, step)
    BY <1>1, <1>2, <1>4, FoldExists
  <2>2. ASSUME NEW S \in SUBSET (1..n), S # {}
        PROVE  f[S] = Reads(f[S \ {Max(S)}], s[Max(S)])
    <3>1. Max(S) \in 1..n /\ S \ {Max(S)} \in SUBSET (1..n)
      BY <1>1, <2>2, MaxOf
    <3> QED BY <1>3, <2>1, <2>2, <3>1 DEF IsFold
  <2>3. f[{}] = base
    BY <2>1 DEF IsFold
  <2>4. Is(f)
    BY <1>1, <2>1, <2>2, <2>3
  <2> QED BY <2>4
<1>6. Strings(s) = F[1..n]
  BY <1>1 DEF Strings, FoldLeft, MapThenFoldSet, base
<1> HIDE DEF F
<1>7. Unfolds(F, n, A, base, step)
  <2>1. F[{}] = base
    BY <1>5
  <2>2. ASSUME NEW S \in SUBSET (1..n), S # {}, F[S \ {Max(S)}] \in A
        PROVE  F[S] = step[<<Max(S), F[S \ {Max(S)}]>>]
    <3>1. Max(S) \in 1..n
      BY <1>1, <2>2, MaxOf
    <3> QED BY <1>1, <1>3, <1>5, <2>2, <3>1
  <2> QED BY <2>1, <2>2 DEF Unfolds, IsFold
<1>8. PICK r : IsRun(r, n, A, base, step) /\ r[n] = F[1..n]
  BY <1>1, <1>2, <1>4, <1>7, FoldIsRun
<1>9. \A i \in 1..n : r[i] = Reads(r[i-1], s[i])
  <2> SUFFICES ASSUME NEW i \in 1..n PROVE r[i] = Reads(r[i-1], s[i])
    OBVIOUS
  <2>1. i - 1 \in 0..n
    BY <1>1
  <2> QED BY <1>3, <1>8, <2>1 DEF IsRun
<1> QED BY <1>6, <1>8, <1>9 DEF IsRun, IsReading, base, A

LEMMA StringsOfNothing == Strings(<<>>) = At("nothing", <<>>)
<1>1. <<>> \in Seq(Marks) /\ Len(<<>>) = 0
  BY EmptySeq
<1>2. PICK r : IsReading(r, <<>>)
  BY Zenon, <1>1, StringsRun
<1> QED BY Zenon, <1>1, <1>2 DEF IsReading

\* A reader goes on from where it is.
LEMMA StringsAppend ==
  ASSUME NEW s \in Seq(Marks), NEW x \in Marks
  PROVE  Strings(Append(s, x)) = Reads(Strings(s), x) /\ Strings(s) \in Readers
<1> DEFINE n == Len(s)
           t == Append(s, x)
<1>1. /\ n \in Nat /\ t \in Seq(Marks) /\ Len(t) = n + 1 /\ t[n + 1] = x
      /\ \A i \in 1..n : t[i] = s[i]
  BY AppendProperties
<1>2. PICK r : IsReading(r, s) /\ \A i \in 0..n : r[i] \in Readers
  BY StringsRun
<1> HIDE DEF t
<1>3. PICK q : IsReading(q, t)
  BY Zenon, <1>1, StringsRun
<1> HIDE DEF n
<1>4. Alike(n, r, q)
  <2>1. \A i \in 1..n : r[i] = Reads(r[i-1], s[i])
    BY Zenon, <1>2 DEF IsReading, n
  <2>2. \A i \in 1..n : i \in 1..Len(t)
    BY <1>1
  <2>3. \A i \in 1..n : q[i] = Reads(q[i-1], s[i])
    BY Zenon, <1>1, <1>3, <2>2 DEF IsReading
  <2>4. r[0] = q[0]
    BY Zenon, <1>2, <1>3 DEF IsReading
  <2> QED BY Zenon, <2>1, <2>3, <2>4 DEF Alike
<1>5. r[n] = q[n]
  BY Zenon, <1>1, <1>4, RunsEnd
<1>6. n + 1 \in 1..Len(t) /\ (n + 1) - 1 = n /\ n \in 0..n
  BY <1>1
<1>7. q[n + 1] = Reads(q[n], x)
  BY Zenon, <1>1, <1>3, <1>6 DEF IsReading
<1>8. Strings(t) = q[n + 1] /\ Strings(s) = r[n]
  BY Zenon, <1>1, <1>2, <1>3 DEF IsReading, n
<1> QED BY Zenon, <1>2, <1>5, <1>6, <1>7, <1>8 DEF t

LEMMA AddsToLast ==
  ASSUME NEW ss \in Seq(Seq(Marks)), NEW u \in Seq(Marks), NEW c \in Marks
  PROVE  Adds(Append(ss, u), c) = At("string", Append(ss, Append(u, c)))
<1> DEFINE E == Seq(Marks)
           v == Append(u, c)
           n == Len(ss)
           old == Append(ss, u)
           new == Append(ss, v)
<1>1. v \in E /\ u \in E /\ ss \in Seq(E)
  BY AppendProperties
<1> HIDE DEF E, v
<1>2. /\ n \in Nat
      /\ old \in Seq(E) /\ Len(old) = n + 1 /\ old[n + 1] = u /\ \A i \in 1..n : old[i] = ss[i]
      /\ new \in Seq(E) /\ Len(new) = n + 1 /\ new[n + 1] = v /\ \A i \in 1..n : new[i] = ss[i]
  BY <1>1, AppendProperties
<1> HIDE DEF n, old, new
<1> DEFINE last == Len(old)
           both == [old EXCEPT ![last] = v]
<1>3. both = new
  <2>1. last = n + 1 /\ n + 1 \in 1..n+1
    BY <1>2
  <2>2. /\ both \in Seq(E) /\ Len(both) = n + 1
        /\ \A i \in 1..n+1 : both[i] = IF i = n + 1 THEN v ELSE old[i]
    BY <1>1, <1>2, <2>1, ExceptSeq
  <2> HIDE DEF both
  <2>3. \A i \in 1..n+1 : both[i] = new[i]
    <3> SUFFICES ASSUME NEW i \in 1..n+1 PROVE both[i] = new[i]
      OBVIOUS
    <3>1. i \in 1..n \/ i = n + 1
      BY <1>2
    <3>2. ASSUME i \in 1..n PROVE i # n + 1
      BY <1>2, <3>2
    <3> QED BY Zenon, <1>2, <2>2, <3>1, <3>2
  <2> QED BY <1>2, <2>2, <2>3, SeqEqual
<1>4. Adds(old, c) = At("string", [old EXCEPT ![last] = Append(old[last], c)])
  BY Zenon DEF Adds
<1>5. Append(old[last], c) = v
  BY Zenon, <1>2 DEF v
<1> QED BY Zenon, <1>3, <1>4, <1>5 DEF old, new, v

\* Where a reader is after an escape, and after the character it stands for.
LEMMA ReaderIs ==
  ASSUME NEW ss
  PROVE  /\ Reads(At("nothing", ss), "\"") = At("string", Append(ss, <<>>))
         /\ Reads(At("nothing", ss), ":") = At("nothing", ss)
         /\ Reads(At("string", ss), "\"") = At("nothing", ss)
         /\ Reads(At("string", ss), "\\") = At("escape", ss)
         /\ \A c : c # "\"" /\ c # "\\" => Reads(At("string", ss), c) = Adds(ss, c)
         /\ \A c : c # "u" => Reads(At("escape", ss), c) = Adds(ss, Unescaped(c))
         /\ Reads(At("escape", ss), "u") = At("code", ss)
         /\ \A c : Reads(At("code", ss), c) = Adds(ss, OfCode(c))
<1>1. \A in : At(in, ss).in = in /\ At(in, ss).strings = ss
  BY DEF At
<1>2. \A c : Reads(At("nothing", ss), c) =
              IF c = "\"" THEN At("string", Append(ss, <<>>)) ELSE At("nothing", ss)
  BY Zenon, <1>1 DEF Reads
<1>3. \A c : Reads(At("string", ss), c) =
              IF c = "\"" THEN At("nothing", ss)
              ELSE IF c = "\\" THEN At("escape", ss) ELSE Adds(ss, c)
  BY Zenon, <1>1 DEF Reads
<1>4. \A c : Reads(At("escape", ss), c) =
              IF c = "u" THEN At("code", ss) ELSE Adds(ss, Unescaped(c))
  BY Zenon, <1>1 DEF Reads
<1>5. \A c : Reads(At("code", ss), c) = Adds(ss, OfCode(c))
  BY Zenon, <1>1 DEF Reads
<1> QED BY Zenon, <1>2, <1>3, <1>4, <1>5

\* A character is read as itself, however it was escaped.
LEMMA ReadsEscape ==
  ASSUME NEW line \in Seq(Marks), NEW ss \in Seq(Seq(Marks)), NEW u \in Seq(Marks),
         NEW c \in Marks, Strings(line) = At("string", Append(ss, u))
  PROVE  /\ Escape(c) \in Seq(Marks \ Controls)
         /\ Strings(line \o Escape(c)) = At("string", Append(ss, Append(u, c)))
<1> DEFINE E == Marks
           old == Append(ss, u)
           done == At("string", Append(ss, Append(u, c)))
           Plain == Marks \ Controls
           slash1 == "\\"
<1>1. {"\"", "\\", ":", "n", "r", "t", "u"} \subseteq Plain
  BY Zenon, LogAssumption DEF Marks
<1>2. Adds(old, c) = done
  BY Zenon, AddsToLast
<1>3. Strings(line) = At("string", old)
  BY Zenon
<1>4. \A t \in Seq(E), x \in E : Append(t, x) \in Seq(E) /\ Strings(Append(t, x)) = Reads(Strings(t), x)
  <2> SUFFICES ASSUME NEW t \in Seq(E), NEW x \in E
               PROVE  Append(t, x) \in Seq(E) /\ Strings(Append(t, x)) = Reads(Strings(t), x)
    OBVIOUS
  <2>1. Append(t, x) \in Seq(E)
    BY AppendProperties
  <2> QED BY Zenon, <2>1, StringsAppend
<1>5. \A x : x \in Plain => x \in E
  BY Zenon
<1>51. slash1 \in Plain /\ slash1 \in E
  BY Zenon, <1>1, <1>5
<1> HIDE DEF E, old, done, Plain, slash1
<1>6. line \in Seq(E) /\ c \in E
  BY Zenon DEF E
<1>7. ASSUME NEW a \in Plain
      PROVE  <<a>> \in Seq(Plain) /\ line \o <<a>> = Append(line, a)
  BY <1>6, <1>7
<1>8. ASSUME NEW a \in Plain, NEW b \in Plain
      PROVE  <<a, b>> \in Seq(Plain) /\ line \o <<a, b>> = Append(Append(line, a), b)
  <2>1. a \in E /\ b \in E
    BY Zenon, <1>5
  <2> QED BY <1>6, <2>1
<1>9. ASSUME NEW a \in Plain, NEW b \in Plain, NEW d \in Plain
      PROVE  /\ <<a, b, d>> \in Seq(Plain)
             /\ line \o <<a, b, d>> = Append(Append(Append(line, a), b), d)
  <2>1. a \in E /\ b \in E /\ d \in E
    BY Zenon, <1>5
  <2> QED BY <1>6, <2>1
<1>60. Strings(Append(line, slash1)) = At("escape", old) /\ Append(line, slash1) \in Seq(E)
  <2>1. Reads(At("string", old), slash1) = At("escape", old)
    BY Zenon, ReaderIs DEF slash1
  <2> QED BY Zenon, <1>3, <1>4, <1>6, <1>51, <2>1
<1>10. ASSUME NEW b \in Plain, b # "u", Unescaped(b) = c, Escape(c) = <<slash1, b>>
       PROVE  Escape(c) \in Seq(Plain) /\ Strings(line \o Escape(c)) = done
  <2>1. b \in E
    BY Zenon, <1>5
  <2>2. Escape(c) \in Seq(Plain) /\ line \o Escape(c) = Append(Append(line, slash1), b)
    BY Zenon, <1>8, <1>10, <1>51
  <2>3. Reads(At("escape", old), b) = Adds(old, c)
    BY Zenon, <1>10, ReaderIs
  <2>4. Strings(Append(Append(line, slash1), b)) = Adds(old, c)
    BY Zenon, <1>4, <1>60, <2>1, <2>3
  <2> QED BY Zenon, <1>2, <2>2, <2>4
<1>11. CASE c \in {"\"", "\\"}
  <2>1. Escape(c) = <<slash1, c>> /\ Unescaped(c) = c /\ c # "u" /\ c \in Plain
    <3>1. c # "n" /\ c # "r" /\ c # "t" /\ c # "u"
      BY Zenon, <1>11
    <3>2. Unescaped(c) = c
      BY Zenon, <3>1 DEF Unescaped
    <3>3. c \in Plain
      BY Zenon, <1>1, <1>11
    <3>4. Escape(c) = <<slash1, c>>
      <4>1. c \notin Controls /\ c # "LF" /\ c # "CR" /\ c # "TAB"
        BY Zenon, <1>11, LogAssumption
      <4> QED BY Zenon, <1>11, <4>1 DEF Escape, slash1
    <3> QED BY Zenon, <3>1, <3>2, <3>3, <3>4
  <2> QED BY Zenon, <1>10, <2>1 DEF done, Plain
<1>12. CASE c = "LF"
  <2>1. Escape(c) = <<slash1, "n">> /\ Unescaped("n") = c /\ "n" # "u" /\ "n" \in Plain
    BY Zenon, <1>1, <1>12 DEF Escape, Unescaped, slash1
  <2> QED BY Zenon, <1>10, <2>1 DEF done, Plain
<1>13. CASE c = "CR"
  <2>1. Escape(c) = <<slash1, "r">> /\ Unescaped("r") = c /\ "r" # "u" /\ "r" \in Plain
    BY Zenon, <1>1, <1>13 DEF Escape, Unescaped, slash1
  <2> QED BY Zenon, <1>10, <2>1 DEF done, Plain
<1>14. CASE c = "TAB"
  <2>1. Escape(c) = <<slash1, "t">> /\ Unescaped("t") = c /\ "t" # "u" /\ "t" \in Plain
    BY Zenon, <1>1, <1>14 DEF Escape, Unescaped, slash1
  <2> QED BY Zenon, <1>10, <2>1 DEF done, Plain
<1>15. CASE c \in Controls \ {"LF", "CR", "TAB"}
  <2> DEFINE d == Codes[c]
  <2>1. d \in Plain /\ OfCode(d) = c
    <3>1. d \in {Codes[x] : x \in Controls}
      BY Zenon, <1>15
    <3>2. d \notin Controls
      BY Zenon, <3>1, LogAssumption
    <3>3. d \in Marks
      BY Zenon, <3>1 DEF Marks
    <3>4. \A x \in Controls : Codes[x] = d => x = c
      BY Zenon, <1>15, LogAssumption
    <3>5. OfCode(d) = c
      BY Zenon, <1>15, <3>4 DEF OfCode
    <3> QED BY Zenon, <3>2, <3>3, <3>5 DEF Plain
  <2> DEFINE mark == "u"
  <2>2. Escape(c) = <<slash1, mark, d>>
    <3>1. c \notin {"\"", "\\"} /\ c # "LF" /\ c # "CR" /\ c # "TAB"
      BY Zenon, <1>15, LogAssumption
    <3> QED BY Zenon, <1>15, <3>1 DEF Escape, slash1
  <2>3. mark \in Plain /\ mark \in E /\ d \in E
    BY Zenon, <1>1, <1>5, <2>1
  <2>4. Reads(At("escape", old), mark) = At("code", old) /\ Reads(At("code", old), d) = Adds(old, c)
    BY Zenon, <2>1, ReaderIs
  <2> HIDE DEF d, mark
  <2>5. /\ Escape(c) \in Seq(Plain)
        /\ line \o Escape(c) = Append(Append(Append(line, slash1), mark), d)
    <3>1. slash1 \in Plain /\ mark \in Plain /\ d \in Plain
      BY Zenon, <1>51, <2>1, <2>3
    <3>2. /\ <<slash1, mark, d>> \in Seq(Plain)
          /\ line \o <<slash1, mark, d>> = Append(Append(Append(line, slash1), mark), d)
      BY ONLY <3>1, <1>9
    <3> QED BY Zenon, <2>2, <3>2
  <2>6. /\ Strings(Append(Append(line, slash1), mark)) = At("code", old)
        /\ Append(Append(line, slash1), mark) \in Seq(E)
    BY Zenon, <1>4, <1>60, <2>3, <2>4
  <2>7. Strings(Append(Append(Append(line, slash1), mark), d)) = Adds(old, c)
    BY Zenon, <1>4, <2>3, <2>4, <2>6
  <2> QED BY Zenon, <1>2, <2>5, <2>7 DEF done, Plain
<1>16. CASE c \notin {"\"", "\\"} \cup Controls
  <2>1. c # "LF" /\ c # "CR" /\ c # "TAB"
    BY Zenon, <1>16, LogAssumption
  <2>2. Escape(c) = <<c>>
    BY Zenon, <1>16, <2>1 DEF Escape
  <2>3. c \in Plain
    BY Zenon, <1>16 DEF Plain
  <2>4. Strings(Append(line, c)) = Adds(old, c)
    BY Zenon, <1>3, <1>4, <1>6, <1>16, ReaderIs
  <2> QED BY Zenon, <1>2, <1>7, <2>2, <2>3, <2>4 DEF done, Plain
<1> QED BY Zenon, <1>11, <1>12, <1>13, <1>14, <1>15, <1>16

Plain == Marks \ Controls

LEMMA EscapeType == ASSUME NEW c \in Marks PROVE Escape(c) \in Seq(Plain)
<1> DEFINE none == <<>>
           quote == "\""
           E == Marks
<1>1. quote \in E
  BY Zenon DEF Marks
<1>2. none \in Seq(E) /\ none \in Seq(Seq(E))
  OBVIOUS
<1>3. Strings(none) = At("nothing", none)
  BY Zenon, StringsOfNothing
<1>4. Reads(At("nothing", none), quote) = At("string", Append(none, none))
  BY Zenon, ReaderIs
<1> HIDE DEF none, quote
<1>5. Strings(Append(none, quote)) = At("string", Append(none, none))
  BY Zenon, <1>1, <1>2, <1>3, <1>4, StringsAppend
<1>6. Append(none, quote) \in Seq(E)
  BY <1>1, <1>2, AppendProperties
<1> QED BY Zenon, <1>2, <1>5, <1>6, ReadsEscape DEF Plain

Escaped(text) == FlattenSeq([i \in 1..Len(text) |-> Escape(text[i])])

LEMMA EscapedAppend ==
  ASSUME NEW t \in Seq(Marks), NEW c \in Marks
  PROVE  /\ Escaped(t) \in Seq(Plain) /\ Escape(c) \in Seq(Plain)
         /\ Escaped(Append(t, c)) = Escaped(t) \o Escape(c)
<1> DEFINE n == Len(t)
           u == Append(t, c)
           pieces == [i \in 1..n |-> Escape(t[i])]
           more == [i \in 1..Len(u) |-> Escape(u[i])]
           x == Escape(c)
           P == Plain
           E == Marks
<1>1. /\ n \in Nat /\ Len(u) = n + 1 /\ u[n + 1] = c /\ \A i \in 1..n : u[i] = t[i]
      /\ \A i \in 1..n : t[i] \in E
  BY AppendProperties
<1>2. \A i \in 1..n : Escape(t[i]) \in Seq(P)
  BY Zenon, <1>1, EscapeType
<1>3. x \in Seq(P)
  BY Zenon, EscapeType
<1>4. pieces \in Seq(Seq(P)) /\ Len(pieces) = n /\ \A i \in 1..n : pieces[i] = Escape(t[i])
  BY <1>1, <1>2
<1> HIDE DEF x, P, n
<1>5. /\ Append(pieces, x) \in Seq(Seq(P)) /\ Len(Append(pieces, x)) = n + 1
      /\ Append(pieces, x)[n + 1] = x
      /\ \A i \in 1..n : Append(pieces, x)[i] = pieces[i]
  <2> HIDE DEF pieces
  <2> QED BY <1>1, <1>3, <1>4, AppendProperties
<1>6. more = Append(pieces, x)
  <2> HIDE DEF pieces, u
  <2>1. more = [i \in 1..n+1 |-> Escape(u[i])]
    BY Zenon, <1>1
  <2>2. \A i \in 1..n+1 : Escape(u[i]) = Append(pieces, x)[i]
    <3>1. \A i \in 1..n+1 : i \in 1..n \/ i = n + 1
      BY <1>1
    <3> QED BY Zenon, <1>1, <1>4, <1>5, <3>1 DEF x
  <2>3. more = [i \in 1..n+1 |-> Append(pieces, x)[i]]
    BY Zenon, <2>1, <2>2
  <2>4. Append(pieces, x) = [i \in 1..n+1 |-> Append(pieces, x)[i]]
    <3> DEFINE w == Append(pieces, x)
               E2 == Seq(P)
    <3>1. w \in Seq(E2) /\ Len(w) = n + 1
      BY Zenon, <1>5
    <3> HIDE DEF w, E2
    <3>2. w = [i \in 1..n+1 |-> w[i]]
      BY <3>1
    <3> QED BY Zenon, <3>2 DEF w
  <2> QED BY Zenon, <2>3, <2>4
<1> HIDE DEF pieces, more, u
<1>7. FlattenSeq(pieces) \in Seq(P) /\ FlattenSeq(Append(pieces, x)) = FlattenSeq(pieces) \o x
  BY ONLY <1>3, <1>4, FlattenAppend
<1> QED BY Zenon, <1>3, <1>6, <1>7 DEF Escaped, pieces, more, u, x, P, n

LEMMA EscapedNone == Escaped(<<>>) = <<>>
<1>1. [i \in 1..Len(<<>>) |-> Escape(<<>>[i])] = <<>>
  OBVIOUS
<1> QED BY Zenon, <1>1, FlattenEmpty DEF Escaped

LEMMA EscapedType == ASSUME NEW t \in Seq(Marks) PROVE Escaped(t) \in Seq(Plain)
<1>1. ":" \in Marks
  BY Zenon DEF Marks
<1> QED BY Zenon, <1>1, EscapedAppend

\* Text is read as what it was before it was escaped.
LEMMA ReadsText ==
  ASSUME NEW line \in Seq(Marks), NEW ss \in Seq(Seq(Marks)), NEW text \in Seq(Marks),
         Strings(line) = At("string", Append(ss, <<>>))
  PROVE  Strings(line \o Escaped(text)) = At("string", Append(ss, text))
<1> DEFINE E == Marks
           T == {t \in Seq(E) : Strings(line \o Escaped(t)) = At("string", Append(ss, t))}
<1>1. <<>> \in T
  <2>1. line \o <<>> = line /\ <<>> \in Seq(E)
    BY ConcatEmptySeq
  <2> QED BY Zenon, <2>1, EscapedNone
<1>2. ASSUME NEW t \in Seq(E), NEW c \in E, t \in T PROVE Append(t, c) \in T
  <2> DEFINE a == Escaped(t)
             b == Escape(c)
             u == Append(t, c)
  <2>1. a \in Seq(E) /\ b \in Seq(E) /\ Escaped(u) = a \o b
    <3>1. a \in Seq(Plain) /\ b \in Seq(Plain) /\ Escaped(u) = a \o b
      BY Zenon, EscapedAppend
    <3>2. Plain \subseteq E
      BY Zenon DEF Plain
    <3> HIDE DEF a, b, E
    <3> QED BY <3>1, <3>2, SeqMonotonic
  <2>2. Strings(line \o a) = At("string", Append(ss, t))
    BY Zenon, <1>2
  <2> HIDE DEF E
  <2>3. line \in Seq(E) /\ t \in Seq(E) /\ c \in E
    BY Zenon, <1>2 DEF E
  <2> HIDE DEF a, b, u
  <2>4. line \o a \in Seq(E) /\ (line \o a) \o b = line \o (a \o b)
    BY ONLY <2>1, <2>3, ConcatProperties, ConcatAssociative
  <2>5. Strings((line \o a) \o b) = At("string", Append(ss, Append(t, c)))
    BY Zenon, <2>2, <2>3, <2>4, ReadsEscape DEF b, E
  <2>6. u \in Seq(E)
    BY <2>3, AppendProperties DEF u
  <2> QED BY Zenon, <2>1, <2>4, <2>5, <2>6 DEF u, E
<1> HIDE DEF T, E
<1>3. Seq(E) \subseteq T
  BY <1>1, <1>2, AppendInduction
<1> QED BY Zenon, <1>3 DEF T, E

LEMMA ReadsMember ==
  ASSUME NEW line \in Seq(Marks), NEW ss \in Seq(Seq(Marks)), NEW text \in Seq(Marks),
         Strings(line) = At("nothing", ss)
  PROVE  /\ Member(text) \in Seq(Plain)
         /\ Strings(line \o Member(text)) = At("nothing", Append(ss, text))
<1> DEFINE E == Marks
           P == Plain
           colon == ":"
           quote == "\""
           none == <<>>
           body == Escaped(text)
           opened == Append(Append(line, colon), quote)
<1>1. colon \in P /\ quote \in P /\ P \subseteq E
  BY Zenon, LogAssumption DEF Marks, Plain
<1>2. body \in Seq(P)
  BY Zenon, EscapedType
<1>3. Member(text) = (<<colon, quote>> \o body) \o <<quote>>
  BY Zenon DEF Member, Escaped
<1>4. /\ Reads(At("nothing", ss), colon) = At("nothing", ss)
      /\ Reads(At("nothing", ss), quote) = At("string", Append(ss, <<>>))
      /\ Reads(At("string", Append(ss, text)), quote) = At("nothing", Append(ss, text))
  BY Zenon, ReaderIs
<1>5. line \in Seq(E) /\ text \in Seq(E) /\ ss \in Seq(Seq(E)) /\ Strings(line) = At("nothing", ss)
  BY Zenon
<1> HIDE DEF E, P, colon, quote, body
<1>6. body \in Seq(E) /\ colon \in E /\ quote \in E
  BY <1>1, <1>2, SeqMonotonic
<1>7. Append(line, colon) \in Seq(E) /\ opened \in Seq(E)
  BY <1>5, <1>6, AppendProperties
<1>8. Strings(Append(line, colon)) = At("nothing", ss)
  BY Zenon, <1>4, <1>5, <1>6, StringsAppend DEF E
<1>9. Strings(opened) = At("string", Append(ss, <<>>))
  BY Zenon, <1>4, <1>6, <1>7, <1>8, StringsAppend DEF E
<1>10. Member(text) \in Seq(P)
  <2>1. <<colon, quote>> \in Seq(P) /\ <<quote>> \in Seq(P)
    BY <1>1
  <2> DEFINE a == <<colon, quote>>
             b == <<quote>>
  <2>2. a \in Seq(P) /\ b \in Seq(P)
    BY Zenon, <2>1
  <2> HIDE DEF a, b
  <2>3. a \o body \in Seq(P)
    BY <1>2, <2>2, ConcatProperties
  <2>4. (a \o body) \o b \in Seq(P)
    BY <2>2, <2>3, ConcatProperties
  <2> QED BY Zenon, <1>3, <2>4 DEF a, b
<1> HIDE DEF opened
<1>11. opened \o body \in Seq(E)
  BY <1>6, <1>7, ConcatProperties
<1>12. Strings(opened \o body) = At("string", Append(ss, text))
  BY Zenon, <1>5, <1>7, <1>9, ReadsText DEF E, body
<1>13. Strings(Append(opened \o body, quote)) = At("nothing", Append(ss, text))
  BY Zenon, <1>4, <1>6, <1>11, <1>12, StringsAppend DEF E
<1>14. line \o ((<<colon, quote>> \o body) \o <<quote>>) = Append(opened \o body, quote)
  <2> DEFINE a == <<colon, quote>>
             b == <<quote>>
  <2>1. a \in Seq(E) /\ b \in Seq(E) /\ line \o a = opened
    BY <1>5, <1>6 DEF opened
  <2>2. \A w \in Seq(E) : w \o b = Append(w, quote)
    BY <1>6
  <2> HIDE DEF a, b
  <2>3. a \o body \in Seq(E)
    BY <1>6, <2>1, ConcatProperties
  <2> DEFINE mid == a \o body
  <2>4. (line \o mid) \o b = line \o (mid \o b)
    <3>1. line \in Seq(E) /\ b \in Seq(E) /\ mid \in Seq(E)
      BY Zenon, <1>5, <2>1, <2>3
    <3> HIDE DEF mid
    <3>2. Associates(line, mid, b)
      BY Zenon, <3>1, Regroup
    <3> QED BY Zenon, <3>2 DEF Associates
  <2>5. (line \o a) \o body = line \o (a \o body)
    <3>1. line \in Seq(E) /\ a \in Seq(E) /\ body \in Seq(E)
      BY Zenon, <1>5, <1>6, <2>1
    <3>2. Associates(line, a, body)
      BY Zenon, <3>1, Regroup
    <3> QED BY Zenon, <3>2 DEF Associates
  <2> QED BY Zenon, <1>11, <2>1, <2>2, <2>4, <2>5 DEF a, b
<1> QED BY Zenon, <1>3, <1>10, <1>13, <1>14 DEF P

\* The record of a request is read as its method and its path.
LEMMA RecordIs ==
  ASSUME NEW method \in Seq(Marks), NEW path \in Seq(Marks)
  PROVE  /\ Record(method, path) \in Seq(Plain)
         /\ Strings(Record(method, path)) = At("nothing", <<method, path>>)
<1> DEFINE E == Marks
           F == Seq(E)
           none == <<>>
           a == Member(method)
           b == Member(path)
           one == Append(none, method)
<1>1. none \in Seq(E) /\ none \in Seq(F)
  OBVIOUS
<1>2. Strings(none) = At("nothing", none)
  BY Zenon, StringsOfNothing
<1>3. \A w \in Seq(E) : none \o w = w
  BY ConcatEmptySeq
<1>4. one \in Seq(F) /\ Append(one, path) = <<method, path>>
  <2>1. method \in F /\ path \in F
    BY Zenon
  <2> HIDE DEF F
  <2>2. one = <<method>> /\ one \in Seq(F)
    BY <2>1
  <2>3. Append(<<method>>, path) = <<method, path>>
    BY Zenon, <2>1, PairIs
  <2> QED BY Zenon, <2>2, <2>3
<1> HIDE DEF none, one
<1>5. a \in Seq(Plain) /\ Strings(none \o a) = At("nothing", one)
  BY Zenon, <1>1, <1>2, ReadsMember DEF one
<1>6. a \in Seq(E) /\ Strings(a) = At("nothing", one)
  <2>1. Plain \subseteq E
    BY Zenon DEF Plain
  <2> HIDE DEF a, E
  <2>2. a \in Seq(E)
    BY <1>5, <2>1, SeqMonotonic
  <2> QED BY Zenon, <1>3, <1>5, <2>2
<1>7. b \in Seq(Plain) /\ Strings(a \o b) = At("nothing", Append(one, path))
  BY Zenon, <1>4, <1>6, ReadsMember
<1> HIDE DEF a, b
<1>8. a \o b \in Seq(Plain)
  BY <1>5, <1>7, ConcatProperties
<1> QED BY Zenon, <1>4, <1>7, <1>8 DEF Record, a, b

-----------------------------------------------------------------------------
(* What is returned, and what is written of it. *)

Statuses == {0, 200, 304, 400, 404, 405}

\* This method and this path are the request's, as far as it was read.
Tells(method, path) ==
  \/ parsing = "BadRequest" /\ method = Unknown /\ path = <<>>
  \/ parsing = "MethodNotAllowed" /\ method = requestLine.method /\ path = <<>>
  \/ /\ parsing = "accepted" /\ decoding \in {"accepted", "BadRequest"}
     /\ method = requestLine.method /\ path = PathForLog(requestLine.target)

OutcomeInv ==
  /\ outcome.status \in Statuses
  /\ outcome = NoOutcome => log = <<>>
  /\ outcome # NoOutcome => Tells(outcome.method, outcome.path)
  /\ log # <<>> => log = Record(outcome.method, outcome.path)

LEMMA ReturnsInv ==
  ASSUME OutcomeInv, NEW status \in Statuses, NEW method, NEW path,
         Returns(status, method, path), Tells(method, path)
  PROVE  OutcomeInv'
<1> DEFINE r == [status |-> status, method |-> method, path |-> path]
<1>1. outcome = NoOutcome /\ outcome' = r /\ UNCHANGED <<parserVars, decoderVars, log>>
  BY Zenon DEF Returns
<1>2. parsing' = parsing /\ requestLine' = requestLine /\ decoding' = decoding /\ log' = log
  BY ONLY <1>1, SMT DEF parserVars, decoderVars
<1>3. r.status = status /\ r.method = method /\ r.path = path
  BY ONLY SMT
<1> HIDE DEF r
<1>4. outcome'.status = status /\ outcome'.method = method /\ outcome'.path = path
  BY Zenon, <1>1, <1>3
<1>5. log' = <<>>
  BY Zenon, <1>1, <1>2 DEF OutcomeInv
<1>6. Tells(outcome.method, outcome.path)'
  BY Zenon, <1>2, <1>4 DEF Tells, PathForLog
<1>7. outcome'.status \in Statuses
  BY Zenon, <1>4
<1> QED BY Zenon, <1>5, <1>6, <1>7 DEF OutcomeInv

LEMMA OutcomeStepInv ==
  ASSUME OutcomeInv, TargetIsTheRequests, [RequestNext]_requestVars PROVE OutcomeInv'
<1>0. {200, 304, 400, 404, 405} \subseteq Statuses /\ 400 \in Statuses /\ 405 \in Statuses
  BY SMT DEF Statuses
<1>1. ASSUME outcome' = outcome, log' = log, outcome # NoOutcome => Tells(outcome.method, outcome.path)' PROVE OutcomeInv'
  BY Zenon, <1>1 DEF OutcomeInv
<1>2. UNCHANGED ownVars => outcome' = outcome /\ log' = log
  BY SMT DEF ownVars
<1>3. UNCHANGED parserVars => parsing' = parsing /\ requestLine' = requestLine
  BY SMT DEF parserVars
<1>4. UNCHANGED decoderVars => decoding' = decoding
  BY SMT DEF decoderVars
<1>5. outcome # NoOutcome => Tells(outcome.method, outcome.path)
  BY Zenon DEF OutcomeInv
<1>6. parsing' = parsing /\ requestLine' = requestLine /\ decoding' = decoding
      /\ outcome' = outcome /\ Tells(outcome.method, outcome.path) => Tells(outcome.method, outcome.path)'
  BY Zenon DEF Tells, PathForLog
<1>7. CASE ParserStep /\ UNCHANGED <<decoderVars, ownVars>>
  <2>1. parsing \notin {"accepted", "BadRequest", "MethodNotAllowed"}
    BY Zenon, <1>7 DEF ParserStep, ReadRequestLine, ReadHeader, EndHeaders, NextItem, Accept
  <2>2. outcome = NoOutcome
    BY Zenon, <1>5, <2>1 DEF Tells
  <2> QED BY Zenon, <1>1, <1>2, <1>7, <2>2
<1>8. CASE RefusesHeader
  <2>1. CASE parsing = "BadRequest" /\ Returns(400, Unknown, <<>>)
    BY Zenon, <1>0, <2>1, ReturnsInv DEF Tells
  <2>2. CASE parsing = "MethodNotAllowed" /\ Returns(405, requestLine.method, <<>>)
    BY Zenon, <1>0, <2>2, ReturnsInv DEF Tells
  <2> QED BY Zenon, <1>8, <2>1, <2>2 DEF RefusesHeader
<1>9. CASE DecodesTarget
  <2>1. parsing = "accepted" /\ decoding = "idle" /\ UNCHANGED ownVars
    BY Zenon, <1>9 DEF DecodesTarget, StartDecoding
  <2>2. outcome = NoOutcome
    BY Zenon, <1>5, <2>1 DEF Tells
  <2> QED BY Zenon, <1>1, <1>2, <2>1, <2>2
<1>10. CASE DecoderStep /\ UNCHANGED <<parserVars, ownVars>>
  <2>1. decoding \in {"decode", "split"}
    BY Zenon, <1>10
    DEF DecoderStep, DecodePlain, DecodeEscape, CheckDecoded, SplitNext, EndSplit
  <2>2. parsing = "accepted"
    BY Zenon, <2>1 DEF TargetIsTheRequests
  <2>3. outcome = NoOutcome
    BY Zenon, <1>5, <2>1, <2>2 DEF Tells
  <2> QED BY Zenon, <1>1, <1>2, <1>10, <2>3
<1>11. CASE RefusesTarget
  <2>1. decoding = "BadRequest" /\ Returns(400, requestLine.method, PathForLog(requestLine.target))
    BY Zenon, <1>11 DEF RefusesTarget
  <2>2. parsing = "accepted"
    BY Zenon, <2>1 DEF TargetIsTheRequests
  <2>3. Tells(requestLine.method, PathForLog(requestLine.target))
    BY Zenon, <2>1, <2>2 DEF Tells
  <2> QED BY Zenon, <1>0, <2>1, <2>3, ReturnsInv
<1>12. ASSUME NEW status \in {200, 304, 404}, Answers(status) PROVE OutcomeInv'
  <2>1. decoding = "accepted" /\ Returns(status, requestLine.method, PathForLog(requestLine.target))
    BY Zenon, <1>12 DEF Answers
  <2>2. parsing = "accepted"
    BY Zenon, <2>1 DEF TargetIsTheRequests
  <2>3. status \in Statuses
    BY SMT DEF Statuses
  <2>4. Tells(requestLine.method, PathForLog(requestLine.target))
    BY Zenon, <2>1, <2>2 DEF Tells
  <2> QED BY SMT, <2>1, <2>3, <2>4, ReturnsInv
<1>13. CASE AnswersHealth \/ ServesStatic
  BY Zenon, <1>12, <1>13 DEF AnswersHealth, ServesStatic
<1>14. CASE LogsRequest
  <2>1. /\ outcome # NoOutcome /\ log' = Record(outcome.method, outcome.path)
        /\ outcome' = outcome /\ UNCHANGED <<parserVars, decoderVars>>
    BY Zenon, <1>14 DEF LogsRequest
  <2>2. Tells(outcome.method, outcome.path)'
    BY Zenon, <1>3, <1>4, <1>5, <1>6, <2>1
  <2> QED BY Zenon, <2>1, <2>2 DEF OutcomeInv
<1>15. CASE UNCHANGED requestVars
  <2>1. UNCHANGED parserVars /\ UNCHANGED decoderVars /\ UNCHANGED ownVars
    BY Zenon, <1>15 DEF requestVars
  <2> QED BY Zenon, <1>1, <1>2, <1>3, <1>4, <1>5, <1>6, <2>1
<1> QED BY Zenon, <1>7, <1>8, <1>9, <1>10, <1>11, <1>13, <1>14, <1>15 DEF RequestNext

LEMMA OutcomeInitInv == RequestInit => OutcomeInv
<1> SUFFICES ASSUME RequestInit PROVE OutcomeInv
  OBVIOUS
<1>1. outcome = NoOutcome /\ log = <<>>
  BY Zenon DEF RequestInit
<1>2. outcome.status \in Statuses
  BY ONLY <1>1, SMT DEF NoOutcome, Statuses
<1> QED BY Zenon, <1>1, <1>2 DEF OutcomeInv

\* What is returned for a request, and what is written of it, is the request's.
THEOREM OutcomeInvariant == RequestSpec => [](RequestInv /\ OutcomeInv)
<1>1. RequestInv => TargetIsTheRequests
  BY Zenon DEF RequestInv
<1> QED BY <1>1, RequestInvariant, OutcomeInitInv, OutcomeStepInv, PTL DEF RequestSpec

-----------------------------------------------------------------------------
(* The types, and the record. *)

LEMMA ReverseIs ==
  ASSUME NEW E, NEW s \in Seq(E)
  PROVE  /\ Reverse(s) \in Seq(E) /\ Len(Reverse(s)) = Len(s)
         /\ \A i \in 1..Len(s) : Reverse(s)[i] = s[Len(s) - i + 1]
BY DEF Reverse

LEMMA EndsIsSuffix ==
  ASSUME NEW E, NEW r \in Seq(E), NEW d \in Seq(E), Ends(r, d)
  PROVE  IsSuffix(r, d)
<1> DEFINE n == Len(r)
           rr == Reverse(r)
           rd == Reverse(d)
<1>1. n \in Nat /\ n <= Len(d) /\ Len(d) \in Nat
  BY DEF Ends
<1>2. /\ rr \in Seq(E) /\ Len(rr) = n
      /\ rd \in Seq(E) /\ Len(rd) = Len(d)
      /\ \A i \in 1..n : rr[i] = r[n - i + 1]
      /\ \A i \in 1..Len(d) : rd[i] = d[Len(d) - i + 1]
  BY ReverseIs
<1>3. \A i \in 1..n : r[i] = d[Len(d) - n + i]
  BY DEF Ends
<1> HIDE DEF rr, rd
<1>4. ASSUME NEW i \in 1..n PROVE rr[i] = rd[i]
  <2>1. n - i + 1 \in 1..n /\ i \in 1..Len(d)
    BY <1>1
  <2>2. Len(d) - n + (n - i + 1) = Len(d) - i + 1
    BY <1>1
  <2> QED BY <1>2, <1>3, <2>1, <2>2
<1> DEFINE sr == SubSeq(rr, 1, n)
           sd == SubSeq(rd, 1, n)
<1>5. /\ sr \in Seq(E) /\ Len(sr) = n /\ \A i \in 1..n : sr[i] = rr[i]
      /\ sd \in Seq(E) /\ Len(sd) = n /\ \A i \in 1..n : sd[i] = rd[i]
  <2>1. n \in 0..Len(rr) /\ n \in 0..Len(rd)
    BY <1>1, <1>2
  <2> QED BY <1>2, <2>1, PrefixElements
<1> HIDE DEF sr, sd
<1>6. sr = sd
  BY <1>4, <1>5, SeqEqual
<1>7. Len(rr) <= Len(rd) /\ SubSeq(rr, 1, Len(rr)) = SubSeq(rd, 1, Len(rr))
  <2>1. SubSeq(rr, 1, n) = SubSeq(rd, 1, n)
    BY Zenon, <1>6 DEF sr, sd
  <2> QED BY <1>1, <1>2, <2>1
<1> QED BY Zenon, <1>7 DEF IsSuffix, IsPrefix, rr, rd

\* The path of a record is the target before its first question mark.
IsPathOf(path, whole) ==
  /\ IsPrefix(path, whole) /\ "?" \notin ToSet(path)
  /\ path # whole => whole[Len(path) + 1] = "?"

LEMMA PathForLogIs ==
  ASSUME NEW E, NEW whole \in Seq(E)
  PROVE  PathForLog(whole) \in Seq(E) /\ IsPathOf(PathForLog(whole), whole)
<1> DEFINE path == PathForLog(whole)
           n == Len(path)
           mark == "?"
<1>0. path = Split(whole, mark)[1]
  BY Zenon DEF PathForLog
<1> HIDE DEF path, mark
<1>1. /\ path \in Seq(E \ {mark}) /\ n <= Len(whole)
      /\ path = SubSeq(whole, 1, n)
      /\ n # Len(whole) => whole[n + 1] = mark
  <2> DEFINE q == Split(whole, mark)[1]
  <2>1. /\ q \in Seq(E \ {mark}) /\ Len(q) <= Len(whole)
        /\ q = SubSeq(whole, 1, Len(q))
        /\ Len(q) # Len(whole) => whole[Len(q) + 1] = mark
    BY ONLY SplitFirst, whole \in Seq(E)
  <2> HIDE DEF q
  <2> QED BY Zenon, <1>0, <2>1 DEF q
<1>2. path \in Seq(E) /\ mark \notin ToSet(path)
  <2>1. path \in Seq(E)
    BY <1>1, SeqMonotonic
  <2>2. \A i \in 1..Len(path) : path[i] \in E \ {mark}
    BY <1>1
  <2>3. DOMAIN path = 1..Len(path)
    BY <2>1
  <2> QED BY Zenon, <2>1, <2>2, <2>3 DEF ToSet
<1>3. SubSeq(path, 1, n) = path
  BY <1>2
<1>4. IsPrefix(path, whole)
  BY Zenon, <1>1, <1>3 DEF IsPrefix
<1>5. n = Len(whole) => path = whole
  <2>1. SubSeq(whole, 1, Len(whole)) = whole
    OBVIOUS
  <2> QED BY Zenon, <1>1, <2>1
<1> QED BY Zenon, <1>1, <1>2, <1>4, <1>5 DEF IsPathOf, path, mark

LEMMA ToldType ==
  ASSUME ParserInv, NEW method, NEW path, Tells(method, path)
  PROVE  method \in Seq(Marks) /\ path \in Seq(Marks)
<1> DEFINE Texts == STRING
<1>1. requestLine.method \in Seq(Texts) /\ requestLine.target \in Seq(Texts)
  <2>1. requestLine \in [formed : BOOLEAN, method : Seq(Texts), target : Seq(Texts), version : Texts]
    BY Zenon, ParserAssumption DEF ParserInv
  <2> HIDE DEF Texts
  <2> QED BY <2>1
<1>2. Texts \subseteq Marks
  BY Zenon DEF Marks
<1> HIDE DEF Texts
<1>3. requestLine.method \in Seq(Marks) /\ requestLine.target \in Seq(Marks)
  BY <1>1, <1>2, SeqMonotonic
<1>4. PathForLog(requestLine.target) \in Seq(Marks)
  BY Zenon, <1>3, PathForLogIs
<1>5. Unknown \in Seq(Marks)
  <2> DEFINE word == "UNKNOWN"
  <2>1. word \in Marks
    BY Zenon DEF Marks
  <2>2. Unknown = <<word>>
    BY Zenon DEF Unknown
  <2> HIDE DEF word
  <2> QED BY <2>1, <2>2
<1>6. <<>> \in Seq(Marks)
  OBVIOUS
<1> QED BY Zenon, <1>3, <1>4, <1>5, <1>6 DEF Tells

LEMMA LogIs ==
  ASSUME ParserInv, OutcomeInv, log # <<>>
  PROVE  /\ log \in Seq(Plain)
         /\ Strings(log) = At("nothing", <<outcome.method, outcome.path>>)
         /\ Tells(outcome.method, outcome.path)
<1>1. Tells(outcome.method, outcome.path) /\ log = Record(outcome.method, outcome.path)
  BY Zenon DEF OutcomeInv
<1>2. outcome.method \in Seq(Marks) /\ outcome.path \in Seq(Marks)
  BY Zenon, <1>1, ToldType
<1> QED BY Zenon, <1>1, <1>2, RecordIs

\* The parser, the decoder and the log stay within their types: the decoder never
\* reads past the path, what it has not split is the end of what it decoded, no
\* control character is in a record.
THEOREM RequestIsTyped == RequestSpec => []RequestTypeOK
<1>1. RequestInv /\ OutcomeInv => RequestTypeOK
  <2> SUFFICES ASSUME RequestInv, OutcomeInv PROVE RequestTypeOK
    OBVIOUS
  <2>1. ParserInv /\ ParserTypeOK /\ TargetIsTheRequests /\ DecoderShape /\ PathIsRead
    BY Zenon DEF RequestInv, ParserInv, DecoderInv
  <2>2. DecoderTypeOK
    <3>1. Len(decoded) < cursor
      BY Zenon, <2>1 DEF PathIsRead, ReadTo
    <3>2. IsSuffix(rest, decoded)
      BY Zenon, <2>1, EndsIsSuffix DEF DecoderShape
    <3>3. Len(components) <= Len(decoded)
      <4>1. /\ Len(components) + Len(rest) <= Len(decoded)
            /\ rest \in Seq(Bytes) /\ decoded \in Seq(Bytes) /\ components \in Seq(Seq(Bytes))
        BY Zenon, <2>1 DEF DecoderShape
      <4> QED BY ONLY <4>1, SMT
    <3> QED BY Zenon, <2>1, <3>1, <3>2, <3>3 DEF DecoderTypeOK, DecoderShape
  <2>3. outcome.status \in {0, 200, 304, 400, 404, 405}
    BY Zenon DEF OutcomeInv, Statuses
  <2>4. ToSet(log) \cap Controls = {}
    <3>1. CASE log = <<>>
      BY ONLY <3>1, SMT DEF ToSet
    <3>2. CASE log # <<>>
      <4>1. log \in Seq(Plain)
        BY Zenon, <2>1, <3>2, LogIs
      <4>2. DOMAIN log = 1..Len(log) /\ \A i \in 1..Len(log) : log[i] \in Plain
        BY ONLY <4>1
      <4> QED BY Zenon, <4>2 DEF ToSet, Plain
    <3> QED BY Zenon, <3>1, <3>2
  <2> QED BY Zenon, <2>1, <2>2, <2>3, <2>4 DEF RequestTypeOK, TargetIsTheRequests
<1> QED BY <1>1, OutcomeInvariant, PTL

\* Whatever a request holds, its record is read as its method and its path.
THEOREM RecordsAreTrue == RequestSpec => []RecordIsTrue
<1>1. RequestInv /\ OutcomeInv => RecordIsTrue
  <2> SUFFICES ASSUME RequestInv, OutcomeInv, log # <<>>
               PROVE  LET read == Strings(log)
                          path == read.strings[2]
                      IN /\ read.in = "nothing" /\ Len(read.strings) = 2
                         /\ read.strings[1] = IF parsing = "BadRequest" THEN Unknown
                                              ELSE requestLine.method
                         /\ IF parsing # "accepted" THEN path = <<>>
                            ELSE /\ IsPrefix(path, target) /\ "?" \notin ToSet(path)
                                 /\ path # target => target[Len(path) + 1] = "?"
    BY Zenon DEF RecordIsTrue
  <2>1. ParserInv /\ TargetIsTheRequests
    BY Zenon DEF RequestInv
  <2> DEFINE m == outcome.method
             p == outcome.path
             read == Strings(log)
             two == <<m, p>>
  <2>2. read = At("nothing", two) /\ Tells(m, p)
    BY Zenon, <2>1, LogIs
  <2>3. read.in = "nothing" /\ read.strings = two
    <3>1. \A place, strings : At(place, strings).in = place /\ At(place, strings).strings = strings
      BY DEF At
    <3> QED BY ONLY <2>2, <3>1, Zenon
  <2>4. Len(two) = 2 /\ two[1] = m /\ two[2] = p
    OBVIOUS
  <2> HIDE DEF read, two, m, p
  <2>5. m = IF parsing = "BadRequest" THEN Unknown ELSE requestLine.method
    BY Zenon, <2>2 DEF Tells
  <2>6. ASSUME parsing # "accepted" PROVE p = <<>>
    BY Zenon, <2>2, <2>6 DEF Tells
  <2>7. ASSUME parsing = "accepted" PROVE IsPathOf(p, target)
    <3>1. p = PathForLog(requestLine.target) /\ decoding # "idle"
      BY Zenon, <2>2, <2>7 DEF Tells
    <3>2. target = requestLine.target /\ requestLine.target \in Seq(Bytes)
      BY Zenon, <2>1, <2>7, <3>1, TargetType DEF TargetIsTheRequests
    <3> QED BY Zenon, <3>1, <3>2, PathForLogIs
  <2> QED BY Zenon, <2>3, <2>4, <2>5, <2>6, <2>7 DEF IsPathOf, read
<1> QED BY <1>1, OutcomeInvariant, PTL


-----------------------------------------------------------------------------
(* If-None-Match: what a split at commas finds is what the quotes say. *)

Blank == " "
Comma == ","
Quote == "\""
Weak == "W/"
Star == "*"

LEMMA SymbolsDiffer ==
  /\ Blank \notin {Comma, Quote, Weak, Star, Own} /\ Comma \notin {Quote, Weak, Star, Own}
  /\ Quote \notin {Weak, Star, Own} /\ Weak \notin {Star, Own}
BY Zenon, TagsAssumption DEF Blank, Comma, Quote, Weak, Star

\* All but blanks is from p to q.
Spans(s, p, q) ==
  /\ p \in 1..Len(s) /\ q \in 1..Len(s) /\ p <= q
  /\ \A i \in 1..Len(s) : s[i] # Blank => p <= i /\ i <= q

TextOf(s) == {i \in 1..Len(s) : s[i] # Blank}

LEMMA TrimText ==
  ASSUME NEW s
  PROVE  Trim(s) = IF TextOf(s) = {} THEN <<>> ELSE SubSeq(s, Min(TextOf(s)), Max(TextOf(s)))
BY Zenon DEF Trim, TextOf, Blank

LEMMA TrimIs ==
  ASSUME NEW E, NEW s \in Seq(E), NEW p, NEW q, Spans(s, p, q), s[p] # Blank, s[q] # Blank
  PROVE  Trim(s) = SubSeq(s, p, q)
<1>1. /\ p \in TextOf(s) /\ q \in TextOf(s) /\ TextOf(s) \subseteq Nat /\ TextOf(s) # {}
      /\ \A i \in TextOf(s) : p <= i /\ i <= q
  BY DEF TextOf, Spans
<1>2. Max(TextOf(s)) = q
  BY <1>1, MaxIs
<1>3. Min(TextOf(s)) = p
  <2> DEFINE S == TextOf(s)
             m == Min(S)
  <2>1. m \in S /\ m <= p
    BY <1>1, MinOf
  <2> HIDE DEF S, m
  <2>2. m \in Nat /\ p \in Nat /\ p <= m
    BY <1>1, <2>1 DEF S
  <2>3. m = p
    BY ONLY <2>1, <2>2
  <2> QED BY Zenon, <2>3 DEF m, S
<1> QED BY Zenon, <1>1, <1>2, <1>3, TrimText

LEMMA TrimOf ==
  ASSUME NEW E, NEW s \in Seq(E), Trim(s) # <<>>
  PROVE  \E p, q : Spans(s, p, q) /\ Trim(s) = SubSeq(s, p, q)
<1> DEFINE text == TextOf(s)
<1>1. text # {} /\ Trim(s) = SubSeq(s, Min(text), Max(text))
  BY Zenon, TrimText
<1>2. Len(s) \in Nat /\ text \in SUBSET (1..Len(s)) /\ text \subseteq Nat
      /\ \A i \in 1..Len(s) : s[i] # Blank => i \in text
  BY DEF TextOf
<1> HIDE DEF text
<1>3. Max(text) \in text /\ \A i \in text : i <= Max(text)
  BY ONLY <1>1, <1>2, MaxOf
<1>4. Min(text) \in text /\ \A i \in text : Min(text) <= i
  BY ONLY <1>1, <1>2, MinOf
<1>5. Min(text) \in 1..Len(s) /\ Max(text) \in 1..Len(s) /\ Min(text) <= Max(text)
  BY Zenon, <1>2, <1>3, <1>4
<1> QED BY Zenon, <1>1, <1>2, <1>3, <1>4, <1>5 DEF Spans

LEMMA Parity ==
  \A n \in Nat : \/ n % 2 = 0 /\ (n + 1) % 2 = 1
                 \/ n % 2 = 1 /\ (n + 1) % 2 = 0 /\ n # 0
OBVIOUS

LEMMA QuotesAre ==
  ASSUME NEW E, NEW h \in Seq(E)
  PROVE  /\ Quotes(h) \in SUBSET (1..Len(h)) /\ Quotes(h) \subseteq Nat /\ IsFiniteSet(Quotes(h))
         /\ Cardinality(Quotes(h)) \in Nat
         /\ \A i : IsFiniteSet({q \in Quotes(h) : q < i})
         /\ \A i : QuotesBefore(h, i) \in Nat
<1>1. Quotes(h) \in SUBSET (1..Len(h)) /\ Len(h) \in Nat /\ Quotes(h) \subseteq Nat
  <2>1. Quotes(h) \in SUBSET (1..Len(h))
    BY Zenon DEF Quotes
  <2> QED BY <2>1
<1>2. IsFiniteSet(1..Len(h))
  BY <1>1, FS_Interval
<1>3. IsFiniteSet(Quotes(h))
  BY <1>1, <1>2, FS_Subset
<1>4. ASSUME NEW i PROVE IsFiniteSet({q \in Quotes(h) : q < i})
  <2>1. {q \in Quotes(h) : q < i} \subseteq Quotes(h)
    BY Zenon
  <2> QED BY <1>3, <2>1, FS_Subset
<1>5. \A i : QuotesBefore(h, i) \in Nat
  <2> SUFFICES ASSUME NEW i PROVE QuotesBefore(h, i) \in Nat
    OBVIOUS
  <2> DEFINE S == {q \in Quotes(h) : q < i}
  <2>1. IsFiniteSet(S)
    BY Zenon, <1>4
  <2> HIDE DEF S
  <2>2. Cardinality(S) \in Nat
    BY <2>1, FS_CardinalityType
  <2> QED BY Zenon, <2>2 DEF QuotesBefore, S
<1>6. Cardinality(Quotes(h)) \in Nat
  BY <1>3, FS_CardinalityType
<1> QED BY Zenon, <1>1, <1>3, <1>4, <1>5, <1>6

\* Where there is no quote, the count of them stays.
LEMMA CountStays ==
  ASSUME NEW E, NEW h \in Seq(E), NEW i \in Nat, NEW j \in Nat, i <= j,
         \A q \in Quotes(h) : ~(i <= q /\ q < j)
  PROVE  QuotesBefore(h, j) = QuotesBefore(h, i)
<1>1. Quotes(h) \subseteq Nat
  BY Zenon, QuotesAre
<1>2. {q \in Quotes(h) : q < j} = {q \in Quotes(h) : q < i}
  BY <1>1
<1> QED BY Zenon, <1>2 DEF QuotesBefore

\* After a quote, it has grown by one.
LEMMA CountGrows ==
  ASSUME NEW E, NEW h \in Seq(E), NEW p \in Quotes(h), NEW j \in Nat, p < j,
         \A q \in Quotes(h) : ~(p < q /\ q < j)
  PROVE  QuotesBefore(h, j) = QuotesBefore(h, p) + 1
<1> DEFINE S == {q \in Quotes(h) : q < p}
<1>1. Quotes(h) \subseteq Nat /\ IsFiniteSet(S)
  BY Zenon, QuotesAre
<1>2. {q \in Quotes(h) : q < j} = S \cup {p} /\ p \notin S
  BY <1>1
<1> HIDE DEF S
<1>3. Cardinality(S \cup {p}) = Cardinality(S) + 1
  BY <1>1, <1>2, FS_AddElement
<1>4. QuotesBefore(h, p) = Cardinality(S)
  BY Zenon DEF QuotesBefore, S
<1> QED BY Zenon, <1>2, <1>3, <1>4 DEF QuotesBefore

\* The last quote before a place.
LEMMA QuoteBefore ==
  ASSUME NEW E, NEW h \in Seq(E), NEW i \in Nat, QuotesBefore(h, i) # 0
  PROVE  \E p \in Quotes(h) :
           /\ p < i /\ \A q \in Quotes(h) : ~(p < q /\ q < i)
           /\ QuotesBefore(h, i) = QuotesBefore(h, p) + 1
<1> DEFINE S == {q \in Quotes(h) : q < i}
<1>1. Quotes(h) \in SUBSET (1..Len(h)) /\ Quotes(h) \subseteq Nat /\ Len(h) \in Nat
  BY QuotesAre
<1>2. S # {}
  <2>1. Cardinality({}) = 0
    BY FS_EmptySet
  <2> QED BY Zenon, <2>1 DEF QuotesBefore
<1>3. S \in SUBSET (1..Len(h)) /\ S \subseteq Nat
  BY <1>1
<1> DEFINE p == Max(S)
<1>4. p \in S /\ \A q \in S : q <= p
  BY ONLY <1>1, <1>2, <1>3, MaxOf
<1> HIDE DEF p
<1>5. p \in Quotes(h) /\ p < i /\ \A q \in Quotes(h) : q < i => q <= p
  BY Zenon, <1>4
<1>6. \A q \in Quotes(h) : ~(p < q /\ q < i)
  BY ONLY <1>1, <1>5
<1>7. QuotesBefore(h, i) = QuotesBefore(h, p) + 1
  BY Zenon, <1>5, <1>6, CountGrows
<1> QED BY Zenon, <1>5, <1>6, <1>7

\* The first quote from a place on.
LEMMA QuoteFrom ==
  ASSUME NEW E, NEW h \in Seq(E), NEW i \in Nat,
         (\E q \in Quotes(h) : i <= q) \/ QuotesBefore(h, i) # Cardinality(Quotes(h))
  PROVE  \E p \in Quotes(h) :
           /\ i <= p /\ \A q \in Quotes(h) : i <= q => p <= q
           /\ QuotesBefore(h, p) = QuotesBefore(h, i)
<1> DEFINE S == {q \in Quotes(h) : i <= q}
<1>1. Quotes(h) \subseteq Nat
  BY QuotesAre
<1>2. S # {}
  <2> SUFFICES ASSUME S = {} PROVE FALSE
    OBVIOUS
  <2>1. {q \in Quotes(h) : q < i} = Quotes(h)
    BY <1>1
  <2> QED BY Zenon, <2>1 DEF QuotesBefore
<1>3. S \subseteq Nat
  BY <1>1
<1> DEFINE p == Min(S)
<1>4. p \in S /\ \A q \in S : p <= q
  BY ONLY <1>2, <1>3, MinOf
<1> HIDE DEF p
<1>5. p \in Quotes(h) /\ i <= p /\ \A q \in Quotes(h) : i <= q => p <= q
  BY Zenon, <1>4
<1>6. p \in Nat /\ \A q \in Quotes(h) : ~(i <= q /\ q < p)
  BY ONLY <1>1, <1>5
<1>7. QuotesBefore(h, p) = QuotesBefore(h, i)
  BY Zenon, <1>5, <1>6, CountStays
<1> QED BY Zenon, <1>5, <1>7


HasPlainTags(h) == \A i \in 1..Len(h) : Inside(h, i) => h[i] # Comma

Opens(h, a) == a \in Quotes(h) /\ QuotesBefore(h, a) % 2 = 0

\* a and b are the quotes of a tag.
IsTag(h, a, b) ==
  Opens(h, a) /\ b \in Quotes(h) /\ QuotesBefore(h, b) = QuotesBefore(h, a) + 1

LEMMA ETagIs == ETag = <<Quote, Own, Quote>>
BY Zenon DEF ETag, Quote

LEMMA QuotesIs ==
  ASSUME NEW h PROVE Quotes(h) = {i \in 1..Len(h) : h[i] = Quote}
BY Zenon DEF Quotes, Quote

LEMMA InsideIs ==
  ASSUME NEW h, NEW i
  PROVE  Inside(h, i) <=> h[i] # Quote /\ QuotesBefore(h, i) % 2 = 1
BY Zenon DEF Inside, Quote

LEMMA TagsAre ==
  ASSUME NEW h, NEW a, NEW b, IsTag(h, a, b)
  PROVE  <<a, b>> \in TagsOf(h) /\ <<a, b>>[1] = a /\ <<a, b>>[2] = b
BY DEF TagsOf, IsTag, Opens

LEMMA TagOf ==
  ASSUME NEW h, NEW t \in TagsOf(h)
  PROVE  IsTag(h, t[1], t[2])
BY DEF TagsOf, IsTag, Opens

LEMMA ListIs ==
  ASSUME NEW h, IsTagList(h)
  PROVE  /\ Cardinality(Quotes(h)) % 2 = 0
         /\ \A i \in 1..Len(h) : i \notin Quotes(h) /\ ~Inside(h, i) =>
              h[i] = Comma \/ h[i] = Blank \/ (h[i] = Weak /\ i + 1 \in Quotes(h))
         /\ \A a, b, j, k : IsTag(h, a, b) /\ IsTag(h, j, k) /\ b < j =>
              \E i \in b..j : h[i] = Comma
<1>1. Cardinality(Quotes(h)) % 2 = 0
  BY Zenon DEF IsTagList
<1>2. \A i \in 1..Len(h) : i \notin Quotes(h) /\ ~Inside(h, i) =>
        h[i] = Comma \/ h[i] = Blank \/ (h[i] = Weak /\ i + 1 \in Quotes(h))
  <2> SUFFICES ASSUME NEW i \in 1..Len(h), i \notin Quotes(h), ~Inside(h, i)
               PROVE  h[i] = Comma \/ h[i] = Blank \/ (h[i] = Weak /\ i + 1 \in Quotes(h))
    BY Zenon
  <2>1. i \in 1..Len(h) \ Quotes(h)
    BY Zenon
  <2>2. h[i] \in {",", " "} \/ (h[i] = "W/" /\ i + 1 \in Quotes(h))
    BY Zenon, <2>1 DEF IsTagList
  <2> QED BY Zenon, <2>2 DEF Comma, Blank, Weak
<1>3. \A t, u \in TagsOf(h) : t[2] < u[1] => \E i \in t[2]..u[1] : h[i] = Comma
  BY Zenon DEF IsTagList, Comma
<1>4. ASSUME NEW a, NEW b, NEW j, NEW k, IsTag(h, a, b), IsTag(h, j, k), b < j
      PROVE  \E i \in b..j : h[i] = Comma
  <2> DEFINE t == <<a, b>>
             u == <<j, k>>
  <2>1. t \in TagsOf(h) /\ t[2] = b /\ u \in TagsOf(h) /\ u[1] = j
    BY Zenon, <1>4, TagsAre
  <2> HIDE DEF t, u
  <2> QED BY Zenon, <1>3, <1>4, <2>1
<1> QED BY Zenon, <1>1, <1>2, <1>4

\* Between two commas that are no tag's, a tag that is not open is none.
LEMMA NotOpened ==
  ASSUME NEW E, NEW h \in Seq(E), HasPlainTags(h),
         NEW l, NEW r, NEW c, Gap(h, Comma, l, r, c), NEW i \in l+1..r,
         \A q \in Quotes(h) : ~(l < q /\ q < i)
  PROVE  QuotesBefore(h, i) % 2 = 0
<1>1. /\ l \in Nat /\ i \in Nat /\ l < i /\ l <= i
      /\ l # 0 => l \in 1..Len(h) /\ h[l] = Comma
  BY DEF Gap
<1>2. QuotesBefore(h, i) \in Nat /\ Quotes(h) \in SUBSET (1..Len(h))
  BY Zenon, QuotesAre
<1> SUFFICES ASSUME QuotesBefore(h, i) % 2 # 0 PROVE FALSE
  OBVIOUS
<1>3. QuotesBefore(h, i) % 2 = 1 /\ QuotesBefore(h, i) # 0
  BY Zenon, <1>2, Parity
<1>4. PICK p \in Quotes(h) : p < i /\ \A q \in Quotes(h) : ~(p < q /\ q < i)
  BY Zenon, <1>1, <1>3, QuoteBefore
<1>5. p \in 1..Len(h) /\ h[p] = Quote
  BY Zenon, <1>4, QuotesIs
<1>6. p <= l /\ l # 0
  BY <1>1, <1>4, <1>5
<1>7. h[l] # Quote
  BY Zenon, <1>1, <1>6, SymbolsDiffer
<1>8. \A q \in Quotes(h) : ~(l <= q /\ q < i)
  <2>1. l \notin Quotes(h)
    BY Zenon, <1>7, QuotesIs
  <2>2. Quotes(h) \subseteq Nat
    BY Zenon, QuotesAre
  <2> QED BY <1>1, <2>1, <2>2
<1>9. QuotesBefore(h, i) = QuotesBefore(h, l)
  BY Zenon, <1>1, <1>8, CountStays
<1>10. Inside(h, l)
  BY Zenon, <1>3, <1>7, <1>9, InsideIs
<1> QED BY Zenon, <1>1, <1>6, <1>10 DEF HasPlainTags


\* What is compared, with its spaces around it, is one of these.
LEMMA MatchIs ==
  ASSUME NEW candidate
  PROVE  IsMatch(candidate) <=>
           candidate = <<Star>> \/ candidate = ETag \/ candidate = <<Weak, Quote, Own, Quote>>
<1>1. <<Weak>> \o ETag = <<Weak, Quote, Own, Quote>>
  <2> DEFINE x == Weak
             y == Quote
  <2> HIDE DEF x, y
  <2> DEFINE S == {x, y, Own}
             one == <<x>>
             three == <<y, Own, y>>
             four == <<x, y, Own, y>>
  <2>2. /\ one \in Seq(S) /\ Len(one) = 1 /\ one[1] = x
        /\ three \in Seq(S) /\ Len(three) = 3
        /\ three[1] = y /\ three[2] = Own /\ three[3] = y
        /\ four \in Seq(S) /\ Len(four) = 4
        /\ four[1] = x /\ four[2] = y /\ four[3] = Own /\ four[4] = y
    <3>1. x \in S /\ y \in S /\ Own \in S
      BY Zenon
    <3> HIDE DEF S
    <3>2. one \in Seq(S) /\ Len(one) = 1 /\ one[1] = x
      BY ONLY <3>1
    <3>3. three \in Seq(S) /\ Len(three) = 3 /\ three[1] = y /\ three[2] = Own /\ three[3] = y
      BY ONLY <3>1
    <3>4. four \in Seq(S) /\ Len(four) = 4 /\ four[1] = x /\ four[2] = y /\ four[3] = Own /\ four[4] = y
      BY ONLY <3>1
    <3> QED BY Zenon, <3>2, <3>3, <3>4
  <2> HIDE DEF S, one, three, four
  <2>3. /\ one \o three \in Seq(S) /\ Len(one \o three) = 4
        /\ \A i \in 1..4 : (one \o three)[i] = IF i <= 1 THEN one[i] ELSE three[i - 1]
    <3>1. /\ one \o three \in Seq(S) /\ Len(one \o three) = Len(one) + Len(three)
          /\ \A i \in 1..Len(one) + Len(three) :
               (one \o three)[i] = IF i <= Len(one) THEN one[i] ELSE three[i - Len(one)]
      BY Zenon, <2>2, ConcatProperties
    <3>2. 1 + 3 = 4 /\ Len(one) = 1 /\ Len(three) = 3
      BY ONLY <2>2
    <3> QED BY Zenon, <3>1, <3>2
  <2>4. \A i \in 1..4 : (one \o three)[i] = four[i]
    BY ONLY <2>2, <2>3
  <2>5. one \o three = four
    BY ONLY <2>2, <2>3, <2>4, SeqEqual
  <2>1. <<x>> \o <<y, Own, y>> = <<x, y, Own, y>>
    BY Zenon, <2>5 DEF one, three, four
  <2> QED BY Zenon, <2>1, ETagIs DEF x, y
<1> QED BY Zenon, <1>1 DEF IsMatch, Star, Weak

\* The three symbols of the file's tag, from a on.
OwnAt(s, a) ==
  a \in 1..Len(s) /\ a + 2 <= Len(s) /\ s[a] = Quote /\ s[a + 1] = Own /\ s[a + 2] = Quote

LEMMA OwnIs ==
  ASSUME NEW E, NEW s \in Seq(E), NEW a \in 1..Len(s), NEW b \in 1..Len(s)
  PROVE  SubSeq(s, a, b) = ETag <=> b = a + 2 /\ OwnAt(s, a)
<1> DEFINE y == Quote
           sub == SubSeq(s, a, b)
<1>1. ETag = <<y, Own, y>>
  BY Zenon, ETagIs
<1>2. OwnAt(s, a) <=> a + 2 <= Len(s) /\ s[a] = y /\ s[a + 1] = Own /\ s[a + 2] = y
  BY Zenon DEF OwnAt
<1> HIDE DEF y
<1>3. Len(sub) = IF a <= b THEN b - a + 1 ELSE 0
  OBVIOUS
<1>4. \A i \in 1..b-a+1 : a <= b => sub[i] = s[a + i - 1]
  OBVIOUS
<1>5. sub \in Seq(E)
  OBVIOUS
<1> HIDE DEF sub
<1>6. ASSUME sub = <<y, Own, y>> PROVE b = a + 2 /\ s[a] = y /\ s[a+1] = Own /\ s[a+2] = y
  <2>1. Len(sub) = 3 /\ sub[1] = y /\ sub[2] = Own /\ sub[3] = y
    BY <1>6
  <2>2. b = a + 2
    <3> DEFINE m == Len(sub)
    <3>1. a \in Int /\ b \in Int /\ m = 3
      BY <2>1
    <3>2. m = IF a <= b THEN b - a + 1 ELSE 0
      BY ONLY <1>3, Zenon
    <3> HIDE DEF m
    <3> QED BY ONLY <3>1, <3>2
  <2>3. sub[1] = s[a] /\ sub[2] = s[a+1] /\ sub[3] = s[a+2]
    BY <1>4, <2>2
  <2> QED BY <2>1, <2>2, <2>3
<1>7. ASSUME b = a + 2, s[a] = y, s[a+1] = Own, s[a+2] = y PROVE sub = <<y, Own, y>>
  <2>1. Len(sub) = 3
    BY <1>3, <1>7
  <2>2. sub[1] = y /\ sub[2] = Own /\ sub[3] = y
    BY <1>4, <1>7
  <2> QED BY <1>5, <2>1, <2>2
<1>8. b = a + 2 => a + 2 <= Len(s)
  OBVIOUS
<1> QED BY Zenon, <1>1, <1>2, <1>6, <1>7, <1>8 DEF sub

LEMMA WeakIs ==
  ASSUME NEW E, NEW s \in Seq(E), NEW a \in 1..Len(s), NEW b \in 1..Len(s)
  PROVE  SubSeq(s, a, b) = <<Weak, Quote, Own, Quote>> <=>
           b = a + 3 /\ s[a] = Weak /\ OwnAt(s, a + 1)
<1> DEFINE y == Quote
           w == Weak
           sub == SubSeq(s, a, b)
<1>2. OwnAt(s, a+1) <=> a + 1 \in 1..Len(s) /\ (a + 1) + 2 <= Len(s)
                        /\ s[a+1] = y /\ s[(a+1)+1] = Own /\ s[(a+1)+2] = y
  BY Zenon DEF OwnAt
<1> HIDE DEF y, w
<1>3. Len(sub) = IF a <= b THEN b - a + 1 ELSE 0
  OBVIOUS
<1>4. \A i \in 1..b-a+1 : a <= b => sub[i] = s[a + i - 1]
  OBVIOUS
<1>5. sub \in Seq(E)
  OBVIOUS
<1>6. (a+1)+1 = a+2 /\ (a+1)+2 = a+3
  OBVIOUS
<1> HIDE DEF sub
<1>7. ASSUME sub = <<w, y, Own, y>>
      PROVE b = a + 3 /\ s[a] = w /\ s[a+1] = y /\ s[a+2] = Own /\ s[a+3] = y
  <2>1. Len(sub) = 4 /\ sub[1] = w /\ sub[2] = y /\ sub[3] = Own /\ sub[4] = y
    BY <1>7
  <2>2. b = a + 3
    <3> DEFINE m == Len(sub)
    <3>1. a \in Int /\ b \in Int /\ m = 4
      BY <2>1
    <3>2. m = IF a <= b THEN b - a + 1 ELSE 0
      BY ONLY <1>3, Zenon
    <3> HIDE DEF m
    <3> QED BY ONLY <3>1, <3>2
  <2>3. sub[1] = s[a] /\ sub[2] = s[a+1] /\ sub[3] = s[a+2] /\ sub[4] = s[a+3]
    BY <1>4, <2>2
  <2> QED BY <2>1, <2>2, <2>3
<1>8. ASSUME b = a + 3, s[a] = w, s[a+1] = y, s[a+2] = Own, s[a+3] = y
      PROVE sub = <<w, y, Own, y>>
  <2>1. Len(sub) = 4
    BY <1>3, <1>8
  <2>2. sub[1] = w /\ sub[2] = y /\ sub[3] = Own /\ sub[4] = y
    BY <1>4, <1>8
  <2> QED BY <1>5, <2>1, <2>2
<1>9. b = a + 3 => (a + 1) + 2 <= Len(s) /\ a + 1 \in 1..Len(s)
  OBVIOUS
<1> QED BY Zenon, <1>2, <1>6, <1>7, <1>8, <1>9 DEF sub, y, w

LEMMA StarIs ==
  ASSUME NEW E, NEW s \in Seq(E), NEW a \in 1..Len(s), NEW b \in 1..Len(s), a <= b
  PROVE  SubSeq(s, a, b) = <<Star>> <=> b = a /\ s[a] = Star
<1> DEFINE y == Star
           sub == SubSeq(s, a, b)
<1> HIDE DEF y
<1>1. Len(sub) = b - a + 1 /\ sub[1] = s[a] /\ sub \in Seq(E)
  OBVIOUS
<1> HIDE DEF sub
<1>2. ASSUME sub = <<y>> PROVE b = a /\ s[a] = y
  <2>1. Len(sub) = 1 /\ sub[1] = y
    BY <1>2
  <2> DEFINE m == Len(sub)
  <2>2. a \in Int /\ b \in Int /\ m = 1 /\ m = b - a + 1
    <3>1. a \in Int /\ b \in Int
      OBVIOUS
    <3> QED BY Zenon, <1>1, <2>1, <3>1
  <2>3. s[a] = y
    BY Zenon, <1>1, <2>1
  <2> HIDE DEF m
  <2> QED BY ONLY <2>2, <2>3
<1>3. ASSUME b = a, s[a] = y PROVE sub = <<y>>
  BY <1>1, <1>3
<1> QED BY Zenon, <1>2, <1>3 DEF y, sub

LEMMA GapHolds ==
  ASSUME NEW E, NEW s \in Seq(E), NEW symbol, NEW l, NEW r, NEW c, Gap(s, symbol, l, r, c)
  PROVE  \A i \in l+1..r-1 :
           i \in 1..Len(s) /\ s[i] # symbol /\ i - l \in 1..Len(c) /\ c[i - l] = s[i]
<1>1. l \in Nat /\ r \in Nat /\ Len(s) \in Nat /\ r <= Len(s) + 1 /\ Len(c) = r - l - 1
  BY DEF Gap
<1>2. \A k \in 1..Len(c) : c[k] = s[l+k] /\ c[k] # symbol
  BY Zenon DEF Gap
<1>3. SUFFICES ASSUME NEW i \in l+1..r-1
               PROVE  i \in 1..Len(s) /\ s[i] # symbol /\ i - l \in 1..Len(c) /\ c[i - l] = s[i]
  OBVIOUS
<1>4. i \in 1..Len(s) /\ i - l \in 1..Len(c) /\ l + (i - l) = i
  BY ONLY <1>1, i \in l+1..r-1
<1> QED BY Zenon, <1>2, <1>4

LEMMA SomeBefore ==
  ASSUME NEW E, NEW h \in Seq(E), NEW i, NEW q \in Quotes(h), q < i
  PROVE  QuotesBefore(h, i) # 0
<1> DEFINE S == {k \in Quotes(h) : k < i}
<1>1. IsFiniteSet(S) /\ q \in S
  BY Zenon, QuotesAre
<1> HIDE DEF S
<1>2. Cardinality(S) # 0
  BY <1>1, FS_EmptySet
<1> QED BY Zenon, <1>2 DEF QuotesBefore, S

\* Before a tag there are blanks only, as far back as the comma, or W/ right before it.
LEMMA OnlyBefore ==
  ASSUME NEW E, NEW h \in Seq(E), IsTagList(h), NEW a, NEW b, IsTag(h, a, b),
         NEW l, NEW r, NEW c, Gap(h, Comma, l, r, c), l < a, a < r
  PROVE  \A i \in l+1..a-1 : h[i] = Blank \/ (h[i] = Weak /\ i = a - 1)
<1>0. \A i \in l+1..r-1 : i \in 1..Len(h) /\ h[i] # Comma
  BY ONLY h \in Seq(E), Gap(h, Comma, l, r, c), GapHolds
<1>1. a \in Quotes(h) /\ QuotesBefore(h, a) % 2 = 0
  BY Zenon DEF IsTag, Opens
<1>2. Quotes(h) \in SUBSET (1..Len(h)) /\ \A i : QuotesBefore(h, i) \in Nat
  BY Zenon, QuotesAre
<1>3. l \in Nat /\ r \in Nat /\ a \in Nat /\ Quotes(h) \subseteq Nat
  BY <1>1, <1>2 DEF Gap
<1>4. \A q \in Quotes(h) : ~(l < q /\ q < a)
  <2> SUFFICES ASSUME NEW q \in Quotes(h), l < q, q < a PROVE FALSE
    BY Zenon
  <2>1. QuotesBefore(h, a) # 0
    BY Zenon, <1>3, SomeBefore
  <2>2. PICK k \in Quotes(h) : /\ k < a /\ \A d \in Quotes(h) : ~(k < d /\ d < a)
                               /\ QuotesBefore(h, a) = QuotesBefore(h, k) + 1
    BY Zenon, <1>3, <2>1, QuoteBefore
  <2>3. QuotesBefore(h, k) % 2 = 1 /\ QuotesBefore(h, k) # 0
    <3> DEFINE n == QuotesBefore(h, k)
    <3>1. n \in Nat /\ (n + 1) % 2 = 0
      BY Zenon, <1>1, <1>2, <2>2
    <3> HIDE DEF n
    <3>2. n % 2 = 1 /\ n # 0
      BY ONLY <3>1, Parity
    <3> QED BY Zenon, <3>2 DEF n
  <2>4. PICK m \in Quotes(h) : m < k /\ QuotesBefore(h, k) = QuotesBefore(h, m) + 1
    BY Zenon, <1>3, <2>3, QuoteBefore
  <2>5. QuotesBefore(h, m) % 2 = 0
    <3> DEFINE n == QuotesBefore(h, m)
    <3>1. n \in Nat /\ (n + 1) % 2 = 1
      BY Zenon, <1>2, <2>3, <2>4
    <3> HIDE DEF n
    <3>2. n % 2 = 0
      BY ONLY <3>1, Parity
    <3> QED BY Zenon, <3>2 DEF n
  <2>6. IsTag(h, m, k)
    BY Zenon, <2>4, <2>5 DEF IsTag, Opens
  <2>7. PICK i \in k..a : h[i] = Comma
    BY Zenon, <2>2, <2>6, ListIs
  <2>8. i \in l+1..r-1
    <3>1. ~(k < q)
      BY Zenon, <2>2
    <3>2. k \in Nat /\ q \in Nat
      BY Zenon, <1>3
    <3> QED BY ONLY <1>3, <3>1, <3>2, i \in k..a, l < q, a < r
  <2> QED BY Zenon, <1>0, <2>7, <2>8
<1> SUFFICES ASSUME NEW i \in l+1..a-1 PROVE h[i] = Blank \/ (h[i] = Weak /\ i = a - 1)
  OBVIOUS
<1>5. i \in Nat /\ i <= a /\ l < i /\ i < a /\ i \in l+1..r-1 /\ i + 1 \in Nat /\ l < i + 1
  BY ONLY <1>3, i \in l+1..a-1, a < r
<1>6. i \in 1..Len(h) /\ h[i] # Comma
  BY Zenon, <1>0, <1>5
<1>7. i \notin Quotes(h)
  BY Zenon, <1>4, <1>5
<1>8. ~Inside(h, i)
  <2>1. \A q \in Quotes(h) : ~(i <= q /\ q < a)
    BY ONLY <1>3, <1>4, <1>5
  <2>2. QuotesBefore(h, a) = QuotesBefore(h, i)
    BY Zenon, <1>3, <1>5, <2>1, CountStays
  <2>3. 0 # 1
    OBVIOUS
  <2> QED BY Zenon, <1>1, <2>2, <2>3, InsideIs
<1>9. h[i] = Blank \/ (h[i] = Weak /\ i + 1 \in Quotes(h))
  BY Zenon, <1>6, <1>7, <1>8, ListIs
<1>10. i + 1 \in Quotes(h) => i = a - 1
  BY ONLY <1>3, <1>4, <1>5
<1> QED BY Zenon, <1>9, <1>10

\* After a tag there are blanks only, as far as the next comma.
LEMMA OnlyAfter ==
  ASSUME NEW E, NEW h \in Seq(E), IsTagList(h), NEW a, NEW b, IsTag(h, a, b),
         NEW l, NEW r, NEW c, Gap(h, Comma, l, r, c), l < b, b < r,
         \A q \in Quotes(h) : ~(a < q /\ q < b), a < b
  PROVE  \A i \in b+1..r-1 : h[i] = Blank
<1>0. \A i \in l+1..r-1 : i \in 1..Len(h) /\ h[i] # Comma
  BY ONLY h \in Seq(E), Gap(h, Comma, l, r, c), GapHolds
<1>1. /\ a \in Quotes(h) /\ QuotesBefore(h, a) % 2 = 0
      /\ b \in Quotes(h) /\ QuotesBefore(h, b) = QuotesBefore(h, a) + 1
  BY Zenon DEF IsTag, Opens
<1>2. Quotes(h) \in SUBSET (1..Len(h)) /\ \A i : QuotesBefore(h, i) \in Nat
  BY Zenon, QuotesAre
<1>3. /\ l \in Nat /\ r \in Nat /\ a \in Nat /\ b \in Nat /\ Quotes(h) \subseteq Nat
      /\ b + 1 \in Nat /\ b < b + 1 /\ \A q \in Quotes(h) : ~(b < q /\ q < b + 1)
      /\ Len(h) \in Nat /\ r <= Len(h) + 1
  BY <1>1, <1>2 DEF Gap
<1>4. QuotesBefore(h, b + 1) % 2 = 0
  <2>1. QuotesBefore(h, b + 1) = QuotesBefore(h, b) + 1
    BY Zenon, <1>1, <1>3, CountGrows
  <2> DEFINE n == QuotesBefore(h, a)
  <2>2. n \in Nat /\ n % 2 = 0 /\ QuotesBefore(h, b + 1) = (n + 1) + 1
    BY Zenon, <1>1, <1>2, <2>1
  <2> HIDE DEF n
  <2>3. ((n + 1) + 1) % 2 = 0
    BY ONLY <2>2
  <2> QED BY Zenon, <2>2, <2>3
<1>5. \A q \in Quotes(h) : ~(b < q /\ q < r)
  <2> SUFFICES ASSUME NEW q \in Quotes(h), b < q, q < r PROVE FALSE
    BY Zenon
  <2>1. b + 1 <= q
    BY ONLY <1>3, q \in Quotes(h), b < q
  <2>2. PICK j \in Quotes(h) : /\ b + 1 <= j /\ \A d \in Quotes(h) : b + 1 <= d => j <= d
                               /\ QuotesBefore(h, j) = QuotesBefore(h, b + 1)
    BY Zenon, <1>3, <2>1, QuoteFrom
  <2>3. j <= q /\ QuotesBefore(h, j) % 2 = 0
    BY Zenon, <1>4, <2>1, <2>2
  <2>4. /\ j \in Nat /\ q \in Nat /\ j + 1 \in Nat /\ j < j + 1 /\ b < j
        /\ \A d \in Quotes(h) : ~(j < d /\ d < j + 1)
    BY ONLY <1>3, <2>2, q \in Quotes(h), j \in Quotes(h)
  <2>5. QuotesBefore(h, j + 1) = QuotesBefore(h, j) + 1
    BY Zenon, <2>4, CountGrows
  <2>6. QuotesBefore(h, j + 1) # Cardinality(Quotes(h))
    <3> DEFINE n == QuotesBefore(h, j)
               all == Cardinality(Quotes(h))
    <3>1. n \in Nat /\ n % 2 = 0 /\ QuotesBefore(h, j + 1) = n + 1 /\ all % 2 = 0
      BY Zenon, <1>2, <2>3, <2>5, ListIs
    <3> HIDE DEF n, all
    <3>2. n + 1 # all
      BY ONLY <3>1
    <3> QED BY Zenon, <3>1, <3>2 DEF all
  <2>7. PICK k \in Quotes(h) : j + 1 <= k /\ QuotesBefore(h, k) = QuotesBefore(h, j + 1)
    BY Zenon, <2>4, <2>6, QuoteFrom
  <2>8. IsTag(h, j, k)
    BY Zenon, <2>3, <2>5, <2>7 DEF IsTag, Opens
  <2>9. PICK i \in b..j : h[i] = Comma
    BY Zenon, <2>4, <2>8, ListIs
  <2>10. i \in l+1..r-1
    BY ONLY <1>3, <2>3, <2>4, i \in b..j, l < b, q < r
  <2> QED BY Zenon, <1>0, <2>9, <2>10
<1> SUFFICES ASSUME NEW i \in b+1..r-1 PROVE h[i] = Blank
  OBVIOUS
<1>6. /\ i \in Nat /\ b + 1 <= i /\ b < i /\ i < r /\ i \in l+1..r-1
      /\ i + 1 # r => b < i + 1 /\ i + 1 < r
  BY ONLY <1>3, i \in b+1..r-1, l < b
<1>7. i \in 1..Len(h) /\ h[i] # Comma
  BY Zenon, <1>0, <1>6
<1>8. i \notin Quotes(h)
  BY Zenon, <1>5, <1>6
<1>9. ~Inside(h, i)
  <2>1. \A q \in Quotes(h) : ~(b + 1 <= q /\ q < i)
    BY ONLY <1>3, <1>5, <1>6
  <2>2. QuotesBefore(h, i) = QuotesBefore(h, b + 1)
    BY Zenon, <1>3, <1>6, <2>1, CountStays
  <2>3. 0 # 1
    OBVIOUS
  <2> QED BY Zenon, <1>4, <2>2, <2>3, InsideIs
<1>10. h[i] = Blank \/ (h[i] = Weak /\ i + 1 \in Quotes(h))
  BY Zenon, <1>7, <1>8, <1>9, ListIs
<1>11. i + 1 \notin Quotes(h)
  <2>1. CASE i + 1 # r
    BY Zenon, <1>5, <1>6, <2>1
  <2>2. CASE r = Len(h) + 1
    <3>1. r \notin 1..Len(h)
      BY ONLY <1>3, <2>2
    <3> QED BY Zenon, <1>2, <1>5, <1>6, <3>1
  <2>3. CASE i + 1 = r /\ r # Len(h) + 1
    <3>1. h[i + 1] = Comma
      BY Zenon, <2>3 DEF Gap
    <3> QED BY Zenon, <3>1, QuotesIs, SymbolsDiffer
  <2> QED BY Zenon, <2>1, <2>2, <2>3
<1> QED BY Zenon, <1>10, <1>11

\* The file's tag in the list is a candidate that matches: the list is split around it.
LEMMA OwnInList ==
  ASSUME NEW E, NEW h \in Seq(E), IsTagList(h), NEW a, NEW b, IsTag(h, a, b),
         SubSeq(h, a, b) = ETag
  PROVE  IfNoneMatchMatches(h)
<1>1. /\ a \in Quotes(h) /\ b \in Quotes(h) /\ a \in 1..Len(h) /\ b \in 1..Len(h)
      /\ Quotes(h) \subseteq Nat
  <2>1. a \in Quotes(h) /\ b \in Quotes(h) /\ Quotes(h) \in SUBSET (1..Len(h)) /\ Quotes(h) \subseteq Nat
    BY Zenon, QuotesAre DEF IsTag, Opens
  <2> QED BY Zenon, <2>1
<1>2. b = a + 2 /\ OwnAt(h, a)
  BY Zenon, <1>1, OwnIs
<1>3. h[a] = Quote /\ h[a + 1] = Own /\ h[a + 2] = Quote
  BY Zenon, <1>2 DEF OwnAt
<1>4. h[a] # Comma /\ h[a + 1] # Comma /\ h[a + 2] # Comma
  BY Zenon, <1>3, SymbolsDiffer
<1>5. PICK c, l, r : c \in ToSet(Split(h, Comma)) /\ l < a /\ a < r /\ Gap(h, Comma, l, r, c)
  <2>1. \A i \in 1..Len(h) : h[i] # Comma =>
          \E c \in ToSet(Split(h, Comma)) : \E l, r : l < i /\ i < r /\ Gap(h, Comma, l, r, c)
    BY ONLY h \in Seq(E), SplitIsGaps
  <2> QED BY Zenon, <1>1, <1>4, <2>1
<1>6. c \in Seq(E)
  BY Zenon, <1>5, SplitIsGaps
<1>7. /\ l \in Nat /\ r \in Nat /\ a \in Nat /\ Len(h) \in Nat /\ Len(c) = r - l - 1
      /\ r <= Len(h) + 1 /\ l < a /\ a < r /\ b = a + 2 /\ a + 2 <= Len(h)
  BY <1>1, <1>2, <1>5 DEF Gap
<1>8. r # a + 1 /\ r # a + 2
  <2>1. r # Len(h) + 1 => h[r] = Comma
    BY Zenon, <1>5 DEF Gap
  <2>2. a + 1 # Len(h) + 1 /\ a + 2 # Len(h) + 1
    BY ONLY <1>7
  <2> QED BY Zenon, <1>4, <2>1, <2>2
<1> DEFINE p == a - l
<1>9. /\ p \in 1..Len(c) /\ p + 2 \in 1..Len(c) /\ p + 2 <= Len(c) /\ p <= p + 2 /\ p \in Nat
      /\ a \in l+1..r-1 /\ a + 1 \in l+1..r-1 /\ a + 2 \in l+1..r-1
      /\ a - l = p /\ (a + 1) - l = p + 1 /\ (a + 2) - l = p + 2 /\ b < r /\ l < b /\ a < b
      /\ \A i \in 1..Len(c) : i < p => l + i \in l+1..a-1 /\ (l + i = a - 1 => i = p - 1)
      /\ \A i \in 1..Len(c) : p + 2 < i => l + i \in b+1..r-1
      /\ \A i \in 1..Len(c) : i < p \/ p + 2 < i \/ (p <= i /\ i <= p + 2)
      /\ \A i \in 1..Len(c) : p <= i => p - 1 <= i
      /\ p - 1 <= p + 2 /\ p - 1 <= p - 1 /\ (p - 1) + 1 = p /\ (p - 1) + 3 = p + 2
  BY ONLY <1>7, <1>8
<1> HIDE DEF p
<1>10. \A i \in l+1..r-1 : c[i - l] = h[i]
  BY ONLY h \in Seq(E), <1>5, GapHolds
<1>11. OwnAt(c, p) /\ c[p] = Quote /\ c[p + 2] = Quote
  <2>1. c[p] = Quote /\ c[p + 1] = Own /\ c[p + 2] = Quote
    BY Zenon, <1>3, <1>9, <1>10
  <2> QED BY Zenon, <1>9, <2>1 DEF OwnAt
<1>12. \A q \in Quotes(h) : ~(a < q /\ q < b)
  <2>1. a + 1 \notin Quotes(h)
    BY Zenon, <1>3, QuotesIs, SymbolsDiffer
  <2> QED BY ONLY <1>1, <1>7, <2>1
<1>13. \A i \in l+1..a-1 : h[i] = Blank \/ (h[i] = Weak /\ i = a - 1)
  BY ONLY h \in Seq(E), IsTagList(h), IsTag(h, a, b), <1>5, OnlyBefore
<1>14. \A i \in b+1..r-1 : h[i] = Blank
  BY ONLY h \in Seq(E), IsTagList(h), IsTag(h, a, b), <1>5, <1>9, <1>12, OnlyAfter
<1>15. \A i \in 1..Len(c) : c[i] = h[l + i]
  BY Zenon, <1>5 DEF Gap
<1>16. \A i \in 1..Len(c) : c[i] # Blank =>
         (p <= i /\ i <= p + 2) \/ (c[i] = Weak /\ i = p - 1)
  BY Zenon, <1>9, <1>13, <1>14, <1>15
<1>17. Quote # Blank /\ Weak # Blank
  BY Zenon, SymbolsDiffer
<1>18. IsMatch(Trim(c))
  <2>1. CASE p - 1 \in 1..Len(c) /\ c[p - 1] = Weak
    <3> DEFINE f == p - 1
               g == p + 2
    <3>1. /\ f \in 1..Len(c) /\ g \in 1..Len(c) /\ f <= g /\ c[f] # Blank /\ c[g] # Blank
          /\ \A i \in 1..Len(c) : c[i] # Blank => f <= i /\ i <= g
      <4>1. p - 1 <= p + 2 /\ p - 1 <= p - 1
        BY Zenon, <1>9
      <4> QED BY Zenon, <1>9, <1>11, <1>16, <1>17, <2>1, <4>1
    <3>2. g = f + 3 /\ OwnAt(c, f + 1) /\ c[f] = Weak
      BY Zenon, <1>9, <1>11, <2>1
    <3> HIDE DEF f, g
    <3>3. Trim(c) = SubSeq(c, f, g)
      BY Zenon, <1>6, <3>1, TrimIs DEF Spans
    <3>4. SubSeq(c, f, g) = <<Weak, Quote, Own, Quote>>
      BY Zenon, <1>6, <3>1, <3>2, WeakIs
    <3> QED BY Zenon, <3>3, <3>4, MatchIs
  <2>2. CASE ~(p - 1 \in 1..Len(c) /\ c[p - 1] = Weak)
    <3> DEFINE g == p + 2
    <3>1. /\ p \in 1..Len(c) /\ g \in 1..Len(c) /\ p <= g /\ c[p] # Blank /\ c[g] # Blank
          /\ \A i \in 1..Len(c) : c[i] # Blank => p <= i /\ i <= g
      BY Zenon, <1>9, <1>11, <1>16, <1>17, <2>2
    <3>2. g = p + 2
      OBVIOUS
    <3> HIDE DEF g
    <3>3. Trim(c) = SubSeq(c, p, g)
      BY Zenon, <1>6, <3>1, TrimIs DEF Spans
    <3>4. SubSeq(c, p, g) = ETag
      BY Zenon, <1>6, <1>11, <3>1, <3>2, OwnIs
    <3> QED BY Zenon, <3>3, <3>4, MatchIs
  <2> QED BY Zenon, <2>1, <2>2
<1> QED BY Zenon, <1>5, <1>18 DEF IfNoneMatchMatches, Comma

\* A candidate that is the file's tag is one of the list.
LEMMA OwnFound ==
  ASSUME NEW E, NEW h \in Seq(E), HasPlainTags(h), NEW l, NEW r, NEW c \in Seq(E),
         Gap(h, Comma, l, r, c), NEW j, OwnAt(c, j),
         \A i \in 1..Len(c) : i < j => c[i] # Quote
  PROVE  NamesOwn(h)
<1> DEFINE a == l + j
           b == a + 2
<1>1. /\ j \in 1..Len(c) /\ j + 2 <= Len(c)
      /\ c[j] = Quote /\ c[j + 1] = Own /\ c[j + 2] = Quote
  BY Zenon DEF OwnAt
<1>2. l \in Nat /\ r \in Nat /\ Len(h) \in Nat /\ Len(c) = r - l - 1 /\ r <= Len(h) + 1
  BY DEF Gap
<1>3. /\ j + 1 \in 1..Len(c) /\ j + 2 \in 1..Len(c) /\ l + (j + 1) = a + 1 /\ l + (j + 2) = a + 2
      /\ a \in 1..Len(h) /\ b \in 1..Len(h) /\ a + 2 <= Len(h) /\ a \in l+1..r /\ b = a + 2
      /\ a \in Nat /\ b \in Nat /\ a < b
      /\ \A q \in Nat : l < q /\ q < a => q \in l+1..r-1 /\ q - l < j
  BY ONLY <1>1, <1>2
<1>4. \A i \in 1..Len(c) : c[i] = h[l + i]
  BY Zenon DEF Gap
<1>5. h[a] = Quote /\ h[a + 1] = Own /\ h[a + 2] = Quote
  BY Zenon, <1>1, <1>3, <1>4
<1>6. \A i \in l+1..r-1 : i - l \in 1..Len(c) /\ c[i - l] = h[i]
  BY ONLY h \in Seq(E), Gap(h, Comma, l, r, c), GapHolds
<1>7. Quotes(h) \subseteq Nat /\ \A q \in Quotes(h) : h[q] = Quote
  BY Zenon, QuotesAre, QuotesIs
<1> HIDE DEF a, b
<1>8. \A q \in Quotes(h) : ~(l < q /\ q < a)
  BY Zenon, <1>3, <1>6, <1>7
<1>9. QuotesBefore(h, a) % 2 = 0
  BY Zenon, <1>3, <1>8, NotOpened
<1>10. OwnAt(h, a) /\ a \in Quotes(h) /\ b \in Quotes(h)
  BY Zenon, <1>3, <1>5, QuotesIs DEF OwnAt
<1>11. \A q \in Quotes(h) : ~(a < q /\ q < b)
  <2>1. a + 1 \notin Quotes(h)
    BY Zenon, <1>5, QuotesIs, SymbolsDiffer
  <2> QED BY ONLY <1>3, <1>7, <2>1
<1>12. IsTag(h, a, b)
  BY Zenon, <1>3, <1>9, <1>10, <1>11, CountGrows DEF IsTag, Opens
<1>13. SubSeq(h, a, b) = ETag
  BY Zenon, <1>3, <1>10, OwnIs
<1> DEFINE t == <<a, b>>
<1>14. t \in TagsOf(h) /\ t[1] = a /\ t[2] = b
  BY Zenon, <1>12, TagsAre
<1> HIDE DEF t
<1> QED BY Zenon, <1>13, <1>14 DEF NamesOwn

LEMMA MatchIsText ==
  ASSUME NEW candidate, IsMatch(candidate) PROVE candidate # <<>>
<1>1. \A x, y : <<x>> # <<>> /\ <<y, x, y>> # <<>>
  OBVIOUS
<1>2. \A w, x, y : <<w, y, x, y>> # <<>>
  OBVIOUS
<1> QED BY Zenon, <1>1, <1>2, MatchIs, ETagIs

\* What matches is the file's tag in the list.
LEMMA FoundIsOwn ==
  ASSUME NEW E, NEW h \in Seq(E), IsTagList(h), HasPlainTags(h), IfNoneMatchMatches(h)
  PROVE  NamesOwn(h)
<1>1. PICK c \in ToSet(Split(h, Comma)) : IsMatch(Trim(c))
  BY Zenon DEF IfNoneMatchMatches, Comma
<1>2. c \in Seq(E) /\ \E l, r : Gap(h, Comma, l, r, c)
  BY Zenon, SplitIsGaps
<1>3. PICK l, r : Gap(h, Comma, l, r, c)
  BY Zenon, <1>2
<1>4. PICK p, q : Spans(c, p, q) /\ Trim(c) = SubSeq(c, p, q)
  BY Zenon, <1>1, <1>2, TrimOf, MatchIsText
<1>5. /\ p \in 1..Len(c) /\ q \in 1..Len(c) /\ p <= q
      /\ \A i \in 1..Len(c) : c[i] # Blank => p <= i /\ i <= q
  BY Zenon, <1>4 DEF Spans
<1>6. \A i \in 1..Len(c) : i < p => c[i] # Quote
  <2>1. \A i \in 1..Len(c) : i < p => ~(p <= i)
    BY <1>2, <1>5
  <2> QED BY Zenon, <1>5, <2>1, SymbolsDiffer
<1>7. CASE Trim(c) = ETag
  <2>1. OwnAt(c, p)
    BY Zenon, <1>2, <1>4, <1>5, <1>7, OwnIs
  <2> QED BY Zenon, <1>2, <1>3, <1>6, <2>1, OwnFound
<1>8. CASE Trim(c) = <<Weak, Quote, Own, Quote>>
  <2>1. c[p] = Weak /\ OwnAt(c, p + 1)
    BY Zenon, <1>2, <1>4, <1>5, <1>8, WeakIs
  <2>2. \A i \in 1..Len(c) : i < p + 1 => i < p \/ i = p
    BY <1>2, <1>5
  <2>3. \A i \in 1..Len(c) : i < p + 1 => c[i] # Quote
    BY Zenon, <1>6, <2>1, <2>2, SymbolsDiffer
  <2> QED BY Zenon, <1>2, <1>3, <2>1, <2>3, OwnFound
<1>9. CASE Trim(c) = <<Star>>
  <2>1. c[p] = Star
    BY Zenon, <1>2, <1>4, <1>5, <1>9, StarIs
  <2> DEFINE x == l + p
  <2>2. /\ l \in Nat /\ r \in Nat /\ Len(h) \in Nat /\ Len(c) = r - l - 1 /\ r <= Len(h) + 1
    BY <1>3 DEF Gap
  <2>3. /\ x \in 1..Len(h) /\ x \in l+1..r
        /\ \A k \in Nat : l < k /\ k < x => k \in l+1..r-1 /\ k - l < p
    BY ONLY <1>5, <2>2
  <2>4. h[x] = Star
    BY Zenon, <1>3, <1>5, <2>1 DEF Gap
  <2>5. \A i \in l+1..r-1 : i - l \in 1..Len(c) /\ c[i - l] = h[i]
    BY ONLY h \in Seq(E), <1>3, GapHolds
  <2>6. Quotes(h) \subseteq Nat /\ \A k \in Quotes(h) : h[k] = Quote
    BY Zenon, QuotesAre, QuotesIs
  <2> HIDE DEF x
  <2>7. \A k \in Quotes(h) : ~(l < k /\ k < x)
    BY Zenon, <1>6, <2>3, <2>5, <2>6
  <2>8. QuotesBefore(h, x) % 2 = 0
    BY Zenon, <1>3, <2>3, <2>7, NotOpened
  <2>9. 0 # 1
    OBVIOUS
  <2>10. x \notin Quotes(h) /\ ~Inside(h, x)
    BY Zenon, <2>4, <2>6, <2>8, <2>9, InsideIs, SymbolsDiffer
  <2>11. h[x] = Comma \/ h[x] = Blank \/ h[x] = Weak
    BY Zenon, <2>3, <2>10, ListIs
  <2> QED BY Zenon, <2>4, <2>11, SymbolsDiffer
<1> QED BY Zenon, <1>1, <1>7, <1>8, <1>9, MatchIs

\* A star is a candidate that matches: there is no comma to split at.
LEMMA StarFound ==
  ASSUME NEW E, NEW h \in Seq(E), IsStar(h)
  PROVE  IfNoneMatchMatches(h)
<1>1. Trim(h) = <<Star>> /\ IsMatch(Trim(h))
  BY Zenon, MatchIs DEF IsStar, Star
<1>2. PICK p, q : Spans(h, p, q) /\ Trim(h) = SubSeq(h, p, q)
  BY Zenon, <1>1, TrimOf, MatchIsText
<1>3. /\ p \in 1..Len(h) /\ q \in 1..Len(h) /\ p <= q
      /\ \A i \in 1..Len(h) : h[i] # Blank => p <= i /\ i <= q
  BY Zenon, <1>2 DEF Spans
<1>4. q = p /\ h[p] = Star
  BY Zenon, <1>1, <1>2, <1>3, StarIs
<1>5. \A i \in 1..Len(h) : p <= i /\ i <= q => i = p
  BY <1>3, <1>4
<1>6. \A i \in 1..Len(h) : h[i] # Comma
  BY Zenon, <1>3, <1>4, <1>5, SymbolsDiffer
<1>7. Split(h, Comma) = <<h>>
  BY Zenon, <1>6, SplitNone
<1>8. h \in ToSet(<<h>>)
  BY DEF ToSet
<1> QED BY Zenon, <1>1, <1>7, <1>8 DEF IfNoneMatchMatches, Comma

\* What is answered with 200 or 304 was accepted, and a 304 is for what is not modified.
MatchInv ==
  outcome.status \in {200, 304} =>
    /\ parsing = "accepted" /\ decoding = "accepted"
    /\ components # <<Health>> => (outcome.status = 304 <=> IsNotModified)

LEMMA MatchKept ==
  ASSUME MatchInv, outcome' = outcome,
         outcome.status \in {200, 304} => UNCHANGED parserVars /\ UNCHANGED decoderVars
  PROVE  MatchInv'
<1>1. UNCHANGED parserVars => /\ parsing' = parsing /\ noneMatch' = noneMatch
                              /\ modifiedSince' = modifiedSince
  BY SMT DEF parserVars
<1>2. UNCHANGED decoderVars => decoding' = decoding /\ components' = components
  BY SMT DEF decoderVars
<1>3. ASSUME outcome.status \in {200, 304} PROVE MatchInv'
  <2>1. /\ parsing' = parsing /\ noneMatch' = noneMatch /\ modifiedSince' = modifiedSince
        /\ decoding' = decoding /\ components' = components
    BY Zenon, <1>1, <1>2, <1>3
  <2>2. IsNotModified' <=> IsNotModified
    BY Zenon, <2>1 DEF IsNotModified
  <2> QED BY Zenon, <1>3, <2>1, <2>2 DEF MatchInv
<1>4. ASSUME outcome.status \notin {200, 304} PROVE MatchInv'
  BY Zenon, <1>4 DEF MatchInv
<1> QED BY Zenon, <1>3, <1>4

LEMMA MatchReturned ==
  ASSUME TargetIsTheRequests, NEW status, NEW method, NEW path, Returns(status, method, path),
         status \in {200, 304} =>
           decoding = "accepted"
           /\ (components # <<Health>> => (status = 304 <=> IsNotModified))
  PROVE  MatchInv'
<1> DEFINE r == [status |-> status, method |-> method, path |-> path]
<1>1. outcome' = r /\ UNCHANGED parserVars /\ UNCHANGED decoderVars
  <2>1. outcome' = r /\ UNCHANGED <<parserVars, decoderVars, log>>
    BY Zenon DEF Returns
  <2> QED BY ONLY <2>1, SMT DEF parserVars, decoderVars
<1>2. r.status = status
  BY ONLY SMT
<1> HIDE DEF r
<1>3. outcome'.status = status
  BY Zenon, <1>1, <1>2
<1>4. /\ parsing' = parsing /\ noneMatch' = noneMatch /\ modifiedSince' = modifiedSince
      /\ decoding' = decoding /\ components' = components
  BY ONLY <1>1, SMT DEF parserVars, decoderVars
<1>5. IsNotModified' <=> IsNotModified
  BY Zenon, <1>4 DEF IsNotModified
<1>6. decoding = "accepted" => parsing = "accepted"
  BY Zenon DEF TargetIsTheRequests
<1> QED BY Zenon, <1>3, <1>4, <1>5, <1>6 DEF MatchInv

LEMMA MatchStepInv ==
  ASSUME MatchInv, TargetIsTheRequests, [RequestNext]_requestVars PROVE MatchInv'
<1> DEFINE other == {400, 404, 405}
<1>a. 400 \in other /\ 404 \in other /\ 405 \in other
  BY Zenon
<1>b. \A status \in other : status \notin {200, 304}
  BY SMT
<1> HIDE DEF other
<1>c. ASSUME NEW status \in other, NEW method, NEW path, Returns(status, method, path)
      PROVE  MatchInv'
  BY Zenon, <1>b, <1>c, MatchReturned
<1>1. outcome.status \in {200, 304} => parsing = "accepted" /\ decoding = "accepted"
  BY Zenon DEF MatchInv
<1>2. UNCHANGED ownVars => outcome' = outcome
  BY SMT DEF ownVars
<1>3. CASE ParserStep /\ UNCHANGED <<decoderVars, ownVars>>
  <2>1. parsing # "accepted"
    BY Zenon, <1>3 DEF ParserStep, ReadRequestLine, ReadHeader, EndHeaders, NextItem, Accept
  <2> QED BY Zenon, <1>1, <1>2, <1>3, <2>1, MatchKept
<1>4. CASE RefusesHeader
  BY Zenon, <1>a, <1>c, <1>4 DEF RefusesHeader
<1>5. CASE DecodesTarget
  <2>1. decoding = "idle" /\ UNCHANGED ownVars
    BY Zenon, <1>5 DEF DecodesTarget, StartDecoding
  <2> QED BY Zenon, <1>1, <1>2, <2>1, MatchKept
<1>6. CASE DecoderStep /\ UNCHANGED <<parserVars, ownVars>>
  <2>1. decoding \in {"decode", "split"}
    BY Zenon, <1>6
    DEF DecoderStep, DecodePlain, DecodeEscape, CheckDecoded, SplitNext, EndSplit
  <2> QED BY Zenon, <1>1, <1>2, <1>6, <2>1, MatchKept
<1>7. CASE RefusesTarget
  BY Zenon, <1>a, <1>c, <1>7 DEF RefusesTarget
<1>8. CASE AnswersHealth
  <2> DEFINE status == 200
  <2>1. /\ decoding = "accepted" /\ components = <<Health>>
        /\ Returns(status, requestLine.method, PathForLog(requestLine.target))
    BY Zenon, <1>8 DEF AnswersHealth, Answers
  <2> HIDE DEF status
  <2> QED BY Zenon, <2>1, MatchReturned
<1>9. CASE ServesStatic
  <2>1. CASE Answers(404)
    BY Zenon, <1>a, <1>c, <2>1 DEF Answers
  <2>2. CASE Answers(IF IsNotModified THEN 304 ELSE 200)
    <3> DEFINE status == IF IsNotModified THEN 304 ELSE 200
    <3>1. status = 304 <=> IsNotModified
      <4>1. 200 # 304
        BY SMT
      <4> QED BY Zenon, <4>1
    <3>2. /\ decoding = "accepted"
          /\ Returns(status, requestLine.method, PathForLog(requestLine.target))
      BY Zenon, <2>2 DEF Answers
    <3> HIDE DEF status
    <3> QED BY Zenon, <3>1, <3>2, MatchReturned
  <2> QED BY Zenon, <1>9, <2>1, <2>2 DEF ServesStatic
<1>10. CASE LogsRequest
  <2>1. outcome' = outcome /\ UNCHANGED parserVars /\ UNCHANGED decoderVars
    BY <1>10 DEF LogsRequest
  <2> QED BY Zenon, <2>1, MatchKept
<1>11. CASE UNCHANGED requestVars
  <2>1. outcome' = outcome /\ UNCHANGED parserVars /\ UNCHANGED decoderVars
    BY Zenon, <1>2, <1>11 DEF requestVars
  <2> QED BY Zenon, <2>1, MatchKept
<1> QED BY Zenon, <1>3, <1>4, <1>5, <1>6, <1>7, <1>8, <1>9, <1>10, <1>11 DEF RequestNext

\* A client that names the file's tag, or any, gets a 304, and no other that sent tags
\* does: what the split at commas finds is what the quotes of the value say.
THEOREM MatchesAreRight == RequestSpec => []MatchIsRight
<1>1. RequestInit => MatchInv
  <2> SUFFICES ASSUME RequestInit PROVE MatchInv
    OBVIOUS
  <2>1. outcome = NoOutcome
    BY Zenon DEF RequestInit
  <2>2. outcome.status \notin {200, 304}
    BY ONLY <2>1, SMT DEF NoOutcome
  <2> QED BY Zenon, <2>2 DEF MatchInv
<1>2. RequestInv => TargetIsTheRequests
  BY Zenon DEF RequestInv
<1>3. RequestInv /\ MatchInv => MatchIsRight
  <2> SUFFICES ASSUME RequestInv, MatchInv, outcome.status \in {200, 304}, components # <<Health>>,
                      noneMatch # None => IsStar(noneMatch)
                                          \/ (IsTagList(noneMatch) /\ HasPlainTags(noneMatch))
               PROVE  IF noneMatch = None
                      THEN outcome.status = 304 <=> modifiedSince # None /\ Modified <= modifiedSince
                      ELSE outcome.status = 304 <=> IsStar(noneMatch) \/ NamesOwn(noneMatch)
    BY Zenon DEF MatchIsRight, HasPlainTags, Comma
  <2>1. outcome.status = 304 <=> IsNotModified
    BY Zenon DEF MatchInv
  <2>2. CASE noneMatch = None
    BY Zenon, <2>1, <2>2 DEF IsNotModified
  <2>3. CASE noneMatch # None
    <3> DEFINE E == Symbols
    <3>1. noneMatch \in Seq(E)
      BY Zenon, <2>3 DEF RequestInv, ParserInv, ParserTypeOK
    <3> HIDE DEF E
    <3>2. IsNotModified <=> IfNoneMatchMatches(noneMatch)
      BY Zenon, <2>3 DEF IsNotModified
    <3>3. IsStar(noneMatch) => IfNoneMatchMatches(noneMatch)
      BY Zenon, <3>1, StarFound
    <3>4. ASSUME IsTagList(noneMatch), NamesOwn(noneMatch) PROVE IfNoneMatchMatches(noneMatch)
      <4>1. PICK t \in TagsOf(noneMatch) : SubSeq(noneMatch, t[1], t[2]) = ETag
        BY Zenon, <3>4 DEF NamesOwn
      <4> DEFINE a == t[1]
                 b == t[2]
      <4>2. IsTag(noneMatch, a, b) /\ SubSeq(noneMatch, a, b) = ETag
        BY ONLY <4>1, t \in TagsOf(noneMatch), TagOf
      <4> HIDE DEF a, b
      <4> QED BY Zenon, <3>1, <3>4, <4>2, OwnInList
    <3>5. ASSUME IsTagList(noneMatch), HasPlainTags(noneMatch), IfNoneMatchMatches(noneMatch)
          PROVE  NamesOwn(noneMatch)
      BY Zenon, <3>1, <3>5, FoundIsOwn
    <3> QED BY Zenon, <2>1, <2>3, <3>2, <3>3, <3>4, <3>5
  <2> QED BY Zenon, <2>2, <2>3
<1> QED BY <1>1, <1>2, <1>3, RequestInvariant, MatchStepInv, PTL DEF RequestSpec

=============================================================================
