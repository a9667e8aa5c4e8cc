------------------------------- MODULE FilesProofs ---------------------------
(***************************************************************************)
(* What module StaticFiles promises holds for every site, configuration    *)
(* and number of deployments, not only for those of MCStaticFiles.         *)
(*                                                                         *)
(* The inductive invariant says what open_representation has found out so  *)
(* far: which encodings it still tries, that those it has passed over are  *)
(* missing as long as no file changed, and which components it was called  *)
(* with and why.                                                           *)
(***************************************************************************)
EXTENDS StaticFiles, RootWalk, DataInduction

-----------------------------------------------------------------------------
(* The inductive invariant. *)

\* The request, and what it says of what the client keeps.
RequestInv == Serving => request \in Requests /\ request.noneMatch \in {NoETag, cached}

\* The components that are opened are those asked for, or the index.
OpeningInv ==
  pc = "open" \/ Found =>
    \/ ~fallback /\ opening = Target(request) /\ ~Hidden(request)
    \/ /\ fallback /\ opening = Index
       /\ ~IsAsset(request.target.path)
       /\ ~(DenyDotfiles /\ Denied(Index))

\* A sidecar the request accepts is not there, unless a file changed.
Passed(accepted, encoding) ==
  settled /\ accepted => Content(opening, encoding) = Missing

TriesInv ==
  pc = "open" =>
    \/ /\ tries = <<"identity">>
       /\ Passed(AcceptsBr(request), "br") /\ Passed(AcceptsGzip(request), "gzip")
    \/ /\ tries = <<"br", "identity">> /\ AcceptsBr(request)
       /\ Passed(AcceptsGzip(request), "gzip")
    \/ /\ tries = <<"gzip", "identity">> /\ AcceptsGzip(request)
       /\ Passed(AcceptsBr(request), "br")
    \/ /\ tries = <<"br", "gzip", "identity">>
       /\ AcceptsBr(request) /\ AcceptsGzip(request) /\ PreferBr(request)
    \/ /\ tries = <<"gzip", "br", "identity">>
       /\ AcceptsBr(request) /\ AcceptsGzip(request) /\ ~PreferBr(request)

\* The index is tried only after the path itself was missing.
FallbackInv ==
  pc = "open" /\ fallback /\ settled => Content(Target(request), "identity") = Missing

ReplyInv ==
  /\ pc # "replied" => reply = NoReply
  /\ Found =>
       /\ pc = "replied"
       /\ reply.etag \in ETags
       /\ reply.path = opening
       /\ reply.cacheable = CacheControl(opening, fallback)
       /\ reply.status = "304" => NotModified(request, reply.etag)

FilesInv ==
  /\ FilesTypeOK
  /\ RequestInv
  /\ OpeningInv
  /\ TriesInv
  /\ FallbackInv
  /\ ReplyInv
  /\ BestServed
  /\ NotFoundIsTrue

-----------------------------------------------------------------------------
(* The order of open_representation. *)

\* The sequences Order is put together from.
LEMMA Concats ==
  ASSUME NEW a \in Encodings, NEW b \in Encodings, NEW c \in Encodings
  PROVE  /\ <<a>> \o <<b>> \o <<>> \o <<c>> = <<a, b, c>>
         /\ <<>> \o <<a>> \o <<b>> \o <<c>> = <<a, b, c>>
         /\ <<a>> \o <<>> \o <<>> \o <<c>> = <<a, c>>
         /\ <<>> \o <<>> \o <<a>> \o <<c>> = <<a, c>>
         /\ <<>> \o <<a>> \o <<>> \o <<c>> = <<a, c>>
         /\ <<>> \o <<>> \o <<>> \o <<c>> = <<c>>
<1>1. /\ <<a>> \in Seq(Encodings) /\ <<b>> \in Seq(Encodings) /\ <<c>> \in Seq(Encodings)
      /\ <<a, b>> \in Seq(Encodings) /\ <<a, b, c>> \in Seq(Encodings)
      /\ <<a, c>> \in Seq(Encodings)
  OBVIOUS
<1>2. <<a>> \o <<b>> = <<a, b>>
  <2>1. <<a>> \o <<b>> \in Seq(Encodings) /\ Len(<<a>> \o <<b>>) = 2
    BY <1>1
  <2>2. \A i \in 1..2 : (<<a>> \o <<b>>)[i] = <<a, b>>[i]
    BY <1>1
  <2> QED BY <1>1, <2>1, <2>2, SeqEqual
<1>3. <<a>> \o <<c>> = <<a, c>>
  <2>1. <<a>> \o <<c>> \in Seq(Encodings) /\ Len(<<a>> \o <<c>>) = 2
    BY <1>1
  <2>2. \A i \in 1..2 : (<<a>> \o <<c>>)[i] = <<a, c>>[i]
    BY <1>1
  <2> QED BY <1>1, <2>1, <2>2, SeqEqual
<1>4. <<a, b>> \o <<c>> = <<a, b, c>>
  <2>1. <<a, b>> \o <<c>> \in Seq(Encodings) /\ Len(<<a, b>> \o <<c>>) = 3
    BY <1>1
  <2>2. \A i \in 1..3 : (<<a, b>> \o <<c>>)[i] = <<a, b, c>>[i]
    BY <1>1
  <2> QED BY <1>1, <2>1, <2>2, SeqEqual
<1>5. <<>> \o <<>> = <<>> /\ <<>> \o <<a>> = <<a>> /\ <<>> \o <<c>> = <<c>>
  OBVIOUS
<1>6. <<a>> \o <<>> = <<a>> /\ <<a, b>> \o <<>> = <<a, b>>
  OBVIOUS
<1>7. <<a>> \o <<b>> \o <<>> \o <<c>> = <<a, b, c>>
  BY ONLY <1>2, <1>4, <1>6, Zenon
<1>8. <<>> \o <<a>> \o <<b>> \o <<c>> = <<a, b, c>>
  BY ONLY <1>2, <1>4, <1>5, Zenon
<1>9. <<a>> \o <<>> \o <<>> \o <<c>> = <<a, c>>
  BY ONLY <1>3, <1>6, Zenon
<1>10. <<>> \o <<>> \o <<a>> \o <<c>> = <<a, c>>
  BY ONLY <1>3, <1>5, Zenon
<1>11. <<>> \o <<a>> \o <<>> \o <<c>> = <<a, c>>
  BY ONLY <1>3, <1>5, <1>6, Zenon
<1>12. <<>> \o <<>> \o <<>> \o <<c>> = <<c>>
  BY ONLY <1>5, Zenon
<1> QED BY <1>7, <1>8, <1>9, <1>10, <1>11, <1>12

\* With both sidecars accepted the better one comes first, brotli in case of a tie.
LEMMA OrderIs ==
  ASSUME NEW r
  PROVE  Order(r) =
           IF AcceptsBr(r) /\ AcceptsGzip(r)
           THEN IF PreferBr(r) THEN <<"br", "gzip", "identity">>
                               ELSE <<"gzip", "br", "identity">>
           ELSE IF AcceptsBr(r) THEN <<"br", "identity">>
           ELSE IF AcceptsGzip(r) THEN <<"gzip", "identity">>
           ELSE <<"identity">>
<1> DEFINE br == "br"
           gzip == "gzip"
           identity == "identity"
<1>1. br \in Encodings /\ gzip \in Encodings /\ identity \in Encodings
  BY DEF Encodings
<1>2. Order(r) = (IF AcceptsBr(r) /\ PreferBr(r) THEN <<br>> ELSE <<>>)
                   \o (IF AcceptsGzip(r) THEN <<gzip>> ELSE <<>>)
                   \o (IF AcceptsBr(r) /\ ~PreferBr(r) THEN <<br>> ELSE <<>>)
                   \o <<identity>>
  BY DEF Order, OnlyIf
<1> HIDE DEF br, gzip, identity
<1>3. /\ <<br>> \o <<gzip>> \o <<>> \o <<identity>> = <<br, gzip, identity>>
      /\ <<br>> \o <<>> \o <<>> \o <<identity>> = <<br, identity>>
      /\ <<>> \o <<>> \o <<br>> \o <<identity>> = <<br, identity>>
      /\ <<>> \o <<>> \o <<>> \o <<identity>> = <<identity>>
  BY <1>1, Concats
<1>4. /\ <<>> \o <<gzip>> \o <<br>> \o <<identity>> = <<gzip, br, identity>>
      /\ <<>> \o <<gzip>> \o <<>> \o <<identity>> = <<gzip, identity>>
  BY <1>1, Concats
<1>5. Order(r) =
        IF AcceptsBr(r) /\ AcceptsGzip(r)
        THEN IF PreferBr(r) THEN <<br, gzip, identity>> ELSE <<gzip, br, identity>>
        ELSE IF AcceptsBr(r) THEN <<br, identity>>
        ELSE IF AcceptsGzip(r) THEN <<gzip, identity>>
        ELSE <<identity>>
  BY <1>2, <1>3, <1>4
<1> QED BY <1>5 DEF br, gzip, identity

\* When open_representation begins, it has passed over no encoding the request accepts.
LEMMA StartsTrying ==
  ASSUME NEW components, NEW isFallback, NEW r,
         StartOpening(components, isFallback, r), request' = r
  PROVE  TriesInv' /\ tries' \in Seq(Encodings) /\ tries' # <<>>
<1>1. tries' = Order(r)
  BY DEF StartOpening
<1>2. /\ AcceptsBr(r) <=> AcceptsBr(request)'
      /\ AcceptsGzip(r) <=> AcceptsGzip(request)'
      /\ PreferBr(r) <=> PreferBr(request)'
  BY DEF AcceptsBr, AcceptsGzip, PreferBr
<1>3. CASE AcceptsBr(r) /\ AcceptsGzip(r) /\ PreferBr(r)
  <2>1. tries' = <<"br", "gzip", "identity">>
    BY <1>1, <1>3, OrderIs, Zenon
  <2> QED BY <1>2, <1>3, <2>1 DEF TriesInv, Encodings
<1>4. CASE AcceptsBr(r) /\ AcceptsGzip(r) /\ ~PreferBr(r)
  <2>1. tries' = <<"gzip", "br", "identity">>
    BY <1>1, <1>4, OrderIs, Zenon
  <2> QED BY <1>2, <1>4, <2>1 DEF TriesInv, Encodings
<1>5. CASE AcceptsBr(r) /\ ~AcceptsGzip(r)
  <2>1. tries' = <<"br", "identity">>
    BY <1>1, <1>5, OrderIs, Zenon
  <2> QED BY <1>2, <1>5, <2>1 DEF TriesInv, Passed, Encodings
<1>6. CASE ~AcceptsBr(r) /\ AcceptsGzip(r)
  <2>1. tries' = <<"gzip", "identity">>
    BY <1>1, <1>6, OrderIs, Zenon
  <2> QED BY <1>2, <1>6, <2>1 DEF TriesInv, Passed, Encodings
<1>7. CASE ~AcceptsBr(r) /\ ~AcceptsGzip(r)
  <2>1. tries' = <<"identity">>
    BY <1>1, <1>7, OrderIs, Zenon
  <2> QED BY <1>2, <1>7, <2>1 DEF TriesInv, Passed, Encodings
<1> QED BY <1>3, <1>4, <1>5, <1>6, <1>7

\* What is tried first among the encodings that are left is the best there is.
LEMMA HeadIsBest ==
  ASSUME RequestInv, TriesInv, pc = "open", settled
  PROVE  Best(opening, Head(tries))
<1> DEFINE b == Quality("br")
           g == Quality("gzip")
<1>1. request.accepts.br \in Nat /\ request.accepts.gzip \in Nat
  BY FilesAssumption DEF RequestInv, Serving, Requests
<1>2. /\ b \in Nat /\ g \in Nat /\ Quality("identity") = 0
      /\ AcceptsBr(request) <=> b > 0
      /\ AcceptsGzip(request) <=> g > 0
      /\ AcceptsBr(request) /\ AcceptsGzip(request) => (PreferBr(request) <=> b >= g)
  BY <1>1, FilesAssumption DEF Quality, AcceptsBr, AcceptsGzip, PreferBr
<1>3. SUFFICES ASSUME NEW e \in Encodings, Content(opening, e) # Missing
      PROVE  \/ Quality(e) < Quality(Head(tries))
             \/ /\ Quality(e) = Quality(Head(tries))
                /\ e = Head(tries) \/ e = "gzip" \/ Quality(e) = 0
  BY DEF Best, Available
<1>4. e \in {"identity", "br", "gzip"}
  BY DEF Encodings
<1> HIDE DEF b, g
<1>5. CASE tries = <<"identity">>
  <2>1. Head(tries) = "identity"
    BY <1>5
  <2>2. /\ e = "br" => b = 0
        /\ e = "gzip" => g = 0
    BY <1>2, <1>3, <1>5 DEF TriesInv, Passed
  <2> QED BY <1>2, <1>4, <2>1, <2>2 DEF b, g
<1>6. CASE Head(tries) = "br"
  <2>1. b > 0 /\ (e = "gzip" => g <= b)
    BY <1>2, <1>3, <1>6 DEF TriesInv, Passed
  <2> QED BY <1>2, <1>4, <1>6, <2>1 DEF b, g
<1>7. CASE Head(tries) = "gzip"
  <2>1. g > 0 /\ (e = "br" => b < g)
    BY <1>2, <1>3, <1>7 DEF TriesInv, Passed
  <2> QED BY <1>2, <1>4, <1>7, <2>1 DEF b, g
<1> QED BY <1>5, <1>6, <1>7 DEF TriesInv

-----------------------------------------------------------------------------
(* The invariant is inductive. *)

\* The initial states satisfy it.
LEMMA FilesStart == FilesInit => FilesInv
<1> SUFFICES ASSUME FilesInit PROVE FilesInv
  OBVIOUS
<1>1. FilesTypeOK
  <2>1. files \in [Files -> Contents] /\ deployed \in 0..MaxVersion
    BY FilesAssumption DEF FilesInit, Contents
  <2>2. tries \in Seq(Encodings)
    BY DEF FilesInit
  <2> QED BY <2>1, <2>2 DEF FilesInit, FilesTypeOK, Serving
<1>2. RequestInv /\ OpeningInv /\ TriesInv /\ FallbackInv
  BY DEF FilesInit, RequestInv, OpeningInv, TriesInv, FallbackInv, Serving, Found, NoReply
<1>3. ReplyInv /\ BestServed /\ NotFoundIsTrue
  BY DEF FilesInit, ReplyInv, BestServed, NotFoundIsTrue, Found, NoReply
<1> QED BY <1>1, <1>2, <1>3 DEF FilesInv

\* As long as no file is found and none is missing, there is no answer to be right.
LEMMA Unanswered ==
  ASSUME reply'.status \notin {"200", "304", "404"}
  PROVE  ~Found' /\ BestServed' /\ NotFoundIsTrue'
BY DEF Found, BestServed, NotFoundIsTrue

\* open_representation is called for the path or, after it, for the index.
LEMMA StartKeeps ==
  ASSUME FilesInv, NEW components, NEW isFallback \in BOOLEAN, NEW r \in Requests,
         StartOpening(components, isFallback, r), request' = r,
         r.noneMatch \in {NoETag, cached}, settled' \in BOOLEAN,
         UNCHANGED <<files, deployed, cached>>,
         \/ ~isFallback /\ components = Target(r) /\ ~Hidden(r)
         \/ /\ isFallback /\ components = Index /\ ~IsAsset(r.target.path)
            /\ ~(DenyDotfiles /\ Denied(Index))
            /\ settled' => Content(Target(r), "identity") = Missing
  PROVE  FilesInv'
<1>1. TriesInv' /\ tries' \in Seq(Encodings) /\ tries' # <<>>
  BY StartsTrying
<1>2. pc' = "open" /\ opening' = components /\ fallback' = isFallback /\ reply' = NoReply
  BY DEF StartOpening
<1>3. ~Found' /\ BestServed' /\ NotFoundIsTrue'
  BY <1>2, Unanswered DEF NoReply
<1>4. FilesTypeOK'
  BY <1>1, <1>2 DEF FilesInv, FilesTypeOK, Serving
<1>5. RequestInv'
  BY <1>2 DEF RequestInv
<1>6. OpeningInv'
  BY <1>2 DEF OpeningInv, Target, Hidden
<1>7. FallbackInv'
  BY <1>2 DEF FallbackInv, Content, Target
<1>8. ReplyInv'
  BY <1>2, <1>3 DEF ReplyInv
<1> QED BY <1>1, <1>3, <1>4, <1>5, <1>6, <1>7, <1>8 DEF FilesInv

\* An answer without a file, which is a 404 only where one is due.
LEMMA RefuseKeeps ==
  ASSUME FilesInv, NEW status \in {"health", "404", "500"}, Refuse(status),
         NEW r \in Requests, request' = r, r.noneMatch \in {NoETag, cached},
         fallback' \in BOOLEAN, settled' \in BOOLEAN, UNCHANGED <<files, deployed, cached>>,
         status = "404" => NotFoundIsTrue'
  PROVE  FilesInv'
<1>1. pc' = "replied" /\ reply' = [status |-> status] /\ tries' = <<>>
  BY DEF Refuse, Reply
<1>2. ~Found' /\ BestServed'
  BY <1>1 DEF Found, BestServed
<1>3. NotFoundIsTrue'
  BY <1>1, Unanswered
<1>4. FilesTypeOK'
  <2>1. tries' \in Seq(Encodings)
    BY <1>1
  <2> QED BY <1>1, <2>1 DEF FilesInv, FilesTypeOK, Serving
<1>5. RequestInv'
  BY DEF RequestInv
<1>6. OpeningInv' /\ TriesInv' /\ FallbackInv' /\ ReplyInv'
  BY <1>1, <1>2 DEF OpeningInv, TriesInv, FallbackInv, ReplyInv
<1> QED BY <1>2, <1>3, <1>4, <1>5, <1>6 DEF FilesInv

\* What a client sends as If-Modified-Since is what it got as Last-Modified.
LEMMA LastModifiedIs ==
  ASSUME FilesTypeOK
  PROVE  LastModified(cached) \in {0} \cup {Mtime[v] : v \in 1..MaxVersion}
<1>1. CASE cached = NoETag
  BY <1>1 DEF LastModified
<1>2. CASE cached # NoETag
  <2>1. cached.version \in 1..MaxVersion
    BY <1>2 DEF FilesTypeOK, ETags
  <2> QED BY <1>2, <2>1 DEF LastModified
<1> QED BY <1>1, <1>2

LEMMA ReceiveKeeps ==
  ASSUME FilesInv, NEW t \in Targets, NEW a \in Preferences,
         NEW e \in {NoETag, cached}, NEW m \in {0, LastModified(cached)},
         Receive([target |-> t, accepts |-> a, noneMatch |-> e, modifiedSince |-> m])
  PROVE  FilesInv'
<1> DEFINE r == [target |-> t, accepts |-> a, noneMatch |-> e, modifiedSince |-> m]
<1>1. r \in Requests /\ r.noneMatch \in {NoETag, cached}
  <2>1. e \in ETags \cup {NoETag} /\ m \in {0} \cup {Mtime[v] : v \in 1..MaxVersion}
    BY LastModifiedIs DEF FilesInv, FilesTypeOK
  <2> QED BY <2>1 DEF Requests
<1>2. Receive(r)
  OBVIOUS
<1> HIDE DEF r
<1>3. request' = r /\ settled' = TRUE /\ UNCHANGED <<files, deployed, cached>>
  BY <1>2 DEF Receive
<1>4. CASE Reply([status |-> "health"]) /\ UNCHANGED <<opening, fallback>>
  <2>1. Refuse("health") /\ fallback' \in BOOLEAN
    BY <1>4 DEF Refuse, FilesInv, FilesTypeOK
  <2> QED BY <1>1, <1>3, <2>1, RefuseKeeps
<1>5. CASE Hidden(r) /\ Refuse("404") /\ UNCHANGED <<opening, fallback>>
  <2>1. fallback' \in BOOLEAN
    BY <1>5 DEF FilesInv, FilesTypeOK
  <2>2. NotFoundIsTrue'
    BY <1>3, <1>5 DEF NotFoundIsTrue, Hidden, Target
  <2> QED BY <1>1, <1>3, <1>5, <2>1, <2>2, RefuseKeeps
<1>6. CASE ~Hidden(r) /\ StartOpening(Target(r), FALSE, r)
  BY <1>1, <1>3, <1>6, StartKeeps
<1> QED BY <1>2, <1>4, <1>5, <1>6 DEF Receive

\* A sidecar is passed over because it is missing.
LEMMA SkipKeeps ==
  ASSUME FilesInv, SkipSidecar
  PROVE  FilesInv'
<1>1. /\ pc = "open" /\ Head(tries) # "identity" /\ tries' = Tail(tries)
      /\ Content(opening, Head(tries)) = Missing
      /\ UNCHANGED <<files, deployed, pc, request, opening, fallback, settled, reply, cached>>
  BY DEF SkipSidecar, Trying
<1>2. TriesInv' /\ tries' \in Seq(Encodings) /\ tries' # <<>>
  <2>1. /\ AcceptsBr(request)' <=> AcceptsBr(request)
        /\ AcceptsGzip(request)' <=> AcceptsGzip(request)
        /\ \A e : Content(opening, e)' = Content(opening, e)
    BY <1>1 DEF AcceptsBr, AcceptsGzip, Content
  <2>2. CASE tries = <<"br", "identity">> /\ Passed(AcceptsGzip(request), "gzip")
    <3>1. tries' = <<"identity">> /\ Head(tries) = "br"
      BY <1>1, <2>2
    <3> QED BY <1>1, <2>1, <2>2, <3>1 DEF TriesInv, Passed, Encodings
  <2>3. CASE tries = <<"gzip", "identity">> /\ Passed(AcceptsBr(request), "br")
    <3>1. tries' = <<"identity">> /\ Head(tries) = "gzip"
      BY <1>1, <2>3
    <3> QED BY <1>1, <2>1, <2>3, <3>1 DEF TriesInv, Passed, Encodings
  <2>4. CASE tries = <<"br", "gzip", "identity">> /\ AcceptsGzip(request)
    <3>1. tries' = <<"gzip", "identity">> /\ Head(tries) = "br"
      BY <1>1, <2>4
    <3> QED BY <1>1, <2>1, <2>4, <3>1 DEF TriesInv, Passed, Encodings
  <2>5. CASE tries = <<"gzip", "br", "identity">> /\ AcceptsBr(request)
    <3>1. tries' = <<"br", "identity">> /\ Head(tries) = "gzip"
      BY <1>1, <2>5
    <3> QED BY <1>1, <2>1, <2>5, <3>1 DEF TriesInv, Passed, Encodings
  <2>6. tries # <<"identity">>
    BY <1>1
  <2> QED BY <1>1, <2>2, <2>3, <2>4, <2>5, <2>6 DEF FilesInv, TriesInv
<1>3. reply = NoReply
  BY <1>1 DEF FilesInv, ReplyInv
<1>4. ~Found' /\ BestServed' /\ NotFoundIsTrue'
  BY <1>1, <1>3, Unanswered DEF NoReply
<1>5. FilesTypeOK'
  BY <1>1, <1>2 DEF FilesInv, FilesTypeOK, Serving
<1>6. RequestInv'
  BY <1>1 DEF FilesInv, RequestInv, Serving
<1>7. OpeningInv' /\ FallbackInv'
  BY <1>1, <1>4 DEF FilesInv, OpeningInv, FallbackInv, Target, Hidden, Content
<1>8. ReplyInv'
  BY <1>1, <1>3, <1>4 DEF ReplyInv
<1> QED BY <1>2, <1>4, <1>5, <1>6, <1>7, <1>8 DEF FilesInv

\* The path is missing: the index is opened, or the 404 is due.
LEMMA MissingKeeps ==
  ASSUME FilesInv, FileMissing
  PROVE  FilesInv'
<1>1. /\ pc = "open" /\ Content(opening, "identity") = Missing
      /\ UNCHANGED <<files, deployed, request, settled, cached>>
  BY DEF FileMissing, Trying
<1>2. /\ request \in Requests /\ request.noneMatch \in {NoETag, cached}
      /\ fallback \in BOOLEAN /\ settled \in BOOLEAN
  BY <1>1 DEF FilesInv, RequestInv, FilesTypeOK, Serving
<1>3. \/ ~fallback /\ opening = Target(request) /\ ~Hidden(request)
      \/ fallback /\ opening = Index
  BY <1>1 DEF FilesInv, OpeningInv
<1>4. CASE MayFallBack /\ StartOpening(Index, TRUE, request)
  BY <1>1, <1>2, <1>3, <1>4, StartKeeps DEF MayFallBack
<1>5. CASE ~MayFallBack /\ Refuse("404") /\ UNCHANGED <<opening, fallback>>
  <2>1. settled => Content(Target(request), "identity") = Missing
    BY <1>1, <1>3 DEF FilesInv, FallbackInv
  <2>2. \/ IsAsset(request.target.path)
        \/ DenyDotfiles /\ Denied(Index)
        \/ Content(Index, "identity") = Missing
    BY <1>1, <1>3, <1>5 DEF MayFallBack
  <2>3. NotFoundIsTrue'
    BY <1>1, <2>1, <2>2 DEF NotFoundIsTrue, Content, Target
  <2> QED BY <1>1, <1>2, <1>5, <2>3, RefuseKeeps
<1> QED BY <1>4, <1>5 DEF FileMissing

LEMMA BrokenKeeps ==
  ASSUME FilesInv, FileBroken
  PROVE  FilesInv'
<1>1. /\ pc = "open" /\ Refuse("500")
      /\ UNCHANGED <<files, deployed, request, opening, fallback, settled, cached>>
  BY DEF FileBroken
<1>2. /\ request \in Requests /\ request.noneMatch \in {NoETag, cached}
      /\ fallback \in BOOLEAN /\ settled \in BOOLEAN
  BY <1>1 DEF FilesInv, RequestInv, FilesTypeOK, Serving
<1> QED BY <1>1, <1>2, RefuseKeeps

\* The file that is opened is the best that was there while it was looked for.
LEMMA OpenedKeeps ==
  ASSUME FilesInv, FileOpened
  PROVE  FilesInv'
<1> DEFINE etag == [file |-> <<opening, Head(tries)>>, version |-> Trying]
           code == IF NotModified(request, etag) THEN "304" ELSE "200"
           answer == [status |-> code, etag |-> etag, path |-> opening,
                      encoding |-> Head(tries), cacheable |-> CacheControl(opening, fallback)]
<1>1. /\ pc = "open" /\ Trying \in 1..MaxVersion /\ Reply(answer)
      /\ UNCHANGED <<files, deployed, request, opening, fallback, settled, cached>>
  BY DEF FileOpened
<1>2. etag \in ETags
  <2>1. <<opening, Head(tries)>> \in Files
    BY <1>1, FilesAssumption DEF Trying, Content
  <2> QED BY <1>1, <2>1 DEF ETags
<1>3. code \in {"200", "304"} /\ (code = "304" => NotModified(request, etag))
  OBVIOUS
<1> HIDE DEF etag, code
<1>4. pc' = "replied" /\ reply' = answer /\ tries' = <<>>
  BY <1>1 DEF Reply
<1>5. Found'
  BY <1>3, <1>4 DEF Found
<1>6. FilesTypeOK'
  <2>1. tries' \in Seq(Encodings)
    BY <1>4
  <2> QED BY <1>1, <1>4, <2>1 DEF FilesInv, FilesTypeOK, Serving
<1>7. RequestInv'
  BY <1>1, <1>4 DEF FilesInv, RequestInv, Serving
<1>8. OpeningInv'
  BY <1>1, <1>4 DEF FilesInv, OpeningInv, Target, Hidden
<1>9. TriesInv' /\ FallbackInv'
  BY <1>4 DEF TriesInv, FallbackInv
<1>10. ReplyInv'
  <2>1. /\ reply'.etag = etag /\ reply'.path = opening
        /\ reply'.cacheable = CacheControl(opening, fallback)
        /\ reply'.status = code
    BY <1>4
  <2> QED BY <1>1, <1>2, <1>3, <1>4, <2>1 DEF ReplyInv, CacheControl, NotModified
<1>11. BestServed'
  <2>1. settled => Best(opening, Head(tries))
    BY <1>1, HeadIsBest DEF FilesInv
  <2>2. reply'.path = opening /\ reply'.encoding = Head(tries)
    BY <1>4
  <2>3. \A e : Content(opening, e)' = Content(opening, e) /\ Quality(e)' = Quality(e)
    BY <1>1 DEF Content, Quality
  <2> QED BY <1>1, <2>1, <2>2, <2>3 DEF BestServed, Best, Available, Quality, Content
<1>12. NotFoundIsTrue'
  BY <1>3, <1>4 DEF NotFoundIsTrue
<1> QED BY <1>6, <1>7, <1>8, <1>9, <1>10, <1>11, <1>12 DEF FilesInv

\* The client keeps what it got.
LEMMA FinishKeeps ==
  ASSUME FilesInv, Finish
  PROVE  FilesInv'
<1>1. /\ pc = "replied" /\ pc' = "idle" /\ reply' = NoReply /\ fallback' = FALSE
      /\ cached' \in {NoETag, IF reply.status = "200" THEN reply.etag ELSE cached}
      /\ UNCHANGED <<files, deployed, tries, settled>>
  BY DEF Finish
<1>2. cached' \in ETags \cup {NoETag}
  <2>1. reply.status = "200" => reply.etag \in ETags
    BY DEF FilesInv, ReplyInv, Found
  <2> QED BY <1>1, <2>1 DEF FilesInv, FilesTypeOK
<1>3. ~Found' /\ BestServed' /\ NotFoundIsTrue'
  BY <1>1, Unanswered DEF NoReply
<1>4. FilesTypeOK'
  BY <1>1, <1>2 DEF FilesInv, FilesTypeOK, Serving
<1>5. RequestInv' /\ OpeningInv' /\ TriesInv' /\ FallbackInv' /\ ReplyInv'
  BY <1>1, <1>3 DEF RequestInv, OpeningInv, TriesInv, FallbackInv, ReplyInv, Serving
<1> QED BY <1>3, <1>4, <1>5 DEF FilesInv

\* After a change nothing is claimed any more of which files there are.
LEMMA ChangeKeeps ==
  ASSUME FilesInv, NEW file \in Files, ChangeFile(file)
  PROVE  FilesInv'
<1>1. /\ deployed < MaxVersion /\ deployed' = deployed + 1 /\ settled' = FALSE
      /\ UNCHANGED <<pc, request, opening, fallback, tries, reply, cached>>
  BY DEF ChangeFile
<1>2. PICK content \in {Missing, Broken, deployed'} :
        files' = [files EXCEPT ![file] = content]
  BY DEF ChangeFile
<1>3. FilesTypeOK'
  <2>1. deployed' \in 1..MaxVersion
    BY <1>1, FilesAssumption DEF FilesInv, FilesTypeOK
  <2>2. content \in Contents
    BY <1>2, <2>1 DEF Contents
  <2>3. files' \in [Files -> Contents]
    BY <1>2, <2>2 DEF FilesInv, FilesTypeOK
  <2>4. deployed' \in 0..MaxVersion
    BY <2>1, FilesAssumption
  <2> QED BY <1>1, <2>3, <2>4 DEF FilesInv, FilesTypeOK, Serving
<1>4. RequestInv'
  BY <1>1 DEF FilesInv, RequestInv, Serving
<1>5. OpeningInv'
  BY <1>1 DEF FilesInv, OpeningInv, Target, Hidden, Found
<1>6. TriesInv'
  BY <1>1 DEF FilesInv, TriesInv, Passed, AcceptsBr, AcceptsGzip, PreferBr
<1>7. FallbackInv' /\ BestServed' /\ NotFoundIsTrue'
  BY <1>1 DEF FallbackInv, BestServed, NotFoundIsTrue
<1>8. ReplyInv'
  BY <1>1 DEF FilesInv, ReplyInv, Found, CacheControl, NotModified
<1> QED BY <1>3, <1>4, <1>5, <1>6, <1>7, <1>8 DEF FilesInv

LEMMA StutterKeeps ==
  ASSUME FilesInv, UNCHANGED filesVars
  PROVE  FilesInv'
<1>1. UNCHANGED <<files, deployed, pc, request, opening, fallback, tries, settled, reply, cached>>
  BY DEF filesVars
<1>2. FilesTypeOK' /\ RequestInv'
  BY <1>1 DEF FilesInv, FilesTypeOK, RequestInv, Serving
<1>3. OpeningInv' /\ FallbackInv'
  BY <1>1 DEF FilesInv, OpeningInv, FallbackInv, Target, Hidden, Found, Content
<1>4. TriesInv'
  BY <1>1 DEF FilesInv, TriesInv, Passed, AcceptsBr, AcceptsGzip, PreferBr, Content
<1>5. ReplyInv'
  BY <1>1 DEF FilesInv, ReplyInv, Found, CacheControl, NotModified
<1>6. BestServed'
  BY <1>1 DEF FilesInv, BestServed, Found, Best, Available, Quality, Content
<1>7. NotFoundIsTrue'
  BY <1>1 DEF FilesInv, NotFoundIsTrue, Target, Hidden, Content
<1> QED BY <1>2, <1>3, <1>4, <1>5, <1>6, <1>7 DEF FilesInv

LEMMA FilesStep == FilesInv /\ [FilesNext]_filesVars => FilesInv'
<1> SUFFICES ASSUME FilesInv, [FilesNext]_filesVars PROVE FilesInv'
  OBVIOUS
<1>1. ASSUME NEW t \in Targets, NEW a \in Preferences,
             NEW e \in {NoETag, cached}, NEW m \in {0, LastModified(cached)},
             Receive([target |-> t, accepts |-> a, noneMatch |-> e, modifiedSince |-> m])
      PROVE  FilesInv'
  BY <1>1, ReceiveKeeps
<1>2. CASE SkipSidecar
  BY <1>2, SkipKeeps
<1>3. CASE FileMissing
  BY <1>3, MissingKeeps
<1>4. CASE FileBroken
  BY <1>4, BrokenKeeps
<1>5. CASE FileOpened
  BY <1>5, OpenedKeeps
<1>6. CASE Finish
  BY <1>6, FinishKeeps
<1>7. ASSUME NEW file \in Files, ChangeFile(file) PROVE FilesInv'
  BY <1>7, ChangeKeeps
<1>8. CASE UNCHANGED filesVars
  BY <1>8, StutterKeeps
<1> QED BY <1>1, <1>2, <1>3, <1>4, <1>5, <1>6, <1>7, <1>8 DEF FilesNext

LEMMA FilesAlways == FilesSpec => []FilesInv
BY FilesStart, FilesStep, PTL DEF FilesSpec

-----------------------------------------------------------------------------
(* The theorems. *)

\* The variables stay within their types, whatever is deployed meanwhile.
THEOREM FilesTypeCorrect == FilesSpec => []FilesTypeOK
<1>1. FilesInv => FilesTypeOK
  BY DEF FilesInv
<1> QED BY <1>1, FilesAlways, PTL

\* No response has a dotfile as its content: neither the one that was asked for
\* nor, after a slash or as a fallback, the index (README.md:20).
THEOREM DotfilesAlwaysDenied == FilesSpec => []DotfilesDenied
<1>1. FilesInv => DotfilesDenied
  BY DEF FilesInv, OpeningInv, ReplyInv, DotfilesDenied, Hidden
<1> QED BY <1>1, FilesAlways, PTL

\* A request for an asset never gets the index in its place (README.md:11).
THEOREM AssetsNeverReplaced == FilesSpec => []AssetsNeverFallBack
<1>1. FilesInv => AssetsNeverFallBack
  BY DEF FilesInv, OpeningInv, ReplyInv, AssetsNeverFallBack
<1> QED BY <1>1, FilesAlways, PTL

\* Only the fingerprinted asset that was asked for is immutable, and the index
\* is revalidated by whatever path cache_control gets it.
THEOREM AlwaysCachedSafely == FilesSpec => []CachedSafely
<1>1. FilesInv => CachedSafely
  <2> SUFFICES ASSUME FilesInv, Found PROVE CachedSafely
    BY DEF CachedSafely
  <2>1. /\ reply.path = opening /\ reply.cacheable = CacheControl(opening, fallback)
        /\ ~fallback => opening = Target(request)
    BY DEF FilesInv, ReplyInv, OpeningInv
  <2> QED BY <2>1 DEF CachedSafely, CacheControl
<1> QED BY <1>1, FilesAlways, PTL

\* is_not_modified answers 304 to an ETag only if it is that of what it would send.
THEOREM NotModifiedAlwaysTrue == FilesSpec => []NotModifiedIsTrue
<1>1. FilesInv => NotModifiedIsTrue
  <2> SUFFICES ASSUME FilesInv, reply.status = "304", request.noneMatch # NoETag
               PROVE  reply.etag = cached
    BY DEF NotModifiedIsTrue
  <2>1. Found
    BY DEF Found
  <2>2. pc = "replied" /\ NotModified(request, reply.etag)
    BY <2>1 DEF FilesInv, ReplyInv
  <2>3. request.noneMatch = reply.etag
    BY <2>2 DEF NotModified
  <2>4. request.noneMatch \in {NoETag, cached}
    BY <2>2 DEF FilesInv, RequestInv, Serving
  <2> QED BY <2>3, <2>4
<1> QED BY <1>1, FilesAlways, PTL

\* The representation served is the best there was, brotli in case of a tie,
\* if no file changed between the opens of open_representation (README.md:15).
THEOREM AlwaysBestServed == FilesSpec => []BestServed
<1>1. FilesInv => BestServed
  BY DEF FilesInv
<1> QED BY <1>1, FilesAlways, PTL

\* A 404 is due whenever it is sent, if no file changed meanwhile.
THEOREM NotFoundAlwaysTrue == FilesSpec => []NotFoundIsTrue
<1>1. FilesInv => NotFoundIsTrue
  BY DEF FilesInv
<1> QED BY <1>1, FilesAlways, PTL

\* The fallback to the index is taken where it is due and nowhere else.
THEOREM FallbackAlwaysRight == FilesSpec => []FallbackIsRight
BY AssetsNeverReplaced, NotFoundAlwaysTrue, PTL DEF FallbackIsRight

-----------------------------------------------------------------------------
(***************************************************************************)
(* The walk of open_file, for every tree, every path and every set of      *)
(* links, however often and whenever the entries inside are replaced.      *)
(***************************************************************************)
USE RootAssumption DEF Inodes

\* The open directory may be looked into, and is left once for all: no entry
\* leads to the document root itself.
WalkInv ==
  /\ WalkTypeOK
  /\ Confined
  /\ stage = "walk" => current \notin NoAccess /\ (current = Root <=> index = 0)

LEMMA WalkStart == WalkInit => WalkInv
BY DEF WalkInit, WalkInv, WalkTypeOK, Confined

\* An entry inside the document root leads inside.
LEMMA StaysInside ==
  ASSUME WalkInv, stage = "walk", LedTo # None
  PROVE  LedTo \in Inside \ {Root}
<1>1. path[index + 1] \in Names
  BY DEF WalkInv, WalkTypeOK
<1> QED BY <1>1 DEF WalkInv, WalkTypeOK, Confined, IsTree, LedTo

LEMMA ReplacedIsTree ==
  ASSUME IsTree(tree), changing \in Scopes, NEW d \in changing, NEW n \in Names,
         NEW inode \in (Inside \ {Root}) \cup {None},
         tree' = [tree EXCEPT ![d][n] = inode]
  PROVE  IsTree(tree')
<1>1. /\ tree \in [Dirs -> [Names -> Inodes \cup {None}]]
      /\ \A e \in Dirs \cap Inside, m \in Names : tree[e][m] \in (Inside \ {Root}) \cup {None}
  BY DEF IsTree
<1>2. tree' \in [Dirs -> [Names -> Inodes \cup {None}]]
  BY <1>1
<1>3. ASSUME NEW e \in Dirs \cap Inside, NEW m \in Names
      PROVE  tree'[e][m] \in (Inside \ {Root}) \cup {None}
  BY <1>1
<1> QED BY <1>2, <1>3 DEF IsTree

LEMMA WalkStepsKeep == WalkInv /\ [WalkNext]_walkVars => WalkInv'
<1> SUFFICES ASSUME WalkInv, [WalkNext]_walkVars PROVE WalkInv'
  OBVIOUS
<1> USE DEF WalkInv, WalkTypeOK, Confined, Ends
<1>1. ASSUME NEW p \in Paths, StartWalk(p) PROVE WalkInv'
  BY <1>1 DEF StartWalk
<1>2. CASE StepDown
  <2>1. LedTo \in (Dirs \cap Inside) \ (NoAccess \cup {Root})
    BY <1>2, StaysInside DEF StepDown, IsDirectory
  <2> QED BY <1>2, <2>1 DEF StepDown, IsLast
<1>3. CASE OpenLast
  <2>1. LedTo \in Inside
    BY <1>3, StaysInside DEF OpenLast
  <2> QED BY <1>3, <2>1 DEF OpenLast, IsLast, IsFile, Blocks
<1>4. CASE OpenMissing
  BY <1>4 DEF OpenMissing
<1>5. CASE OpenFails
  BY <1>5 DEF OpenFails
<1>6. ASSUME NEW d \in changing, NEW n \in Names, NEW inode \in (Inside \ {Root}) \cup {None},
             Replace(d, n, inode)
      PROVE  WalkInv'
  <2>1. IsTree(tree')
    BY <1>6, ReplacedIsTree DEF Replace
  <2> QED BY <1>6, <2>1 DEF Replace
<1>7. CASE UNCHANGED walkVars
  BY <1>7 DEF walkVars
<1> QED BY <1>1, <1>2, <1>3, <1>4, <1>5, <1>6, <1>7 DEF WalkNext, WalkStep, Done

LEMMA WalkInvariant == WalkSpec => []WalkInv
BY WalkStart, WalkStepsKeep, PTL DEF WalkSpec

\* The trees stay trees: the walk is always at an open directory.
THEOREM WalkTypeCorrect == WalkSpec => []WalkTypeOK
<1>1. WalkInv => WalkTypeOK
  BY DEF WalkInv
<1> QED BY <1>1, WalkInvariant, PTL

\* README.md:21: no link leads out of the document root, and what is opened is
\* a regular file in it, whatever is replaced between the openat calls.
THEOREM AlwaysConfined == WalkSpec => []Confined
<1>1. WalkInv => Confined
  BY DEF WalkInv
<1> QED BY <1>1, WalkInvariant, PTL

-----------------------------------------------------------------------------
(* What a path leads to in one tree: a run of steps down. *)

FileAt(inode) == IF inode \in Regulars \ NoAccess THEN inode ELSE None

Anything == Inodes \cup {None}

\* r is where the components of p after the i-th lead to from d.
Descends(r, t, d, p, i) ==
  /\ \A k \in 0..Len(p)-i : r[k] \in Anything
  /\ r[0] = d
  /\ \A k \in 1..Len(p)-i : r[k] = Down(t, r[k-1], p[i+k])

LEMMA DownIs ==
  ASSUME NEW t, IsTree(t), NEW inode, NEW n \in Names
  PROVE  Down(t, inode, n) \in Anything
BY DEF Down, IsTree, Anything

LEMMA DescentExists ==
  ASSUME NEW t, IsTree(t), NEW d \in Anything, NEW p \in Seq(Names), NEW i \in 0..Len(p)
  PROVE  \E r : Descends(r, t, d, p, i)
<1> DEFINE n == Len(p) - i
           step == [m \in (1..n) \X Anything |-> Down(t, m[2], p[i + m[1]])]
<1>1. n \in Nat /\ \A k \in 1..n : p[i+k] \in Names
  OBVIOUS
<1>2. \A k \in 1..n, a \in Anything : step[<<k, a>>] = Down(t, a, p[i+k])
  OBVIOUS
<1> HIDE DEF step, n
<1>3. Steps(n, Anything, step)
  <2>1. ASSUME NEW k \in 1..n, NEW a \in Anything PROVE Down(t, a, p[i+k]) \in Anything
    BY Zenon, <1>1, DownIs
  <2> SUFFICES ASSUME NEW k \in 1..n, NEW a \in Anything
               PROVE  step[<<k, a>>] \in Anything
    BY DEF Steps
  <2>2. step[<<k, a>>] = Down(t, a, p[i+k])
    BY ONLY <1>2, k \in 1..n, a \in Anything
  <2> QED BY ONLY k \in 1..n, a \in Anything, <2>1, <2>2
<1>4. PICK r : IsRun(r, n, Anything, d, step)
  BY <1>1, <1>3, RunExists
<1>5. \A k \in 1..n : r[k] = Down(t, r[k-1], p[i+k])
  <2>1. \A k \in 1..n : k - 1 \in 0..n
    BY <1>1
  <2> QED BY <1>2, <1>4, <2>1 DEF IsRun
<1> QED BY <1>4, <1>5 DEF IsRun, Descends, n

\* LookupFrom is defined, and is the file at the end of the descent.
LEMMA LookupIs ==
  ASSUME NEW t, NEW d, NEW p \in Seq(Names), NEW i \in 0..Len(p), NEW r, Descends(r, t, d, p, i)
  PROVE  LookupFrom(t, d, p, i) = FileAt(r[Len(p)-i])
<1> DEFINE n == Len(p) - i
           Reaches(g) == g = [j \in i..Len(p) |-> IF j = i THEN d ELSE Down(t, g[j-1], p[j])]
           f == [j \in i..Len(p) |-> r[j-i]]
           c == CHOOSE g : Reaches(g)
<1>1. n \in Nat /\ i \in Nat /\ Len(p) \in Nat /\ Len(p) = i + n
  OBVIOUS
<1>2. r[0] = d /\ \A k \in 1..n : r[k] = Down(t, r[k-1], p[i+k])
  BY DEF Descends
<1>3. \A j \in i..Len(p) : f[j] = r[j-i]
  OBVIOUS
<1>4. Reaches(f)
  <2>1. ASSUME NEW j \in i..Len(p) PROVE f[j] = IF j = i THEN d ELSE Down(t, f[j-1], p[j])
    <3>1. CASE j = i
      <4>1. f[j] = r[0]
        BY <1>1, <1>3, <3>1
      <4> QED BY <1>2, <3>1, <4>1
    <3>2. CASE j # i
      <4>1. j - i \in 1..n /\ j - 1 \in i..Len(p) /\ (j - 1) - i = (j - i) - 1 /\ i + (j - i) = j
        BY <1>1, <3>2
      <4>2. f[j] = r[j-i] /\ f[j-1] = r[(j-i)-1]
        BY <1>3, <4>1
      <4>3. r[j-i] = Down(t, r[(j-i)-1], p[j])
        BY ONLY <1>2, <4>1
      <4> QED BY ONLY <3>2, <4>2, <4>3, Zenon
    <3> QED BY <3>1, <3>2
  <2> HIDE DEF f
  <2>2. f = [j \in i..Len(p) |-> f[j]]
    BY Zenon DEF f
  <2> QED BY Zenon, <2>1, <2>2
<1> HIDE DEF f
<1>5. Reaches(c)
  <2> HIDE DEF Reaches
  <2> QED BY Zenon, <1>4
<1>6. LookupFrom(t, d, p, i) = FileAt(c[Len(p)])
  BY Zenon DEF LookupFrom, FileAt
<1> HIDE DEF c
<1>7. \A j \in i..Len(p) : c[j] = IF j = i THEN d ELSE Down(t, c[j-1], p[j])
  BY Zenon, <1>5
<1> HIDE DEF Reaches
<1> DEFINE q == [k \in 0..n |-> c[i+k]]
<1>8. \A k \in 0..n : q[k] = c[i+k]
  OBVIOUS
<1> HIDE DEF q, n
<1>9. Alike(n, r, q)
  <2>1. q[0] = d
    <3>1. 0 \in 0..n /\ i + 0 = i /\ i \in i..Len(p)
      BY ONLY <1>1
    <3> QED BY Zenon, <1>7, <1>8, <3>1
  <2>2. ASSUME NEW k \in 1..n, r[k-1] = q[k-1] PROVE r[k] = q[k]
    <3>1. /\ k \in 0..n /\ k - 1 \in 0..n /\ i + k \in i..Len(p) /\ i + k # i
          /\ (i + k) - 1 = i + (k - 1)
      BY ONLY <1>1, k \in 1..n
    <3>2. q[k] = Down(t, c[i+(k-1)], p[i+k])
      BY Zenon, <1>7, <1>8, <3>1
    <3>3. q[k-1] = c[i+(k-1)]
      BY Zenon, <1>8, <3>1
    <3> QED BY Zenon, <1>2, <2>2, <3>2, <3>3
  <2> QED BY Zenon, <1>2, <2>1, <2>2 DEF Alike
<1>10. r[n] = q[n]
  BY ONLY <1>1, <1>9, RunsEnd
<1>11. q[n] = c[Len(p)]
  <2>1. n \in 0..n
    BY ONLY <1>1
  <2> QED BY Zenon, <1>1, <1>8, <2>1
<1> QED BY Zenon, <1>6, <1>10, <1>11 DEF n


\* Nothing is left to descend.
LEMMA LookupHere ==
  ASSUME NEW t, IsTree(t), NEW d \in Anything, NEW p \in Seq(Names)
  PROVE  LookupFrom(t, d, p, Len(p)) = FileAt(d)
<1>1. Len(p) \in 0..Len(p) /\ Len(p) - Len(p) = 0
  OBVIOUS
<1>2. PICK r : Descends(r, t, d, p, Len(p))
  BY Zenon, <1>1, DescentExists
<1>3. LookupFrom(t, d, p, Len(p)) = FileAt(r[Len(p)-Len(p)])
  BY ONLY p \in Seq(Names), <1>1, <1>2, LookupIs
<1>4. r[0] = d
  BY Zenon, <1>2 DEF Descends
<1> QED BY Zenon, <1>1, <1>3, <1>4

\* One step down, and the rest from there.
LEMMA LookupDown ==
  ASSUME NEW t, IsTree(t), NEW d \in Anything, NEW p \in Seq(Names), NEW i \in 0..Len(p)-1
  PROVE  LookupFrom(t, d, p, i) = LookupFrom(t, Down(t, d, p[i+1]), p, i+1)
<1> DEFINE n == Len(p) - i
           e == Down(t, d, p[i+1])
<1>1. /\ i \in 0..Len(p) /\ i + 1 \in 0..Len(p) /\ n \in Nat \ {0} /\ Len(p) - (i + 1) = n - 1
      /\ 1 \in 1..n /\ 1 - 1 = 0
  OBVIOUS
<1>2. PICK r : Descends(r, t, d, p, i)
  BY Zenon, <1>1, DescentExists
<1> HIDE DEF n
<1>3. /\ \A k \in 0..n : r[k] \in Anything
      /\ r[0] = d /\ \A k \in 1..n : r[k] = Down(t, r[k-1], p[i+k])
  BY Zenon, <1>2 DEF Descends, n
<1>4. r[1] = e
  BY Zenon, <1>1, <1>3
<1> HIDE DEF e
<1> DEFINE q == [k \in 0..n-1 |-> r[k+1]]
<1>5. \A k \in 0..n-1 : q[k] = r[k+1]
  OBVIOUS
<1> HIDE DEF q
<1>6. Descends(q, t, e, p, i+1)
  <2>1. ASSUME NEW k \in 0..n-1 PROVE q[k] \in Anything
    <3>1. k + 1 \in 0..n
      BY <1>1
    <3> QED BY Zenon, <1>3, <1>5, <3>1
  <2>2. q[0] = e
    <3>1. 0 \in 0..n-1 /\ 0 + 1 = 1
      BY <1>1
    <3> QED BY Zenon, <1>4, <1>5, <3>1
  <2>3. ASSUME NEW k \in 1..n-1 PROVE q[k] = Down(t, q[k-1], p[(i+1)+k])
    <3>1. /\ k \in 0..n-1 /\ k - 1 \in 0..n-1 /\ k + 1 \in 1..n
          /\ (k - 1) + 1 = k /\ (k + 1) - 1 = k /\ i + (k + 1) = (i + 1) + k
      BY <1>1
    <3>2. q[k] = r[k+1] /\ q[k-1] = r[k]
      BY Zenon, <1>5, <3>1
    <3>3. r[k+1] = Down(t, r[k], p[(i+1)+k])
      BY Zenon, <1>3, <3>1
    <3> QED BY Zenon, <3>2, <3>3
  <2> QED BY Zenon, <1>1, <2>1, <2>2, <2>3 DEF Descends
<1>7. LookupFrom(t, d, p, i) = FileAt(r[n])
  <2>1. LookupFrom(t, d, p, i) = FileAt(r[Len(p)-i])
    BY ONLY p \in Seq(Names), <1>1, <1>2, LookupIs
  <2> QED BY Zenon, <2>1 DEF n
<1>8. LookupFrom(t, e, p, i+1) = FileAt(q[n-1])
  <2>1. LookupFrom(t, e, p, i+1) = FileAt(q[Len(p)-(i+1)])
    BY ONLY p \in Seq(Names), <1>1, <1>6, LookupIs
  <2> QED BY Zenon, <1>1, <2>1
<1>9. q[n-1] = r[n]
  <2>1. n - 1 \in 0..n-1 /\ (n - 1) + 1 = n
    BY <1>1
  <2> QED BY Zenon, <1>5, <2>1
<1> QED BY Zenon, <1>7, <1>8, <1>9 DEF e

\* From what is no directory that may be opened, there is no step down.
LEMMA LookupNowhere ==
  ASSUME NEW t, NEW d \in Anything \ (Dirs \ NoAccess), NEW p \in Seq(Names),
         NEW i \in 0..Len(p)-1
  PROVE  LookupFrom(t, d, p, i) = None
<1> DEFINE n == Len(p) - i
           r == [k \in 0..n |-> IF k = 0 THEN d ELSE None]
<1>1. n \in Nat \ {0} /\ i \in 0..Len(p)
  OBVIOUS
<1>2. r[0] = d /\ \A k \in 1..n : r[k] = None
  BY <1>1
<1>3. \A k \in 0..n : r[k] \in Anything \ (Dirs \ NoAccess)
  BY <1>1 DEF Anything
<1> HIDE DEF r, n
<1>4. \A k \in 1..n : k - 1 \in 0..n
  BY <1>1
<1>5. \A k \in 1..n : r[k] = Down(t, r[k-1], p[i+k])
  BY Zenon, <1>2, <1>3, <1>4 DEF Down
<1>6. Descends(r, t, d, p, i)
  BY Zenon, <1>2, <1>3, <1>5 DEF Descends, n
<1>7. r[n] = None
  BY <1>1, <1>2
<1>8. FileAt(None) = None
  BY DEF FileAt
<1>9. LookupFrom(t, d, p, i) = FileAt(r[Len(p)-i])
  BY ONLY p \in Seq(Names), <1>1, <1>6, LookupIs
<1> QED BY Zenon, <1>7, <1>8, <1>9 DEF n

OffRootAlike(u, t) == \A e \in Dirs \ {Root} : u[e] = t[e]

\* Below the document root, its own entries make no difference.
LEMMA LookupKept ==
  ASSUME NEW t, IsTree(t), NEW u, OffRootAlike(u, t),
         NEW d \in (Inside \ {Root}) \cup {None}, NEW p \in Seq(Names), NEW i \in 0..Len(p)
  PROVE  LookupFrom(u, d, p, i) = LookupFrom(t, d, p, i)
<1> DEFINE n == Len(p) - i
           B == (Inside \ {Root}) \cup {None}
<1>1. n \in Nat /\ B \subseteq Anything /\ d \in B /\ \A k \in 1..n : p[i+k] \in Names
  BY DEF Anything
<1>2. PICK r : Descends(r, t, d, p, i)
  BY Zenon, <1>1, DescentExists
<1> HIDE DEF n
<1>3. r[0] = d /\ \A k \in 1..n : r[k] = Down(t, r[k-1], p[i+k])
  BY Zenon, <1>2 DEF Descends, n
<1>4. \A a \in B, m \in Names : Down(t, a, m) \in B /\ Down(u, a, m) = Down(t, a, m)
  <2>1. \A e \in Dirs \cap Inside, m \in Names : t[e][m] \in B
    BY Zenon DEF IsTree
  <2>2. ASSUME NEW a \in B, NEW m \in Names, a \in Dirs \ NoAccess
        PROVE  Down(t, a, m) \in B /\ Down(u, a, m) = Down(t, a, m)
    <3>1. a \in (Dirs \cap Inside) \ {Root}
      BY <2>2
    <3> QED BY Zenon, <2>1, <2>2, <3>1 DEF Down, OffRootAlike
  <2>3. ASSUME NEW a, NEW m, a \notin Dirs \ NoAccess
        PROVE  Down(t, a, m) \in B /\ Down(u, a, m) = Down(t, a, m)
    BY Zenon, <2>3 DEF Down
  <2> QED BY Zenon, <2>2, <2>3
<1> HIDE DEF B
<1>5. \A k \in 0..n : r[k] \in B
  <2> DEFINE T == {k \in 0..n : r[k] \in B}
  <2>1. 0 \in T
    BY <1>1, <1>3
  <2>2. ASSUME NEW k \in 0..n-1, k \in T PROVE k + 1 \in T
    <3>1. k + 1 \in 1..n /\ k + 1 \in 0..n /\ (k + 1) - 1 = k
      BY <1>1
    <3>2. r[k] \in B /\ p[i+(k+1)] \in Names /\ r[k+1] = Down(t, r[k], p[i+(k+1)])
      BY Zenon, <1>1, <1>3, <2>2, <3>1
    <3>3. r[k+1] \in B
      BY ONLY <1>4, <3>2
    <3> QED BY <3>1, <3>3
  <2> HIDE DEF T
  <2>3. 0..n \subseteq T
    BY <1>1, <2>1, <2>2, SegmentInduction
  <2> QED BY Zenon, <2>3 DEF T
<1>6. \A k \in 1..n : r[k] = Down(u, r[k-1], p[i+k])
  <2> SUFFICES ASSUME NEW k \in 1..n PROVE r[k] = Down(u, r[k-1], p[i+k])
    OBVIOUS
  <2>1. k - 1 \in 0..n
    BY <1>1
  <2>2. r[k-1] \in B /\ p[i+k] \in Names
    BY Zenon, <1>1, <1>5, <2>1
  <2>3. Down(u, r[k-1], p[i+k]) = Down(t, r[k-1], p[i+k])
    BY ONLY <1>4, <2>2
  <2> QED BY Zenon, <1>3, <2>3
<1>7. Descends(r, u, d, p, i)
  BY Zenon, <1>1, <1>3, <1>5, <1>6 DEF Descends, n
<1>8. LookupFrom(t, d, p, i) = FileAt(r[Len(p)-i])
  BY ONLY p \in Seq(Names), i \in 0..Len(p), <1>2, LookupIs
<1>9. LookupFrom(u, d, p, i) = FileAt(r[Len(p)-i])
  BY ONLY p \in Seq(Names), i \in 0..Len(p), <1>7, LookupIs
<1> QED BY Zenon, <1>8, <1>9


-----------------------------------------------------------------------------
(* The refinement: where the walk looks, and what it sees there. *)

\* What the walk has yet to find.
Ahead == LookupFrom(tree, current, path, index)

LEMMA AheadIs ==
  ASSUME WalkInv, stage = "walk"
  PROVE  /\ Ahead = LookupFrom(tree, LedTo, path, index + 1)
         /\ index = 0 => Ahead = Lookup(tree, path)
         /\ Seen = IF index = 0 THEN {} ELSE {Ahead}
<1>1. /\ IsTree(tree) /\ current \in Dirs \ NoAccess /\ path \in Seq(Names)
      /\ index \in 0..Len(path)-1 /\ (index = 0 => current = Root)
  BY DEF WalkInv, WalkTypeOK
<1>2. Down(tree, current, path[index+1]) = LedTo
  BY Zenon, <1>1 DEF Down, LedTo
<1>3. current \in Anything
  BY <1>1 DEF Anything
<1>4. Ahead = LookupFrom(tree, Down(tree, current, path[index+1]), path, index + 1)
  BY ONLY <1>1, <1>3, LookupDown DEF Ahead
<1>5. index = 0 => Ahead = Lookup(tree, path)
  BY Zenon, <1>1 DEF Ahead, Lookup
<1>6. stage # "opened" /\ stage # "notFound"
  BY Zenon
<1> QED BY Zenon, <1>2, <1>4, <1>5, <1>6 DEF Seen, Ahead

\* The entry a walk is led to is something.
LEMMA LedToIs ==
  ASSUME WalkInv, stage = "walk"
  PROVE  LedTo \in Anything
BY DEF WalkInv, WalkTypeOK, IsTree, LedTo, Anything

\* At the last component, the walk finds what is there.
LEMMA AheadAtLast ==
  ASSUME WalkInv, stage = "walk", IsLast
  PROVE  Ahead = FileAt(LedTo)
<1>1. IsTree(tree) /\ path \in Seq(Names) /\ index + 1 = Len(path)
  BY DEF WalkInv, WalkTypeOK, IsLast
<1>2. LookupFrom(tree, LedTo, path, Len(path)) = FileAt(LedTo)
  BY Zenon, <1>1, LedToIs, LookupHere
<1> QED BY Zenon, <1>1, <1>2, AheadIs

\* Before it, what it cannot step down to leads nowhere.
LEMMA AheadOfNone ==
  ASSUME WalkInv, stage = "walk", ~IsLast, ~IsDirectory(LedTo)
  PROVE  Ahead = None
<1>1. path \in Seq(Names) /\ index + 1 \in 0..Len(path)-1
  BY DEF WalkInv, WalkTypeOK, IsLast
<1>2. LedTo \in Anything \ (Dirs \ NoAccess)
  BY Zenon, LedToIs DEF IsDirectory
<1>3. LookupFrom(tree, LedTo, path, index + 1) = None
  BY ONLY <1>1, <1>2, LookupNowhere
<1> QED BY Zenon, <1>3, AheadIs

\* An answer is what was ahead.
LEMMA Answers ==
  ASSUME WalkInv, AtOnce, AtOnce', stage = "walk", UNCHANGED <<tree, path>>,
         Seen' = {Ahead}, stage' = IF Ahead = None THEN "notFound" ELSE "opened"
  PROVE  Atomic!OpenNext
<1>1. stage' # "walk" /\ (Ahead = None <=> {Ahead} = {None}) /\ {Ahead} # {}
  BY Zenon
<1>2. CASE index = 0
  <2>1. Seen = {} /\ Ahead = Lookup(tree, path)
    BY Zenon, <1>2, AheadIs
  <2>2. Atomic!LookAndReturn
    BY Zenon, <1>1, <2>1 DEF Atomic!LookAndReturn
  <2> QED BY Zenon, <2>2 DEF Atomic!OpenNext
<1>3. CASE index # 0
  <2>1. Seen = {Ahead}
    BY Zenon, <1>3, AheadIs
  <2>2. Atomic!Return
    BY Zenon, <1>1, <2>1 DEF Atomic!Return
  <2> QED BY Zenon, <2>2 DEF Atomic!OpenNext
<1> QED BY <1>2, <1>3

\* One step of a walk whose root alone changes.
LEMMA AtomicStep ==
  ASSUME WalkInv, WalkInv', AtOnce, WalkNext
  PROVE  Atomic!OpenNext \/ UNCHANGED Atomic!openVars
<1>1. AtOnce'
  <2>1. changing' = changing
    BY DEF WalkNext, WalkStep, StartWalk, StepDown, OpenLast, OpenMissing, OpenFails, Replace,
           Done, walkVars
  <2> QED BY Zenon, <2>1 DEF AtOnce
<1>2. ASSUME NEW p \in Paths, StartWalk(p) PROVE Atomic!OpenNext
  <2>1. stage = "idle" /\ path' = p /\ index' = 0 /\ tree' = tree
    BY <1>2 DEF StartWalk
  <2>2. stage' \in (IF p = <<>> THEN {"notFound"} ELSE {"walk", "failed"})
    BY Zenon, <1>2 DEF StartWalk
  <2>3. CASE p = <<>>
    <3>1. stage' = "notFound" /\ Seen' = {None}
      BY Zenon, <2>2, <2>3 DEF Seen
    <3>2. Lookup(tree, p) = None
      <4>1. IsTree(tree) /\ Root \in Anything /\ p \in Seq(Names) /\ Len(p) = 0
        BY <2>3 DEF WalkInv, WalkTypeOK, Anything
      <4>2. LookupFrom(tree, Root, p, Len(p)) = FileAt(Root)
        BY Zenon, <4>1, LookupHere
      <4>3. FileAt(Root) = None
        BY DEF FileAt
      <4> QED BY Zenon, <4>1, <4>2, <4>3 DEF Lookup
    <3>3. Atomic!AskInVain(p)
      BY Zenon, <1>1, <2>1, <3>1, <3>2 DEF Atomic!AskInVain
    <3> QED BY Zenon, <3>3 DEF Atomic!OpenNext
  <2>4. CASE stage' = "walk"
    <3>1. Seen' = {}
      BY Zenon, <2>1, <2>4 DEF Seen
    <3>2. Atomic!Ask(p)
      BY Zenon, <1>1, <2>1, <2>4, <3>1 DEF Atomic!Ask
    <3> QED BY Zenon, <3>2 DEF Atomic!OpenNext
  <2>5. CASE stage' = "failed"
    <3>1. Seen' = {}
      BY Zenon, <2>1, <2>5 DEF Seen
    <3>2. Atomic!AskInVain(p)
      BY Zenon, <1>1, <2>1, <2>5, <3>1 DEF Atomic!AskInVain
    <3> QED BY Zenon, <3>2 DEF Atomic!OpenNext
  <2> QED BY Zenon, <2>2, <2>3, <2>4, <2>5
<1>3. CASE StepDown
  <2>1. /\ stage = "walk" /\ stage' = "walk" /\ tree' = tree /\ path' = path
        /\ current' = LedTo /\ index' = index + 1 /\ index' # 0
    BY <1>3 DEF StepDown, WalkInv, WalkTypeOK
  <2>2. Ahead' = Ahead /\ Seen' = {Ahead}
    <3>1. Ahead' = LookupFrom(tree, LedTo, path, index + 1)
      BY Zenon, <2>1 DEF Ahead
    <3>2. Ahead' = Ahead
      BY Zenon, <2>1, <3>1, AheadIs
    <3>3. Seen' = {Ahead'}
      BY Zenon, <2>1 DEF Seen, Ahead
    <3> QED BY Zenon, <3>2, <3>3
  <2>3. CASE index = 0
    <3>1. Seen = {} /\ Ahead = Lookup(tree, path)
      BY Zenon, <2>1, <2>3, AheadIs
    <3>2. Atomic!Look
      BY Zenon, <1>1, <2>1, <2>2, <3>1 DEF Atomic!Look
    <3> QED BY Zenon, <3>2 DEF Atomic!OpenNext
  <2>4. CASE index # 0
    <3>1. Seen' = Seen
      BY Zenon, <2>1, <2>2, <2>4, AheadIs
    <3> QED BY Zenon, <1>1, <2>1, <3>1 DEF Atomic!openVars
  <2> QED BY <2>3, <2>4
<1>4. CASE OpenLast
  <2>1. /\ stage = "walk" /\ IsLast /\ LedTo \in Inodes \ NoAccess
        /\ current' = LedTo /\ tree' = tree /\ path' = path
        /\ stage' = IF LedTo \in Regulars THEN "opened" ELSE "notFound"
    BY Zenon, <1>4 DEF OpenLast, Blocks, IsFile
  <2>2. Ahead = IF LedTo \in Regulars THEN LedTo ELSE None
    BY Zenon, <2>1, AheadAtLast DEF FileAt
  <2>3. LedTo # None
    BY Zenon, <2>1
  <2>4. Seen' = {Ahead}
    BY Zenon, <2>1, <2>2 DEF Seen
  <2>5. stage' = IF Ahead = None THEN "notFound" ELSE "opened"
    BY Zenon, <2>1, <2>2, <2>3
  <2> QED BY Zenon, <1>1, <2>1, <2>4, <2>5, Answers
<1>5. CASE OpenMissing
  <2>1. stage = "walk" /\ stage' = "notFound" /\ tree' = tree /\ path' = path
    BY <1>5 DEF OpenMissing
  <2>2. Ahead = None
    <3>1. CASE IsLast
      <4>1. LedTo \notin Inodes \ (Links \cup NoAccess)
        BY Zenon, <1>5, <3>1 DEF OpenMissing
      <4>2. LedTo \notin Regulars \ NoAccess
        BY <4>1
      <4> QED BY Zenon, <2>1, <3>1, <4>2, AheadAtLast DEF FileAt
    <3>2. CASE ~IsLast
      BY Zenon, <1>5, <2>1, <3>2, AheadOfNone DEF OpenMissing
    <3> QED BY <3>1, <3>2
  <2>3. Seen' = {Ahead}
    BY Zenon, <2>1, <2>2 DEF Seen
  <2> QED BY Zenon, <1>1, <2>1, <2>2, <2>3, Answers
<1>6. CASE OpenFails
  <2>1. /\ stage = "walk" /\ stage' = "failed" /\ tree' = tree /\ path' = path
        /\ index' = index /\ current' = current
    BY <1>6 DEF OpenFails
  <2>2. Seen' = Seen
    BY Zenon, <2>1 DEF Seen
  <2>3. Atomic!GiveUp
    BY Zenon, <1>1, <2>1, <2>2 DEF Atomic!GiveUp
  <2> QED BY Zenon, <2>3 DEF Atomic!OpenNext
<1>7. ASSUME NEW d \in changing, NEW n \in Names, NEW inode \in (Inside \ {Root}) \cup {None},
             Replace(d, n, inode)
      PROVE  Atomic!OpenNext
  <2>1. /\ stage = "walk" /\ stage' = stage /\ path' = path /\ index' = index
        /\ current' = current /\ tree' = [tree EXCEPT ![Root][n] = inode]
    BY <1>7 DEF Replace, AtOnce
  <2>2. Seen' = Seen
    <3>1. CASE index = 0
      BY Zenon, <2>1, <3>1 DEF Seen
    <3>2. CASE index # 0
      <4>1. /\ IsTree(tree) /\ current \in (Inside \ {Root}) \cup {None}
            /\ path \in Seq(Names) /\ index \in 0..Len(path)
        BY <2>1, <3>2 DEF WalkInv, WalkTypeOK, Confined
      <4>2. OffRootAlike(tree', tree)
        <5>1. DOMAIN tree = Dirs
          BY <4>1 DEF IsTree
        <5> QED BY <2>1, <5>1 DEF OffRootAlike
      <4>3. LookupFrom(tree', current, path, index) = LookupFrom(tree, current, path, index)
        BY ONLY <4>1, <4>2, LookupKept
      <4> QED BY Zenon, <2>1, <3>2, <4>3 DEF Seen
    <3> QED BY <3>1, <3>2
  <2>3. tree' \in {t \in [Dirs -> [Names -> Inodes \cup {None}]] : IsTree(t)}
    BY DEF WalkInv, WalkTypeOK, IsTree
  <2>4. Atomic!ChangeTree
    BY Zenon, <1>1, <2>1, <2>2, <2>3 DEF Atomic!ChangeTree
  <2> QED BY Zenon, <2>4 DEF Atomic!OpenNext
<1>8. CASE Done
  <2>1. /\ stage' = stage /\ tree' = tree /\ path' = path /\ index' = index
        /\ current' = current
    BY <1>8 DEF Done, walkVars
  <2>2. Seen' = Seen
    BY Zenon, <2>1 DEF Seen
  <2> QED BY Zenon, <1>1, <2>1, <2>2 DEF Atomic!openVars
<1> QED BY Zenon, <1>2, <1>3, <1>4, <1>5, <1>6, <1>7, <1>8 DEF WalkNext, WalkStep

LEMMA OpenStep ==
  WalkInv /\ WalkInv' /\ [WalkNext]_walkVars => [Atomic!OpenNext]_(Atomic!openVars)
<1> SUFFICES ASSUME WalkInv, WalkInv', [WalkNext]_walkVars
             PROVE  Atomic!OpenNext \/ UNCHANGED Atomic!openVars
  OBVIOUS
<1>1. CASE AtOnce /\ WalkNext
  BY Zenon, <1>1, AtomicStep
<1>2. CASE ~AtOnce /\ WalkNext
  <2>1. changing' = changing
    BY <1>2 DEF WalkNext, WalkStep, StartWalk, StepDown, OpenLast, OpenMissing, OpenFails, Replace,
           Done, walkVars
  <2>2. ~AtOnce'
    BY Zenon, <1>2, <2>1 DEF AtOnce
  <2>3. tree' \in {t \in [Dirs -> [Names -> Inodes \cup {None}]] : IsTree(t)}
    BY DEF WalkInv, WalkTypeOK, IsTree
  <2>4. Atomic!ChangeTree
    BY Zenon, <1>2, <2>2, <2>3 DEF Atomic!ChangeTree
  <2> QED BY Zenon, <2>4 DEF Atomic!OpenNext
<1>3. CASE UNCHANGED walkVars
  <2>1. /\ stage' = stage /\ tree' = tree /\ path' = path /\ index' = index
        /\ current' = current /\ changing' = changing
    BY <1>3 DEF walkVars
  <2>2. Seen' = Seen /\ (AtOnce' <=> AtOnce)
    BY Zenon, <2>1 DEF Seen, AtOnce
  <2> QED BY Zenon, <2>1, <2>2 DEF Atomic!openVars
<1> QED BY Zenon, <1>1, <1>2, <1>3

\* A release that is put in place by renaming is seen whole: the walk answers as
\* one look at one tree would, whatever is replaced in the document root while it
\* opens one component after the other (src/fs.rs).
THEOREM OpeningIsAtomic == WalkSpec => OpensAtomically
<1>1. WalkInit => Atomic!OpenInit
  <2> SUFFICES ASSUME WalkInit PROVE Atomic!OpenInit
    OBVIOUS
  <2>1. stage = "idle" /\ path = <<>> /\ index = 0 /\ IsTree(tree)
    BY DEF WalkInit
  <2>2. tree \in {t \in [Dirs -> [Names -> Inodes \cup {None}]] : IsTree(t)}
    BY <2>1 DEF IsTree
  <2>3. Seen = {}
    BY Zenon, <2>1 DEF Seen
  <2> QED BY Zenon, <2>1, <2>2, <2>3 DEF Atomic!OpenInit
<1> QED BY <1>1, WalkInvariant, OpenStep, PTL DEF WalkSpec, OpensAtomically, Atomic!OpenSpec

=============================================================================
