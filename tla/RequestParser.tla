---------------------------- MODULE RequestParser ----------------------------
(***************************************************************************)
(* How a request header becomes a Request (parse_request,                  *)
(* accepted_encodings and parse_quality of src/http.rs).  One line of the  *)
(* header, then one item of its Accept-Encoding lines, is one step.        *)
(*                                                                         *)
(* A line is what its bytes mean to the parser; "malformed" stands for     *)
(* every line it refuses without looking at its name: no CR before the LF, *)
(* too long, a control byte, a leading blank (a folded line), no colon, a  *)
(* name that is no token.  Only quality values are spelled out: a digit is *)
(* a number, the point is Dot, and anything above Dot is another byte.     *)
(*                                                                         *)
(* An operator named Bad... is a mutant of the one after it.               *)
(***************************************************************************)
EXTENDS EntityTags

CONSTANTS
  RequestLines,         \* the lines a request may begin with
  HeaderLines(_, _),    \* the lines that may follow a request line and these lines
  Dates,                \* dates parse_http_date accepts
  None                  \* no value

\* A request line is formed only if its target begins with a slash.
ASSUME ParserAssumption ==
  /\ Dates \subseteq Nat /\ None \notin Nat
  /\ RequestLines \subseteq [formed : BOOLEAN, method : Seq(STRING),
                            target : Seq(STRING), version : STRING]
  /\ \A line \in RequestLines : line.formed => line.target # <<>> /\ Head(line.target) = "/"

Dot == 10

Digits == 0..9

\* An item of Accept-Encoding: its token, and the values of its q parameters.
Items == [token : {"br", "gzip", "*", "other", ""}, q : Seq(Seq(Nat))]

Lines ==
  [name : {"malformed", "other"}]
    \cup [name : {"host"}, empty : BOOLEAN]
    \cup [name : {"accept-encoding"}, items : Seq(Items)]
    \cup [name : {"if-none-match"}, tags : Seq(Symbols)]
    \cup [name : {"if-modified-since"}, date : Dates \cup {None}]

VARIABLES
  parsing,         \* "start", "headers", "encodings", or what parse_request returns
  requestLine,     \* the request line
  seen,            \* every header line so far
  hostCount,       \* host_count
  acceptEncoding,  \* the items of accept_encoding not looked at yet
  quality,         \* br, gzip and wildcard of accepted_encodings
  noneMatch,       \* if_none_match
  modifiedSince    \* if_modified_since

parserVars == <<parsing, requestLine, seen, hostCount, acceptEncoding, quality,
                noneMatch, modifiedSince>>

Refused == {"BadRequest", "MethodNotAllowed"}

Methods == {<<"GET">>, <<"HEAD">>}

Versions == {"HTTP/1.1", "HTTP/1.0"}

Codings == {"br", "gzip", "*"}

ParserTypeOK ==
  /\ parsing \in {"start", "headers", "encodings", "accepted"} \cup Refused
  /\ seen \in Seq(Lines)
  /\ hostCount \in 0..Len(seen)
  /\ acceptEncoding \in Seq(Items)
  /\ quality \in [Codings -> 0..1000 \cup {None}]
  /\ noneMatch # None => noneMatch \in Seq(Symbols)
  /\ modifiedSince \in Dates \cup {None}

ParserInit ==
  /\ parsing = "start"
  /\ requestLine \in RequestLines
  /\ seen = <<>>
  /\ hostCount = 0
  /\ acceptEncoding = <<>>
  /\ quality = [c \in Codings |-> None]
  /\ noneMatch = None
  /\ modifiedSince = None

-----------------------------------------------------------------------------
(* parse_request. *)

\* What the request line alone leads to.  Its form is looked at first.
AfterRequestLine(line) ==
  IF ~line.formed \/ line.version \notin Versions THEN "BadRequest"
  ELSE IF line.method \notin Methods THEN "MethodNotAllowed"
  ELSE "headers"

ReadRequestLine ==
  /\ parsing = "start"
  /\ parsing' = AfterRequestLine(requestLine)
  /\ UNCHANGED <<requestLine, seen, hostCount, acceptEncoding, quality,
                 noneMatch, modifiedSince>>

IsRefused(line) ==
  \/ line.name = "malformed"
  \/ line.name = "host" /\ line.empty

BadJoined(items) ==    \* no comma between the lines
  IF acceptEncoding = <<>> \/ items = <<>> THEN acceptEncoding \o items
  ELSE Front(acceptEncoding)
         \o <<[token |-> "other", q |-> Last(acceptEncoding).q \o Head(items).q]>>
         \o Tail(items)

Joined(items) == acceptEncoding \o items

DateOf(line) == line.date

BadHosts(line) == IF line.name = "host" THEN 1 ELSE hostCount    \* a flag

Hosts(line) == IF line.name = "host" THEN hostCount + 1 ELSE hostCount

ReadHeader(line) ==
  /\ parsing = "headers"
  /\ seen' = Append(seen, line)
  /\ IF IsRefused(line)
     THEN /\ parsing' = "BadRequest"
          /\ UNCHANGED <<hostCount, acceptEncoding, noneMatch, modifiedSince>>
     ELSE /\ hostCount' = Hosts(line)
          /\ acceptEncoding' = IF line.name = "accept-encoding"
                               THEN Joined(line.items) ELSE acceptEncoding
          /\ noneMatch' = IF line.name = "if-none-match" THEN line.tags ELSE noneMatch
          /\ modifiedSince' = IF line.name = "if-modified-since"
                              THEN DateOf(line) ELSE modifiedSince
          /\ UNCHANGED parsing
  /\ UNCHANGED <<requestLine, quality>>

\* The empty line.
EndHeaders ==
  /\ parsing = "headers"
  /\ parsing' = IF requestLine.version = "HTTP/1.1" /\ hostCount # 1
           THEN "BadRequest" ELSE "encodings"
  /\ UNCHANGED <<requestLine, seen, hostCount, acceptEncoding, quality,
                 noneMatch, modifiedSince>>

-----------------------------------------------------------------------------
(* accepted_encodings. *)

\* "0", "0.", "0.0", ... or "1", "1.", "1.0", ...
Spellings(digit) == {SubSeq(<<digit, Dot, 0, 0, 0>>, 1, n) : n \in 1..5}

Number(digits) == FoldLeft(LAMBDA n, d : 10 * n + d, 0, digits)

Padding == <<100, 10, 1>>

IsFraction(value) ==
  /\ Len(value) \in 3..5
  /\ SubSeq(value, 1, 2) = <<0, Dot>>
  /\ \A i \in 3..Len(value) : value[i] \in Digits

\* parse_quality in thousandths, 0 for a value it refuses.
ParseQuality(value) ==
  IF value \in Spellings(0) THEN 0
  ELSE IF value \in Spellings(1) THEN 1000
  ELSE IF IsFraction(value)
  THEN Number(SubSeq(value, 3, Len(value))) * Padding[Len(value) - 2]
  ELSE 0

QualityOf(item) == IF item.q = <<>> THEN 1000 ELSE ParseQuality(Last(item.q))

NextItem ==
  /\ parsing = "encodings"
  /\ acceptEncoding # <<>>
  /\ LET item == Head(acceptEncoding)
     IN quality' = IF item.token \in Codings
                   THEN [quality EXCEPT ![item.token] = QualityOf(item)]
                   ELSE quality
  /\ acceptEncoding' = Tail(acceptEncoding)
  /\ UNCHANGED <<parsing, requestLine, seen, hostCount, noneMatch, modifiedSince>>

WithDefault(coding) ==
  IF quality[coding] # None THEN quality[coding]
  ELSE IF quality["*"] # None THEN quality["*"] ELSE 0

Accept ==
  /\ parsing = "encodings"
  /\ acceptEncoding = <<>>
  /\ parsing' = "accepted"
  /\ quality' = [c \in Codings |-> IF c = "*" THEN quality[c] ELSE WithDefault(c)]
  /\ UNCHANGED <<requestLine, seen, hostCount, acceptEncoding, noneMatch,
                 modifiedSince>>

ParserStep ==
  \/ ReadRequestLine
  \/ \E line \in HeaderLines(requestLine, seen) \cap Lines : ReadHeader(line)
  \/ EndHeaders
  \/ NextItem
  \/ Accept

-----------------------------------------------------------------------------
(* Properties. *)

Named(name) == {i \in 1..Len(seen) : seen[i].name = name}

\* README.md:23: a request is accepted only with a well-formed line for a method
\* that is served, with headers all well-formed, and, if it is HTTP/1.1, with
\* exactly one Host that is not empty: however many lines came in what order.
\* A wrong method is told from a malformed request before any header counts.
VerdictIsRight ==
  /\ parsing = "accepted" =>
       /\ requestLine.formed
       /\ requestLine.method \in Methods /\ requestLine.version \in Versions
       /\ Named("malformed") = {}
       /\ \A i \in Named("host") : ~seen[i].empty
       /\ requestLine.version = "HTTP/1.1" => \E i \in Named("host") : Named("host") = {i}
  /\ parsing = "BadRequest" =>
       \/ ~requestLine.formed \/ requestLine.version \notin Versions
       \/ Named("malformed") # {}
       \/ \E i \in Named("host") : seen[i].empty
       \/ requestLine.version = "HTTP/1.1" /\ ~\E i \in Named("host") : Named("host") = {i}
  /\ parsing = "MethodNotAllowed" =>
       requestLine.formed /\ requestLine.method \notin Methods /\ seen = <<>>

\* The validators are those of the last line of their name.  A date that cannot
\* be read takes an earlier one back: it must not lead to a 304 (RFC 9110 has it
\* ignored).
ValidatorsAreTheLast ==
  parsing = "accepted" =>
    /\ noneMatch = IF Named("if-none-match") = {} THEN None
                   ELSE seen[Max(Named("if-none-match"))].tags
    /\ modifiedSince = IF Named("if-modified-since") = {} THEN None
                       ELSE seen[Max(Named("if-modified-since"))].date

\* A quality as RFC 9110 reads it: a digit, a point, at most three digits, no
\* more than 1.  Whatever is spelled differently counts as 0.
Place(value, i) == IF i <= Len(value) THEN value[i] ELSE 0

Thousandths(value) ==
  1000 * value[1] + 100 * Place(value, 3) + 10 * Place(value, 4) + Place(value, 5)

IsQuality(value) ==
  /\ Len(value) \in 1..5
  /\ \A i \in 1..Len(value) : IF i = 2 THEN value[i] = Dot ELSE value[i] \in Digits
  /\ Thousandths(value) <= 1000

ItemQuality(item) ==
  IF item.q = <<>> THEN 1000
  ELSE IF IsQuality(Last(item.q)) THEN Thousandths(Last(item.q)) ELSE 0

AllItems ==
  FlattenSeq([i \in 1..Len(seen) |->
                IF seen[i].name = "accept-encoding" THEN seen[i].items ELSE <<>>])

ItemsFor(token) == {i \in 1..Len(AllItems) : AllItems[i].token = token}

\* README.md:15: quality values are respected.  The quality of a coding is what
\* the last item that names it says, else the last wildcard, else 0, over all
\* Accept-Encoding lines together.
EncodingsAreRight ==
  parsing = "accepted" =>
    \A c \in {"br", "gzip"} :
      quality[c] = IF ItemsFor(c) # {} THEN ItemQuality(AllItems[Max(ItemsFor(c))])
                   ELSE IF ItemsFor("*") # {}
                   THEN ItemQuality(AllItems[Max(ItemsFor("*"))])
                   ELSE 0

\* What an accepted request says of encodings and validators is what its header
\* says, however many lines of a name came in what order.
AcceptedIsRight == ValidatorsAreTheLast /\ EncodingsAreRight
=============================================================================
