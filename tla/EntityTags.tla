----------------------------- MODULE EntityTags -----------------------------
(***************************************************************************)
(* How If-None-Match is compared with the ETag of a file                   *)
(* (if_none_match_matches of src/http.rs, etag of src/server.rs).  The     *)
(* opaque part of the file's ETag is the one symbol Own; it consists of    *)
(* hexadecimal digits and dashes.                                          *)
(*                                                                         *)
(* An operator named Bad... is a mutant of the one after it.               *)
(***************************************************************************)
EXTENDS Splits

CONSTANTS
  Own,          \* the opaque part of the file's ETag
  Others        \* symbols of other tags

ASSUME TagsAssumption == Own \notin Others \cup {"\"", ",", "*", "W/", " "}

Symbols == {"\"", ",", "*", "W/", " ", Own} \cup Others

ETag == <<"\"", Own, "\"">>

Trim(s) ==
  LET text == {i \in 1..Len(s) : s[i] # " "}
  IN IF text = {} THEN <<>> ELSE SubSeq(s, Min(text), Max(text))

BadIsMatch(candidate) == candidate = ETag    \* weak tags and the star are forgotten

IsMatch(candidate) == candidate \in {<<"*">>, ETag, <<"W/">> \o ETag}

IfNoneMatchMatches(header) ==
  \E candidate \in ToSet(Split(header, ",")) : IsMatch(Trim(candidate))

-----------------------------------------------------------------------------
(* What RFC 9110 says of such a header, without splitting it. *)

Quotes(header) == {i \in 1..Len(header) : header[i] = "\""}

QuotesBefore(header, i) == Cardinality({q \in Quotes(header) : q < i})

Inside(header, i) == header[i] # "\"" /\ QuotesBefore(header, i) % 2 = 1

\* Its tags: between the first quote and the second, the third and the fourth,
\* and so on.
TagsOf(header) ==
  {t \in Quotes(header) \X Quotes(header) :
     /\ QuotesBefore(header, t[1]) % 2 = 0
     /\ QuotesBefore(header, t[2]) = QuotesBefore(header, t[1]) + 1}

\* Tags with commas between them, each with W/ before it or not, and without
\* blanks in it.
IsTagList(header) ==
  /\ Cardinality(Quotes(header)) % 2 = 0
  /\ \A i \in 1..Len(header) \ Quotes(header) :
       IF Inside(header, i) THEN header[i] # " "
       ELSE \/ header[i] \in {",", " "}
            \/ header[i] = "W/" /\ i + 1 \in Quotes(header)
  /\ \A t, u \in TagsOf(header) :
       t[2] < u[1] => \E i \in t[2]..u[1] : header[i] = "," /\ ~Inside(header, i)

IsStar(header) == Trim(header) = <<"*">>

NamesOwn(header) == \E t \in TagsOf(header) : SubSeq(header, t[1], t[2]) = ETag
=============================================================================
