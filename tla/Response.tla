------------------------------ MODULE Response ------------------------------
(***************************************************************************)
(* What is sent for each outcome of a request, and what is logged of it    *)
(* (handle_connection, the end of serve_static, simple_error,              *)
(* simple_response, append_extra_headers and RequestOutcome of             *)
(* src/server.rs, response_head of src/http.rs), for every list of extra   *)
(* headers that the start described by module Startup lets through.        *)
(*                                                                         *)
(* A head is the sequence of its header names in lower case.  A write is   *)
(* one step that succeeds or fails on the way: module Transfer describes   *)
(* it.                                                                     *)
(*                                                                         *)
(* An operator named Bad... is a mutant of the one after it.               *)
(***************************************************************************)
EXTENDS Startup

CONSTANT Lengths    \* lengths of files and texts

ASSUME ResponseAssumption == Lengths \subseteq Nat

VARIABLES
  stage,       \* "ready", "head", "body" or, when it is logged, "done"
  response,    \* the response being written
  sent,        \* what was written: the head, and the bytes of the body
  outcome      \* the RequestOutcome that is logged

responseVars == <<stage, response, sent, outcome>>

Methods == {"GET", "HEAD"}

NoResponse ==
  [status |-> 0, method |-> "none", length |-> 0, names |-> <<>>, error |-> "none",
   failure |-> "none"]

Nothing == [head |-> FALSE, body |-> 0]

ResponseInit ==
  /\ stage = "ready"
  /\ response = NoResponse
  /\ sent = Nothing
  /\ outcome = [bytes |-> 0, error |-> "none"]

OnlyIf(condition, name) == IF condition THEN <<name>> ELSE <<>>

\* response_head
HeadOf(status, headers) ==
  <<"server", "connection", "x-content-type-options", "date", "content-length">>
    \o OnlyIf(status # 304, "content-type") \o headers

\* Start a response: told is logged as its error if all goes well,
\* failure if its body fails.
Respond(status, method, length, headers, told, failure) ==
  /\ stage = "ready"
  /\ stage' = "head"
  /\ response' = [status |-> status, method |-> method, length |-> length,
                  names |-> HeadOf(status, headers \o settings.EXTRA_HEADERS),
                  error |-> told, failure |-> failure]
  /\ UNCHANGED <<sent, outcome>>

SimpleError(status, method, length) ==
  Respond(status, method, length,
          <<"cache-control">> \o OnlyIf(status = 405, "allow"), "refused", "write_body")

\* No request could be read; the peer of a request that ended in Io gets nothing.
RefusesUnread ==
  \E length \in Lengths :
    \/ \E status \in {400, 408, 431} : SimpleError(status, "UNKNOWN", length)
    \/ SimpleError(405, "POST", length)

ReadBreaks ==
  /\ stage = "ready"
  /\ stage' = "done"
  /\ outcome' = [bytes |-> 0, error |-> "read_io"]
  /\ UNCHANGED <<response, sent>>

RefusesRequest ==
  \E status \in {400, 404, 500}, method \in Methods, length \in Lengths :
    SimpleError(status, method, length)

AnswersHealth ==
  \E method \in Methods, length \in Lengths :
    Respond(200, method, length, <<"cache-control">>, "none", "write_body")

BadVaries == settings.GZIP    \* brotli came later

Varies == settings.GZIP \/ settings.BROTLI

\* The end of serve_static, for a file of an encoding that is enabled.
AnswersFile ==
  \E status \in {200, 304}, method \in Methods, length \in Lengths,
     encoding \in {"identity"} \cup {e \in {"br", "gzip"} :
                     IF e = "br" THEN settings.BROTLI ELSE settings.GZIP} :
    Respond(status, method, length,
            <<"cache-control", "etag", "last-modified">> \o OnlyIf(Varies, "vary")
              \o OnlyIf(encoding # "identity", "content-encoding"),
            "none", "send_file")

BadHasBody == response.method # "HEAD"    \* a 304 has one, too

HasBody == response.method # "HEAD" /\ response.status # 304

Logs(bytes, told) == stage' = "done" /\ outcome' = [bytes |-> bytes, error |-> told]

WritesHead ==
  /\ stage = "head"
  /\ sent' = [sent EXCEPT !.head = TRUE]
  /\ IF HasBody THEN stage' = "body" /\ UNCHANGED outcome ELSE Logs(0, response.error)
  /\ UNCHANGED response

WriteHeadFails ==
  /\ stage = "head"
  /\ Logs(0, "write_header")
  /\ UNCHANGED <<response, sent>>

WritesBody ==
  /\ stage = "body"
  /\ sent' = [sent EXCEPT !.body = response.length]
  /\ Logs(response.length, response.error)
  /\ UNCHANGED response

WriteBodyFails ==
  /\ stage = "body"
  /\ \E n \in 0..response.length : sent' = [sent EXCEPT !.body = n]
  /\ Logs(0, response.failure)
  /\ UNCHANGED response

ResponseNext ==
  \/ RefusesUnread \/ ReadBreaks \/ RefusesRequest \/ AnswersHealth \/ AnswersFile
  \/ WritesHead \/ WriteHeadFails \/ WritesBody \/ WriteBodyFails

serviceVars == <<startupVars, responseVars>>

ServiceInit == StartupInit /\ ResponseInit

ServiceNext ==
  \/ Started /\ UNCHANGED responseVars
  \/ pc = "serve" /\ ResponseNext /\ UNCHANGED startupVars

\* accept_loop goes on until SHUTDOWN is set; then it does stop.
ServiceSpec ==
  /\ ServiceInit /\ [][ServiceNext]_serviceVars
  /\ WF_serviceVars(Main /\ UNCHANGED responseVars)
  /\ WF_serviceVars(shutdown /\ Stops /\ UNCHANGED responseVars)

-----------------------------------------------------------------------------
(* Properties. *)

ServiceTypeOK ==
  /\ StartupTypeOK
  /\ stage \in {"ready", "head", "body", "done"}
  /\ response.length \in Lengths \cup {0}
  /\ sent.head \in BOOLEAN
  /\ sent.body \in 0..response.length
  /\ sent.body > 0 => sent.head
  /\ outcome.bytes \in {0, sent.body}

Times(name) == Cardinality({i \in 1..Len(response.names) : response.names[i] = name})

\* README.md:62: the headers Statika owns are in a response once at most whatever
\* the configuration adds, and those that frame it are there.
OwnedOnce ==
  response # NoResponse =>
    /\ \A name \in {"server", "connection", "date", "content-length", "cache-control"} :
         Times(name) = 1
    /\ \A name \in {"content-type", "etag", "last-modified", "vary", "content-encoding"} :
         Times(name) <= 1
    /\ Times("transfer-encoding") = 0

\* A cache must not give one client what another negotiated: where a response is
\* encoded, it and the unencoded one of the same server name Accept-Encoding.
VaryTold ==
  response # NoResponse /\ Times("etag") = 1 =>
    /\ Times("content-encoding") = 1 => Times("vary") = 1
    /\ settings.BROTLI \/ settings.GZIP => Times("vary") = 1

\* A head is well framed and told apart by caches.
HeadIsRight == OwnedOnce /\ VaryTold

\* The announced length is true to the peer: a request without an error in the
\* log was answered with a head and with all of the body or, if the request is
\* HEAD or the answer 304, none of it; and the log counts its bytes.
LogIsTrue ==
  stage = "done" /\ outcome.error \in {"none", "refused"} =>
    /\ sent.head
    /\ sent.body = IF response.method = "HEAD" \/ response.status = 304
                   THEN 0 ELSE response.length
    /\ outcome.bytes = sent.body
=============================================================================
