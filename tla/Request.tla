------------------------------- MODULE Request -------------------------------
(***************************************************************************)
(* One request from its complete header to its record in the log           *)
(* (handle_connection of src/server.rs after it called read_request, and   *)
(* log_request): the parser, the decoder of the target, the comparison     *)
(* of validators and the log, each a module, work on the same request.     *)
(* Which file answers is described by module StaticFiles, when reading     *)
(* times out or fails by modules Server and RequestReader, and what a      *)
(* record says of bytes and errors by module Response.                     *)
(*                                                                         *)
(* An operator named Bad... is a mutant of the one after it.               *)
(***************************************************************************)
EXTENDS RequestParser, TargetDecoder, LogLine

CONSTANTS
  Health,       \* the name is_health_path knows
  Modified      \* when a file of the document root was modified

ASSUME RequestAssumption == Modified \in Nat

VARIABLES
  outcome,      \* the RequestOutcome: status, method and path
  log           \* the record that is written

ownVars == <<outcome, log>>

requestVars == <<parserVars, decoderVars, ownVars>>

NoOutcome == [status |-> 0, method |-> <<>>, path |-> <<>>]

Unknown == <<"UNKNOWN">>

RequestInit ==
  /\ ParserInit
  /\ DecoderInit
  /\ outcome = NoOutcome
  /\ log = <<>>

Returns(status, method, path) ==
  /\ outcome = NoOutcome
  /\ outcome' = [status |-> status, method |-> method, path |-> path]
  /\ UNCHANGED <<parserVars, decoderVars, log>>

RefusesHeader ==
  \/ parsing = "BadRequest" /\ Returns(400, Unknown, <<>>)
  \/ parsing = "MethodNotAllowed" /\ Returns(405, requestLine.method, <<>>)

DecodesTarget ==
  /\ parsing = "accepted"
  /\ StartDecoding(requestLine.target)
  /\ UNCHANGED <<parserVars, ownVars>>

RefusesTarget ==
  /\ decoding = "BadRequest"
  /\ Returns(400, requestLine.method, PathForLog(requestLine.target))

Answers(status) ==
  /\ decoding = "accepted"
  /\ Returns(status, requestLine.method, PathForLog(requestLine.target))

AnswersHealth == components = <<Health>> /\ Answers(200)

\* is_not_modified
IsNotModified ==
  IF noneMatch # None THEN IfNoneMatchMatches(noneMatch)
  ELSE modifiedSince # None /\ Modified <= modifiedSince

\* serve_static: there is a file for the path, or there is none.
ServesStatic ==
  /\ components # <<Health>>
  /\ Answers(404) \/ Answers(IF IsNotModified THEN 304 ELSE 200)

LogsRequest ==
  /\ outcome # NoOutcome
  /\ log = <<>>
  /\ log' = Record(outcome.method, outcome.path)
  /\ UNCHANGED <<parserVars, decoderVars, outcome>>

RequestNext ==
  \/ ParserStep /\ UNCHANGED <<decoderVars, ownVars>>
  \/ RefusesHeader
  \/ DecodesTarget
  \/ DecoderStep /\ UNCHANGED <<parserVars, ownVars>>
  \/ RefusesTarget \/ AnswersHealth \/ ServesStatic
  \/ LogsRequest

RequestSpec == RequestInit /\ [][RequestNext]_requestVars

-----------------------------------------------------------------------------
(* Properties. *)

RequestTypeOK ==
  /\ ParserTypeOK
  /\ DecoderTypeOK
  /\ outcome.status \in {0, 200, 304, 400, 404, 405}
  /\ decoding # "idle" => parsing = "accepted" /\ target = requestLine.target
  /\ ToSet(log) \cap Controls = {}

\* A 304 means that the client has the file, weakly tagged or not, or asked for
\* any (the test at src/http.rs:694), and whoever has it gets one; only a client
\* that sent no tags is answered by date.  This is so unless the list has a tag
\* with a comma in it, which none of Statika's has: the value is split there.
MatchIsRight ==
  outcome.status \in {200, 304} /\ components # <<Health>> =>
    IF noneMatch = None
    THEN outcome.status = 304 <=> modifiedSince # None /\ Modified <= modifiedSince
    ELSE LET plain == \A i \in 1..Len(noneMatch) :
                        Inside(noneMatch, i) => noneMatch[i] # ","
         IN IsStar(noneMatch) \/ (IsTagList(noneMatch) /\ plain) =>
              (outcome.status = 304 <=> IsStar(noneMatch) \/ NamesOwn(noneMatch))

\* Whatever a request holds, the record of it is one line that says what it was:
\* no text of one member ends it, begins another, or reads as a different one,
\* and no character acts on a terminal.  The path is told whole and the query,
\* which may hold a secret, not at all (the test at src/server.rs:974).
RecordIsTrue ==
  log # <<>> =>
    LET read == Strings(log)
        path == read.strings[2]
    IN /\ read.in = "nothing" /\ Len(read.strings) = 2
       /\ read.strings[1] = IF parsing = "BadRequest" THEN Unknown ELSE requestLine.method
       /\ IF parsing # "accepted" THEN path = <<>>
          ELSE /\ IsPrefix(path, target) /\ "?" \notin ToSet(path)
               /\ path # target => target[Len(path) + 1] = "?"
=============================================================================
