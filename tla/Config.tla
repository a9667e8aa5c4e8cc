------------------------------- MODULE Config -------------------------------
(***************************************************************************)
(* What a setting makes of its environment variable (src/config.rs): one   *)
(* operator per parser, each yielding the setting or Invalid.              *)
(*                                                                         *)
(* A raw value is what the parsers see of it: a number, 0 standing for     *)
(* every text that is none; a word, in lower case and trimmed; the bytes   *)
(* of a path; for the headers a sequence of lines, each "" (blank), a      *)
(* header name in lower case, or "malformed" (no colon, no valid name, too *)
(* long, or a control byte).                                               *)
(*                                                                         *)
(* An operator named Bad... is a mutant of the one after it.               *)
(***************************************************************************)
EXTENDS Splits

CONSTANTS
  Unset,      \* the variable is not there
  NotUtf8,    \* its value is not UTF-8
  Invalid,    \* no setting: ConfigError
  Cpus        \* available_parallelism

ASSUME ConfigAssumption ==
  /\ Cpus \in Nat \ {0}
  /\ Invalid \notin Nat \cup BOOLEAN \cup {"every interface", "an address", "absolute"}

\* The variables in the order in which from_env reads them.
Variables ==
  <<"LISTEN_ADDR", "ROOT", "INDEX", "ASSETS_PATH", "THREADS", "QUEUE_SIZE",
    "GZIP", "BROTLI", "DENY_DOTFILES", "REQUEST_TIMEOUT_SECS",
    "SHUTDOWN_TIMEOUT_SECS", "EXTRA_HEADERS">>

\* The raw values of each.  A path is bytes, which need not be UTF-8.
Raw(name) ==
  CASE name \in {"INDEX", "ASSETS_PATH"} -> {Unset} \cup Seq(STRING)
    [] name = "EXTRA_HEADERS" -> {Unset, NotUtf8} \cup Seq(STRING)
    [] name \in {"THREADS", "QUEUE_SIZE", "REQUEST_TIMEOUT_SECS", "SHUTDOWN_TIMEOUT_SECS"} ->
         {Unset, NotUtf8} \cup Nat
    [] OTHER -> {Unset, NotUtf8} \cup STRING

MaxThreads == 256
MaxQueueSize == 65536
MaxTimeout == 300
MaxExtraHeaders == 32

Least(m, n) == IF m <= n THEN m ELSE n

\* parse_usize and parse_u64
ParseNumber(raw, default, max) ==
  IF raw = Unset THEN default
  ELSE IF raw # NotUtf8 /\ raw \in 1..max THEN raw ELSE Invalid

ParseBool(raw, default) ==
  CASE raw = Unset -> default
    [] raw \in {"1", "true", "yes", "on"} -> TRUE
    [] raw \in {"0", "false", "no", "off"} -> FALSE
    [] OTHER -> Invalid

Dots == {<<".">>, <<".", ".">>}

BadParseComponents(bytes) ==    \* empty components are dropped, as decode_target does
  IF bytes = <<>> \/ "\\" \in ToSet(bytes) \/ ToSet(Split(bytes, "/")) \cap Dots # {}
  THEN Invalid
  ELSE Without(Split(bytes, "/"), <<>>)

ParseComponents(bytes) ==
  IF \/ bytes = <<>> \/ "\\" \in ToSet(bytes)
     \/ ToSet(Split(bytes, "/")) \cap ({<<>>} \cup Dots) # {}
  THEN Invalid
  ELSE Split(bytes, "/")

ParseRelativePath(bytes) ==
  IF bytes # <<>> /\ Head(bytes) = "/" THEN Invalid ELSE ParseComponents(bytes)

\* One slash is stripped at either end.
ParseUrlPrefix(bytes) ==
  IF bytes = <<>> \/ Head(bytes) # "/" THEN Invalid
  ELSE IF Len(bytes) > 1 /\ Last(bytes) = "/"
  THEN ParseComponents(SubSeq(bytes, 2, Len(bytes) - 1))
  ELSE ParseComponents(Tail(bytes))

\* is_reserved_response_header
Reserved ==
  {"cache-control", "connection", "content-encoding", "content-length",
   "content-type", "date", "etag", "last-modified", "server",
   "transfer-encoding", "vary"}

TooMany(headers) == Len(headers) > MaxExtraHeaders

ParseExtraHeaders(lines) ==
  LET headers == Without(lines, "")
  IN IF TooMany(headers) \/ ToSet(headers) \cap (Reserved \cup {"malformed"}) # {}
     THEN Invalid
     ELSE headers

DefaultIndex == <<"i">>
DefaultAssets == <<"/", "a">>

Or(raw, default) == IF raw = Unset THEN default ELSE raw

DefaultQueue(settings) == Least(settings.THREADS * 64, MaxQueueSize)

\* What from_env makes of one variable, given the settings before it.
Setting(name, raw, settings) ==
  CASE name = "LISTEN_ADDR" ->
         IF raw \in {Unset, NotUtf8} THEN "every interface"
         ELSE IF raw = "an address" THEN raw ELSE Invalid
    [] name = "ROOT" -> IF raw = "absolute" THEN raw ELSE Invalid
    [] name = "INDEX" -> ParseRelativePath(Or(raw, DefaultIndex))
    [] name = "ASSETS_PATH" -> ParseUrlPrefix(Or(raw, DefaultAssets))
    [] name = "THREADS" -> ParseNumber(raw, Least(Cpus, 32), MaxThreads)
    [] name = "QUEUE_SIZE" -> ParseNumber(raw, DefaultQueue(settings), MaxQueueSize)
    [] name = "REQUEST_TIMEOUT_SECS" -> ParseNumber(raw, 5, MaxTimeout)
    [] name = "SHUTDOWN_TIMEOUT_SECS" -> ParseNumber(raw, 10, MaxTimeout)
    [] name = "EXTRA_HEADERS" ->
         IF raw = NotUtf8 THEN Invalid ELSE ParseExtraHeaders(Or(raw, <<>>))
    [] OTHER -> ParseBool(raw, TRUE)
=============================================================================
