---------------------------- MODULE TargetDecoder ----------------------------
(***************************************************************************)
(* How the target of a request becomes the components of a path            *)
(* (decode_target of src/http.rs): the query is cut off, escapes are       *)
(* decoded, and what was decoded is split at its slashes, so that an       *)
(* escaped slash separates components as a plain one does.                 *)
(*                                                                         *)
(* A byte is a character or one of the names MC modules give to bytes that *)
(* only an escape yields.  Positions count from 1.  Decoding is "idle"     *)
(* until module Request calls decode_target.                               *)
(*                                                                         *)
(* An operator named Bad... is a mutant of the one after it.               *)
(***************************************************************************)
EXTENDS FiniteSets, Splits

CONSTANTS
  HexDigits,    \* what hex accepts
  ByteOf,       \* the byte of two hexadecimal digits
  Forbidden     \* NUL, the backslash and the control bytes

ASSUME DecoderAssumption ==
  /\ DOMAIN ByteOf = HexDigits \X HexDigits
  /\ {"%", "/", ".", "?"} \cap (HexDigits \cup Forbidden) = {}

VARIABLES
  decoding,     \* "idle", "decode", "split", or what decode_target returns
  target,       \* the target
  slash,        \* trailing_slash
  cursor,       \* the next byte of the path to decode
  decoded,      \* the bytes decoded so far
  rest,         \* those not split yet
  components    \* the components so far

decoderVars == <<decoding, target, slash, cursor, decoded, rest, components>>

Positions(s, byte) == {i \in 1..Len(s) : s[i] = byte}

\* What comes before the first of these bytes.
Before(s, byte) ==
  IF Positions(s, byte) = {} THEN s ELSE SubSeq(s, 1, Min(Positions(s, byte)) - 1)

Path == Before(target, "?")

DecoderTypeOK ==
  /\ decoding \in {"idle", "decode", "split", "accepted", "BadRequest"}
  /\ slash \in BOOLEAN
  /\ cursor \in 1..Len(Path) + 1
  /\ Len(decoded) < cursor
  /\ IsSuffix(rest, decoded)
  /\ Len(components) <= Len(decoded)

DecoderInit ==
  /\ decoding = "idle"
  /\ target = <<>>
  /\ slash = FALSE
  /\ cursor = 1
  /\ decoded = <<>>
  /\ rest = <<>>
  /\ components = <<>>

\* parse_request has seen to it that a target begins with a slash.
StartDecoding(bytes) ==
  /\ decoding = "idle"
  /\ decoding' = "decode"
  /\ target' = bytes
  /\ slash' = (Last(Before(bytes, "?")) = "/")
  /\ UNCHANGED <<cursor, decoded, rest, components>>

Refuse ==
  /\ decoding' = "BadRequest"
  /\ UNCHANGED <<target, slash, cursor, decoded, rest, components>>

DecodePlain ==
  /\ decoding = "decode"
  /\ cursor <= Len(Path) /\ Path[cursor] # "%"
  /\ decoded' = Append(decoded, Path[cursor])
  /\ cursor' = cursor + 1
  /\ UNCHANGED <<decoding, target, slash, rest, components>>

IsEscape ==
  /\ cursor + 2 <= Len(Path)
  /\ Path[cursor + 1] \in HexDigits
  /\ Path[cursor + 2] \in HexDigits

BadWidth == 4

Width == 3

DecodeEscape ==
  /\ decoding = "decode"
  /\ cursor <= Len(Path) /\ Path[cursor] = "%"
  /\ IF IsEscape
     THEN /\ decoded' = Append(decoded, ByteOf[Path[cursor + 1], Path[cursor + 2]])
          /\ cursor' = cursor + Width
          /\ UNCHANGED <<decoding, target, slash, rest, components>>
     ELSE Refuse

BadIsSafe == \A i \in 1..Len(Path) : Path[i] \notin Forbidden    \* before decoding

IsSafe == \A i \in 1..Len(decoded) : decoded[i] \notin Forbidden

CheckDecoded ==
  /\ decoding = "decode"
  /\ cursor > Len(Path)
  /\ IF IsSafe
     THEN /\ decoding' = "split"
          /\ rest' = decoded
          /\ UNCHANGED <<target, slash, cursor, decoded, components>>
     ELSE Refuse

IsDots(component) == component \in {<<".">>, <<".", ".">>}

ComponentsWith(component) ==
  IF component = <<>> THEN components ELSE Append(components, component)

\* The bytes before the next slash are a component.
SplitNext ==
  /\ decoding = "split"
  /\ rest # <<>>
  /\ LET component == Before(rest, "/")
     IN IF IsDots(component)
        THEN Refuse
        ELSE /\ components' = ComponentsWith(component)
             /\ rest' = SubSeq(rest, Len(component) + 2, Len(rest))
             /\ UNCHANGED <<decoding, target, slash, cursor, decoded>>

EndSplit ==
  /\ decoding = "split"
  /\ rest = <<>>
  /\ decoding' = "accepted"
  /\ UNCHANGED <<target, slash, cursor, decoded, rest, components>>

DecoderStep == DecodePlain \/ DecodeEscape \/ CheckDecoded \/ SplitNext \/ EndSplit

-----------------------------------------------------------------------------
(* A reading of the target that does not scan it.  Only hexadecimal digits *)
(* follow a percent sign, so every percent sign before the query begins an *)
(* escape.                                                                 *)

InPath(i) == i \in 1..Len(target) /\ \A j \in 1..i : target[j] # "?"

WellEscaped ==
  \A i \in Positions(target, "%") :
    InPath(i) => \A j \in {i + 1, i + 2} : InPath(j) /\ target[j] \in HexDigits

Unit(i) == InPath(i) /\ \A j \in {i - 1, i - 2} \cap 1..Len(target) : target[j] # "%"

ByteAt(i) ==
  IF target[i] = "%" THEN ByteOf[target[i + 1], target[i + 2]] ELSE target[i]

Ascending(S) ==
  [k \in 1..Cardinality(S) |-> CHOOSE i \in S : Cardinality({j \in S : j <= i}) = k]

Reading ==
  LET units == Ascending({i \in 1..Len(target) : Unit(i)})
  IN [k \in 1..Len(units) |-> ByteAt(units[k])]

\* What Reading may not hold, and what the runs between its slashes may not be.
IsAllowed ==
  /\ ToSet(Reading) \cap Forbidden = {}
  /\ ToSet(Split(Reading, "/")) \cap {<<".">>, <<".", ".">>} = {}

-----------------------------------------------------------------------------
(* Properties. *)

\* README.md:21: the walk below the document root relies on components that name
\* a file of one directory each: none is empty, "." or "..", and none hides a
\* slash, a NUL, a backslash or a control byte, however it was escaped.
ComponentsAreNormal ==
  \A c \in ToSet(components) :
    c \notin {<<>>, <<".">>, <<".", ".">>} /\ ToSet(c) \cap (Forbidden \cup {"/"}) = {}

\* A target is the path up to its query, each escape decoded once: "%252e" is the
\* name "%2e", and an escaped question mark does not begin a query.  Nothing
\* between two slashes is lost, merged or split, and a path that asks for the
\* index of a directory still ends in a slash.  Only a broken escape, a forbidden
\* byte or a dot segment is refused: a query may hold anything.
TargetIsRead ==
  /\ ComponentsAreNormal
  /\ decoding = "accepted" =>
       /\ WellEscaped
       /\ components = Without(Split(Reading, "/"), <<>>)
       /\ slash => Last(Reading) = "/"
  /\ decoding = "BadRequest" /\ WellEscaped => ~IsAllowed
=============================================================================
