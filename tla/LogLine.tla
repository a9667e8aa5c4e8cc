------------------------------- MODULE LogLine -------------------------------
(***************************************************************************)
(* How a line of the log is written (log_request with request_path_for_log *)
(* and escape_json of src/server.rs; log_started and log_accept_error do   *)
(* the same with other members): the method and the path of a request,     *)
(* each escaped between quotes.                                            *)
(*                                                                         *)
(* A character is itself or, if it is a control character, its name.  The  *)
(* text that does not depend on the request is left out, but for a colon.  *)
(*                                                                         *)
(* An operator named Bad... is a mutant of the one after it.               *)
(***************************************************************************)
EXTENDS Splits

CONSTANT Codes    \* the four digits of each control character

Controls == DOMAIN Codes

ASSUME LogAssumption ==
  /\ {"LF", "CR", "TAB"} \subseteq Controls
  /\ {":", "\"", "\\", "n", "r", "t", "u"} \cap Controls = {}
  /\ {Codes[c] : c \in Controls} \cap (Controls \cup {"\"", "\\"}) = {}
  /\ \A c, d \in Controls : Codes[c] = Codes[d] => c = d

\* request_path_for_log
PathForLog(target) == Split(target, "?")[1]

BadEscape(c) == IF c = "\"" THEN <<"\\", c>> ELSE <<c>>    \* the backslash is not

\* escape_json
Escape(c) ==
  CASE c \in {"\"", "\\"} -> <<"\\", c>>
    [] c = "LF" -> <<"\\", "n">>
    [] c = "CR" -> <<"\\", "r">>
    [] c = "TAB" -> <<"\\", "t">>
    [] c \in Controls \ {"LF", "CR", "TAB"} -> <<"\\", "u", Codes[c]>>
    [] OTHER -> <<c>>

Member(text) ==
  <<":", "\"">> \o FlattenSeq([i \in 1..Len(text) |-> Escape(text[i])]) \o <<"\"">>

Record(method, path) == Member(method) \o Member(path)

-----------------------------------------------------------------------------
(* How a reader of JSON takes such a line apart. *)

Unescaped(c) ==
  CASE c = "n" -> "LF" [] c = "r" -> "CR" [] c = "t" -> "TAB" [] OTHER -> c

OfCode(code) ==
  IF \E c \in Controls : Codes[c] = code
  THEN CHOOSE c \in Controls : Codes[c] = code ELSE code

\* What it is in, and the strings so far, the last of which may go on.
At(place, strings) == [in |-> place, strings |-> strings]

\* A character of the last string.
Adds(strings, c) ==
  At("string", [strings EXCEPT ![Len(strings)] = Append(@, c)])

Reads(r, c) ==
  CASE r.in = "nothing" -> IF c = "\"" THEN At("string", Append(r.strings, <<>>)) ELSE r
    [] r.in = "string" -> IF c = "\"" THEN At("nothing", r.strings)
                          ELSE IF c = "\\" THEN At("escape", r.strings)
                          ELSE Adds(r.strings, c)
    [] r.in = "escape" -> IF c = "u" THEN At("code", r.strings)
                          ELSE Adds(r.strings, Unescaped(c))
    [] r.in = "code" -> Adds(r.strings, OfCode(c))

\* Its strings, and whether it ends outside of one.
Strings(line) == FoldLeft(LAMBDA r, c : Reads(r, c), At("nothing", <<>>), line)
=============================================================================
