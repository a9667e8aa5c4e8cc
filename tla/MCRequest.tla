------------------------------ MODULE MCRequest ------------------------------
(* Requests for TLC, in slices: each exercises one part of the header, target or
   method in depth, and has little else. *)
EXTENDS Request, TLC

Line(formed, method, version, path) ==
  [formed |-> formed, method |-> <<method>>, version |-> version, target |-> path]

Old(path) == Line(TRUE, "GET", "HTTP/1.0", path)

Upto(n, symbols) == UNION {[1..m -> symbols] : m \in 0..n}

Below(paths) == {<<"/">> \o path : path \in paths}

\* Headers: every sequence of four lines, at the root.
Root == <<"/">>

HeaderRequests ==
  {Line(TRUE, m, v, Root) : m \in {"GET", "POST"}, v \in Versions \cup {"HTTP/2.0"}}
    \cup {Line(FALSE, m, "HTTP/1.1", Root) : m \in {"GET", "POST"}}

Item(token, values) == [token |-> token, q |-> values]

Accepts(items) == [name |-> "accept-encoding", items |-> items]

Validates(tags) == [name |-> "if-none-match", tags |-> tags]

Half == <<0, Dot, 5>>
Long == <<0, Dot, 7, 7, 7, 7>>

SomeLines ==
  {[name |-> "malformed"], [name |-> "other"],
   [name |-> "host", empty |-> TRUE], [name |-> "host", empty |-> FALSE],
   Accepts(<<Item("br", <<>>)>>),
   Accepts(<<Item("gzip", <<<<1>>, Half>>), Item("", <<>>)>>),
   Accepts(<<Item("br", <<<<0>>>>), Item("*", <<Half>>)>>),
   Accepts(<<Item("other", <<>>), Item("gzip", <<Long>>)>>),
   Validates(ETag), Validates(<<>>),
   [name |-> "if-modified-since", date |-> Modified],
   [name |-> "if-modified-since", date |-> Modified - 1],
   [name |-> "if-modified-since", date |-> None]}

\* Qualities: every spelling of up to five bytes, and one that is too long.
Coded == <<"/", "q">>

QualityLines ==
  {Accepts(<<Item("br", <<value>>)>>) :
     value \in {Long} \cup Upto(5, {0, 1, 7, Dot, Dot + 1})}

\* Validators: lists of up to five pieces.
Tagged == <<"/", "t">>

TagLines ==
  {Validates(FlattenSeq(pieces)) :
     pieces \in Upto(5, {ETag, <<"W/">> \o ETag, <<"\"", "x", "\"">>, <<"\"">>, <<"*">>,
                         <<",">>, <<" ">>})}

MCHeaderLines(line, before) ==
  CASE line.target = Root /\ Len(before) < 4 -> SomeLines
    [] line.target = Coded /\ before = <<>> -> QualityLines
    [] line.target = Tagged /\ before = <<>> -> TagLines
    [] OTHER -> {}

\* Targets: paths and queries of up to four pieces.
MCHex == {"0", "2", "5", "e", "f"}

\* 0x25, 0x2e, 0x2f; 0x00 and the other control bytes; all others are names.
MCByteOf ==
  [d \in MCHex \X MCHex |->
     CASE d = <<"2", "5">> -> "%"
       [] d = <<"2", "e">> -> "."
       [] d = <<"2", "f">> -> "/"
       [] d[1] = "0" -> "control"
       [] OTHER -> "name"]

MCForbidden == {"control", "\\"}

Escaped(high, low) == <<"%", high, low>>

Pieces ==
  {<<"/">>, <<".">>, <<"?">>, <<"%">>, <<"2">>, <<"e">>, Escaped("2", "5"),
   Escaped("2", "e"), Escaped("2", "f"), Escaped("0", "0"), Escaped("f", "f")}

Targets == Below({FlattenSeq(pieces) : pieces \in Upto(4, Pieces)})

\* Logs: methods and paths of characters that mean something to a reader.  The
\* parser lets no other control character than NEL and its like into them.
MCCodes == ("LF" :> "000a") @@ ("CR" :> "000d") @@ ("TAB" :> "0009") @@ ("NEL" :> "0085")

Characters == {"\"", "\\", ":", "n", "u", "0085", "NEL"}

MCRequestLines ==
  HeaderRequests
    \cup {Old(path) : path \in {Coded, Tagged, <<"/", "health">>} \cup Targets
                                 \cup Below(Upto(3, Characters \cup {"?"}))}
    \cup {[Old(Root) EXCEPT !.method = method] : method \in Upto(3, Characters)}
    \cup {[Old(<<"/", "?">>) EXCEPT !.method = <<"HEAD">>]}

MCHealth == <<"health">>
=============================================================================
