---------------------------- MODULE RequestReader ----------------------------
(***************************************************************************)
(* How a worker reads the header of a request from a nonblocking socket    *)
(* (read_request of src/http.rs with wait_fd of src/net.rs), and how       *)
(* parse_request cuts what was read into lines.  One system call is one    *)
(* step; calls that were interrupted are simply repeated.  The peer sends  *)
(* what it likes, in the pieces it likes, or closes, or stays silent.      *)
(*                                                                         *)
(* A byte is "CR", "LF" or "x", any other.  What parse_request refuses for *)
(* the content of a line is a choice here.                                 *)
(*                                                                         *)
(* An operator named Bad... is a mutant of the one after it.               *)
(***************************************************************************)
EXTENDS Integers, Sequences

CONSTANTS
  MaxHeader,     \* MAX_HEADER_BYTES
  Chunks,        \* what one read may yield: at most as long as its buffer
  Lifetime       \* clock ticks from the first read to the deadline

ASSUME ReaderAssumption ==
  /\ MaxHeader \in Nat \ {0}
  /\ Chunks \subseteq Seq({"CR", "LF", "x"}) \ {<<>>}
  /\ Lifetime \in Nat

VARIABLES
  pc,         \* where read_request is, or how it ended
  request,    \* the bytes it keeps
  dropped,    \* bytes of the last read that it did not keep
  end,        \* header_end
  left        \* ticks left until the deadline

readerVars == <<pc, request, dropped, end, left>>

\* check: at the head of the loop.  wait, poll: in wait_fd.  found: in parse_request.
Reading == {"check", "read", "wait", "poll", "found"}
Refusals == {"BadRequest", "HeaderTooLarge", "MethodNotAllowed", "Timeout", "Io"}

\* Where a header may end in s: after an empty line.
HeaderEnds(s) ==
  {i \in 4..Len(s) : s[i-3] = "CR" /\ s[i-2] = "LF" /\ s[i-1] = "CR" /\ s[i] = "LF"}

ReaderTypeOK ==
  /\ pc \in Reading \cup Refusals \cup {"accepted"}
  /\ request \in Seq({"CR", "LF", "x"})
  /\ Len(request) <= MaxHeader
  /\ dropped \in Nat
  /\ end \in 0..Len(request)
  /\ left \in 0..Lifetime

ReaderInit ==
  /\ pc = "check"
  /\ request = <<>>
  /\ dropped = 0
  /\ end = 0
  /\ left = Lifetime

-----------------------------------------------------------------------------
(* read_request. *)

IsFirst(i) == \A j \in HeaderEnds(request) : i <= j

FindEnd ==
  /\ pc = "check"
  /\ \E i \in HeaderEnds(request) : IsFirst(i) /\ end' = i
  /\ pc' = "found"
  /\ UNCHANGED <<request, dropped, left>>

BadAtLimit == Len(request) >= MaxHeader    \* looked at before the end is

AtLimit == HeaderEnds(request) = {} /\ Len(request) >= MaxHeader

ReachLimit ==
  /\ pc = "check"
  /\ AtLimit
  /\ pc' = "HeaderTooLarge"
  /\ UNCHANGED <<request, dropped, end, left>>

MustRead == HeaderEnds(request) = {} /\ Len(request) < MaxHeader

StartRead ==
  /\ pc = "check"
  /\ MustRead
  /\ pc' = "read"
  /\ UNCHANGED <<request, dropped, end, left>>

Fits(n) == Len(request) + n <= MaxHeader

ReadSome(chunk) ==
  /\ pc = "read"
  /\ \/ /\ Fits(Len(chunk))
        /\ request' = request \o chunk
        /\ pc' = "check"
        /\ UNCHANGED dropped
     \/ /\ ~Fits(Len(chunk))
        /\ dropped' = Len(chunk)
        /\ pc' = "HeaderTooLarge"
        /\ UNCHANGED request
  /\ UNCHANGED <<end, left>>

\* Read returns no bytes (the peer has closed), would block, or fails, which
\* map_io tells as a timeout if the error is one (ETIMEDOUT).
ReadNone ==
  /\ pc = "read"
  /\ pc' \in {"BadRequest", "wait", "Io", "Timeout"}
  /\ UNCHANGED <<request, dropped, end, left>>

-----------------------------------------------------------------------------
(* wait_fd, and the clock. *)

BadOutOfTime == FALSE    \* poll is called without a timeout

OutOfTime == left = 0

\* timeout_ms: the deadline is looked at before each poll, and only there.
WaitStarts ==
  /\ pc = "wait"
  /\ pc' = IF OutOfTime THEN "Timeout" ELSE "poll"
  /\ UNCHANGED <<request, dropped, end, left>>

\* Readable; interrupted or other events; an error.
PollReturns ==
  /\ pc = "poll"
  /\ pc' \in {"check", "wait", "Io"}
  /\ UNCHANGED <<request, dropped, end, left>>

PollTimesOut ==
  /\ pc = "poll"
  /\ OutOfTime
  /\ pc' = "Timeout"
  /\ UNCHANGED <<request, dropped, end, left>>

Tick ==
  /\ left > 0
  /\ left' = left - 1
  /\ UNCHANGED <<pc, request, dropped, end>>

-----------------------------------------------------------------------------
(* parse_request.  A line is the pair of the LF before it (or 0) and its own. *)

Lines(h) ==
  {l \in (0..Len(h)) \X (1..Len(h)) :
     /\ l[1] < l[2] /\ h[l[2]] = "LF"
     /\ l[1] = 0 \/ h[l[1]] = "LF"
     /\ \A i \in l[1]+1 .. l[2]-1 : h[i] # "LF"}

\* A header line that is empty once its CR is stripped ends the loop.
IsEmptyLine(h, l) == l[1] # 0 /\ l[2] = l[1] + 2 /\ h[l[2] - 1] = "CR"

LinesRead(h) == {l \in Lines(h) : \A m \in Lines(h) : IsEmptyLine(h, m) => l[2] <= m[2]}

BadStripsCR(h, l) == TRUE    \* a bare LF ends a line as well

StripsCR(h, l) == l[1] + 1 < l[2] /\ h[l[2] - 1] = "CR"

\* contains_ctl, value_contains_invalid_ctl: as much of it as a CR is.
NoControl(h, l) == \A i \in l[1]+1 .. l[2]-2 : h[i] # "CR"

\* A request line has three fields: it is not empty.
WellCut(h) ==
  \A l \in LinesRead(h) :
    StripsCR(h, l) /\ NoControl(h, l) /\ (l[1] = 0 => l[2] > 2)

Header == SubSeq(request, 1, end)

Parse ==
  /\ pc = "found"
  /\ pc' \in {"BadRequest", "MethodNotAllowed"}
             \cup (IF WellCut(Header) THEN {"accepted"} ELSE {})
  /\ UNCHANGED <<request, dropped, end, left>>

ReaderStep ==
  \/ FindEnd \/ ReachLimit \/ StartRead
  \/ \E chunk \in Chunks : ReadSome(chunk)
  \/ ReadNone \/ WaitStarts \/ PollReturns \/ PollTimesOut \/ Parse

Ended == pc \notin Reading /\ UNCHANGED readerVars

ReaderNext == ReaderStep \/ Tick \/ Ended

ReaderSpec == ReaderInit /\ [][ReaderNext]_readerVars

\* The worker runs until the request is read, and time passes.
FairReaderSpec == ReaderSpec /\ WF_readerVars(ReaderStep) /\ WF_readerVars(Tick)

-----------------------------------------------------------------------------
(* Properties. *)

\* Once a whole header is in the bytes that are kept it is parsed: neither the
\* limit nor the deadline nor a broken socket makes it a 431, a 408 or an error,
\* and nobody waits for more bytes.
CompleteIsParsed ==
  pc \in {"read", "wait", "poll", "HeaderTooLarge", "Timeout", "Io"} =>
    HeaderEnds(request) = {}

\* A 431 says that more bytes than the limit have come, or as many without an end
\* of the header.  It does not say that the header is too large: the read that
\* brings the end of a header within the limit is not kept (http.rs:125) if it
\* also brings bytes behind it that exceed the limit.
TooLargeIsTrue ==
  pc = "HeaderTooLarge" =>
    \/ Len(request) + dropped > MaxHeader
    \/ Len(request) = MaxHeader /\ HeaderEnds(request) = {}

\* What is kept is exact at the limit: a header of which every byte was kept is
\* parsed, even one as long as the limit, and a 431 means that more bytes came
\* than may be kept, or as many without an end.
LimitIsExact == CompleteIsParsed /\ TooLargeIsTrue

\* A request whose lines are not the lines the peer meant is never accepted:
\* no CR or LF stands alone, and no line of the header is left unread.
LinesAreTheHeader ==
  pc = "accepted" =>
    /\ Header[1] = "x"
    /\ \A i \in 1..end : Header[i] = "CR" <=> i < end /\ Header[i+1] = "LF"
    /\ LinesRead(Header) = Lines(Header)

\* A silent peer, and one that sends a byte now and then, is got rid of.
ReadingEnds == <>(pc \notin Reading)
=============================================================================
