--------------------------- MODULE ConnectionLine ---------------------------
(***************************************************************************)
(* What the queue of src/server.rs promises to a connection, without       *)
(* threads, mutex or condition variables: accepted connections stand in    *)
(* one line and are served first come first served, each at most once.  A  *)
(* connection leaves the line unserved only if its lifetime is over or     *)
(* the server stops, and nobody is served whose lifetime is over.          *)
(***************************************************************************)
EXTENDS Naturals, Sequences

CONSTANTS
  Conns,      \* connections
  Lifetime    \* ticks a connection may live after its acceptance

VARIABLES
  line,       \* accepted connections that are not served yet, oldest first
  serving,    \* connections handed to a worker
  left,       \* ticks of its lifetime left to each connection
  stopping    \* shutdown was requested, or accepting failed

lineVars == <<line, serving, left, stopping>>

LineInit ==
  /\ line = <<>>
  /\ serving = {}
  /\ left = [c \in Conns |-> 0]
  /\ stopping = FALSE

From(n) == SubSeq(line, n, Len(line))

FirstExpired(n) == \A i \in 1..n : left[line[i]] = 0

\* A connection is accepted and gets its lifetime.
Arrive(c) ==
  /\ c \notin serving
  /\ \A i \in 1..Len(line) : line[i] # c
  /\ line' = Append(line, c)
  /\ left' = [left EXCEPT ![c] = Lifetime]
  /\ UNCHANGED <<serving, stopping>>

\* The n oldest are given up: their lifetime is over.
DropOldest(n) ==
  /\ FirstExpired(n)
  /\ line' = From(n+1)
  /\ UNCHANGED <<serving, left, stopping>>

\* The youngest is given up: its lifetime is over, or the server stops.
DropYoungest ==
  /\ line # <<>>
  /\ left[line[Len(line)]] = 0 \/ stopping
  /\ line' = SubSeq(line, 1, Len(line) - 1)
  /\ UNCHANGED <<serving, left, stopping>>

\* The oldest connection that is still alive is served; those before it are
\* given up.
Serve(n) ==
  /\ FirstExpired(n - 1)
  /\ left[line[n]] > 0
  /\ line' = From(n+1)
  /\ serving' = serving \cup {line[n]}
  /\ UNCHANGED <<left, stopping>>

Finish(c) ==
  /\ c \in serving
  /\ serving' = serving \ {c}
  /\ UNCHANGED <<line, left, stopping>>

Stop ==
  /\ stopping' = TRUE
  /\ UNCHANGED <<line, serving, left>>

\* The server stops and gives up the whole line.
Flush ==
  /\ stopping' = TRUE
  /\ line' = <<>>
  /\ UNCHANGED <<serving, left>>

TimePasses ==
  /\ left' = [c \in Conns |-> IF left[c] = 0 THEN 0 ELSE left[c] - 1]
  /\ UNCHANGED <<line, serving, stopping>>

LineNext ==
  \/ \E c \in Conns : Arrive(c) \/ Finish(c)
  \/ \E n \in 0..Len(line) : DropOldest(n)
  \/ \E n \in 1..Len(line) : Serve(n)
  \/ DropYoungest
  \/ Stop
  \/ Flush
  \/ TimePasses

LineSpec == LineInit /\ [][LineNext]_lineVars
=============================================================================
