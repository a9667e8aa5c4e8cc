--------------------------- MODULE ServerFairness ---------------------------
(***************************************************************************)
(* The process of module Server with workers that all run, or that all     *)
(* hang for good: what a silent peer or a stalled disk makes of a worker   *)
(* before its deadline, and a bug after it.  Which it is, is settled at    *)
(* the start, and nobody in the process knows.                             *)
(***************************************************************************)
EXTENDS Server

VARIABLE hung    \* the workers that hang

FairnessInit == ServerInit /\ hung \in {{}, Workers}

FairnessNext == ServerNext /\ UNCHANGED hung

Runs(w, Step) == w \notin hung /\ Step

WorkerIsFair(w) ==
  /\ SF_serverVars(Runs(w, TakeWork(w) \/ FindNoWork(w)))
  /\ WF_serverVars(Runs(w, BeginRequest(w)))
  /\ WF_serverVars(Runs(w, ReadTimesOut(w)))
  /\ WF_serverVars(Runs(w, WriteTimesOut(w)))
  /\ WF_serverVars(Runs(w, LogRequest(w)))
  /\ WF_serverVars(Runs(w, WorkerReturns(w)))

\* If the workers run, the shutdown timeout may be as long as it takes; if they
\* hang, only the main thread and the clocks are sure to run.
FairServerSpec ==
  /\ FairnessInit /\ [][FairnessNext]_<<serverVars, hung>>
  /\ MainRuns
  /\ ClockRuns
  /\ WF_serverVars(hung # {} /\ JoinExpires)
  /\ \A w \in Workers : WorkerIsFair(w)

-----------------------------------------------------------------------------
(* Properties. *)

\* A signal ends the process, with hung workers and a full queue, which the main
\* thread has to get out of first, and with workers that run and a shutdown
\* timeout that never comes (run, src/server.rs:51-83).
ShutdownCompletes == shutdown ~> main = "exited"

\* Once the queue is closed every worker leaves, idle or busy, silent peer or
\* not: a graceful stop needs no shutdown timeout.
WorkersLeave ==
  hung = {} /\ closed ~> main = "exited" \/ \A w \in Workers : Gone(w)

\* An accepted connection is released in the end, queued or served, whatever its
\* peer does: by the process, or by the end of it if stderr fails.  (Where panics
\* unwind that takes one worker that outlives those of the others.)
ConnectionReleased ==
  \A c \in Conns : hung = {} /\ ~Free(c) ~> Free(c) \/ main = "exited"
=============================================================================
