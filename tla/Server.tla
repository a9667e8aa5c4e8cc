------------------------------- MODULE Server -------------------------------
(***************************************************************************)
(* The life of a Statika process from its first accept to its exit (run,   *)
(* accept_loop, worker_loop, handle_connection and join_workers of         *)
(* src/server.rs) around the queue of module WorkQueue: the main           *)
(* thread accepts and pushes, then closes the queue and joins the workers; *)
(* each worker pops a connection, reads, replies within the deadline of    *)
(* the connection, logs and pops again.                                    *)
(*                                                                         *)
(* What a peer sends or takes, and when, is up to the environment: a read  *)
(* or a write may end at any time or never.  The reply itself is the       *)
(* subject of other modules; here it succeeds, becomes an error reply or   *)
(* is given up.                                                            *)
(*                                                                         *)
(* Two clocks tick: Tick for the deadlines of the connections, JoinExpires *)
(* for the shutdown timeout, which may therefore be short or long.         *)
(*                                                                         *)
(* A log line that cannot be written to stderr is a panic.  One of the     *)
(* main thread ends the process in every build, one of a worker in the     *)
(* release build (Cargo.toml:19); Fragile are the workers of a build that  *)
(* unwinds, where the process goes on without them.                        *)
(*                                                                         *)
(* An operator named Bad... is a mutant of the one after it.               *)
(***************************************************************************)
EXTENDS WorkQueue

CONSTANT Grace    \* ERROR_RESPONSE_TIMEOUT in clock ticks

ASSUME GraceAssumption == Grace \in Nat \ {0}

VARIABLES
  main,        \* where the main thread is
  failed,      \* accept_result is an error
  phase,       \* where each worker is outside of pop
  grace,       \* ticks left until now + ERROR_RESPONSE_TIMEOUT of its error reply
  late,        \* the deadline of join_workers has passed
  channel,     \* ids sent by workers and not received yet
  completed,   \* ids join_workers has received
  result       \* what run returned, or "abort": a panic ended the process

processVars == <<main, failed, phase, grace, late, channel, completed, result>>

serverVars == <<queueVars, processVars>>

\* check: at the loop condition of accept_loop.  accept: at accept().  poll: in
\* wait_fd on the listener.  backoff: in sleep_until_shutdown.  push, close: in
\* push, close.  join: at the loop condition of join_workers.  recv: in
\* recv_timeout.  reap: joining the threads.
MainStates == {"check", "accept", "poll", "backoff", "push", "close",
               "join", "recv", "reap", "exited"}

\* idle: in pop, or unwound by a panic.  begin, read: before and in
\* read_request.  reply, error: writing a reply or an error reply.  log: the
\* stream is shut down, log_request is due.  done: the worker sent its id.
PhaseStates == {"idle", "begin", "read", "reply", "error", "log", "done"}

Results == {"none", "ok", "io", "timeout", "panic", "abort"}

ServerTypeOK ==
  /\ QueueTypeOK
  /\ main \in MainStates
  /\ failed \in BOOLEAN
  /\ phase \in [Workers -> PhaseStates]
  /\ grace \in [Workers -> 0..Grace]
  /\ late \in BOOLEAN
  /\ channel \subseteq Workers
  /\ completed \subseteq Workers
  /\ result \in Results
  /\ result # "abort" => (main = "push" <=> Pushing)
  /\ main = "exited" <=> result # "none"
  /\ \A w \in Workers :
       /\ popper[w] = "busy" <=> phase[w] \notin {"idle", "done"}
       /\ phase[w] = "done" => popper[w] = "none"

ServerInit ==
  /\ QueueInit
  /\ main = "check"
  /\ failed = FALSE
  /\ phase = [w \in Workers |-> "idle"]
  /\ grace = [w \in Workers |-> 0]
  /\ late = FALSE
  /\ channel = {}
  /\ completed = {}
  /\ result = "none"

\* The thread of w has ended: its sender of the channel is dropped.
Gone(w) == phase[w] = "done" \/ popper[w] = "panicked"

-----------------------------------------------------------------------------
(* accept_loop. *)

Goto(from, to) ==
  /\ main = from
  /\ main' = to
  /\ UNCHANGED <<failed, phase, grace, late, channel, completed, result>>

CheckShutdown ==
  /\ Goto("check", IF shutdown THEN "close" ELSE "accept")
  /\ UNCHANGED queueVars

AcceptConnection(c) == Goto("accept", "push") /\ CallPush(c)

\* accept was interrupted, or configure_stream failed and the stream is dropped.
AcceptAgain == Goto("accept", "check") /\ UNCHANGED queueVars

NothingToAccept == Goto("accept", "poll") /\ UNCHANGED queueVars

\* A transient error, or no file descriptors are left.
AcceptBacksOff == Goto("accept", "backoff") /\ UNCHANGED queueVars

\* accept, or waiting for the listener, failed for good.
AcceptFails ==
  /\ main \in {"accept", "poll"}
  /\ main' = "close"
  /\ failed' = TRUE
  /\ UNCHANGED <<phase, grace, late, channel, completed, result>>
  /\ UNCHANGED queueVars

\* The listener became readable, or ACCEPT_POLL_INTERVAL is over.
PollEnds == Goto("poll", "check") /\ UNCHANGED queueVars

BackoffEnds == Goto("backoff", "check") /\ UNCHANGED queueVars

ScanQueue ==
  /\ main = "push"
  /\ PushScan \/ PushWaitEnds
  /\ UNCHANGED processVars

PushReturnsTrue == Goto("push", "check") /\ (PushDropsExpired \/ PushEnqueues)

PushReturnsFalse == Goto("push", "close") /\ PushRefuses

-----------------------------------------------------------------------------
(* The end of run: close the queue, wait for the workers. *)

CloseQueue == Goto("close", "join") /\ Close

BadExit(outcome) ==    \* the result of join_workers is ignored
  /\ main' = "exited"
  /\ result' = IF failed THEN "io" ELSE "ok"
  /\ UNCHANGED <<failed, phase, grace, late, channel, completed>>
  /\ UNCHANGED queueVars

\* join_workers returned: log_stopped, which may fail, and run returns.
Exit(outcome) ==
  /\ main' = "exited"
  /\ result' \in {IF failed THEN "io" ELSE outcome, "abort"}
  /\ UNCHANGED <<failed, phase, grace, late, channel, completed>>
  /\ UNCHANGED queueVars

JoinWaits ==
  /\ completed # Workers
  /\ ~late
  /\ Goto("join", "recv")
  /\ UNCHANGED queueVars

JoinReceives ==
  /\ main = "recv"
  /\ \E w \in channel :
       /\ channel' = channel \ {w}
       /\ completed' = completed \cup {w}
  /\ main' = "join"
  /\ UNCHANGED <<failed, phase, grace, late, result>>
  /\ UNCHANGED queueVars

\* Where the deadline is looked at; the mutant uses recv for recv_timeout.
BadWatchesDeadline == main = "join" /\ completed # Workers

WatchesDeadline ==
  \/ main = "join" /\ completed # Workers
  \/ main = "recv"

BadJoinTimesOut ==    \* the timeout ends the loop as a disconnected channel does
  late /\ Goto("recv", "reap") /\ UNCHANGED queueVars

\* The deadline is compared before the channel is looked at, and recv_timeout
\* may miss an id that is sent at the last moment.
JoinTimesOut ==
  /\ WatchesDeadline
  /\ late
  /\ Exit("timeout")

\* recv_timeout reports Disconnected.
Disconnected == channel = {} /\ \A w \in Workers : Gone(w)

\* Nothing is left to wait for: every id was received, or every sender dropped.
JoinComplete ==
  /\ \/ completed = Workers /\ Goto("join", "reap")
     \/ Disconnected /\ Goto("recv", "reap")
  /\ UNCHANGED queueVars

\* WorkerPanic, where panics unwind: none of the release build is ever returned.
JoinOutcome == IF \E w \in Workers : popper[w] = "panicked" THEN "panic" ELSE "ok"

JoinThreads ==
  /\ main = "reap"
  /\ \A w \in Workers : Gone(w)
  /\ Exit(JoinOutcome)

-----------------------------------------------------------------------------
(* worker_loop and handle_connection, for worker w. *)

Alive == main # "exited"

Phase(w, from, to) ==
  /\ Alive
  /\ phase[w] = from
  /\ phase' = [phase EXCEPT ![w] = to]
  /\ UNCHANGED <<main, failed, late, channel, completed, result>>

\* The error reply starts now: its deadline is at least Grace away.
SimpleError(w, from) ==
  /\ Phase(w, from, "error")
  /\ grace' = [grace EXCEPT ![w] = Grace]

TimedOut(w) == item[w] # NoConn /\ Expired(item[w])

FindNoWork(w) == Alive /\ PopFindsNone(w) /\ UNCHANGED processVars

PopDisturbed(w) ==
  /\ Alive
  /\ PopWakesSpuriously(w) \/ PopPanics(w)
  /\ UNCHANGED processVars

TakeWork(w) == Phase(w, "idle", "begin") /\ PopTakes(w) /\ UNCHANGED grace

\* The deadline is checked once more: it may have passed since pop.
BeginRequest(w) ==
  /\ IF TimedOut(w)
     THEN SimpleError(w, "begin")
     ELSE Phase(w, "begin", "read") /\ UNCHANGED grace
  /\ UNCHANGED queueVars

\* A whole request arrived.
ReadRequest(w) == Phase(w, "read", "reply") /\ UNCHANGED <<grace, queueVars>>

\* The peer is gone: the connection is dropped without a reply.
ReadFails(w) == Phase(w, "read", "log") /\ UNCHANGED <<grace, queueVars>>

\* The request is refused: it is malformed, too large or not supported, its
\* target is malformed, there is nothing to serve, or the kernel timed out a read.
RefuseRequest(w) ==
  /\ SimpleError(w, "read") \/ SimpleError(w, "reply")
  /\ UNCHANGED queueVars

ReadTimesOut(w) ==
  /\ TimedOut(w)
  /\ SimpleError(w, "read")
  /\ UNCHANGED queueVars

\* All is written, or the peer is gone.
WriteEnds(w) ==
  /\ Phase(w, "reply", "log") \/ Phase(w, "error", "log")
  /\ UNCHANGED <<grace, queueVars>>

BadWriteTimesOut(w) ==    \* an error reply has no deadline
  TimedOut(w) /\ Phase(w, "reply", "log") /\ UNCHANGED <<grace, queueVars>>

WriteTimesOut(w) ==
  /\ TimedOut(w)
  /\ \/ Phase(w, "reply", "log")
     \/ grace[w] = 0 /\ Phase(w, "error", "log")
  /\ UNCHANGED <<grace, queueVars>>

\* log_request, then the connection is dropped.
LogRequest(w) ==
  /\ Phase(w, "log", "idle")
  /\ CallPop(w) \/ WorkerPanics(w)
  /\ UNCHANGED grace

\* pop returned None: the closure of the thread sends its id and ends.
WorkerReturns(w) ==
  /\ Alive
  /\ popper[w] = "none"
  /\ phase[w] = "idle"
  /\ phase' = [phase EXCEPT ![w] = "done"]
  /\ channel' = channel \cup {w}
  /\ UNCHANGED <<main, failed, grace, late, completed, result>>
  /\ UNCHANGED queueVars

-----------------------------------------------------------------------------
(* Logging. *)

\* The main thread is about to log that configure_stream failed or descriptors
\* are out, or that push discards what expired in the queue or in its own wait.
MainLogs ==
  \/ main = "accept"
  \/ pusher = "lock" /\ Stale
  \/ pusher = "admit" /\ ~closed /\ ~shutdown /\ Expired(work)

\* Worker w is about to log a request, or what its pop discards.
WorkerLogs(w) ==
  \/ phase[w] = "log"
  \/ popper[w] = "lock" /\ MutexFree /\ Stale

\* Stderr cannot be written, and the panic ends the process with all its
\* connections.
StderrFails ==
  /\ Alive
  /\ MainLogs \/ \E w \in Workers \ Fragile : WorkerLogs(w)
  /\ main' = "exited"
  /\ result' = "abort"
  /\ UNCHANGED <<failed, phase, grace, late, channel, completed>>
  /\ UNCHANGED queueVars

-----------------------------------------------------------------------------
(* Signals and time. *)

Signal == Alive /\ RaiseShutdown /\ UNCHANGED processVars

\* Time matters while a deadline of a connection or of an error reply is ahead.
Tick ==
  /\ Alive
  /\ \/ \E c \in Conns : ~Expired(c)
     \/ \E w \in Workers : grace[w] > 0
  /\ Elapse
  /\ grace' = [w \in Workers |-> IF grace[w] = 0 THEN 0 ELSE grace[w] - 1]
  /\ UNCHANGED <<main, failed, phase, late, channel, completed, result>>

JoinExpires ==
  /\ main \in {"join", "recv", "reap"}
  /\ ~late
  /\ late' = TRUE
  /\ UNCHANGED <<main, failed, phase, grace, channel, completed, result>>
  /\ UNCHANGED queueVars

Exited == main = "exited" /\ UNCHANGED serverVars

AcceptStep ==
  \/ CheckShutdown
  \/ \E c \in Conns : AcceptConnection(c)
  \/ AcceptAgain
  \/ NothingToAccept
  \/ AcceptBacksOff
  \/ AcceptFails
  \/ PollEnds
  \/ BackoffEnds
  \/ ScanQueue
  \/ PushReturnsTrue
  \/ PushReturnsFalse

StopStep ==
  \/ CloseQueue
  \/ JoinWaits
  \/ JoinReceives
  \/ JoinTimesOut
  \/ JoinComplete
  \/ JoinThreads

WorkerStep(w) ==
  \/ FindNoWork(w)
  \/ PopDisturbed(w)
  \/ TakeWork(w)
  \/ BeginRequest(w)
  \/ ReadRequest(w)
  \/ ReadFails(w)
  \/ RefuseRequest(w)
  \/ ReadTimesOut(w)
  \/ WriteEnds(w)
  \/ WriteTimesOut(w)
  \/ LogRequest(w)
  \/ WorkerReturns(w)

ServerNext ==
  \/ AcceptStep
  \/ StopStep
  \/ \E w \in Workers : WorkerStep(w)
  \/ StderrFails
  \/ Signal
  \/ Tick
  \/ JoinExpires
  \/ Exited

ServerSpec == ServerInit /\ [][ServerNext]_serverVars

-----------------------------------------------------------------------------
(* Fairness.  The kernel runs every thread and the clock; it gives a worker  *)
(* that keeps locking the mutex its turn.  A peer owes nothing, so a read or *)
(* a write ends for sure only by its deadline; signals, spurious wakeups and *)
(* failures of stderr need not happen.                                       *)

MainRuns == WF_serverVars(AcceptStep) /\ WF_serverVars(StopStep)

ClockRuns == WF_serverVars(Tick)

-----------------------------------------------------------------------------
(* Properties. *)

\* worker.join() has no timeout: the threads are joined only when each is known to
\* have ended, so a worker that hangs costs the shutdown timeout and no more.
JoinNeverBlocks == main = "reap" => \A w \in Workers : Gone(w)

\* join_workers receives from every worker at most one id, and only from one
\* that has nothing left to do: an id is in the channel or received, not both,
\* and the queue was closed before.
Accounting ==
  /\ channel \cup completed = {w \in Workers : phase[w] = "done"}
  /\ channel \cap completed = {}
  /\ JoinNeverBlocks
  /\ main \in {"join", "recv", "reap"} \/ (main = "exited" /\ result # "abort") => closed

\* run returns Ok only after a graceful stop: every worker has finished its
\* connection and returned, whatever the order of the last id, the timeout and
\* the end of the channel; nothing is queued, and accepting has not failed.
CleanStop ==
  result = "ok" => /\ \A w \in Workers : phase[w] = "done" /\ item[w] = NoConn
                   /\ streams = <<>>
                   /\ ~failed
=============================================================================
