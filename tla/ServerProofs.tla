---------------------------- MODULE ServerProofs ----------------------------
(***************************************************************************)
(* Proofs about Server for any number of connections and workers: its      *)
(* shutdown accounts for every worker, never blocks on one that runs, and  *)
(* run returns Ok only after a clean stop.                                 *)
(***************************************************************************)
EXTENDS Server, WorkQueueProofs

-----------------------------------------------------------------------------
(* The process around the queue. *)

LEMMA ServerQueueStep == [ServerNext]_serverVars => [QueueNext]_queueVars
<1> SUFFICES ASSUME [ServerNext]_serverVars
             PROVE  QueueNext \/ UNCHANGED queueVars
  OBVIOUS
<1>1. CASE AcceptStep
  BY <1>1
  DEF AcceptStep, CheckShutdown, AcceptConnection, AcceptAgain, NothingToAccept,
      AcceptBacksOff, AcceptFails, PollEnds, BackoffEnds, ScanQueue,
      PushReturnsTrue, PushReturnsFalse, QueueNext, PushStep
<1>2. CASE StopStep
  BY <1>2
  DEF StopStep, CloseQueue, JoinWaits, JoinReceives, JoinTimesOut, JoinComplete,
      JoinThreads, Exit, QueueNext
<1>3. ASSUME NEW w \in Workers, WorkerStep(w) PROVE QueueNext \/ UNCHANGED queueVars
  <2>1. PopStep(w) \/ UNCHANGED queueVars
    BY <1>3
    DEF WorkerStep, FindNoWork, PopDisturbed, TakeWork, BeginRequest, ReadRequest,
        ReadFails, RefuseRequest, ReadTimesOut, WriteEnds, WriteTimesOut,
        LogRequest, WorkerReturns, PopStep
  <2> QED BY <2>1 DEF QueueNext
<1>4. CASE Signal
  BY <1>4 DEF Signal, QueueNext
<1>5. CASE Tick
  BY <1>5 DEF Tick, QueueNext
<1>6. CASE JoinExpires \/ StderrFails
  BY <1>6 DEF JoinExpires, StderrFails
<1>7. CASE Exited \/ UNCHANGED serverVars
  BY <1>7 DEF Exited, serverVars
<1> QED BY <1>1, <1>2, <1>3, <1>4, <1>5, <1>6, <1>7 DEF ServerNext

\* The process is built from the actions of WorkQueue: what is an invariant of the
\* queue is one of the process.
LEMMA ServerUsesQueue == ServerSpec => QueueSpec
<1>1. ServerInit => QueueInit
  BY DEF ServerInit
<1> QED BY <1>1, ServerQueueStep, PTL DEF ServerSpec, QueueSpec

-----------------------------------------------------------------------------
(* Type correctness. *)

\* What ServerTypeOK says of the main thread, of the workers' own state, and
\* of how both agree with the queue.
MainTypeOK ==
  /\ main \in MainStates
  /\ failed \in BOOLEAN
  /\ late \in BOOLEAN
  /\ channel \subseteq Workers
  /\ completed \subseteq Workers
  /\ result \in Results
  /\ main = "exited" <=> result # "none"

GraceTypeOK == grace \in [Workers -> 0..Grace]

PhaseTypeOK ==
  /\ phase \in [Workers -> PhaseStates]
  /\ \A w \in Workers :
       /\ popper[w] = "busy" <=> phase[w] \notin {"idle", "done"}
       /\ phase[w] = "done" => popper[w] = "none"

PushTypeOK == result # "abort" => (main = "push" <=> Pushing)

LEMMA MainTypeStep ==
  ServerTypeOK /\ [ServerNext]_serverVars => MainTypeOK'
<1> SUFFICES ASSUME ServerTypeOK, [ServerNext]_serverVars PROVE MainTypeOK'
  OBVIOUS
<1>1. MainTypeOK
  BY DEF ServerTypeOK, MainTypeOK
<1> USE DEF MainTypeOK, MainStates, Results
<1>2. ASSUME UNCHANGED <<main, failed, late, channel, completed, result>>
      PROVE  MainTypeOK'
  BY <1>1, <1>2
<1>3. CASE AcceptStep
  BY <1>1, <1>3
  DEF AcceptStep, CheckShutdown, AcceptConnection, AcceptAgain, NothingToAccept,
      AcceptBacksOff, AcceptFails, PollEnds, BackoffEnds, ScanQueue,
      PushReturnsTrue, PushReturnsFalse, Goto, processVars
<1>4. CASE StopStep
  <2>1. CASE CloseQueue \/ JoinWaits \/ JoinComplete
    BY <1>1, <2>1 DEF CloseQueue, JoinWaits, JoinComplete, Goto
  <2>2. CASE JoinReceives
    BY <1>1, <2>2 DEF JoinReceives
  <2>3. CASE JoinTimesOut
    BY <1>1, <2>3 DEF JoinTimesOut, Exit
  <2>4. CASE JoinThreads
    BY <1>1, <2>4 DEF JoinThreads, JoinOutcome, Exit
  <2> QED BY <1>4, <2>1, <2>2, <2>3, <2>4 DEF StopStep
<1>5. ASSUME NEW w \in Workers, WorkerStep(w) PROVE MainTypeOK'
  <2>1. CASE WorkerReturns(w)
    BY <1>1, <2>1 DEF WorkerReturns
  <2>2. CASE ~WorkerReturns(w)
    BY <1>2, <1>5, <2>2
    DEF WorkerStep, FindNoWork, PopDisturbed, TakeWork, BeginRequest, ReadRequest,
        ReadFails, RefuseRequest, ReadTimesOut, WriteEnds, WriteTimesOut,
        LogRequest, SimpleError, Phase, processVars
  <2> QED BY <2>1, <2>2
<1>6. CASE Signal \/ Tick
  BY <1>2, <1>6 DEF Signal, Tick, processVars
<1>7. CASE JoinExpires \/ StderrFails
  BY <1>1, <1>7 DEF JoinExpires, StderrFails, Alive
<1>8. CASE Exited \/ UNCHANGED serverVars
  BY <1>2, <1>8 DEF Exited, serverVars, processVars
<1> QED BY <1>3, <1>4, <1>5, <1>6, <1>7, <1>8 DEF ServerNext

LEMMA GraceTypeStep ==
  ServerTypeOK /\ [ServerNext]_serverVars => GraceTypeOK'
<1> USE GraceAssumption DEF GraceAssumption
<1> SUFFICES ASSUME ServerTypeOK, [ServerNext]_serverVars PROVE GraceTypeOK'
  OBVIOUS
<1>1. GraceTypeOK
  BY DEF ServerTypeOK, GraceTypeOK
<1>2. ASSUME grace' = grace PROVE GraceTypeOK'
  BY <1>1, <1>2 DEF GraceTypeOK
<1>3. CASE AcceptStep \/ StopStep
  BY <1>2, <1>3
  DEF AcceptStep, CheckShutdown, AcceptConnection, AcceptAgain, NothingToAccept,
      AcceptBacksOff, AcceptFails, PollEnds, BackoffEnds, ScanQueue,
      PushReturnsTrue, PushReturnsFalse, Goto, processVars,
      StopStep, CloseQueue, JoinWaits, JoinReceives, JoinTimesOut, JoinComplete,
      JoinThreads, Exit
<1>4. ASSUME NEW w \in Workers, WorkerStep(w) PROVE GraceTypeOK'
  <2>1. grace' = grace \/ grace' = [grace EXCEPT ![w] = Grace]
    BY <1>4
    DEF WorkerStep, FindNoWork, PopDisturbed, TakeWork, BeginRequest, ReadRequest,
        ReadFails, RefuseRequest, ReadTimesOut, WriteEnds, WriteTimesOut,
        LogRequest, WorkerReturns, SimpleError, processVars
  <2> QED BY <1>1, <2>1 DEF GraceTypeOK
<1>5. CASE Tick
  BY <1>1, <1>5 DEF Tick, GraceTypeOK
<1>6. CASE Signal \/ StderrFails \/ JoinExpires \/ Exited \/ UNCHANGED serverVars
  BY <1>2, <1>6 DEF Signal, StderrFails, JoinExpires, Exited, serverVars, processVars
<1> QED BY <1>3, <1>4, <1>5, <1>6 DEF ServerNext

\* How a step of the queue moves a worker that is not itself popping.
LEMMA PopperMoves ==
  ASSUME QueueTypeOK,
         PushStep \/ Close \/ RaiseShutdown \/ Elapse \/ (\E c \in Conns : CallPush(c))
  PROVE  \A w \in Workers :
           popper'[w] = popper[w] \/ (popper[w] = "wait" /\ popper'[w] = "lock")
<1>1. popper \in [Workers -> PopperStates]
  BY DEF QueueTypeOK
<1>2. CASE PushEnqueues
  BY <1>1, <1>2 DEF PushEnqueues, NotifyWorker
<1>3. CASE Close
  BY <1>1, <1>3 DEF Close, NotifyAllWorkers
<1> QED
  BY <1>2, <1>3
  DEF PushStep, PushScan, PushRefuses, PushDropsExpired, PushWaitEnds,
      RaiseShutdown, Elapse, CallPush

LEMMA PhaseTypeStep ==
  ServerTypeOK /\ [ServerNext]_serverVars => PhaseTypeOK'
<1> SUFFICES ASSUME ServerTypeOK, [ServerNext]_serverVars PROVE PhaseTypeOK'
  OBVIOUS
<1>1. PhaseTypeOK /\ QueueTypeOK /\ popper \in [Workers -> PopperStates]
  BY DEF ServerTypeOK, PhaseTypeOK, QueueTypeOK
<1> USE DEF PhaseTypeOK, PhaseStates
<1>2. ASSUME phase' = phase,
             \A w \in Workers :
               popper'[w] = popper[w] \/ (popper[w] = "wait" /\ popper'[w] = "lock")
      PROVE  PhaseTypeOK'
  BY <1>1, <1>2
<1>3. ASSUME UNCHANGED <<phase, popper>> PROVE PhaseTypeOK'
  BY <1>1, <1>3
<1>4. CASE AcceptStep
  <2>1. phase' = phase
    BY <1>4
    DEF AcceptStep, CheckShutdown, AcceptConnection, AcceptAgain, NothingToAccept,
        AcceptBacksOff, AcceptFails, PollEnds, BackoffEnds, ScanQueue,
        PushReturnsTrue, PushReturnsFalse, Goto, processVars
  <2>2. \/ popper' = popper
        \/ PushStep
        \/ \E c \in Conns : CallPush(c)
    BY <1>4
    DEF AcceptStep, CheckShutdown, AcceptConnection, AcceptAgain, NothingToAccept,
        AcceptBacksOff, AcceptFails, PollEnds, BackoffEnds, ScanQueue,
        PushReturnsTrue, PushReturnsFalse, PushStep, queueVars
  <2> QED BY <1>1, <1>2, <2>1, <2>2, PopperMoves
<1>5. CASE StopStep
  <2>1. phase' = phase
    BY <1>5
    DEF StopStep, CloseQueue, JoinWaits, JoinReceives, JoinTimesOut, JoinComplete,
        JoinThreads, Exit, Goto
  <2>2. popper' = popper \/ Close
    BY <1>5
    DEF StopStep, CloseQueue, JoinWaits, JoinReceives, JoinTimesOut, JoinComplete,
        JoinThreads, Exit, queueVars
  <2> QED BY <1>1, <1>2, <2>1, <2>2, PopperMoves
<1>6. ASSUME NEW w \in Workers, WorkerStep(w) PROVE PhaseTypeOK'
  <2>1. CASE FindNoWork(w)
    BY <1>1, <2>1 DEF FindNoWork, PopFindsNone, processVars
  <2>2. CASE PopDisturbed(w)
    BY <1>1, <2>2 DEF PopDisturbed, PopWakesSpuriously, PopPanics, processVars
  <2>3. CASE TakeWork(w)
    BY <1>1, <2>3 DEF TakeWork, Phase, PopTakes
  <2>4. CASE LogRequest(w)
    BY <1>1, <2>4 DEF LogRequest, Phase, CallPop, WorkerPanics, Release
  <2>5. CASE WorkerReturns(w)
    BY <1>1, <2>5 DEF WorkerReturns, queueVars
  <2>6. ASSUME NEW from \in {"begin", "read", "reply", "error"},
               NEW to \in {"read", "reply", "error", "log"},
               Phase(w, from, to), popper' = popper
        PROVE  PhaseTypeOK'
    BY <1>1, <2>6 DEF Phase
  <2>7. CASE BeginRequest(w) \/ ReadRequest(w) \/ ReadFails(w) \/ RefuseRequest(w)
             \/ ReadTimesOut(w) \/ WriteEnds(w) \/ WriteTimesOut(w)
    BY <2>6, <2>7
    DEF BeginRequest, ReadRequest, ReadFails, RefuseRequest, ReadTimesOut,
        WriteEnds, WriteTimesOut, SimpleError, queueVars
  <2> QED BY <1>6, <2>1, <2>2, <2>3, <2>4, <2>5, <2>7 DEF WorkerStep
<1>7. CASE Signal \/ Tick
  BY <1>3, <1>7 DEF Signal, Tick, RaiseShutdown, Elapse, processVars
<1>8. CASE StderrFails \/ JoinExpires \/ Exited \/ UNCHANGED serverVars
  BY <1>3, <1>8 DEF StderrFails, JoinExpires, Exited, serverVars, processVars, queueVars
<1> QED BY <1>4, <1>5, <1>6, <1>7, <1>8 DEF ServerNext

LEMMA PushTypeStep ==
  ServerTypeOK /\ [ServerNext]_serverVars => PushTypeOK'
<1> SUFFICES ASSUME ServerTypeOK, [ServerNext]_serverVars PROVE PushTypeOK'
  OBVIOUS
<1>1. PushTypeOK /\ (main = "exited" <=> result # "none")
  BY DEF ServerTypeOK, PushTypeOK
<1> USE DEF PushTypeOK, Pushing
<1>2. CASE AcceptStep
  <2>1. CASE \E c \in Conns : AcceptConnection(c)
    BY <2>1 DEF AcceptConnection, Goto, CallPush
  <2>2. CASE ScanQueue
    BY <2>2 DEF ScanQueue, PushScan, PushWaitEnds, processVars
  <2>3. CASE PushReturnsTrue \/ PushReturnsFalse
    BY <2>3 DEF PushReturnsTrue, PushReturnsFalse, Goto,
                PushDropsExpired, PushEnqueues, PushRefuses
  <2>4. CASE CheckShutdown \/ AcceptAgain \/ NothingToAccept \/ AcceptBacksOff
             \/ AcceptFails \/ PollEnds \/ BackoffEnds
    BY <1>1, <2>4
    DEF CheckShutdown, AcceptAgain, NothingToAccept, AcceptBacksOff, AcceptFails,
        PollEnds, BackoffEnds, Goto, queueVars
  <2> QED BY <1>2, <2>1, <2>2, <2>3, <2>4 DEF AcceptStep
<1>3. CASE StopStep
  BY <1>1, <1>3
  DEF StopStep, CloseQueue, JoinWaits, JoinReceives, JoinTimesOut, JoinComplete,
      JoinThreads, WatchesDeadline, Exit, Goto, Close, queueVars
<1>4. ASSUME NEW w \in Workers, WorkerStep(w) PROVE PushTypeOK'
  <2>1. UNCHANGED <<main, result>>
    BY <1>4
    DEF WorkerStep, FindNoWork, PopDisturbed, TakeWork, BeginRequest, ReadRequest,
        ReadFails, RefuseRequest, ReadTimesOut, WriteEnds, WriteTimesOut,
        LogRequest, WorkerReturns, SimpleError, Phase, processVars
  <2>2. pusher' \in {pusher, WakePusher}
    BY <1>4
    DEF WorkerStep, FindNoWork, PopDisturbed, TakeWork, BeginRequest, ReadRequest,
        ReadFails, RefuseRequest, ReadTimesOut, WriteEnds, WriteTimesOut,
        LogRequest, WorkerReturns, PopFindsNone, PopTakes, PopWakesSpuriously,
        PopPanics, CallPop, WorkerPanics, Release, queueVars
  <2> QED BY <1>1, <2>1, <2>2 DEF WakePusher
<1>5. CASE Signal \/ Tick
  BY <1>1, <1>5 DEF Signal, Tick, RaiseShutdown, Elapse, processVars
<1>6. CASE StderrFails \/ JoinExpires \/ Exited \/ UNCHANGED serverVars
  BY <1>1, <1>6 DEF StderrFails, JoinExpires, Exited, serverVars, processVars, queueVars
<1> QED BY <1>2, <1>3, <1>4, <1>5, <1>6 DEF ServerNext

LEMMA ServerTypeStep ==
  ServerTypeOK /\ [ServerNext]_serverVars => ServerTypeOK'
<1> SUFFICES ASSUME ServerTypeOK, [ServerNext]_serverVars PROVE ServerTypeOK'
  OBVIOUS
<1>1. QueueTypeOK'
  BY ServerQueueStep, QueueTypeStep DEF ServerTypeOK
<1>2. MainTypeOK' /\ GraceTypeOK' /\ PhaseTypeOK' /\ PushTypeOK'
  BY MainTypeStep, GraceTypeStep, PhaseTypeStep, PushTypeStep
<1> QED
  BY <1>1, <1>2 DEF ServerTypeOK, MainTypeOK, GraceTypeOK, PhaseTypeOK, PushTypeOK

LEMMA ServerTypeInit == ServerInit => ServerTypeOK
<1> USE GraceAssumption DEF GraceAssumption, ServerInit
<1> SUFFICES ASSUME ServerInit PROVE ServerTypeOK
  OBVIOUS
<1>1. QueueTypeOK
  BY QueueTypeInit
<1>2. MainTypeOK
  BY DEF MainTypeOK, MainStates, Results
<1>3. GraceTypeOK
  BY DEF GraceTypeOK
<1>4. PhaseTypeOK /\ PushTypeOK
  BY DEF PhaseTypeOK, PhaseStates, PushTypeOK, QueueInit, Pushing
<1> QED BY <1>1, <1>2, <1>3, <1>4
        DEF ServerTypeOK, MainTypeOK, GraceTypeOK, PhaseTypeOK, PushTypeOK

\* The main thread, the workers and the queue always agree on where they are:
\* main is in push exactly while the queue is being pushed to, unless a panic has
\* ended the process there, and a worker serves exactly while it owns a connection.
THEOREM ServerTypeCorrect == ServerSpec => []ServerTypeOK
BY ServerTypeInit, ServerTypeStep, PTL DEF ServerSpec

-----------------------------------------------------------------------------
(* Shutdown. *)

\* A thread that has ended stays so, and a closed queue stays closed.
LEMMA GoneStays ==
  ServerTypeOK /\ [ServerNext]_serverVars =>
    /\ \A w \in Workers : Gone(w) => Gone(w)'
    /\ closed => closed'
<1> SUFFICES ASSUME ServerTypeOK, [ServerNext]_serverVars
             PROVE  /\ \A w \in Workers : Gone(w) => Gone(w)'
                    /\ closed => closed'
  OBVIOUS
<1>1. /\ QueueTypeOK
      /\ phase \in [Workers -> PhaseStates] /\ popper \in [Workers -> PopperStates]
  BY DEF ServerTypeOK, QueueTypeOK
<1>2. ASSUME NEW w \in Workers, popper[w] = "panicked" PROVE popper'[w] = "panicked"
  <2>1. [QueueNext]_queueVars
    BY ServerQueueStep
  <2>2. ASSUME NEW v \in Workers, PopStep(v) PROVE popper'[w] = "panicked"
    BY <1>1, <1>2, <2>2
    DEF PopStep, PopTakes, PopFindsNone, PopPanics, PopWakesSpuriously, CallPop,
        WorkerPanics, Release
  <2> QED BY <1>1, <1>2, <2>1, <2>2, PopperMoves DEF QueueNext, queueVars
<1>3. ASSUME NEW w \in Workers, phase[w] = "done" PROVE phase'[w] = "done"
  <2>1. ASSUME NEW v \in Workers, WorkerStep(v) PROVE phase'[w] = "done"
    BY <1>1, <1>3, <2>1
    DEF WorkerStep, FindNoWork, PopDisturbed, TakeWork, BeginRequest, ReadRequest,
        ReadFails, RefuseRequest, ReadTimesOut, WriteEnds, WriteTimesOut,
        LogRequest, WorkerReturns, SimpleError, Phase, processVars
  <2>2. CASE AcceptStep \/ StopStep
    BY <1>3, <2>2
    DEF AcceptStep, CheckShutdown, AcceptConnection, AcceptAgain, NothingToAccept,
        AcceptBacksOff, AcceptFails, PollEnds, BackoffEnds, ScanQueue,
        PushReturnsTrue, PushReturnsFalse, Goto, processVars,
        StopStep, CloseQueue, JoinWaits, JoinReceives, JoinTimesOut, JoinComplete,
        JoinThreads, Exit
  <2>3. CASE Signal \/ Tick \/ StderrFails \/ JoinExpires \/ Exited \/ UNCHANGED serverVars
    BY <1>3, <2>3
    DEF Signal, Tick, StderrFails, JoinExpires, Exited, serverVars, processVars
  <2> QED BY <2>1, <2>2, <2>3 DEF ServerNext
<1>4. ASSUME closed PROVE closed'
  BY <1>4, ServerQueueStep
  DEF QueueNext, CallPush, PushStep, PushScan, PushRefuses, PushDropsExpired,
      PushEnqueues, PushWaitEnds, Close, PopStep, PopTakes, PopFindsNone, PopPanics,
      PopWakesSpuriously, CallPop, WorkerPanics, Release, RaiseShutdown, Elapse,
      queueVars
<1> QED BY <1>2, <1>3, <1>4 DEF Gone

AccountInv == ServerTypeOK /\ Accounting

LEMMA AccountStep == AccountInv /\ [ServerNext]_serverVars => AccountInv'
<1> USE DEF JoinNeverBlocks
<1> SUFFICES ASSUME AccountInv, [ServerNext]_serverVars PROVE Accounting'
  BY ServerTypeStep DEF AccountInv
<1>1. /\ ServerTypeOK /\ Accounting
      /\ phase \in [Workers -> PhaseStates]
      /\ \A w \in Workers : Gone(w) => Gone(w)'
      /\ closed => closed'
  BY GoneStays DEF AccountInv, ServerTypeOK
<1>2. ASSUME \/ UNCHANGED <<main, result>>
             \/ main' \notin {"join", "recv", "reap", "exited"}
             \/ main' = "exited" /\ result' = "abort",
             \A w \in Workers : phase'[w] = "done" <=> phase[w] = "done",
             UNCHANGED <<channel, completed>>
      PROVE  Accounting'
  BY <1>1, <1>2 DEF Accounting
<1>3. CASE AcceptStep
  <2>1. phase' = phase /\ UNCHANGED <<channel, completed>>
    BY <1>3
    DEF AcceptStep, CheckShutdown, AcceptConnection, AcceptAgain, NothingToAccept,
        AcceptBacksOff, AcceptFails, PollEnds, BackoffEnds, ScanQueue,
        PushReturnsTrue, PushReturnsFalse, Goto, processVars
  <2>2. UNCHANGED <<main, result>> \/ main' \notin {"join", "recv", "reap", "exited"}
    BY <1>3
    DEF AcceptStep, CheckShutdown, AcceptConnection, AcceptAgain, NothingToAccept,
        AcceptBacksOff, AcceptFails, PollEnds, BackoffEnds, ScanQueue,
        PushReturnsTrue, PushReturnsFalse, Goto, processVars
  <2> QED BY <1>2, <2>1, <2>2
<1>4. CASE StopStep
  <2>1. CASE CloseQueue
    BY <1>1, <2>1 DEF CloseQueue, Goto, Close, Accounting
  <2>2. CASE JoinWaits
    BY <1>1, <2>2 DEF JoinWaits, Goto, Accounting
  <2>3. CASE JoinReceives
    BY <1>1, <2>3 DEF JoinReceives, Accounting
  <2>4. CASE JoinTimesOut
    BY <1>1, <2>4 DEF JoinTimesOut, WatchesDeadline, Exit, Accounting
  <2>5. CASE JoinComplete
    <3>1. \A w \in Workers : Gone(w)
      <4>1. ASSUME completed = Workers PROVE \A w \in Workers : phase[w] = "done"
        BY <1>1, <4>1 DEF Accounting
      <4> QED BY <2>5, <4>1 DEF JoinComplete, Disconnected, Gone
    <3>2. /\ main \in {"join", "recv"} /\ main' = "reap"
          /\ UNCHANGED <<phase, channel, completed>>
      BY <2>5 DEF JoinComplete, Goto
    <3> QED BY <1>1, <3>1, <3>2 DEF Accounting
  <2>6. CASE JoinThreads
    BY <1>1, <2>6 DEF JoinThreads, Exit, Accounting
  <2> QED BY <1>4, <2>1, <2>2, <2>3, <2>4, <2>5, <2>6 DEF StopStep
<1>5. ASSUME NEW w \in Workers, WorkerStep(w) PROVE Accounting'
  <2>1. CASE WorkerReturns(w)
    <3>1. /\ phase' = [phase EXCEPT ![w] = "done"] /\ phase[w] = "idle"
          /\ channel' = channel \cup {w}
          /\ UNCHANGED <<main, completed, result>>
      BY <2>1 DEF WorkerReturns
    <3>2. w \notin channel \cup completed
      BY <1>1, <3>1 DEF Accounting
    <3>3. {v \in Workers : phase'[v] = "done"} = {v \in Workers : phase[v] = "done"} \cup {w}
      BY <1>1, <3>1
    <3> QED BY <1>1, <3>1, <3>2, <3>3 DEF Accounting
  <2>2. CASE ~WorkerReturns(w)
    <3>1. UNCHANGED <<main, channel, completed, result>>
      BY <1>5, <2>2
      DEF WorkerStep, FindNoWork, PopDisturbed, TakeWork, BeginRequest, ReadRequest,
          ReadFails, RefuseRequest, ReadTimesOut, WriteEnds, WriteTimesOut,
          LogRequest, SimpleError, Phase, processVars
    <3>2. \/ phase' = phase
          \/ \E from \in PhaseStates \ {"done"}, to \in PhaseStates \ {"done"} :
               Phase(w, from, to)
      BY <1>5, <2>2
      DEF WorkerStep, FindNoWork, PopDisturbed, TakeWork, BeginRequest, ReadRequest,
          ReadFails, RefuseRequest, ReadTimesOut, WriteEnds, WriteTimesOut,
          LogRequest, SimpleError, processVars, PhaseStates
    <3>3. \A v \in Workers : phase'[v] = "done" <=> phase[v] = "done"
      BY <1>1, <3>2 DEF Phase
    <3> QED BY <1>2, <3>1, <3>3
  <2> QED BY <2>1, <2>2
<1>6. CASE Signal \/ Tick \/ StderrFails \/ JoinExpires \/ Exited \/ UNCHANGED serverVars
  BY <1>2, <1>6
  DEF Signal, Tick, StderrFails, JoinExpires, Exited, serverVars, processVars
<1> QED BY <1>3, <1>4, <1>5, <1>6 DEF ServerNext

LEMMA AccountInvariant == ServerSpec => []AccountInv
<1>1. ServerInit => ServerTypeOK
  BY ServerTypeInit
<1>2. ServerInit => Accounting
  BY DEF ServerInit, Accounting, JoinNeverBlocks
<1> QED BY <1>1, <1>2, AccountStep, PTL DEF ServerSpec, AccountInv

\* Every worker is counted once: its id is in the channel or received exactly if
\* it returned.
THEOREM EveryWorkerCounted == ServerSpec => []Accounting
<1>1. AccountInv => Accounting
  BY DEF AccountInv
<1> QED BY <1>1, AccountInvariant, PTL

\* The joins without a timeout come only when every thread has ended.
THEOREM JoinsNeverBlock == ServerSpec => []JoinNeverBlocks
<1>1. AccountInv => JoinNeverBlocks
  BY DEF AccountInv, Accounting
<1> QED BY <1>1, AccountInvariant, PTL

LEMMA CleanStopStep ==
  AccountInv /\ BoundInv /\ CleanStop /\ [ServerNext]_serverVars => CleanStop'
<1> SUFFICES ASSUME AccountInv, BoundInv, CleanStop, [ServerNext]_serverVars,
                    result' = "ok"
             PROVE  /\ \A w \in Workers : phase'[w] = "done" /\ item'[w] = NoConn
                    /\ streams' = <<>>
                    /\ ~failed'
  BY DEF CleanStop
<1>1. ServerTypeOK /\ Accounting
  BY DEF AccountInv
<1>2. CASE result = "ok"
  <2>1. main = "exited"
    BY <1>1, <1>2 DEF ServerTypeOK
  <2>2. UNCHANGED serverVars
    BY <2>1
    DEF ServerNext, AcceptStep, CheckShutdown, AcceptConnection, AcceptAgain,
        NothingToAccept, AcceptBacksOff, AcceptFails, PollEnds, BackoffEnds,
        ScanQueue, PushReturnsTrue, PushReturnsFalse, Goto,
        StopStep, CloseQueue, JoinWaits, JoinReceives, JoinTimesOut, JoinComplete,
        JoinThreads, WatchesDeadline,
        WorkerStep, FindNoWork, PopDisturbed, TakeWork, BeginRequest, ReadRequest,
        ReadFails, RefuseRequest, ReadTimesOut, WriteEnds, WriteTimesOut,
        LogRequest, WorkerReturns, SimpleError, Phase, Alive,
        StderrFails, Signal, Tick, JoinExpires, Exited
  <2> QED BY <1>2, <2>2 DEF serverVars, queueVars, processVars, CleanStop
<1>3. CASE result # "ok"
  <2>1. JoinThreads
    <3>1. ~JoinTimesOut
      BY DEF JoinTimesOut, Exit
    <3>2. result' # result
      BY <1>3
    <3> QED BY <3>1, <3>2
      DEF ServerNext, AcceptStep, CheckShutdown, AcceptConnection, AcceptAgain,
          NothingToAccept, AcceptBacksOff, AcceptFails, PollEnds, BackoffEnds,
          ScanQueue, PushReturnsTrue, PushReturnsFalse, Goto,
          StopStep, CloseQueue, JoinWaits, JoinReceives, JoinComplete,
          WorkerStep, FindNoWork, PopDisturbed, TakeWork, BeginRequest, ReadRequest,
          ReadFails, RefuseRequest, ReadTimesOut, WriteEnds, WriteTimesOut,
          LogRequest, WorkerReturns, SimpleError, Phase,
          StderrFails, Signal, Tick, JoinExpires, Exited, serverVars, processVars
  <2>2. /\ main = "reap" /\ \A w \in Workers : Gone(w)
        /\ ~failed /\ failed' = failed
        /\ \A w \in Workers : popper[w] # "panicked"
        /\ UNCHANGED <<phase, item, streams>>
    BY <2>1 DEF JoinThreads, Exit, JoinOutcome, queueVars
  <2>3. \A w \in Workers : phase[w] = "done" /\ popper[w] = "none"
    BY <1>1, <2>2 DEF Gone, ServerTypeOK
  <2>4. \A w \in Workers : item[w] = NoConn
    BY <1>1, <2>3 DEF ServerTypeOK, QueueTypeOK
  <2>5. streams = <<>>
    BY <1>1, <2>2 DEF Accounting, BoundInv, ClosedStaysEmpty
  <2> QED BY <2>2, <2>3, <2>4, <2>5
<1> QED BY <1>2, <1>3

\* run returns Ok only when every worker has returned, none holds a connection,
\* none is queued and accepting has not failed.
THEOREM OkMeansCleanStop == ServerSpec => []CleanStop
<1>1. ServerSpec => []BoundInv
  BY ServerUsesQueue, BoundInvariant, PTL
<1>2. ServerInit => CleanStop
  BY DEF ServerInit, CleanStop
<1> QED BY <1>1, <1>2, AccountInvariant, CleanStopStep, PTL DEF ServerSpec
=============================================================================
