------------------------------ MODULE WorkQueue ------------------------------
(***************************************************************************)
(* The bounded queue between the acceptor and the workers of Statika       *)
(* (struct WorkQueue in src/server.rs): one mutex, two condition           *)
(* variables, and work items that carry the deadline of their connection.  *)
(*                                                                         *)
(* One thread pushes (run() calls accept_loop and then close), every       *)
(* worker pops.  A critical section is one step, with one exception: push  *)
(* reads the clock twice while it holds the mutex, in discard_expired and  *)
(* before push_back, so it takes two steps.  The mutex is held between     *)
(* two steps exactly while pusher = "admit".                               *)
(*                                                                         *)
(* An Instant is modelled by what is left until it (the code's own         *)
(* deadline.saturating_duration_since(now)): deadlines are countdowns that *)
(* Elapse decrements, so time needs no bound.                              *)
(*                                                                         *)
(* eprintln! panics when stderr cannot be written.  The release build      *)
(* aborts the process then (panic = "abort", Cargo.toml:19), which is      *)
(* StderrFails of module Server; in a build of the dev or test profile     *)
(* the panic unwinds, and the thread is lost.  That is what Fragile is     *)
(* for: it is empty for the release build.                                 *)
(***************************************************************************)
EXTENDS Naturals, Sequences, FiniteSets

CONSTANTS
  Conns,           \* connections; one may be reused after it was closed
  NoConn,          \* stands for "no connection"
  Workers,         \* worker threads
  Fragile,         \* the workers a failed eprintln! unwinds (dev and test builds)
  Capacity,        \* WorkQueue.capacity (STATIKA_QUEUE_SIZE)
  RequestTimeout   \* clock ticks from a connection's acceptance to its deadline

ASSUME QueueAssumption ==
  /\ NoConn \notin Conns
  /\ IsFiniteSet(Workers)
  /\ Fragile \subseteq Workers
  /\ Capacity \in Nat \ {0}
  /\ RequestTimeout \in Nat \ {0}

VARIABLES
  streams,    \* QueueState.streams, front first
  closed,     \* QueueState.closed
  left,       \* ticks left until the deadline of each connection
  shutdown,   \* the static SHUTDOWN flag that push reads
  pusher,     \* where the acceptor is in push
  work,       \* the connection it pushes
  popper,     \* where each worker is in pop
  item        \* the connection a worker's pop returned

queueVars == <<streams, closed, left, shutdown, pusher, work, popper, item>>

\* idle: not in push.  lock: about to take the mutex.  admit: past the wait,
\* holding the mutex.  wait: on not_full.  refused: push returned false.
PusherStates == {"idle", "lock", "admit", "wait", "refused"}

\* lock: in pop, about to take the mutex.  wait: on not_empty.  busy: pop
\* returned a connection.  none: pop returned None.  panicked: unwound.
PopperStates == {"lock", "wait", "busy", "none", "panicked"}

Pushing == pusher \in {"lock", "admit", "wait"}

\* The connections in the order of their acceptance, the one still in push last.
Line == IF Pushing THEN Append(streams, work) ELSE streams

MutexFree == pusher # "admit"

Expired(c) == left[c] = 0

\* discard_expired has something to discard: the caller will log it.
Stale == streams # <<>> /\ Expired(streams[1])

Free(c) ==
  /\ \A i \in 1..Len(streams) : streams[i] # c
  /\ Pushing => work # c
  /\ \A w \in Workers : item[w] # c

QueueTypeOK ==
  /\ streams \in Seq(Conns)
  /\ closed \in BOOLEAN
  /\ left \in [Conns -> 0..RequestTimeout]
  /\ shutdown \in BOOLEAN
  /\ pusher \in PusherStates
  /\ work \in Conns \cup {NoConn}
  /\ Pushing => work \in Conns
  /\ popper \in [Workers -> PopperStates]
  /\ item \in [Workers -> Conns \cup {NoConn}]
  /\ \A w \in Workers : popper[w] = "busy" <=> item[w] # NoConn

QueueInit ==
  /\ streams = <<>>
  /\ closed = FALSE
  /\ left = [c \in Conns |-> 0]
  /\ shutdown = FALSE
  /\ pusher = "idle"
  /\ work = NoConn
  /\ popper = [w \in Workers |-> "lock"]
  /\ item = [w \in Workers |-> NoConn]

-----------------------------------------------------------------------------
(* What a critical section computes.  discard_expired pops while the front   *)
(* is expired: it removes the first n items for the one n that               *)
(* ExpiredPrefix(n) holds of.  An operator named Bad... is a mutant of the   *)
(* one after it: a mistake one could make there, for which a property fails. *)

BadExpiredPrefix(n) == n = 0    \* nothing is discarded

ExpiredPrefix(n) ==
  /\ n \in 0..Len(streams)
  /\ \A i \in 1..n : Expired(streams[i])
  /\ n < Len(streams) => ~Expired(streams[n+1])

AfterDiscard(n) == SubSeq(streams, n+1, Len(streams))

\* pop_front: what is left once n items were discarded and one was popped.
BadAfterTake(n) == AfterDiscard(n)    \* the item stays in the queue

AfterTake(n) == Tail(AfterDiscard(n))

BadHasRoom(s) == Len(s) <= Capacity    \* off by one

HasRoom(s) == Len(s) < Capacity

Enqueued == Append(streams, work)

BadNotifyWorker == UNCHANGED popper    \* the notification is forgotten

\* not_empty.notify_one: some worker blocked on not_empty, if there is one.
NotifyWorker ==
  LET blocked == {w \in Workers : popper[w] = "wait"}
  IN IF blocked = {}
     THEN UNCHANGED popper
     ELSE \E w \in blocked : popper' = [popper EXCEPT ![w] = "lock"]

BadNotifyAllWorkers == UNCHANGED popper

\* not_empty.notify_all.
NotifyAllWorkers ==
  popper' = [w \in Workers |-> IF popper[w] = "wait" THEN "lock" ELSE popper[w]]

\* not_full.notify_one or notify_all: only the acceptor ever waits on it.
WakePusher == IF pusher = "wait" THEN "lock" ELSE pusher

-----------------------------------------------------------------------------
(* The acceptor. *)

\* push is called with a connection accepted now.
CallPush(c) ==
  /\ pusher = "idle"
  /\ Free(c)
  /\ pusher' = "lock"
  /\ work' = c
  /\ left' = [left EXCEPT ![c] = RequestTimeout]
  /\ UNCHANGED <<streams, closed, shutdown, popper, item>>

\* One round of push's loop: discard, then stop waiting or wait on not_full.
PushScan ==
  /\ pusher = "lock"
  /\ \E n \in 0..Len(streams) :
       /\ ExpiredPrefix(n)
       /\ streams' = AfterDiscard(n)
  /\ pusher' = IF HasRoom(streams') \/ closed \/ shutdown
               THEN "admit" ELSE "wait"
  /\ UNCHANGED <<closed, left, shutdown, work, popper, item>>

\* push returns false: the caller drops the connection.
PushRefuses ==
  /\ pusher = "admit"
  /\ closed \/ shutdown
  /\ pusher' = "refused"
  /\ UNCHANGED <<streams, closed, left, shutdown, work, popper, item>>

\* push returns true although it drops the connection: it expired in the wait.
PushDropsExpired ==
  /\ pusher = "admit"
  /\ ~closed /\ ~shutdown
  /\ Expired(work)
  /\ pusher' = "idle"
  /\ UNCHANGED <<streams, closed, left, shutdown, work, popper, item>>

PushEnqueues ==
  /\ pusher = "admit"
  /\ ~closed /\ ~shutdown
  /\ ~Expired(work)
  /\ streams' = Enqueued
  /\ pusher' = "idle"
  /\ NotifyWorker
  /\ UNCHANGED <<closed, left, shutdown, work, item>>

\* not_full.wait_timeout returns after ACCEPT_POLL_INTERVAL, or spuriously.
PushWaitEnds ==
  /\ pusher = "wait"
  /\ pusher' = "lock"
  /\ UNCHANGED <<streams, closed, left, shutdown, work, popper, item>>

BadAfterClose == streams    \* the queue is not cleared

AfterClose == <<>>

\* close, called by the pushing thread once it pushes no more.
Close ==
  /\ ~Pushing
  /\ closed' = TRUE
  /\ streams' = AfterClose
  /\ NotifyAllWorkers
  /\ UNCHANGED <<left, shutdown, pusher, work, item>>

-----------------------------------------------------------------------------
(* The workers. *)

\* A round of pop's loop for worker w that finds a connection still alive.
PopTakes(w) ==
  /\ popper[w] = "lock"
  /\ MutexFree
  /\ \E n \in 0..Len(streams)-1 :
       /\ ExpiredPrefix(n)
       /\ streams' = AfterTake(n)
       /\ item' = [item EXCEPT ![w] = streams[n+1]]
  /\ popper' = [popper EXCEPT ![w] = "busy"]
  /\ pusher' = WakePusher
  /\ UNCHANGED <<closed, left, shutdown, work>>

\* A round that finds none: w leaves if the queue is closed, else it waits.
PopFindsNone(w) ==
  /\ popper[w] = "lock"
  /\ MutexFree
  /\ ExpiredPrefix(Len(streams))
  /\ streams' = <<>>
  /\ popper' = [popper EXCEPT ![w] = IF closed THEN "none" ELSE "wait"]
  /\ pusher' = IF streams = <<>> THEN pusher ELSE WakePusher
  /\ UNCHANGED <<closed, left, shutdown, work, item>>

\* Where panics unwind: logging the discarded items fails in pop, before not_full
\* is notified; the poisoned mutex is released and the next owner recovers it with
\* into_inner.
PopPanics(w) ==
  /\ w \in Fragile
  /\ popper[w] = "lock"
  /\ MutexFree
  /\ \E n \in 1..Len(streams) :
       /\ ExpiredPrefix(n)
       /\ streams' = AfterDiscard(n)
  /\ popper' = [popper EXCEPT ![w] = "panicked"]
  /\ UNCHANGED <<closed, left, shutdown, pusher, work, item>>

\* not_empty.wait may return without a notification.
PopWakesSpuriously(w) ==
  /\ popper[w] = "wait"
  /\ popper' = [popper EXCEPT ![w] = "lock"]
  /\ UNCHANGED <<streams, closed, left, shutdown, pusher, work, item>>

AfterRelease(w) == [item EXCEPT ![w] = NoConn]

\* The worker is done with its connection: it drops it and pops again, or, where
\* panics unwind, it panics in log_request and is lost.
Release(w, next) ==
  /\ popper[w] = "busy"
  /\ popper' = [popper EXCEPT ![w] = next]
  /\ item' = AfterRelease(w)
  /\ UNCHANGED <<streams, closed, left, shutdown, pusher, work>>

CallPop(w) == Release(w, "lock")

WorkerPanics(w) == w \in Fragile /\ Release(w, "panicked")

-----------------------------------------------------------------------------
(* The environment. *)

RaiseShutdown ==
  /\ ~shutdown
  /\ shutdown' = TRUE
  /\ UNCHANGED <<streams, closed, left, pusher, work, popper, item>>

\* One tick of the monotonic clock.
ElapseLeft == left' = [c \in Conns |-> IF left[c] = 0 THEN 0 ELSE left[c] - 1]

Elapse ==
  /\ ElapseLeft
  /\ UNCHANGED <<streams, closed, shutdown, pusher, work, popper, item>>

PushStep ==
  \/ PushScan
  \/ PushRefuses
  \/ PushDropsExpired
  \/ PushEnqueues
  \/ PushWaitEnds

PopStep(w) ==
  \/ PopTakes(w)
  \/ PopFindsNone(w)
  \/ PopPanics(w)
  \/ PopWakesSpuriously(w)
  \/ CallPop(w)
  \/ WorkerPanics(w)

QueueNext ==
  \/ \E c \in Conns : CallPush(c)
  \/ PushStep
  \/ Close
  \/ \E w \in Workers : PopStep(w)
  \/ RaiseShutdown
  \/ Elapse

QueueSpec == QueueInit /\ [][QueueNext]_queueVars

-----------------------------------------------------------------------------
(* Properties. *)

\* VecDeque::push_back never grows the queue past WorkQueue.capacity: the
\* length checked before the wait ended still bounds it when push appends.
QueueBounded == Len(streams) <= Capacity

\* A connection has one owner: it is queued once, or it is the one in push,
\* or exactly one worker has it (its stream is never served twice).
SingleOwner ==
  /\ \A i, j \in 1..Len(Line) : Line[i] = Line[j] => i = j
  /\ \A v, w \in Workers : item[v] = item[w] /\ item[v] # NoConn => v = w
  /\ \A w \in Workers : \A i \in 1..Len(Line) : Line[i] # item[w]

\* The comment discard_expired relies on: connections enter the FIFO with
\* monotonically increasing deadlines, so the expired ones are a prefix.
DeadlinesOrdered ==
  \A i, j \in 1..Len(Line) : i < j => left[Line[i]] <= left[Line[j]]

Blocked == {w \in Workers : popper[w] = "wait"}
Awake == {w \in Workers : popper[w] = "lock"}

\* pop waits on not_empty without a timeout, and push wakes one worker per
\* item: no wakeup is lost, even if a woken worker finds its item taken (or dies,
\* where panics unwind), for while a worker is blocked as many are awake as items
\* are queued.
NoLostWakeup == Blocked # {} => Cardinality(Awake) >= Len(streams)

\* Nothing is left in the queue by close(), nor put there after it by the thread
\* that pushes and closes in turn: the workers leave when they find it empty.
ClosedStaysEmpty == closed => streams = <<>>

\* discard_expired stops at the first item that is alive; nevertheless no
\* expired connection is left anywhere in the queue by a pop that parks,
\* leaves or takes a connection.
PopLeavesNoneExpired ==
  [][\A w \in Workers :
       popper[w] = "lock" /\ popper'[w] # "lock"
         => \A i \in 1..Len(streams') : ~Expired(streams'[i])]_queueVars

\* The queue implements the line of ConnectionLine: first come first served,
\* at most once, nobody dropped without reason, nobody served after its time.
Promise == INSTANCE ConnectionLine WITH
  Lifetime <- RequestTimeout,
  line     <- Line,
  serving  <- {item[w] : w \in {v \in Workers : item[v] # NoConn}},
  stopping <- shutdown \/ closed

ImplementsLine == Promise!LineSpec
=============================================================================
