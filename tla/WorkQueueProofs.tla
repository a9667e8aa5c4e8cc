-------------------------- MODULE WorkQueueProofs --------------------------
(***************************************************************************)
(* Proofs about WorkQueue for any number of connections and workers, any   *)
(* capacity and any request timeout.                                       *)
(***************************************************************************)
EXTENDS WorkQueue, FiniteSetTheorems, SequenceTheorems, TLAPS

-----------------------------------------------------------------------------
(* discard_expired as an operation on sequences.                           *)

\* What discarding the first n items, and popping one more, leaves.
LEMMA DiscardProperties ==
  ASSUME streams \in Seq(Conns), NEW n \in 0..Len(streams)
  PROVE  /\ AfterDiscard(n) \in Seq(Conns)
         /\ Len(AfterDiscard(n)) = Len(streams) - n
         /\ \A i \in 1..Len(streams)-n : AfterDiscard(n)[i] = streams[n+i]
         /\ n < Len(streams) =>
              /\ Tail(AfterDiscard(n)) \in Seq(Conns)
              /\ Len(Tail(AfterDiscard(n))) = Len(streams) - n - 1
              /\ \A i \in 1..Len(streams)-n-1 :
                   Tail(AfterDiscard(n))[i] = streams[n+1+i]
<1>1. /\ AfterDiscard(n) \in Seq(Conns)
      /\ Len(AfterDiscard(n)) = Len(streams) - n
      /\ \A i \in 1..Len(streams)-n : AfterDiscard(n)[i] = streams[n+i]
  <2>1. \A i \in n+1..Len(streams) : streams[i] \in Conns
    BY ElementOfSeq
  <2>2. /\ SubSeq(streams, n+1, Len(streams)) \in Seq(Conns)
        /\ Len(SubSeq(streams, n+1, Len(streams)))
             = IF n+1 <= Len(streams) THEN Len(streams) - (n+1) + 1 ELSE 0
        /\ \A i \in 1..Len(streams) - (n+1) + 1 :
             SubSeq(streams, n+1, Len(streams))[i] = streams[(n+1)+i-1]
    BY <2>1, SubSeqProperties
  <2> QED BY <2>2 DEF AfterDiscard
<1>2. ASSUME n < Len(streams)
      PROVE  /\ Tail(AfterDiscard(n)) \in Seq(Conns)
             /\ Len(Tail(AfterDiscard(n))) = Len(streams) - n - 1
             /\ \A i \in 1..Len(streams)-n-1 :
                  Tail(AfterDiscard(n))[i] = streams[n+1+i]
  <2>1. AfterDiscard(n) # <<>>
    BY <1>1, <1>2, EmptySeq
  <2>2. /\ Tail(AfterDiscard(n)) \in Seq(Conns)
        /\ Len(Tail(AfterDiscard(n))) = Len(AfterDiscard(n)) - 1
        /\ \A i \in 1..Len(Tail(AfterDiscard(n))) :
             Tail(AfterDiscard(n))[i] = AfterDiscard(n)[i+1]
    BY <1>1, <2>1, HeadTailProperties
  <2> QED BY <1>1, <1>2, <2>2
<1> QED BY <1>1, <1>2

-----------------------------------------------------------------------------
(* Type correctness. *)

LEMMA QueueTypeInit == QueueInit => QueueTypeOK
<1> USE QueueAssumption DEF QueueAssumption
<1> SUFFICES ASSUME QueueInit PROVE QueueTypeOK
  OBVIOUS
<1>1. streams \in Seq(Conns)
  BY EmptySeq DEF QueueInit
<1>2. left \in [Conns -> 0..RequestTimeout]
  BY DEF QueueInit
<1>3. /\ popper \in [Workers -> PopperStates]
      /\ item \in [Workers -> Conns \cup {NoConn}]
      /\ \A w \in Workers : popper[w] = "busy" <=> item[w] # NoConn
  BY DEF QueueInit, PopperStates
<1>4. /\ closed \in BOOLEAN
      /\ shutdown \in BOOLEAN
  BY DEF QueueInit
<1>5. /\ pusher \in PusherStates
      /\ work \in Conns \cup {NoConn}
      /\ Pushing => work \in Conns
  BY DEF QueueInit, PusherStates, Pushing
<1> QED BY <1>1, <1>2, <1>3, <1>4, <1>5 DEF QueueTypeOK

LEMMA QueueTypeStep ==
  QueueTypeOK /\ [QueueNext]_queueVars => QueueTypeOK'
<1> USE QueueAssumption DEF QueueAssumption
<1> SUFFICES ASSUME QueueTypeOK, [QueueNext]_queueVars PROVE QueueTypeOK'
  OBVIOUS
<1> USE DEF QueueTypeOK, PusherStates, PopperStates, Pushing
<1>1. ASSUME NEW c \in Conns, CallPush(c) PROVE QueueTypeOK'
  BY <1>1 DEF CallPush
<1>2. CASE PushScan
  BY <1>2, DiscardProperties DEF PushScan
<1>3. CASE PushRefuses
  BY <1>3 DEF PushRefuses
<1>4. CASE PushDropsExpired
  BY <1>4 DEF PushDropsExpired
<1>5. CASE PushEnqueues
  BY <1>5, AppendProperties DEF PushEnqueues, NotifyWorker, Enqueued
<1>6. CASE PushWaitEnds
  BY <1>6 DEF PushWaitEnds
<1>7. CASE Close
  BY <1>7, EmptySeq DEF Close, AfterClose, NotifyAllWorkers
<1>8. ASSUME NEW w \in Workers, PopStep(w) PROVE QueueTypeOK'
  <2>1. CASE PopTakes(w)
    <3>1. PICK n \in 0..Len(streams)-1 :
            /\ streams' = AfterTake(n)
            /\ item' = [item EXCEPT ![w] = streams[n+1]]
      BY <2>1 DEF PopTakes
    <3>2. streams[n+1] \in Conns
      BY ElementOfSeq
    <3>3. streams' \in Seq(Conns)
      BY <3>1, DiscardProperties DEF AfterTake
    <3>4. /\ popper' = [popper EXCEPT ![w] = "busy"]
          /\ pusher' = WakePusher
          /\ UNCHANGED <<closed, left, shutdown, work>>
      BY <2>1 DEF PopTakes
    <3>5. /\ popper' \in [Workers -> PopperStates]
          /\ item' \in [Workers -> Conns \cup {NoConn}]
          /\ \A v \in Workers : popper'[v] = "busy" <=> item'[v] # NoConn
      BY <3>1, <3>2, <3>4
    <3>6. /\ pusher' \in PusherStates
          /\ Pushing' => work' \in Conns
      BY <3>4 DEF WakePusher
    <3> QED BY <3>3, <3>4, <3>5, <3>6
  <2>6. CASE PopFindsNone(w)
    <3>1. /\ popper[w] = "lock"
          /\ streams' = <<>>
          /\ popper' = [popper EXCEPT ![w] = IF closed THEN "none" ELSE "wait"]
          /\ pusher' \in {pusher, WakePusher}
          /\ UNCHANGED <<closed, left, shutdown, work, item>>
      BY <2>6 DEF PopFindsNone
    <3>2. /\ popper' \in [Workers -> PopperStates]
          /\ \A v \in Workers : popper'[v] = "busy" <=> item'[v] # NoConn
      BY <3>1
    <3>3. /\ pusher' \in PusherStates
          /\ Pushing' => work' \in Conns
      BY <3>1 DEF WakePusher
    <3> QED BY <3>1, <3>2, <3>3, EmptySeq
  <2>2. CASE PopPanics(w)
    BY <2>2, DiscardProperties DEF PopPanics
  <2>3. CASE PopWakesSpuriously(w)
    BY <2>3 DEF PopWakesSpuriously
  <2>4. CASE CallPop(w)
    BY <2>4 DEF CallPop, Release, AfterRelease
  <2>5. CASE WorkerPanics(w)
    BY <2>5 DEF WorkerPanics, Release, AfterRelease
  <2> QED BY <1>8, <2>1, <2>2, <2>3, <2>4, <2>5, <2>6 DEF PopStep
<1>9. CASE RaiseShutdown
  BY <1>9 DEF RaiseShutdown
<1>10. CASE Elapse
  BY <1>10 DEF Elapse, ElapseLeft
<1>11. CASE UNCHANGED queueVars
  BY <1>11 DEF queueVars
<1> QED
  BY <1>1, <1>2, <1>3, <1>4, <1>5, <1>6, <1>7, <1>8, <1>9, <1>10, <1>11
  DEF QueueNext, PushStep

\* Every variable keeps its type, push always has a connection, and a worker
\* holds a connection exactly between pop and the release of the connection.
THEOREM QueueTypeCorrect == QueueSpec => []QueueTypeOK
BY QueueTypeInit, QueueTypeStep, PTL DEF QueueSpec

-----------------------------------------------------------------------------
(* The bound of the queue. *)

\* t is what is left of s once its first n items are gone.
Suffix(s, t, n) ==
  /\ n \in 0..Len(s)
  /\ Len(t) = Len(s) - n
  /\ \A i \in 1..Len(t) : t[i] = s[n+i]

\* Every step but push_back and close leaves a suffix of the queue; a pop
\* that takes a connection removes at least that one.
LEMMA SuffixLeft ==
  ASSUME QueueTypeOK
  PROVE  /\ PushScan => \E n \in Nat : Suffix(streams, streams', n) /\ ExpiredPrefix(n)
         /\ \A w \in Workers :
              /\ PopTakes(w) =>
                   \E n \in 1..Len(streams) :
                     /\ Suffix(streams, streams', n)
                     /\ ExpiredPrefix(n-1)
                     /\ item' = [item EXCEPT ![w] = streams[n]]
              /\ PopPanics(w) =>
                   \E n \in 1..Len(streams) :
                     Suffix(streams, streams', n) /\ ExpiredPrefix(n)
              /\ PopFindsNone(w) => Suffix(streams, streams', Len(streams))
<1> USE DEF QueueTypeOK
<1>1. ASSUME PushScan
      PROVE  \E n \in Nat : Suffix(streams, streams', n) /\ ExpiredPrefix(n)
  <2>1. PICK n \in 0..Len(streams) : ExpiredPrefix(n) /\ streams' = AfterDiscard(n)
    BY <1>1 DEF PushScan
  <2>2. Suffix(streams, streams', n)
    BY <2>1, DiscardProperties DEF Suffix
  <2> QED BY <2>1, <2>2
<1>2. ASSUME NEW w \in Workers, PopTakes(w)
      PROVE  \E n \in 1..Len(streams) :
               /\ Suffix(streams, streams', n)
               /\ ExpiredPrefix(n-1)
               /\ item' = [item EXCEPT ![w] = streams[n]]
  <2>1. PICK n \in 0..Len(streams)-1 :
          /\ ExpiredPrefix(n)
          /\ streams' = AfterTake(n)
          /\ item' = [item EXCEPT ![w] = streams[n+1]]
    BY <1>2 DEF PopTakes
  <2>2. Suffix(streams, streams', n+1)
    <3>1. n \in 0..Len(streams) /\ n < Len(streams) /\ Len(streams) \in Nat
      OBVIOUS
    <3>2. /\ Len(streams') = Len(streams) - n - 1
          /\ \A i \in 1..Len(streams)-n-1 : streams'[i] = streams[n+1+i]
      BY <2>1, <3>1, DiscardProperties DEF AfterTake
    <3> QED BY <3>1, <3>2 DEF Suffix
  <2>3. n+1 \in 1..Len(streams) /\ (n+1)-1 = n
    OBVIOUS
  <2> QED BY <2>1, <2>2, <2>3
<1>3. ASSUME NEW w \in Workers, PopPanics(w)
      PROVE  \E n \in 1..Len(streams) :
               Suffix(streams, streams', n) /\ ExpiredPrefix(n)
  <2>1. PICK n \in 1..Len(streams) : ExpiredPrefix(n) /\ streams' = AfterDiscard(n)
    BY <1>3 DEF PopPanics
  <2>2. /\ n \in 0..Len(streams)
        /\ Len(streams') = Len(streams) - n
        /\ \A i \in 1..Len(streams)-n : streams'[i] = streams[n+i]
    <3>1. n \in 0..Len(streams)
      OBVIOUS
    <3> QED BY <2>1, <3>1, DiscardProperties
  <2>3. Suffix(streams, streams', n)
    BY <2>2 DEF Suffix
  <2> QED BY <2>1, <2>3
<1>4. ASSUME NEW w \in Workers, PopFindsNone(w)
      PROVE  Suffix(streams, streams', Len(streams))
  BY <1>4, EmptySeq DEF PopFindsNone, Suffix
<1> QED BY <1>1, <1>2, <1>3, <1>4

\* What push has found under the mutex still holds when it appends: the queue
\* has room, unless push returns false.
RoomToAdmit ==
  pusher = "admit" => HasRoom(streams) \/ closed \/ shutdown

BoundInv == QueueTypeOK /\ QueueBounded /\ RoomToAdmit /\ ClosedStaysEmpty

LEMMA BoundStep == BoundInv /\ [QueueNext]_queueVars => BoundInv'
<1> USE QueueAssumption DEF QueueAssumption
<1> SUFFICES ASSUME BoundInv, [QueueNext]_queueVars PROVE BoundInv'
  OBVIOUS
<1> USE DEF BoundInv, QueueBounded, RoomToAdmit, ClosedStaysEmpty, HasRoom
<1>1. QueueTypeOK /\ QueueTypeOK'
  BY QueueTypeStep
<1>2. streams \in Seq(Conns) /\ streams' \in Seq(Conns) /\ Len(streams) \in Nat
  BY <1>1 DEF QueueTypeOK
<1>3. (streams = <<>> <=> Len(streams) = 0) /\ (streams' = <<>> <=> Len(streams') = 0)
  BY <1>2, EmptySeq
<1>4. ASSUME NEW c \in Conns, CallPush(c) PROVE BoundInv'
  BY <1>1, <1>4 DEF CallPush
<1>5. CASE PushScan
  <2>1. PICK n \in Nat : Suffix(streams, streams', n)
    BY <1>1, <1>5, SuffixLeft
  <2>2. /\ pusher' = IF Len(streams') < Capacity \/ closed \/ shutdown
                     THEN "admit" ELSE "wait"
        /\ closed' = closed /\ shutdown' = shutdown
    BY <1>5 DEF PushScan
  <2> QED BY <1>1, <1>2, <1>3, <2>1, <2>2 DEF Suffix
<1>6. CASE PushRefuses
  BY <1>1, <1>6 DEF PushRefuses
<1>7. CASE PushDropsExpired
  BY <1>1, <1>7 DEF PushDropsExpired
<1>8. CASE PushEnqueues
  <2>1. /\ pusher = "admit" /\ ~closed /\ ~shutdown
        /\ pusher' = "idle"
        /\ closed' = closed
        /\ streams' = Append(streams, work)
    BY <1>8 DEF PushEnqueues, Enqueued
  <2>2. work \in Conns
    BY <1>1, <2>1 DEF QueueTypeOK, Pushing
  <2>3. Len(streams') = Len(streams) + 1
    BY <1>2, <2>1, <2>2, AppendProperties
  <2> QED BY <1>1, <1>2, <2>1, <2>3
<1>9. CASE PushWaitEnds
  BY <1>1, <1>9 DEF PushWaitEnds
<1>10. CASE Close
  <2>1. closed' = TRUE /\ streams' = <<>> /\ pusher' = pusher
    BY <1>10 DEF Close, AfterClose
  <2> QED BY <1>1, <1>3, <2>1
<1>11. ASSUME NEW w \in Workers, PopStep(w) PROVE BoundInv'
  <2>1. CASE PopTakes(w)
    <3>1. PICK n \in 1..Len(streams) : Suffix(streams, streams', n)
      BY <1>1, <2>1, SuffixLeft
    <3>2. /\ pusher # "admit"
          /\ pusher' \in {pusher, "lock"}
          /\ closed' = closed
      BY <2>1 DEF PopTakes, MutexFree, WakePusher
    <3> QED BY <1>1, <1>2, <1>3, <3>1, <3>2 DEF Suffix
  <2>2. CASE PopFindsNone(w)
    <3>1. /\ pusher # "admit"
          /\ pusher' \in {pusher, "lock"}
          /\ streams' = <<>>
      BY <2>2 DEF PopFindsNone, MutexFree, WakePusher
    <3> QED BY <1>1, <1>3, <3>1
  <2>3. CASE PopPanics(w)
    <3>1. PICK n \in 1..Len(streams) : Suffix(streams, streams', n)
      BY <1>1, <2>3, SuffixLeft
    <3>2. pusher # "admit" /\ pusher' = pusher /\ closed' = closed
      BY <2>3 DEF PopPanics, MutexFree
    <3> QED BY <1>1, <1>2, <1>3, <3>1, <3>2 DEF Suffix
  <2>4. CASE PopWakesSpuriously(w)
    BY <1>1, <2>4 DEF PopWakesSpuriously
  <2>5. CASE CallPop(w)
    BY <1>1, <2>5 DEF CallPop, Release
  <2>6. CASE WorkerPanics(w)
    BY <1>1, <2>6 DEF WorkerPanics, Release
  <2> QED BY <1>11, <2>1, <2>2, <2>3, <2>4, <2>5, <2>6 DEF PopStep
<1>12. CASE RaiseShutdown
  BY <1>1, <1>12 DEF RaiseShutdown
<1>13. CASE Elapse
  BY <1>1, <1>13 DEF Elapse
<1>14. CASE UNCHANGED queueVars
  BY <1>1, <1>14 DEF queueVars
<1> QED
  BY <1>4, <1>5, <1>6, <1>7, <1>8, <1>9, <1>10, <1>11, <1>12, <1>13, <1>14
  DEF QueueNext, PushStep

LEMMA BoundInvariant == QueueSpec => []BoundInv
<1>1. QueueInit => BoundInv
  <2> SUFFICES ASSUME QueueInit PROVE BoundInv
    OBVIOUS
  <2>1. QueueTypeOK
    BY QueueTypeInit
  <2>2. /\ streams = <<>> /\ Len(streams) = 0
        /\ pusher = "idle"
    BY EmptySeq DEF QueueInit
  <2> QED
    BY <2>1, <2>2, QueueAssumption
    DEF BoundInv, QueueBounded, RoomToAdmit, ClosedStaysEmpty, QueueAssumption
<1> QED BY <1>1, BoundStep, PTL DEF QueueSpec

\* The queue never holds more than its capacity, although push appends later
\* than it looks at the length.
THEOREM QueueStaysBounded == QueueSpec => []QueueBounded
<1>1. BoundInv => QueueBounded
  BY DEF BoundInv
<1> QED BY <1>1, BoundInvariant, PTL

\* Nothing is ever queued behind close.
THEOREM NothingBehindClose == QueueSpec => []ClosedStaysEmpty
<1>1. BoundInv => ClosedStaysEmpty
  BY DEF BoundInv
<1> QED BY <1>1, BoundInvariant, PTL

-----------------------------------------------------------------------------
(* One owner per connection. *)

\* SingleOwner, said of the queue and of the connection in push separately.
OneOwner ==
  /\ \A i, j \in 1..Len(streams) : streams[i] = streams[j] => i = j
  /\ \A w \in Workers : \A i \in 1..Len(streams) : streams[i] # item[w]
  /\ \A v, w \in Workers : item[v] = item[w] /\ item[v] # NoConn => v = w
  /\ Pushing => /\ \A i \in 1..Len(streams) : streams[i] # work
                /\ \A w \in Workers : item[w] # work

LEMMA LineElements ==
  ASSUME QueueTypeOK
  PROVE  /\ streams \in Seq(Conns) /\ Len(streams) \in Nat
         /\ ~Pushing => Line = streams
         /\ Pushing => /\ Len(Line) = Len(streams) + 1
                       /\ \A i \in 1..Len(streams) : Line[i] = streams[i]
                       /\ Line[Len(streams)+1] = work
<1>1. streams \in Seq(Conns) /\ (Pushing => work \in Conns)
  BY DEF QueueTypeOK
<1> QED BY <1>1, AppendProperties DEF Line

LEMMA OneOwnerIsSingle == QueueTypeOK /\ OneOwner => SingleOwner
<1> SUFFICES ASSUME QueueTypeOK, OneOwner PROVE SingleOwner
  OBVIOUS
<1>1. CASE Pushing
  <2>1. \A i \in 1..Len(Line) : i \in 1..Len(streams) \/ i = Len(streams) + 1
    BY <1>1, LineElements
  <2>2. \A i, j \in 1..Len(Line) : Line[i] = Line[j] => i = j
    BY <1>1, <2>1, LineElements DEF OneOwner
  <2>3. \A w \in Workers : \A i \in 1..Len(Line) : Line[i] # item[w]
    BY <1>1, <2>1, LineElements DEF OneOwner
  <2> QED BY <2>2, <2>3 DEF OneOwner, SingleOwner
<1>2. CASE ~Pushing
  BY <1>2, LineElements DEF OneOwner, SingleOwner
<1> QED BY <1>1, <1>2

OwnerInv == QueueTypeOK /\ OneOwner

\* Dropping items and keeping every other owner keeps OneOwner.
LEMMA FewerItemsOneOwner ==
  ASSUME QueueTypeOK, OneOwner, NEW n \in Nat, Suffix(streams, streams', n),
         item' = item, work' = work, Pushing' => Pushing
  PROVE  OneOwner'
<1>1. Len(streams) \in Nat /\ Len(streams') = Len(streams) - n /\ n <= Len(streams)
  BY LineElements DEF Suffix
<1>2. \A i \in 1..Len(streams') : n+i \in 1..Len(streams) /\ streams'[i] = streams[n+i]
  BY <1>1 DEF Suffix
<1>3. \A i, j \in 1..Len(streams') : streams'[i] = streams'[j] => i = j
  <2> TAKE i, j \in 1..Len(streams')
  <2> HAVE streams'[i] = streams'[j]
  <2>1. n+i = n+j
    BY <1>2 DEF OneOwner
  <2> QED BY <2>1, <1>1
<1>4. \A w \in Workers : \A i \in 1..Len(streams') : streams'[i] # item'[w]
  <2>1. \A w \in Workers : \A i \in 1..Len(streams) : streams[i] # item[w]
    BY DEF OneOwner
  <2> QED BY <1>2, <2>1
<1>5. Pushing' => /\ \A i \in 1..Len(streams') : streams'[i] # work'
                  /\ \A w \in Workers : item'[w] # work'
  BY <1>2 DEF OneOwner
<1>6. \A v, w \in Workers : item'[v] = item'[w] /\ item'[v] # NoConn => v = w
  BY DEF OneOwner
<1> QED BY <1>3, <1>4, <1>5, <1>6 DEF OneOwner

LEMMA OwnerStep == OwnerInv /\ [QueueNext]_queueVars => OwnerInv'
<1> USE QueueAssumption DEF QueueAssumption
<1> SUFFICES ASSUME OwnerInv, [QueueNext]_queueVars PROVE OneOwner'
  BY QueueTypeStep DEF OwnerInv
<1>1. QueueTypeOK /\ QueueTypeOK' /\ OneOwner
  BY QueueTypeStep DEF OwnerInv
<1>2. streams \in Seq(Conns) /\ Len(streams) \in Nat /\ item \in [Workers -> Conns \cup {NoConn}]
  BY <1>1 DEF QueueTypeOK
<1>3. ASSUME UNCHANGED <<streams, item, work>>, Pushing' => Pushing PROVE OneOwner'
  BY <1>1, <1>3 DEF OneOwner
<1>4. ASSUME NEW c \in Conns, CallPush(c) PROVE OneOwner'
  <2>1. /\ Free(c) /\ work' = c /\ streams' = streams /\ item' = item
    BY <1>4 DEF CallPush
  <2>2. /\ \A i \in 1..Len(streams') : streams'[i] # work'
        /\ \A w \in Workers : item'[w] # work'
    BY <2>1 DEF Free
  <2> QED BY <1>1, <2>1, <2>2 DEF OneOwner
<1>5. CASE PushScan
  <2>1. PICK n \in Nat : Suffix(streams, streams', n)
    BY <1>1, <1>5, SuffixLeft
  <2>2. item' = item /\ work' = work /\ Pushing
    BY <1>5 DEF PushScan, Pushing
  <2> QED BY <1>1, <2>1, <2>2, FewerItemsOneOwner
<1>6. CASE PushRefuses
  BY <1>3, <1>6 DEF PushRefuses, Pushing
<1>7. CASE PushDropsExpired
  BY <1>3, <1>7 DEF PushDropsExpired, Pushing
<1>8. CASE PushEnqueues
  <2>1. /\ Pushing /\ ~Pushing'
        /\ streams' = Append(streams, work)
        /\ item' = item /\ work' = work
    BY <1>8 DEF PushEnqueues, Enqueued, Pushing
  <2>2. work \in Conns
    BY <1>1, <2>1 DEF QueueTypeOK
  <2>3. /\ Len(streams') = Len(streams) + 1
        /\ \A i \in 1..Len(streams) : streams'[i] = streams[i]
        /\ streams'[Len(streams)+1] = work
    BY <1>2, <2>1, <2>2, AppendProperties
  <2>4. \A i \in 1..Len(streams') : i \in 1..Len(streams) \/ i = Len(streams) + 1
    BY <1>2, <2>3
  <2>5. \A i, j \in 1..Len(streams') : streams'[i] = streams'[j] => i = j
    BY <1>1, <2>1, <2>3, <2>4 DEF OneOwner
  <2>6. \A w \in Workers : \A i \in 1..Len(streams') : streams'[i] # item'[w]
    BY <1>1, <2>1, <2>3, <2>4 DEF OneOwner
  <2>7. \A v, w \in Workers : item'[v] = item'[w] /\ item'[v] # NoConn => v = w
    BY <1>1, <2>1 DEF OneOwner
  <2> QED BY <2>1, <2>5, <2>6, <2>7 DEF OneOwner
<1>9. CASE PushWaitEnds
  BY <1>3, <1>9 DEF PushWaitEnds, Pushing
<1>10. CASE Close
  <2>1. streams' = <<>> /\ Len(streams') = 0 /\ item' = item /\ ~Pushing'
    BY <1>10, EmptySeq DEF Close, AfterClose, Pushing
  <2> QED BY <1>1, <2>1 DEF OneOwner
<1>11. ASSUME NEW w \in Workers, PopStep(w) PROVE OneOwner'
  <2>1. CASE PopTakes(w)
    <3>1. PICK n \in 1..Len(streams) :
            /\ Suffix(streams, streams', n)
            /\ item' = [item EXCEPT ![w] = streams[n]]
      BY <1>1, <2>1, SuffixLeft
    <3>2. work' = work /\ (Pushing' => Pushing)
      BY <2>1 DEF PopTakes, WakePusher, Pushing
    <3>3. Len(streams') = Len(streams) - n
      BY <3>1 DEF Suffix
    <3>4. \A i \in 1..Len(streams') : /\ n+i \in 1..Len(streams) /\ n+i # n
                                      /\ streams'[i] = streams[n+i]
      BY <1>2, <3>1, <3>3 DEF Suffix
    <3>5. \A v \in Workers : item'[v] = IF v = w THEN streams[n] ELSE item[v]
      BY <1>2, <3>1
    <3>6. \A i, j \in 1..Len(streams') : streams'[i] = streams'[j] => i = j
      <4> TAKE i, j \in 1..Len(streams')
      <4> HAVE streams'[i] = streams'[j]
      <4>1. n+i = n+j
        BY <1>1, <3>4 DEF OneOwner
      <4> QED BY <4>1, <1>2, <3>3
    <3>7. \A v \in Workers : \A i \in 1..Len(streams') : streams'[i] # item'[v]
      BY <1>1, <3>4, <3>5 DEF OneOwner
    <3>8. \A u, v \in Workers : item'[u] = item'[v] /\ item'[u] # NoConn => u = v
      BY <1>1, <3>5 DEF OneOwner
    <3>9. Pushing' => /\ \A i \in 1..Len(streams') : streams'[i] # work'
                      /\ \A v \in Workers : item'[v] # work'
      BY <1>1, <3>2, <3>4, <3>5 DEF OneOwner
    <3> QED BY <3>6, <3>7, <3>8, <3>9 DEF OneOwner
  <2>2. CASE PopFindsNone(w)
    <3>1. /\ streams' = <<>> /\ Len(streams') = 0
          /\ item' = item /\ work' = work /\ (Pushing' => Pushing)
      BY <2>2, EmptySeq DEF PopFindsNone, WakePusher, Pushing
    <3> QED BY <1>1, <3>1 DEF OneOwner
  <2>3. CASE PopPanics(w)
    <3>1. PICK n \in 1..Len(streams) : Suffix(streams, streams', n)
      BY <1>1, <2>3, SuffixLeft
    <3>2. item' = item /\ work' = work /\ (Pushing' => Pushing)
      BY <2>3 DEF PopPanics, Pushing
    <3> QED BY <1>1, <3>1, <3>2, FewerItemsOneOwner
  <2>4. CASE PopWakesSpuriously(w)
    BY <1>3, <2>4 DEF PopWakesSpuriously, Pushing
  <2>5. ASSUME NEW next, Release(w, next) PROVE OneOwner'
    <3>1. /\ streams' = streams /\ work' = work /\ (Pushing' => Pushing)
          /\ item' = [item EXCEPT ![w] = NoConn]
      BY <2>5 DEF Release, AfterRelease, Pushing
    <3>2. \A v \in Workers : item'[v] = IF v = w THEN NoConn ELSE item[v]
      BY <1>2, <3>1
    <3>3. \A i \in 1..Len(streams) : streams[i] # NoConn
      BY <1>2, ElementOfSeq
    <3>4. Pushing => work # NoConn
      BY <1>1 DEF QueueTypeOK
    <3> QED BY <1>1, <3>1, <3>2, <3>3, <3>4 DEF OneOwner
  <2> QED
    BY <1>11, <2>1, <2>2, <2>3, <2>4, <2>5 DEF PopStep, CallPop, WorkerPanics
<1>12. CASE RaiseShutdown
  BY <1>3, <1>12 DEF RaiseShutdown, Pushing
<1>13. CASE Elapse
  BY <1>3, <1>13 DEF Elapse, Pushing
<1>14. CASE UNCHANGED queueVars
  BY <1>3, <1>14 DEF queueVars, Pushing
<1> QED
  BY <1>4, <1>5, <1>6, <1>7, <1>8, <1>9, <1>10, <1>11, <1>12, <1>13, <1>14
  DEF QueueNext, PushStep

LEMMA OwnerInit == QueueInit => OwnerInv
<1> SUFFICES ASSUME QueueInit PROVE OwnerInv
  OBVIOUS
<1>1. /\ Len(streams) = 0 /\ ~Pushing
      /\ \A w \in Workers : item[w] = NoConn
  BY EmptySeq DEF QueueInit, Pushing
<1> QED BY <1>1, QueueTypeInit DEF OwnerInv, OneOwner

\* A connection is queued once, or in push, or with exactly one worker.
THEOREM OneOwnerEach == QueueSpec => []SingleOwner
<1>1. OwnerInv => SingleOwner
  BY OneOwnerIsSingle DEF OwnerInv
<1> QED BY <1>1, OwnerInit, OwnerStep, PTL DEF QueueSpec

-----------------------------------------------------------------------------
(* Deadlines in order. *)

\* DeadlinesOrdered, said of the queue and of the connection in push separately.
QueueOrdered ==
  /\ \A i, j \in 1..Len(streams) : i < j => left[streams[i]] <= left[streams[j]]
  /\ Pushing => \A i \in 1..Len(streams) : left[streams[i]] <= left[work]

LEMMA OrderedLine == QueueTypeOK /\ QueueOrdered => DeadlinesOrdered
<1> SUFFICES ASSUME QueueTypeOK, QueueOrdered,
                    NEW i \in 1..Len(Line), NEW j \in 1..Len(Line), i < j
             PROVE  left[Line[i]] <= left[Line[j]]
  BY DEF DeadlinesOrdered
<1>1. CASE Pushing
  <2>1. /\ i \in 1..Len(streams)
        /\ j \in 1..Len(streams) \/ j = Len(streams) + 1
    BY <1>1, LineElements
  <2> QED BY <1>1, <2>1, LineElements DEF QueueOrdered
<1>2. CASE ~Pushing
  BY <1>2, LineElements DEF QueueOrdered
<1> QED BY <1>1, <1>2

OrderInv == QueueTypeOK /\ QueueOrdered

\* Dropping items keeps the order, as long as time stands still.
LEMMA FewerItemsOrdered ==
  ASSUME QueueTypeOK, QueueOrdered, NEW n \in Nat, Suffix(streams, streams', n),
         left' = left, work' = work, Pushing' => Pushing
  PROVE  QueueOrdered'
<1>1. Len(streams) \in Nat /\ Len(streams') = Len(streams) - n /\ n <= Len(streams)
  BY LineElements DEF Suffix
<1>2. \A i \in 1..Len(streams') : n+i \in 1..Len(streams) /\ streams'[i] = streams[n+i]
  BY <1>1 DEF Suffix
<1>3. \A i, j \in 1..Len(streams') : i < j => left'[streams'[i]] <= left'[streams'[j]]
  <2> TAKE i, j \in 1..Len(streams')
  <2> HAVE i < j
  <2>1. n+i < n+j
    BY <1>1
  <2> QED BY <1>2, <2>1 DEF QueueOrdered
<1>4. Pushing' => \A i \in 1..Len(streams') : left'[streams'[i]] <= left'[work']
  BY <1>2 DEF QueueOrdered
<1> QED BY <1>3, <1>4 DEF QueueOrdered

LEMMA OrderStep == OrderInv /\ [QueueNext]_queueVars => OrderInv'
<1> USE QueueAssumption DEF QueueAssumption
<1> SUFFICES ASSUME OrderInv, [QueueNext]_queueVars PROVE QueueOrdered'
  BY QueueTypeStep DEF OrderInv
<1>1. QueueTypeOK /\ QueueTypeOK' /\ QueueOrdered
  BY QueueTypeStep DEF OrderInv
<1>2. /\ streams \in Seq(Conns) /\ Len(streams) \in Nat
      /\ left \in [Conns -> 0..RequestTimeout]
      /\ \A i \in 1..Len(streams) : streams[i] \in Conns
      /\ Pushing => work \in Conns
  BY <1>1, ElementOfSeq DEF QueueTypeOK
<1>3. ASSUME UNCHANGED <<streams, left, work>>, Pushing' => Pushing PROVE QueueOrdered'
  BY <1>1, <1>3 DEF QueueOrdered
<1>4. ASSUME NEW c \in Conns, CallPush(c) PROVE QueueOrdered'
  <2>1. /\ Free(c) /\ work' = c /\ streams' = streams
        /\ left' = [left EXCEPT ![c] = RequestTimeout]
    BY <1>4 DEF CallPush
  <2>2. \A i \in 1..Len(streams) : streams[i] # c
    BY <2>1 DEF Free
  <2>3. /\ left'[c] = RequestTimeout
        /\ \A i \in 1..Len(streams) : left'[streams[i]] = left[streams[i]]
    BY <1>2, <2>1, <2>2
  <2>4. \A i \in 1..Len(streams) : left[streams[i]] <= RequestTimeout
    BY <1>2
  <2> QED BY <1>1, <2>1, <2>3, <2>4 DEF QueueOrdered
<1>5. CASE PushScan
  <2>1. PICK n \in Nat : Suffix(streams, streams', n)
    BY <1>1, <1>5, SuffixLeft
  <2>2. left' = left /\ work' = work /\ Pushing
    BY <1>5 DEF PushScan, Pushing
  <2> QED BY <1>1, <2>1, <2>2, FewerItemsOrdered
<1>6. CASE PushRefuses
  BY <1>3, <1>6 DEF PushRefuses, Pushing
<1>7. CASE PushDropsExpired
  BY <1>3, <1>7 DEF PushDropsExpired, Pushing
<1>8. CASE PushEnqueues
  <2>1. /\ Pushing /\ ~Pushing'
        /\ streams' = Append(streams, work)
        /\ left' = left
    BY <1>8 DEF PushEnqueues, Enqueued, Pushing
  <2>2. /\ Len(streams') = Len(streams) + 1
        /\ \A i \in 1..Len(streams) : streams'[i] = streams[i]
        /\ streams'[Len(streams)+1] = work
    BY <1>2, <2>1, AppendProperties
  <2>3. \A i, j \in 1..Len(streams') :
          i < j => /\ i \in 1..Len(streams)
                   /\ j \in 1..Len(streams) \/ j = Len(streams) + 1
    <3>1. Len(streams) \in Nat /\ Len(streams') = Len(streams) + 1
      BY <1>2, <2>2
    <3> QED BY <3>1
  <2> QED BY <1>1, <2>1, <2>2, <2>3 DEF QueueOrdered
<1>9. CASE PushWaitEnds
  BY <1>3, <1>9 DEF PushWaitEnds, Pushing
<1>10. CASE Close
  <2>1. streams' = <<>> /\ Len(streams') = 0
    BY <1>10, EmptySeq DEF Close, AfterClose
  <2> QED BY <2>1 DEF QueueOrdered
<1>11. ASSUME NEW w \in Workers, PopStep(w) PROVE QueueOrdered'
  <2>1. CASE PopTakes(w)
    <3>1. PICK n \in 1..Len(streams) : Suffix(streams, streams', n)
      BY <1>1, <2>1, SuffixLeft
    <3>2. left' = left /\ work' = work /\ (Pushing' => Pushing)
      BY <2>1 DEF PopTakes, WakePusher, Pushing
    <3> QED BY <1>1, <3>1, <3>2, FewerItemsOrdered
  <2>2. CASE PopFindsNone(w)
    <3>1. streams' = <<>> /\ Len(streams') = 0
      BY <2>2, EmptySeq DEF PopFindsNone
    <3> QED BY <3>1 DEF QueueOrdered
  <2>3. CASE PopPanics(w)
    <3>1. PICK n \in 1..Len(streams) : Suffix(streams, streams', n)
      BY <1>1, <2>3, SuffixLeft
    <3>2. left' = left /\ work' = work /\ (Pushing' => Pushing)
      BY <2>3 DEF PopPanics, Pushing
    <3> QED BY <1>1, <3>1, <3>2, FewerItemsOrdered
  <2>4. CASE PopWakesSpuriously(w)
    BY <1>3, <2>4 DEF PopWakesSpuriously, Pushing
  <2>5. ASSUME NEW next, Release(w, next) PROVE QueueOrdered'
    BY <1>3, <2>5 DEF Release, Pushing
  <2> QED
    BY <1>11, <2>1, <2>2, <2>3, <2>4, <2>5 DEF PopStep, CallPop, WorkerPanics
<1>12. CASE RaiseShutdown
  BY <1>3, <1>12 DEF RaiseShutdown, Pushing
<1>13. CASE Elapse
  <2>1. /\ streams' = streams /\ work' = work /\ (Pushing' => Pushing)
        /\ \A c \in Conns : left'[c] = IF left[c] = 0 THEN 0 ELSE left[c] - 1
    BY <1>13 DEF Elapse, ElapseLeft, Pushing
  <2>2. \A c, d \in Conns : left[c] <= left[d] => left'[c] <= left'[d]
    BY <1>2, <2>1
  <2> QED BY <1>1, <1>2, <2>1, <2>2 DEF QueueOrdered
<1>14. CASE UNCHANGED queueVars
  BY <1>3, <1>14 DEF queueVars, Pushing
<1> QED
  BY <1>4, <1>5, <1>6, <1>7, <1>8, <1>9, <1>10, <1>11, <1>12, <1>13, <1>14
  DEF QueueNext, PushStep

LEMMA OrderInvariant == QueueSpec => []OrderInv
<1>1. QueueInit => OrderInv
  <2> SUFFICES ASSUME QueueInit PROVE OrderInv
    OBVIOUS
  <2>1. Len(streams) = 0 /\ ~Pushing
    BY EmptySeq DEF QueueInit, Pushing
  <2> QED BY <2>1, QueueTypeInit DEF OrderInv, QueueOrdered
<1> QED BY <1>1, OrderStep, PTL DEF QueueSpec

\* The comment of discard_expired is right: deadlines increase along the queue.
THEOREM DeadlinesStayOrdered == QueueSpec => []DeadlinesOrdered
<1>1. OrderInv => DeadlinesOrdered
  BY OrderedLine DEF OrderInv
<1> QED BY <1>1, OrderInvariant, PTL

\* If the first item that is left is alive, all are.
LEMMA AliveSuffix ==
  ASSUME QueueTypeOK, QueueOrdered,
         NEW m \in 0..Len(streams), ExpiredPrefix(m),
         NEW n \in m..Len(streams), Suffix(streams, streams', n)
  PROVE  \A i \in 1..Len(streams') : ~Expired(streams'[i])
<1> USE QueueAssumption DEF QueueAssumption
<1> TAKE i \in 1..Len(streams')
<1>1. /\ Len(streams) \in Nat
      /\ n+i \in 1..Len(streams) /\ m+1 \in 1..Len(streams) /\ m+1 <= n+i
      /\ streams'[i] = streams[n+i]
  BY LineElements DEF Suffix
<1>2. left[streams[m+1]] # 0
  BY <1>1 DEF ExpiredPrefix, Expired
<1>3. streams[m+1] \in Conns /\ streams[n+i] \in Conns
  BY <1>1, LineElements, ElementOfSeq
<1>4. left[streams[m+1]] \in Nat /\ left[streams[n+i]] \in Nat
  BY <1>3 DEF QueueTypeOK
<1>5. left[streams[m+1]] <= left[streams[n+i]]
  BY <1>1, <1>4 DEF QueueOrdered
<1> QED BY <1>1, <1>2, <1>4, <1>5 DEF Expired

\* A pop that leaves its loop leaves no expired connection anywhere behind:
\* discard_expired may stop at the first item that is alive.
THEOREM PopDiscardsAll == QueueSpec => PopLeavesNoneExpired
<1> DEFINE Clean ==
      \A w \in Workers :
        popper[w] = "lock" /\ popper'[w] # "lock"
          => \A i \in 1..Len(streams') : ~Expired(streams'[i])
<1>1. OrderInv /\ [QueueNext]_queueVars => [Clean]_queueVars
  <2> SUFFICES ASSUME OrderInv, QueueNext,
                      NEW w \in Workers, popper[w] = "lock", popper'[w] # "lock"
               PROVE  \A i \in 1..Len(streams') : ~Expired(streams'[i])
    OBVIOUS
  <2> USE QueueAssumption DEF QueueAssumption
  <2>1. QueueTypeOK /\ QueueOrdered /\ popper \in [Workers -> PopperStates]
    BY DEF OrderInv, QueueTypeOK
  <2>2. PICK v \in Workers : PopStep(v) /\ popper[v] = "lock"
    <3>1. ASSUME popper' = popper PROVE FALSE
      BY <3>1
    <3>2. ASSUME PushEnqueues PROVE FALSE
      BY <2>1, <3>1, <3>2 DEF PushEnqueues, NotifyWorker
    <3>3. ASSUME Close PROVE FALSE
      BY <3>3 DEF Close, NotifyAllWorkers
    <3>4. \E v \in Workers : PopStep(v)
      BY <3>1, <3>2, <3>3
      DEF QueueNext, PushStep, CallPush, PushScan, PushRefuses, PushDropsExpired,
          PushWaitEnds, RaiseShutdown, Elapse
    <3>5. PICK v \in Workers : PopStep(v)
      BY <3>4
    <3>6. v = w
      BY <2>1, <3>5
      DEF PopStep, PopTakes, PopFindsNone, PopPanics, PopWakesSpuriously,
          CallPop, WorkerPanics, Release
    <3> QED BY <3>5, <3>6
  <2>3. CASE PopTakes(v)
    <3>1. PICK n \in 1..Len(streams) : Suffix(streams, streams', n) /\ ExpiredPrefix(n-1)
      BY <2>1, <2>3, SuffixLeft
    <3>2. n-1 \in 0..Len(streams) /\ n \in n-1..Len(streams)
      BY <2>1, LineElements
    <3> QED BY <2>1, <3>1, <3>2, AliveSuffix
  <2>4. CASE PopFindsNone(v)
    BY <2>4, EmptySeq DEF PopFindsNone
  <2>5. CASE PopPanics(v)
    <3>1. PICK n \in 1..Len(streams) : Suffix(streams, streams', n) /\ ExpiredPrefix(n)
      BY <2>1, <2>5, SuffixLeft
    <3>2. n \in 0..Len(streams) /\ n \in n..Len(streams)
      BY <2>1, LineElements
    <3> QED BY <2>1, <3>1, <3>2, AliveSuffix
  <2> QED
    BY <2>2, <2>3, <2>4, <2>5
    DEF PopStep, PopWakesSpuriously, CallPop, WorkerPanics, Release
<1> QED BY <1>1, OrderInvariant, PTL DEF QueueSpec, PopLeavesNoneExpired

-----------------------------------------------------------------------------
(* No lost wakeup. *)

WakeInv == QueueTypeOK /\ NoLostWakeup

LEMMA AwakeFinite == IsFiniteSet(Awake) /\ Cardinality(Awake) \in Nat
<1>1. IsFiniteSet(Workers) /\ Awake \subseteq Workers
  BY QueueAssumption DEF QueueAssumption, Awake
<1> QED BY <1>1, FS_Subset, FS_CardinalityType

\* Counting the awake workers over a step of worker w.
LEMMA AwakeCount ==
  ASSUME NEW w \in Workers
  PROVE  /\ Awake' = Awake \cup {w} /\ w \notin Awake
              => Cardinality(Awake') = Cardinality(Awake) + 1
         /\ Awake' = Awake \ {w} /\ w \in Awake
              => Cardinality(Awake') = Cardinality(Awake) - 1
         /\ Awake' = Awake => Cardinality(Awake') = Cardinality(Awake)
<1>1. IsFiniteSet(Awake)
  BY AwakeFinite
<1> QED BY <1>1, FS_AddElement, FS_RemoveElement

LEMMA WakeStep == WakeInv /\ [QueueNext]_queueVars => WakeInv'
<1> SUFFICES ASSUME WakeInv, [QueueNext]_queueVars PROVE NoLostWakeup'
  BY QueueTypeStep DEF WakeInv
<1>1. QueueTypeOK /\ QueueTypeOK' /\ NoLostWakeup
  BY QueueTypeStep DEF WakeInv
<1>2. /\ streams \in Seq(Conns) /\ Len(streams) \in Nat /\ Len(streams') \in Nat
      /\ popper \in [Workers -> PopperStates]
  BY <1>1 DEF QueueTypeOK
<1>3. Cardinality(Awake) \in Nat /\ Cardinality(Awake') \in Nat
  <2>1. IsFiniteSet(Workers) /\ Awake' \subseteq Workers
    BY QueueAssumption DEF QueueAssumption, Awake
  <2> QED BY <2>1, AwakeFinite, FS_Subset, FS_CardinalityType
<1>4. ASSUME popper' = popper, Len(streams') <= Len(streams) PROVE NoLostWakeup'
  <2>1. Blocked' = Blocked /\ Awake' = Awake
    BY <1>4 DEF Blocked, Awake
  <2> QED BY <1>1, <1>2, <1>3, <1>4, <2>1 DEF NoLostWakeup
<1>5. ASSUME Len(streams') = 0 PROVE NoLostWakeup'
  BY <1>3, <1>5 DEF NoLostWakeup
<1>6. ASSUME NEW c \in Conns, CallPush(c) PROVE NoLostWakeup'
  BY <1>2, <1>4, <1>6 DEF CallPush
<1>7. CASE PushScan
  <2>1. PICK n \in Nat : Suffix(streams, streams', n)
    BY <1>1, <1>7, SuffixLeft
  <2>2. Len(streams') <= Len(streams)
    BY <1>2, <2>1 DEF Suffix
  <2> QED BY <1>4, <1>7, <2>2 DEF PushScan
<1>8. CASE PushEnqueues
  <2>1. work \in Conns
    BY <1>1, <1>8 DEF QueueTypeOK, PushEnqueues, Pushing
  <2>2. Len(streams') = Len(streams) + 1
    BY <1>2, <1>8, <2>1, AppendProperties DEF PushEnqueues, Enqueued
  <2>3. CASE Blocked = {}
    <3>1. popper' = popper
      BY <1>8, <2>3 DEF PushEnqueues, NotifyWorker, Blocked
    <3>2. Blocked' = {}
      BY <2>3, <3>1 DEF Blocked
    <3> QED BY <3>2 DEF NoLostWakeup
  <2>4. CASE Blocked # {}
    <3>1. PICK w \in Workers : /\ popper[w] = "wait"
                               /\ popper' = [popper EXCEPT ![w] = "lock"]
      BY <1>8, <2>4 DEF PushEnqueues, NotifyWorker, Blocked
    <3>2. w \notin Awake /\ Awake' = Awake \cup {w}
      BY <1>2, <3>1 DEF Awake
    <3>3. Cardinality(Awake') = Cardinality(Awake) + 1
      BY <3>2, AwakeCount
    <3> QED BY <1>1, <1>2, <1>3, <2>2, <2>4, <3>3 DEF NoLostWakeup
  <2> QED BY <2>3, <2>4
<1>9. CASE Close
  BY <1>5, <1>9, EmptySeq DEF Close, AfterClose
<1>10. ASSUME NEW w \in Workers, PopStep(w) PROVE NoLostWakeup'
  <2>1. ASSUME popper[w] = "lock", Len(streams') <= Len(streams) - 1,
               NEW next \in {"busy", "panicked"}, popper' = [popper EXCEPT ![w] = next]
        PROVE  NoLostWakeup'
    <3>1. w \in Awake /\ Awake' = Awake \ {w} /\ Blocked' = Blocked
      BY <1>2, <2>1 DEF Awake, Blocked
    <3>2. Cardinality(Awake') = Cardinality(Awake) - 1
      BY <3>1, AwakeCount
    <3> QED BY <1>1, <1>2, <1>3, <2>1, <3>1, <3>2 DEF NoLostWakeup
  <2>2. CASE PopTakes(w)
    <3>1. PICK n \in 1..Len(streams) : Suffix(streams, streams', n)
      BY <1>1, <2>2, SuffixLeft
    <3>2. Len(streams') <= Len(streams) - 1
      BY <1>2, <3>1 DEF Suffix
    <3> QED BY <2>1, <2>2, <3>2 DEF PopTakes
  <2>3. CASE PopFindsNone(w)
    BY <1>5, <2>3, EmptySeq DEF PopFindsNone
  <2>4. CASE PopPanics(w)
    <3>1. PICK n \in 1..Len(streams) : Suffix(streams, streams', n)
      BY <1>1, <2>4, SuffixLeft
    <3>2. Len(streams') <= Len(streams) - 1
      BY <1>2, <3>1 DEF Suffix
    <3> QED BY <2>1, <2>4, <3>2 DEF PopPanics
  <2>5. ASSUME popper[w] \in {"wait", "busy"}, streams' = streams,
               popper' = [popper EXCEPT ![w] = "lock"]
        PROVE  NoLostWakeup'
    <3>1. w \notin Awake /\ Awake' = Awake \cup {w} /\ Blocked' \subseteq Blocked
      BY <1>2, <2>5 DEF Awake, Blocked
    <3>2. Cardinality(Awake') = Cardinality(Awake) + 1
      BY <3>1, AwakeCount
    <3> QED BY <1>1, <1>2, <1>3, <2>5, <3>1, <3>2 DEF NoLostWakeup
  <2>6. CASE PopWakesSpuriously(w)
    BY <2>5, <2>6 DEF PopWakesSpuriously
  <2>7. CASE CallPop(w)
    BY <2>5, <2>7 DEF CallPop, Release
  <2>8. CASE WorkerPanics(w)
    <3>1. /\ popper[w] = "busy" /\ streams' = streams
          /\ popper' = [popper EXCEPT ![w] = "panicked"]
      BY <2>8 DEF WorkerPanics, Release
    <3>2. Awake' = Awake /\ Blocked' = Blocked
      BY <1>2, <3>1 DEF Awake, Blocked
    <3> QED BY <1>1, <3>1, <3>2 DEF NoLostWakeup
  <2> QED BY <1>10, <2>2, <2>3, <2>4, <2>6, <2>7, <2>8 DEF PopStep
<1>11. ASSUME UNCHANGED <<streams, popper>> PROVE NoLostWakeup'
  BY <1>2, <1>4, <1>11
<1> QED
  BY <1>6, <1>7, <1>8, <1>9, <1>10, <1>11
  DEF QueueNext, PushStep, PushRefuses, PushDropsExpired, PushWaitEnds,
      RaiseShutdown, Elapse, queueVars

\* However many workers there are and whichever of them panic: while one is
\* blocked on not_empty, every queued connection has a worker that is awake.
THEOREM NoWakeupLost == QueueSpec => []NoLostWakeup
<1>1. QueueInit => WakeInv
  <2> SUFFICES ASSUME QueueInit PROVE WakeInv
    OBVIOUS
  <2>1. Blocked = {}
    BY DEF QueueInit, Blocked
  <2> QED BY <2>1, QueueTypeInit DEF WakeInv, NoLostWakeup
<1>2. WakeInv => NoLostWakeup
  BY DEF WakeInv
<1> QED BY <1>1, <1>2, WakeStep, PTL DEF QueueSpec

-----------------------------------------------------------------------------
(***************************************************************************)
(* The queue implements ConnectionLine: every step of WorkQueue is a step  *)
(* of the line, or leaves the line alone.                                  *)
(***************************************************************************)
Serving == {item[w] : w \in {v \in Workers : item[v] # NoConn}}

Stopping == shutdown \/ closed

-----------------------------------------------------------------------------
(* The refinement mapping over a step. *)

LEMMA LineType ==
  ASSUME QueueTypeOK
  PROVE  Line \in Seq(Conns) /\ Len(Line) \in Nat /\ Len(streams) <= Len(Line)
<1>1. streams \in Seq(Conns) /\ (Pushing => work \in Conns)
  BY DEF QueueTypeOK
<1>2. Line \in Seq(Conns)
  BY <1>1, AppendProperties DEF Line
<1> QED BY <1>2, LineElements

\* If the oldest n connections leave the queue, the rest of the line stays.
LEMMA LineSuffix ==
  ASSUME QueueTypeOK, QueueTypeOK', NEW n \in 0..Len(streams),
         Suffix(streams, streams', n), work' = work, Pushing' <=> Pushing
  PROVE  Line' = Promise!From(n+1)
<1>1. /\ Len(streams) \in Nat /\ Len(streams') = Len(streams) - n
      /\ \A i \in 1..Len(streams') : streams'[i] = streams[n+i]
  BY LineElements DEF Suffix
<1>2. /\ streams' \in Seq(Conns) /\ (Pushing' => work' \in Conns)
      /\ Line' = IF Pushing' THEN Append(streams', work') ELSE streams'
      /\ Line \in Seq(Conns) /\ Line' \in Seq(Conns)
  <2>1. streams' \in Seq(Conns) /\ (Pushing' => work' \in Conns)
    BY DEF QueueTypeOK
  <2>2. Line' = IF Pushing' THEN Append(streams', work') ELSE streams'
    BY DEF Line
  <2>3. Line' \in Seq(Conns)
    BY <2>1, <2>2, AppendProperties
  <2> QED BY <2>1, <2>2, <2>3, LineType
<1>3. /\ Promise!From(n+1) \in Seq(Conns)
      /\ Len(Promise!From(n+1)) = Len(Line) - n
      /\ \A i \in 1..Len(Line)-n : Promise!From(n+1)[i] = Line[n+i]
  <2>1. n+1 \in Int /\ Len(Line) \in Int /\ n <= Len(Line)
    BY <1>1, LineType
  <2>2. \A i \in n+1..Len(Line) : Line[i] \in Conns
    BY <1>2, <2>1, ElementOfSeq
  <2>3. /\ SubSeq(Line, n+1, Len(Line)) \in Seq(Conns)
        /\ Len(SubSeq(Line, n+1, Len(Line)))
             = IF n+1 <= Len(Line) THEN Len(Line) - (n+1) + 1 ELSE 0
        /\ \A i \in 1..Len(Line)-(n+1)+1 :
             SubSeq(Line, n+1, Len(Line))[i] = Line[(n+1)+i-1]
    BY <2>1, <2>2, SubSeqProperties
  <2> QED BY <2>1, <2>3 DEF Promise!From
<1>4. Len(Line') = Len(Line) - n /\ \A i \in 1..Len(Line') : Line'[i] = Line[n+i]
  <2>1. CASE Pushing
    <3>1. /\ Len(Line) = Len(streams) + 1
          /\ \A i \in 1..Len(streams) : Line[i] = streams[i]
          /\ Line[Len(streams)+1] = work
      BY <2>1, LineElements
    <3>2. /\ Len(Line') = Len(streams') + 1
          /\ \A i \in 1..Len(streams') : Line'[i] = streams'[i]
          /\ Line'[Len(streams')+1] = work'
      BY <1>2, <2>1, AppendProperties
    <3>3. ASSUME NEW i \in 1..Len(Line') PROVE Line'[i] = Line[n+i]
      <4>1. CASE i \in 1..Len(streams')
        BY <1>1, <3>1, <3>2, <4>1
      <4>2. CASE i = Len(streams') + 1
        <5>1. n+i = Len(streams) + 1
          BY <1>1, <4>2
        <5> QED BY <3>1, <3>2, <4>2, <5>1
      <4> QED BY <1>1, <3>2, <4>1, <4>2
    <3> QED BY <1>1, <3>1, <3>2, <3>3
  <2>2. CASE ~Pushing
    <3>1. Line = streams /\ Line' = streams'
      BY <1>2, <2>2, LineElements
    <3> QED BY <1>1, <3>1
  <2> QED BY <2>1, <2>2
<1> QED BY <1>2, <1>3, <1>4, SeqEqual

\* The first n connections of the line are those of the queue.
LEMMA ExpiredLine ==
  ASSUME QueueTypeOK, NEW n \in 0..Len(streams),
         \A i \in 1..n : Expired(streams[i])
  PROVE  Promise!FirstExpired(n) /\ n \in 0..Len(Line)
<1>1. \A i \in 1..n : i \in 1..Len(streams) /\ Line[i] = streams[i]
  BY LineElements
<1> QED BY <1>1, LineElements DEF Promise!FirstExpired, Expired

LEMMA DropOldestStep ==
  ASSUME QueueTypeOK, QueueTypeOK', NEW n \in 0..Len(streams),
         Suffix(streams, streams', n), \A i \in 1..n : Expired(streams[i]),
         UNCHANGED <<work, item, left, shutdown, closed>>, Pushing' <=> Pushing
  PROVE  Promise!LineNext
<1>1. Line' = Promise!From(n+1)
  BY LineSuffix
<1>2. Promise!FirstExpired(n) /\ n \in 0..Len(Line)
  BY ExpiredLine
<1>3. Promise!DropOldest(n)
  BY <1>1, <1>2 DEF Promise!DropOldest
<1> QED BY <1>2, <1>3 DEF Promise!LineNext

LEMMA DropYoungestStep ==
  ASSUME QueueTypeOK, Pushing, ~Pushing', Expired(work) \/ Stopping,
         UNCHANGED <<streams, item, left, shutdown, closed>>
  PROVE  Promise!LineNext
<1>1. /\ streams \in Seq(Conns) /\ Len(streams) \in Nat
      /\ Line \in Seq(Conns)
      /\ Len(Line) = Len(streams) + 1
      /\ \A i \in 1..Len(streams) : Line[i] = streams[i]
      /\ Line[Len(streams)+1] = work
  BY LineElements, LineType
<1>2. Line # <<>>
  BY <1>1, EmptySeq
<1>3. Line' = streams
  BY DEF Line
<1>4. SubSeq(Line, 1, Len(Line) - 1) = streams
  <2>1. \A i \in 1..Len(streams) : Line[i] \in Conns
    BY <1>1, ElementOfSeq
  <2>2. /\ SubSeq(Line, 1, Len(streams)) \in Seq(Conns)
        /\ Len(SubSeq(Line, 1, Len(streams)))
             = IF 1 <= Len(streams) THEN Len(streams) - 1 + 1 ELSE 0
        /\ \A i \in 1..Len(streams)-1+1 :
             SubSeq(Line, 1, Len(streams))[i] = Line[1+i-1]
    BY <1>1, <2>1, SubSeqProperties
  <2>3. /\ Len(SubSeq(Line, 1, Len(streams))) = Len(streams)
        /\ \A i \in 1..Len(streams) : SubSeq(Line, 1, Len(streams))[i] = streams[i]
    BY <1>1, <2>2
  <2>4. SubSeq(Line, 1, Len(streams)) = streams
    BY <1>1, <2>2, <2>3, SeqEqual
  <2>5. Len(Line) - 1 = Len(streams)
    BY <1>1
  <2> QED BY <2>4, <2>5
<1>5. left[Line[Len(Line)]] = 0 \/ shutdown \/ closed
  BY <1>1 DEF Expired, Stopping
<1>6. Promise!DropYoungest
  BY <1>2, <1>3, <1>4, <1>5 DEF Promise!DropYoungest
<1> QED BY <1>6 DEF Promise!LineNext

\* A worker takes the n-th connection: the first that is alive.
LEMMA ServeStep ==
  ASSUME QueueTypeOK, QueueTypeOK', NEW w \in Workers, PopTakes(w)
  PROVE  Promise!LineNext
<1>1. PICK n \in 1..Len(streams) :
        /\ Suffix(streams, streams', n)
        /\ ExpiredPrefix(n-1)
        /\ item' = [item EXCEPT ![w] = streams[n]]
  BY SuffixLeft
<1>2. /\ UNCHANGED <<closed, left, shutdown, work>>
      /\ Pushing' <=> Pushing
      /\ popper[w] = "lock"
  BY DEF PopTakes, WakePusher, Pushing
<1>3. n \in 0..Len(streams) /\ n-1 \in 0..Len(streams) /\ Len(streams) \in Nat
  BY LineElements
<1>4. Line' = Promise!From(n+1)
  BY <1>1, <1>2, <1>3, LineSuffix
<1>5. Promise!FirstExpired(n-1) /\ n \in 1..Len(Line)
  BY <1>1, <1>3, ExpiredLine, LineType DEF ExpiredPrefix
<1>6. Line[n] = streams[n] /\ streams[n] \in Conns
  BY <1>1, LineElements, ElementOfSeq
<1>7. left[Line[n]] > 0
  <2>1. left[streams[n]] # 0
    BY <1>1, <1>3 DEF ExpiredPrefix, Expired
  <2>2. left[streams[n]] \in 0..RequestTimeout /\ RequestTimeout \in Nat
    BY <1>6, QueueAssumption DEF QueueTypeOK, QueueAssumption
  <2> QED BY <1>6, <2>1, <2>2
<1>8. Serving' = Serving \cup {Line[n]}
  <2>1. item[w] = NoConn
    BY <1>2 DEF QueueTypeOK
  <2>2. \A v \in Workers : item'[v] = IF v = w THEN streams[n] ELSE item[v]
    BY <1>1 DEF QueueTypeOK
  <2>3. streams[n] # NoConn
    BY <1>6, QueueAssumption DEF QueueAssumption
  <2> QED BY <1>6, <2>1, <2>2, <2>3 DEF Serving
<1>9. Promise!Serve(n)
  BY <1>2, <1>4, <1>5, <1>7, <1>8 DEF Promise!Serve, Serving
<1> QED BY <1>5, <1>9 DEF Promise!LineNext

\* A worker gives its connection back: nobody else has it.
LEMMA FinishStep ==
  ASSUME QueueTypeOK, OneOwner, NEW w \in Workers, NEW next, Release(w, next)
  PROVE  Promise!LineNext
<1>1. /\ popper[w] = "busy"
      /\ item' = [item EXCEPT ![w] = NoConn]
      /\ UNCHANGED <<streams, closed, left, shutdown, pusher, work>>
  BY DEF Release, AfterRelease
<1>2. PICK c \in Conns : c = item[w] /\ c # NoConn
  BY <1>1 DEF QueueTypeOK
<1>3. \A v \in Workers : item'[v] = IF v = w THEN NoConn ELSE item[v]
  BY <1>1 DEF QueueTypeOK
<1>4. c \in Serving /\ Serving' = Serving \ {c}
  <2>1. \A v \in Workers : item[v] = c => v = w
    BY <1>2 DEF OneOwner
  <2> QED BY <1>2, <1>3, <2>1 DEF Serving
<1>5. Line' = Line
  BY <1>1 DEF Line, Pushing
<1>6. Promise!Finish(c)
  BY <1>1, <1>4, <1>5 DEF Promise!Finish, Serving
<1> QED BY <1>6 DEF Promise!LineNext

-----------------------------------------------------------------------------
(* The refinement. *)

LEMMA LineStep ==
  OwnerInv /\ [QueueNext]_queueVars => [Promise!LineNext]_(Promise!lineVars)
<1> SUFFICES ASSUME OwnerInv, [QueueNext]_queueVars
             PROVE  Promise!LineNext \/ UNCHANGED Promise!lineVars
  OBVIOUS
<1>1. QueueTypeOK /\ QueueTypeOK' /\ OneOwner
  BY QueueTypeStep DEF OwnerInv
<1>2. ASSUME Line' = Line, UNCHANGED <<item, left, shutdown, closed>>
      PROVE  UNCHANGED Promise!lineVars
  BY <1>2 DEF Promise!lineVars
<1>3. ASSUME NEW c \in Conns, CallPush(c) PROVE Promise!LineNext
  <2>1. /\ pusher = "idle" /\ pusher' = "lock" /\ work' = c /\ Free(c)
        /\ left' = [left EXCEPT ![c] = RequestTimeout]
        /\ UNCHANGED <<streams, closed, shutdown, item>>
    BY <1>3 DEF CallPush
  <2>2. Line = streams /\ Line' = Append(streams, c)
    BY <2>1 DEF Line, Pushing
  <2>3. c \notin Serving
    BY <2>1 DEF Free, Serving
  <2>4. \A i \in 1..Len(Line) : Line[i] # c
    BY <2>1, <2>2 DEF Free
  <2>5. Promise!Arrive(c)
    BY <2>1, <2>2, <2>3, <2>4 DEF Promise!Arrive, Serving
  <2> QED BY <2>5 DEF Promise!LineNext
<1>4. CASE PushScan
  <2>1. PICK n \in Nat : Suffix(streams, streams', n) /\ ExpiredPrefix(n)
    BY <1>1, <1>4, SuffixLeft
  <2>2. UNCHANGED <<work, item, left, shutdown, closed>> /\ (Pushing' <=> Pushing)
    BY <1>4 DEF PushScan, Pushing
  <2> QED BY <1>1, <2>1, <2>2, DropOldestStep DEF ExpiredPrefix
<1>5. CASE PushRefuses
  BY <1>1, <1>5, DropYoungestStep DEF PushRefuses, Pushing, Stopping
<1>6. CASE PushDropsExpired
  BY <1>1, <1>6, DropYoungestStep DEF PushDropsExpired, Pushing
<1>7. CASE PushEnqueues
  <2>1. Line' = Line
    BY <1>7 DEF PushEnqueues, Enqueued, Line, Pushing
  <2> QED BY <1>2, <1>7, <2>1 DEF PushEnqueues
<1>8. CASE PushWaitEnds
  BY <1>2, <1>8 DEF PushWaitEnds, Line, Pushing
<1>9. CASE Close
  <2>1. Line' = <<>> /\ closed' = TRUE /\ UNCHANGED <<item, left, shutdown>>
    BY <1>9 DEF Close, AfterClose, Line, Pushing
  <2>2. Promise!Flush
    BY <2>1 DEF Promise!Flush
  <2> QED BY <2>2 DEF Promise!LineNext
<1>10. ASSUME NEW w \in Workers, PopStep(w)
       PROVE  Promise!LineNext \/ UNCHANGED Promise!lineVars
  <2>1. CASE PopTakes(w)
    BY <1>1, <2>1, ServeStep
  <2>2. CASE PopFindsNone(w)
    <3>1. Suffix(streams, streams', Len(streams)) /\ ExpiredPrefix(Len(streams))
      BY <1>1, <2>2, SuffixLeft DEF PopFindsNone
    <3>2. UNCHANGED <<work, item, left, shutdown, closed>> /\ (Pushing' <=> Pushing)
      BY <2>2 DEF PopFindsNone, WakePusher, Pushing
    <3> QED BY <1>1, <3>1, <3>2, DropOldestStep DEF ExpiredPrefix
  <2>3. CASE PopPanics(w)
    <3>1. PICK n \in 1..Len(streams) : Suffix(streams, streams', n) /\ ExpiredPrefix(n)
      BY <1>1, <2>3, SuffixLeft
    <3>2. UNCHANGED <<work, item, left, shutdown, closed>> /\ (Pushing' <=> Pushing)
      BY <2>3 DEF PopPanics, Pushing
    <3> QED BY <1>1, <3>1, <3>2, DropOldestStep DEF ExpiredPrefix
  <2>4. CASE PopWakesSpuriously(w)
    BY <1>2, <2>4 DEF PopWakesSpuriously, Line, Pushing
  <2>5. CASE CallPop(w) \/ WorkerPanics(w)
    BY <1>1, <2>5, FinishStep DEF CallPop, WorkerPanics
  <2> QED BY <1>10, <2>1, <2>2, <2>3, <2>4, <2>5 DEF PopStep
<1>11. CASE RaiseShutdown
  <2>1. Promise!Stop
    BY <1>11 DEF RaiseShutdown, Promise!Stop, Line, Pushing
  <2> QED BY <2>1 DEF Promise!LineNext
<1>12. CASE Elapse
  <2>1. Promise!TimePasses
    BY <1>12 DEF Elapse, ElapseLeft, Promise!TimePasses, Line, Pushing
  <2> QED BY <2>1 DEF Promise!LineNext
<1>13. CASE UNCHANGED queueVars
  BY <1>2, <1>13 DEF queueVars, Line, Pushing
<1> QED
  BY <1>3, <1>4, <1>5, <1>6, <1>7, <1>8, <1>9, <1>10, <1>11, <1>12, <1>13
  DEF QueueNext, PushStep

\* The queue keeps the promise of ConnectionLine: first come first served, at
\* most once, and nobody is given up unless its time is over or the server stops.
THEOREM QueueIsALine == QueueSpec => ImplementsLine
<1>1. QueueInit => Promise!LineInit
  BY DEF QueueInit, Promise!LineInit, Line, Pushing
<1>2. QueueInit => OwnerInv
  BY OwnerInit
<1> QED BY <1>1, <1>2, OwnerStep, LineStep, PTL DEF QueueSpec, ImplementsLine, Promise!LineSpec
=============================================================================
