--------------------------- MODULE TransferProofs ---------------------------
(***************************************************************************)
(* Proofs about Transfer for a head and a body of any length, any chunk    *)
(* limit and buffer, and a file that changes its length at any time.       *)
(***************************************************************************)
EXTENDS Transfer, SequenceTheorems, TLAPS

-----------------------------------------------------------------------------
(* Runs of bytes. *)

\* s holds the bytes of the response that follow the first `from` ones.
RunsFrom(s, from) ==
  /\ s \in Seq(Nat)
  /\ \A i \in 1..Len(s) : s[i] = from + i

LEMMA BytesRun ==
  ASSUME NEW from \in Nat, NEW n \in Nat
  PROVE  RunsFrom(Bytes(from, n), from) /\ Len(Bytes(from, n)) = n
<1>1. Bytes(from, n) \in [1..n -> Nat]
  BY DEF Bytes
<1>2. Bytes(from, n) \in Seq(Nat)
  BY <1>1, SeqDef
<1>3. DOMAIN Bytes(from, n) = 1..n /\ Len(Bytes(from, n)) \in Nat
  BY <1>1, <1>2, LenProperties
<1>4. Len(Bytes(from, n)) = n
  BY <1>2, <1>3, LenProperties
<1>5. \A i \in 1..n : Bytes(from, n)[i] = from + i
  BY DEF Bytes
<1> QED BY <1>2, <1>4, <1>5 DEF RunsFrom

\* A run that continues another makes one run with it.
LEMMA RunsJoin ==
  ASSUME NEW s, NEW t, RunsFrom(s, 0), RunsFrom(t, Len(s))
  PROVE  RunsFrom(s \o t, 0) /\ Len(s \o t) = Len(s) + Len(t)
<1>1. /\ s \in Seq(Nat) /\ t \in Seq(Nat) /\ Len(s) \in Nat /\ Len(t) \in Nat
  BY DEF RunsFrom
<1>2. /\ s \o t \in Seq(Nat)
      /\ Len(s \o t) = Len(s) + Len(t)
      /\ \A i \in 1..Len(s) + Len(t) :
           (s \o t)[i] = IF i <= Len(s) THEN s[i] ELSE t[i - Len(s)]
  BY <1>1, ConcatProperties
<1>3. ASSUME NEW i \in 1..Len(s) + Len(t) PROVE (s \o t)[i] = 0 + i
  <2>1. CASE i <= Len(s)
    BY <1>1, <1>2, <2>1 DEF RunsFrom
  <2>2. CASE ~(i <= Len(s))
    <3>1. i - Len(s) \in 1..Len(t) /\ Len(s) + (i - Len(s)) = i
      BY <1>1, <2>2
    <3>2. t[i - Len(s)] = Len(s) + (i - Len(s))
      BY <3>1 DEF RunsFrom
    <3> QED BY <1>1, <1>2, <2>2, <3>1, <3>2
  <2> QED BY <2>1, <2>2
<1> QED BY <1>2, <1>3 DEF RunsFrom

\* The socket takes n bytes of a run: they and the rest are runs.
LEMMA RunSplits ==
  ASSUME NEW s, NEW from \in Nat, RunsFrom(s, from), NEW n \in 1..Len(s)
  PROVE  /\ RunsFrom(SubSeq(s, 1, n), from)
         /\ Len(SubSeq(s, 1, n)) = n
         /\ RunsFrom(SubSeq(s, n+1, Len(s)), from + n)
         /\ Len(SubSeq(s, n+1, Len(s))) = Len(s) - n
<1>1. s \in Seq(Nat) /\ Len(s) \in Nat /\ n \in Nat /\ n <= Len(s)
  BY DEF RunsFrom
<1>2. \A i \in 1..Len(s) : s[i] \in Nat /\ s[i] = from + i
  BY <1>1 DEF RunsFrom
<1>3. /\ SubSeq(s, 1, n) \in Seq(Nat)
      /\ Len(SubSeq(s, 1, n)) = n
      /\ \A i \in 1..n : SubSeq(s, 1, n)[i] = s[i]
  <2>1. \A i \in 1..n : s[i] \in Nat
    BY <1>1, <1>2
  <2>2. /\ SubSeq(s, 1, n) \in Seq(Nat)
        /\ Len(SubSeq(s, 1, n)) = IF 1 <= n THEN n - 1 + 1 ELSE 0
        /\ \A i \in 1..n - 1 + 1 : SubSeq(s, 1, n)[i] = s[1 + i - 1]
    BY <1>1, <2>1, SubSeqProperties
  <2> QED BY <1>1, <2>2
<1>4. /\ SubSeq(s, n+1, Len(s)) \in Seq(Nat)
      /\ Len(SubSeq(s, n+1, Len(s))) = Len(s) - n
      /\ \A i \in 1..Len(s) - n : SubSeq(s, n+1, Len(s))[i] = s[n + i]
  <2>1. \A i \in n+1..Len(s) : s[i] \in Nat
    BY <1>1, <1>2
  <2>2. /\ SubSeq(s, n+1, Len(s)) \in Seq(Nat)
        /\ Len(SubSeq(s, n+1, Len(s)))
             = IF n+1 <= Len(s) THEN Len(s) - (n+1) + 1 ELSE 0
        /\ \A i \in 1..Len(s) - (n+1) + 1 :
             SubSeq(s, n+1, Len(s))[i] = s[(n+1) + i - 1]
    BY <1>1, <2>1, SubSeqProperties
  <2>3. Len(SubSeq(s, n+1, Len(s))) = Len(s) - n
    BY <1>1, <2>2
  <2>4. ASSUME NEW i \in 1..Len(s) - n
        PROVE  SubSeq(s, n+1, Len(s))[i] = s[n + i]
    <3>1. i \in 1..Len(s) - (n+1) + 1
      BY <1>1
    <3>2. (n+1) + i - 1 = n + i
      BY <1>1
    <3>3. SubSeq(s, n+1, Len(s))[i] = s[(n+1) + i - 1]
      BY <2>2, <3>1
    <3> QED BY <3>2, <3>3
  <2>5. SubSeq(s, n+1, Len(s)) \in Seq(Nat)
    BY <2>2
  <2> QED BY <2>3, <2>4, <2>5
<1>5. RunsFrom(SubSeq(s, 1, n), from)
  BY <1>1, <1>2, <1>3 DEF RunsFrom
<1>6. \A i \in 1..Len(s) - n : SubSeq(s, n+1, Len(s))[i] = (from + n) + i
  BY <1>1, <1>2, <1>4
<1> QED BY <1>3, <1>4, <1>5, <1>6 DEF RunsFrom

-----------------------------------------------------------------------------
(* The inductive invariant. *)

Writing == pc \in {"write", "waitWrite", "pollWrite"}
Sending == pc \in {"sendfile", "read", "waitSend", "pollSend"}

\* The wire holds the first bytes of the response and no others, and the buffer
\* those that come next.
Contiguous ==
  /\ RunsFrom(wire, 0)
  /\ Writing => RunsFrom(buffer, Len(wire))

\* How far the response is, by what the code knows of it.
Position ==
  /\ Writing /\ part = "head" => Len(wire) + Len(buffer) = HeadLength /\ sent = 0
  /\ Writing /\ part = "text" => body = "text" /\ Len(wire) + Len(buffer) = Total
  /\ Writing /\ part = "chunk" =>
       /\ body = "file"
       /\ Len(wire) + Len(buffer) = HeadLength + sent + chunk
       /\ sent + chunk <= Length
  /\ Sending => body = "file" /\ Len(wire) = HeadLength + sent

TransferInv ==
  /\ TransferTypeOK
  /\ Contiguous
  /\ Position
  /\ Len(wire) <= Total
  /\ OkIsComplete

LEMMA TransferInitInv == TransferInit => TransferInv
<1> USE TransferAssumption DEF TransferAssumption
<1> SUFFICES ASSUME TransferInit PROVE TransferInv
  OBVIOUS
<1>1. RunsFrom(buffer, 0) /\ Len(buffer) = HeadLength
  BY BytesRun DEF TransferInit
<1>2. wire = <<>> /\ Len(wire) = 0 /\ RunsFrom(wire, 0)
  BY EmptySeq DEF TransferInit, RunsFrom
<1>3. TransferTypeOK
  BY <1>1, <1>2 DEF TransferInit, TransferTypeOK, Bodies, Calls, Waiting, Polling, RunsFrom
<1>4. Len(wire) <= Total
  BY <1>2 DEF Total
<1> QED BY <1>1, <1>2, <1>3, <1>4
        DEF TransferInit, TransferInv, Contiguous, Position, Sending, Writing, OkIsComplete

LEMMA TransferStep == TransferInv /\ [TransferNext]_transferVars => TransferInv'
<1> USE TransferAssumption DEF TransferAssumption
<1> SUFFICES ASSUME TransferInv, [TransferNext]_transferVars PROVE TransferInv'
  OBVIOUS
<1>1. TransferTypeOK /\ Contiguous /\ Position /\ Len(wire) <= Total /\ OkIsComplete
  BY DEF TransferInv
<1>2. /\ wire \in Seq(Nat) /\ Len(wire) \in Nat
      /\ buffer \in Seq(Nat) /\ Len(buffer) \in Nat
      /\ sent \in Nat /\ sent <= Length /\ chunk \in Nat /\ Total \in Nat
      /\ body \in {"none", "text", "file"}
      /\ Total = HeadLength + (IF body = "none" THEN 0 ELSE Length)
  BY <1>1 DEF TransferTypeOK, Total, Bodies
<1> USE DEF TransferTypeOK, Bodies, Calls, Waiting, Polling, Ends
\* A step that only moves on in the program.
<1>3. ASSUME UNCHANGED <<body, part, buffer, chunk, sent, wire>>,
             size' \in 0..MaxSize, left' \in 0..Lifetime,
             pc' \in Calls \cup Ends,
             Writing' => Writing, Sending' => Sending,
             pc' = "ok" => pc = "ok" \/ Len(wire) = Total
      PROVE  TransferInv'
  <2>1. Total' = Total
    BY <1>3 DEF Total
  <2>2. TransferTypeOK'
    BY <1>1, <1>3
  <2>3. Contiguous'
    BY <1>1, <1>3 DEF Contiguous
  <2>4. Position'
    BY <1>1, <1>3, <2>1 DEF Position
  <2>5. Len(wire') <= Total' /\ OkIsComplete'
    BY <1>1, <1>3, <2>1 DEF OkIsComplete
  <2> QED BY <2>2, <2>3, <2>4, <2>5 DEF TransferInv
<1>4. ASSUME NEW n \in 1..Len(buffer), WriteSome(n) PROVE TransferInv'
  <2>1. /\ pc = "write" /\ pc' = pc
        /\ wire' = wire \o SubSeq(buffer, 1, n)
        /\ buffer' = SubSeq(buffer, n+1, Len(buffer))
        /\ UNCHANGED <<body, part, chunk, sent, size, left>>
    BY <1>4 DEF WriteSome
  <2>2. RunsFrom(wire, 0) /\ RunsFrom(buffer, Len(wire))
    BY <1>1, <2>1 DEF Contiguous, Writing
  <2>3. /\ RunsFrom(SubSeq(buffer, 1, n), Len(wire))
        /\ Len(SubSeq(buffer, 1, n)) = n
        /\ RunsFrom(buffer', Len(wire) + n)
        /\ Len(buffer') = Len(buffer) - n
    BY <1>2, <2>1, <2>2, RunSplits
  <2>4. RunsFrom(wire', 0) /\ Len(wire') = Len(wire) + n
    BY <2>1, <2>2, <2>3, RunsJoin
  <2>5. Total' = Total /\ wire' \in Seq(Nat) /\ buffer' \in Seq(Nat)
    BY <2>1, <2>3, <2>4 DEF Total, RunsFrom
  <2>6. Contiguous'
    BY <2>3, <2>4 DEF Contiguous
  <2>7. Len(wire') + Len(buffer') = Len(wire) + Len(buffer)
    BY <1>2, <2>3, <2>4
  <2>8. Position'
    BY <1>1, <2>1, <2>5, <2>7 DEF Position, Writing, Sending
  <2>9. Len(wire) + Len(buffer) <= Total
    BY <1>1, <1>2, <2>1 DEF Position, Writing
  <2>10. Len(wire') <= Total' /\ OkIsComplete'
    BY <1>2, <2>1, <2>3, <2>4, <2>5, <2>9 DEF OkIsComplete
  <2>11. TransferTypeOK'
    BY <1>1, <2>1, <2>5
  <2> QED BY <2>6, <2>8, <2>10, <2>11 DEF TransferInv
<1>5. CASE WriteBlocks \/ WriteFails
  BY <1>1, <1>3, <1>5 DEF WriteBlocks, WriteFails, Writing, Sending
<1>6. CASE HeadWritten
  <2>1. /\ pc = "write" /\ part = "head" /\ buffer = <<>>
        /\ pc' = CASE body = "none" -> "ok" [] body = "text" -> "write"
                   [] body = "file" -> "sendfile"
        /\ part' = IF body = "text" THEN "text" ELSE part
        /\ buffer' = IF body = "text" THEN Bytes(HeadLength, Length) ELSE <<>>
        /\ UNCHANGED <<body, chunk, sent, size, left, wire>>
    BY <1>6 DEF HeadWritten
  <2>2. Len(wire) = HeadLength
    BY <1>1, <1>2, <2>1, EmptySeq DEF Position, Writing
  <2>3. Total' = Total /\ RunsFrom(wire', 0)
    BY <1>1, <2>1 DEF Total, Contiguous
  <2>4. CASE body = "none"
    <3>1. pc' = "ok" /\ buffer' = <<>> /\ part' = part
      BY <2>1, <2>4
    <3> QED BY <1>1, <1>2, <2>1, <2>2, <2>3, <2>4, <3>1
            DEF TransferInv, Contiguous, Position, OkIsComplete, Writing, Sending
  <2>5. CASE body = "text"
    <3>1. /\ pc' = "write" /\ part' = "text" /\ buffer' = Bytes(HeadLength, Length)
      BY <2>1, <2>5
    <3>2. RunsFrom(buffer', HeadLength) /\ Len(buffer') = Length
      BY <3>1, BytesRun
    <3>3. TransferTypeOK'
      BY <1>1, <2>1, <3>1, <3>2 DEF RunsFrom
    <3> QED BY <1>1, <1>2, <2>1, <2>2, <2>3, <2>5, <3>1, <3>2, <3>3
            DEF TransferInv, Contiguous, Position, OkIsComplete, Writing, Sending
  <2>6. CASE body = "file"
    <3>1. pc' = "sendfile" /\ buffer' = <<>> /\ part' = part
      BY <2>1, <2>6
    <3>2. sent = 0
      BY <1>1, <2>1 DEF Position, Writing
    <3> QED BY <1>1, <1>2, <2>1, <2>2, <2>3, <2>6, <3>1, <3>2
            DEF TransferInv, Contiguous, Position, OkIsComplete, Writing, Sending
  <2> QED BY <1>2, <2>4, <2>5, <2>6
<1>7. CASE TextWritten
  BY <1>1, <1>2, <1>3, <1>7, EmptySeq DEF TextWritten, Writing, Sending, Position
<1>8. CASE ChunkWritten
  <2>1. /\ pc = "write" /\ part = "chunk" /\ buffer = <<>>
        /\ pc' = "read" /\ sent' = sent + chunk
        /\ UNCHANGED <<body, part, buffer, chunk, size, left, wire>>
    BY <1>8 DEF ChunkWritten, CountedChunk
  <2>2. /\ body = "file" /\ Len(wire) = HeadLength + sent + chunk
        /\ sent + chunk <= Length
    BY <1>1, <1>2, <2>1, EmptySeq DEF Position, Writing
  <2>3. Total' = Total /\ RunsFrom(wire', 0)
    BY <1>1, <2>1 DEF Total, Contiguous
  <2>4. TransferTypeOK'
    BY <1>1, <1>2, <2>1, <2>2
  <2> QED BY <1>1, <1>2, <2>1, <2>2, <2>3, <2>4
          DEF TransferInv, Contiguous, Position, OkIsComplete, Writing, Sending
<1>9. ASSUME NEW n \in 1..MaxChunk, SendSome(n) PROVE TransferInv'
  <2>1. /\ pc = "sendfile" /\ n <= Length - sent
        /\ wire' = wire \o Bytes(HeadLength + sent, n)
        /\ sent' = sent + n
        /\ UNCHANGED <<body, pc, part, buffer, chunk, size, left>>
    BY <1>2, <1>9 DEF SendSome, SendLimit, Least
  <2>2. body = "file" /\ Len(wire) = HeadLength + sent /\ RunsFrom(wire, 0)
    BY <1>1, <2>1 DEF Position, Contiguous, Sending
  <2>3. RunsFrom(Bytes(HeadLength + sent, n), Len(wire)) /\ Len(Bytes(HeadLength + sent, n)) = n
    BY <1>2, <2>2, BytesRun
  <2>4. RunsFrom(wire', 0) /\ Len(wire') = Len(wire) + n
    BY <2>1, <2>2, <2>3, RunsJoin
  <2>5. Total' = Total /\ wire' \in Seq(Nat)
    BY <2>1, <2>4 DEF Total, RunsFrom
  <2>6. TransferTypeOK'
    BY <1>1, <1>2, <2>1, <2>5
  <2>7. Len(wire') = HeadLength + sent' /\ Len(wire') <= Total'
    BY <1>2, <2>1, <2>2, <2>4, <2>5
  <2> QED BY <1>1, <2>1, <2>2, <2>4, <2>6, <2>7
          DEF TransferInv, Contiguous, Position, OkIsComplete, Writing, Sending
<1>10. CASE SendBlocks
  BY <1>1, <1>3, <1>10 DEF SendBlocks, Writing, Sending
<1>11. CASE SendFallsBack
  BY <1>1, <1>3, <1>11 DEF SendFallsBack, FallbackOffset, Writing, Sending
<1>12. ASSUME NEW n \in 1..BufferSize, ReadChunk(n) PROVE TransferInv'
  <2>1. /\ pc = "read" /\ pc' = "write" /\ part' = "chunk"
        /\ n <= Length - sent
        /\ chunk' = n /\ buffer' = Bytes(HeadLength + sent, n)
        /\ UNCHANGED <<body, sent, size, left, wire>>
    BY <1>2, <1>12 DEF ReadChunk, Least
  <2>2. body = "file" /\ Len(wire) = HeadLength + sent /\ RunsFrom(wire, 0)
    BY <1>1, <2>1 DEF Position, Contiguous, Sending
  <2>3. RunsFrom(buffer', Len(wire)) /\ Len(buffer') = n
    BY <1>2, <2>1, <2>2, BytesRun
  <2>4. Total' = Total /\ buffer' \in Seq(Nat)
    BY <2>1, <2>3 DEF Total, RunsFrom
  <2>5. TransferTypeOK'
    BY <1>1, <2>1, <2>4
  <2>6. /\ Len(wire') + Len(buffer') = HeadLength + sent' + chunk'
        /\ sent' + chunk' <= Length
    BY <1>2, <2>1, <2>2, <2>3
  <2> QED BY <1>1, <2>1, <2>2, <2>3, <2>4, <2>5, <2>6
          DEF TransferInv, Contiguous, Position, OkIsComplete, Writing, Sending
<1>13. CASE FileFails
  BY <1>1, <1>3, <1>13 DEF FileFails, FileError, Writing, Sending
<1>14. CASE FileSent
  BY <1>1, <1>2, <1>3, <1>14 DEF FileSent, Writing, Sending, Position
<1>15. CASE WaitStep
  BY <1>1, <1>3, <1>15
  DEF WaitStep, WaitStarts, PollReady, PollAgain, PollFails, Writing, Sending
<1>16. CASE FileChanges \/ Tick
  BY <1>1, <1>3, <1>16 DEF FileChanges, Tick, Writing, Sending
<1>17. CASE Ended \/ UNCHANGED transferVars
  BY <1>1, <1>3, <1>17 DEF Ended, transferVars, Writing, Sending
<1> QED
  BY <1>4, <1>5, <1>6, <1>7, <1>8, <1>9, <1>10, <1>11, <1>12, <1>13, <1>14,
     <1>15, <1>16, <1>17
  DEF TransferNext, WriteStep, FileStep

-----------------------------------------------------------------------------
(* The theorems. *)

LEMMA TransferInvariant == TransferSpec => []TransferInv
BY TransferInitInv, TransferStep, PTL DEF TransferSpec

\* Every variable keeps its type: send_file never counts more than the length
\* it was given, whatever the file does.
THEOREM TransferTypeCorrect == TransferSpec => []TransferTypeOK
<1>1. TransferInv => TransferTypeOK
  BY DEF TransferInv
<1> QED BY <1>1, TransferInvariant, PTL

\* The socket gets the bytes of the response in order, none twice and none left
\* out, and never more than Content-Length announces.
THEOREM ResponseInOrder == TransferSpec => []InOrder
<1>1. TransferInv => InOrder
  <2> SUFFICES ASSUME TransferInv, NEW i \in 1..Len(wire) PROVE wire[i] = i
    BY DEF TransferInv, InOrder
  <2>1. wire[i] = 0 + i
    BY DEF TransferInv, Contiguous, RunsFrom
  <2>2. Len(wire) \in Nat
    BY DEF TransferInv, TransferTypeOK
  <2> QED BY <2>1, <2>2
<1> QED BY <1>1, TransferInvariant, PTL

\* A response that write_all or send_file reported as sent is complete.
THEOREM SuccessIsComplete == TransferSpec => []OkIsComplete
<1>1. TransferInv => OkIsComplete
  BY DEF TransferInv
<1> QED BY <1>1, TransferInvariant, PTL

\* What send_file has counted is what the socket has got.
THEOREM CountIsRight == TransferSpec => []Counted
<1>1. TransferInv => Counted
  BY DEF TransferInv, Position, Counted, Writing, Sending
<1> QED BY <1>1, TransferInvariant, PTL
=============================================================================
