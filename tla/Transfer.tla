------------------------------ MODULE Transfer ------------------------------
(***************************************************************************)
(* How a worker of Statika writes one response to a nonblocking socket     *)
(* (write_all, send_file, send_file_fallback and wait_fd of src/net.rs     *)
(* as serve_static, simple_response and simple_error call them): the head, *)
(* then nothing, a text of the server or a file.  One system call is one   *)
(* step; calls that were interrupted are simply repeated.                  *)
(*                                                                         *)
(* Between two calls the deadline of the connection may pass and the file, *)
(* whose length the head has already announced, may shrink or grow.        *)
(*                                                                         *)
(* An operator named Bad... is a mutant of the one after it.               *)
(*                                                                         *)
(* A byte is its position in the response: 1 .. HeadLength for the head,   *)
(* HeadLength + k for the k-th byte of the body.                           *)
(***************************************************************************)
EXTENDS Naturals, Sequences

CONSTANTS
  HeadLength,    \* bytes of the response head
  Length,        \* bytes of the body: Content-Length
  MaxSize,       \* the file never grows beyond this
  MaxChunk,      \* MAX_SENDFILE_CHUNK
  BufferSize,    \* FALLBACK_BUFFER_SIZE
  Lifetime       \* clock ticks from the first write to the deadline

ASSUME TransferAssumption ==
  /\ HeadLength \in Nat \ {0}
  /\ Length \in Nat
  /\ MaxSize \in Nat
  /\ MaxChunk \in Nat \ {0}
  /\ BufferSize \in Nat \ {0}
  /\ Lifetime \in Nat

VARIABLES
  body,      \* what follows the head: "none" (HEAD, 304), "text" or "file"
  pc,        \* the next system call, or how the response ended
  part,      \* what write_all is writing: "head", "text" or "chunk"
  buffer,    \* the bytes write_all still has to write
  chunk,     \* bytes of the file in the buffer of send_file_fallback
  sent,      \* send_file's sent, which is its offset in the file as well
  size,      \* the length of the file now
  left,      \* ticks left until the deadline
  wire       \* every byte the socket took, in order

transferVars == <<body, pc, part, buffer, chunk, sent, size, left, wire>>

Bodies == {"none", "text", "file"}

\* write: in write_all.  sendfile: in send_file.  read: in send_file_fallback.
\* waitWrite, waitSend: entering wait_fd from write_all, from send_file.
\* pollWrite, pollSend: in its poll.
Waiting == {"waitWrite", "waitSend"}
Polling == {"pollWrite", "pollSend"}
Ends == {"ok", "failed"}
Calls == {"write", "sendfile", "read"} \cup Waiting \cup Polling

\* The bytes from + 1 .. from + n of the response.
Bytes(from, n) == [i \in 1..n |-> from + i]

Total == HeadLength + (IF body = "none" THEN 0 ELSE Length)

Least(m, n) == IF m <= n THEN m ELSE n

TransferTypeOK ==
  /\ body \in Bodies
  /\ pc \in Calls \cup Ends
  /\ part \in {"head", "text", "chunk"}
  /\ buffer \in Seq(Nat)
  /\ chunk \in 0..BufferSize
  /\ sent \in 0..Length
  /\ size \in 0..MaxSize
  /\ left \in 0..Lifetime
  /\ wire \in Seq(Nat)

TransferInit ==
  /\ body \in Bodies
  /\ pc = "write"
  /\ part = "head"
  /\ buffer = Bytes(0, HeadLength)
  /\ chunk = 0
  /\ sent = 0
  /\ size \in 0..MaxSize
  /\ left = Lifetime
  /\ wire = <<>>

-----------------------------------------------------------------------------
(* write_all. *)

\* The socket takes n of the bytes that are left.
WriteSome(n) ==
  /\ pc = "write"
  /\ n \in 1..Len(buffer)
  /\ wire' = wire \o SubSeq(buffer, 1, n)
  /\ buffer' = SubSeq(buffer, n+1, Len(buffer))
  /\ UNCHANGED <<body, pc, part, chunk, sent, size, left>>

WriteBlocks ==
  /\ pc = "write"
  /\ buffer # <<>>
  /\ pc' = "waitWrite"
  /\ UNCHANGED <<body, part, buffer, chunk, sent, size, left, wire>>

\* write failed, or wrote nothing.
WriteFails ==
  /\ pc = "write"
  /\ buffer # <<>>
  /\ pc' = "failed"
  /\ UNCHANGED <<body, part, buffer, chunk, sent, size, left, wire>>

\* write_all(head) returned: the body is next.
HeadWritten ==
  /\ pc = "write" /\ part = "head"
  /\ buffer = <<>>
  /\ pc' = CASE body = "none" -> "ok" [] body = "text" -> "write"
             [] body = "file" -> "sendfile"
  /\ part' = IF body = "text" THEN "text" ELSE part
  /\ buffer' = IF body = "text" THEN Bytes(HeadLength, Length) ELSE <<>>
  /\ UNCHANGED <<body, chunk, sent, size, left, wire>>

TextWritten ==
  /\ pc = "write" /\ part = "text"
  /\ buffer = <<>>
  /\ pc' = "ok"
  /\ UNCHANGED <<body, part, buffer, chunk, sent, size, left, wire>>

CountedChunk == sent + chunk

\* write_all(chunk) returned to send_file_fallback.
ChunkWritten ==
  /\ pc = "write" /\ part = "chunk"
  /\ buffer = <<>>
  /\ pc' = "read"
  /\ sent' = CountedChunk
  /\ UNCHANGED <<body, part, buffer, chunk, size, left, wire>>

-----------------------------------------------------------------------------
(* send_file and send_file_fallback. *)

SendLimit == Least(Length - sent, MaxChunk)

SendSome(n) ==
  /\ pc = "sendfile"
  /\ n \in 1..SendLimit
  /\ sent + n <= size
  /\ wire' = wire \o Bytes(HeadLength + sent, n)
  /\ sent' = sent + n
  /\ UNCHANGED <<body, pc, part, buffer, chunk, size, left>>

SendBlocks ==
  /\ pc = "sendfile"
  /\ sent < Length
  /\ pc' = "waitSend"
  /\ UNCHANGED <<body, part, buffer, chunk, sent, size, left, wire>>

BadFallbackOffset == 0    \* the file is sent again from its start

FallbackOffset == sent

\* sendfile does not support this file or socket: go on by read and write.
SendFallsBack ==
  /\ pc = "sendfile"
  /\ sent < Length
  /\ pc' = "read"
  /\ sent' = FallbackOffset
  /\ UNCHANGED <<body, part, buffer, chunk, size, left, wire>>

\* One read_at of send_file_fallback.
ReadChunk(n) ==
  /\ pc = "read"
  /\ n \in 1..Least(Length - sent, BufferSize)
  /\ sent + n <= size
  /\ chunk' = n
  /\ buffer' = Bytes(HeadLength + sent, n)
  /\ part' = "chunk"
  /\ pc' = "write"
  /\ UNCHANGED <<body, sent, size, left, wire>>

BadFileError == "ok"    \* the end of the file passes for the end of the body

FileError == "failed"

\* sendfile or read_at fails: an error, or the file has become too short.
FileFails ==
  /\ pc \in {"sendfile", "read"}
  /\ sent < Length
  /\ pc' = FileError
  /\ UNCHANGED <<body, part, buffer, chunk, sent, size, left, wire>>

FileSent ==
  /\ pc \in {"sendfile", "read"}
  /\ sent >= Length
  /\ pc' = "ok"
  /\ UNCHANGED <<body, part, buffer, chunk, sent, size, left, wire>>

-----------------------------------------------------------------------------
(* wait_fd. *)

BadOutOfTime == FALSE    \* poll is called without a timeout

OutOfTime == left = 0

\* timeout_ms: the deadline is looked at before each poll, and only there.
WaitStarts ==
  /\ pc \in Waiting
  /\ pc' = IF OutOfTime THEN "failed"
           ELSE IF pc = "waitWrite" THEN "pollWrite" ELSE "pollSend"
  /\ UNCHANGED <<body, part, buffer, chunk, sent, size, left, wire>>

PollReady ==
  /\ pc \in Polling
  /\ pc' = IF pc = "pollWrite" THEN "write" ELSE "sendfile"
  /\ UNCHANGED <<body, part, buffer, chunk, sent, size, left, wire>>

\* poll was interrupted, or reported events nobody asked for.
PollAgain ==
  /\ pc \in Polling
  /\ pc' = IF pc = "pollWrite" THEN "waitWrite" ELSE "waitSend"
  /\ UNCHANGED <<body, part, buffer, chunk, sent, size, left, wire>>

\* The peer is gone, or poll failed.
PollFails ==
  /\ pc \in Polling
  /\ pc' = "failed"
  /\ UNCHANGED <<body, part, buffer, chunk, sent, size, left, wire>>

PollTimesOut == OutOfTime /\ PollFails

-----------------------------------------------------------------------------
(* The environment. *)

FileChanges ==
  /\ body = "file"
  /\ size' \in 0..MaxSize
  /\ UNCHANGED <<body, pc, part, buffer, chunk, sent, left, wire>>

Tick ==
  /\ left > 0
  /\ left' = left - 1
  /\ UNCHANGED <<body, pc, part, buffer, chunk, sent, size, wire>>

WriteStep ==
  \/ \E n \in 1..Len(buffer) : WriteSome(n)
  \/ WriteBlocks
  \/ WriteFails
  \/ HeadWritten
  \/ TextWritten
  \/ ChunkWritten

FileStep ==
  \/ \E n \in 1..MaxChunk : SendSome(n)
  \/ SendBlocks
  \/ SendFallsBack
  \/ \E n \in 1..BufferSize : ReadChunk(n)
  \/ FileFails
  \/ FileSent

WaitStep ==
  \/ WaitStarts
  \/ PollReady
  \/ PollAgain
  \/ PollFails

Ended == pc \in Ends /\ UNCHANGED transferVars

TransferNext ==
  \/ WriteStep
  \/ FileStep
  \/ WaitStep
  \/ FileChanges
  \/ Tick
  \/ Ended

TransferSpec == TransferInit /\ [][TransferNext]_transferVars

\* The worker runs and time passes.  What poll reports is up to the peer until
\* the deadline: then it returns for sure.
FairTransferSpec ==
  /\ TransferSpec
  /\ WF_transferVars(Tick)
  /\ WF_transferVars(WriteStep)
  /\ WF_transferVars(FileStep)
  /\ WF_transferVars(WaitStarts)
  /\ WF_transferVars(PollTimesOut)

-----------------------------------------------------------------------------
(* Properties. *)

\* The socket gets the response from its first byte on, no byte twice and none
\* left out, over any number of partial writes, waits and the switch from
\* sendfile to read and write; and never more than Content-Length announces,
\* even if the file has grown.
InOrder ==
  /\ \A i \in 1..Len(wire) : wire[i] = i
  /\ Len(wire) <= Total

\* A response reported as sent was sent to its last byte, even if the file
\* was truncated meanwhile.
OkIsComplete == pc = "ok" => Len(wire) = Total

\* What send_file has counted, and the rest of its buffer, account for every
\* byte of the socket: the next byte is the one after the last.
Counted ==
  /\ pc \in {"sendfile", "read", "waitSend", "pollSend"} => Len(wire) = HeadLength + sent
  /\ part = "chunk" /\ pc \in {"write", "waitWrite", "pollWrite"}
       => Len(wire) + Len(buffer) = HeadLength + sent + chunk

\* A response ends although the peer may take nothing for ever, and a peer
\* that takes a byte now and then does not keep the worker.
TransferEnds == <>(pc \in Ends)

\* README.md:22: a connection has a bounded total lifetime from acceptance.
\* Stated of the longest part of a response: once the deadline is over,
\* send_file hands the socket no further chunk of the file.
SendStopsAtDeadline ==
  [][left = 0 /\ pc = "sendfile" => wire' = wire]_transferVars
=============================================================================
