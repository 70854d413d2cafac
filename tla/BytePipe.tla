------------------------------- MODULE BytePipe -------------------------------
(***************************************************************************)
(* What spiram_fifo promises the two tasks on its sides: a bounded pipe of *)
(* bytes.  The sender hands over a buffer; its bytes enter the pipe in     *)
(* order, a few at a time, and never more than the pipe can hold.  The     *)
(* receiver asks for a number of bytes and gets exactly the oldest ones,   *)
(* in order, each once.  No semaphore, position or wrap-around is visible. *)
(***************************************************************************)
EXTENDS Integers, Sequences

CONSTANTS
  Size,      \* bytes the pipe holds
  Buffers,   \* the buffers a sender may hand over
  Lengths    \* the numbers of bytes a receiver may ask for

VARIABLES
  sending,   \* bytes of the sender's buffer that are not in the pipe yet
  stream,    \* bytes in the pipe, oldest first
  want,      \* bytes the receiver still waits for
  got        \* bytes the receiver's current (or last) call has been given

pipeVars == <<sending, stream, want, got>>

Prefix(s, n) == SubSeq(s, 1, n)
Rest(s, n) == SubSeq(s, n + 1, Len(s))

PipeInit ==
  /\ sending = <<>>
  /\ stream = <<>>
  /\ want = 0
  /\ got = <<>>

Submit(s) ==
  /\ sending = <<>>
  /\ sending' = s
  /\ UNCHANGED <<stream, want, got>>

Put(n) ==
  /\ n <= Len(sending)
  /\ Len(stream) + n <= Size
  /\ stream' = stream \o Prefix(sending, n)
  /\ sending' = Rest(sending, n)
  /\ UNCHANGED <<want, got>>

Request(n) ==
  /\ want = 0
  /\ want' = n
  /\ got' = <<>>
  /\ UNCHANGED <<sending, stream>>

Get(n) ==
  /\ n <= want
  /\ n <= Len(stream)
  /\ got' = got \o Prefix(stream, n)
  /\ stream' = Rest(stream, n)
  /\ want' = want - n
  /\ UNCHANGED sending

PipeNext ==
  \/ \E s \in Buffers : Submit(s)
  \/ \E n \in 1..Len(sending) : Put(n)
  \/ \E n \in Lengths : Request(n)
  \/ \E n \in 1..want : Get(n)

PipeSpec == PipeInit /\ [][PipeNext]_pipeVars

(* A pipe that lives through several streams is emptied between them.      *)
Flush ==
  /\ stream' = <<>>
  /\ UNCHANGED <<sending, want, got>>

FlushablePipeSpec == PipeInit /\ [][PipeNext \/ Flush]_pipeVars
=============================================================================
