------------------------------ MODULE SpiRamFifo ------------------------------
(***************************************************************************)
(* components/fifo/spiram_fifo.c: the ring buffer between the HTTP task    *)
(* (spiRamFifoWrite) and the decoder task (spiRamFifoRead, spiRamFifoFill, *)
(* spiRamFifoReset), in the FAKE_SPI_BUFF build.  One writer and one       *)
(* reader task; one TLA+ step for each access to shared memory or call of  *)
(* a semaphore primitive that the other task can tell apart.  The size of  *)
(* a chunk is computed BEFORE the mutex is taken, as in the code.          *)
(*                                                                         *)
(* Left out: the overflow and underflow counters (nothing reads them) and  *)
(* the Icy demultiplexing at the head and tail of spiRamFifoWrite, which   *)
(* module IcyMeta models.                                                  *)
(***************************************************************************)
EXTENDS Integers, Sequences

CONSTANTS
  Size,      \* SPIRAMSIZE
  Chunk,     \* SPIREADSIZE
  LowMark,   \* FIFO_LOWMARK
  Byte,      \* byte values
  Buffers,   \* the buffers the writer may be called with
  Lengths    \* the lengths the reader may be called with

(* Chunks must fit twice, less one byte: with a smaller ring each side     *)
(* could wait for the other.  In the code Size = 32000 and Chunk = 64.     *)
ASSUME SizeAssumption ==
  /\ Chunk \in Nat \ {0}
  /\ Size \in Nat
  /\ Size >= 2 * Chunk - 1
  /\ LowMark \in Nat

ASSUME CallAssumption ==
  /\ Buffers \subseteq Seq(Byte) \ {<<>>}
  /\ Lengths \subseteq Nat \ {0}
  /\ 0 \in Byte

VARIABLES
  fifoRpos, fifoWpos, fifoFill,    \* the three shared integers
  ram,                             \* fakespiram
  semCanRead, semCanWrite,         \* binary semaphores: 1 when given
  mux,                             \* who holds the mutex ("reset": module FifoSession)
  wpc, wBuf, wN, wFill,            \* writer: where it is, bytes left, n, loaded fill
  rpc, rLen, rN, rFill, rBuf       \* reader: where it is, len, n, loaded fill, buff

fifoVars == <<fifoRpos, fifoWpos, fifoFill, ram>>
semVars == <<semCanRead, semCanWrite>>
writerVars == <<wpc, wBuf, wN, wFill>>
readerVars == <<rpc, rLen, rN, rFill, rBuf>>
vars == <<fifoVars, semVars, mux, writerVars, readerVars>>

Cells == 0..(Size - 1)
AtMost(a, b) == IF a < b THEN a ELSE b
Wrap(p) == IF p >= Size THEN p - Size ELSE p

(* Mutant: the end of the ring is forgotten.                               *)
ChunkSize_PastEnd(len, pos) == AtMost(len, Chunk)

(* n: no more than SPIREADSIZE, and not past the end of the ring.          *)
ChunkSize(len, pos) == AtMost(AtMost(len, Chunk), Size - pos)

-----------------------------------------------------------------------------
(* spiRamFifoInit; the array is static, hence zero.  vSemaphoreCreateBinary *)
(* creates a semaphore that is given.                                      *)

FifoInit ==
  /\ fifoRpos = 0 /\ fifoWpos = 0 /\ fifoFill = 0
  /\ ram = [c \in Cells |-> 0]
  /\ semCanRead = 1 /\ semCanWrite = 1
  /\ mux = "free"

Init ==
  /\ FifoInit
  /\ wpc = "idle" /\ wBuf = <<>> /\ wN = 0 /\ wFill = 0
  /\ rpc = "idle" /\ rLen = 0 /\ rN = 0 /\ rFill = 0 /\ rBuf = <<>>

-----------------------------------------------------------------------------
(* spiRamFifoWrite, the data loop                                          *)

Write(s) ==
  /\ wpc = "idle"
  /\ wBuf' = s
  /\ wpc' = "size"
  /\ UNCHANGED <<fifoVars, semVars, mux, wN, wFill, readerVars>>

WriteSize ==
  /\ wpc = "size"
  /\ wN' = ChunkSize(Len(wBuf), fifoWpos)
  /\ wpc' = "take"
  /\ UNCHANGED <<fifoVars, semVars, mux, wBuf, wFill, readerVars>>

WriteTake ==
  /\ wpc = "take"
  /\ mux = "free"
  /\ mux' = "writer"
  /\ wpc' = "check"
  /\ UNCHANGED <<fifoVars, semVars, wBuf, wN, wFill, readerVars>>

WriteFull ==
  /\ wpc = "check"
  /\ Size - fifoFill < wN
  /\ mux' = "free"
  /\ wpc' = "wait"
  /\ UNCHANGED <<fifoVars, semVars, wBuf, wN, wFill, readerVars>>

(* Mutant: room is not checked.                                            *)
WriteCopy_Overrun ==
  /\ wpc = "check"
  /\ ram' = [c \in Cells |-> IF c \in fifoWpos..(fifoWpos + wN - 1)
                             THEN wBuf[c - fifoWpos + 1] ELSE ram[c]]
  /\ wFill' = fifoFill
  /\ wpc' = "commit"
  /\ UNCHANGED <<fifoRpos, fifoWpos, fifoFill, semVars, mux, wBuf, wN, readerVars>>

WriteCopy ==
  /\ wpc = "check"
  /\ Size - fifoFill >= wN
  /\ ram' = [c \in Cells |-> IF c \in fifoWpos..(fifoWpos + wN - 1)
                             THEN wBuf[c - fifoWpos + 1] ELSE ram[c]]
  /\ wFill' = fifoFill
  /\ wpc' = "commit"
  /\ UNCHANGED <<fifoRpos, fifoWpos, fifoFill, semVars, mux, wBuf, wN, readerVars>>

(* Mutant: the position wraps one byte too late.                           *)
WriteCommit_LateWrap ==
  /\ wpc = "commit"
  /\ fifoFill' = wFill + wN
  /\ fifoWpos' = IF fifoWpos + wN > Size THEN 0 ELSE fifoWpos + wN
  /\ wBuf' = SubSeq(wBuf, wN + 1, Len(wBuf))
  /\ mux' = "free"
  /\ wpc' = "give"
  /\ UNCHANGED <<fifoRpos, ram, semVars, wN, wFill, readerVars>>

WriteCommit ==
  /\ wpc = "commit"
  /\ fifoFill' = wFill + wN
  /\ fifoWpos' = IF fifoWpos + wN >= Size THEN 0 ELSE fifoWpos + wN
  /\ wBuf' = SubSeq(wBuf, wN + 1, Len(wBuf))
  /\ mux' = "free"
  /\ wpc' = "give"
  /\ UNCHANGED <<fifoRpos, ram, semVars, wN, wFill, readerVars>>

(* Mutant: the reader is woken at the end of the call only.                *)
WriteGive_AtEnd ==
  /\ wpc = "give"
  /\ semCanRead' = IF wBuf = <<>> THEN 1 ELSE semCanRead
  /\ wpc' = IF wBuf = <<>> THEN "idle" ELSE "size"
  /\ UNCHANGED <<fifoVars, semCanWrite, mux, wBuf, wN, wFill, readerVars>>

WriteGive ==
  /\ wpc = "give"
  /\ semCanRead' = 1
  /\ wpc' = IF wBuf = <<>> THEN "idle" ELSE "size"
  /\ UNCHANGED <<fifoVars, semCanWrite, mux, wBuf, wN, wFill, readerVars>>

WriteWait ==
  /\ wpc = "wait"
  /\ semCanWrite = 1
  /\ semCanWrite' = 0
  /\ wpc' = "size"
  /\ UNCHANGED <<fifoVars, semCanRead, mux, wBuf, wN, wFill, readerVars>>

WriterStep ==
  \/ WriteSize \/ WriteTake \/ WriteFull \/ WriteCopy
  \/ WriteCommit \/ WriteGive \/ WriteWait

-----------------------------------------------------------------------------
(* spiRamFifoRead                                                          *)

Read(len) ==
  /\ rpc = "idle"
  /\ rLen' = len
  /\ rBuf' = <<>>
  /\ rpc' = "size"
  /\ UNCHANGED <<fifoVars, semVars, mux, writerVars, rN, rFill>>

ReadSize ==
  /\ rpc = "size"
  /\ rN' = ChunkSize(rLen, fifoRpos)
  /\ rpc' = "take"
  /\ UNCHANGED <<fifoVars, semVars, mux, writerVars, rLen, rFill, rBuf>>

(* Mutant: the mutex is not taken.                                         *)
ReadTake_NoMutex ==
  /\ rpc = "take"
  /\ rpc' = "check"
  /\ UNCHANGED <<fifoVars, semVars, mux, writerVars, rLen, rN, rFill, rBuf>>

ReadTake ==
  /\ rpc = "take"
  /\ mux = "free"
  /\ mux' = "reader"
  /\ rpc' = "check"
  /\ UNCHANGED <<fifoVars, semVars, writerVars, rLen, rN, rFill, rBuf>>

ReadEmpty ==
  /\ rpc = "check"
  /\ fifoFill < rN
  /\ mux' = "free"
  /\ rpc' = "low"
  /\ UNCHANGED <<fifoVars, semVars, writerVars, rLen, rN, rFill, rBuf>>

(* The test of the low watermark, outside the mutex.                       *)
ReadLow ==
  /\ rpc = "low"
  /\ rpc' = IF fifoFill < LowMark THEN "wait" ELSE "size"
  /\ UNCHANGED <<fifoVars, semVars, mux, writerVars, rLen, rN, rFill, rBuf>>

ReadWait ==
  /\ rpc = "wait"
  /\ semCanRead = 1
  /\ semCanRead' = 0
  /\ rpc' = "size"
  /\ UNCHANGED <<fifoVars, semCanWrite, mux, writerVars, rLen, rN, rFill, rBuf>>

ReadCopy ==
  /\ rpc = "check"
  /\ fifoFill >= rN
  /\ rBuf' = rBuf \o [i \in 1..rN |-> ram[fifoRpos + i - 1]]
  /\ rLen' = rLen - rN
  /\ rFill' = fifoFill
  /\ rpc' = "commit"
  /\ UNCHANGED <<fifoVars, semVars, mux, writerVars, rN>>

(* Mutant: the position wraps one byte too late.                           *)
ReadCommit_LateWrap ==
  /\ rpc = "commit"
  /\ fifoFill' = rFill - rN
  /\ fifoRpos' = IF fifoRpos + rN > Size THEN 0 ELSE fifoRpos + rN
  /\ mux' = "free"
  /\ rpc' = "give"
  /\ UNCHANGED <<fifoWpos, ram, semVars, writerVars, rLen, rN, rFill, rBuf>>

ReadCommit ==
  /\ rpc = "commit"
  /\ fifoFill' = rFill - rN
  /\ fifoRpos' = IF fifoRpos + rN >= Size THEN 0 ELSE fifoRpos + rN
  /\ mux' = "free"
  /\ rpc' = "give"
  /\ UNCHANGED <<fifoWpos, ram, semVars, writerVars, rLen, rN, rFill, rBuf>>

(* Mutant: the writer is woken at the end of the call only.                *)
ReadGive_AtEnd ==
  /\ rpc = "give"
  /\ semCanWrite' = IF rLen = 0 THEN 1 ELSE semCanWrite
  /\ rpc' = IF rLen = 0 THEN "idle" ELSE "size"
  /\ UNCHANGED <<fifoVars, semCanRead, mux, writerVars, rLen, rN, rFill, rBuf>>

ReadGive ==
  /\ rpc = "give"
  /\ semCanWrite' = 1
  /\ rpc' = IF rLen = 0 THEN "idle" ELSE "size"
  /\ UNCHANGED <<fifoVars, semCanRead, mux, writerVars, rLen, rN, rFill, rBuf>>

ReaderStep ==
  \/ ReadSize \/ ReadTake \/ ReadEmpty \/ ReadLow \/ ReadWait
  \/ ReadCopy \/ ReadCommit \/ ReadGive

-----------------------------------------------------------------------------
Next ==
  \/ \E s \in Buffers : Write(s)
  \/ WriterStep
  \/ \E len \in Lengths : Read(len)
  \/ ReaderStep

Spec == Init /\ [][Next]_vars

(* The scheduler runs both tasks.  It owes neither of them a call.         *)
FairSpec == Spec /\ WF_vars(WriterStep) /\ WF_vars(ReaderStep)

-----------------------------------------------------------------------------
(* Properties                                                              *)

WriterPc == {"idle", "size", "take", "check", "commit", "give", "wait"}
ReaderPc == WriterPc \cup {"low"}

(* Types, with the ranges of positions, fill and chunk sizes.              *)
TypeOK ==
  /\ fifoRpos \in Cells /\ fifoWpos \in Cells /\ fifoFill \in 0..Size
  /\ ram \in [Cells -> Byte]
  /\ semCanRead \in 0..1 /\ semCanWrite \in 0..1
  /\ mux \in {"free", "writer", "reader", "reset"}
  /\ wpc \in WriterPc /\ wBuf \in Seq(Byte) /\ wN \in 0..Chunk /\ wFill \in 0..Size
  /\ rpc \in ReaderPc /\ rLen \in Nat /\ rN \in 0..Chunk /\ rFill \in 0..Size
  /\ rBuf \in Seq(Byte)

(* Both copies stay inside the ring although n is computed before the      *)
(* mutex is taken: between the computation and the copy neither position   *)
(* may move (lines 85-89 and 250-261), and n is never zero, which would    *)
(* make the loops spin.                                                    *)
ChunkFits ==
  /\ wpc \in {"take", "check", "commit"} =>
       wN \in 1..Len(wBuf) /\ fifoWpos + wN <= Size
  /\ rpc \in {"take", "check"} => rN \in 1..rLen /\ fifoRpos + rN <= Size
  /\ rpc = "commit" => rN > 0 /\ fifoRpos + rN <= Size

(* The three integers the tasks share agree whoever interrupts whom: the   *)
(* write position is the read position plus the fill, round the ring.      *)
PositionsAgree == fifoWpos = Wrap(fifoRpos + fifoFill)

(* No lost wake-up and no embrace: the two sides never sleep on their      *)
(* semaphores at the same time with neither token given (the writer        *)
(* waiting for room, the reader for data).                                 *)
NeverBothAsleep ==
  ~ /\ wpc = "wait" /\ semCanWrite = 0
    /\ rpc = "wait" /\ semCanRead = 0

(* A task that sleeps on a semaphore that is not given has a reason to:    *)
(* its chunk does not fit (is not there), or the peer is about to wake it. *)
SleepIsJustified ==
  /\ (rpc \in {"low", "wait"} /\ semCanRead = 0 /\ wpc # "give") => fifoFill < rN
  /\ (wpc = "wait" /\ semCanWrite = 0 /\ rpc # "give") => Size - fifoFill < wN

(* The conjuncts that make the above inductive: who holds the mutex, that  *)
(* a fill loaded under it is still current when it is stored back, which   *)
(* calls have bytes left to move, and that copied bytes stay put until the *)
(* fill counts them.                                                       *)
MutexHeld ==
  /\ mux = "writer" <=> wpc \in {"check", "commit"}
  /\ mux = "reader" <=> rpc \in {"check", "commit"}

LoadIsCurrent ==
  /\ wpc = "commit" => wFill = fifoFill /\ wFill + wN <= Size
  /\ rpc = "commit" => rFill = fifoFill /\ rN <= rFill

BytesLeft ==
  /\ wpc = "idle" => wBuf = <<>>
  /\ wpc \in {"size", "wait"} => Len(wBuf) > 0
  /\ rpc = "idle" => rLen = 0
  /\ rpc \in {"size", "low", "wait"} => rLen > 0

CopyIsIntact ==
  wpc = "commit" => \A i \in 1..wN : ram[fifoWpos + i - 1] = wBuf[i]

IInv ==
  /\ TypeOK /\ ChunkFits /\ PositionsAgree /\ SleepIsJustified
  /\ MutexHeld /\ LoadIsCurrent /\ BytesLeft /\ CopyIsIntact

(* The pipe the ring implements: the bytes between the two positions, less *)
(* a chunk the reader has copied out but not yet subtracted.               *)
copiedOut == IF rpc = "commit" THEN rN ELSE 0
live == [i \in 1..(fifoFill - copiedOut) |-> ram[Wrap(fifoRpos + copiedOut + i - 1)]]

Pipe == INSTANCE BytePipe WITH
  sending <- wBuf, stream <- live, want <- rLen, got <- rBuf

(* The ring implements the pipe: bytes leave it in the order they entered, *)
(* none lost, repeated, invented or overwritten while unread, and a read   *)
(* call returns exactly the bytes it was asked for.                        *)
PipeSpec == Pipe!PipeSpec

(* A write call returns as long as the reader keeps asking for bytes, and  *)
(* a read call as long as the writer keeps bringing some (header, lines    *)
(* 6-8: the calls block when the fifo is full or empty, and only then).    *)
WriteReturns == []<>(rpc = "size") => (wpc # "idle" ~> wpc = "idle")
ReadReturns == []<>(wpc = "size") => (rpc # "idle" ~> rpc = "idle")
=============================================================================
