------------------------------- MODULE FifoProofs -------------------------------
(***************************************************************************)
(* Proofs about SpiRamFifo and FifoSession for every ring, chunk, low      *)
(* watermark, mark, decoder buffer and set of bytes, buffers and read      *)
(* lengths the assumptions allow.                                          *)
(***************************************************************************)
EXTENDS FifoSession, SequenceTheorems, TLAPS

-----------------------------------------------------------------------------
(* The ring                                                                *)


(* What the two bounds on a chunk's size amount to.                        *)
LEMMA ChunkBounds ==
  ASSUME NEW len \in Nat \ {0}, NEW pos \in Cells
  PROVE  /\ ChunkSize(len, pos) \in 1..Chunk
         /\ ChunkSize(len, pos) <= len
         /\ pos + ChunkSize(len, pos) <= Size
  BY SizeAssumption DEF ChunkSize, AtMost, Cells

(* Dropping the first n bytes of a buffer.                                 *)
LEMMA DropBytes ==
  ASSUME NEW s \in Seq(Byte), NEW n \in 0..Len(s)
  PROVE  /\ SubSeq(s, n + 1, Len(s)) \in Seq(Byte)
         /\ Len(SubSeq(s, n + 1, Len(s))) = Len(s) - n
  <1>1. Len(s) \in Nat /\ \A i \in (n + 1)..Len(s) : s[i] \in Byte
    BY LenProperties, ElementOfSeq
  <1> QED
    BY <1>1, SubSeqProperties

(* The empty ring satisfies the invariant.                                 *)
LEMMA InitIInv == Init => IInv
  <1> SUFFICES ASSUME Init PROVE IInv
    OBVIOUS
  <1> USE SizeAssumption, CallAssumption
  <1>1. <<>> \in Seq(Byte) /\ Len(<<>>) = 0
    BY EmptySeq
  <1>2. TypeOK
    BY <1>1 DEF Init, FifoInit, TypeOK, Cells, WriterPc, ReaderPc
  <1>3. ChunkFits /\ PositionsAgree /\ SleepIsJustified
    BY DEF Init, FifoInit, ChunkFits, PositionsAgree, SleepIsJustified, Wrap
  <1>4. MutexHeld /\ LoadIsCurrent /\ BytesLeft /\ CopyIsIntact
    BY DEF Init, FifoInit, MutexHeld, LoadIsCurrent, BytesLeft, CopyIsIntact
  <1> QED
    BY <1>2, <1>3, <1>4 DEF IInv

(* Every step of either task keeps the invariant.                          *)
LEMMA NextIInv == IInv /\ [Next]_vars => IInv'
  <1> SUFFICES ASSUME IInv, [Next]_vars PROVE IInv'
    OBVIOUS
  <1> USE SizeAssumption, CallAssumption
  <1> USE DEF IInv, ChunkFits, PositionsAgree, SleepIsJustified, MutexHeld, LoadIsCurrent,
             BytesLeft, CopyIsIntact
  <1>1. CASE UNCHANGED vars
    BY <1>1 DEF TypeOK, vars, fifoVars, semVars, writerVars, readerVars
  <1>2. ASSUME NEW s \in Buffers, Write(s) PROVE IInv'
    <2>1. s \in Seq(Byte) /\ Len(s) > 0
      BY <1>2, EmptySeq, LenProperties
    <2> QED
      BY <1>2, <2>1 DEF Write, TypeOK, fifoVars, semVars, readerVars, WriterPc
  <1>3. CASE WriteSize
    <2>1. Len(wBuf) \in Nat \ {0} /\ fifoWpos \in Cells
      BY <1>3, LenProperties DEF WriteSize, TypeOK
    <2>2. wN' \in 1..Chunk /\ wN' <= Len(wBuf) /\ fifoWpos + wN' <= Size
      BY <1>3, <2>1, ChunkBounds DEF WriteSize
    <2> QED
      BY <1>3, <2>1, <2>2 DEF WriteSize, TypeOK, fifoVars, semVars, readerVars, WriterPc
  <1>4. CASE WriteTake
    BY <1>4 DEF WriteTake, TypeOK, fifoVars, semVars, readerVars, WriterPc
  <1>5. CASE WriteFull
    BY <1>5, LenProperties DEF WriteFull, TypeOK, fifoVars, semVars, readerVars, WriterPc
  <1>6. CASE WriteCopy
    <2>1. \A c \in fifoWpos..(fifoWpos + wN - 1) : wBuf[c - fifoWpos + 1] \in Byte
      BY <1>6, ElementOfSeq, LenProperties DEF WriteCopy, TypeOK, Cells
    <2>2. ram' \in [Cells -> Byte]
      BY <1>6, <2>1 DEF WriteCopy, TypeOK
    <2>3. CopyIsIntact'
      BY <1>6 DEF WriteCopy, TypeOK, Cells
    <2>4. (TypeOK /\ ChunkFits /\ PositionsAgree /\ SleepIsJustified /\ MutexHeld
            /\ LoadIsCurrent /\ BytesLeft)'
      BY <1>6, <2>2 DEF WriteCopy, TypeOK, semVars, readerVars, WriterPc
    <2> QED
      BY <2>3, <2>4
  <1>7. CASE WriteCommit
    <2>1. wBuf' \in Seq(Byte) /\ Len(wBuf') = Len(wBuf) - wN
      BY <1>7, DropBytes, LenProperties DEF WriteCommit, TypeOK
    <2> QED
      BY <1>7, <2>1 DEF WriteCommit, TypeOK, semVars, readerVars, WriterPc, Cells, Wrap
  <1>8. CASE WriteGive
    BY <1>8, EmptySeq DEF WriteGive, TypeOK, fifoVars, readerVars, WriterPc
  <1>9. CASE WriteWait
    BY <1>9 DEF WriteWait, TypeOK, fifoVars, readerVars, WriterPc
  <1>10. ASSUME NEW len \in Lengths, Read(len) PROVE IInv'
    BY <1>10, EmptySeq DEF Read, TypeOK, fifoVars, semVars, writerVars, ReaderPc, WriterPc
  <1>11. CASE ReadSize
    <2>1. rLen \in Nat \ {0} /\ fifoRpos \in Cells
      BY <1>11 DEF ReadSize, TypeOK
    <2>2. rN' \in 1..Chunk /\ rN' <= rLen /\ fifoRpos + rN' <= Size
      BY <1>11, <2>1, ChunkBounds DEF ReadSize
    <2> QED
      BY <1>11, <2>1, <2>2 DEF ReadSize, TypeOK, fifoVars, semVars, writerVars, ReaderPc, WriterPc
  <1>12. CASE ReadTake
    BY <1>12 DEF ReadTake, TypeOK, fifoVars, semVars, writerVars, ReaderPc, WriterPc
  <1>13. CASE ReadEmpty
    BY <1>13 DEF ReadEmpty, TypeOK, fifoVars, semVars, writerVars, ReaderPc, WriterPc
  <1>14. CASE ReadLow
    BY <1>14 DEF ReadLow, TypeOK, fifoVars, semVars, writerVars, ReaderPc, WriterPc
  <1>15. CASE ReadWait
    BY <1>15 DEF ReadWait, TypeOK, fifoVars, writerVars, ReaderPc, WriterPc
  <1>16. CASE ReadCopy
    <2> DEFINE chunk == [i \in 1..rN |-> ram[fifoRpos + i - 1]]
    <2>1. chunk \in Seq(Byte)
      <3>1. \A i \in 1..rN : ram[fifoRpos + i - 1] \in Byte
        BY <1>16 DEF ReadCopy, TypeOK, Cells
      <3> QED
        BY <3>1 DEF TypeOK
    <2>2. rBuf' \in Seq(Byte)
      BY <1>16, <2>1, ConcatProperties DEF ReadCopy, TypeOK
    <2> QED
      BY <1>16, <2>2 DEF ReadCopy, TypeOK, fifoVars, semVars, writerVars, ReaderPc, WriterPc
  <1>17. CASE ReadCommit
    BY <1>17 DEF ReadCommit, TypeOK, semVars, writerVars, ReaderPc, WriterPc, Cells, Wrap
  <1>18. CASE ReadGive
    BY <1>18 DEF ReadGive, TypeOK, fifoVars, writerVars, ReaderPc, WriterPc
  <1> QED
    BY <1>1, <1>2, <1>3, <1>4, <1>5, <1>6, <1>7, <1>8, <1>9, <1>10, <1>11,
       <1>12, <1>13, <1>14, <1>15, <1>16, <1>17, <1>18
    DEF Next, WriterStep, ReaderStep

(* The two tasks never corrupt a shared variable or leave its range.       *)
THEOREM TypeCorrect == Spec => []TypeOK
  BY InitIInv, NextIInv, PTL DEF Spec, IInv

(* Both copies stay inside the ring, although their size was computed      *)
(* before the mutex was taken.                                             *)
THEOREM CopiesFit == Spec => []ChunkFits
  BY InitIInv, NextIInv, PTL DEF Spec, IInv

(* Read position, write position and fill agree at every step.             *)
THEOREM Agreement == Spec => []PositionsAgree
  BY InitIInv, NextIInv, PTL DEF Spec, IInv

(* No wake-up is lost.                                                     *)
THEOREM NoLostWakeup == Spec => []SleepIsJustified
  BY InitIInv, NextIInv, PTL DEF Spec, IInv

(* The two sides never wait for each other, because two chunks less a byte *)
(* fit in the ring.                                                        *)
THEOREM NoEmbrace == Spec => []NeverBothAsleep
  <1>1. IInv => NeverBothAsleep
    <2> SUFFICES ASSUME IInv,
                        wpc = "wait", semCanWrite = 0, rpc = "wait", semCanRead = 0
                 PROVE  FALSE
      BY DEF NeverBothAsleep
    <2>1. fifoFill < rN /\ Size - fifoFill < wN
      BY DEF IInv, SleepIsJustified
    <2> QED
      BY <2>1, SizeAssumption DEF IInv, TypeOK
  <1> QED
    BY <1>1, InitIInv, NextIInv, PTL DEF Spec

-----------------------------------------------------------------------------
(* The ring implements the pipe.                                           *)

(* What lies between the positions is a sequence of bytes, as long as the  *)
(* fill says.                                                              *)
LEMMA LiveIsBytes ==
  ASSUME IInv
  PROVE  /\ live \in Seq(Byte)
         /\ Len(live) = fifoFill - copiedOut
         /\ fifoFill - copiedOut \in 0..Size
  <1> USE SizeAssumption
  <1>1. fifoFill - copiedOut \in 0..Size /\ copiedOut \in 0..Size
    BY DEF IInv, TypeOK, LoadIsCurrent, copiedOut
  <1>2. \A i \in 1..(fifoFill - copiedOut) :
          ram[Wrap(fifoRpos + copiedOut + i - 1)] \in Byte
    <2> TAKE i \in 1..(fifoFill - copiedOut)
    <2>1. fifoRpos \in Cells /\ fifoFill \in 0..Size
      BY DEF IInv, TypeOK
    <2>2. Wrap(fifoRpos + copiedOut + i - 1) \in Cells
      BY <1>1, <2>1 DEF Wrap, Cells
    <2> QED
      BY <2>2 DEF IInv, TypeOK
  <1> QED
    BY <1>1, <1>2 DEF live

(* The writer's copy does not touch a byte the reader has yet to read.     *)
LEMMA WriteCopyKeepsLive ==
  ASSUME IInv, IInv', WriteCopy
  PROVE  live' = live
  <1> USE SizeAssumption
  <1>1. UNCHANGED <<fifoRpos, fifoFill, rpc, rN>> /\ rpc # "commit"
    BY DEF WriteCopy, readerVars, IInv, MutexHeld
  <1>2. copiedOut = 0 /\ copiedOut' = 0
    BY <1>1 DEF copiedOut
  <1>3. ASSUME NEW i \in 1..fifoFill
        PROVE  ram'[Wrap(fifoRpos + i - 1)] = ram[Wrap(fifoRpos + i - 1)]
    <2>1. /\ fifoRpos \in Cells /\ fifoWpos \in Cells /\ fifoFill \in 0..Size
          /\ wN \in 1..Chunk /\ fifoWpos + wN <= Size /\ Size - fifoFill >= wN
          /\ fifoWpos = Wrap(fifoRpos + fifoFill)
      BY DEF WriteCopy, IInv, TypeOK, ChunkFits, PositionsAgree
    <2>2. /\ Wrap(fifoRpos + i - 1) \in Cells
          /\ Wrap(fifoRpos + i - 1) \notin fifoWpos..(fifoWpos + wN - 1)
      BY <2>1 DEF Wrap, Cells
    <2> QED
      BY <2>2 DEF WriteCopy
  <1> QED
    <2>1. fifoRpos \in Int /\ fifoFill \in Int
      BY DEF IInv, TypeOK, Cells
    <2>2. live = [i \in 1..fifoFill |-> ram[Wrap(fifoRpos + i - 1)]]
      BY <1>2, <2>1 DEF live
    <2>3. live' = [i \in 1..fifoFill |-> ram'[Wrap(fifoRpos + i - 1)]]
      BY <1>1, <1>2, <2>1 DEF live, Wrap
    <2> QED
      BY <1>3, <2>2, <2>3

(* The writer's commit appends the first wN bytes of its buffer.           *)
LEMMA WriteCommitAppends ==
  ASSUME IInv, IInv', WriteCommit
  PROVE  live' = live \o SubSeq(wBuf, 1, wN)
  <1> USE SizeAssumption
  <1> DEFINE head == SubSeq(wBuf, 1, wN)
  <1>1. /\ copiedOut = 0 /\ copiedOut' = 0
        /\ UNCHANGED <<fifoRpos, ram>> /\ fifoFill' = fifoFill + wN
    BY DEF WriteCommit, readerVars, IInv, MutexHeld, LoadIsCurrent, copiedOut
  <1>2. /\ fifoRpos \in Cells /\ fifoWpos \in Cells /\ fifoFill \in 0..Size
        /\ wN \in 1..Chunk /\ wN \in 1..Len(wBuf) /\ fifoWpos + wN <= Size
        /\ fifoFill + wN <= Size
        /\ fifoWpos = Wrap(fifoRpos + fifoFill)
        /\ \A i \in 1..wN : ram[fifoWpos + i - 1] = wBuf[i]
    BY DEF WriteCommit, IInv, TypeOK, ChunkFits, PositionsAgree, LoadIsCurrent, CopyIsIntact
  <1>3. head \in Seq(Byte) /\ Len(head) = wN /\ \A i \in 1..wN : head[i] = wBuf[i]
    <2>1. wBuf \in Seq(Byte)
      BY DEF IInv, TypeOK
    <2>2. \A i \in 1..wN : wBuf[i] \in Byte
      BY <1>2, <2>1, ElementOfSeq
    <2>3. wN \in Nat
      BY <1>2
    <2> QED
      BY <2>1, <2>2, <2>3, SubSeqProperties
  <1>4. live \in Seq(Byte) /\ Len(live) = fifoFill
    BY <1>1, <1>2, LiveIsBytes DEF Cells
  <1>5. /\ live \o head \in Seq(Byte)
        /\ Len(live \o head) = fifoFill + wN
        /\ \A i \in 1..(fifoFill + wN) :
             (live \o head)[i] = IF i <= fifoFill THEN live[i] ELSE head[i - fifoFill]
    BY <1>3, <1>4, ConcatProperties
  <1>6. live' = [i \in 1..(fifoFill + wN) |-> ram[Wrap(fifoRpos + i - 1)]]
    BY <1>1, <1>2 DEF live, Wrap, Cells
  <1>7. live = [i \in 1..fifoFill |-> ram[Wrap(fifoRpos + i - 1)]]
    BY <1>1, <1>2 DEF live, Cells
  <1>8. ASSUME NEW i \in 1..(fifoFill + wN)
        PROVE  live'[i] = (live \o head)[i]
    <2>1. CASE i <= fifoFill
      BY <1>2, <1>5, <1>6, <1>7, <2>1
    <2>2. CASE i > fifoFill
      <3>1. i - fifoFill \in 1..wN
        BY <1>2, <2>2
      <3>2. Wrap(fifoRpos + i - 1) = fifoWpos + (i - fifoFill) - 1
        <4>1. i <= fifoFill + wN /\ i > fifoFill /\ fifoRpos < Size
          BY <1>2, <2>2 DEF Cells
        <4>2. CASE fifoRpos + fifoFill >= Size
          <5>1. fifoWpos = fifoRpos + fifoFill - Size
            BY <1>2, <4>2 DEF Wrap
          <5> QED BY <1>2, <4>1, <4>2, <5>1 DEF Wrap, Cells
        <4>3. CASE fifoRpos + fifoFill < Size
          <5>1. fifoWpos = fifoRpos + fifoFill
            BY <1>2, <4>3 DEF Wrap
          <5> QED BY <1>2, <4>1, <4>3, <5>1 DEF Wrap, Cells
        <4> QED BY <1>2, <4>2, <4>3 DEF Cells
      <3> QED
        BY <1>2, <1>3, <1>5, <1>6, <3>1, <3>2
    <2>3. i <= fifoFill \/ i > fifoFill
      BY <1>2
    <2> QED
      BY <2>1, <2>2, <2>3
  <1>9. live' \in Seq(Byte) /\ Len(live') = fifoFill + wN
    <2>1. \A i \in 1..(fifoFill + wN) : ram[Wrap(fifoRpos + i - 1)] \in Byte
      BY <1>2 DEF Wrap, Cells, IInv, TypeOK
    <2>2. fifoFill + wN \in Nat
      BY <1>2
    <2> DEFINE n == fifoFill + wN
           bytes == [i \in 1..n |-> ram[Wrap(fifoRpos + i - 1)]]
    <2>3. bytes \in Seq(Byte) /\ Len(bytes) = n
      <3> HIDE DEF n
      <3>1. n \in Nat /\ \A i \in 1..n : ram[Wrap(fifoRpos + i - 1)] \in Byte
        BY <2>1, <2>2 DEF n
      <3> QED
        BY <3>1
    <2> QED
      BY <1>6, <2>3
  <1> QED
    BY <1>5, <1>8, <1>9, SeqEqual

(* The reader's copy delivers the oldest rN live bytes and removes them.   *)
LEMMA ReadCopyTakes ==
  ASSUME IInv, IInv', ReadCopy
  PROVE  /\ rN <= Len(live)
         /\ live' = SubSeq(live, rN + 1, Len(live))
         /\ rBuf' = rBuf \o SubSeq(live, 1, rN)
  <1> USE SizeAssumption
  <1>1. /\ copiedOut = 0 /\ copiedOut' = rN
        /\ UNCHANGED <<fifoRpos, fifoFill, ram, rN>>
        /\ rBuf' = rBuf \o [i \in 1..rN |-> ram[fifoRpos + i - 1]]
    BY DEF ReadCopy, fifoVars, copiedOut
  <1>2. /\ fifoRpos \in Cells /\ fifoFill \in 0..Size
        /\ rN \in 1..Chunk /\ fifoRpos + rN <= Size /\ rN <= fifoFill
    BY DEF ReadCopy, IInv, TypeOK, ChunkFits
  <1>3. live \in Seq(Byte) /\ Len(live) = fifoFill
    BY <1>1, <1>2, LiveIsBytes DEF Cells
  <1>4. live' \in Seq(Byte) /\ Len(live') = fifoFill - rN
    <2>1. \A i \in 1..(fifoFill - rN) : ram[Wrap(fifoRpos + rN + i - 1)] \in Byte
      BY <1>2 DEF Wrap, Cells, IInv, TypeOK
    <2>2. live' = [i \in 1..(fifoFill - rN) |-> ram[Wrap(fifoRpos + rN + i - 1)]]
      BY <1>1, <1>2 DEF live, Wrap, Cells
    <2> QED
      BY <1>2, <2>1, <2>2
  <1>5. live = [i \in 1..fifoFill |-> ram[Wrap(fifoRpos + i - 1)]]
    BY <1>1, <1>2 DEF live, Cells
  <1>6. /\ SubSeq(live, rN + 1, fifoFill) \in Seq(Byte)
        /\ Len(SubSeq(live, rN + 1, fifoFill)) = fifoFill - rN
        /\ \A i \in 1..(fifoFill - rN) : SubSeq(live, rN + 1, fifoFill)[i] = live[rN + i]
        /\ SubSeq(live, 1, rN) \in Seq(Byte)
        /\ Len(SubSeq(live, 1, rN)) = rN
        /\ \A i \in 1..rN : SubSeq(live, 1, rN)[i] = live[i]
    <2>1. \A i \in 1..fifoFill : live[i] \in Byte
      BY <1>3, ElementOfSeq
    <2> QED
      BY <1>2, <2>1, SubSeqProperties
  <1>7. live' = SubSeq(live, rN + 1, fifoFill)
    <2>1. live' = [i \in 1..(fifoFill - rN) |-> ram[Wrap(fifoRpos + rN + i - 1)]]
      BY <1>1, <1>2 DEF live, Wrap, Cells
    <2>2. ASSUME NEW i \in 1..(fifoFill - rN)
          PROVE  live'[i] = SubSeq(live, rN + 1, fifoFill)[i]
      <3>1. live'[i] = ram[Wrap(fifoRpos + rN + i - 1)]
        BY <2>1
      <3>2. live[rN + i] = ram[Wrap(fifoRpos + (rN + i) - 1)]
        BY <1>2, <1>5
      <3> QED
        BY <1>2, <1>6, <3>1, <3>2 DEF Cells
    <2> QED
      BY <1>4, <1>6, <2>2, SeqEqual
  <1>8. [i \in 1..rN |-> ram[fifoRpos + i - 1]] = SubSeq(live, 1, rN)
    <2> DEFINE chunk == [i \in 1..rN |-> ram[fifoRpos + i - 1]]
    <2>1. \A i \in 1..rN : ram[fifoRpos + i - 1] \in Byte
      BY <1>2 DEF Cells, IInv, TypeOK
    <2>2. chunk \in Seq(Byte) /\ Len(chunk) = rN
      BY <1>2, <2>1
    <2>3. \A i \in 1..rN : chunk[i] = live[i]
      BY <1>2, <1>5 DEF Wrap, Cells
    <2> QED
      BY <1>2, <1>6, <2>2, <2>3, SeqEqual
  <1> QED
    BY <1>1, <1>2, <1>3, <1>7, <1>8

(* Subtracting the copied chunk leaves the live bytes as they are.         *)
LEMMA ReadCommitKeepsLive ==
  ASSUME IInv, IInv', ReadCommit
  PROVE  live' = live
  <1> USE SizeAssumption
  <1>1. /\ copiedOut = rN /\ copiedOut' = 0
        /\ UNCHANGED <<ram, rN>> /\ fifoFill' = fifoFill - rN
        /\ fifoRpos' = IF fifoRpos + rN >= Size THEN 0 ELSE fifoRpos + rN
    BY DEF ReadCommit, copiedOut, IInv, LoadIsCurrent
  <1>2. /\ fifoRpos \in Cells /\ fifoFill \in 0..Size
        /\ rN \in 1..Chunk /\ fifoRpos + rN <= Size /\ rN <= fifoFill
    BY DEF ReadCommit, IInv, TypeOK, ChunkFits, LoadIsCurrent
  <1>3. live = [i \in 1..(fifoFill - rN) |-> ram[Wrap(fifoRpos + rN + i - 1)]]
    BY <1>1, <1>2 DEF live, Cells
  <1>4. live' = [i \in 1..(fifoFill - rN) |-> ram[Wrap(fifoRpos' + i - 1)]]
    BY <1>1, <1>2 DEF live, Wrap, Cells
  <1>5. ASSUME NEW i \in 1..(fifoFill - rN)
        PROVE  Wrap(fifoRpos' + i - 1) = Wrap(fifoRpos + rN + i - 1)
    BY <1>1, <1>2 DEF Wrap, Cells
  <1> QED
    BY <1>3, <1>4, <1>5

(* Every other step leaves what the pipe is made of alone.                 *)
LEMMA StutterKeepsPipe ==
  ASSUME UNCHANGED <<fifoRpos, fifoFill, ram, wBuf, rLen, rBuf>>,
         copiedOut' = copiedOut
  PROVE  UNCHANGED Pipe!pipeVars
  BY DEF Pipe!pipeVars, live, Wrap

(* The empty ring is the empty pipe.                                       *)
LEMMA InitImplementsPipe == Init => Pipe!PipeInit
  <1> SUFFICES ASSUME Init PROVE Pipe!PipeInit
    OBVIOUS
  <1>1. live \in Seq(Byte) /\ Len(live) = 0
    BY InitIInv, LiveIsBytes DEF Init, FifoInit, copiedOut
  <1> QED
    BY <1>1, EmptySeq DEF Init, Pipe!PipeInit

(* A commit of the writer is a Put, a copy of the reader a Get, the calls *)
(* are Submit and Request, and the pipe sees nothing else.                 *)
LEMMA StepImplementsPipe ==
  ASSUME IInv, IInv', [Next]_vars
  PROVE  [Pipe!PipeNext]_(Pipe!pipeVars)
  <1>1. CASE UNCHANGED vars
    BY <1>1, StutterKeepsPipe
    DEF vars, fifoVars, writerVars, readerVars, copiedOut
  <1>2. ASSUME NEW s \in Buffers, Write(s) PROVE Pipe!PipeNext
    <2>1. live' = live
      BY <1>2 DEF Write, fifoVars, readerVars, live, copiedOut, Wrap
    <2>2. Pipe!Submit(s)
      BY <1>2, <2>1 DEF Write, readerVars, Pipe!Submit, IInv, BytesLeft
    <2> QED
      BY <2>2 DEF Pipe!PipeNext
  <1>3. ASSUME WriteSize \/ WriteTake \/ WriteFull \/ WriteGive \/ WriteWait
        PROVE  UNCHANGED Pipe!pipeVars
    BY <1>3, StutterKeepsPipe
    DEF WriteSize, WriteTake, WriteFull, WriteGive, WriteWait,
        fifoVars, readerVars, copiedOut
  <1>4. CASE WriteCopy
    BY <1>4, WriteCopyKeepsLive DEF WriteCopy, readerVars, Pipe!pipeVars
  <1>5. CASE WriteCommit
    <2>1. wN \in 1..Len(wBuf)
      BY <1>5 DEF WriteCommit, IInv, ChunkFits
    <2>2. Len(live) = fifoFill /\ fifoFill + wN <= Size
      BY <1>5, LiveIsBytes
      DEF WriteCommit, IInv, TypeOK, MutexHeld, LoadIsCurrent, copiedOut
    <2>3. Pipe!Put(wN)
      BY <1>5, <2>1, <2>2, WriteCommitAppends
      DEF WriteCommit, readerVars, Pipe!Put, Pipe!Prefix, Pipe!Rest
    <2> QED
      BY <2>1, <2>3 DEF Pipe!PipeNext
  <1>6. ASSUME NEW len \in Lengths, Read(len) PROVE Pipe!PipeNext
    <2>1. live' = live
      BY <1>6 DEF Read, fifoVars, live, copiedOut, Wrap
    <2>2. Pipe!Request(len)
      BY <1>6, <2>1 DEF Read, writerVars, Pipe!Request, IInv, BytesLeft
    <2> QED
      BY <2>2 DEF Pipe!PipeNext
  <1>7. ASSUME ReadSize \/ ReadTake \/ ReadEmpty \/ ReadLow \/ ReadWait \/ ReadGive
        PROVE  UNCHANGED Pipe!pipeVars
    BY <1>7, StutterKeepsPipe
    DEF ReadSize, ReadTake, ReadEmpty, ReadLow, ReadWait, ReadGive,
        fifoVars, writerVars, copiedOut
  <1>8. CASE ReadCopy
    <2>1. rN \in 1..rLen
      BY <1>8 DEF ReadCopy, IInv, ChunkFits
    <2>2. Pipe!Get(rN)
      BY <1>8, <2>1, ReadCopyTakes
      DEF ReadCopy, writerVars, Pipe!Get, Pipe!Prefix, Pipe!Rest
    <2> QED
      BY <2>1, <2>2 DEF Pipe!PipeNext
  <1>9. CASE ReadCommit
    BY <1>9, ReadCommitKeepsLive DEF ReadCommit, writerVars, Pipe!pipeVars
  <1> QED
    BY <1>1, <1>2, <1>3, <1>4, <1>5, <1>6, <1>7, <1>8, <1>9
    DEF Next, WriterStep, ReaderStep

(* The ring implements the pipe: bytes leave in the order they entered,    *)
(* none lost, repeated or overwritten, for every size and every schedule.  *)
THEOREM ImplementsPipe == Spec => PipeSpec
  BY InitIInv, NextIInv, InitImplementsPipe, StepImplementsPipe, PTL
  DEF Spec, PipeSpec, Pipe!PipeSpec

-----------------------------------------------------------------------------
(* The session.  The ring's own invariant is not proved again: every step  *)
(* of a session is a step of the ring, or one of the two steps of          *)
(* spiRamFifoReset.                                                        *)

(* What a step of the session does to the ring.                            *)
LEMMA RingOrReset ==
  ASSUME SessionTypeOK, Promise, [SessionNext]_sessionVars
  PROVE  [Next]_vars \/ DecoderResets \/ DecoderResetEnds
  <1>1. CASE UNCHANGED sessionVars
    BY <1>1 DEF sessionVars, ringVars
  <1>2. ASSUME NEW s \in Buffers, ConsumerWrites(s) PROVE Next
    BY <1>2 DEF ConsumerWrites, Next
  <1>3. CASE SpiRamFifoWriteStep \/ SpiRamFifoReadStep
    BY <1>3 DEF SpiRamFifoWriteStep, SpiRamFifoReadStep, Next
  <1>4. CASE DecoderFill
    <2>1. AtMost(space, fifoFill) \in Lengths
      <3>1. space \in 0..MaxSpace /\ fifoFill \in 0..Size /\ fifoFill > 0 /\ dpc = "fill"
        BY <1>4 DEF DecoderFill, SessionTypeOK, TypeOK
      <3>2. space > 0
        BY <3>1 DEF Promise
      <3> QED
        BY <3>1, <3>2, SessionAssumption, SizeAssumption DEF AtMost
    <2>2. Read(AtMost(space, fifoFill))
      BY <1>4 DEF DecoderFill
    <2> QED
      BY <2>1, <2>2 DEF Next
  <1>5. ASSUME \/ ConsumerLevel \/ ConsumerGoesOn \/ ConsumerCreates \/ ConsumerMarks
               \/ ConsumerCannotCreate \/ ConsumerStops \/ NextStream \/ StreamEnds
               \/ DecoderInput \/ (\E room \in 0..MaxSpace : DecoderLook(room))
               \/ DecoderStarved \/ DecoderDecodes \/ DecoderStopped \/ DecoderClears
        PROVE  UNCHANGED vars
    BY <1>5
    DEF ConsumerLevel, ConsumerGoesOn, ConsumerCreates, ConsumerMarks, ConsumerCannotCreate,
        ConsumerStops, NextStream, StreamEnds, DecoderInput, DecoderLook, DecoderStarved,
        DecoderDecodes, DecoderStopped, DecoderClears, ringVars
  <1> QED
    BY <1>1, <1>2, <1>3, <1>4, <1>5 DEF SessionNext, ConsumerStep, DecoderStep

-----------------------------------------------------------------------------
LEMMA SessionInitInv == SessionInit => SessionInv
  <1> SUFFICES ASSUME SessionInit PROVE SessionInv
    OBVIOUS
  <1>1. IInv /\ TypeOK
    BY InitIInv DEF SessionInit, IInv
  <1>2. SessionTypeOK
    <2>1. MaxSpace \in Nat /\ Size \in Nat
      BY SessionAssumption, SizeAssumption
    <2>2. eof \in BOOLEAN /\ level = 0 /\ space = 0
      BY DEF SessionInit
    <2>3. cpc \in ConsumerPc /\ dpc \in DecoderPc
      BY DEF SessionInit, ConsumerPc, DecoderPc
    <2> QED
      BY <1>1, <2>1, <2>2, <2>3 DEF SessionInit, SessionTypeOK
  <1>3. Places /\ Promise /\ Life /\ Token /\ Room
    BY SessionAssumption, SizeAssumption
    DEF SessionInit, Init, FifoInit, Places, Promise, Life, Token, Room,
           copiedOut, Serving, Leaving
  <1> QED
    BY <1>1, <1>2, <1>3 DEF SessionInv

(* The reset is made while nobody is inside the ring, so it keeps the      *)
(* ring's invariant.                                                       *)
LEMMA ResetKeepsRing ==
  ASSUME SessionInv, DecoderResets \/ DecoderResetEnds
  PROVE  IInv'
  <1> USE SizeAssumption
  <1>1. wpc = "idle" /\ rpc = "idle"
    BY DEF SessionInv, Places, Life, Leaving, DecoderResets, DecoderResetEnds
  <1>2. UNCHANGED <<ram, wpc, wBuf, wN, wFill, rpc, rLen, rN, rFill, rBuf>>
    BY DEF DecoderResets, DecoderResetEnds, fifoVars, writerVars, readerVars
  <1>3. TypeOK'
    BY <1>2 DEF SessionInv, IInv, TypeOK, DecoderResets, DecoderResetEnds, fifoVars, Cells
  <1>4. PositionsAgree'
    BY <1>2 DEF SessionInv, IInv, PositionsAgree, Wrap, DecoderResets, DecoderResetEnds, fifoVars
  <1>5. (ChunkFits /\ SleepIsJustified /\ LoadIsCurrent /\ BytesLeft /\ CopyIsIntact)'
    BY <1>1, <1>2
    DEF SessionInv, IInv, ChunkFits, SleepIsJustified, LoadIsCurrent, BytesLeft, CopyIsIntact
  <1>6. MutexHeld'
    BY <1>1, <1>2 DEF MutexHeld, DecoderResets, DecoderResetEnds
  <1> QED
    BY <1>3, <1>4, <1>5, <1>6 DEF IInv

(* A step of the writer inside spiRamFifoWrite.                            *)
LEMMA WriteStepKeeps ==
  ASSUME SessionInv, IInv', SpiRamFifoWriteStep
  PROVE  SessionInv'
  <1> USE SizeAssumption, SessionAssumption
  <1>1. UNCHANGED <<playerVars, consumerVars, decoderVars, readerVars>>
    BY DEF SpiRamFifoWriteStep, WriterStep, WriteSize, WriteTake, WriteFull, WriteCopy,
           WriteCommit, WriteGive, WriteWait
  <1>2. wpc # "idle" /\ cpc = "writing" /\ ~Leaving
    BY DEF SpiRamFifoWriteStep, WriterStep, WriteSize, WriteTake, WriteFull, WriteCopy,
           WriteCommit, WriteGive, WriteWait, SessionInv, Places, Life, Leaving
  <1>3. SessionTypeOK'
    BY <1>1 DEF SessionInv, IInv, SessionTypeOK, playerVars, consumerVars, decoderVars
  <1>4. Life'
    BY <1>1 DEF SessionInv, Life, Leaving, Serving, playerVars, consumerVars, decoderVars
  <1>5. Places'
    BY <1>1, <1>2
    DEF SpiRamFifoWriteStep, WriterStep, WriteSize, WriteTake, WriteFull, WriteCopy,
        WriteCommit, WriteGive, WriteWait, SessionInv, Places, Life, Leaving,
        consumerVars, decoderVars, readerVars
  <1>6. fifoFill' \in Nat /\ fifoFill \in Nat /\ fifoFill' >= fifoFill
    BY DEF SpiRamFifoWriteStep, WriterStep, WriteSize, WriteTake, WriteFull, WriteCopy,
           WriteCommit, WriteGive, WriteWait, fifoVars, SessionInv, IInv, TypeOK, LoadIsCurrent
  <1>7. Promise'
    BY <1>1, <1>6
    DEF SessionInv, IInv, TypeOK, Promise, copiedOut, readerVars, decoderVars
  <1>8. Token'
    BY <1>1, <1>2
    DEF SpiRamFifoWriteStep, WriterStep, WriteSize, WriteTake, WriteFull, WriteCopy,
        WriteCommit, WriteGive, WriteWait, SessionInv, Token, Serving, Leaving,
        semVars, consumerVars, decoderVars
  <1>9. dpc = "none" => fifoFill' + Len(wBuf') <= Size /\ wpc' # "wait"
    <2> SUFFICES ASSUME dpc = "none"
                 PROVE  fifoFill' + Len(wBuf') <= Size /\ wpc' # "wait"
      OBVIOUS
    <2>1. fifoFill + Len(wBuf) <= Size /\ wpc # "wait" /\ Len(wBuf) \in Nat
      BY <1>2, LenProperties DEF SessionInv, Room, Serving, IInv, TypeOK
    <2>2. CASE WriteFull
      BY <2>1, <2>2 DEF WriteFull, SessionInv, IInv, TypeOK, ChunkFits
    <2>3. CASE WriteCommit
      <3>1. Len(wBuf') = Len(wBuf) - wN
        BY <2>3, DropBytes, LenProperties
        DEF WriteCommit, SessionInv, IInv, TypeOK, ChunkFits
      <3>2. fifoFill' = fifoFill + wN /\ wpc' = "give" /\ wN \in Nat /\ fifoFill \in Nat
        BY <2>3 DEF WriteCommit, SessionInv, IInv, TypeOK, LoadIsCurrent
      <3> QED
        BY <2>1, <3>1, <3>2
    <2>4. CASE WriteSize \/ WriteTake \/ WriteCopy \/ WriteGive \/ WriteWait
      BY <2>1, <2>4 DEF WriteSize, WriteTake, WriteCopy, WriteGive, WriteWait, fifoVars
    <2> QED
      BY <2>2, <2>3, <2>4 DEF SpiRamFifoWriteStep, WriterStep
  <1>10. Room'
    <2>1. dpc' = dpc /\ cpc' = "writing"
      BY <1>1, <1>2 DEF consumerVars, decoderVars
    <2>2. wpc' = "wait" => Serving'
      BY <1>2, <1>9, <2>1 DEF Serving, Leaving, SessionInv, SessionTypeOK, DecoderPc
    <2> QED
      BY <1>9, <2>1, <2>2 DEF Room
  <1> QED
    BY <1>3, <1>4, <1>5, <1>7, <1>8, <1>10 DEF SessionInv

(* A step of the decoder inside spiRamFifoRead.                            *)
LEMMA ReadStepKeeps ==
  ASSUME SessionInv, IInv', SpiRamFifoReadStep
  PROVE  SessionInv'
  <1> USE SizeAssumption, SessionAssumption
  <1>1. UNCHANGED <<playerVars, consumerVars, decoderVars, writerVars>>
    BY DEF SpiRamFifoReadStep, ReaderStep, ReadSize, ReadTake, ReadEmpty, ReadLow, ReadWait,
           ReadCopy, ReadCommit, ReadGive
  <1>2. rpc # "idle" /\ dpc = "reading"
    BY DEF SpiRamFifoReadStep, ReaderStep, ReadSize, ReadTake, ReadEmpty, ReadLow, ReadWait,
           ReadCopy, ReadCommit, ReadGive, SessionInv, Places
  <1>3. ReadSize \/ ReadTake \/ ReadCopy \/ ReadCommit \/ ReadGive
    <2>1. ~ReadLow /\ ~ReadWait
      BY DEF ReadLow, ReadWait, SessionInv, Promise
    <2>2. ~ReadEmpty
      BY DEF ReadEmpty, SessionInv, IInv, TypeOK, ChunkFits, Promise, copiedOut
    <2> QED
      BY <2>1, <2>2 DEF SpiRamFifoReadStep, ReaderStep
  <1>4. SessionTypeOK'
    BY <1>1 DEF SessionInv, IInv, SessionTypeOK, playerVars, consumerVars, decoderVars
  <1>5. Life'
    BY <1>1 DEF SessionInv, Life, Leaving, Serving, playerVars, consumerVars, decoderVars
  <1>6. Places'
    BY <1>1, <1>2, <1>3
    DEF ReadSize, ReadTake, ReadCopy, ReadCommit, ReadGive, SessionInv, Places,
        consumerVars, decoderVars, writerVars
  <1>7. Promise'
    <2>1. CASE ReadSize \/ ReadTake \/ ReadGive
      BY <1>1, <1>2, <2>1
      DEF ReadSize, ReadTake, ReadGive, SessionInv, IInv, TypeOK, Promise, copiedOut,
          fifoVars, decoderVars
    <2>2. CASE ReadCopy
      BY <1>1, <1>2, <2>2
      DEF ReadCopy, SessionInv, IInv, TypeOK, ChunkFits, Promise, copiedOut, fifoVars, decoderVars
    <2>3. CASE ReadCommit
      BY <1>1, <1>2, <2>3
      DEF ReadCommit, SessionInv, IInv, TypeOK, LoadIsCurrent, Promise, copiedOut, decoderVars
    <2> QED
      BY <1>3, <2>1, <2>2, <2>3
  <1>8. Token'
    BY <1>1, <1>2, <1>3
    DEF ReadSize, ReadTake, ReadCopy, ReadCommit, ReadGive, SessionInv, Token, Serving,
        semVars, consumerVars, decoderVars, writerVars
  <1>9. Room'
    BY <1>1, <1>2 DEF SessionInv, Room, Serving, consumerVars, decoderVars, writerVars
  <1> QED
    BY <1>4, <1>5, <1>6, <1>7, <1>8, <1>9 DEF SessionInv

(* Every step of the session keeps the invariant.                          *)
LEMMA SessionNextInv == SessionInv /\ [SessionNext]_sessionVars => SessionInv'
  <1> SUFFICES ASSUME SessionInv, [SessionNext]_sessionVars PROVE SessionInv'
    OBVIOUS
  <1>1. IInv'
    BY RingOrReset, ResetKeepsRing, NextIInv DEF SessionInv
  <1>2. TypeOK' /\ SessionTypeOK /\ Places /\ Promise /\ Life /\ Token /\ Room
    BY <1>1 DEF SessionInv, IInv
  <1> DEFINE Rest == SessionTypeOK /\ Places /\ Promise /\ Life /\ Token /\ Room
  <1> SUFFICES SessionInv' \/ Rest'
    BY <1>1 DEF SessionInv
  <1> USE DEF SessionTypeOK, ConsumerPc, DecoderPc, Places, Promise, Life, Token, Room,
              copiedOut, Serving, Leaving
  <1>3. CASE UNCHANGED sessionVars
    BY <1>2, <1>3
    DEF sessionVars, ringVars, vars, fifoVars, semVars, writerVars, readerVars,
        playerVars, consumerVars, decoderVars
  <1>4. CASE SpiRamFifoWriteStep
    BY <1>1, <1>4, WriteStepKeeps
  <1>5. CASE SpiRamFifoReadStep
    BY <1>1, <1>5, ReadStepKeeps
  <1>6. ASSUME NEW s \in Buffers, ConsumerWrites(s) PROVE Rest'
    <2>1. s \in Seq(Byte) /\ Len(s) \in Nat /\ Mark + Len(s) <= Size
      BY SessionAssumption, CallAssumption, LenProperties
    <2> QED
      BY <1>2, <1>6, <2>1, SessionAssumption, SizeAssumption
      DEF ConsumerWrites, Write, TypeOK, fifoVars, semVars, readerVars, playerVars, decoderVars
  <1> USE DEF ringVars, vars, fifoVars, semVars, writerVars, readerVars,
              playerVars, consumerVars, decoderVars
  <1>7. CASE ConsumerLevel
    BY <1>2, <1>7 DEF ConsumerLevel, TypeOK
  <1>8. CASE ConsumerGoesOn
    BY <1>2, <1>8, SessionAssumption, SizeAssumption DEF ConsumerGoesOn, wantsDecoder, TypeOK
  <1>9. CASE ConsumerCreates
    BY <1>2, <1>9 DEF ConsumerCreates, wantsDecoder
  <1>10. CASE ConsumerCannotCreate
    BY <1>2, <1>10 DEF ConsumerCannotCreate
  <1>11. CASE ConsumerMarks
    BY <1>2, <1>11 DEF ConsumerMarks
  <1>12. CASE ConsumerStops
    BY <1>2, <1>12 DEF ConsumerStops
  <1>13. CASE NextStream
    <2>1. fifoFill' = 0 /\ Mark \in Nat /\ decoder_command' = "NONE" /\ eof' = FALSE
      BY <1>2, <1>13, SessionAssumption DEF NextStream
    <2>2. SessionTypeOK' /\ Places' /\ Promise'
      BY <1>2, <1>13, <2>1 DEF NextStream
    <2>3. Life'
      BY <1>2, <1>13, <2>1 DEF NextStream
    <2>4. Token' /\ Room'
      BY <1>2, <1>13, <2>1 DEF NextStream
    <2> QED
      BY <2>2, <2>3, <2>4
  <1>14. CASE StreamEnds
    BY <1>2, <1>14 DEF StreamEnds
  <1>15. CASE DecoderInput
    BY <1>2, <1>15 DEF DecoderInput
  <1>16. ASSUME NEW room \in 0..MaxSpace, DecoderLook(room) PROVE Rest'
    BY <1>2, <1>16, SessionAssumption DEF DecoderLook, TypeOK
  <1>17. CASE DecoderStarved
    BY <1>2, <1>17 DEF DecoderStarved
  <1>18. CASE DecoderFill
    BY <1>2, <1>18, SessionAssumption, SizeAssumption DEF DecoderFill, Read, AtMost, TypeOK
  <1>19. CASE DecoderDecodes
    BY <1>2, <1>19 DEF DecoderDecodes
  <1>20. CASE DecoderResets
    BY <1>2, <1>20 DEF DecoderResets
  <1>21. CASE DecoderResetEnds
    BY <1>2, <1>21 DEF DecoderResetEnds
  <1>22. CASE DecoderStopped
    BY <1>2, <1>22 DEF DecoderStopped
  <1>23. CASE DecoderClears
    BY <1>2, <1>23 DEF DecoderClears
  <1> QED
    BY <1>3, <1>4, <1>5, <1>6, <1>7, <1>8, <1>9, <1>10, <1>11, <1>12, <1>13, <1>14, <1>15,
       <1>16, <1>17, <1>18, <1>19, <1>20, <1>21, <1>22, <1>23
    DEF SessionNext, ConsumerStep, DecoderStep

(* Through resets and the lives of any number of decoders the shared       *)
(* variables stay in their ranges.                                         *)
THEOREM SessionTypeCorrect == SessionSpec => []SessionTypeOK
  BY SessionInitInv, SessionNextInv, PTL DEF SessionSpec, SessionInv

(* The decoder never sleeps in spiRamFifoRead, where it could not see a    *)
(* stop command.                                                           *)
THEOREM NeverSleeps == SessionSpec => []DecoderNeverSleeps
  <1>1. SessionInv => DecoderNeverSleeps
    BY DEF SessionInv, Promise, DecoderNeverSleeps
  <1> QED
    BY <1>1, SessionInitInv, SessionNextInv, PTL DEF SessionSpec

(* spiRamFifoReset never waits for semCanRead with the mutex taken.        *)
THEOREM ResetServed == SessionSpec => []ResetIsServed
  <1>1. SessionInv => ResetIsServed
    BY DEF SessionInv, Token, ResetIsServed
  <1> QED
    BY <1>1, SessionInitInv, SessionNextInv, PTL DEF SessionSpec

(* The writer waits for room only while a decoder is there to make it.     *)
THEOREM RoomMade == SessionSpec => []RoomIsMade
  <1>1. SessionInv => RoomIsMade
    <2> SUFFICES ASSUME SessionInv, wpc = "wait"
                 PROVE  Serving /\ decoder_command = "NONE" /\ ~eof
      BY DEF RoomIsMade
    <2>1. Serving /\ cpc = "writing"
      BY DEF SessionInv, Room, Places
    <2>2. decoder_command = "NONE"
      BY <2>1 DEF SessionInv, SessionTypeOK, Life
    <2>3. ~eof
      BY <2>1 DEF SessionInv, Life
    <2> QED
      BY <2>1, <2>2, <2>3
  <1> QED
    BY <1>1, SessionInitInv, SessionNextInv, PTL DEF SessionSpec

(* A decoder is created only when none is there, on a count that is true.  *)
THEOREM DecisionCurrent == SessionSpec => []DecisionIsCurrent
  <1>1. SessionInv => DecisionIsCurrent
    <2> SUFFICES ASSUME SessionInv, cpc = "decide", wantsDecoder
                 PROVE  dpc = "none" /\ level = fifoFill
      BY DEF DecisionIsCurrent
    <2>1. ~Serving /\ ~Leaving
      BY DEF SessionInv, Life, wantsDecoder
    <2>2. dpc = "none"
      BY <2>1 DEF SessionInv, SessionTypeOK, DecoderPc, Serving, Leaving
    <2> QED
      BY <2>2 DEF SessionInv, Room
  <1> QED
    BY <1>1, SessionInitInv, SessionNextInv, PTL DEF SessionSpec

-----------------------------------------------------------------------------
(* The ring with its resets implements a pipe that can be emptied.         *)

(* Zeroing the positions is a Flush.                                       *)
LEMMA ResetFlushes ==
  ASSUME SessionInv, SessionInv', DecoderResets
  PROVE  Pipe!Flush
  <1>1. rpc' = "idle" /\ fifoFill' = 0 /\ UNCHANGED <<wBuf, rLen, rBuf>>
    BY DEF SessionInv, Places, DecoderResets, writerVars, readerVars
  <1>2. copiedOut' = 0
    BY <1>1 DEF copiedOut
  <1>3. live' \in Seq(Byte) /\ Len(live') = 0
    <2>1. live' = [i \in 1..0 |-> ram'[Wrap(fifoRpos + copiedOut + i - 1)']]
      BY <1>1, <1>2 DEF live
    <2> QED
      BY <2>1
  <1>4. live' = <<>>
    BY <1>3, EmptySeq
  <1> QED
    BY <1>1, <1>4 DEF Pipe!Flush

(* The second half of the reset does not show in the pipe.                 *)
LEMMA ResetEndKeepsPipe ==
  ASSUME DecoderResetEnds
  PROVE  UNCHANGED Pipe!pipeVars
  BY StutterKeepsPipe DEF DecoderResetEnds, fifoVars, writerVars, readerVars, copiedOut

(* Across all lives of all decoders, bytes leave the ring in the order     *)
(* they entered, and only a reset discards any.                            *)
THEOREM ImplementsFlushablePipe == SessionSpec => FlushablePipe
  <1>1. SessionInit => Pipe!PipeInit
    BY InitImplementsPipe DEF SessionInit
  <1>2. ASSUME SessionInv, SessionInv', [SessionNext]_sessionVars
        PROVE  [Pipe!PipeNext \/ Pipe!Flush]_(Pipe!pipeVars)
    <2>1. CASE [Next]_vars
      BY <1>2, <2>1, StepImplementsPipe DEF SessionInv
    <2>2. CASE DecoderResets
      BY <1>2, <2>2, ResetFlushes
    <2>3. CASE DecoderResetEnds
      BY <2>3, ResetEndKeepsPipe
    <2> QED
      BY <1>2, <2>1, <2>2, <2>3, RingOrReset DEF SessionInv
  <1> QED
    BY <1>1, <1>2, SessionInitInv, SessionNextInv, PTL
    DEF SessionSpec, FlushablePipe, Pipe!FlushablePipeSpec
=============================================================================
