----------------------------- MODULE ReadBufferProofs -----------------------------
(***************************************************************************)
(* The read buffer, for every size of the buffer, of the FIFO and of the   *)
(* stream: the invariants of ReadBuffer, and that it implements the cursor *)
(* of StreamCursor.                                                        *)
(*                                                                         *)
(* The second part is about the MP4 demuxer, which reads through it: for   *)
(* every file whose lengths are true it stays in its place.  The argument  *)
(* is in three steps: where a script leads, operation by operation, and    *)
(* that each handler's leads to the end of its atom; that entering,        *)
(* leaving and going on in a loop keeps what the loops expect equal to the *)
(* ends of their atoms; and that in every state, also inside a call of the *)
(* buffer, the script under way leads to such a place (Walking).           *)
(***************************************************************************)
EXTENDS Mp4Demux, SequenceTheorems, TLAPS

(* What a refill under way relies on: the bytes are at the front, those it *)
(* has seen in the FIFO are still there, since nobody else takes any, and  *)
(* when it looks again the first look found no more than there is room     *)
(* for.                                                                    *)
Refilling ==
  /\ pc \in {"look", "copy"} => read_pos = 0 /\ looked <= spiRamFifoFill
  /\ pc = "look" => looked <= Size - write_pos
  /\ pc = "copy" => bytes_to_read <= spiRamFifoFill

BufferInv == BufferTypeOK /\ UnreadIsNext /\ ExcessIsWhatCame /\ Refilling

-----------------------------------------------------------------------------
(* Moving the unread bytes to the front keeps them what they are.          *)
LEMMA MoveKeepsUnread ==
  ASSUME BufferTypeOK, UnreadIsNext, FillPurges
  PROVE  /\ base' \in [Cells -> Nat]
         /\ \A i \in Cells : i \in read_pos'..(write_pos' - 1)
              => base'[i] = bytes_consumed' + (i - read_pos') + 1
  <1>1. /\ base' = [i \in Cells |->
                     IF i < buf_data_unread THEN base[read_pos + i] ELSE base[i]]
        /\ read_pos' = 0 /\ write_pos' = write_pos - read_pos
        /\ bytes_consumed' = bytes_consumed
    BY DEF FillPurges, buf_data_unread
  <1>2. /\ Size \in Nat /\ read_pos \in Nat /\ write_pos \in 0..Size
        /\ base \in [Cells -> Nat] /\ bytes_consumed \in Nat /\ read_pos <= write_pos
    BY BufferAssumption DEF BufferTypeOK, UnreadIsNext
  <1>3. ASSUME NEW i \in Cells, i < write_pos - read_pos
        PROVE  /\ read_pos + i \in Cells
               /\ base[read_pos + i] = bytes_consumed + i + 1
    <2>1. read_pos + i \in Cells /\ read_pos + i \in read_pos..(write_pos - 1)
      BY <1>2, <1>3 DEF Cells
    <2>2. base[read_pos + i] = bytes_consumed + ((read_pos + i) - read_pos) + 1
      BY <2>1 DEF UnreadIsNext
    <2> QED BY <2>1, <2>2, <1>2 DEF Cells
  <1>4. base' \in [Cells -> Nat]
    BY <1>1, <1>2, <1>3 DEF buf_data_unread
  <1>5. ASSUME NEW i \in Cells, i \in read_pos'..(write_pos' - 1)
        PROVE  base'[i] = bytes_consumed' + (i - read_pos') + 1
    <2>1. i < write_pos - read_pos
      BY <1>1, <1>2, <1>5 DEF Cells
    <2>2. base'[i] = base[read_pos + i]
      BY <1>1, <2>1 DEF buf_data_unread
    <2> QED BY <1>1, <1>2, <1>3, <2>1, <2>2 DEF Cells
  <1> QED BY <1>4, <1>5

(* What is copied in continues what is there.                              *)
LEMMA CopyContinues ==
  ASSUME BufferTypeOK, UnreadIsNext, FillCopies
  PROVE  /\ base' \in [Cells -> Nat]
         /\ \A i \in Cells : i \in read_pos'..(write_pos' - 1)
              => base'[i] = bytes_consumed' + (i - read_pos') + 1
  <1>1. /\ base' = [i \in Cells |->
                     IF i \in write_pos..(write_pos + bytes_to_read - 1)
                     THEN taken + (i - write_pos) + 1 ELSE base[i]]
        /\ read_pos' = read_pos /\ write_pos' = write_pos + bytes_to_read
        /\ bytes_consumed' = bytes_consumed
    BY DEF FillCopies, posVars
  <1>2. /\ Size \in Nat /\ read_pos \in Nat /\ write_pos \in 0..Size
        /\ bytes_to_read \in Nat /\ taken \in Nat
        /\ base \in [Cells -> Nat] /\ bytes_consumed \in Nat /\ read_pos <= write_pos
        /\ taken = bytes_consumed + (write_pos - read_pos)
    BY BufferAssumption DEF BufferTypeOK, UnreadIsNext, buf_data_unread
  <1>3. base' \in [Cells -> Nat]
    BY <1>1, <1>2 DEF Cells
  <1>4. ASSUME NEW i \in Cells, i \in read_pos'..(write_pos' - 1)
        PROVE  base'[i] = bytes_consumed' + (i - read_pos') + 1
    <2>1. CASE i < write_pos
      <3>1. i \in read_pos..(write_pos - 1) /\ i \notin write_pos..(write_pos + bytes_to_read - 1)
        BY <1>1, <1>2, <1>4, <2>1 DEF Cells
      <3>2. base[i] = bytes_consumed + (i - read_pos) + 1
        BY <3>1 DEF UnreadIsNext
      <3> QED BY <1>1, <3>1, <3>2
    <2>2. CASE i >= write_pos
      <3>1. i \in write_pos..(write_pos + bytes_to_read - 1)
        BY <1>1, <1>2, <1>4, <2>2 DEF Cells
      <3>2. base'[i] = taken + (i - write_pos) + 1
        BY <1>1, <3>1
      <3> QED BY <1>1, <1>2, <3>2 DEF Cells
    <2> QED BY <1>2, <2>1, <2>2 DEF Cells
  <1> QED BY <1>3, <1>4

(* Going over unread bytes keeps the rest of them what they are.           *)
LEMMA ForwardKeepsUnread ==
  ASSUME BufferTypeOK, UnreadIsNext,
         NEW n \in 0..buf_data_unread,
         base' = base, write_pos' = write_pos,
         read_pos' = read_pos + n, bytes_consumed' = bytes_consumed + n
  PROVE  \A i \in Cells : i \in read_pos'..(write_pos' - 1)
           => base'[i] = bytes_consumed' + (i - read_pos') + 1
  <1>1. /\ Size \in Nat /\ read_pos \in Nat /\ write_pos \in 0..Size
        /\ bytes_consumed \in Nat /\ read_pos <= write_pos
    BY BufferAssumption DEF BufferTypeOK, UnreadIsNext
  <1>2. ASSUME NEW i \in Cells, i \in read_pos'..(write_pos' - 1)
        PROVE  base'[i] = bytes_consumed' + (i - read_pos') + 1
    <2>1. i \in read_pos..(write_pos - 1)
      BY <1>1, <1>2 DEF Cells, buf_data_unread
    <2>2. base[i] = bytes_consumed + (i - read_pos) + 1
      BY <2>1 DEF UnreadIsNext
    <2> QED BY <1>1, <2>2 DEF Cells, buf_data_unread
  <1> QED BY <1>2

-----------------------------------------------------------------------------
(* The invariant                                                           *)

LEMMA BufferInitInv == BufferInit => BufferInv
  BY BufferAssumption
  DEF BufferInit, BufferInv, BufferTypeOK, UnreadIsNext, ExcessIsWhatCame, Refilling,
      Cells, buf_data_unread

(* The steps of the HTTP task and of a client that may ask for anything.   *)
BufferStep == Store \/ Fill \/ (\E n \in Nat : Seek(n) \/ Read(n)) \/ CallStep

LEMMA BufferStepInv ==
  ASSUME BufferInv, [BufferStep]_bufferVars
  PROVE  BufferInv'
<1> USE BufferAssumption
<1> USE DEF BufferInv, BufferTypeOK, UnreadIsNext, ExcessIsWhatCame, Refilling,
            buf_data_unread, spiRamFifoFill
<1>1. CASE Store
  BY <1>1 DEF Store, posVars, fillVars, callVars
<1>2. CASE Fill
  BY <1>2 DEF Fill, posVars, fifoVars, callVars
<1>3. ASSUME NEW n \in Nat, Seek(n) PROVE BufferInv'
  BY <1>3 DEF Seek, posVars, fifoVars, fillVars
<1>4. ASSUME NEW n \in Nat, Read(n) PROVE BufferInv'
  BY <1>4 DEF Read, posVars, fifoVars, fillVars
<1>5. CASE FillPurges
  <2>1. /\ base' \in [Cells -> Nat]
        /\ \A i \in Cells : i \in read_pos'..(write_pos' - 1)
             => base'[i] = bytes_consumed' + (i - read_pos') + 1
    BY <1>5, MoveKeepsUnread
  <2>2. /\ pc = "purge" /\ read_pos' = 0 /\ write_pos' = write_pos - read_pos
        /\ looked' = sent - taken
        /\ UNCHANGED <<sent, taken, bytes_consumed, caller, want, tries, out>>
        /\ \/ /\ read_pos + (Size - write_pos) < sent - taken
              /\ bytes_to_read' = read_pos + (Size - write_pos) /\ pc' = "copy"
           \/ /\ ~(read_pos + (Size - write_pos) < sent - taken)
              /\ pc' = "look" /\ UNCHANGED bytes_to_read
    BY <1>5 DEF FillPurges, fifoVars, callVars, buf_free_capacity_after_purge, buf_data_stale
  <2> QED BY <2>1, <2>2
<1>6. CASE FillLooksAgain
  BY <1>6 DEF FillLooksAgain, posVars, fifoVars, callVars
<1>7. CASE FillCopies
  <2>1. /\ base' \in [Cells -> Nat]
        /\ \A i \in Cells : i \in read_pos'..(write_pos' - 1)
             => base'[i] = bytes_consumed' + (i - read_pos') + 1
    BY <1>7, CopyContinues
  <2>2. /\ pc = "copy" /\ write_pos + bytes_to_read <= Size
        /\ taken' = taken + bytes_to_read /\ write_pos' = write_pos + bytes_to_read
        /\ pc' = caller
        /\ UNCHANGED <<sent, read_pos, bytes_consumed, caller, looked, bytes_to_read,
                       want, tries, out>>
    BY <1>7 DEF FillCopies, fillVars, callVars
  <2> QED BY <2>1, <2>2
<1>8. CASE FillOverruns
  BY <1>8 DEF FillOverruns, posVars, fifoVars, fillVars, callVars
<1>9. CASE SeekLoads
  <2>1. \A i \in Cells : i \in read_pos'..(write_pos' - 1)
          => base'[i] = bytes_consumed' + (i - read_pos') + 1
    BY <1>9 DEF SeekLoads, Cells
  <2> QED BY <1>9, <2>1 DEF SeekLoads, fifoVars
<1>10. CASE SeekEnds
  <2>1. \A i \in Cells : i \in read_pos'..(write_pos' - 1)
          => base'[i] = bytes_consumed' + (i - read_pos') + 1
    BY <1>10, ForwardKeepsUnread DEF SeekEnds
  <2> QED BY <1>10, <2>1 DEF SeekEnds, fifoVars, fillVars
<1>11. CASE ReadLoads
  BY <1>11 DEF ReadLoads, posVars, fifoVars
<1>12. CASE ReadFails
  BY <1>12 DEF ReadFails, posVars, fifoVars, fillVars
<1>13. CASE ReadCopies
  <2>1. want \in 0..buf_data_unread /\ want \in Nat /\ want <= Size
    BY <1>13 DEF ReadCopies
  <2>2. \A i \in Cells : i \in read_pos'..(write_pos' - 1)
          => base'[i] = bytes_consumed' + (i - read_pos') + 1
    BY <1>13, <2>1, ForwardKeepsUnread DEF ReadCopies
  <2>3. out' \in Seq(Nat) /\ Len(out') = want
    <3>1. \A i \in 1..want : read_pos + i - 1 \in Cells
      BY <2>1 DEF Cells
    <3>2. out' = [i \in 1..want |-> base[read_pos + i - 1]]
      BY <1>13 DEF ReadCopies
    <3>3. \A i \in 1..want : base[read_pos + i - 1] \in Nat
      BY <3>1
    <3>4. out' \in [1..want -> Nat]
      BY <3>2, <3>3, ZenonT(30)
    <3>5. out' \in Seq(Nat)
      BY <2>1, <3>4, SeqDef, ZenonT(30)
    <3>6. DOMAIN out' = 1..want
      BY <3>4
    <3> QED BY <2>1, <3>5, <3>6, LenProperties
  <2> QED BY <1>13, <2>1, <2>2, <2>3 DEF ReadCopies, fifoVars, fillVars
<1>14. CASE UNCHANGED bufferVars
  BY <1>14 DEF bufferVars, posVars, fifoVars, fillVars, callVars
<1> QED
  BY <1>1, <1>2, <1>3, <1>4, <1>5, <1>6, <1>7, <1>8, <1>9, <1>10, <1>11, <1>12, <1>13, <1>14
  DEF BufferStep, CallStep

LEMMA BufferNextInv == BufferInv /\ [BufferNext]_bufferVars => BufferInv'
  BY BufferStepInv, BufferAssumption DEF BufferNext, BufferStep

LEMMA BufferInvariant == BufferSpec => []BufferInv
  BY BufferInitInv, BufferNextInv, PTL DEF BufferSpec

-----------------------------------------------------------------------------
(* The positions stay in the buffer and the counters in the stream.        *)
THEOREM BufferTypeCorrect == BufferSpec => []BufferTypeOK
<1>1. BufferInv => BufferTypeOK
  BY DEF BufferInv
<1> QED BY <1>1, BufferInvariant, PTL

(* No byte is lost, repeated or displaced by moves, refills, seeks and     *)
(* reads (common_buffer.c).                                                *)
THEOREM NoByteLost == BufferSpec => []UnreadIsNext
<1>1. BufferInv => UnreadIsNext
  BY DEF BufferInv
<1> QED BY <1>1, BufferInvariant, PTL

(* fill_read_buffer overruns base by no more than what was stored between  *)
(* the two looks of min at the fill.                                       *)
THEOREM OverrunBounded == BufferSpec => []ExcessIsWhatCame
<1>1. BufferInv => ExcessIsWhatCame
  BY DEF BufferInv
<1> QED BY <1>1, BufferInvariant, PTL

-----------------------------------------------------------------------------
(* The steps of the refinement                                             *)

LEMMA SeekLoadsAdvances ==
  ASSUME BufferInv, SeekLoads
  PROVE  Cursor!Next
  <1>1. /\ buf_data_unread \in 0..want /\ want \in Nat
        /\ bytes_consumed + buf_data_unread <= sent
    BY BufferAssumption
    DEF SeekLoads, BufferInv, BufferTypeOK, UnreadIsNext, buf_data_unread
  <1>2. Cursor!Advance(buf_data_unread)
    BY <1>1 DEF SeekLoads, Cursor!Advance, inCall, fifoVars
  <1> QED BY <1>1, <1>2 DEF Cursor!Next

LEMMA SeekEndsArrives ==
  ASSUME BufferInv, SeekEnds
  PROVE  Cursor!Next
  <1>1. bytes_consumed + want <= sent
    BY BufferAssumption
    DEF SeekEnds, BufferInv, BufferTypeOK, UnreadIsNext, buf_data_unread
  <1>2. Cursor!Arrive
    BY <1>1 DEF SeekEnds, Cursor!Arrive, inCall, fifoVars
  <1> QED BY <1>2 DEF Cursor!Next

(* What buf_read copies are the next bytes of the stream.                  *)
LEMMA ReadCopiesIsDone ==
  ASSUME BufferInv, ReadCopies
  PROVE  Cursor!Next
  <1>1. /\ want \in Nat /\ want <= write_pos - read_pos /\ write_pos <= Size
        /\ read_pos \in Nat /\ write_pos \in Nat /\ Size \in Nat /\ bytes_consumed \in Nat
        /\ bytes_consumed + want <= sent
    BY BufferAssumption
    DEF ReadCopies, BufferInv, BufferTypeOK, UnreadIsNext, buf_data_unread
  <1>2. ASSUME NEW i \in 1..want
        PROVE  base[read_pos + i - 1] = bytes_consumed + i
    <2>1. /\ read_pos + i - 1 \in Cells
          /\ read_pos + i - 1 \in read_pos..(write_pos - 1)
      BY <1>1 DEF Cells
    <2>2. base[read_pos + i - 1] = bytes_consumed + ((read_pos + i - 1) - read_pos) + 1
      BY <2>1 DEF BufferInv, UnreadIsNext
    <2> QED BY <1>1, <2>2
  <1>3. out' = [i \in 1..want |-> base[read_pos + i - 1]]
    BY DEF ReadCopies
  <1>4. out' = [i \in 1..want |-> bytes_consumed + i]
    BY <1>2, <1>3
  <1>5. Cursor!ReadDone
    BY <1>1, <1>4 DEF ReadCopies, Cursor!ReadDone, inCall, fifoVars
  <1> QED BY <1>5 DEF Cursor!Next

LEMMA BufferStepIsCursorStep ==
  ASSUME BufferInv, [BufferNext]_bufferVars
  PROVE  [Cursor!Next]_(Cursor!cursorVars)
<1> USE DEF inCall
<1>1. CASE Store
  <2>1. Cursor!Store
    BY <1>1 DEF Store, Cursor!Store, posVars, fillVars, callVars
  <2> QED BY <2>1 DEF Cursor!Next
<1>2. CASE Fill
  BY <1>2 DEF Fill, Cursor!cursorVars, posVars, fifoVars, callVars
<1>3. ASSUME NEW n \in Lengths, Seek(n) PROVE Cursor!Next
  <2>1. Cursor!Seek(n)
    BY <1>3 DEF Seek, Cursor!Seek, posVars, fifoVars
  <2> QED BY <2>1 DEF Cursor!Next
<1>4. ASSUME NEW n \in Lengths, Read(n) PROVE Cursor!Next
  <2>1. Cursor!Read(n)
    BY <1>4 DEF Read, Cursor!Read, posVars, fifoVars
  <2> QED BY <2>1 DEF Cursor!Next
<1>5. CASE FillPurges
  BY <1>5 DEF FillPurges, Cursor!cursorVars, fifoVars, callVars
<1>6. CASE FillLooksAgain
  BY <1>6 DEF FillLooksAgain, Cursor!cursorVars, posVars, fifoVars, callVars
<1>7. CASE FillCopies
  BY <1>7 DEF FillCopies, Cursor!cursorVars, fillVars, callVars, BufferInv, BufferTypeOK
<1>8. CASE FillOverruns
  BY <1>8 DEF FillOverruns, Cursor!cursorVars, posVars, fifoVars, fillVars, callVars
<1>9. CASE SeekLoads
  BY <1>9, SeekLoadsAdvances
<1>10. CASE SeekEnds
  BY <1>10, SeekEndsArrives
<1>11. CASE ReadLoads
  BY <1>11 DEF ReadLoads, Cursor!cursorVars, posVars, fifoVars
<1>12. CASE ReadFails
  <2>1. Cursor!ReadGivesUp
    BY <1>12 DEF ReadFails, Cursor!ReadGivesUp, Cursor!Failed, posVars, fifoVars
  <2> QED BY <2>1 DEF Cursor!Next
<1>13. CASE ReadCopies
  BY <1>13, ReadCopiesIsDone
<1>14. CASE UNCHANGED bufferVars
  BY <1>14 DEF bufferVars, Cursor!cursorVars, posVars, fifoVars, fillVars, callVars
<1> QED
  BY <1>1, <1>2, <1>3, <1>4, <1>5, <1>6, <1>7, <1>8, <1>9, <1>10, <1>11, <1>12, <1>13, <1>14
  DEF BufferNext, CallStep

(* The buffer is a cursor over the stream: seeks and reads across refills  *)
(* of common_buffer.c move by what was asked, and a read returns exactly   *)
(* the next bytes or takes none.                                           *)
THEOREM ImplementsCursor == BufferSpec => CursorSpec
<1>1. BufferInit => Cursor!Init
  BY DEF BufferInit, Cursor!Init, Cursor!Failed, inCall
<1>2. BufferInv /\ [BufferNext]_bufferVars => [Cursor!Next]_(Cursor!cursorVars)
  BY BufferStepIsCursorStep
<1> QED
  BY <1>1, <1>2, BufferInvariant, PTL DEF BufferSpec, CursorSpec, Cursor!Spec

-----------------------------------------------------------------------------
(* Where a script leads                                                    *)

Op == {op \in {"read", "skip", "format", "mark", "jump", "fail"} \X Nat :
         op[1] = "read" => op[2] > 0}

(* One operation takes the demuxer from position p of the stream to q, and *)
(* the end of the esds, where it is remembered, from m to n.  After a      *)
(* failure nothing follows that matters.                                   *)
Moves(op, p, m, q, n) ==
  \/ op[1] \in {"read", "skip"} /\ q = p + op[2] /\ n = m
  \/ op[1] = "format" /\ q = p /\ n = m
  \/ op[1] = "mark" /\ q = p /\ n = p + op[2]
  \/ op[1] = "jump" /\ m >= p /\ q = m /\ n = NoPointer
  \/ op[1] = "fail"

(* A script does when there is a way along its operations.                 *)
IsWay(s, at, mark) ==
  /\ at \in [1..(Len(s) + 1) -> Int] /\ mark \in [1..(Len(s) + 1) -> Int]
  /\ \A i \in 1..Len(s) : Moves(s[i], at[i], mark[i], at[i + 1], mark[i + 1])

Leads(s, p, m, q, n) ==
  \E at, mark \in [1..(Len(s) + 1) -> Int] :
    /\ IsWay(s, at, mark)
    /\ at[1] = p /\ mark[1] = m /\ at[Len(s) + 1] = q /\ mark[Len(s) + 1] = n

LEMMA LeadsNowhere ==
  ASSUME NEW p \in Int, NEW m \in Int
  PROVE  Leads(<<>>, p, m, p, m)
<1> DEFINE at == [i \in 1..1 |-> p]
           mark == [i \in 1..1 |-> m]
<1>1. Len(<<>>) = 0
  OBVIOUS
<1>2. at \in [1..(Len(<<>>) + 1) -> Int] /\ mark \in [1..(Len(<<>>) + 1) -> Int]
  BY <1>1
<1>3. IsWay(<<>>, at, mark)
  BY <1>1, <1>2 DEF IsWay
<1>4. at[1] = p /\ mark[1] = m
  OBVIOUS
<1> HIDE DEF at, mark
<1> QED BY <1>1, <1>2, <1>3, <1>4 DEF Leads

LEMMA NowhereIsHere ==
  ASSUME NEW p, NEW m, NEW q, NEW n, Leads(<<>>, p, m, q, n)
  PROVE  q = p /\ n = m
<1>1. Len(<<>>) + 1 = 1
  OBVIOUS
<1> QED BY <1>1 DEF Leads

LEMMA LeadsOne ==
  ASSUME NEW op \in Op, NEW p \in Int, NEW m \in Int, NEW q \in Int, NEW n \in Int,
         Moves(op, p, m, q, n)
  PROVE  Leads(<<op>>, p, m, q, n)
<1> DEFINE at == [i \in 1..2 |-> IF i = 1 THEN p ELSE q]
           mark == [i \in 1..2 |-> IF i = 1 THEN m ELSE n]
<1>1. Len(<<op>>) = 1 /\ <<op>>[1] = op
  OBVIOUS
<1>2. at \in [1..2 -> Int] /\ mark \in [1..2 -> Int]
  OBVIOUS
<1>3. at[1] = p /\ at[2] = q /\ mark[1] = m /\ mark[2] = n
  OBVIOUS
<1> HIDE DEF at, mark
<1>4. \A i \in 1..Len(<<op>>) : i = 1
  BY <1>1
<1>5. IsWay(<<op>>, at, mark)
  BY <1>1, <1>2, <1>3, <1>4 DEF IsWay
<1> QED BY <1>1, <1>2, <1>3, <1>5 DEF Leads

(* One script after another.                                               *)
LEMMA LeadsOn ==
  ASSUME NEW s \in Seq(Op), NEW t \in Seq(Op), NEW p, NEW m, NEW q, NEW n, NEW u, NEW v,
         Leads(s, p, m, q, n), Leads(t, q, n, u, v)
  PROVE  Leads(s \o t, p, m, u, v)
<1>1. PICK at1, mark1 \in [1..(Len(s) + 1) -> Int] :
        /\ IsWay(s, at1, mark1)
        /\ at1[1] = p /\ mark1[1] = m /\ at1[Len(s) + 1] = q /\ mark1[Len(s) + 1] = n
  BY DEF Leads
<1>2. PICK at2, mark2 \in [1..(Len(t) + 1) -> Int] :
        /\ IsWay(t, at2, mark2)
        /\ at2[1] = q /\ mark2[1] = n /\ at2[Len(t) + 1] = u /\ mark2[Len(t) + 1] = v
  BY DEF Leads
<1>3. Len(s) \in Nat /\ Len(t) \in Nat /\ Len(s \o t) = Len(s) + Len(t)
  OBVIOUS
<1> DEFINE at == [i \in 1..(Len(s \o t) + 1) |-> IF i <= Len(s) THEN at1[i] ELSE at2[i - Len(s)]]
           mark == [i \in 1..(Len(s \o t) + 1) |->
                      IF i <= Len(s) THEN mark1[i] ELSE mark2[i - Len(s)]]
<1>4. at \in [1..(Len(s \o t) + 1) -> Int] /\ mark \in [1..(Len(s \o t) + 1) -> Int]
  BY <1>3
<1>5. \A i \in 1..(Len(s) + 1) : at[i] = at1[i] /\ mark[i] = mark1[i]
  <2>1. \A i \in 1..Len(s) : at[i] = at1[i] /\ mark[i] = mark1[i]
    BY <1>3
  <2>2. at[Len(s) + 1] = at2[1] /\ mark[Len(s) + 1] = mark2[1]
    BY <1>3
  <2> QED BY <1>1, <1>2, <1>3, <2>1, <2>2
<1>6. \A i \in 1..(Len(t) + 1) : at[Len(s) + i] = at2[i] /\ mark[Len(s) + i] = mark2[i]
  BY <1>3
<1> HIDE DEF at, mark
<1>7. ASSUME NEW i \in 1..Len(s \o t)
      PROVE  Moves((s \o t)[i], at[i], mark[i], at[i + 1], mark[i + 1])
  <2>1. CASE i <= Len(s)
    <3>1. i \in 1..Len(s) /\ i \in 1..(Len(s) + 1) /\ i + 1 \in 1..(Len(s) + 1)
      BY <1>3, <2>1
    <3>2. (s \o t)[i] = s[i]
      BY <3>1
    <3>3. Moves(s[i], at1[i], mark1[i], at1[i + 1], mark1[i + 1])
      BY <1>1, <3>1 DEF IsWay
    <3> QED BY <1>5, <3>1, <3>2, <3>3
  <2>2. CASE i > Len(s)
    <3> DEFINE k == i - Len(s)
    <3>1. /\ k \in 1..Len(t) /\ k \in 1..(Len(t) + 1) /\ k + 1 \in 1..(Len(t) + 1)
          /\ i = Len(s) + k /\ i + 1 = Len(s) + (k + 1)
      BY <1>3, <2>2
    <3>2. (s \o t)[i] = t[k]
      BY <1>3, <2>2
    <3> HIDE DEF k
    <3>3. Moves(t[k], at2[k], mark2[k], at2[k + 1], mark2[k + 1])
      BY <1>2, <3>1 DEF IsWay
    <3>4. /\ at[i] = at2[k] /\ mark[i] = mark2[k]
          /\ at[i + 1] = at2[k + 1] /\ mark[i + 1] = mark2[k + 1]
      BY <1>6, <3>1
    <3> QED BY <3>2, <3>3, <3>4
  <2> QED BY <1>3, <2>1, <2>2
<1>8. IsWay(s \o t, at, mark)
  BY <1>4, <1>7 DEF IsWay
<1>9. 1 \in 1..(Len(s) + 1) /\ Len(t) + 1 \in 1..(Len(t) + 1)
      /\ Len(s \o t) + 1 = Len(s) + (Len(t) + 1)
  BY <1>3
<1>10. at[1] = p /\ mark[1] = m /\ at[Len(s \o t) + 1] = u /\ mark[Len(s \o t) + 1] = v
  BY <1>1, <1>2, <1>5, <1>6, <1>9
<1> QED BY <1>4, <1>8, <1>10 DEF Leads

(* The first operation of a script, and the rest of it.                    *)
LEMMA LeadsFirst ==
  ASSUME NEW s \in Seq(Op), s # <<>>, NEW p, NEW m, NEW q, NEW n, Leads(s, p, m, q, n)
  PROVE  /\ Head(s) \in Op /\ Tail(s) \in Seq(Op) /\ p \in Int /\ m \in Int
         /\ \E u, v \in Int : Moves(Head(s), p, m, u, v) /\ Leads(Tail(s), u, v, q, n)
<1>1. PICK at1, mark1 \in [1..(Len(s) + 1) -> Int] :
        /\ IsWay(s, at1, mark1)
        /\ at1[1] = p /\ mark1[1] = m /\ at1[Len(s) + 1] = q /\ mark1[Len(s) + 1] = n
  BY DEF Leads
<1>2. /\ Len(s) \in Nat /\ Len(s) > 0 /\ Tail(s) \in Seq(Op) /\ Len(Tail(s)) = Len(s) - 1
      /\ Head(s) = s[1] /\ Head(s) \in Op
      /\ \A i \in 1..Len(Tail(s)) : Tail(s)[i] = s[i + 1]
  BY HeadTailProperties
<1> DEFINE at == [i \in 1..(Len(Tail(s)) + 1) |-> at1[i + 1]]
           mark == [i \in 1..(Len(Tail(s)) + 1) |-> mark1[i + 1]]
<1>3. at \in [1..(Len(Tail(s)) + 1) -> Int] /\ mark \in [1..(Len(Tail(s)) + 1) -> Int]
  BY <1>2
<1>4. \A i \in 1..(Len(Tail(s)) + 1) : at[i] = at1[i + 1] /\ mark[i] = mark1[i + 1]
  OBVIOUS
<1> HIDE DEF at, mark
<1>5. ASSUME NEW i \in 1..Len(Tail(s))
      PROVE  Moves(Tail(s)[i], at[i], mark[i], at[i + 1], mark[i + 1])
  <2>1. /\ i \in 1..(Len(Tail(s)) + 1) /\ i + 1 \in 1..(Len(Tail(s)) + 1)
        /\ i + 1 \in 1..Len(s)
    BY <1>2
  <2>2. Moves(s[i + 1], at1[i + 1], mark1[i + 1], at1[(i + 1) + 1], mark1[(i + 1) + 1])
    BY <1>1, <2>1 DEF IsWay
  <2> QED BY <1>2, <1>4, <2>1, <2>2
<1>6. IsWay(Tail(s), at, mark)
  BY <1>3, <1>5 DEF IsWay
<1>7. Len(Tail(s)) + 1 \in 1..(Len(Tail(s)) + 1) /\ 1 \in 1..(Len(Tail(s)) + 1)
      /\ (Len(Tail(s)) + 1) + 1 = Len(s) + 1 /\ 1 \in 1..Len(s)
      /\ 1 \in 1..(Len(s) + 1) /\ 1 + 1 \in 1..(Len(s) + 1)
  BY <1>2
<1>8. at[1] = at1[1 + 1] /\ mark[1] = mark1[1 + 1]
      /\ at[Len(Tail(s)) + 1] = q /\ mark[Len(Tail(s)) + 1] = n
  BY <1>1, <1>4, <1>7
<1>9. Leads(Tail(s), at1[1 + 1], mark1[1 + 1], q, n)
  BY <1>3, <1>6, <1>8 DEF Leads
<1>10. Moves(Head(s), p, m, at1[1 + 1], mark1[1 + 1])
  BY <1>1, <1>2, <1>7 DEF IsWay
<1>11. p \in Int /\ m \in Int /\ at1[1 + 1] \in Int /\ mark1[1 + 1] \in Int
  BY <1>1, <1>7
<1> QED BY <1>2, <1>9, <1>10, <1>11

(* A script that goes over n units.                                        *)
GoesOver(s, n) ==
  /\ s \in Seq(Op) /\ n \in Nat
  /\ \A p, m \in Int : Leads(s, p, m, p + n, m)

LEMMA GoesOverOne ==
  ASSUME NEW n \in Nat, NEW op \in Op, op[1] \in {"read", "skip"}, op[2] = n
  PROVE  GoesOver(<<op>>, n)
<1>1. ASSUME NEW p \in Int, NEW m \in Int PROVE Leads(<<op>>, p, m, p + n, m)
  <2>1. Moves(op, p, m, p + n, m) /\ p + n \in Int
    BY DEF Moves
  <2> QED BY <2>1, LeadsOne
<1>2. <<op>> \in Seq(Op)
  OBVIOUS
<1> QED BY <1>1, <1>2 DEF GoesOver

LEMMA GoesOverNothing ==
  GoesOver(<<>>, 0)
<1>1. ASSUME NEW p \in Int, NEW m \in Int PROVE Leads(<<>>, p, m, p + 0, m)
  BY LeadsNowhere
<1> QED BY <1>1 DEF GoesOver

LEMMA ReadGoes ==
  ASSUME NEW n \in Nat
  PROVE  GoesOver(read(n), n)
<1>1. CASE n = 0
  BY <1>1, GoesOverNothing DEF read
<1>2. CASE n # 0
  <2>1. <<"read", n>> \in Op
    BY <1>2 DEF Op
  <2> QED BY <1>2, <2>1, GoesOverOne DEF read
<1> QED BY <1>1, <1>2

LEMMA SkipGoes ==
  ASSUME NEW n \in Nat
  PROVE  GoesOver(skip(n), n)
<1>1. CASE n = 0
  BY <1>1, GoesOverNothing DEF skip
<1>2. CASE n # 0
  <2>1. <<"skip", n>> \in Op
    BY <1>2 DEF Op
  <2> QED BY <1>2, <2>1, GoesOverOne DEF skip
<1> QED BY <1>1, <1>2

LEMMA RemainderGoes ==
  ASSUME NEW n \in Nat
  PROVE  GoesOver(remainder(n), n)
  BY SkipGoes DEF remainder

LEMMA GoesOverBoth ==
  ASSUME NEW s, NEW t, NEW n, NEW k, GoesOver(s, n), GoesOver(t, k)
  PROVE  GoesOver(s \o t, n + k)
<1>1. s \in Seq(Op) /\ t \in Seq(Op) /\ n \in Nat /\ k \in Nat /\ s \o t \in Seq(Op)
  BY DEF GoesOver
<1>2. ASSUME NEW p \in Int, NEW m \in Int PROVE Leads(s \o t, p, m, p + (n + k), m)
  <2>1. p + n \in Int /\ (p + n) + k = p + (n + k)
    BY <1>1
  <2>2. Leads(s, p, m, p + n, m) /\ Leads(t, p + n, m, (p + n) + k, m)
    BY <2>1 DEF GoesOver
  <2> QED BY <1>1, <2>1, <2>2, LeadsOn
<1> QED BY <1>1, <1>2 DEF GoesOver

(* What the handler of an atom has to do behind the atom's header: be at   *)
(* the end of it with no pointer left.                                     *)
LeadsOver(s, n) ==
  /\ s \in Seq(Op) /\ n \in Int
  /\ \A p \in Int : Leads(s, p, NoPointer, p + n, NoPointer)

LEMMA NoPointerInt == NoPointer \in Int
  BY DEF NoPointer

LEMMA OverIsLeads ==
  ASSUME NEW s, NEW n, GoesOver(s, n)
  PROVE  LeadsOver(s, n)
<1>1. s \in Seq(Op) /\ n \in Int
  BY DEF GoesOver
<1>2. ASSUME NEW p \in Int PROVE Leads(s, p, NoPointer, p + n, NoPointer)
  BY NoPointerInt DEF GoesOver
<1> QED BY <1>1, <1>2 DEF LeadsOver

LEMMA OverThenLeads ==
  ASSUME NEW s, NEW t, NEW n, NEW k, GoesOver(s, n), LeadsOver(t, k)
  PROVE  LeadsOver(s \o t, n + k)
<1>1. s \in Seq(Op) /\ t \in Seq(Op) /\ n \in Nat /\ k \in Int /\ s \o t \in Seq(Op)
  BY DEF GoesOver, LeadsOver
<1>2. ASSUME NEW p \in Int PROVE Leads(s \o t, p, NoPointer, p + (n + k), NoPointer)
  <2>1. p + n \in Int /\ (p + n) + k = p + (n + k)
    BY <1>1
  <2>2. Leads(s, p, NoPointer, p + n, NoPointer)
        /\ Leads(t, p + n, NoPointer, (p + n) + k, NoPointer)
    BY <2>1, NoPointerInt DEF GoesOver, LeadsOver
  <2> QED BY <1>1, <2>1, <2>2, LeadsOn
<1> QED BY <1>1, <1>2 DEF LeadsOver

LEMMA LeadsBoth ==
  ASSUME NEW s, NEW t, NEW n, NEW k, LeadsOver(s, n), LeadsOver(t, k)
  PROVE  LeadsOver(s \o t, n + k)
<1>1. s \in Seq(Op) /\ t \in Seq(Op) /\ n \in Int /\ k \in Int /\ s \o t \in Seq(Op)
  BY DEF LeadsOver
<1>2. ASSUME NEW p \in Int PROVE Leads(s \o t, p, NoPointer, p + (n + k), NoPointer)
  <2>1. p + n \in Int /\ (p + n) + k = p + (n + k)
    BY <1>1
  <2>2. Leads(s, p, NoPointer, p + n, NoPointer)
        /\ Leads(t, p + n, NoPointer, (p + n) + k, NoPointer)
    BY <2>1 DEF LeadsOver
  <2> QED BY <1>1, <2>1, <2>2, LeadsOn
<1> QED BY <1>1, <1>2 DEF LeadsOver

(* After a failure nothing follows: it may as well be the end of the atom. *)
LEMMA FailLeads ==
  ASSUME NEW n \in Int
  PROVE  LeadsOver(fail, n)
<1>1. <<"fail", 0>> \in Op
  BY DEF Op
<1>2. ASSUME NEW p \in Int PROVE Leads(fail, p, NoPointer, p + n, NoPointer)
  <2>1. Moves(<<"fail", 0>>, p, NoPointer, p + n, NoPointer) /\ p + n \in Int
    BY DEF Moves
  <2> QED BY <1>1, <2>1, NoPointerInt, LeadsOne DEF fail
<1>3. fail \in Seq(Op)
  BY <1>1 DEF fail
<1> QED BY <1>2, <1>3 DEF LeadsOver

LEMMA FormatGoes == GoesOver(<<<<"format", 0>>>>, 0)
<1>1. <<"format", 0>> \in Op
  BY DEF Op
<1>2. ASSUME NEW p \in Int, NEW m \in Int PROVE Leads(<<<<"format", 0>>>>, p, m, p + 0, m)
  <2>1. Moves(<<"format", 0>>, p, m, p + 0, m) /\ p + 0 \in Int
    BY DEF Moves
  <2> QED BY <1>1, <2>1, LeadsOne
<1>3. <<<<"format", 0>>>> \in Seq(Op)
  BY <1>1
<1> QED BY <1>2, <1>3 DEF GoesOver

-----------------------------------------------------------------------------
(* The handlers go to the end of their atoms                               *)

LEMMA Mp4aLeads ==
  ASSUME NEW d \in Entry, HeaderLen + d.used <= d.esds,
         NEW rest \in Nat, rest = d.len - EntryLen - d.esds
  PROVE  LeadsOver(mp4aData(d), d.esds + rest)
<1>1. /\ d.used \in Nat /\ d.esds \in Nat /\ HeaderLen = 2
      /\ d.esds - HeaderLen \in Nat /\ d.used <= d.esds - HeaderLen
  BY DEF Entry, HeaderLen
<1> DEFINE toMark == <<<<"mark", d.esds - HeaderLen>>>>
           jump == <<<<"jump", 0>>>>
<1>2. <<"mark", d.esds - HeaderLen>> \in Op /\ <<"jump", 0>> \in Op
  BY <1>1 DEF Op
<1>3. toMark \in Seq(Op) /\ jump \in Seq(Op)
  BY <1>2
<1>4. /\ GoesOver(read(2), 2) /\ GoesOver(read(d.used), d.used) /\ GoesOver(skip(rest), rest)
      /\ read(2) \in Seq(Op) /\ read(d.used) \in Seq(Op) /\ skip(rest) \in Seq(Op)
  BY <1>1, ReadGoes, SkipGoes DEF GoesOver
<1>5. ASSUME NEW p \in Int
      PROVE  Leads(mp4aData(d), p, NoPointer, p + (d.esds + rest), NoPointer)
  <2> DEFINE q == p + 2
             e == p + d.esds
  <2>1. /\ q \in Int /\ e \in Int /\ q + (d.esds - HeaderLen) = e
        /\ q + d.used \in Int /\ e >= q + d.used /\ e + rest = p + (d.esds + rest)
    BY <1>1
  <2>2. Leads(read(2), p, NoPointer, q, NoPointer)
    BY <1>4, NoPointerInt DEF GoesOver
  <2> HIDE DEF q, e
  <2>3. Leads(toMark, q, NoPointer, q, e)
    <3>1. Moves(<<"mark", d.esds - HeaderLen>>, q, NoPointer, q, e)
      BY <2>1 DEF Moves
    <3> QED BY <1>2, <2>1, <3>1, NoPointerInt, LeadsOne
  <2>4. Leads(read(d.used), q, e, q + d.used, e)
    BY <1>4, <2>1 DEF GoesOver
  <2>5. Leads(jump, q + d.used, e, e, NoPointer)
    <3>1. Moves(<<"jump", 0>>, q + d.used, e, e, NoPointer)
      BY <2>1 DEF Moves
    <3> QED BY <1>2, <2>1, <3>1, NoPointerInt, LeadsOne
  <2>6. Leads(skip(rest), e, NoPointer, e + rest, NoPointer)
    BY <1>4, <2>1, NoPointerInt DEF GoesOver
  <2> HIDE DEF toMark, jump
  <2>7. Leads(read(2) \o toMark, p, NoPointer, q, e) /\ read(2) \o toMark \in Seq(Op)
    BY <1>3, <1>4, <2>2, <2>3, LeadsOn
  <2> DEFINE s1 == read(2) \o toMark
  <2> HIDE DEF s1
  <2>11. Leads(s1, p, NoPointer, q, e) /\ s1 \in Seq(Op)
    BY <2>7 DEF s1
  <2> DEFINE s2 == s1 \o read(d.used)
  <2> HIDE DEF s2
  <2>8. Leads(s2, p, NoPointer, q + d.used, e) /\ s2 \in Seq(Op)
    BY <1>4, <2>11, <2>4, LeadsOn DEF s2
  <2> DEFINE s3 == s2 \o jump
  <2> HIDE DEF s3
  <2>9. Leads(s3, p, NoPointer, e, NoPointer) /\ s3 \in Seq(Op)
    BY <1>3, <2>8, <2>5, LeadsOn DEF s3
  <2>10. Leads(s3 \o skip(rest), p, NoPointer, e + rest, NoPointer)
    BY <1>4, <2>9, <2>6, LeadsOn
  <2> QED BY <2>1, <2>10 DEF mp4aData, toMark, jump, s1, s2, s3
<1>6. mp4aData(d) \in Seq(Op)
  <2> HIDE DEF toMark, jump
  <2>1. read(2) \o toMark \o read(d.used) \o jump \o skip(rest) \in Seq(Op)
    BY <1>3, <1>4
  <2> QED BY <2>1 DEF mp4aData, toMark, jump
<1>7. d.esds + rest \in Int
  BY <1>1
<1> QED BY <1>5, <1>6, <1>7 DEF LeadsOver

LEMMA CodecDataLeads ==
  ASSUME NEW d \in Entry, d.len >= EntryLen,
         d.format = "mp4a" => EntryLen + d.esds <= d.len /\ HeaderLen + d.used <= d.esds
  PROVE  LeadsOver(codecData(d), d.len - EntryLen)
<1>1. /\ d.format \in Formats /\ d.len \in Nat /\ d.esds \in Nat /\ d.used \in Nat
      /\ EntryLen = 9 /\ d.len - EntryLen \in Nat
  BY DEF Entry, EntryLen
<1>2. CASE d.format = "mp4a"
  <2> DEFINE rest == d.len - EntryLen - d.esds
  <2>1. rest \in Nat /\ d.esds + rest = d.len - EntryLen /\ HeaderLen + d.used <= d.esds
    BY <1>1, <1>2
  <2>2. codecData(d) = mp4aData(d)
    BY <1>2 DEF codecData
  <2>3. rest = d.len - EntryLen - d.esds
    OBVIOUS
  <2> HIDE DEF rest
  <2>4. LeadsOver(mp4aData(d), d.esds + rest)
    BY <2>1, <2>3, Mp4aLeads
  <2> QED BY <2>1, <2>2, <2>4
<1>3. CASE d.format = "alac"
  <2>1. codecData(d) = read(d.len - EntryLen)
    BY <1>3 DEF codecData
  <2> QED BY <1>1, <2>1, ReadGoes, OverIsLeads
<1>4. CASE d.format = "free"
  <2>1. codecData(d) = skip(d.len - EntryLen)
    BY <1>4 DEF codecData
  <2> QED BY <1>1, <2>1, SkipGoes, OverIsLeads
<1>5. CASE d.format = "refused"
  <2>1. codecData(d) = read(d.used) \o fail
    BY <1>5 DEF codecData
  <2>2. /\ GoesOver(read(d.used), d.used)
        /\ LeadsOver(fail, (d.len - EntryLen) - d.used)
        /\ d.used + ((d.len - EntryLen) - d.used) = d.len - EntryLen
    BY <1>1, ReadGoes, FailLeads
  <2>3. LeadsOver(read(d.used) \o fail, d.used + ((d.len - EntryLen) - d.used))
    BY <2>2, OverThenLeads
  <2> QED BY <2>1, <2>2, <2>3
<1>6. CASE d.format = "else"
  <2>1. codecData(d) = fail
    BY <1>6 DEF codecData
  <2> QED BY <1>1, <2>1, FailLeads
<1> QED BY <1>1, <1>2, <1>3, <1>4, <1>5, <1>6 DEF Formats

LEMMA SampleEntryLeads ==
  ASSUME NEW a \in Atom, HoldsWhatItSays(a), a.kind = "stsd", NEW i \in 1..2
  PROVE  LeadsOver(sampleEntry(a, i), entryLen(a, i))
<1>1. CASE i \notin DOMAIN a.entries
  <2>1. sampleEntry(a, i) = <<>> /\ entryLen(a, i) = 0
    BY <1>1 DEF sampleEntry, entryLen
  <2> QED BY <2>1, GoesOverNothing, OverIsLeads
<1>2. CASE i \in DOMAIN a.entries
  <2> DEFINE d == a.entries[i]
             s1 == read(2) \o <<<<"format", 0>>>>
             s2 == s1 \o skip(4)
             s3 == s2 \o read(1)
             s4 == s3 \o skip(1)
             s5 == s4 \o read(1)
  <2>1. /\ d \in Entry /\ d.len >= EntryLen
        /\ d.format = "mp4a" => EntryLen + d.esds <= d.len /\ HeaderLen + d.used <= d.esds
    <3>1. a.entries \in Seq(Entry)
      BY DEF Atom
    <3>2. d \in Entry
      BY <1>2, <3>1
    <3> QED BY <1>2, <3>2 DEF HoldsWhatItSays
  <2>2. sampleEntry(a, i) = s5 \o codecData(d) /\ entryLen(a, i) = d.len
    BY <1>2 DEF sampleEntry, entryLen
  <2> HIDE DEF d, s1, s2, s3, s4, s5
  <2>3. /\ GoesOver(read(2), 2) /\ GoesOver(read(1), 1)
        /\ GoesOver(skip(4), 4) /\ GoesOver(skip(1), 1)
    BY ReadGoes, SkipGoes
  <2>4. GoesOver(s1, 2 + 0)
    BY <2>3, FormatGoes, GoesOverBoth DEF s1
  <2>5. GoesOver(s2, 2 + 0 + 4)
    BY <2>3, <2>4, GoesOverBoth DEF s2
  <2>6. GoesOver(s3, 2 + 0 + 4 + 1)
    BY <2>3, <2>5, GoesOverBoth DEF s3
  <2>7. GoesOver(s4, 2 + 0 + 4 + 1 + 1)
    BY <2>3, <2>6, GoesOverBoth DEF s4
  <2>8. GoesOver(s5, 2 + 0 + 4 + 1 + 1 + 1)
    BY <2>3, <2>7, GoesOverBoth DEF s5
  <2>9. GoesOver(s5, 9) /\ LeadsOver(codecData(d), d.len - EntryLen)
    BY <2>1, <2>8, CodecDataLeads
  <2>10. LeadsOver(s5 \o codecData(d), 9 + (d.len - EntryLen))
    BY <2>9, OverThenLeads
  <2>11. 9 + (d.len - EntryLen) = d.len
    BY <2>1 DEF Entry, EntryLen
  <2> QED BY <2>2, <2>10, <2>11
<1> QED BY <1>1, <1>2

LEMMA StsdLeads ==
  ASSUME NEW a \in Atom, HoldsWhatItSays(a), a.kind = "stsd"
  PROVE  LeadsOver(read_chunk_stsd(a), a.len - HeaderLen)
<1> DEFINE end == IF got_codec_data(a) THEN <<>> ELSE fail
           s1 == read(2) \o sampleEntry(a, 1)
           s2 == s1 \o sampleEntry(a, 2)
           n1 == entryLen(a, 1)
           n2 == entryLen(a, 2)
<1>1. read_chunk_stsd(a) = s2 \o end /\ a.len = HeaderLen + 2 + n1 + n2
  BY DEF read_chunk_stsd, HoldsWhatItSays
<1>2. LeadsOver(end, 0)
  BY FailLeads, GoesOverNothing, OverIsLeads
<1>3. LeadsOver(sampleEntry(a, 1), n1) /\ LeadsOver(sampleEntry(a, 2), n2) /\ GoesOver(read(2), 2)
  BY SampleEntryLeads, ReadGoes
<1> HIDE DEF end, s1, s2, n1, n2
<1>4. LeadsOver(s1, 2 + n1)
  BY <1>3, OverThenLeads DEF s1
<1>5. LeadsOver(s2, 2 + n1 + n2)
  BY <1>3, <1>4, LeadsBoth DEF s2
<1>6. LeadsOver(s2 \o end, 2 + n1 + n2 + 0)
  BY <1>2, <1>5, LeadsBoth
<1>7. n1 \in Int /\ n2 \in Int
  BY <1>3 DEF LeadsOver
<1>8. a.len - HeaderLen = 2 + n1 + n2 + 0
  BY <1>1, <1>7 DEF HeaderLen
<1> QED BY <1>1, <1>6, <1>8

LEMMA TableLeads ==
  ASSUME NEW a \in Atom, HoldsWhatItSays(a), a.kind \in Tables, a.kind = "stco" => a.n # 0
  PROVE  LeadsOver(read_chunk_table(a), a.len - HeaderLen)
<1>1. a.len \in Nat /\ a.n \in Nat /\ HeaderLen = 2 /\ a.fixed \in BOOLEAN
  BY DEF Atom, HeaderLen
<1>2. ASSUME NEW k \in Nat, NEW r \in Int, r >= 0, k + r = a.len - HeaderLen
      PROVE  LeadsOver(read(k) \o remainder(r), a.len - HeaderLen)
  <2>1. GoesOver(read(k), k) /\ GoesOver(remainder(r), r)
    BY <1>2, ReadGoes, RemainderGoes
  <2>2. GoesOver(read(k) \o remainder(r), k + r)
    BY <2>1, GoesOverBoth
  <2> QED BY <1>2, <2>2, OverIsLeads
<1>3. CASE a.kind = "stts"
  <2>1. read_chunk_table(a) = read(2 + 2 * a.n) \o remainder(a.len - HeaderLen - 2 - 2 * a.n)
    BY <1>3 DEF read_chunk_table
  <2>2. /\ 2 + 2 * a.n \in Nat /\ a.len - HeaderLen - 2 - 2 * a.n \in Int
        /\ a.len - HeaderLen - 2 - 2 * a.n >= 0
        /\ (2 + 2 * a.n) + (a.len - HeaderLen - 2 - 2 * a.n) = a.len - HeaderLen
    BY <1>1, <1>3 DEF HoldsWhatItSays
  <2> QED BY <1>2, <2>1, <2>2
<1>4. CASE a.kind = "stsc"
  <2>1. read_chunk_table(a) = read(2 + 3 * a.n) \o remainder(a.len - HeaderLen - 2 - 3 * a.n)
    BY <1>4 DEF read_chunk_table
  <2>2. /\ 2 + 3 * a.n \in Nat /\ a.len - HeaderLen - 2 - 3 * a.n \in Int
        /\ a.len - HeaderLen - 2 - 3 * a.n >= 0
        /\ (2 + 3 * a.n) + (a.len - HeaderLen - 2 - 3 * a.n) = a.len - HeaderLen
    BY <1>1, <1>4 DEF HoldsWhatItSays
  <2> QED BY <1>2, <2>1, <2>2
<1>5. CASE a.kind = "stsz" /\ ~a.fixed
  <2>1. read_chunk_table(a) = read(3) \o remainder(a.len - HeaderLen - 3)
    BY <1>5 DEF read_chunk_table
  <2>2. /\ a.len - HeaderLen - 3 \in Int /\ a.len - HeaderLen - 3 >= 0
        /\ 3 + (a.len - HeaderLen - 3) = a.len - HeaderLen
    BY <1>1, <1>5 DEF HoldsWhatItSays
  <2> QED BY <1>2, <2>1, <2>2
<1>6. CASE a.kind = "stsz" /\ a.fixed
  <2>1. read_chunk_table(a) = read(3) \o <<>>
    BY <1>6 DEF read_chunk_table
  <2>2. a.len - HeaderLen = 3 + 0
    BY <1>1, <1>6 DEF HoldsWhatItSays
  <2>3. GoesOver(read(3) \o <<>>, 3 + 0)
    BY ReadGoes, GoesOverNothing, GoesOverBoth
  <2> QED BY <2>1, <2>2, <2>3, OverIsLeads
<1>7. CASE a.kind = "stco"
  <2>1. read_chunk_table(a) = read(3 + (a.n - 1)) \o remainder(a.len - HeaderLen - 3 - (a.n - 1))
    BY <1>1, <1>7 DEF read_chunk_table
  <2>2. /\ 3 + (a.n - 1) \in Nat /\ a.len - HeaderLen - 3 - (a.n - 1) \in Int
        /\ a.len - HeaderLen - 3 - (a.n - 1) >= 0
        /\ (3 + (a.n - 1)) + (a.len - HeaderLen - 3 - (a.n - 1)) = a.len - HeaderLen
    BY <1>1, <1>7 DEF HoldsWhatItSays
  <2> QED BY <1>2, <2>1, <2>2
<1> QED BY <1>1, <1>3, <1>4, <1>5, <1>6, <1>7 DEF Tables

(* Any atom but the two that make the demuxer lose its place.              *)
LEMMA HandlerLeads ==
  ASSUME NEW a \in Atom, HoldsWhatItSays(a), NEW parent,
         parent = "file" /\ a.kind = "ftyp" => a.n = 1,
         parent = "stbl" /\ a.kind = "stco" => a.n # 0
  PROVE  LeadsOver(handler(a, parent), a.len - HeaderLen)
<1>1. a.len - HeaderLen \in Nat
  BY DEF HoldsWhatItSays, Atom, HeaderLen
<1>2. CASE parent = "stbl" /\ a.kind = "stsd"
  <2>1. handler(a, parent) = read_chunk_stsd(a)
    BY <1>2 DEF handler, Tables
  <2> QED BY <1>2, <2>1, StsdLeads
<1>3. CASE parent = "stbl" /\ a.kind \in Tables
  <2>1. handler(a, parent) = read_chunk_table(a)
    BY <1>3 DEF handler, Tables
  <2> QED BY <1>3, <2>1, TableLeads
<1>4. CASE parent = "file" /\ a.kind = "ftyp"
  <2>1. handler(a, parent) = read(a.len - HeaderLen)
    BY <1>4 DEF handler, read_chunk_ftyp
  <2> QED BY <1>1, <2>1, ReadGoes, OverIsLeads
<1>5. CASE ~(parent = "stbl" /\ a.kind = "stsd") /\ ~(parent = "stbl" /\ a.kind \in Tables)
           /\ ~(parent = "file" /\ a.kind = "ftyp")
  <2>1. handler(a, parent) = skip(a.len - HeaderLen)
    BY <1>5, Zenon DEF handler
  <2> QED BY <1>1, <2>1, SkipGoes, OverIsLeads
<1> QED BY <1>2, <1>3, <1>4, <1>5

LEMMA HandlerIsScript ==
  ASSUME NEW a \in Atom, HoldsWhatItSays(a), NEW parent
  PROVE  handler(a, parent) \in Seq(Op)
<1>1. CASE parent = "file" /\ a.kind = "ftyp" /\ a.n # 1
  <2>1. handler(a, parent) = read(1)
    BY <1>1 DEF handler, read_chunk_ftyp
  <2> QED BY <2>1, ReadGoes DEF GoesOver
<1>2. CASE parent = "stbl" /\ a.kind = "stco" /\ a.n = 0
  <2>1. handler(a, parent) = read_chunk_table(a)
    BY <1>2 DEF handler, Tables
  <2>2. read_chunk_table(a) = read(3 + 0) \o remainder(a.len - HeaderLen - 3 - 0)
    BY <1>2 DEF read_chunk_table
  <2>3. read(3 + 0) \in Seq(Op)
    BY ReadGoes DEF GoesOver
  <2>4. remainder(a.len - HeaderLen - 3 - 0) \in Seq(Op)
    <3>1. a.len - HeaderLen - 3 - 0 \in Int /\ Huge \in Nat
      BY FilesAssumption DEF Atom, HeaderLen
    <3> QED BY <3>1, SkipGoes DEF remainder, GoesOver
  <2> QED BY <2>1, <2>2, <2>3, <2>4
<1>3. CASE ~(parent = "file" /\ a.kind = "ftyp" /\ a.n # 1)
           /\ ~(parent = "stbl" /\ a.kind = "stco" /\ a.n = 0)
  BY <1>3, HandlerLeads DEF LeadsOver
<1> QED BY <1>1, <1>2, <1>3

-----------------------------------------------------------------------------
(* The loops                                                               *)

Frame(f) == [atom : 0..Len(f), size_remaining : Nat, fresh : BOOLEAN]

(* The loop over the file, and loops over containers in it.                *)
IsStack(f, s) ==
  /\ s \in Seq(Frame(f)) /\ Len(s) >= 1
  /\ s[1] = [atom |-> 0, size_remaining |-> Huge, fresh |-> FALSE]
  /\ \A k \in 2..Len(s) : s[k].atom # 0 /\ f[s[k].atom].kind \in Containers

endIn(f, fr) == startsAt[f][fr.atom] + f[fr.atom].len

(* What the loops expect from position p on.                               *)
Expects(f, s, p) ==
  \A k \in 2..Len(s) :
    endIn(f, s[k]) = s[k].size_remaining + IF k = Len(s) THEN p ELSE endIn(f, s[k + 1])

takenOff(f, s, n) ==
  [s EXCEPT ![Len(s)].size_remaining = IF s[Len(s)].atom = 0 THEN @ ELSE @ - n]

LEMMA FilesAre ==
  ASSUME NEW f \in Files
  PROVE  /\ Len(f) \in Nat /\ f \in Seq(Atom)
         /\ \A i \in 1..Len(f) : f[i] \in Atom /\ HoldsWhatItSays(f[i])
                                 /\ f[i].len \in Nat /\ f[i].len >= 2
         /\ \A i \in 1..(Len(f) + 1) : startsAt[f][i] \in Nat
<1>1. f \in Seq(Atom) /\ Len(f) \in Nat
  BY FilesAssumption
<1>2. \A i \in 1..Len(f) : f[i] \in Atom
  BY <1>1
<1>3. \A i \in 1..Len(f) : HoldsWhatItSays(f[i])
  BY LengthsAssumption
<1>4. \A i \in 1..Len(f) : f[i].len \in Nat /\ f[i].len >= 2
  BY <1>2, <1>3 DEF Atom, HoldsWhatItSays, HeaderLen
<1>5. \A i \in 1..(Len(f) + 1) : startsAt[f][i] \in Nat
  <2>1. startsAt[f] \in [1..(Len(f) + 1) -> Nat]
    BY StartsAssumption
  <2> QED BY <2>1
<1> QED BY <1>1, <1>2, <1>3, <1>4, <1>5

LEMMA StackTop ==
  ASSUME NEW f \in Files, NEW s, IsStack(f, s)
  PROVE  /\ Len(s) \in Nat /\ Len(s) >= 1 /\ s[Len(s)] \in Frame(f) /\ Last(s) = s[Len(s)]
         /\ s[Len(s)].size_remaining \in Nat /\ s[Len(s)].fresh \in BOOLEAN
         /\ (s[Len(s)].atom = 0 <=> Len(s) = 1)
         /\ Len(s) = 1 => ~s[Len(s)].fresh /\ s[Len(s)].size_remaining = Huge
         /\ \A k \in 2..Len(s) : endIn(f, s[k]) \in Nat /\ s[k].size_remaining \in Nat
         /\ Len(s) >= 2 =>  s[Len(s)].atom \in 1..Len(f) /\ f[s[Len(s)].atom].kind \in Containers
<1>1. s \in Seq(Frame(f)) /\ Len(s) \in Nat /\ Len(s) >= 1 /\ Len(f) \in Nat
  BY FilesAre DEF IsStack
<1>2. \A k \in 1..Len(s) : s[k] \in Frame(f)
  BY <1>1
<1>3. s[Len(s)] \in Frame(f) /\ Last(s) = s[Len(s)]
  BY <1>1, <1>2 DEF Last
<1>4. \A fr \in Frame(f) :
        fr.atom \in 0..Len(f) /\ fr.size_remaining \in Nat /\ fr.fresh \in BOOLEAN
  BY DEF Frame
<1>5. s[Len(s)].atom = 0 <=> Len(s) = 1
  <2>1. s[1].atom = 0
    BY DEF IsStack
  <2>2. Len(s) # 1 => Len(s) \in 2..Len(s)
    <3>1. \A n \in Nat : n >= 1 /\ n # 1 => n \in 2..n
      OBVIOUS
    <3> QED BY <1>1, <3>1, Zenon
  <2>3. Len(s) # 1 => s[Len(s)].atom # 0
    BY <2>2 DEF IsStack
  <2> QED BY <2>1, <2>3
<1>6. Len(s) = 1 => ~s[Len(s)].fresh /\ s[Len(s)].size_remaining = Huge
  BY DEF IsStack
<1>7. ASSUME NEW k \in 2..Len(s)
      PROVE  endIn(f, s[k]) \in Nat /\ s[k].size_remaining \in Nat /\ s[k].atom \in 1..Len(f)
             /\ f[s[k].atom].kind \in Containers
  <2>1. s[k] \in Frame(f) /\ s[k].atom # 0 /\ f[s[k].atom].kind \in Containers
    BY <1>1, <1>2 DEF IsStack
  <2>2. s[k].atom \in 1..Len(f) /\ s[k].atom \in 1..(Len(f) + 1) /\ s[k].size_remaining \in Nat
    BY <1>1, <1>4, <2>1
  <2>3. startsAt[f][s[k].atom] \in Nat /\ f[s[k].atom].len \in Nat
    BY <2>2, FilesAre
  <2> QED BY <2>1, <2>2, <2>3 DEF endIn
<1> QED BY <1>1, <1>3, <1>4, <1>5, <1>6, <1>7

(* The innermost loop ends: the position is the end of its atom, however   *)
(* much of it is left to go over.                                          *)
LEMMA LoopLeft ==
  ASSUME NEW f \in Files, NEW s, IsStack(f, s), Len(s) >= 2
  PROVE  /\ IsStack(f, Front(s))
         /\ \A p \in Nat : Expects(f, s, p) =>
              /\ p + Last(s).size_remaining = endIn(f, Last(s))
              /\ Expects(f, Front(s), p + Last(s).size_remaining)
<1> DEFINE t == Front(s)
<1>1. Len(s) \in Nat /\ Last(s) = s[Len(s)] /\ s \in Seq(Frame(f)) /\ s # <<>>
  <2>1. Len(s) \in Nat /\ Last(s) = s[Len(s)]
    BY StackTop
  <2>2. s \in Seq(Frame(f))
    BY DEF IsStack
  <2> QED BY <2>1, <2>2
<1>2. /\ t \in Seq(Frame(f)) /\ Len(t) = Len(s) - 1
      /\ \A k \in 1..(Len(s) - 1) : t[k] = s[k]
  <2>1. t = SubSeq(s, 1, Len(s) - 1)
    BY DEF Front
  <2> QED BY <1>1, <2>1
<1> HIDE DEF t
<1>3. IsStack(f, t)
  BY <1>1, <1>2 DEF IsStack
<1>4. ASSUME NEW p \in Nat, Expects(f, s, p)
      PROVE  /\ p + Last(s).size_remaining = endIn(f, Last(s))
             /\ Expects(f, t, p + Last(s).size_remaining)
  <2>1. \A k \in 2..Len(s) : endIn(f, s[k]) \in Nat /\ s[k].size_remaining \in Nat
    BY StackTop
  <2>2. endIn(f, s[Len(s)]) = s[Len(s)].size_remaining + p
    BY <1>1, <1>4 DEF Expects
  <2>3. p + s[Len(s)].size_remaining = endIn(f, s[Len(s)])
    BY <1>1, <2>1, <2>2
  <2>4. ASSUME NEW k \in 2..Len(t)
        PROVE  endIn(f, t[k]) = t[k].size_remaining
                 + IF k = Len(t) THEN endIn(f, s[Len(s)]) ELSE endIn(f, t[k + 1])
    <3>1. k \in 2..Len(s) /\ k # Len(s) /\ t[k] = s[k] /\ (k # Len(t) => t[k + 1] = s[k + 1])
          /\ (k = Len(t) => k + 1 = Len(s))
      BY <1>1, <1>2
    <3>2. endIn(f, s[k]) = s[k].size_remaining + endIn(f, s[k + 1])
      BY <1>4, <3>1 DEF Expects
    <3> QED BY <3>1, <3>2
  <2> QED BY <1>1, <2>3, <2>4 DEF Expects
<1> QED BY <1>3, <1>4 DEF t

(* The length of an atom is taken off what its loop expects.               *)
LEMMA LengthTaken ==
  ASSUME NEW f \in Files, NEW s, IsStack(f, s), NEW n \in Nat, n <= s[Len(s)].size_remaining
  PROVE  /\ IsStack(f, takenOff(f, s, n)) /\ Len(takenOff(f, s, n)) = Len(s)
         /\ \A k \in 1..Len(s) : takenOff(f, s, n)[k].atom = s[k].atom
                                 /\ takenOff(f, s, n)[k].fresh = s[k].fresh
         /\ \A p \in Nat : Expects(f, s, p) => Expects(f, takenOff(f, s, n), p + n)
<1> DEFINE t == takenOff(f, s, n)
           top == s[Len(s)]
<1>1. /\ Len(s) \in Nat /\ Len(s) >= 1 /\ s \in Seq(Frame(f)) /\ top \in Frame(f)
      /\ Len(f) \in Nat /\ (top.atom = 0 <=> Len(s) = 1)
      /\ \A k \in 1..Len(s) : s[k] \in Frame(f)
  <2>1. s \in Seq(Frame(f))
    BY DEF IsStack
  <2>2. \A k \in 1..Len(s) : s[k] \in Frame(f)
    BY <2>1
  <2>3. Len(f) \in Nat
    BY FilesAre
  <2> QED BY <2>1, <2>2, <2>3, StackTop
<1> DEFINE new == [top EXCEPT !.size_remaining = IF top.atom = 0 THEN @ ELSE @ - n]
<1>2. t = [s EXCEPT ![Len(s)] = new]
  BY <1>1 DEF takenOff
<1>3. /\ new \in Frame(f) /\ new.atom = top.atom /\ new.fresh = top.fresh
      /\ (top.atom # 0 => new.size_remaining = top.size_remaining - n)
      /\ (top.atom = 0 => new = top)
  BY <1>1 DEF Frame
<1> HIDE DEF new, t
<1>4. /\ Len(t) = Len(s) /\ t[Len(s)] = new /\ t \in Seq(Frame(f))
      /\ \A k \in 1..Len(s) : k # Len(s) => t[k] = s[k]
  BY <1>1, <1>2, <1>3
<1>5. \A k \in 1..Len(s) : t[k].atom = s[k].atom /\ t[k].fresh = s[k].fresh
  BY <1>3, <1>4
<1>6. IsStack(f, t)
  <2>1. t[1] = [atom |-> 0, size_remaining |-> Huge, fresh |-> FALSE]
    <3>1. s[1] = [atom |-> 0, size_remaining |-> Huge, fresh |-> FALSE]
      BY DEF IsStack
    <3> QED BY <1>1, <1>3, <1>4, <3>1
  <2>2. \A k \in 2..Len(t) : t[k].atom # 0 /\ f[t[k].atom].kind \in Containers
    BY <1>1, <1>4, <1>5 DEF IsStack
  <2> QED BY <1>1, <1>4, <2>1, <2>2 DEF IsStack
<1>7. ASSUME NEW p \in Nat, Expects(f, s, p) PROVE Expects(f, t, p + n)
  <2>1. \A k \in 1..Len(s) : endIn(f, t[k]) = endIn(f, s[k])
    BY <1>5 DEF endIn
  <2>2. ASSUME NEW k \in 2..Len(t)
        PROVE  endIn(f, t[k]) = t[k].size_remaining
                 + IF k = Len(t) THEN p + n ELSE endIn(f, t[k + 1])
    <3>1. /\ k \in 2..Len(s) /\ k \in 1..Len(s)
          /\ endIn(f, s[k]) \in Nat /\ s[k].size_remaining \in Nat
      BY <1>1, <1>4, StackTop
    <3>2. CASE k = Len(s)
      <4>1. endIn(f, s[k]) = s[k].size_remaining + p
        BY <1>7, <3>1, <3>2 DEF Expects
      <4>2. t[k].size_remaining = s[k].size_remaining - n
        BY <1>1, <1>3, <1>4, <3>1, <3>2
      <4>3. endIn(f, t[k]) = t[k].size_remaining + (p + n)
        BY <2>1, <3>1, <4>1, <4>2
      <4> QED BY <1>4, <3>2, <4>3
    <3>3. CASE k # Len(s)
      <4>1. endIn(f, s[k]) = s[k].size_remaining + endIn(f, s[k + 1])
        BY <1>7, <3>1, <3>3 DEF Expects
      <4>2. t[k] = s[k] /\ k + 1 \in 1..Len(s)
        BY <1>1, <1>4, <3>1, <3>3
      <4> QED BY <1>4, <2>1, <3>1, <3>3, <4>1, <4>2
    <3> QED BY <3>2, <3>3
  <2> QED BY <2>2 DEF Expects
<1> QED BY <1>4, <1>5, <1>6, <1>7 DEF t

(* A container is entered: its own loop expects what is behind its header. *)
LEMMA LoopEntered ==
  ASSUME NEW f \in Files, NEW s, IsStack(f, s), NEW i \in 1..Len(f), NEW b \in BOOLEAN,
         f[i].kind \in Containers, f[i].len <= s[Len(s)].size_remaining,
         NEW new, new = [atom |-> i, size_remaining |-> f[i].len - HeaderLen, fresh |-> b],
         NEW t, t = Append(takenOff(f, s, f[i].len), new)
  PROVE  /\ IsStack(f, t)
         /\ Expects(f, s, startsAt[f][i]) => Expects(f, t, startsAt[f][i] + HeaderLen)
<1> DEFINE r == takenOff(f, s, f[i].len)
           p == startsAt[f][i]
<1>1. /\ Len(f) \in Nat /\ f[i].len \in Nat /\ f[i].len >= 2 /\ HeaderLen = 2 /\ p \in Nat
  <2>1. i \in 1..(Len(f) + 1) /\ Len(f) \in Nat
    BY FilesAre
  <2> QED BY <2>1, FilesAre DEF HeaderLen
<1>2. /\ IsStack(f, r) /\ Len(r) = Len(s)
      /\ Expects(f, s, p) => Expects(f, r, p + f[i].len)
  BY <1>1, LengthTaken
<1> HIDE DEF r, p
<1>3. r \in Seq(Frame(f)) /\ Len(r) \in Nat /\ Len(r) >= 1
  BY <1>2, StackTop DEF IsStack
<1>4. new \in Frame(f) /\ new.atom = i /\ new.size_remaining = f[i].len - HeaderLen
  BY <1>1 DEF Frame
<1>5. /\ t \in Seq(Frame(f)) /\ Len(t) = Len(r) + 1 /\ t[Len(r) + 1] = new
      /\ \A k \in 1..Len(r) : t[k] = r[k]
  BY <1>3, <1>4 DEF r
<1>6. IsStack(f, t)
  <2>1. t[1] = [atom |-> 0, size_remaining |-> Huge, fresh |-> FALSE]
    BY <1>2, <1>3, <1>5 DEF IsStack
  <2>2. ASSUME NEW k \in 2..Len(t) PROVE t[k].atom # 0 /\ f[t[k].atom].kind \in Containers
    <3>1. CASE k = Len(t)
      BY <1>4, <1>5, <3>1
    <3>2. CASE k # Len(t)
      BY <1>2, <1>3, <1>5, <3>2 DEF IsStack
    <3> QED BY <3>1, <3>2
  <2> QED BY <1>3, <1>5, <2>1, <2>2 DEF IsStack
<1>7. ASSUME Expects(f, s, p) PROVE Expects(f, t, p + HeaderLen)
  <2>1. endIn(f, new) = p + f[i].len
    BY <1>4 DEF endIn, p
  <2>2. ASSUME NEW k \in 2..Len(t)
        PROVE  endIn(f, t[k]) = t[k].size_remaining
                 + IF k = Len(t) THEN p + HeaderLen ELSE endIn(f, t[k + 1])
    <3>1. CASE k = Len(t)
      <4>1. t[k] = new
        BY <1>5, <3>1
      <4>2. endIn(f, new) = new.size_remaining + (p + HeaderLen)
        <5> DEFINE n == f[i].len
        <5>1. n \in Nat /\ p \in Nat /\ HeaderLen = 2
              /\ endIn(f, new) = p + n /\ new.size_remaining = n - HeaderLen
          BY <1>1, <1>4, <2>1
        <5> HIDE DEF n
        <5> QED BY <5>1
      <4> QED BY <3>1, <4>1, <4>2
    <3>2. CASE k # Len(t)
      <4>1. k \in 2..Len(r) /\ t[k] = r[k]
        BY <1>3, <1>5, <3>2
      <4>2. endIn(f, r[k]) = r[k].size_remaining
              + IF k = Len(r) THEN p + f[i].len ELSE endIn(f, r[k + 1])
        BY <1>2, <1>7, <4>1 DEF Expects
      <4>3. k = Len(r) => t[k + 1] = new
        BY <1>5
      <4>4. k # Len(r) => t[k + 1] = r[k + 1]
        BY <1>3, <1>5, <4>1
      <4> QED BY <2>1, <3>2, <4>1, <4>2, <4>3, <4>4
    <3> QED BY <3>1, <3>2
  <2> QED BY <2>2 DEF Expects
<1> QED BY <1>6, <1>7 DEF p

(* Where the buffer will stand when the call under way is done, and where  *)
(* the esds ends if the demuxer remembers it.                              *)
At == bytes_consumed + want
MarkAt == IF j = NoPointer THEN NoPointer ELSE j + (bytes_consumed - read_pos)

(* A read has brought nothing, and the demuxer does not know it yet.       *)
GaveUp == pc = "client" /\ phase # "loop" /\ out = <<>>

(* The atoms of a file start here, and the file ends.                      *)
IsPlace(f, p) == \E k \in 1..(Len(f) + 1) : startsAt[f][k] = p

Stands(f, s, p) == p \in Nat /\ IsPlace(f, p) /\ Expects(f, s, p)

DemuxTypeOK ==
  /\ file \in Files /\ IsStack(file, stack)
  /\ status \in {"opening", "reading", "failed", "lost", "decoding", "ended"}
  /\ phase \in {"length", "kind", "field", "frame", "loop"}
  /\ script \in Seq(Op) /\ j \in Int

Calling ==
  /\ inCall = "client" => want = 0
  /\ inCall = "read" => phase # "loop"
  /\ status = "opening" => phase = "loop"
  /\ sent <= fileLen

(* After the size and kind of an atom have been read.                      *)
HeaderRead(f, s, p) ==
  /\ \E i \in 1..Len(f) : startsAt[f][i] = p
  /\ LET a == f[CHOOSE i \in 1..Len(f) : startsAt[f][i] = p]
     IN  a.len <= s[Len(s)].size_remaining /\ (s[Len(s)].fresh => a.len = SmhdLen)

HeaderIsRead ==
  status = "reading" /\ phase = "kind" /\ ~GaveUp => HeaderRead(file, stack, At - 2)

(* The script under way leads to where the loops expect an atom or their   *)
(* ends; in the header of an atom this is where it began.                  *)
OnTheWay(f, s, t, p, m) == \E q \in Nat : Leads(t, p, m, q, NoPointer) /\ Stands(f, s, q)

Walking ==
  status \in {"opening", "reading"} /\ strays = {} /\ ~GaveUp =>
    /\ phase \in {"loop", "field"} => OnTheWay(file, stack, script, At, MarkAt)
    /\ phase \in {"length", "kind"} => script = <<>> /\ MarkAt = NoPointer
    /\ phase = "length" => Stands(file, stack, At - 1) /\ stack[Len(stack)].size_remaining # 0
    /\ phase = "kind" => Stands(file, stack, At - 2)

Lost == status = "lost" => strays # {}

DemuxInv ==
  BufferInv /\ DemuxTypeOK /\ Calling /\ HeaderIsRead /\ Walking /\ Lost

-----------------------------------------------------------------------------
(* Places                                                                  *)

LEMMA PlaceBehind ==
  ASSUME NEW f \in Files, NEW i \in 1..Len(f)
  PROVE  /\ IsPlace(f, startsAt[f][i] + f[i].len)
         /\ f[i].kind \in Containers => IsPlace(f, startsAt[f][i] + HeaderLen)
<1>1. Len(f) \in Nat /\ i + 1 \in 1..(Len(f) + 1)
  BY FilesAre
<1>2. startsAt[f][i + 1] = startsAt[f][i]
        + IF f[i].kind \in Containers THEN HeaderLen ELSE f[i].len
  BY StartsAssumption
<1>3. CASE f[i].kind \in Containers
  <2>1. IsPlace(f, startsAt[f][i] + f[i].len)
    BY <1>3, LengthsAssumption DEF IsPlace
  <2> QED BY <1>1, <1>2, <1>3, <2>1 DEF IsPlace
<1>4. CASE f[i].kind \notin Containers
  BY <1>1, <1>2, <1>4 DEF IsPlace
<1> QED BY <1>3, <1>4

(* A place that is not the end is where an atom starts.                    *)
LEMMA AtomThere ==
  ASSUME NEW p, file \in Files, IsPlace(file, p), p # fileLen
  PROVE  isAtomAt(p)
<1>1. Len(file) \in Nat
  BY FilesAre
<1>2. PICK k \in 1..(Len(file) + 1) : startsAt[file][k] = p
  BY DEF IsPlace
<1>3. k # Len(file) + 1
  BY <1>2 DEF fileLen
<1>4. k \in 1..Len(file)
  BY <1>1, <1>3
<1> QED BY <1>2, <1>4 DEF isAtomAt

LEMMA AtomIs ==
  ASSUME NEW p, isAtomAt(p)
  PROVE  atomAt(p) \in 1..Len(file) /\ startsAt[file][atomAt(p)] = p
  BY DEF isAtomAt, atomAt

LEMMA TwoOrMore == \A n \in Nat : n >= 1 /\ n # 1 => n >= 2
  OBVIOUS

LEMMA LessIs ==
  ASSUME DemuxTypeOK, NEW n
  PROVE  /\ less(n) = takenOff(file, stack, n)
         /\ frame = stack[Len(stack)] /\ Len(stack) \in Nat /\ Len(stack) >= 1
         /\ (kindOf(frame) = "file" <=> frame.atom = 0)
         /\ (frame.atom = 0 <=> Len(stack) = 1)
         /\ frame.size_remaining \in Nat /\ frame.fresh \in BOOLEAN
<1>1. /\ Len(stack) \in Nat /\ Len(stack) >= 1 /\ frame = stack[Len(stack)]
      /\ (frame.atom = 0 <=> Len(stack) = 1)
      /\ frame.size_remaining \in Nat /\ frame.fresh \in BOOLEAN
      /\ Len(stack) >= 2 => file[frame.atom].kind \in Containers
  BY StackTop DEF DemuxTypeOK, frame
<1>2. kindOf(frame) = "file" <=> frame.atom = 0
  <2>1. Len(stack) # 1 => Len(stack) >= 2
    BY <1>1, TwoOrMore, Zenon
  <2>2. \A kind \in Containers : kind # "file"
    BY DEF Containers
  <2>3. frame.atom # 0 => file[frame.atom].kind # "file"
    BY <1>1, <2>1, <2>2
  <2> QED BY <2>3 DEF kindOf
<1> QED BY <1>1, <1>2 DEF less, takenOff

-----------------------------------------------------------------------------
(* What a step does to the buffer                                          *)

LEMMA BufferQuiet ==
  ASSUME DemuxInv, UNCHANGED <<bufferVars, file>>
  PROVE  /\ BufferInv' /\ At' = At /\ pc' = pc /\ out' = out /\ read_pos' = read_pos
         /\ bytes_consumed' = bytes_consumed /\ inCall' = inCall /\ want' = want
         /\ sent' = sent /\ fileLen' = fileLen
<1>1. BufferInv'
  BY BufferStepInv DEF DemuxInv
<1> QED BY <1>1 DEF bufferVars, posVars, fillVars, callVars, fifoVars, At, inCall, fileLen

(* The demuxer calls the buffer.                                           *)
LEMMA BufferAsked ==
  ASSUME DemuxInv, NEW n \in Nat, Read(n) \/ Seek(n) \/ (n = 0 /\ Fill),
         UNCHANGED file
  PROVE  /\ BufferInv' /\ At \in Nat /\ At = bytes_consumed /\ At' = At + n
         /\ pc' # "client" /\ read_pos' = read_pos /\ bytes_consumed' = bytes_consumed
         /\ sent' = sent /\ fileLen' = fileLen
         /\ (inCall' = "client" => want' = 0) /\ (inCall' = "read" => Read(n))
<1>1. BufferInv'
  BY BufferStepInv DEF DemuxInv, BufferStep
<1>2. pc = "client" /\ want = 0 /\ bytes_consumed \in Nat
  <2>1. pc = "client"
    BY DEF Read, Seek, Fill
  <2> QED BY <2>1, BufferAssumption DEF DemuxInv, BufferInv, BufferTypeOK, Calling, inCall
<1>3. CASE Read(n)
  BY <1>1, <1>2, <1>3 DEF Read, fifoVars, posVars, At, inCall, fileLen
<1>4. CASE Seek(n)
  BY <1>1, <1>2, <1>4 DEF Seek, fifoVars, posVars, At, inCall, fileLen
<1>5. CASE n = 0 /\ Fill
  BY <1>1, <1>2, <1>5 DEF Fill, fifoVars, posVars, callVars, At, inCall, fileLen
<1> QED BY <1>3, <1>4, <1>5

LEMMA MarkKept ==
  ASSUME UNCHANGED <<j, bytes_consumed, read_pos>>
  PROVE  MarkAt' = MarkAt
  BY DEF MarkAt

(* The demuxer's turn.                                                     *)
LEMMA ReadyIs ==
  ASSUME DemuxInv, ready
  PROVE  /\ pc = "client" /\ status = "reading" /\ ~GaveUp /\ want = 0 /\ inCall = "client"
         /\ bytes_consumed \in Nat /\ At = bytes_consumed /\ bytes_consumed <= fileLen
         /\ fileLen \in Nat /\ j \in Int /\ read_pos \in Nat
<1>1. pc = "client" /\ status = "reading" /\ ~GaveUp
  BY DEF ready, GaveUp
<1>2. inCall = "client" /\ want = 0
  BY <1>1 DEF inCall, DemuxInv, Calling
<1>3. /\ bytes_consumed \in Nat /\ read_pos \in Nat /\ bytes_consumed <= taken /\ taken <= sent
      /\ taken \in Nat /\ sent \in Nat /\ sent <= fileLen /\ j \in Int
  BY BufferAssumption
  DEF DemuxInv, BufferInv, BufferTypeOK, UnreadIsNext, Calling, DemuxTypeOK, buf_data_unread
<1>4. fileLen \in Nat
  <2>1. file \in Files /\ Len(file) \in Nat
    BY FilesAre DEF DemuxInv, DemuxTypeOK
  <2> QED BY <2>1, FilesAre DEF fileLen
<1> QED BY <1>1, <1>2, <1>3, <1>4 DEF At

-----------------------------------------------------------------------------
(* The steps                                                               *)

(* Once the demuxer has stopped walking, little is left to show.           *)
LEMMA NoLongerWalking ==
  ASSUME BufferInv', DemuxTypeOK', Calling', Lost', status' \notin {"opening", "reading"}
  PROVE  DemuxInv'
  BY DEF DemuxInv, HeaderIsRead, Walking

LEMMA StopSteps ==
  ASSUME DemuxInv,
         \/ NotAnAtom \/ ReadGaveUp \/ UnknownAtom \/ AudioFound \/ HandlerFails
         \/ FrameError \/ EofSeen
  PROVE  DemuxInv'
<1>1. /\ UNCHANGED <<bufferVars, file, stack, script, j>>
      /\ phase' \in {phase, "loop"} /\ pc = "client"
      /\ status' \in {"failed", "lost", "decoding", "ended"}
  BY DEF NotAnAtom, ReadGaveUp, UnknownAtom, AudioFound, HandlerFails, FrameError, EofSeen,
         ready, kindRead, scripted, atLoop
<1>2. /\ BufferInv' /\ inCall' = inCall /\ pc' = pc /\ want' = want /\ sent' = sent
      /\ fileLen' = fileLen
  BY <1>1, BufferQuiet
<1>3. DemuxTypeOK'
  BY <1>1 DEF DemuxTypeOK, DemuxInv
<1>4. Calling'
  BY <1>1, <1>2 DEF Calling, DemuxInv, inCall
<1>5. Lost'
  <2>1. CASE NotAnAtom
    <3>1. ready /\ phase = "length" /\ ~isAtomAt(bytes_consumed - 1) /\ strays' = strays
      BY <2>1 DEF NotAnAtom
    <3>2. ASSUME strays = {} PROVE FALSE
      <4>1. Stands(file, stack, bytes_consumed - 1)
        BY <3>1, <3>2, ReadyIs DEF DemuxInv, Walking
      <4>2. bytes_consumed - 1 # fileLen
        BY <3>1, ReadyIs
      <4> QED BY <3>1, <4>1, <4>2, AtomThere DEF Stands, DemuxInv, DemuxTypeOK
    <3> QED BY <3>1, <3>2 DEF Lost
  <2>2. CASE ReadGaveUp
    BY <2>2 DEF ReadGaveUp, Lost
  <2>3. CASE UnknownAtom \/ AudioFound \/ HandlerFails \/ FrameError \/ EofSeen
    BY <2>3 DEF UnknownAtom, AudioFound, HandlerFails, FrameError, EofSeen, Lost
  <2> QED BY <2>1, <2>2, <2>3
<1> QED BY <1>1, <1>2, <1>3, <1>4, <1>5, NoLongerWalking

(* A step of the decoding loop that calls the buffer.                      *)
LEMMA DecodeSteps ==
  ASSUME DemuxInv, FrameFill \/ \E n \in 1..Size : FrameDecoded(n)
  PROVE  DemuxInv'
<1>1. PICK n \in Nat :
        /\ Seek(n) \/ (n = 0 /\ Fill)
        /\ UNCHANGED <<file, status, stack, script, j, strays>>
        /\ phase' \in {"frame", "loop"} /\ status = "decoding"
  <2>1. CASE FrameFill
    BY <2>1 DEF FrameFill, atLoop
  <2>2. CASE \E n \in 1..Size : FrameDecoded(n)
    <3>1. PICK n \in 1..Size : FrameDecoded(n)
      BY <2>2
    <3>2. n \in Nat
      BY BufferAssumption
    <3> QED BY <3>1, <3>2 DEF FrameDecoded
  <2> QED BY <2>1, <2>2
<1>2. /\ BufferInv' /\ sent' = sent /\ fileLen' = fileLen
      /\ (inCall' = "client" => want' = 0) /\ (inCall' = "read" => Read(n))
  BY <1>1, BufferAsked
<1>3. ~Read(n)
  BY <1>1 DEF Read, Seek, Fill
<1>4. DemuxTypeOK'
  BY <1>1 DEF DemuxTypeOK, DemuxInv
<1>5. Calling' /\ Lost'
  BY <1>1, <1>2, <1>3 DEF Calling, Lost, DemuxInv
<1> QED BY <1>1, <1>2, <1>4, <1>5, NoLongerWalking

(* A step of the walk goes on from here: it is enough that it is on its    *)
(* way again.                                                              *)
LEMMA WalksOn ==
  ASSUME BufferInv', DemuxTypeOK', Calling', status' = "reading", phase' \in {"loop", "field"},
         strays' = {} => OnTheWay(file', stack', script', At', MarkAt')
  PROVE  DemuxInv'
  BY DEF DemuxInv, HeaderIsRead, Walking, Lost

(* What the demuxer knows when the loop is at its head, or in a script.    *)
LEMMA WayFrom ==
  ASSUME DemuxInv, ready, phase \in {"loop", "field"}, strays = {}
  PROVE  OnTheWay(file, stack, script, bytes_consumed, MarkAt)
  BY ReadyIs DEF DemuxInv, Walking

LEMMA BetweenAtoms ==
  ASSUME DemuxInv, betweenAtoms, strays = {}
  PROVE  /\ MarkAt = NoPointer /\ Stands(file, stack, bytes_consumed)
         /\ script = <<>> /\ bytes_consumed \in Nat
<1>1. /\ ready /\ phase \in {"loop", "field"} /\ script = <<>>
  BY DEF betweenAtoms
<1>2. PICK q \in Nat : Leads(<<>>, bytes_consumed, MarkAt, q, NoPointer) /\ Stands(file, stack, q)
  BY <1>1, WayFrom DEF OnTheWay
<1>3. q = bytes_consumed /\ NoPointer = MarkAt
  BY <1>2, NowhereIsHere
<1> QED BY <1>1, <1>2, <1>3, ReadyIs

LEMMA StandsOnTheWay ==
  ASSUME NEW f, NEW s, NEW p \in Nat, Stands(f, s, p)
  PROVE  OnTheWay(f, s, <<>>, p, NoPointer)
<1>1. Leads(<<>>, p, NoPointer, p, NoPointer)
  BY LeadsNowhere, NoPointerInt
<1> QED BY <1>1 DEF OnTheWay

LEMMA NextAtomStep ==
  ASSUME DemuxInv, NextAtom
  PROVE  DemuxInv'
<1>1. /\ betweenAtoms /\ ready /\ frame.size_remaining # 0 /\ Read(1) /\ phase' = "length"
      /\ UNCHANGED <<file, status, stack, script, j, strays>> /\ script = <<>>
      /\ pc = "client" /\ status = "reading" /\ bytes_consumed \in Nat
  BY ReadyIs DEF NextAtom, betweenAtoms
<1>2. /\ BufferInv' /\ At' = bytes_consumed + 1 /\ pc' # "client"
      /\ read_pos' = read_pos /\ bytes_consumed' = bytes_consumed
      /\ sent' = sent /\ fileLen' = fileLen
      /\ (inCall' = "client" => want' = 0)
  BY <1>1, BufferAsked
<1>3. DemuxTypeOK'
  BY <1>1 DEF DemuxTypeOK, DemuxInv
<1>4. Calling'
  BY <1>1, <1>2 DEF Calling, DemuxInv
<1>5. MarkAt' = MarkAt
  BY <1>1, <1>2, MarkKept
<1>6. strays = {} => MarkAt = NoPointer /\ Stands(file, stack, bytes_consumed)
  BY <1>1, BetweenAtoms
<1>7. frame = stack[Len(stack)]
  BY LessIs DEF DemuxInv
<1>8. At' - 1 = bytes_consumed
  BY <1>1, <1>2
<1>9. Walking'
  <2>1. strays' = {} => Stands(file', stack', At' - 1)
    BY <1>1, <1>6, <1>8
  <2> QED BY <1>1, <1>5, <1>6, <1>7, <2>1 DEF Walking
<1> QED BY <1>1, <1>2, <1>3, <1>4, <1>9 DEF DemuxInv, HeaderIsRead, Lost

LEMMA ContainerEndsStep ==
  ASSUME DemuxInv, ContainerEnds
  PROVE  DemuxInv'
<1>1. /\ betweenAtoms /\ ready /\ frame.size_remaining = 0 /\ stack' = Front(stack)
      /\ phase' = "loop" /\ UNCHANGED <<bufferVars, file, status, script, j, strays>>
      /\ script = <<>> /\ pc = "client" /\ status = "reading" /\ bytes_consumed \in Nat
      /\ At = bytes_consumed
  BY ReadyIs DEF ContainerEnds, betweenAtoms
<1>2. /\ BufferInv' /\ At' = At /\ pc' = pc /\ inCall' = inCall /\ want' = want
      /\ read_pos' = read_pos /\ bytes_consumed' = bytes_consumed
      /\ sent' = sent /\ fileLen' = fileLen
  BY <1>1, BufferQuiet
<1>3. file \in Files /\ IsStack(file, stack) /\ Len(stack) \in Nat /\ Len(stack) >= 1
      /\ frame = stack[Len(stack)] /\ Last(stack) = frame
  BY LessIs DEF DemuxInv, DemuxTypeOK, frame
<1>4. Len(stack) >= 2
  <2>1. Len(stack) # 1
    <3>1. Huge # 0
      BY FilesAssumption, BufferAssumption
    <3> QED BY <1>1, <1>3, <3>1 DEF IsStack
  <2> QED BY <1>3, <2>1, TwoOrMore, Zenon
<1>5. IsStack(file, Front(stack))
  BY <1>3, <1>4, LoopLeft
<1>6. DemuxTypeOK'
  BY <1>1, <1>5 DEF DemuxTypeOK, DemuxInv
<1>7. Calling'
  BY <1>1, <1>2 DEF Calling, DemuxInv, inCall
<1>8. ASSUME strays' = {} PROVE OnTheWay(file', stack', script', At', MarkAt')
  <2>1. MarkAt = NoPointer /\ Stands(file, stack, bytes_consumed)
    BY <1>1, <1>8, BetweenAtoms
  <2>2. Expects(file, Front(stack), bytes_consumed + 0)
    BY <1>1, <1>3, <1>4, <2>1, LoopLeft DEF Stands
  <2>3. Stands(file, Front(stack), bytes_consumed)
    BY <1>1, <2>1, <2>2 DEF Stands
  <2>4. MarkAt' = MarkAt
    BY <1>1, <1>2, MarkKept
  <2> QED BY <1>1, <1>2, <2>1, <2>3, <2>4, StandsOnTheWay
<1> QED BY <1>1, <1>2, <1>6, <1>7, <1>8, WalksOn

LEMMA ItemReplaced ==
  ASSUME NEW S, NEW s \in Seq(S), NEW i \in 1..Len(s), NEW new \in S
  PROVE  /\ [s EXCEPT ![i] = new] \in Seq(S) /\ Len([s EXCEPT ![i] = new]) = Len(s)
         /\ [s EXCEPT ![i] = new][i] = new
         /\ \A k \in 1..Len(s) : k # i => [s EXCEPT ![i] = new][k] = s[k]
  OBVIOUS

LEMMA FreshCleared ==
  ASSUME NEW f \in Files, NEW s, IsStack(f, s), NEW t, t = [s EXCEPT ![Len(s)].fresh = FALSE]
  PROVE  IsStack(f, t) /\ \A p \in Nat : Expects(f, s, p) => Expects(f, t, p)
<1>1. /\ Len(s) \in Nat /\ Len(s) >= 1 /\ s \in Seq(Frame(f)) /\ s[Len(s)] \in Frame(f)
      /\ \A k \in 1..Len(s) : s[k] \in Frame(f)
  <2>1. s \in Seq(Frame(f))
    BY DEF IsStack
  <2>2. \A k \in 1..Len(s) : s[k] \in Frame(f)
    BY <2>1
  <2> QED BY <2>1, <2>2, StackTop
<1> DEFINE new == [s[Len(s)] EXCEPT !.fresh = FALSE]
<1>2. t = [s EXCEPT ![Len(s)] = new]
  BY <1>1
<1>3. /\ new \in Frame(f) /\ new.atom = s[Len(s)].atom /\ ~new.fresh
      /\ new.size_remaining = s[Len(s)].size_remaining
      /\ (s[Len(s)].fresh \/ new = s[Len(s)])
  BY <1>1 DEF Frame
<1> HIDE DEF new
<1>4. /\ Len(t) = Len(s) /\ t[Len(s)] = new /\ t \in Seq(Frame(f))
      /\ \A k \in 1..Len(s) : k # Len(s) => t[k] = s[k]
  <2>1. Len(s) \in 1..Len(s)
    BY <1>1
  <2> DEFINE r == [s EXCEPT ![Len(s)] = new]
  <2>2. /\ r \in Seq(Frame(f)) /\ Len(r) = Len(s) /\ r[Len(s)] = new
        /\ \A k \in 1..Len(s) : k # Len(s) => r[k] = s[k]
    BY <1>1, <1>3, <2>1, ItemReplaced
  <2>3. t = r
    BY <1>2
  <2> HIDE DEF r
  <2> QED BY <2>2, <2>3
<1>5. \A k \in 1..Len(s) : t[k].atom = s[k].atom /\ t[k].size_remaining = s[k].size_remaining
  BY <1>3, <1>4
<1>6. t[1] = [atom |-> 0, size_remaining |-> Huge, fresh |-> FALSE]
  <2>1. s[1] = [atom |-> 0, size_remaining |-> Huge, fresh |-> FALSE]
    BY DEF IsStack
  <2>2. CASE Len(s) = 1
    <3>1. ~s[Len(s)].fresh
      BY <2>1, <2>2
    <3> QED BY <1>3, <1>4, <2>1, <2>2, <3>1
  <2>3. CASE Len(s) # 1
    BY <1>1, <1>4, <2>1, <2>3
  <2> QED BY <2>2, <2>3
<1>7. IsStack(f, t)
  <2>1. \A k \in 2..Len(t) : t[k].atom # 0 /\ f[t[k].atom].kind \in Containers
    BY <1>1, <1>4, <1>5 DEF IsStack
  <2> QED BY <1>1, <1>4, <1>6, <2>1 DEF IsStack
<1>8. \A k \in 1..Len(s) : endIn(f, t[k]) = endIn(f, s[k])
  BY <1>5 DEF endIn
<1>9. ASSUME NEW p \in Nat, Expects(f, s, p) PROVE Expects(f, t, p)
  <2>1. ASSUME NEW k \in 2..Len(t)
        PROVE  endIn(f, t[k]) = t[k].size_remaining
                 + IF k = Len(t) THEN p ELSE endIn(f, t[k + 1])
    <3>1. k \in 2..Len(s) /\ k \in 1..Len(s) /\ (k # Len(s) => k + 1 \in 1..Len(s))
      BY <1>1, <1>4
    <3>2. endIn(f, s[k]) = s[k].size_remaining + IF k = Len(s) THEN p ELSE endIn(f, s[k + 1])
      BY <1>9, <3>1 DEF Expects
    <3> QED BY <1>4, <1>5, <1>8, <3>1, <3>2
  <2> QED BY <2>1 DEF Expects
<1> QED BY <1>7, <1>9

-----------------------------------------------------------------------------
(* In the header of an atom                                                *)

LEMMA LengthIs ==
  ASSUME DemuxInv, ready, phase = "length", isAtomAt(bytes_consumed - 1)
  PROVE  /\ atomAt(bytes_consumed - 1) \in 1..Len(file)
         /\ startsAt[file][atomAt(bytes_consumed - 1)] = bytes_consumed - 1
         /\ strays = {} => /\ script = <<>> /\ MarkAt = NoPointer
                           /\ Stands(file, stack, bytes_consumed - 1)
                           /\ frame.size_remaining # 0
<1>1. frame = stack[Len(stack)]
  BY LessIs DEF DemuxInv
<1> QED BY <1>1, AtomIs, ReadyIs DEF DemuxInv, Walking

LEMMA LengthReadStep ==
  ASSUME DemuxInv, LengthRead
  PROVE  DemuxInv'
<1> DEFINE i == atomAt(bytes_consumed - 1)
<1>1. /\ ready /\ phase = "length" /\ isAtomAt(bytes_consumed - 1)
      /\ ~(frame.fresh /\ file[i].len # SmhdLen)
      /\ UNCHANGED <<file, stack, script, j, strays>>
  BY DEF LengthRead
<1>2. /\ pc = "client" /\ status = "reading" /\ bytes_consumed \in Nat /\ At = bytes_consumed
  BY <1>1, ReadyIs
<1>3. CASE file[i].len > frame.size_remaining
  <2>1. status' = "failed" /\ UNCHANGED <<bufferVars, phase>>
    <3>1. file[i].len \in Nat /\ frame.size_remaining \in Nat
      BY <1>1, LengthIs, LessIs, FilesAre DEF DemuxInv, DemuxTypeOK
    <3> QED BY <1>3, <3>1 DEF LengthRead
  <2>2. /\ BufferInv' /\ inCall' = inCall /\ want' = want /\ sent' = sent /\ fileLen' = fileLen
    BY <1>1, <2>1, BufferQuiet
  <2>3. DemuxTypeOK'
    BY <1>1, <2>1 DEF DemuxTypeOK, DemuxInv
  <2>4. Calling' /\ Lost'
    BY <2>1, <2>2 DEF Calling, Lost, DemuxInv
  <2> QED BY <2>1, <2>2, <2>3, <2>4, NoLongerWalking
<1>4. CASE file[i].len <= frame.size_remaining
  <2>1. Read(1) /\ phase' = "kind" /\ status' = status
    BY <1>4 DEF LengthRead
  <2>2. /\ BufferInv' /\ At' = bytes_consumed + 1 /\ pc' # "client"
        /\ read_pos' = read_pos /\ bytes_consumed' = bytes_consumed
        /\ sent' = sent /\ fileLen' = fileLen /\ (inCall' = "client" => want' = 0)
    BY <1>1, <1>2, <2>1, BufferAsked
  <2>3. DemuxTypeOK'
    BY <1>1, <2>1 DEF DemuxTypeOK, DemuxInv
  <2>4. Calling'
    BY <1>2, <2>1, <2>2 DEF Calling, DemuxInv
  <2>5. MarkAt' = MarkAt
    BY <1>1, <2>2, MarkKept
  <2>6. At' - 2 = bytes_consumed - 1
    BY <1>2, <2>2
  <2>7. HeaderRead(file, stack, bytes_consumed - 1)
    <3>1. frame = stack[Len(stack)]
      BY LessIs DEF DemuxInv
    <3>2. i = CHOOSE k \in 1..Len(file) : startsAt[file][k] = bytes_consumed - 1
      BY DEF atomAt
    <3>3. i \in 1..Len(file) /\ startsAt[file][i] = bytes_consumed - 1
      BY <1>1, LengthIs
    <3> HIDE DEF i
    <3> QED BY <1>1, <1>4, <3>1, <3>2, <3>3 DEF HeaderRead
  <2>8. HeaderIsRead'
    BY <1>1, <2>6, <2>7 DEF HeaderIsRead
  <2>9. strays = {} => /\ script = <<>> /\ MarkAt = NoPointer
                       /\ Stands(file, stack, bytes_consumed - 1)
    BY <1>1, LengthIs
  <2>10. Walking'
    BY <1>1, <2>1, <2>5, <2>6, <2>9 DEF Walking
  <2>11. Lost'
    BY <1>2, <2>1 DEF Lost
  <2> QED BY <2>2, <2>3, <2>4, <2>8, <2>10, <2>11 DEF DemuxInv
<1>5. file[i].len \in Nat /\ frame.size_remaining \in Nat
  BY <1>1, LengthIs, LessIs, FilesAre DEF DemuxInv, DemuxTypeOK
<1> HIDE DEF i
<1>6. file[i].len <= frame.size_remaining \/ file[i].len > frame.size_remaining
  BY <1>5
<1> QED BY <1>3, <1>4, <1>6

LEMMA NotSoundStep ==
  ASSUME DemuxInv, NotSound
  PROVE  DemuxInv'
<1>1. /\ ready /\ phase = "length" /\ isAtomAt(bytes_consumed - 1) /\ frame.fresh
      /\ stack' = Front(stack) /\ script' = remainder(frame.size_remaining - 1)
      /\ phase' = "loop" /\ UNCHANGED <<bufferVars, file, status, j, strays>>
  BY DEF NotSound
<1>2. /\ pc = "client" /\ status = "reading" /\ bytes_consumed \in Nat /\ At = bytes_consumed
  BY <1>1, ReadyIs
<1>3. /\ BufferInv' /\ At' = At /\ pc' = pc /\ inCall' = inCall /\ want' = want
      /\ read_pos' = read_pos /\ bytes_consumed' = bytes_consumed
      /\ sent' = sent /\ fileLen' = fileLen
  BY <1>1, BufferQuiet
<1>4. /\ file \in Files /\ IsStack(file, stack) /\ Len(stack) \in Nat /\ Len(stack) >= 1
      /\ frame = stack[Len(stack)] /\ Last(stack) = frame /\ frame.size_remaining \in Nat
  BY LessIs DEF DemuxInv, DemuxTypeOK, frame
<1>5. Len(stack) >= 2
  <2>1. Len(stack) # 1
    BY <1>1, <1>4, StackTop
  <2> QED BY <1>4, <2>1, TwoOrMore, Zenon
<1>6. IsStack(file, Front(stack))
  BY <1>4, <1>5, LoopLeft
<1>7. script' \in Seq(Op)
  <2>1. frame.size_remaining - 1 \in Int /\ Huge \in Nat
    BY <1>4, FilesAssumption
  <2>2. PICK n \in Nat : script' = skip(n)
    BY <1>1, <2>1 DEF remainder
  <2> QED BY <2>2, SkipGoes DEF GoesOver
<1>8. DemuxTypeOK'
  BY <1>1, <1>6, <1>7 DEF DemuxTypeOK, DemuxInv
<1>9. Calling'
  BY <1>1, <1>2, <1>3 DEF Calling, DemuxInv, inCall
<1>10. ASSUME strays' = {} PROVE OnTheWay(file', stack', script', At', MarkAt')
  <2> DEFINE n == frame.size_remaining - 1
             p == bytes_consumed - 1
  <2>1. /\ MarkAt = NoPointer /\ Stands(file, stack, p) /\ frame.size_remaining # 0
    BY <1>1, <1>10, LengthIs
  <2>2. n \in Nat /\ p \in Nat /\ bytes_consumed + n = p + frame.size_remaining
        /\ p + frame.size_remaining \in Nat
    BY <1>2, <1>4, <2>1 DEF Stands
  <2> HIDE DEF n, p
  <2>3. Leads(script', bytes_consumed, NoPointer, p + frame.size_remaining, NoPointer)
    <3>1. GoesOver(remainder(n), n)
      BY <2>2, RemainderGoes
    <3>2. script' = remainder(n)
      BY <1>1 DEF n
    <3> QED BY <1>2, <2>2, <3>1, <3>2, NoPointerInt DEF GoesOver
  <2>4. /\ p + frame.size_remaining = endIn(file, frame)
        /\ Expects(file, Front(stack), p + frame.size_remaining)
    BY <1>4, <1>5, <2>1, <2>2, LoopLeft DEF Stands
  <2>5. IsPlace(file, endIn(file, frame))
    BY <1>4, <1>5, StackTop, PlaceBehind DEF endIn
  <2>6. Stands(file, Front(stack), p + frame.size_remaining)
    BY <2>2, <2>4, <2>5 DEF Stands
  <2>7. MarkAt' = NoPointer
    BY <1>1, <1>3, <2>1, MarkKept
  <2> QED BY <1>1, <1>2, <1>3, <2>2, <2>3, <2>6, <2>7 DEF OnTheWay
<1> QED BY <1>1, <1>2, <1>3, <1>8, <1>9, <1>10, WalksOn

-----------------------------------------------------------------------------
(* An atom's size and kind are known                                       *)

LEMMA KindIs ==
  ASSUME DemuxInv, kindRead
  PROVE  /\ ready /\ phase = "kind" /\ here \in 1..Len(file)
         /\ startsAt[file][here] = bytes_consumed - 2
         /\ file[here] \in Atom /\ HoldsWhatItSays(file[here])
         /\ file[here].len \in Nat /\ file[here].len >= 2
         /\ file[here].len <= frame.size_remaining
         /\ frame.fresh => file[here].len = SmhdLen
         /\ bytes_consumed \in Nat /\ bytes_consumed - 2 \in Nat
         /\ strays = {} => MarkAt = NoPointer /\ Stands(file, stack, bytes_consumed - 2)
                           /\ script = <<>>
<1>1. /\ ready /\ phase = "kind"
  BY DEF kindRead
<1>2. /\ status = "reading" /\ ~GaveUp /\ At = bytes_consumed /\ bytes_consumed \in Nat
  BY <1>1, ReadyIs
<1>3. HeaderRead(file, stack, bytes_consumed - 2)
  BY <1>1, <1>2 DEF DemuxInv, HeaderIsRead
<1>4. here = CHOOSE i \in 1..Len(file) : startsAt[file][i] = bytes_consumed - 2
  BY DEF here, atomAt, HeaderLen
<1>5. here \in 1..Len(file) /\ startsAt[file][here] = bytes_consumed - 2
  BY <1>3, <1>4 DEF HeaderRead
<1>6. file[here].len <= stack[Len(stack)].size_remaining
      /\ (stack[Len(stack)].fresh => file[here].len = SmhdLen)
  BY <1>3, <1>4 DEF HeaderRead
<1>7. frame = stack[Len(stack)] /\ file \in Files
  BY LessIs DEF DemuxInv, DemuxTypeOK
<1>8. /\ file[here] \in Atom /\ HoldsWhatItSays(file[here])
      /\ file[here].len \in Nat /\ file[here].len >= 2
  BY <1>5, <1>7, FilesAre
<1>9. bytes_consumed - 2 \in Nat
  <2>1. Len(file) \in Nat
    BY <1>7, FilesAre
  <2>2. here \in 1..(Len(file) + 1)
    BY <1>5, <2>1
  <2>3. startsAt[file][here] \in Nat
    BY <1>7, <2>2, FilesAre
  <2> QED BY <1>5, <2>3
<1>10. strays = {} => MarkAt = NoPointer /\ Stands(file, stack, bytes_consumed - 2)
                      /\ script = <<>>
  BY <1>1, <1>2 DEF DemuxInv, Walking
<1> QED BY <1>1, <1>2, <1>5, <1>6, <1>7, <1>8, <1>9, <1>10

LEMMA KindStepKeeps ==
  ASSUME DemuxInv, kindRead, UNCHANGED <<bufferVars, file, status, j>>, phase' = "loop"
  PROVE  /\ BufferInv' /\ Calling' /\ status' = "reading" /\ file \in Files
         /\ At' = bytes_consumed /\ MarkAt' = MarkAt
<1>1. /\ BufferInv' /\ At' = At /\ pc' = pc /\ inCall' = inCall /\ want' = want
      /\ read_pos' = read_pos /\ bytes_consumed' = bytes_consumed
      /\ sent' = sent /\ fileLen' = fileLen
  BY BufferQuiet
<1>2. ready /\ status = "reading" /\ At = bytes_consumed /\ inCall = "client"
  BY KindIs, ReadyIs
<1>3. MarkAt' = MarkAt
  BY <1>1, MarkKept
<1> QED BY <1>1, <1>2, <1>3 DEF Calling, DemuxInv, DemuxTypeOK

LEMMA EnterContainerStep ==
  ASSUME DemuxInv, EnterContainer
  PROVE  DemuxInv'
<1> DEFINE a == file[here]
           new == [atom |-> here, size_remaining |-> a.len - HeaderLen, fresh |-> a.kind = "minf"]
<1>1. /\ kindRead /\ a.kind = inside(kindOf(frame)) /\ stack' = Append(less(a.len), new)
      /\ phase' = "loop" /\ UNCHANGED <<bufferVars, file, status, script, j, strays>>
  BY DEF EnterContainer
<1>2. /\ BufferInv' /\ Calling' /\ status' = "reading" /\ file \in Files
      /\ At' = bytes_consumed /\ MarkAt' = MarkAt
  BY <1>1, KindStepKeeps
<1>3. /\ here \in 1..Len(file) /\ startsAt[file][here] = bytes_consumed - 2 /\ a.len \in Nat
      /\ a.len <= frame.size_remaining /\ bytes_consumed \in Nat /\ a \in Atom
  BY <1>1, KindIs
<1>4. a.kind \in Containers
  <2>1. inside(kindOf(frame)) \in {"moov", "trak", "mdia", "minf", "stbl", "none"}
    BY Zenon DEF inside
  <2>2. a.kind # "none"
    BY <1>3 DEF Atom, Containers, Tables, Ignored
  <2> QED BY <1>1, <2>1, <2>2 DEF Containers
<1>5. /\ stack' = Append(takenOff(file, stack, file[here].len), new)
      /\ IsStack(file, stack) /\ frame = stack[Len(stack)] /\ (a.kind = "minf") \in BOOLEAN
  BY <1>1, LessIs DEF DemuxInv, DemuxTypeOK
<1>6. /\ IsStack(file, stack')
      /\ Expects(file, stack, startsAt[file][here])
           => Expects(file, stack', startsAt[file][here] + HeaderLen)
  BY <1>2, <1>3, <1>4, <1>5, LoopEntered
<1>7. DemuxTypeOK'
  BY <1>1, <1>6 DEF DemuxTypeOK, DemuxInv
<1>8. ASSUME strays' = {} PROVE OnTheWay(file', stack', script', At', MarkAt')
  <2>1. MarkAt = NoPointer /\ Stands(file, stack, bytes_consumed - 2) /\ script = <<>>
    BY <1>1, <1>8, KindIs
  <2>2. startsAt[file][here] + HeaderLen = bytes_consumed
    BY <1>3 DEF HeaderLen
  <2>3. IsPlace(file, bytes_consumed)
    BY <1>2, <1>3, <1>4, <2>2, PlaceBehind
  <2>4. Stands(file, stack', bytes_consumed)
    BY <1>3, <1>6, <2>1, <2>2, <2>3 DEF Stands
  <2>5. OnTheWay(file, stack', <<>>, bytes_consumed, NoPointer)
    BY <1>3, <2>4, StandsOnTheWay
  <2> QED BY <1>1, <1>2, <2>1, <2>5
<1> QED BY <1>1, <1>2, <1>7, <1>8, WalksOn

LEMMA SoundHeaderStep ==
  ASSUME DemuxInv, SoundHeader
  PROVE  DemuxInv'
<1>1. /\ kindRead /\ frame.fresh /\ phase' = "loop" /\ UNCHANGED <<bufferVars, file, j, strays>>
  BY DEF SoundHeader
<1>2. /\ here \in 1..Len(file) /\ startsAt[file][here] = bytes_consumed - 2
      /\ file[here].len = 4 /\ SmhdLen = 4 /\ HeaderLen = 2
      /\ 4 <= frame.size_remaining /\ bytes_consumed \in Nat /\ bytes_consumed - 2 \in Nat
  BY <1>1, KindIs DEF SmhdLen, HeaderLen
<1>3. CASE file[here].kind # "smhd"
  <2>1. status' = "failed" /\ UNCHANGED <<script, stack>>
    BY <1>3 DEF SoundHeader
  <2>2. /\ BufferInv' /\ inCall' = inCall /\ want' = want /\ sent' = sent /\ fileLen' = fileLen
    BY <1>1, BufferQuiet
  <2>3. DemuxTypeOK'
    BY <1>1, <2>1 DEF DemuxTypeOK, DemuxInv
  <2>4. inCall = "client"
    BY <1>1, KindIs, ReadyIs
  <2>5. Calling' /\ Lost'
    BY <2>1, <2>2, <2>4 DEF Calling, Lost, DemuxInv
  <2> QED BY <2>1, <2>2, <2>3, <2>5, NoLongerWalking
<1>4. CASE file[here].kind = "smhd"
  <2>1. /\ script' = skip(SmhdLen - HeaderLen) /\ status' = status
        /\ stack' = [less(SmhdLen) EXCEPT ![Len(stack)].fresh = FALSE]
    BY <1>4 DEF SoundHeader
  <2>2. /\ BufferInv' /\ Calling' /\ status' = "reading" /\ file \in Files
        /\ At' = bytes_consumed /\ MarkAt' = MarkAt
    BY <1>1, <2>1, KindStepKeeps
  <2> DEFINE t == takenOff(file, stack, 4)
  <2>3. /\ less(SmhdLen) = t /\ IsStack(file, stack) /\ frame = stack[Len(stack)]
    BY <1>2, LessIs DEF DemuxInv, DemuxTypeOK
  <2>4. /\ IsStack(file, t) /\ Len(t) = Len(stack)
        /\ \A p \in Nat : Expects(file, stack, p) => Expects(file, t, p + 4)
    BY <1>2, <2>2, <2>3, LengthTaken
  <2> HIDE DEF t
  <2>5. stack' = [t EXCEPT ![Len(t)].fresh = FALSE]
    BY <2>1, <2>3, <2>4
  <2>6. IsStack(file, stack') /\ \A p \in Nat : Expects(file, t, p) => Expects(file, stack', p)
    BY <2>2, <2>4, <2>5, FreshCleared
  <2>7. GoesOver(script', 2)
    BY <1>2, <2>1, SkipGoes
  <2>8. DemuxTypeOK'
    BY <1>1, <2>1, <2>6, <2>7 DEF DemuxTypeOK, DemuxInv, GoesOver
  <2>9. ASSUME strays' = {} PROVE OnTheWay(file', stack', script', At', MarkAt')
    <3>1. MarkAt = NoPointer /\ Stands(file, stack, bytes_consumed - 2)
      BY <1>1, <2>9, KindIs
    <3>2. (bytes_consumed - 2) + 4 = bytes_consumed + 2 /\ bytes_consumed + 2 \in Nat
      BY <1>2
    <3>3. Expects(file, stack', bytes_consumed + 2)
      BY <1>2, <2>4, <2>6, <3>1, <3>2 DEF Stands
    <3>4. IsPlace(file, bytes_consumed + 2)
      BY <1>2, <2>2, <3>2, PlaceBehind
    <3>5. Stands(file, stack', bytes_consumed + 2)
      BY <3>2, <3>3, <3>4 DEF Stands
    <3>6. Leads(script', bytes_consumed, NoPointer, bytes_consumed + 2, NoPointer)
      BY <1>2, <2>7, NoPointerInt DEF GoesOver
    <3> QED BY <1>1, <2>2, <3>1, <3>2, <3>5, <3>6 DEF OnTheWay
  <2> QED BY <1>1, <2>2, <2>8, <2>9, WalksOn
<1> QED BY <1>3, <1>4

LEMMA LeafStep ==
  ASSUME DemuxInv, Leaf
  PROVE  DemuxInv'
<1> DEFINE a == file[here]
           parent == kindOf(frame)
<1>1. /\ kindRead /\ script' = handler(a, parent) /\ stack' = less(a.len)
      /\ strays' = strays \cup {m \in {"brand", "empty stco"} :
                      IF m = "brand" THEN parent = "file" /\ a.kind = "ftyp" /\ a.n # 1
                                     ELSE parent = "stbl" /\ a.kind = "stco" /\ a.n = 0}
      /\ phase' = "loop" /\ UNCHANGED <<bufferVars, file, status, j>>
  BY DEF Leaf
<1>2. /\ BufferInv' /\ Calling' /\ status' = "reading" /\ file \in Files
      /\ At' = bytes_consumed /\ MarkAt' = MarkAt
  BY <1>1, KindStepKeeps
<1>3. /\ here \in 1..Len(file) /\ startsAt[file][here] = bytes_consumed - 2 /\ a.len \in Nat
      /\ a.len <= frame.size_remaining /\ bytes_consumed \in Nat /\ bytes_consumed - 2 \in Nat
      /\ a \in Atom /\ HoldsWhatItSays(a)
  BY <1>1, KindIs
<1>4. /\ stack' = takenOff(file, stack, a.len)
      /\ IsStack(file, stack) /\ frame = stack[Len(stack)]
  BY <1>1, LessIs DEF DemuxInv, DemuxTypeOK
<1>5. /\ IsStack(file, stack')
      /\ \A p \in Nat : Expects(file, stack, p) => Expects(file, stack', p + a.len)
  BY <1>2, <1>3, <1>4, LengthTaken
<1>6. script' \in Seq(Op)
  BY <1>1, <1>3, HandlerIsScript
<1>7. DemuxTypeOK'
  BY <1>1, <1>5, <1>6 DEF DemuxTypeOK, DemuxInv
<1>8. ASSUME strays' = {} PROVE OnTheWay(file', stack', script', At', MarkAt')
  <2>1. /\ strays = {} /\ (parent = "file" /\ a.kind = "ftyp" => a.n = 1)
        /\ (parent = "stbl" /\ a.kind = "stco" => a.n # 0)
    <3> DEFINE P(m) == IF m = "brand" THEN parent = "file" /\ a.kind = "ftyp" /\ a.n # 1
                                      ELSE parent = "stbl" /\ a.kind = "stco" /\ a.n = 0
    <3>1. strays' = strays \cup {m \in {"brand", "empty stco"} : P(m)}
      BY <1>1
    <3> HIDE DEF P
    <3>2. strays = {} /\ ~P("brand") /\ ~P("empty stco")
      BY <1>8, <3>1
    <3> QED BY <3>2 DEF P
  <2>2. MarkAt = NoPointer /\ Stands(file, stack, bytes_consumed - 2)
    BY <1>1, <2>1, KindIs
  <2> DEFINE q == (bytes_consumed - 2) + a.len
             n == a.len - HeaderLen
  <2>3. q \in Nat /\ bytes_consumed + n = q
    BY <1>3 DEF HeaderLen
  <2>4. LeadsOver(script', n)
    BY <1>1, <1>3, <2>1, HandlerLeads
  <2>5. Stands(file, stack', q)
    <3>1. IsPlace(file, q)
      BY <1>2, <1>3, PlaceBehind
    <3>2. Expects(file, stack', q)
      BY <1>3, <1>5, <2>2 DEF Stands
    <3> QED BY <2>3, <3>1, <3>2 DEF Stands
  <2> HIDE DEF q, n
  <2>6. Leads(script', bytes_consumed, NoPointer, q, NoPointer)
    BY <1>3, <2>3, <2>4 DEF LeadsOver
  <2> QED BY <1>1, <1>2, <2>2, <2>3, <2>5, <2>6 DEF OnTheWay
<1> QED BY <1>1, <1>2, <1>7, <1>8, WalksOn

-----------------------------------------------------------------------------
(* Working off a script                                                    *)

LEMMA ScriptIs ==
  ASSUME DemuxInv, NEW op, scripted(op)
  PROVE  /\ ready /\ phase \in {"loop", "field"} /\ script # <<>> /\ script \in Seq(Op)
         /\ Head(script) \in Op /\ Head(script)[1] = op /\ amount \in Nat
         /\ op = "read" => amount - 1 \in Nat
         /\ Tail(script) \in Seq(Op)
         /\ strays = {} =>
              \E q \in Nat, u, v \in Int :
                /\ Moves(Head(script), bytes_consumed, MarkAt, u, v)
                /\ Leads(Tail(script), u, v, q, NoPointer) /\ Stands(file, stack, q)
                /\ MarkAt \in Int
<1>1. /\ ready /\ phase \in {"loop", "field"} /\ script # <<>> /\ Head(script)[1] = op
      /\ script \in Seq(Op)
  BY DEF scripted, DemuxInv, DemuxTypeOK
<1>2. Head(script) \in Op /\ Tail(script) \in Seq(Op)
  BY <1>1, HeadTailProperties
<1>3. amount \in Nat /\ (op = "read" => amount - 1 \in Nat)
  BY <1>1, <1>2 DEF amount, Op
<1>4. ASSUME strays = {}
      PROVE  \E q \in Nat, u, v \in Int :
                /\ Moves(Head(script), bytes_consumed, MarkAt, u, v)
                /\ Leads(Tail(script), u, v, q, NoPointer) /\ Stands(file, stack, q)
                /\ MarkAt \in Int
  <2>1. PICK q \in Nat :
          Leads(script, bytes_consumed, MarkAt, q, NoPointer) /\ Stands(file, stack, q)
    BY <1>1, <1>4, WayFrom DEF OnTheWay
  <2>2. /\ MarkAt \in Int
        /\ \E u, v \in Int : Moves(Head(script), bytes_consumed, MarkAt, u, v)
                             /\ Leads(Tail(script), u, v, q, NoPointer)
    BY <1>1, <2>1, LeadsFirst
  <2> QED BY <2>1, <2>2
<1> QED BY <1>1, <1>2, <1>3, <1>4

(* An operation that calls the buffer for n bytes.                         *)
LEMMA ScriptCalls ==
  ASSUME DemuxInv, NEW op, scripted(op), NEW n \in Nat, Read(n) \/ Seek(n),
         Read(n) => phase' = "field", phase' \in {"loop", "field"},
         UNCHANGED <<file, status, stack>>
  PROVE  /\ BufferInv' /\ Calling' /\ status' = "reading" /\ At' = bytes_consumed + n
         /\ read_pos' = read_pos /\ bytes_consumed' = bytes_consumed
<1>1. /\ BufferInv' /\ At = bytes_consumed /\ At' = At + n
      /\ read_pos' = read_pos /\ bytes_consumed' = bytes_consumed
      /\ sent' = sent /\ fileLen' = fileLen
      /\ (inCall' = "client" => want' = 0) /\ (inCall' = "read" => Read(n))
  BY BufferAsked
<1>2. status = "reading"
  BY ScriptIs, ReadyIs
<1> QED BY <1>1, <1>2 DEF Calling, DemuxInv

LEMMA ReadFieldStep ==
  ASSUME DemuxInv, ReadField
  PROVE  DemuxInv'
<1>1. /\ scripted("read") /\ Read(1) /\ script' = read(amount - 1) \o Tail(script)
      /\ phase' = "field" /\ UNCHANGED <<file, status, stack, j, strays>>
  BY DEF ReadField
<1>2. /\ BufferInv' /\ Calling' /\ status' = "reading" /\ At' = bytes_consumed + 1
      /\ read_pos' = read_pos /\ bytes_consumed' = bytes_consumed
  BY <1>1, ScriptCalls
<1>3. /\ amount - 1 \in Nat /\ amount \in Nat /\ Tail(script) \in Seq(Op)
      /\ Head(script)[1] = "read" /\ Head(script) \in Op /\ ready
  BY <1>1, ScriptIs
<1>4. GoesOver(read(amount - 1), amount - 1) /\ read(amount - 1) \in Seq(Op)
  BY <1>3, ReadGoes DEF GoesOver
<1>5. DemuxTypeOK'
  BY <1>1, <1>3, <1>4 DEF DemuxTypeOK, DemuxInv
<1>6. ASSUME strays' = {} PROVE OnTheWay(file', stack', script', At', MarkAt')
  <2>1. PICK q \in Nat, u \in Int, v \in Int :
          /\ Moves(Head(script), bytes_consumed, MarkAt, u, v)
          /\ Leads(Tail(script), u, v, q, NoPointer) /\ Stands(file, stack, q)
          /\ MarkAt \in Int
    BY <1>1, <1>6, ScriptIs
  <2>2. u = bytes_consumed + amount /\ v = MarkAt
    BY <1>3, <2>1 DEF Moves, amount
  <2>3. /\ bytes_consumed \in Nat /\ bytes_consumed + 1 \in Int
        /\ (bytes_consumed + 1) + (amount - 1) = u
    BY <1>3, <2>2, ReadyIs
  <2>4. Leads(read(amount - 1), bytes_consumed + 1, MarkAt, u, MarkAt)
    BY <1>4, <2>1, <2>3 DEF GoesOver
  <2>5. Leads(script', bytes_consumed + 1, MarkAt, q, NoPointer)
    BY <1>1, <1>3, <1>4, <2>1, <2>2, <2>4, LeadsOn
  <2>6. MarkAt' = MarkAt
    BY <1>1, <1>2, MarkKept
  <2> QED BY <1>1, <1>2, <2>1, <2>5, <2>6 DEF OnTheWay
<1> QED BY <1>1, <1>2, <1>5, <1>6, WalksOn

LEMMA SkipFieldStep ==
  ASSUME DemuxInv, SkipField
  PROVE  DemuxInv'
<1>1. /\ scripted("skip") /\ Seek(amount) /\ script' = Tail(script)
      /\ phase' = "loop" /\ UNCHANGED <<file, status, stack, j, strays>>
  BY DEF SkipField
<1>2. /\ amount \in Nat /\ Tail(script) \in Seq(Op) /\ Head(script)[1] = "skip" /\ ready
  BY <1>1, ScriptIs
<1>3. ~Read(amount)
  BY <1>1 DEF Read, Seek
<1>4. /\ BufferInv' /\ Calling' /\ status' = "reading" /\ At' = bytes_consumed + amount
      /\ read_pos' = read_pos /\ bytes_consumed' = bytes_consumed
  BY <1>1, <1>2, <1>3, ScriptCalls
<1>5. DemuxTypeOK'
  BY <1>1, <1>2 DEF DemuxTypeOK, DemuxInv
<1>6. ASSUME strays' = {} PROVE OnTheWay(file', stack', script', At', MarkAt')
  <2>1. PICK q \in Nat, u \in Int, v \in Int :
          /\ Moves(Head(script), bytes_consumed, MarkAt, u, v)
          /\ Leads(Tail(script), u, v, q, NoPointer) /\ Stands(file, stack, q)
    BY <1>1, <1>6, ScriptIs
  <2>2. u = bytes_consumed + amount /\ v = MarkAt
    BY <1>2, <2>1 DEF Moves, amount
  <2>3. MarkAt' = MarkAt
    BY <1>1, <1>4, MarkKept
  <2> QED BY <1>1, <1>4, <2>1, <2>2, <2>3 DEF OnTheWay
<1> QED BY <1>1, <1>4, <1>5, <1>6, WalksOn

(* An operation that leaves the buffer alone.                              *)
LEMMA ScriptKeeps ==
  ASSUME DemuxInv, NEW op, scripted(op), phase' = "loop",
         UNCHANGED <<bufferVars, file, status, stack>>
  PROVE  /\ BufferInv' /\ Calling' /\ status' = "reading" /\ At' = bytes_consumed
         /\ read_pos' = read_pos /\ bytes_consumed' = bytes_consumed
<1>1. /\ BufferInv' /\ At' = At /\ inCall' = inCall /\ want' = want
      /\ read_pos' = read_pos /\ bytes_consumed' = bytes_consumed
      /\ sent' = sent /\ fileLen' = fileLen
  BY BufferQuiet
<1>2. status = "reading" /\ inCall = "client" /\ At = bytes_consumed
  BY ScriptIs, ReadyIs
<1> QED BY <1>1, <1>2 DEF Calling, DemuxInv

LEMMA FormatSeenStep ==
  ASSUME DemuxInv, FormatSeen
  PROVE  DemuxInv'
<1>1. /\ scripted("format") /\ script' = Tail(script) /\ phase' = "loop"
      /\ UNCHANGED <<bufferVars, file, status, stack, j, strays>>
  BY DEF FormatSeen
<1>2. Tail(script) \in Seq(Op) /\ Head(script)[1] = "format"
  BY <1>1, ScriptIs
<1>3. /\ BufferInv' /\ Calling' /\ status' = "reading" /\ At' = bytes_consumed
      /\ read_pos' = read_pos /\ bytes_consumed' = bytes_consumed
  BY <1>1, ScriptKeeps
<1>4. DemuxTypeOK'
  BY <1>1, <1>2 DEF DemuxTypeOK, DemuxInv
<1>5. ASSUME strays' = {} PROVE OnTheWay(file', stack', script', At', MarkAt')
  <2>1. PICK q \in Nat, u \in Int, v \in Int :
          /\ Moves(Head(script), bytes_consumed, MarkAt, u, v)
          /\ Leads(Tail(script), u, v, q, NoPointer) /\ Stands(file, stack, q)
    BY <1>1, <1>5, ScriptIs
  <2>2. u = bytes_consumed /\ v = MarkAt
    BY <1>2, <2>1 DEF Moves
  <2>3. MarkAt' = MarkAt
    BY <1>1, <1>3, MarkKept
  <2> QED BY <1>1, <1>3, <2>1, <2>2, <2>3 DEF OnTheWay
<1> QED BY <1>1, <1>3, <1>4, <1>5, WalksOn

LEMMA EsdsBeginsStep ==
  ASSUME DemuxInv, EsdsBegins
  PROVE  DemuxInv'
<1>1. /\ scripted("mark") /\ j' = read_pos + amount /\ script' = Tail(script) /\ phase' = "loop"
      /\ UNCHANGED <<bufferVars, file, status, stack, strays>>
  BY DEF EsdsBegins
<1>2. /\ Tail(script) \in Seq(Op) /\ Head(script)[1] = "mark" /\ amount \in Nat
      /\ read_pos \in Nat /\ bytes_consumed \in Nat
  BY <1>1, ScriptIs, ReadyIs
<1>3. /\ BufferInv' /\ Calling' /\ status' = "reading" /\ At' = bytes_consumed
      /\ read_pos' = read_pos /\ bytes_consumed' = bytes_consumed
  BY <1>1, ScriptKeeps
<1>4. DemuxTypeOK'
  BY <1>1, <1>2 DEF DemuxTypeOK, DemuxInv
<1>5. ASSUME strays' = {} PROVE OnTheWay(file', stack', script', At', MarkAt')
  <2>1. PICK q \in Nat, u \in Int, v \in Int :
          /\ Moves(Head(script), bytes_consumed, MarkAt, u, v)
          /\ Leads(Tail(script), u, v, q, NoPointer) /\ Stands(file, stack, q)
    BY <1>1, <1>5, ScriptIs
  <2>2. u = bytes_consumed /\ v = bytes_consumed + amount
    BY <1>2, <2>1 DEF Moves, amount
  <2>3. MarkAt' = v
    BY <1>1, <1>2, <1>3, <2>2 DEF MarkAt, NoPointer
  <2> QED BY <1>1, <1>3, <2>1, <2>2, <2>3 DEF OnTheWay
<1> QED BY <1>1, <1>3, <1>4, <1>5, WalksOn

LEMMA EsdsEndsStep ==
  ASSUME DemuxInv, EsdsEnds
  PROVE  DemuxInv'
<1> DEFINE n == IF j > read_pos THEN j - read_pos ELSE Huge
<1>1. /\ scripted("jump") /\ j' = NoPointer /\ script' = Tail(script) /\ phase' = "loop"
      /\ UNCHANGED <<file, status, stack, strays>>
      /\ IF j = read_pos THEN UNCHANGED bufferVars ELSE Seek(n)
  BY DEF EsdsEnds
<1>2. /\ Tail(script) \in Seq(Op) /\ Head(script)[1] = "jump" /\ ready
      /\ read_pos \in Nat /\ bytes_consumed \in Nat /\ j \in Int
  BY <1>1, ScriptIs, ReadyIs
<1>3. n \in Nat
  BY <1>2, FilesAssumption
<1>4. /\ BufferInv' /\ Calling' /\ status' = "reading"
      /\ At' = bytes_consumed + IF j = read_pos THEN 0 ELSE n
  <2>1. CASE j = read_pos
    <3>1. UNCHANGED bufferVars
      BY <1>1, <2>1
    <3>2. BufferInv' /\ Calling' /\ status' = "reading" /\ At' = bytes_consumed
      BY <1>1, <3>1, ScriptKeeps
    <3> QED BY <1>2, <2>1, <3>2
  <2>2. CASE j # read_pos
    <3>1. Seek(n)
      BY <1>1, <2>2
    <3>2. ~Read(n)
      BY <3>1 DEF Seek, Read
    <3> HIDE DEF n
    <3>3. BufferInv' /\ Calling' /\ status' = "reading" /\ At' = bytes_consumed + n
      BY <1>1, <1>3, <3>1, <3>2, ScriptCalls
    <3> QED BY <2>2, <3>3
  <2> QED BY <2>1, <2>2
<1>5. DemuxTypeOK'
  BY <1>1, <1>2, NoPointerInt DEF DemuxTypeOK, DemuxInv
<1>6. ASSUME strays' = {} PROVE OnTheWay(file', stack', script', At', MarkAt')
  <2>1. PICK q \in Nat, u \in Int, v \in Int :
          /\ Moves(Head(script), bytes_consumed, MarkAt, u, v)
          /\ Leads(Tail(script), u, v, q, NoPointer) /\ Stands(file, stack, q)
          /\ MarkAt \in Int
    BY <1>1, <1>6, ScriptIs
  <2>2. MarkAt >= bytes_consumed /\ u = MarkAt /\ v = NoPointer
    BY <1>2, <2>1 DEF Moves
  <2>3. MarkAt = j + (bytes_consumed - read_pos)
    BY <1>2, <2>2 DEF MarkAt, NoPointer
  <2>4. At' = u
    BY <1>2, <1>4, <2>2, <2>3
  <2>5. MarkAt' = v
    BY <1>1, <2>2 DEF MarkAt, NoPointer
  <2> QED BY <1>1, <2>1, <2>4, <2>5 DEF OnTheWay
<1> QED BY <1>1, <1>4, <1>5, <1>6, WalksOn

-----------------------------------------------------------------------------
(* The buffer and the server                                               *)

LEMMA OpenStep ==
  ASSUME DemuxInv, Open
  PROVE  DemuxInv'
<1>1. /\ status = "opening" /\ Fill /\ status' = "reading"
      /\ UNCHANGED <<file, phase, stack, script, j, strays>>
  BY DEF Open
<1>2. phase = "loop"
  BY <1>1 DEF DemuxInv, Calling
<1>3. /\ BufferInv' /\ At' = At + 0 /\ At \in Nat
      /\ read_pos' = read_pos /\ bytes_consumed' = bytes_consumed
      /\ sent' = sent /\ fileLen' = fileLen
      /\ (inCall' = "client" => want' = 0) /\ (inCall' = "read" => Read(0))
  BY <1>1, BufferAsked
<1>4. ~Read(0)
  BY <1>1 DEF Read, Fill
<1>5. Calling'
  BY <1>1, <1>3, <1>4 DEF Calling, DemuxInv
<1>6. DemuxTypeOK'
  BY <1>1 DEF DemuxTypeOK, DemuxInv
<1>7. MarkAt' = MarkAt
  BY <1>1, <1>3, MarkKept
<1>8. strays = {} => OnTheWay(file, stack, script, At, MarkAt)
  BY <1>1, <1>2 DEF DemuxInv, Walking, GaveUp
<1>9. At' = At
  BY <1>3
<1> QED BY <1>1, <1>2, <1>3, <1>5, <1>6, <1>7, <1>8, <1>9, WalksOn

(* Nothing changes but what the FIFO has been given.                       *)
LEMMA ServerStep ==
  ASSUME DemuxInv, ServerSends \/ ServerEnds \/ UNCHANGED mp4Vars
  PROVE  DemuxInv'
<1>1. /\ BufferInv' /\ sent' <= fileLen
      /\ UNCHANGED <<file, status, phase, stack, script, j, strays, pc, caller, want, out,
                     bytes_consumed, read_pos>>
  <2>1. sent <= fileLen /\ BufferInv
    BY DEF DemuxInv, Calling
  <2>2. CASE ServerSends
    <3>1. Store /\ sent < fileLen /\ UNCHANGED demuxVars
      BY <2>2 DEF ServerSends
    <3>2. BufferInv'
      BY <2>1, <3>1, BufferStepInv DEF BufferStep
    <3>3. sent' = sent + 1 /\ sent \in Nat /\ fileLen \in Nat
      <4>1. sent \in Nat
        BY BufferAssumption DEF DemuxInv, BufferInv, BufferTypeOK
      <4>2. file \in Files /\ Len(file) \in Nat
        BY FilesAre DEF DemuxInv, DemuxTypeOK
      <4>3. fileLen \in Nat
        BY <4>2, FilesAre DEF fileLen
      <4> QED BY <3>1, <4>1, <4>3 DEF Store
    <3>4. sent' <= fileLen
      BY <3>1, <3>3
    <3> QED BY <3>1, <3>2, <3>4 DEF Store, demuxVars, posVars, fillVars, callVars
  <2>3. CASE ServerEnds \/ UNCHANGED mp4Vars
    <3>1. UNCHANGED bufferVars /\ UNCHANGED <<file, status, phase, stack, script, j, strays>>
      BY <2>3 DEF ServerEnds, mp4Vars, demuxVars
    <3>2. BufferInv'
      BY <2>1, <3>1, BufferStepInv
    <3> QED BY <2>1, <3>1, <3>2 DEF bufferVars, fifoVars, posVars, fillVars, callVars
  <2> QED BY <2>2, <2>3
<1>2. /\ At' = At /\ MarkAt' = MarkAt /\ GaveUp' = GaveUp /\ inCall' = inCall /\ fileLen' = fileLen
  BY <1>1 DEF At, MarkAt, GaveUp, inCall, fileLen
<1>3. DemuxTypeOK'
  BY <1>1 DEF DemuxTypeOK, DemuxInv
<1>4. Calling'
  BY <1>1, <1>2 DEF Calling, DemuxInv
<1>5. HeaderIsRead' /\ Lost'
  BY <1>1, <1>2 DEF HeaderIsRead, Lost, DemuxInv
<1>6. Walking'
  BY <1>1, <1>2 DEF Walking, DemuxInv
<1> QED BY <1>1, <1>3, <1>4, <1>5, <1>6 DEF DemuxInv

(* A step of a call does not change where it will end, unless it gives up, *)
(* and the end of the esds stays where it is unless the bytes are moved.   *)
LEMMA CallStepDoes ==
  ASSUME DemuxInv, CallStep, UNCHANGED <<file, j>>
  PROVE  /\ BufferInv' /\ sent' = sent /\ pc # "client"
         /\ At' = At \/ (pc' = "client" /\ out' = <<>> /\ inCall = "read")
         /\ MarkAt' = MarkAt \/ (pc = "purge" /\ read_pos # 0 /\ j # NoPointer)
         /\ inCall' = "client" => want' = 0
         /\ inCall' = "read" => inCall = "read"
<1>1. BufferInv'
  BY BufferStepInv DEF DemuxInv, BufferStep
<1>2. /\ want \in Nat /\ bytes_consumed \in Nat /\ read_pos \in Nat /\ write_pos \in Nat
      /\ caller \in {"client", "seek", "read"} /\ j \in Int
      /\ (inCall = "client" => want = 0)
  BY BufferAssumption DEF DemuxInv, BufferInv, BufferTypeOK, Calling, DemuxTypeOK
<1> USE DEF At, MarkAt, inCall, buf_data_unread
<1>3. CASE FillPurges
  BY <1>1, <1>2, <1>3 DEF FillPurges, fifoVars, callVars
<1>4. CASE FillLooksAgain
  BY <1>1, <1>2, <1>4 DEF FillLooksAgain, fifoVars, posVars, callVars
<1>5. CASE FillCopies
  BY <1>1, <1>2, <1>5 DEF FillCopies, fillVars, callVars
<1>6. CASE FillOverruns
  BY <1>1, <1>2, <1>6 DEF FillOverruns, fifoVars, posVars, fillVars, callVars
<1>7. CASE SeekLoads
  BY <1>1, <1>2, <1>7 DEF SeekLoads, fifoVars
<1>8. CASE SeekEnds
  BY <1>1, <1>2, <1>8 DEF SeekEnds, fifoVars, fillVars
<1>9. CASE ReadLoads
  BY <1>1, <1>2, <1>9 DEF ReadLoads, fifoVars, posVars
<1>10. CASE ReadFails
  BY <1>1, <1>2, <1>10 DEF ReadFails, fifoVars, posVars, fillVars
<1>11. CASE ReadCopies
  BY <1>1, <1>2, <1>11 DEF ReadCopies, fifoVars, fillVars
<1> QED BY <1>3, <1>4, <1>5, <1>6, <1>7, <1>8, <1>9, <1>10, <1>11 DEF CallStep

LEMMA BufferWorksStep ==
  ASSUME DemuxInv, BufferWorks
  PROVE  DemuxInv'
<1>1. /\ CallStep /\ UNCHANGED <<file, status, phase, stack, script, j>>
      /\ strays' = IF pc = "purge" /\ read_pos # 0 /\ j # NoPointer
                   THEN strays \cup {"moved"} ELSE strays
  BY DEF BufferWorks
<1>2. /\ BufferInv' /\ sent' = sent /\ pc # "client"
      /\ At' = At \/ (pc' = "client" /\ out' = <<>> /\ inCall = "read")
      /\ MarkAt' = MarkAt \/ (pc = "purge" /\ read_pos # 0 /\ j # NoPointer)
      /\ inCall' = "client" => want' = 0
      /\ inCall' = "read" => inCall = "read"
  BY <1>1, CallStepDoes
<1>3. fileLen' = fileLen
  BY <1>1 DEF fileLen
<1>4. DemuxTypeOK'
  BY <1>1 DEF DemuxTypeOK, DemuxInv
<1>5. Calling'
  BY <1>1, <1>2, <1>3 DEF Calling, DemuxInv
<1>6. ~GaveUp /\ (At' = At \/ GaveUp')
  BY <1>1, <1>2 DEF GaveUp, DemuxInv, Calling
<1>7. HeaderIsRead' /\ Lost'
  BY <1>1, <1>6 DEF HeaderIsRead, Lost, DemuxInv
<1>8. strays' = {} => strays = {} /\ MarkAt' = MarkAt
  BY <1>1, <1>2
<1>9. Walking'
  BY <1>1, <1>6, <1>8 DEF Walking, DemuxInv
<1> QED BY <1>2, <1>4, <1>5, <1>7, <1>9 DEF DemuxInv

-----------------------------------------------------------------------------
LEMMA DemuxInitInv == Mp4Init => DemuxInv
<1> SUFFICES ASSUME Mp4Init PROVE DemuxInv
  OBVIOUS
<1>1. /\ BufferInit /\ file \in Files /\ status = "opening" /\ phase = "loop"
      /\ stack = <<[atom |-> 0, size_remaining |-> Huge, fresh |-> FALSE]>>
      /\ script = <<>> /\ j = NoPointer /\ strays = {}
  BY DEF Mp4Init
<1>2. /\ BufferInv /\ bytes_consumed = 0 /\ want = 0 /\ sent = 0 /\ inCall = "client"
  BY <1>1, BufferInitInv DEF BufferInit, inCall
<1>3. /\ Len(file) \in Nat /\ startsAt[file][1] = 0 /\ fileLen \in Nat
  BY <1>1, FilesAre, StartsAssumption DEF fileLen
<1>4. IsStack(file, stack)
  <2>1. [atom |-> 0, size_remaining |-> Huge, fresh |-> FALSE] \in Frame(file)
    BY <1>3, FilesAssumption DEF Frame
  <2>2. Len(stack) = 1 /\ stack \in Seq(Frame(file))
    BY <1>1, <2>1
  <2> QED BY <1>1, <2>2 DEF IsStack
<1>5. DemuxTypeOK
  BY <1>1, <1>4, NoPointerInt DEF DemuxTypeOK
<1>6. Calling
  BY <1>1, <1>2, <1>3 DEF Calling
<1>7. At = 0 /\ MarkAt = NoPointer
  BY <1>1, <1>2 DEF At, MarkAt
<1>8. Stands(file, stack, 0)
  <2>1. Len(stack) = 1
    BY <1>1
  <2>2. Expects(file, stack, 0)
    BY <2>1 DEF Expects
  <2>3. 1 \in 1..(Len(file) + 1)
    BY <1>3
  <2>4. IsPlace(file, 0)
    BY <1>3, <2>3 DEF IsPlace
  <2> QED BY <2>2, <2>4 DEF Stands
<1>9. Walking
  BY <1>1, <1>7, <1>8, StandsOnTheWay DEF Walking
<1> QED BY <1>1, <1>2, <1>5, <1>6, <1>9 DEF DemuxInv, HeaderIsRead, Lost

LEMMA DemuxNextInv == DemuxInv /\ [Mp4Next]_mp4Vars => DemuxInv'
<1> SUFFICES ASSUME DemuxInv, [Mp4Next]_mp4Vars PROVE DemuxInv'
  OBVIOUS
<1>1. CASE ServerSends \/ ServerEnds \/ UNCHANGED mp4Vars
  BY <1>1, ServerStep
<1>2. CASE BufferWorks
  BY <1>2, BufferWorksStep
<1>3. CASE Open
  BY <1>3, OpenStep
<1>4. CASE NextAtom
  BY <1>4, NextAtomStep
<1>5. CASE ContainerEnds
  BY <1>5, ContainerEndsStep
<1>6. CASE LengthRead
  BY <1>6, LengthReadStep
<1>7. CASE NotSound
  BY <1>7, NotSoundStep
<1>8. CASE EnterContainer
  BY <1>8, EnterContainerStep
<1>9. CASE SoundHeader
  BY <1>9, SoundHeaderStep
<1>10. CASE Leaf
  BY <1>10, LeafStep
<1>11. CASE ReadField
  BY <1>11, ReadFieldStep
<1>12. CASE SkipField
  BY <1>12, SkipFieldStep
<1>13. CASE FormatSeen
  BY <1>13, FormatSeenStep
<1>14. CASE EsdsBegins
  BY <1>14, EsdsBeginsStep
<1>15. CASE EsdsEnds
  BY <1>15, EsdsEndsStep
<1>16. CASE NotAnAtom \/ ReadGaveUp \/ UnknownAtom \/ AudioFound \/ HandlerFails
            \/ FrameError \/ EofSeen
  BY <1>16, StopSteps
<1>17. CASE FrameFill \/ \E n \in 1..Size : FrameDecoded(n)
  BY <1>17, DecodeSteps
<1> QED
  BY <1>1, <1>2, <1>3, <1>4, <1>5, <1>6, <1>7, <1>8, <1>9, <1>10, <1>11, <1>12, <1>13, <1>14,
     <1>15, <1>16, <1>17
  DEF Mp4Next, DemuxStep

LEMMA DemuxInvariant == Mp4Spec => []DemuxInv
  BY DemuxInitInv, DemuxNextInv, PTL DEF Mp4Spec

(* Wherever refills fall, between two atoms the demuxer stands at an atom  *)
(* or at the end of the file, and the loops expect what is left of theirs  *)
(* (demux.c, size_remaining): every handler of every file whose lengths    *)
(* are true has gone exactly to the end of its atom.                       *)
THEOREM StaysInPlace == Mp4Spec => []InPlace
<1>1. DemuxInv => InPlace
  <2> SUFFICES ASSUME DemuxInv, status = "reading", strays = {}, betweenAtoms
               PROVE  /\ bytes_consumed = fileLen \/ isAtomAt(bytes_consumed)
                      /\ \A k \in 2..Len(stack) :
                           endOf(stack[k]) = stack[k].size_remaining
                             + IF k = Len(stack) THEN bytes_consumed ELSE endOf(stack[k + 1])
    BY DEF InPlace
  <2>1. Stands(file, stack, bytes_consumed)
    BY BetweenAtoms
  <2>2. bytes_consumed = fileLen \/ isAtomAt(bytes_consumed)
    BY <2>1, AtomThere DEF Stands, DemuxInv, DemuxTypeOK
  <2> QED BY <2>1, <2>2 DEF Stands, Expects, endIn, endOf
<1> QED BY <1>1, DemuxInvariant, PTL

(* The demuxer takes something for an atom that is none only after one of  *)
(* the four events of strays.                                              *)
THEOREM PlaceLostOnlyBy == Mp4Spec => []LosesPlaceOnlyBy
<1>1. DemuxInv => LosesPlaceOnlyBy
  BY DEF DemuxInv, Lost, LosesPlaceOnlyBy
<1> QED BY <1>1, DemuxInvariant, PTL

(* What the demuxer and the decoder take from the buffer are the bytes of  *)
(* the stream, in order and without a gap: lengths of any size that are    *)
(* skipped, and reads that give up, change nothing about that.             *)
THEOREM DemuxerLosesNoByte == Mp4Spec => []UnreadIsNext
<1>1. DemuxInv => UnreadIsNext
  BY DEF DemuxInv, BufferInv
<1> QED BY <1>1, DemuxInvariant, PTL

=============================================================================
