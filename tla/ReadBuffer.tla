------------------------------- MODULE ReadBuffer -------------------------------
(***************************************************************************)
(* common_buffer.c: the buffer between the FIFO and a decoder.  Unread     *)
(* bytes lie between read_pos and write_pos; a refill first moves them to  *)
(* the front.  buf_seek_rel and buf_read refill as often as they need to.  *)
(*                                                                         *)
(* The stream is 1, 2, 3, ...: byte i is the number i, so a byte that is   *)
(* lost, repeated or out of place shows.  The client is any decoder: it    *)
(* calls fill_read_buffer, buf_seek_rel and buf_read in any order.  The    *)
(* HTTP task stores into the FIFO at any moment, also between the two      *)
(* places where the macro min of common_buffer.h looks at the fill.        *)
(***************************************************************************)
EXTENDS Integers, Sequences

CONSTANTS
  Size,        \* len: 2889 (MP3), 1024 (AAC), 2036 (MP4)
  Lengths,     \* the lengths a client asks for
  MaxTries,    \* refills of one buf_read: 5000 ms / 50 ms
  FifoSize,    \* bytes the FIFO holds: 32000
  MaxStream    \* bytes the HTTP task stores: the bound of the runs

ASSUME BufferAssumption ==
  /\ Size \in Nat \ {0} /\ MaxTries \in Nat \ {0}
  /\ FifoSize \in Nat \ {0} /\ MaxStream \in Nat
  /\ Lengths \subseteq Nat \ {0}

VARIABLES
  sent, taken,                 \* bytes stored in the FIFO, and read from it
  base, read_pos, write_pos, bytes_consumed,       \* buffer_t
  pc,                          \* where the decoder is
  caller,                      \* where fill_read_buffer returns to
  looked,                      \* the first spiRamFifoFill() of min
  bytes_to_read,               \* fill_read_buffer
  want,                        \* offset, or bytes_to_copy
  tries,                       \* delay / 50
  out                          \* what buf_read copied out, <<>> for -1

fifoVars == <<sent, taken>>
posVars == <<read_pos, write_pos, bytes_consumed>>
fillVars == <<caller, looked, bytes_to_read>>
callVars == <<want, tries, out>>
bufferVars == <<fifoVars, base, posVars, pc, fillVars, callVars>>

Cells == 0..(Size - 1)

buf_data_unread == write_pos - read_pos
buf_data_stale == read_pos
buf_free_capacity_after_purge == buf_data_stale + (Size - write_pos)
spiRamFifoFill == sent - taken

(* buf_create: calloc, empty.                                              *)
BufferInit ==
  /\ sent = 0 /\ taken = 0
  /\ base = [i \in Cells |-> 0] /\ read_pos = 0 /\ write_pos = 0
  /\ bytes_consumed = 0
  /\ pc = "client" /\ caller = "client" /\ looked = 0 /\ bytes_to_read = 0
  /\ want = 0 /\ tries = 0 /\ out = <<>>

(* The HTTP task stores a byte when the FIFO has room for it.              *)
Store ==
  /\ sent < MaxStream /\ spiRamFifoFill < FifoSize
  /\ sent' = sent + 1
  /\ UNCHANGED <<taken, base, posVars, pc, fillVars, callVars>>

-----------------------------------------------------------------------------
(* fill_read_buffer                                                        *)

(* A client that refills the buffer itself: the MP3 and AAC decoders when  *)
(* they run dry, the MP4 decoder before every frame.                       *)
Fill ==
  /\ pc = "client"
  /\ pc' = "purge" /\ caller' = "client"
  /\ UNCHANGED <<fifoVars, base, posVars, looked, bytes_to_read, callVars>>

(* Mutant: nothing is moved, only the positions.                           *)
FillPurges_NoMove ==
  /\ pc = "purge"
  /\ read_pos' = 0 /\ write_pos' = buf_data_unread
  /\ looked' = spiRamFifoFill
  /\ IF buf_free_capacity_after_purge < spiRamFifoFill
     THEN bytes_to_read' = buf_free_capacity_after_purge /\ pc' = "copy"
     ELSE pc' = "look" /\ UNCHANGED bytes_to_read
  /\ UNCHANGED <<fifoVars, base, bytes_consumed, caller, callVars>>

(* Mutant: the whole buffer is taken for free.                             *)
FillPurges_Capacity ==
  /\ pc = "purge"
  /\ base' = [i \in Cells |->
               IF i < buf_data_unread THEN base[read_pos + i] ELSE base[i]]
  /\ read_pos' = 0 /\ write_pos' = buf_data_unread
  /\ looked' = spiRamFifoFill
  /\ IF Size < spiRamFifoFill THEN bytes_to_read' = Size /\ pc' = "copy"
     ELSE pc' = "look" /\ UNCHANGED bytes_to_read
  /\ UNCHANGED <<fifoVars, bytes_consumed, caller, callVars>>

(* buf_move_remaining_bytes_to_front, and the first half of                *)
(* min(buf_free_capacity_after_purge(buf), spiRamFifoFill()).  When the    *)
(* FIFO holds no more than there is room for, the macro's result is a      *)
(* second call of spiRamFifoFill.  The capacity is the same before and     *)
(* after the move.                                                         *)
FillPurges ==
  /\ pc = "purge"
  /\ base' = [i \in Cells |->
               IF i < buf_data_unread THEN base[read_pos + i] ELSE base[i]]
  /\ read_pos' = 0 /\ write_pos' = buf_data_unread
  /\ looked' = spiRamFifoFill
  /\ IF buf_free_capacity_after_purge < spiRamFifoFill
     THEN bytes_to_read' = buf_free_capacity_after_purge /\ pc' = "copy"
     ELSE pc' = "look" /\ UNCHANGED bytes_to_read
  /\ UNCHANGED <<fifoVars, bytes_consumed, caller, callVars>>

FillLooksAgain ==
  /\ pc = "look"
  /\ bytes_to_read' = spiRamFifoFill
  /\ pc' = "copy"
  /\ UNCHANGED <<fifoVars, base, posVars, caller, looked, callVars>>

(* spiRamFifoRead: as many bytes as the FIFO was seen to hold, so it does  *)
(* not wait.                                                               *)
FillCopies ==
  /\ pc = "copy"
  /\ write_pos + bytes_to_read <= Size
  /\ base' = [i \in Cells |->
               IF i \in write_pos..(write_pos + bytes_to_read - 1)
               THEN taken + (i - write_pos) + 1 ELSE base[i]]
  /\ taken' = taken + bytes_to_read
  /\ write_pos' = write_pos + bytes_to_read
  /\ pc' = caller
  /\ UNCHANGED <<sent, read_pos, bytes_consumed, fillVars, callVars>>

(* More bytes than fit: spiRamFifoRead writes past the end of base.  What  *)
(* the heap holds after that is not modelled; the decoder stops here.      *)
FillOverruns ==
  /\ pc = "copy"
  /\ write_pos + bytes_to_read > Size
  /\ pc' = "overrun"
  /\ UNCHANGED <<fifoVars, base, posVars, fillVars, callVars>>

-----------------------------------------------------------------------------
(* buf_seek_rel                                                            *)

Seek(offset) ==
  /\ pc = "client"
  /\ pc' = "seek" /\ want' = offset
  /\ UNCHANGED <<fifoVars, base, posVars, fillVars, tries, out>>

(* Mutant: the offset is not reduced by what was there.                    *)
SeekLoads_FullOffset ==
  /\ pc = "seek" /\ want > buf_data_unread
  /\ read_pos' = write_pos
  /\ bytes_consumed' = bytes_consumed + buf_data_unread
  /\ pc' = "purge" /\ caller' = "seek"
  /\ UNCHANGED <<fifoVars, base, write_pos, looked, bytes_to_read, callVars>>

(* The offset exceeds what is there: consume that, and refill.             *)
SeekLoads ==
  /\ pc = "seek" /\ want > buf_data_unread
  /\ read_pos' = write_pos
  /\ want' = want - buf_data_unread
  /\ bytes_consumed' = bytes_consumed + buf_data_unread
  /\ pc' = "purge" /\ caller' = "seek"
  /\ UNCHANGED <<fifoVars, base, write_pos, looked, bytes_to_read, tries, out>>

SeekEnds ==
  /\ pc = "seek" /\ want <= buf_data_unread
  /\ read_pos' = read_pos + want
  /\ bytes_consumed' = bytes_consumed + want
  /\ want' = 0
  /\ pc' = "client"
  /\ UNCHANGED <<fifoVars, base, write_pos, fillVars, tries, out>>

-----------------------------------------------------------------------------
(* buf_read.  A read of nothing returns at once and changes nothing.       *)

Read(n) ==
  /\ pc = "client"
  /\ pc' = "read" /\ want' = n /\ tries' = 0
  /\ UNCHANGED <<fifoVars, base, posVars, fillVars, out>>

(* Mutant: the refills are not counted.                                    *)
ReadLoads_ForEver ==
  /\ pc = "read" /\ want <= Size
  /\ want > buf_data_unread
  /\ pc' = "purge" /\ caller' = "read"
  /\ UNCHANGED <<fifoVars, base, posVars, looked, bytes_to_read, callVars>>

(* A refill and a delay of 50 ms, for at most 5 s.                         *)
ReadLoads ==
  /\ pc = "read" /\ want <= Size
  /\ want > buf_data_unread /\ tries < MaxTries
  /\ tries' = tries + 1
  /\ pc' = "purge" /\ caller' = "read"
  /\ UNCHANGED <<fifoVars, base, posVars, looked, bytes_to_read, want, out>>

(* Longer than the buffer, or still not there: -1, and nothing consumed.   *)
ReadFails ==
  /\ pc = "read"
  /\ want > Size \/ (want > buf_data_unread /\ tries = MaxTries)
  /\ out' = <<>> /\ want' = 0 /\ tries' = 0
  /\ pc' = "client"
  /\ UNCHANGED <<fifoVars, base, posVars, fillVars>>

ReadCopies ==
  /\ pc = "read" /\ want <= buf_data_unread
  /\ out' = [i \in 1..want |-> base[read_pos + i - 1]]
  /\ read_pos' = read_pos + want
  /\ bytes_consumed' = bytes_consumed + want
  /\ want' = 0 /\ tries' = 0
  /\ pc' = "client"
  /\ UNCHANGED <<fifoVars, base, write_pos, fillVars>>

-----------------------------------------------------------------------------
(* The steps of a call that is under way.                                  *)
CallStep ==
  \/ FillPurges \/ FillLooksAgain \/ FillCopies \/ FillOverruns
  \/ SeekLoads \/ SeekEnds
  \/ ReadLoads \/ ReadFails \/ ReadCopies

BufferNext ==
  \/ Store
  \/ Fill \/ (\E n \in Lengths : Seek(n) \/ Read(n))
  \/ CallStep

BufferSpec == BufferInit /\ [][BufferNext]_bufferVars

(* The decoder's task is run; nobody has to store anything.                *)
FairBufferSpec == BufferSpec /\ WF_bufferVars(CallStep)

-----------------------------------------------------------------------------
BufferTypeOK ==
  /\ sent \in 0..MaxStream /\ taken \in 0..MaxStream
  /\ base \in [Cells -> Nat] /\ read_pos \in 0..Size /\ write_pos \in 0..Size
  /\ bytes_consumed \in 0..MaxStream
  /\ pc \in {"client", "purge", "look", "copy", "seek", "read", "overrun"}
  /\ caller \in {"client", "seek", "read"}
  /\ looked \in 0..MaxStream /\ bytes_to_read \in 0..MaxStream
  /\ want \in Nat /\ tries \in 0..MaxTries
  /\ out \in Seq(Nat) /\ Len(out) <= Size

(* The unread bytes are the next bytes of the stream, in order, and        *)
(* bytes_consumed is the position of read_pos in it: through every move,   *)
(* refill, seek and read no byte is lost, repeated or displaced.           *)
UnreadIsNext ==
  /\ read_pos <= write_pos /\ taken <= sent
  /\ taken = bytes_consumed + buf_data_unread
  /\ \A i \in Cells :
       i \in read_pos..(write_pos - 1) => base[i] = bytes_consumed + (i - read_pos) + 1

(* fill_read_buffer asks the FIFO for more than there is room for by at    *)
(* most what the HTTP task stored between the two looks of min at the      *)
(* fill: without a store just there, base is never overrun.                *)
ExcessIsWhatCame ==
  pc = "copy" =>
    bytes_to_read - (Size - write_pos) <= spiRamFifoFill - looked

(* fill_read_buffer stores no more than what common_buffer.h calls the     *)
(* "available unused capacity".  The macro min breaks this.                *)
FillFits == pc = "copy" => bytes_to_read <= Size - write_pos

(* The buffer implements a cursor that moves forward over the stream:      *)
(* seeks across refills, reads that start before and end after a refill,   *)
(* and reads that give up are what StreamCursor says.                      *)
inCall == IF pc \in {"purge", "look", "copy", "overrun"} THEN caller ELSE pc

Cursor == INSTANCE StreamCursor WITH
  Cap <- Size, pos <- bytes_consumed,
  call <- CASE inCall = "seek" -> "seek" [] inCall = "read" -> "read" [] OTHER -> "none"

CursorSpec == Cursor!Spec

(* A call returns: buf_read within its 5 seconds, whatever the stream      *)
(* does; buf_seek_rel once the FIFO has been given the bytes to go over,   *)
(* and no sooner: at the end of a stream it never does.                    *)
CallsReturn ==
  /\ inCall = "read" ~> pc \in {"client", "overrun"}
  /\ (inCall = "seek" /\ bytes_consumed + want <= sent) ~> pc \in {"client", "overrun"}

=============================================================================
