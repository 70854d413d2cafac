------------------------------ MODULE FifoSession ------------------------------
(***************************************************************************)
(* The ring of SpiRamFifo through the lives of several decoders: the HTTP  *)
(* task fills it (audio_stream_consumer, audio_player.c), starts a decoder *)
(* when it is full enough, and tells it to stop; the decoder (input,       *)
(* mp3_decoder.c, and fill_read_buffer, common_buffer.c) asks how much     *)
(* there is, reads as much, and at its end resets the ring.                *)
(*                                                                         *)
(* spiRamFifoReset takes semCanRead while it holds the mutex the writer    *)
(* needs, and the writer may wait for room before there is a decoder.      *)
(* That neither lasts is a matter of the protocol, not of the ring.        *)
(*                                                                         *)
(* The streams are those of a patient listener: one HTTP task at a time    *)
(* feeds the ring (RadioControl!OneWriter), and a track is left while its  *)
(* decoder runs.  libmad is the choice of how much room its buffer has.    *)
(***************************************************************************)
EXTENDS SpiRamFifo

CONSTANTS
  Mark,       \* fill above which a decoder is started: 90% of the ring
  MaxSpace    \* size of the decoder's buffer: MAX_FRAME_SIZE

(* What one receive buffer brings fits above the mark; reads are as long   *)
(* as the decoder's buffer allows.  In the code 29119, 63 and 2889 bytes.  *)
ASSUME SessionAssumption ==
  /\ Mark \in Nat
  /\ \A s \in Buffers : Mark + Len(s) <= Size
  /\ MaxSpace \in Nat \ {0}
  /\ Lengths = 1..MaxSpace

VARIABLES
  decoder_command, decoder_status,   \* player_t
  eof,                               \* media_stream_t
  cpc, level,                        \* consumer: where it is, bytes_in_buf
  dpc, space                         \* decoder: where it is, room in its buffer

ringVars == vars
playerVars == <<decoder_command, decoder_status, eof>>
consumerVars == <<cpc, level>>
decoderVars == <<dpc, space>>
sessionVars == <<ringVars, playerVars, consumerVars, decoderVars>>

SessionInit ==
  /\ Init
  /\ decoder_command = "NONE" /\ decoder_status = "UNINITIALIZED" /\ eof = FALSE
  /\ cpc = "idle" /\ level = 0
  /\ dpc = "none" /\ space = 0

-----------------------------------------------------------------------------
(* audio_stream_consumer                                                   *)

ConsumerWrites(s) ==
  /\ cpc = "idle"
  /\ Write(s)
  /\ cpc' = "writing"
  /\ UNCHANGED <<playerVars, level, decoderVars>>

(* spiRamFifoFill, after spiRamFifoWrite has returned.                     *)
ConsumerLevel ==
  /\ cpc = "writing" /\ wpc = "idle"
  /\ mux = "free"
  /\ level' = fifoFill
  /\ cpc' = "decide"
  /\ UNCHANGED <<ringVars, playerVars, decoderVars>>

(* Mutant: the ring has to be full.                                        *)
wantsDecoder_Full == decoder_status # "RUNNING" /\ level = Size

wantsDecoder == decoder_status # "RUNNING" /\ level > Mark

ConsumerGoesOn ==
  /\ cpc = "decide"
  /\ ~wantsDecoder
  /\ cpc' = "idle"
  /\ UNCHANGED <<ringVars, playerVars, level, decoderVars>>

(* start_decoder_task: the decoder may run before its status is set.       *)
ConsumerCreates ==
  /\ cpc = "decide"
  /\ wantsDecoder
  /\ dpc' = "input"
  /\ cpc' = "mark"
  /\ UNCHANGED <<ringVars, playerVars, level, space>>

(* No memory for the task: the callback fails and is not called again.     *)
ConsumerCannotCreate ==
  /\ cpc = "decide"
  /\ wantsDecoder
  /\ cpc' = "ended"
  /\ UNCHANGED <<ringVars, playerVars, level, decoderVars>>

ConsumerMarks ==
  /\ cpc = "mark"
  /\ decoder_status' = "RUNNING"
  /\ cpc' = "idle"
  /\ UNCHANGED <<ringVars, decoder_command, eof, level, decoderVars>>

(* The button was pressed: the consumer passes the command on and gives up *)
(* its stream.                                                             *)
ConsumerStops ==
  /\ cpc = "idle"
  /\ decoder_status = "RUNNING"
  /\ decoder_command' = "STOP"
  /\ cpc' = "stopped"
  /\ UNCHANGED <<ringVars, decoder_status, eof, level, decoderVars>>

(* Mutant: the button task does not wait for the decoder.                  *)
NextStream_AtOnce ==
  /\ cpc = "stopped"
  /\ eof' = FALSE
  /\ cpc' = "idle"
  /\ UNCHANGED <<ringVars, decoder_command, decoder_status, level, decoderVars>>

(* The button task has seen STOPPED and started the next reader, whose     *)
(* answer comes after the decoder's last store.                            *)
NextStream ==
  /\ cpc = "stopped"
  /\ decoder_status = "STOPPED" /\ dpc = "none"
  /\ eof' = FALSE
  /\ cpc' = "idle"
  /\ UNCHANGED <<ringVars, decoder_command, decoder_status, level, decoderVars>>

(* The stream ends, with on_message_complete or, when read() fails,        *)
(* without.  The reader of a later track would take the stop command of    *)
(* the press before it and discard its stream: nothing more is written.    *)
StreamEnds ==
  /\ cpc = "idle"
  /\ eof' \in {TRUE, eof}
  /\ cpc' = "ended"
  /\ UNCHANGED <<ringVars, decoder_command, decoder_status, level, decoderVars>>

-----------------------------------------------------------------------------
(* input and fill_read_buffer                                              *)

(* Mutant: the decoder does not look at the command.                       *)
DecoderInput_Deaf ==
  /\ dpc = "input"
  /\ dpc' = "look"
  /\ UNCHANGED <<ringVars, playerVars, consumerVars, space>>

DecoderInput ==
  /\ dpc = "input"
  /\ dpc' = IF decoder_command = "STOP" THEN "abort" ELSE "look"
  /\ UNCHANGED <<ringVars, playerVars, consumerVars, space>>

(* The first spiRamFifoFill: is there anything to take, and room for it?   *)
(* libmad may ask for more while the decoder's buffer is full.             *)
DecoderLook(room) ==
  /\ dpc = "look"
  /\ mux = "free"
  /\ space' = room
  /\ dpc' = IF room = 0 \/ fifoFill = 0 THEN "starved" ELSE "fill"
  /\ UNCHANGED <<ringVars, playerVars, consumerVars>>

(* Mutant: the decoder gives up when there is nothing to take.             *)
DecoderStarved_GivesUp ==
  /\ dpc = "starved"
  /\ dpc' = "abort"
  /\ UNCHANGED <<ringVars, playerVars, consumerVars, space>>

DecoderStarved ==
  /\ dpc = "starved"
  /\ dpc' = IF eof THEN "abort" ELSE "input"
  /\ UNCHANGED <<ringVars, playerVars, consumerVars, space>>

(* Mutant: the buffer is filled up, whatever the ring holds.               *)
DecoderFill_Up ==
  /\ dpc = "fill"
  /\ mux = "free"
  /\ Read(space)
  /\ dpc' = "reading"
  /\ UNCHANGED <<playerVars, consumerVars, space>>

(* The second spiRamFifoFill, and spiRamFifoRead, of no more than there is *)
(* room for.  The macro min looks at the fill twice and may find room for  *)
(* less than it asks for: that is ReadBuffer's subject, not this module's. *)
DecoderFill ==
  /\ dpc = "fill"
  /\ mux = "free"
  /\ fifoFill > 0
  /\ Read(AtMost(space, fifoFill))
  /\ dpc' = "reading"
  /\ UNCHANGED <<playerVars, consumerVars, space>>

(* spiRamFifoRead has returned; libmad decodes and asks for more.          *)
DecoderDecodes ==
  /\ dpc = "reading" /\ rpc = "idle"
  /\ dpc' = "input"
  /\ UNCHANGED <<ringVars, playerVars, consumerVars, space>>

(* Mutant: the write position is kept.                                     *)
DecoderResets_KeepsWpos ==
  /\ dpc = "abort"
  /\ mux = "free"
  /\ mux' = "reset"
  /\ fifoRpos' = 0 /\ fifoFill' = 0
  /\ semCanWrite' = 1
  /\ dpc' = "reset"
  /\ UNCHANGED <<fifoWpos, ram, semCanRead, writerVars, readerVars,
                 playerVars, consumerVars, space>>

(* spiRamFifoReset, up to the semaphore it waits for.                      *)
DecoderResets ==
  /\ dpc = "abort"
  /\ mux = "free"
  /\ mux' = "reset"
  /\ fifoRpos' = 0 /\ fifoWpos' = 0 /\ fifoFill' = 0
  /\ semCanWrite' = 1
  /\ dpc' = "reset"
  /\ UNCHANGED <<ram, semCanRead, writerVars, readerVars,
                 playerVars, consumerVars, space>>

(* It takes semCanRead and gives the mutex back.                           *)
DecoderResetEnds ==
  /\ dpc = "reset"
  /\ semCanRead = 1
  /\ semCanRead' = 0
  /\ mux' = "free"
  /\ dpc' = "stopped"
  /\ UNCHANGED <<fifoVars, semCanWrite, writerVars, readerVars,
                 playerVars, consumerVars, space>>

DecoderStopped ==
  /\ dpc = "stopped"
  /\ decoder_status' = "STOPPED"
  /\ dpc' = "clear"
  /\ UNCHANGED <<ringVars, decoder_command, eof, consumerVars, space>>

DecoderClears ==
  /\ dpc = "clear"
  /\ decoder_command' = "NONE"
  /\ dpc' = "none"
  /\ UNCHANGED <<ringVars, decoder_status, eof, consumerVars, space>>

-----------------------------------------------------------------------------
SpiRamFifoWriteStep == WriterStep /\ UNCHANGED <<playerVars, consumerVars, decoderVars>>
SpiRamFifoReadStep == ReaderStep /\ UNCHANGED <<playerVars, consumerVars, decoderVars>>

ConsumerStep ==
  \/ SpiRamFifoWriteStep
  \/ ConsumerLevel \/ ConsumerGoesOn \/ ConsumerCreates \/ ConsumerMarks

DecoderStep ==
  \/ SpiRamFifoReadStep
  \/ DecoderInput \/ (\E room \in 0..MaxSpace : DecoderLook(room)) \/ DecoderStarved
  \/ DecoderFill \/ DecoderDecodes
  \/ DecoderResets \/ DecoderResetEnds \/ DecoderStopped \/ DecoderClears

SessionNext ==
  \/ \E s \in Buffers : ConsumerWrites(s)
  \/ ConsumerStep \/ ConsumerCannotCreate
  \/ ConsumerStops \/ NextStream \/ StreamEnds
  \/ DecoderStep

SessionSpec == SessionInit /\ [][SessionNext]_sessionVars

(* Both tasks are run, each on a core of its own.  Nobody has to send,     *)
(* press, or end a stream.  libmad takes from a buffer that is full: it    *)
(* was made as large as the largest frame and what libmad looks ahead      *)
(* (MAX_FRAME_SIZE, mp3_decoder.c).                                        *)
FairSessionSpec ==
  /\ SessionSpec
  /\ WF_sessionVars(ConsumerStep) /\ WF_sessionVars(DecoderStep)
  /\ SF_sessionVars(\E room \in 1..MaxSpace : DecoderLook(room))

-----------------------------------------------------------------------------
(* Properties                                                              *)

ConsumerPc == {"idle", "writing", "decide", "mark", "stopped", "ended"}
DecoderPc == {"none", "input", "look", "starved", "fill", "reading",
              "abort", "reset", "stopped", "clear"}

(* A decoder is at work, or on its way out.                                *)
Serving == dpc \in {"input", "look", "starved", "fill", "reading"}
Leaving == dpc \in {"abort", "reset", "stopped", "clear"}

(* Types, those of the ring included: a reset in the middle of the ring's  *)
(* life leaves positions and fill in range.                                *)
SessionTypeOK ==
  /\ TypeOK
  /\ decoder_command \in {"NONE", "STOP"}
  /\ decoder_status \in {"UNINITIALIZED", "RUNNING", "STOPPED"}
  /\ eof \in BOOLEAN
  /\ cpc \in ConsumerPc /\ level \in 0..Size
  /\ dpc \in DecoderPc /\ space \in 0..MaxSpace

(* The decoder never sleeps in spiRamFifoRead, where it could not see a    *)
(* stop command: what it was told the ring holds is still there.           *)
DecoderNeverSleeps == rpc \notin {"low", "wait"} /\ (dpc = "fill" => fifoFill > 0)

(* spiRamFifoReset takes semCanRead while it holds the mutex every writer  *)
(* needs; it never has to wait there, because in every decoder's life      *)
(* something was written after the previous reset.                         *)
ResetIsServed == dpc = "reset" => semCanRead = 1

(* The writer waits for room only while there is a decoder that will make  *)
(* some: before a decoder is started everything fits, and one that leaves  *)
(* is never waited for.                                                    *)
RoomIsMade == wpc = "wait" => Serving /\ decoder_command = "NONE" /\ ~eof

(* The decision to start a decoder is taken on a level and a status that   *)
(* are still true when the task is created: no decoder is there, and the   *)
(* ring holds what was counted.                                            *)
DecisionIsCurrent == cpc = "decide" /\ wantsDecoder => dpc = "none" /\ level = fifoFill

(* The ring implements a pipe that is emptied between two streams: no byte *)
(* of a track is read after the reset, none of the next is lost by it.     *)
FlushablePipe == Pipe!FlushablePipeSpec

(* Every call of spiRamFifoWrite returns, without a listener's help.       *)
EveryWriteReturns == wpc # "idle" ~> wpc = "idle"

(* A stop command ends the decoder, ring reset and mutex free.             *)
StopIsObeyed == cpc = "stopped" ~> dpc = "none" /\ mux = "free"

-----------------------------------------------------------------------------
(* The inductive invariant                                                 *)

(* Each side of the ring is in use only from one place of its task.        *)
Places ==
  /\ wpc # "idle" => cpc = "writing"
  /\ rpc # "idle" => dpc = "reading"
  /\ mux = "reset" <=> dpc = "reset"

(* What the decoder was told it may read is still in the ring.             *)
Promise ==
  /\ rpc \notin {"low", "wait"}
  /\ rpc # "idle" => rLen + copiedOut <= fifoFill
  /\ dpc = "fill" => fifoFill > 0 /\ space > 0

(* Only a consumer that has left its stream makes a decoder leave, and     *)
(* while it streams the status tells whether there is a decoder.           *)
Life ==
  /\ decoder_command = "STOP" => cpc = "stopped" /\ dpc # "none"
  /\ eof => cpc = "ended"
  /\ Leaving => cpc \in {"stopped", "ended"}
  /\ cpc \in {"idle", "writing", "decide"} => (decoder_status = "RUNNING" <=> Serving)
  /\ cpc = "mark" => Serving

(* The token a reset will need is there from the write that led to the     *)
(* decoder's creation on.                                                  *)
Token ==
  /\ cpc = "writing" /\ wpc = "idle" => semCanRead = 1
  /\ cpc = "decide" => semCanRead = 1
  /\ Serving \/ dpc \in {"abort", "reset"} => semCanRead = 1

(* While there is no decoder the ring is no fuller than the consumer has   *)
(* counted, and what it is about to write fits.                            *)
Room ==
  /\ dpc = "none" =>
       /\ cpc = "idle" => fifoFill <= Mark
       /\ cpc = "writing" => fifoFill + Len(wBuf) <= Size
       /\ cpc = "decide" => level = fifoFill
  /\ cpc = "stopped" /\ dpc \in {"reset", "stopped", "clear", "none"} => fifoFill = 0
  /\ wpc = "wait" => Serving

SessionInv ==
  /\ SessionTypeOK /\ IInv
  /\ Places /\ Promise /\ Life /\ Token /\ Room
=============================================================================
