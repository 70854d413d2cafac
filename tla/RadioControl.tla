----------------------------- MODULE RadioControl -----------------------------
(***************************************************************************)
(* How the tasks of the web radio start and stop one another: the button's *)
(* interrupt handler (controls.c), the button task (web_radio.c), the HTTP *)
(* tasks (web_radio.c, http.c) that run audio_stream_consumer              *)
(* (audio_player.c), and the decoder tasks (mp3_decoder.c,                 *)
(* fdk_aac_decoder.c, libfaad_decoder.c).  They share flags that no lock   *)
(* protects; one TLA+ step reads or writes them once.                      *)
(*                                                                         *)
(* The FIFO is a sequence of blocks, each marked with the track it was     *)
(* downloaded from; module SpiRamFifo is about its inside.                 *)
(***************************************************************************)
EXTENDS Integers, Sequences, FiniteSets

CONSTANTS
  Tracks,        \* playlist length; tracks are 0..Tracks-1
  Formats,       \* the content types each track's server may answer with
  Readers,       \* HTTP tasks there is memory for
  Decoders,      \* decoder tasks there is memory for
  Cap,           \* blocks the FIFO holds
  EnoughBlocks,  \* blocks above 90% of the FIFO (BUF_PREF_SAFE)
  \* What the outside world may do
  EndingTracks,  \* tracks whose server may finish the stream
  ConnectsFail,  \* DNS, connect() or the response's head may fail
  ReadsFail,     \* read() may return -1 in the middle of a stream
  ServersHangUp, \* a server eventually closes a stream nobody listens to
  AnswersTakeTime, \* an answer takes longer than two adjacent stores of a decoder
  MaxHasty       \* bound: presses by a listener who does not wait

ASSUME WorldAssumption ==
  /\ Tracks \in Nat \ {0}
  /\ Formats \in [0..(Tracks - 1) -> SUBSET {"mpeg", "mp4", "aac", "other"}]
  /\ Cap \in Nat /\ EnoughBlocks \in 1..Cap
  /\ EndingTracks \subseteq 0..(Tracks - 1)
  /\ {ConnectsFail, ReadsFail, ServersHangUp, AnswersTakeTime} \subseteq BOOLEAN
  /\ MaxHasty \in Nat

Track == 0..(Tracks - 1)
QueueLength == 2

VARIABLES
  command, decoder_command, decoder_status,   \* player_t
  content_type, eof,                          \* media_stream_t
  renderer_status,
  curr_track,                                 \* the playlist's cursor
  fifo,
  events,                                     \* length of gpio_evt_queue
  mainpc, hpc,                                \* app_main, button task
  reader, decoder,                            \* HTTP and decoder tasks
  heard,                                      \* the track one hears, or Silence
  hasty                                       \* presses so far that did not wait

playerVars == <<command, decoder_command, decoder_status>>
streamVars == <<content_type, eof>>
buttonVars == <<events, hpc, curr_track>>
vars == <<playerVars, streamVars, renderer_status, fifo, buttonVars,
          mainpc, reader, decoder, heard, hasty>>

Silence == -1

Init ==
  /\ command = "NONE" /\ decoder_command = "NONE"
  /\ decoder_status = "UNINITIALIZED"
  /\ content_type = "none" /\ eof = FALSE
  /\ renderer_status = "INITIALIZED"
  /\ curr_track = 0
  /\ fifo = <<>>
  /\ events = 0
  /\ mainpc = "start" /\ hpc = "receive"
  /\ reader = [r \in Readers |-> [pc |-> "none", track |-> 0, last |-> FALSE, level |-> 0]]
  /\ decoder = [d \in Decoders |-> [pc |-> "none", block |-> 0]]
  /\ heard = Silence
  /\ hasty = 0

-----------------------------------------------------------------------------
(* Helpers                                                                 *)

ReaderAt(r, pc) == reader[r].pc = pc
GoReader(r, pc) == reader' = [reader EXCEPT ![r].pc = pc]
DecoderAt(d, pc) == decoder[d].pc = pc
GoDecoder(d, pc) == decoder' = [decoder EXCEPT ![d].pc = pc]

(* HTTP tasks have priority 20 and the button task 10, app_main less, all  *)
(* on core 0: they run only when every HTTP task is blocked or may be (it  *)
(* waits for the network, a semaphore, the console or memory).  Decoders   *)
(* have core 1 to themselves; interrupts come any time.                    *)
core0IsFree ==
  \A r \in Readers :
    reader[r].pc \notin {"spawned", "eof", "start", "check", "acknowledge", "decide", "mark"}

(* web_radio_start: xTaskCreatePinnedToCore, its result ignored.           *)
web_radio_start ==
  LET free == {r \in Readers : ReaderAt(r, "none")}
  IN  IF free = {} THEN UNCHANGED reader ELSE \E r \in free : GoReader(r, "spawned")

-----------------------------------------------------------------------------
(* app_main: the button's task and interrupt are set up before the first   *)
(* reader task is started.                                                 *)

StartRadio ==
  /\ mainpc = "start" /\ core0IsFree
  /\ web_radio_start
  /\ mainpc' = "done"
  /\ UNCHANGED <<hasty, playerVars, streamVars, renderer_status, fifo, buttonVars,
                 decoder, heard>>

(* A rising edge of the button: gpio_isr_handler.  A full queue drops the  *)
(* event.                                                                  *)
gpio_isr_handler ==
  /\ events' = IF events < QueueLength THEN events + 1 ELSE events
  /\ UNCHANGED <<playerVars, streamVars, renderer_status, fifo, hpc, curr_track,
                 mainpc, reader, decoder, heard>>

(* A patient listener waits for the sound of the chosen track, and for the *)
(* servers of earlier tracks to give up; a hasty one presses any time.     *)
Audible ==
  /\ events = 0 /\ hpc = "receive"
  /\ heard = curr_track
  /\ renderer_status = "RUNNING"

Press ==
  /\ Audible
  /\ \A r \in Readers : ~ReaderAt(r, "deaf")
  /\ gpio_isr_handler
  /\ UNCHANGED hasty

HastyPress ==
  /\ hasty < MaxHasty
  /\ gpio_isr_handler
  /\ hasty' = hasty + 1

-----------------------------------------------------------------------------
(* web_radio_gpio_handler_task                                             *)

(* xQueueReceive, then the first half of audio_player_stop: renderer_stop, *)
(* which silences the output.                                              *)
ButtonReceive ==
  /\ hpc = "receive" /\ events > 0 /\ core0IsFree
  /\ events' = events - 1
  /\ renderer_status' = "STOPPED"
  /\ heard' = Silence
  /\ hpc' = "command"
  /\ UNCHANGED <<hasty, playerVars, streamVars, fifo, curr_track, mainpc, reader,
                 decoder>>

ButtonCommand ==
  /\ hpc = "command" /\ core0IsFree
  /\ command' = "STOP"
  /\ hpc' = "next"
  /\ UNCHANGED <<hasty, decoder_command, decoder_status, streamVars, renderer_status,
                 fifo,
                 events, curr_track, mainpc, reader, decoder, heard>>

(* playlist_next                                                           *)
ButtonNext ==
  /\ hpc = "next" /\ core0IsFree
  /\ curr_track' = (curr_track + 1) % Tracks
  /\ hpc' = "wait"
  /\ UNCHANGED <<hasty, playerVars, streamVars, renderer_status, fifo, events, mainpc,
                 reader, decoder, heard>>

(* Mutant: the button task does not wait for the decoder.                  *)
ButtonWait_AtOnce ==
  /\ hpc = "wait" /\ core0IsFree
  /\ hpc' = "restart"
  /\ UNCHANGED <<hasty, playerVars, streamVars, renderer_status, fifo, events,
                 curr_track, mainpc, reader, decoder, heard>>

ButtonWait ==
  /\ hpc = "wait" /\ core0IsFree
  /\ decoder_status = "STOPPED"
  /\ hpc' = "restart"
  /\ UNCHANGED <<hasty, playerVars, streamVars, renderer_status, fifo, events, curr_track,
                 mainpc, reader, decoder, heard>>

ButtonRestart ==
  /\ hpc = "restart" /\ core0IsFree
  /\ web_radio_start
  /\ hpc' = "receive"
  /\ UNCHANGED <<hasty, playerVars, streamVars, renderer_status, fifo, events, curr_track,
                 mainpc, decoder, heard>>

ButtonStep == ButtonReceive \/ ButtonCommand \/ ButtonNext \/ ButtonWait \/ ButtonRestart

-----------------------------------------------------------------------------
(* http_get_task and http_client_get                                       *)

ReaderRun(r) ==
  /\ ReaderAt(r, "spawned")
  /\ reader' = [reader EXCEPT ![r].pc = "connect", ![r].track = curr_track]
  /\ UNCHANGED <<hasty, playerVars, streamVars, renderer_status, fifo, buttonVars, mainpc,
                 decoder, heard>>

(* No address, no connection after six attempts, or a connection that ends *)
(* before the response's headers do.                                       *)
ReaderFails(r) ==
  /\ ConnectsFail
  /\ ReaderAt(r, "connect")
  /\ GoReader(r, "none")
  /\ UNCHANGED <<hasty, playerVars, streamVars, renderer_status, fifo, buttonVars, mainpc,
                 decoder, heard>>

(* on_headers_complete_cb: content_type, eof, and audio_player_start.  A   *)
(* content type the radio does not know leaves the previous one standing.  *)
HeadersComplete(r) ==
  /\ ReaderAt(r, "connect")
  /\ AnswersTakeTime => \A d \in Decoders : ~DecoderAt(d, "clear")
  /\ \E f \in Formats[reader[r].track] :
       content_type' = IF f = "other" THEN content_type ELSE f
  /\ GoReader(r, "eof")
  /\ UNCHANGED <<hasty, playerVars, eof, renderer_status, fifo, buttonVars, mainpc, decoder,
                 heard>>

ClearEof(r) ==
  /\ ReaderAt(r, "eof")
  /\ eof' = FALSE
  /\ GoReader(r, "start")
  /\ UNCHANGED <<hasty, playerVars, content_type, renderer_status, fifo, buttonVars, mainpc,
                 decoder, heard>>

(* Mutant: the renderer is not started again.                              *)
audio_player_start_Not(r) ==
  /\ ReaderAt(r, "start")
  /\ GoReader(r, "body")
  /\ UNCHANGED <<hasty, playerVars, streamVars, renderer_status, fifo, buttonVars, mainpc,
                 decoder, heard>>

audio_player_start(r) ==
  /\ ReaderAt(r, "start")
  /\ renderer_status' = "RUNNING"
  /\ GoReader(r, "body")
  /\ UNCHANGED <<hasty, playerVars, streamVars, fifo, buttonVars, mainpc, decoder, heard>>

(* read() returns bytes, and http_parser calls on_body.                    *)
ReaderData(r) ==
  /\ ReaderAt(r, "body")
  /\ reader' = [reader EXCEPT ![r].pc = "check", ![r].last = FALSE]
  /\ UNCHANGED <<hasty, playerVars, streamVars, renderer_status, fifo, buttonVars, mainpc,
                 decoder, heard>>

(* read() returns -1: the parser passes the length on to on_body, and the  *)
(* loop ends when the callback has returned.                               *)
ReaderError(r) ==
  /\ ReadsFail
  /\ ReaderAt(r, "body")
  /\ reader' = [reader EXCEPT ![r].pc = "check", ![r].last = TRUE]
  /\ UNCHANGED <<hasty, playerVars, streamVars, renderer_status, fifo, buttonVars, mainpc,
                 decoder, heard>>

(* The end of the stream: on_message_complete_cb, then the task ends.      *)
ReaderEnd(r) ==
  /\ ReaderAt(r, "body")
  /\ reader[r].track \in EndingTracks
  /\ eof' = TRUE
  /\ GoReader(r, "none")
  /\ UNCHANGED <<hasty, playerVars, content_type, renderer_status, fifo, buttonVars,
                 mainpc,
                 decoder, heard>>

(* http_client_get goes on reading although on_body failed: the parser is  *)
(* in an error state and discards what it is given, until the server       *)
(* closes the connection.                                                  *)
ReaderHangup(r) ==
  /\ ServersHangUp
  /\ ReaderAt(r, "deaf")
  /\ GoReader(r, "none")
  /\ UNCHANGED <<hasty, playerVars, streamVars, renderer_status, fifo, buttonVars, mainpc,
                 decoder, heard>>

-----------------------------------------------------------------------------
(* audio_stream_consumer, run by an HTTP task                              *)

afterConsumer(r) == IF reader[r].last THEN "none" ELSE "body"
afterFailure(r) == IF reader[r].last THEN "none" ELSE "deaf"

ConsumerStops(r) ==
  /\ ReaderAt(r, "check")
  /\ command = "STOP"
  /\ decoder_command' = "STOP"
  /\ GoReader(r, "acknowledge")
  /\ UNCHANGED <<hasty, command, decoder_status, streamVars, renderer_status, fifo,
                 buttonVars,
                 mainpc, decoder, heard>>

ConsumerAcknowledges(r) ==
  /\ ReaderAt(r, "acknowledge")
  /\ command' = "NONE"
  /\ GoReader(r, afterFailure(r))
  /\ UNCHANGED <<hasty, decoder_command, decoder_status, streamVars, renderer_status,
                 fifo,
                 buttonVars, mainpc, decoder, heard>>

ConsumerGoesOn(r) ==
  /\ ReaderAt(r, "check")
  /\ command # "STOP"
  /\ GoReader(r, IF reader[r].last THEN "level" ELSE "write")
  /\ UNCHANGED <<hasty, playerVars, streamVars, renderer_status, fifo, buttonVars, mainpc,
                 decoder, heard>>

(* spiRamFifoWrite blocks while the block does not fit.                    *)
ConsumerWrites(r) ==
  /\ ReaderAt(r, "write")
  /\ Len(fifo) < Cap
  /\ fifo' = Append(fifo, reader[r].track)
  /\ GoReader(r, "level")
  /\ UNCHANGED <<hasty, playerVars, streamVars, renderer_status, buttonVars, mainpc,
                 decoder, heard>>

ConsumerLevel(r) ==
  /\ ReaderAt(r, "level")
  /\ reader' = [reader EXCEPT ![r].pc = "decide", ![r].level = Len(fifo)]
  /\ UNCHANGED <<hasty, playerVars, streamVars, renderer_status, fifo, buttonVars, mainpc,
                 decoder, heard>>

(* Mutant: a decoder that is running does not count.                       *)
wantsDecoder_AnyStatus(r) ==
  reader[r].level >= EnoughBlocks \/ (reader[r].level > 0 /\ eof)

(* enough_buffer or early_start, and no decoder running                    *)
wantsDecoder(r) ==
  /\ decoder_status # "RUNNING"
  /\ \/ reader[r].level >= EnoughBlocks
     \/ reader[r].level > 0 /\ eof

ConsumerDecides(r) ==
  /\ ReaderAt(r, "decide")
  /\ GoReader(r, IF wantsDecoder(r) THEN "create" ELSE afterConsumer(r))
  /\ UNCHANGED <<hasty, playerVars, streamVars, renderer_status, fifo, buttonVars, mainpc,
                 decoder, heard>>

(* start_decoder_task: which task it is, by the content type, and where    *)
(* that task begins.  It may run before its creator sets decoder_status.   *)
task_func ==
  CASE content_type = "mpeg" -> "input"      \* mp3_decoder_task
    [] content_type = "mp4" -> "atoms"       \* libfaac_decoder_task
    [] content_type = "aac" -> "open"        \* fdkaac_decoder_task

ConsumerCreates(r) ==
  /\ ReaderAt(r, "create")
  /\ content_type # "none"
  /\ \E d \in Decoders :
       /\ DecoderAt(d, "none")
       /\ GoDecoder(d, task_func)
  /\ GoReader(r, "mark")
  /\ UNCHANGED <<hasty, playerVars, streamVars, renderer_status, fifo, buttonVars,
                 mainpc, heard>>

(* No content type yet, or no memory for another task.                     *)
ConsumerCannotCreate(r) ==
  /\ ReaderAt(r, "create")
  /\ content_type = "none" \/ \A d \in Decoders : ~DecoderAt(d, "none")
  /\ GoReader(r, afterFailure(r))
  /\ UNCHANGED <<hasty, playerVars, streamVars, renderer_status, fifo, buttonVars, mainpc,
                 decoder, heard>>

ConsumerMarks(r) ==
  /\ ReaderAt(r, "mark")
  /\ decoder_status' = "RUNNING"
  /\ GoReader(r, afterConsumer(r))
  /\ UNCHANGED <<hasty, command, decoder_command, streamVars, renderer_status, fifo,
                 buttonVars,
                 mainpc, decoder, heard>>

ReaderProgress(r) ==
  \/ ReaderRun(r) \/ HeadersComplete(r) \/ ClearEof(r) \/ audio_player_start(r)
  \/ ReaderData(r) \/ ReaderHangup(r)
  \/ ConsumerStops(r) \/ ConsumerAcknowledges(r) \/ ConsumerGoesOn(r)
  \/ ConsumerWrites(r) \/ ConsumerLevel(r) \/ ConsumerDecides(r)
  \/ ConsumerCreates(r) \/ ConsumerCannotCreate(r) \/ ConsumerMarks(r)

ReaderTrouble(r) == ReaderFails(r) \/ ReaderError(r) \/ ReaderEnd(r)

-----------------------------------------------------------------------------
(* Rendering a block: audible only while the renderer is not stopped.      *)

render_samples(block) ==
  heard' = IF renderer_status = "STOPPED" THEN heard ELSE block

(* mp3_decoder_task                                                        *)

MadInput(d) ==
  /\ DecoderAt(d, "input")
  /\ GoDecoder(d, IF decoder_command = "STOP" THEN "abort" ELSE "fill")
  /\ UNCHANGED <<hasty, playerVars, streamVars, renderer_status, fifo, buttonVars, mainpc,
                 reader, heard>>

MadFill(d) ==
  /\ DecoderAt(d, "fill")
  /\ IF fifo = <<>>
     THEN /\ GoDecoder(d, "starved")
          /\ UNCHANGED fifo
     ELSE /\ decoder' = [decoder EXCEPT ![d] = [pc |-> "frames", block |-> Head(fifo)]]
          /\ fifo' = Tail(fifo)
  /\ UNCHANGED <<hasty, playerVars, streamVars, renderer_status, buttonVars, mainpc,
                 reader, heard>>

(* bytes_to_read was zero: end of stream, or an underflow.                 *)
MadStarved(d) ==
  /\ DecoderAt(d, "starved")
  /\ GoDecoder(d, IF eof THEN "abort" ELSE "input")
  /\ UNCHANGED <<hasty, playerVars, streamVars, renderer_status, fifo, buttonVars, mainpc,
                 reader, heard>>

MadFrames(d) ==
  /\ DecoderAt(d, "frames")
  /\ GoDecoder(d, IF decoder_command = "STOP" THEN "abort" ELSE "render")
  /\ UNCHANGED <<hasty, playerVars, streamVars, renderer_status, fifo, buttonVars, mainpc,
                 reader, heard>>

MadRender(d) ==
  /\ DecoderAt(d, "render")
  /\ render_samples(decoder[d].block)
  /\ GoDecoder(d, "input")
  /\ UNCHANGED <<hasty, playerVars, streamVars, renderer_status, fifo, buttonVars,
                 mainpc, reader>>

(* Mutant: the FIFO is not emptied.                                        *)
MadReset_KeepsFifo(d) ==
  /\ DecoderAt(d, "abort")
  /\ GoDecoder(d, "stopped")
  /\ UNCHANGED <<hasty, playerVars, streamVars, renderer_status, fifo, buttonVars,
                 mainpc, reader, heard>>

(* spiRamFifoReset                                                         *)
MadReset(d) ==
  /\ DecoderAt(d, "abort")
  /\ fifo' = <<>>
  /\ GoDecoder(d, "stopped")
  /\ UNCHANGED <<hasty, playerVars, streamVars, renderer_status, buttonVars, mainpc,
                 reader, heard>>

MadStopped(d) ==
  /\ DecoderAt(d, "stopped")
  /\ decoder_status' = "STOPPED"
  /\ GoDecoder(d, "clear")
  /\ UNCHANGED <<hasty, command, decoder_command, streamVars, renderer_status, fifo,
                 buttonVars,
                 mainpc, reader, heard>>

MadClear(d) ==
  /\ DecoderAt(d, "clear")
  /\ decoder_command' = "NONE"
  /\ GoDecoder(d, "none")
  /\ UNCHANGED <<hasty, command, decoder_status, streamVars, renderer_status, fifo,
                 buttonVars,
                 mainpc, reader, heard>>

(* fdkaac_decoder_task fills its buffer once before its loop, which it     *)
(* does not reach if there is no memory for the codec.                     *)
AacOpen(d) ==
  /\ DecoderAt(d, "open")
  /\ IF fifo = <<>>
     THEN /\ GoDecoder(d, "loop") \/ GoDecoder(d, "none")
          /\ UNCHANGED fifo
     ELSE /\ decoder' = [decoder EXCEPT ![d] = [pc |-> "primed", block |-> Head(fifo)]]
          /\ fifo' = Tail(fifo)
  /\ UNCHANGED <<hasty, playerVars, streamVars, renderer_status, buttonVars, mainpc, reader,
                 heard>>

AacPrimed(d) ==
  /\ DecoderAt(d, "primed")
  /\ GoDecoder(d, IF eof THEN "none" ELSE "frame") \/ GoDecoder(d, "none")
  /\ UNCHANGED <<hasty, playerVars, streamVars, renderer_status, fifo, buttonVars, mainpc,
                 reader, heard>>

(* It looks at the content type once more: if that has become MP4 while it *)
(* starts, it looks for the file's audio first, through more blocks.       *)
AacWalks(d) ==
  /\ DecoderAt(d, "primed") /\ content_type = "mp4" /\ fifo # <<>>
  /\ decoder' = [decoder EXCEPT ![d].block = Head(fifo)]
  /\ fifo' = Tail(fifo)
  /\ UNCHANGED <<hasty, playerVars, streamVars, renderer_status, buttonVars, mainpc, reader,
                 heard>>

(* The loop looks at eof only, and tells nobody it is done.                *)
AacLoop(d) ==
  /\ DecoderAt(d, "loop")
  /\ IF eof
     THEN /\ GoDecoder(d, "none")
          /\ UNCHANGED fifo
     ELSE /\ fifo # <<>>
          /\ decoder' = [decoder EXCEPT ![d] = [pc |-> "frame", block |-> Head(fifo)]]
          /\ fifo' = Tail(fifo)
  /\ UNCHANGED <<hasty, playerVars, streamVars, renderer_status, buttonVars, mainpc,
                 reader, heard>>

AacRender(d) ==
  /\ DecoderAt(d, "frame")
  /\ render_samples(decoder[d].block)
  /\ GoDecoder(d, "loop")
  /\ UNCHANGED <<hasty, playerVars, streamVars, renderer_status, fifo, buttonVars,
                 mainpc, reader>>

(* libfaac_decoder_task walks over the atoms of the file, through as many  *)
(* blocks as there are before the audio.                                   *)
Mp4Walk(d) ==
  /\ decoder[d].pc \in {"atoms", "walk"} /\ fifo # <<>>
  /\ decoder' = [decoder EXCEPT ![d] = [pc |-> "walk", block |-> Head(fifo)]]
  /\ fifo' = Tail(fifo)
  /\ UNCHANGED <<hasty, playerVars, streamVars, renderer_status, buttonVars, mainpc, reader,
                 heard>>

Mp4Opens(d) ==
  /\ DecoderAt(d, "walk")
  /\ GoDecoder(d, "samples")
  /\ UNCHANGED <<hasty, playerVars, streamVars, renderer_status, fifo, buttonVars, mainpc,
                 reader, heard>>

(* Its loop, too, looks at eof only.  With nothing in the FIFO it decodes  *)
(* what its buffer still holds.                                            *)
Mp4Fill(d) ==
  /\ DecoderAt(d, "samples")
  /\ IF eof \/ fifo = <<>>
     THEN /\ GoDecoder(d, IF eof THEN "returned" ELSE "sound")
          /\ UNCHANGED fifo
     ELSE /\ decoder' = [decoder EXCEPT ![d] = [pc |-> "sound", block |-> Head(fifo)]]
          /\ fifo' = Tail(fifo)
  /\ UNCHANGED <<hasty, playerVars, streamVars, renderer_status, buttonVars, mainpc, reader,
                 heard>>

Mp4Render(d) ==
  /\ DecoderAt(d, "sound")
  /\ render_samples(decoder[d].block)
  /\ GoDecoder(d, "samples")
  /\ UNCHANGED <<hasty, playerVars, streamVars, renderer_status, fifo, buttonVars, mainpc,
                 reader>>

(* The demuxer or the codec refuses the file, or a frame cannot be decoded *)
(* (what has run dry included).  The function returns, which the function  *)
(* of a task must not; what FreeRTOS makes of that is not followed: the    *)
(* task does nothing any more, and its memory stays taken.                 *)
Mp4Returns(d) ==
  /\ decoder[d].pc \in {"atoms", "walk", "sound"}
  /\ GoDecoder(d, "returned")
  /\ UNCHANGED <<hasty, playerVars, streamVars, renderer_status, fifo, buttonVars, mainpc,
                 reader, heard>>

DecoderStep(d) ==
  \/ MadInput(d) \/ MadFill(d) \/ MadStarved(d) \/ MadFrames(d) \/ MadRender(d)
  \/ MadReset(d) \/ MadStopped(d) \/ MadClear(d)
  \/ AacOpen(d) \/ AacPrimed(d) \/ AacWalks(d) \/ AacLoop(d) \/ AacRender(d)
  \/ Mp4Walk(d) \/ Mp4Opens(d) \/ Mp4Fill(d) \/ Mp4Render(d) \/ Mp4Returns(d)

-----------------------------------------------------------------------------
Next ==
  \/ StartRadio
  \/ Press \/ HastyPress
  \/ ButtonStep
  \/ \E r \in Readers : ReaderProgress(r) \/ ReaderTrouble(r)
  \/ \E d \in Decoders : DecoderStep(d)

Spec == Init /\ [][Next]_vars

(* The scheduler runs every task, and servers answer and keep sending.     *)
(* Nobody has to press the button, and no stream has to end or fail.       *)
Fairness ==
  /\ SF_vars(StartRadio)
  /\ SF_vars(ButtonStep)
  /\ \A r \in Readers : WF_vars(ReaderProgress(r))
  /\ \A d \in Decoders : WF_vars(DecoderStep(d))

FairSpec == Spec /\ Fairness

-----------------------------------------------------------------------------
(* Properties                                                              *)

ReaderPc == {"none", "spawned", "connect", "eof", "start", "body", "check", "acknowledge",
             "write", "level", "decide", "create", "mark", "deaf"}
DecoderPc == {"none", "input", "fill", "starved", "frames", "render", "abort",
              "stopped", "clear", "open", "primed", "loop", "frame",
              "atoms", "walk", "samples", "sound", "returned"}

TypeOK ==
  /\ command \in {"NONE", "STOP"} /\ decoder_command \in {"NONE", "STOP"}
  /\ decoder_status \in {"UNINITIALIZED", "RUNNING", "STOPPED"}
  /\ content_type \in {"none", "mpeg", "mp4", "aac"} /\ eof \in BOOLEAN
  /\ renderer_status \in {"INITIALIZED", "RUNNING", "STOPPED"}
  /\ curr_track \in Track
  /\ fifo \in Seq(Track) /\ Len(fifo) <= Cap
  /\ events \in 0..QueueLength
  /\ mainpc \in {"start", "done"}
  /\ hpc \in {"receive", "command", "next", "wait", "restart"}
  /\ reader \in [Readers -> [pc : ReaderPc, track : Track, last : BOOLEAN, level : 0..Cap]]
  /\ decoder \in [Decoders -> [pc : DecoderPc, block : Track]]
  /\ heard \in Track \cup {Silence} /\ hasty \in 0..MaxHasty

Streaming(r) == reader[r].pc \notin {"none", "spawned", "connect", "eof", "start", "deaf"}
Draining(d) == decoder[d].pc \notin {"none", "clear"}

(* No press so far that did not wait for the sound.                        *)
patient == hasty = 0

(* One HTTP task at a time feeds the FIFO, for a patient listener.         *)
OneWriter == patient => \A r, q \in Readers : Streaming(r) /\ Streaming(q) => r = q

(* One decoder task at a time drains it, for a patient listener: two HTTP  *)
(* tasks that feed the FIFO together may each start a decoder.  One that   *)
(* has returned counts: nothing may be started after it.                   *)
OneDecoder == patient => \A d, e \in Decoders : Draining(d) /\ Draining(e) => d = e

(* Nothing but the selected track ever comes out of the speaker: no block  *)
(* of an earlier track survives in the FIFO or in a decoder.               *)
OnlySelectedTrack ==
  [][patient /\ heard' # heard => heard' \in {curr_track, Silence}]_vars

(* The decoder empties the FIFO at its end only while no HTTP task is in   *)
(* spiRamFifoWrite, whose chunk size was computed from the old position.   *)
ResetWhileNobodyWrites ==
  [][patient /\ (\E d \in Decoders : MadReset(d)) =>
       \A r \in Readers : ~ReaderAt(r, "write")]_vars

(* The selected track is eventually heard, at boot and after every press.  *)
SelectedTrackPlays == []<>Audible

(* What the repository says the radio does, and it does not always do.     *)

(* web_radio.c, line 206: "reader task terminates itself"                  *)
ReaderTerminates == \A r \in Readers : ReaderAt(r, "deaf") ~> ReaderAt(r, "none")

(* README.md, line 62: "You can advance to the next track in the playlist  *)
(* using the "Boot" button".  A track is advanced to when it can be heard, *)
(* unless its own server ends it.                                          *)
NextTrackPlays ==
  \A t \in Track \ EndingTracks : (hpc = "wait" /\ curr_track = t) ~> heard = t

(* The same line: after a press the button works again.                    *)
ButtonAnswers == hpc = "wait" ~> hpc = "receive"

(* mp3_decoder.c, line 68: "EOF reached, stop decoder when all frames have *)
(* been consumed".                                                         *)
AllFramesConsumed ==
  [][\A d \in Decoders : MadReset(d) /\ decoder_command # "STOP" => fifo = <<>>]_vars

(* audio_player.c, line 78: "Writes bytes into the FIFO queue, starts      *)
(* decoder task if necessary."                                             *)
BufferedStreamIsDecoded == (eof /\ fifo # <<>>) ~> fifo = <<>>
=============================================================================
