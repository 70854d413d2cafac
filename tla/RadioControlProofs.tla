--------------------------- MODULE RadioControlProofs ---------------------------
(***************************************************************************)
(* The tasks of the radio, for any number of tracks, formats, HTTP tasks   *)
(* and decoders, whatever ends or fails: one HTTP task feeds the FIFO, one *)
(* decoder drains it, and nothing but the selected track is heard.         *)
(***************************************************************************)
EXTENDS RadioControl, SequenceTheorems, TLAPS

-----------------------------------------------------------------------------
(* Types                                                                   *)

ReaderRecord == [pc : ReaderPc, track : Track, last : BOOLEAN, level : 0..Cap]
DecoderRecord == [pc : DecoderPc, block : Track]

LEMMA InitTyped == Init => TypeOK
<1> SUFFICES ASSUME Init PROVE TypeOK
  OBVIOUS
<1>1. 0 \in Track /\ 0 \in 0..Cap
  BY WorldAssumption DEF Track
<1>2. fifo \in Seq(Track) /\ Len(fifo) <= Cap
  BY WorldAssumption DEF Init
<1>3. reader \in [Readers -> ReaderRecord]
  BY <1>1 DEF Init, ReaderPc, ReaderRecord
<1>4. decoder \in [Decoders -> DecoderRecord]
  BY <1>1 DEF Init, DecoderPc, DecoderRecord
<1>5. events \in 0..QueueLength /\ hasty \in 0..MaxHasty /\ curr_track \in Track
  BY <1>1, WorldAssumption DEF Init, QueueLength
<1> QED
  BY <1>2, <1>3, <1>4, <1>5 DEF Init, TypeOK, Silence, ReaderRecord, DecoderRecord

LEMMA SpawnTyped ==
  ASSUME TypeOK, web_radio_start
  PROVE  reader' \in [Readers -> ReaderRecord]
  BY DEF TypeOK, web_radio_start, GoReader, ReaderPc, ReaderRecord

LEMMA ButtonTyped ==
  ASSUME TypeOK, StartRadio \/ Press \/ HastyPress \/ ButtonStep
  PROVE  TypeOK'
<1>1. CASE StartRadio
  BY <1>1, SpawnTyped DEF ReaderRecord, StartRadio, TypeOK, playerVars, streamVars, buttonVars
<1>2. CASE Press
  BY <1>2 DEF Press, gpio_isr_handler, TypeOK, playerVars, streamVars, QueueLength
<1>3. CASE HastyPress
  BY <1>3, WorldAssumption DEF HastyPress, gpio_isr_handler, TypeOK, playerVars, streamVars, QueueLength
<1>4. CASE ButtonReceive
  BY <1>4 DEF ButtonReceive, TypeOK, playerVars, streamVars, QueueLength
<1>5. CASE ButtonCommand
  BY <1>5 DEF ButtonCommand, TypeOK, streamVars
<1>6. CASE ButtonNext
  <2>1. curr_track' \in Track
    BY <1>6, WorldAssumption DEF ButtonNext, TypeOK, Track
  <2> QED BY <1>6, <2>1 DEF ButtonNext, TypeOK, playerVars, streamVars
<1>7. CASE ButtonWait
  BY <1>7 DEF ButtonWait, TypeOK, playerVars, streamVars
<1>8. CASE ButtonRestart
  BY <1>8, SpawnTyped DEF ReaderRecord, ButtonRestart, TypeOK, playerVars, streamVars
<1> QED BY <1>1, <1>2, <1>3, <1>4, <1>5, <1>6, <1>7, <1>8 DEF ButtonStep

LEMMA GoReaderTyped ==
  ASSUME TypeOK, NEW r \in Readers, NEW pc \in ReaderPc, GoReader(r, pc)
  PROVE  reader' \in [Readers -> ReaderRecord]
  BY DEF TypeOK, GoReader, ReaderRecord

LEMMA GoDecoderTyped ==
  ASSUME TypeOK, NEW d \in Decoders, NEW pc \in DecoderPc, GoDecoder(d, pc)
  PROVE  decoder' \in [Decoders -> DecoderRecord]
  BY DEF TypeOK, GoDecoder, DecoderRecord

LEMMA ReaderTyped ==
  ASSUME TypeOK, NEW r \in Readers, ReaderProgress(r) \/ ReaderTrouble(r)
  PROVE  TypeOK'
<1> USE DEF TypeOK, playerVars, streamVars, buttonVars
<1>1. ReaderPc = {"none", "spawned", "connect", "eof", "start", "body", "check", "acknowledge",
                  "write", "level", "decide", "create", "mark", "deaf"}
  BY DEF ReaderPc
<1>2. afterFailure(r) \in ReaderPc /\ afterConsumer(r) \in ReaderPc
  BY <1>1 DEF afterFailure, afterConsumer
<1>3. Len(fifo) \in 0..Cap
  BY WorldAssumption
<1>4. reader' \in [Readers -> ReaderRecord]
  <2>1. CASE ReaderRun(r)
    BY <1>1, <2>1 DEF ReaderRun, ReaderRecord
  <2>2. CASE ReaderData(r)
    BY <1>1, <2>2 DEF ReaderData, ReaderRecord
  <2>3. CASE ReaderError(r)
    BY <1>1, <2>3 DEF ReaderError, ReaderRecord
  <2>4. CASE ConsumerLevel(r)
    BY <1>1, <1>3, <2>4 DEF ConsumerLevel, ReaderRecord
  <2>5. CASE \E pc \in ReaderPc : GoReader(r, pc)
    BY <2>5, GoReaderTyped
  <2>6. ReaderHangup(r) \/ ReaderFails(r) \/ ReaderEnd(r)
        \/ HeadersComplete(r) \/ ClearEof(r) \/ audio_player_start(r)
        => \E pc \in ReaderPc : GoReader(r, pc)
    BY <1>1
    DEF ReaderHangup, ReaderFails, ReaderEnd, HeadersComplete, ClearEof, audio_player_start
  <2>7. ConsumerStops(r) \/ ConsumerAcknowledges(r) \/ ConsumerGoesOn(r) \/ ConsumerWrites(r)
        => \E pc \in ReaderPc : GoReader(r, pc)
    BY <1>1, <1>2 DEF ConsumerStops, ConsumerAcknowledges, ConsumerGoesOn, ConsumerWrites
  <2>8. ConsumerDecides(r) \/ ConsumerCannotCreate(r) \/ ConsumerMarks(r) \/ ConsumerCreates(r)
        => \E pc \in ReaderPc : GoReader(r, pc)
    BY <1>1, <1>2 DEF ConsumerDecides, ConsumerCannotCreate, ConsumerMarks, ConsumerCreates
  <2> QED
    BY <2>1, <2>2, <2>3, <2>4, <2>5, <2>6, <2>7, <2>8 DEF ReaderProgress, ReaderTrouble
<1> USE <1>4 DEF ReaderRecord
<1>5. CASE ReaderRun(r) \/ ReaderData(r) \/ ReaderHangup(r) \/ ReaderFails(r) \/ ReaderError(r)
  BY <1>5 DEF ReaderRun, ReaderData, ReaderHangup, ReaderFails, ReaderError
<1>6. CASE HeadersComplete(r)
  <2>1. content_type' \in {"none", "mpeg", "mp4", "aac"}
    BY <1>6, WorldAssumption DEF HeadersComplete, Track
  <2> QED BY <1>6, <2>1 DEF HeadersComplete
<1>7. CASE ClearEof(r) \/ audio_player_start(r) \/ ReaderEnd(r)
  BY <1>7 DEF ClearEof, audio_player_start, ReaderEnd
<1>8. CASE ConsumerStops(r) \/ ConsumerAcknowledges(r) \/ ConsumerGoesOn(r)
  BY <1>8 DEF ConsumerStops, ConsumerAcknowledges, ConsumerGoesOn
<1>9. CASE ConsumerWrites(r)
  <2>1. fifo' \in Seq(Track) /\ Len(fifo') <= Cap
    BY <1>9, WorldAssumption DEF ConsumerWrites
  <2> QED BY <1>9, <2>1 DEF ConsumerWrites
<1>10. CASE ConsumerLevel(r) \/ ConsumerDecides(r) \/ ConsumerCannotCreate(r) \/ ConsumerMarks(r)
  BY <1>10 DEF ConsumerLevel, ConsumerDecides, ConsumerCannotCreate, ConsumerMarks
<1>11. CASE ConsumerCreates(r)
  <2>1. \E d \in Decoders, pc \in DecoderPc : GoDecoder(d, pc)
    BY <1>11 DEF ConsumerCreates, task_func, DecoderPc
  <2>2. decoder' \in [Decoders -> DecoderRecord]
    BY <2>1, GoDecoderTyped
  <2> QED BY <1>11, <2>2 DEF ConsumerCreates, DecoderRecord
<1> QED
  BY <1>5, <1>6, <1>7, <1>8, <1>9, <1>10, <1>11 DEF ReaderProgress, ReaderTrouble

LEMMA TakesBlock ==
  ASSUME TypeOK, fifo # <<>>
  PROVE  /\ Head(fifo) \in Track /\ Head(fifo) = fifo[1]
         /\ Tail(fifo) \in Seq(Track) /\ Len(Tail(fifo)) = Len(fifo) - 1
         /\ \A i \in 1..Len(Tail(fifo)) : Tail(fifo)[i] = fifo[i + 1]
         /\ Len(fifo) \in Nat \ {0}
  BY HeadTailProperties, EmptySeq DEF TypeOK

LEMMA DecoderTyped ==
  ASSUME TypeOK, NEW d \in Decoders, DecoderStep(d)
  PROVE  TypeOK'
<1> USE DEF TypeOK, playerVars, streamVars, buttonVars
<1>1. DecoderPc = {"none", "input", "fill", "starved", "frames", "render", "abort",
                   "stopped", "clear", "open", "primed", "loop", "frame",
                   "atoms", "walk", "samples", "sound", "returned"}
  BY DEF DecoderPc
<1>2. CASE MadInput(d) \/ MadStarved(d) \/ MadFrames(d) \/ MadStopped(d) \/ MadClear(d)
           \/ AacPrimed(d) \/ Mp4Opens(d) \/ Mp4Returns(d)
  <2>1. \E pc \in DecoderPc : GoDecoder(d, pc)
    BY <1>1, <1>2
    DEF MadInput, MadStarved, MadFrames, MadStopped, MadClear, AacPrimed, Mp4Opens, Mp4Returns
  <2>2. decoder' \in [Decoders -> DecoderRecord]
    BY <2>1, GoDecoderTyped
  <2> QED
    BY <1>2, <2>2
    DEF MadInput, MadStarved, MadFrames, MadStopped, MadClear, AacPrimed, Mp4Opens, Mp4Returns,
        DecoderRecord
<1>3. CASE MadFill(d) \/ AacOpen(d) \/ AacLoop(d) \/ Mp4Walk(d) \/ Mp4Fill(d)
  <2>1. CASE fifo' = fifo /\ \E pc \in DecoderPc : GoDecoder(d, pc)
    <3>1. decoder' \in [Decoders -> DecoderRecord]
      BY <2>1, GoDecoderTyped
    <3> QED BY <1>3, <2>1, <3>1 DEF MadFill, AacOpen, AacLoop, Mp4Walk, Mp4Fill, DecoderRecord
  <2>2. CASE /\ fifo # <<>> /\ fifo' = Tail(fifo)
             /\ \E pc \in DecoderPc :
                  decoder' = [decoder EXCEPT ![d] = [pc |-> pc, block |-> Head(fifo)]]
    <3>1. Head(fifo) \in Track /\ fifo' \in Seq(Track) /\ Len(fifo') <= Cap
      BY <2>2, TakesBlock, WorldAssumption
    <3>2. decoder' \in [Decoders -> DecoderRecord]
      BY <2>2, <3>1 DEF DecoderRecord
    <3> QED BY <1>3, <3>1, <3>2 DEF MadFill, AacOpen, AacLoop, Mp4Walk, Mp4Fill, DecoderRecord
  <2> QED BY <1>1, <1>3, <2>1, <2>2 DEF MadFill, AacOpen, AacLoop, Mp4Walk, Mp4Fill
<1>4. CASE MadRender(d) \/ AacRender(d) \/ Mp4Render(d)
  <2>1. \E pc \in DecoderPc : GoDecoder(d, pc)
    BY <1>1, <1>4 DEF MadRender, AacRender, Mp4Render
  <2>2. decoder' \in [Decoders -> DecoderRecord]
    BY <2>1, GoDecoderTyped
  <2> QED BY <1>4, <2>2 DEF MadRender, AacRender, Mp4Render, render_samples, DecoderRecord
<1>5. CASE MadReset(d)
  <2>1. \E pc \in DecoderPc : GoDecoder(d, pc)
    BY <1>1, <1>5 DEF MadReset
  <2>2. decoder' \in [Decoders -> DecoderRecord]
    BY <2>1, GoDecoderTyped
  <2>3. fifo' \in Seq(Track) /\ Len(fifo') <= Cap
    BY <1>5, WorldAssumption DEF MadReset
  <2> QED BY <1>5, <2>2, <2>3 DEF MadReset, DecoderRecord
<1>6. CASE AacWalks(d)
  <2>1. Head(fifo) \in Track /\ fifo' \in Seq(Track) /\ Len(fifo') <= Cap
    BY <1>6, TakesBlock, WorldAssumption DEF AacWalks
  <2>2. decoder' \in [Decoders -> DecoderRecord]
    BY <1>6, <2>1 DEF AacWalks, DecoderRecord
  <2> QED BY <1>6, <2>1, <2>2 DEF AacWalks, DecoderRecord
<1> QED BY <1>2, <1>3, <1>4, <1>5, <1>6 DEF DecoderStep

LEMMA StutterTyped == TypeOK /\ UNCHANGED vars => TypeOK'
  BY DEF TypeOK, vars, playerVars, streamVars, buttonVars

LEMMA NextTyped == TypeOK /\ [Next]_vars => TypeOK'
  BY ButtonTyped, ReaderTyped, DecoderTyped, StutterTyped DEF Next

(* Whatever the tasks do and however often the button is pressed, what     *)
(* they share stays in its ranges.                                         *)
THEOREM RadioTypeCorrect == Spec => []TypeOK
  BY InitTyped, NextTyped, PTL DEF Spec

-----------------------------------------------------------------------------
(* The invariant, for a patient listener                                   *)

Active(r) == reader[r].pc \notin {"none", "deaf"}
Starting(r) == reader[r].pc \in {"spawned", "connect", "eof", "start"}
Feeding(r) == Streaming(r) /\ ~ReaderAt(r, "acknowledge")
Mad(d) == decoder[d].pc \in {"input", "fill", "starved", "frames", "render"}
Leaving(d) == decoder[d].pc \in {"abort", "stopped"}
Opening(d) == decoder[d].pc \in {"open", "primed"}
Holding(d) ==
  decoder[d].pc \in {"frames", "render", "primed", "frame", "walk", "samples", "sound"}

(* The selected track has been heard, or a press followed that.            *)
Started == heard # Silence \/ events > 0 \/ hpc \in {"command", "next", "wait"}

Marking == \E r \in Readers : ReaderAt(r, "mark")
Acknowledged == \A r \in Readers : Active(r) => ReaderAt(r, "acknowledge")
NobodyDrains == \A d \in Decoders : ~Draining(d)

Presses ==
  /\ events <= 1 /\ (events = 1 => hpc = "receive")
  /\ hpc # "receive" => heard = Silence /\ renderer_status = "STOPPED"
  /\ mainpc = "start" => hpc = "receive"

OneReader == \A r, q \in Readers : Active(r) /\ Active(q) => r = q

(* Nothing is left of the track before when an HTTP task is started, and   *)
(* nothing happens until it has its answer.                                *)
Fresh ==
  /\ NobodyDrains
  /\ fifo = <<>> /\ decoder_status # "RUNNING" /\ heard = Silence /\ events = 0

Restarts ==
  /\ mainpc = "start" \/ hpc = "restart" => Fresh /\ \A r \in Readers : ~Active(r)
  /\ \A r \in Readers : Starting(r) =>
       /\ Fresh /\ hpc = "receive"
       /\ ~ReaderAt(r, "spawned") => reader[r].track = curr_track
       /\ ReaderAt(r, "start") => ~eof

(* A stop is not passed on to a decoder that has been heard before its     *)
(* HTTP task has taken notice; to a decoder that has not, an old one may.  *)
Feeds ==
  \A r \in Readers :
    /\ Streaming(r) => ~eof
    /\ ReaderAt(r, "create") => decoder_status # "RUNNING"
    /\ \A d \in Decoders : Feeding(r) /\ ((Started /\ Mad(d)) \/ DecoderAt(d, "render")) =>
         decoder_command = "NONE"

OneDrains == \A d, e \in Decoders : Draining(d) /\ Draining(e) => d = e

Drains ==
  \A d \in Decoders :
    /\ Draining(d) => decoder_status = "RUNNING" \/ Marking
    /\ Leaving(d) /\ Started => Acknowledged
    /\ DecoderAt(d, "stopped") /\ Started => fifo = <<>>
    /\ Opening(d) => ~Started

(* What the button task may conclude when the decoder's status says so.    *)
Stops ==
  Started => \/ decoder_status = "RUNNING" \/ Marking
             \/ NobodyDrains /\ Acknowledged /\ fifo = <<>>

Selected ==
  renderer_status # "STOPPED" =>
    /\ \A r \in Readers : Streaming(r) => reader[r].track = curr_track
    /\ \A i \in 1..Len(fifo) : fifo[i] = curr_track
    /\ \A d \in Decoders : Holding(d) => decoder[d].block = curr_track

Control ==
  Presses /\ OneReader /\ Restarts /\ Feeds /\ OneDrains /\ Drains /\ Stops /\ Selected

RadioInv == TypeOK /\ (patient => Control)

LEMMA InitRadioInv == Init => RadioInv
<1> SUFFICES ASSUME Init PROVE RadioInv
  OBVIOUS
<1> USE DEF Init
<1>1. /\ \A r \in Readers : ~Active(r) /\ ~Starting(r) /\ ~Streaming(r) /\ ~Feeding(r)
                            /\ ~ReaderAt(r, "create")
      /\ \A d \in Decoders : /\ ~Draining(d) /\ ~Leaving(d) /\ ~DecoderAt(d, "stopped")
                             /\ ~Opening(d) /\ ~Holding(d)
      /\ ~Started /\ Len(fifo) = 0
  BY DEF Active, Starting, Streaming, Feeding, ReaderAt, Draining, Leaving, DecoderAt, Opening,
         Holding, Started, Silence
<1>2. Presses /\ OneReader /\ Restarts
  BY <1>1 DEF Presses, OneReader, Restarts, Fresh, NobodyDrains
<1>3. Feeds /\ OneDrains /\ Drains /\ Stops /\ Selected
  BY <1>1 DEF Feeds, OneDrains, Drains, Stops, Selected
<1> QED BY <1>2, <1>3, InitTyped DEF RadioInv, Control

-----------------------------------------------------------------------------
(* Steps of a kind                                                         *)

(* An HTTP task that goes on: it tells nobody, and touches nothing but its *)
(* own record and what it knows of the stream.                             *)
LEMMA ReaderGoesOn ==
  ASSUME TypeOK, Control, NEW r \in Readers,
         \A q \in Readers : q # r => reader'[q] = reader[q],
         UNCHANGED <<playerVars, renderer_status, fifo, buttonVars, mainpc, decoder, heard>>,
         eof' => eof,
         reader[r].pc \notin {"acknowledge", "mark"},
         reader'[r].pc \notin {"acknowledge", "mark"},
         Active(r)' => Active(r),
         Starting(r)' => Starting(r) /\ reader'[r].track = curr_track,
         ReaderAt(r, "start")' => ~eof',
         Streaming(r)' => Streaming(r) /\ reader'[r].track = reader[r].track,
         ReaderAt(r, "create")' => decoder_status # "RUNNING"
  PROVE  Control'
<1>1. /\ \A q \in Readers : /\ Active(q)' => Active(q)
                            /\ Starting(q)' => Starting(q)
                            /\ Streaming(q)' => Streaming(q) /\ reader'[q].track = reader[q].track
                            /\ Feeding(q)' => Feeding(q)
      /\ Started' = Started /\ NobodyDrains' = NobodyDrains
      /\ \A d \in Decoders : /\ Mad(d)' = Mad(d) /\ Draining(d)' = Draining(d)
                             /\ Leaving(d)' = Leaving(d) /\ Holding(d)' = Holding(d)
                             /\ Opening(d)' = Opening(d)
  BY DEF Active, Starting, Streaming, Feeding, ReaderAt, Started, NobodyDrains, Mad, Draining,
         Leaving, Opening, Holding, buttonVars
<1>2. Marking' = Marking
  BY DEF Marking, ReaderAt
<1>3. Acknowledged => Acknowledged'
  BY <1>1 DEF Acknowledged, ReaderAt, Active
<1>4. Presses' /\ OneReader'
  BY <1>1 DEF Control, Presses, OneReader, buttonVars
<1>5. Restarts'
  BY <1>1 DEF Control, Restarts, Fresh, ReaderAt, Starting, playerVars, buttonVars
<1>6. Feeds'
  BY <1>1 DEF Control, Feeds, ReaderAt, DecoderAt, playerVars
<1>7. OneDrains' /\ Drains'
  BY <1>1, <1>2, <1>3 DEF Control, OneDrains, Drains, DecoderAt, playerVars
<1>8. Stops' /\ Selected'
  BY <1>1, <1>2, <1>3 DEF Control, Stops, Selected, playerVars, buttonVars
<1> QED BY <1>4, <1>5, <1>6, <1>7, <1>8 DEF Control

(* A decoder that goes on, with the next block of the FIFO or without.     *)
LEMMA DecoderGoesOn ==
  ASSUME TypeOK, Control, NEW d \in Decoders,
         \A e \in Decoders : e # d => decoder'[e] = decoder[e],
         UNCHANGED <<playerVars, streamVars, renderer_status, buttonVars, mainpc, reader, heard>>,
         fifo' = fifo \/ (fifo # <<>> /\ fifo' = Tail(fifo)),
         Draining(d), ~DecoderAt(d, "stopped")', Mad(d)' => Mad(d), Opening(d)' => Opening(d),
         DecoderAt(d, "render")' => decoder_command = "NONE",
         Leaving(d)' => (decoder_command = "STOP" /\ Mad(d)) \/ eof \/ Leaving(d),
         Holding(d)' => \/ Holding(d) /\ decoder'[d].block = decoder[d].block
                        \/ fifo # <<>> /\ decoder'[d].block = fifo[1]
  PROVE  Control'
<1>1. /\ \A e \in Decoders : /\ Draining(e)' => Draining(e)
                             /\ Mad(e)' => Mad(e)
                             /\ Opening(e)' => Opening(e)
                             /\ e # d => /\ Leaving(e)' = Leaving(e) /\ Holding(e)' = Holding(e)
                                         /\ DecoderAt(e, "stopped")' = DecoderAt(e, "stopped")
                                         /\ DecoderAt(e, "render")' = DecoderAt(e, "render")
      /\ Started' = Started /\ Acknowledged' = Acknowledged /\ Marking' = Marking
      /\ \A r \in Readers : /\ Active(r)' = Active(r) /\ Starting(r)' = Starting(r)
                            /\ Streaming(r)' = Streaming(r) /\ Feeding(r)' = Feeding(r)
  BY DEF Draining, Mad, Leaving, Opening, Holding, DecoderAt, Started, Acknowledged, Marking,
         ReaderAt, Active, Starting, Streaming, Feeding, buttonVars
<1>2. \A r \in Readers : ~Starting(r)
  BY DEF Control, Restarts, Fresh, NobodyDrains
<1>3. ~(mainpc = "start" \/ hpc = "restart")
  BY DEF Control, Restarts, Fresh, NobodyDrains
<1>4. fifo = <<>> => fifo' = <<>>
  OBVIOUS
<1>5. NobodyDrains => NobodyDrains'
  BY <1>1 DEF NobodyDrains
<1>6. Presses' /\ OneReader' /\ Restarts'
  BY <1>1, <1>2, <1>3 DEF Control, Presses, OneReader, Restarts, buttonVars
<1>7. Feeds'
  BY <1>1 DEF Control, Feeds, ReaderAt, playerVars, streamVars
<1>8. OneDrains'
  BY <1>1 DEF Control, OneDrains
<1>9. Leaving(d)' /\ Started => Acknowledged
  <2>1. CASE decoder_command = "STOP" /\ Mad(d) /\ Started
    <3>1. \A r \in Readers : ~Feeding(r)
      BY <2>1 DEF Control, Feeds
    <3> QED BY <1>2, <3>1 DEF Acknowledged, Active, Feeding, Streaming, Starting, ReaderAt
  <2>2. CASE eof
    <3>1. \A r \in Readers : ~Streaming(r)
      BY <2>2 DEF Control, Feeds
    <3> QED BY <1>2, <3>1 DEF Acknowledged, Active, Streaming, Starting, ReaderAt
  <2>3. CASE Leaving(d) /\ Started
    BY <2>3 DEF Control, Drains
  <2> QED BY <2>1, <2>2, <2>3
<1>10. Drains'
  BY <1>1, <1>4, <1>9 DEF Control, Drains, playerVars
<1>11. Stops'
  BY <1>1, <1>4, <1>5 DEF Control, Stops, playerVars
<1>12. Selected'
  <2> SUFFICES ASSUME renderer_status # "STOPPED" PROVE Selected'
    BY DEF Selected
  <2>1. fifo # <<>> => fifo[1] = curr_track
    BY TakesBlock DEF Control, Selected
  <2>2. \A i \in 1..Len(fifo') : fifo'[i] = curr_track
    BY TakesBlock DEF Control, Selected
  <2>3. \A e \in Decoders : Holding(e)' => decoder'[e].block = curr_track
    BY <1>1, <2>1 DEF Control, Selected
  <2> QED BY <1>1, <2>2, <2>3 DEF Control, Selected, buttonVars
<1> QED BY <1>6, <1>7, <1>8, <1>10, <1>11, <1>12 DEF Control

-----------------------------------------------------------------------------
(* The button and the start of an HTTP task                                *)

(* web_radio_start, when nobody feeds and nothing is left.                 *)
LEMMA SpawnsReader ==
  ASSUME TypeOK, Control, web_radio_start, mainpc = "start" \/ hpc = "restart",
         UNCHANGED <<playerVars, streamVars, renderer_status, fifo, events, curr_track,
                     decoder, heard>>,
         hpc' = "receive", mainpc' \in {mainpc, "done"},
         mainpc = "start" => mainpc' = "done"
  PROVE  Control'
<1>1. Fresh /\ (\A r \in Readers : ~Active(r)) /\ ~Started
  BY DEF Control, Restarts, Fresh, Presses, Started
<1>2. Fresh' /\ ~Started'
  BY <1>1 DEF Fresh, Started, NobodyDrains, Draining, playerVars
<1>3. \A r \in Readers : reader'[r].pc \in {"none", "deaf", "spawned"}
  BY <1>1 DEF web_radio_start, GoReader, TypeOK, Active
<1>4. OneReader'
  BY <1>1 DEF OneReader, Active, web_radio_start, GoReader, TypeOK
<1>5. ~Marking' /\ \A d \in Decoders :
                      ~Draining(d)' /\ ~Leaving(d)' /\ ~Opening(d)' /\ ~Holding(d)'
  BY <1>2, <1>3
  DEF Marking, ReaderAt, Fresh, NobodyDrains, Draining, Leaving, Opening, Holding
<1>6. \A r \in Readers : ~Streaming(r)' /\ ~Feeding(r)' /\ ~ReaderAt(r, "create")'
                          /\ ~ReaderAt(r, "start")' /\ (Starting(r)' => ReaderAt(r, "spawned")')
  BY <1>3 DEF Streaming, Feeding, Starting, ReaderAt
<1>7. mainpc' # "start"
  BY DEF Control, Presses, TypeOK
<1>8. Presses' /\ Restarts'
  BY <1>2, <1>6, <1>7 DEF Control, Presses, Restarts
<1>9. Feeds' /\ OneDrains' /\ Drains' /\ Stops'
  BY <1>2, <1>5, <1>6 DEF Feeds, OneDrains, Drains, Stops, DecoderAt, Leaving, Draining
<1>10. Selected'
  BY <1>2, <1>5, <1>6 DEF Selected, Fresh
<1> QED BY <1>4, <1>8, <1>9, <1>10 DEF Control

LEMMA ButtonInv ==
  ASSUME TypeOK, Control, StartRadio \/ Press \/ ButtonStep
  PROVE  Control'
<1>1. CASE StartRadio
  BY <1>1, SpawnsReader DEF StartRadio, buttonVars, Control, Presses
<1>2. CASE ButtonRestart
  BY <1>2, SpawnsReader DEF ButtonRestart, Control, Presses, Restarts
<1> USE DEF Active, Starting, Feeding, Streaming, Mad, Leaving, Draining, Opening, Holding,
            DecoderAt, ReaderAt, Marking, Acknowledged, NobodyDrains, Fresh, playerVars, streamVars
<1>3. CASE Press
  <2>1. /\ heard # Silence /\ events = 0 /\ events' = 1 /\ hpc = "receive"
        /\ UNCHANGED <<playerVars, streamVars, renderer_status, fifo, hpc, curr_track,
                       mainpc, reader, decoder, heard>>
    BY <1>3 DEF Press, Audible, gpio_isr_handler, QueueLength, TypeOK, Track, Silence
  <2>2. Started /\ Started'
    BY <2>1 DEF Started
  <2>3. ~(mainpc = "start" \/ hpc = "restart") /\ \A r \in Readers : ~Starting(r)
    BY <2>1 DEF Control, Restarts
  <2>4. Presses' /\ OneReader' /\ Restarts'
    BY <2>1, <2>3 DEF Control, Presses, OneReader, Restarts
  <2>5. Feeds' /\ OneDrains' /\ Drains' /\ Stops' /\ Selected'
    BY <2>1, <2>2 DEF Control, Feeds, OneDrains, Drains, Stops, Selected
  <2> QED BY <2>4, <2>5 DEF Control
<1>4. CASE ButtonReceive \/ ButtonCommand \/ ButtonNext
  <2>1. /\ Started /\ Started' /\ hpc \in {"receive", "command", "next"}
        /\ hpc' \in {"command", "next", "wait"} /\ events' = 0
        /\ heard' = Silence /\ renderer_status' = "STOPPED"
        /\ UNCHANGED <<decoder_command, decoder_status, streamVars, fifo, mainpc, reader, decoder>>
    BY <1>4 DEF ButtonReceive, ButtonCommand, ButtonNext, Started, Control, Presses, TypeOK
  <2>2. ~(mainpc = "start" \/ hpc = "restart") /\ \A r \in Readers : ~Starting(r)
    BY <1>4, <2>1 DEF Control, Restarts, Started, ButtonReceive, ButtonCommand, ButtonNext, Presses
  <2>3. Presses' /\ OneReader' /\ Restarts'
    BY <2>1, <2>2 DEF Control, Presses, OneReader, Restarts
  <2>4. Feeds' /\ OneDrains' /\ Drains' /\ Stops' /\ Selected'
    BY <2>1 DEF Control, Feeds, OneDrains, Drains, Stops, Selected
  <2> QED BY <2>3, <2>4 DEF Control
<1>5. CASE ButtonWait
  <2>1. /\ hpc = "wait" /\ hpc' = "restart" /\ decoder_status = "STOPPED" /\ core0IsFree
        /\ UNCHANGED <<playerVars, streamVars, renderer_status, fifo, events, curr_track,
                       mainpc, reader, decoder, heard>>
    BY <1>5 DEF ButtonWait
  <2>2. /\ Started /\ ~Started' /\ events = 0 /\ heard = Silence
        /\ renderer_status = "STOPPED" /\ mainpc # "start"
    BY <2>1 DEF Started, Control, Presses, TypeOK
  <2>3. ~Marking /\ \A r \in Readers : ~ReaderAt(r, "acknowledge")
    BY <2>1 DEF core0IsFree
  <2>4. NobodyDrains /\ fifo = <<>> /\ \A r \in Readers : ~Active(r)
    BY <2>1, <2>2, <2>3 DEF Control, Stops
  <2>5. Presses' /\ OneReader' /\ Restarts'
    BY <2>1, <2>2, <2>4 DEF Control, Presses, OneReader, Restarts
  <2>6. Feeds' /\ OneDrains' /\ Drains' /\ Stops' /\ Selected'
    BY <2>1, <2>2, <2>4 DEF Control, Feeds, OneDrains, Drains, Stops, Selected
  <2> QED BY <2>5, <2>6 DEF Control
<1> QED BY <1>1, <1>2, <1>3, <1>4, <1>5 DEF ButtonStep

-----------------------------------------------------------------------------
(* HTTP tasks                                                              *)

LEMMA ReaderInv ==
  ASSUME TypeOK, Control, NEW r \in Readers, ReaderProgress(r) \/ ReaderTrouble(r)
  PROVE  Control'
<1> USE DEF Active, Starting, Feeding, Streaming, Mad, Leaving, Draining, Opening, Holding,
            DecoderAt, ReaderAt, playerVars, streamVars, buttonVars
<1>1. CASE \/ ReaderRun(r) \/ ReaderFails(r) \/ HeadersComplete(r) \/ ClearEof(r)
           \/ ReaderData(r) \/ ReaderError(r) \/ ReaderHangup(r)
           \/ ConsumerGoesOn(r) \/ ConsumerLevel(r) \/ ConsumerDecides(r) \/ ConsumerCannotCreate(r)
  <2>1. /\ \A q \in Readers : q # r => reader'[q] = reader[q]
        /\ UNCHANGED <<playerVars, renderer_status, fifo, buttonVars, mainpc, decoder, heard>>
        /\ eof' => eof
    BY <1>1
    DEF TypeOK, GoReader, ReaderRun, ReaderFails, HeadersComplete, ClearEof, ReaderData,
        ReaderError, ReaderHangup, ConsumerGoesOn, ConsumerLevel, ConsumerDecides,
        ConsumerCannotCreate
  <2>2. CASE ReaderRun(r) \/ ReaderFails(r) \/ ReaderHangup(r)
    <3>1. /\ reader[r].pc \in {"spawned", "connect", "deaf"}
          /\ \/ reader'[r].pc = "none"
             \/ /\ reader[r].pc = "spawned" /\ reader'[r].pc = "connect"
                /\ reader'[r].track = curr_track
      BY <2>2 DEF TypeOK, GoReader, ReaderRun, ReaderFails, ReaderHangup
    <3> QED BY <2>1, <3>1, ReaderGoesOn
  <2>3. CASE \/ ReaderData(r) \/ ReaderError(r) \/ ConsumerGoesOn(r) \/ ConsumerLevel(r)
             \/ ConsumerDecides(r) \/ ConsumerCannotCreate(r)
    <3>1. /\ reader[r].pc \in {"body", "check", "level", "decide", "create"}
          /\ reader'[r].pc \in {"none", "deaf", "body", "check", "level", "write", "decide", "create"}
          /\ reader'[r].track = reader[r].track
          /\ reader'[r].pc = "create" => decoder_status # "RUNNING"
      BY <2>3
      DEF TypeOK, GoReader, ReaderData, ReaderError, ConsumerGoesOn, ConsumerLevel,
          ConsumerDecides, ConsumerCannotCreate, afterConsumer, afterFailure, wantsDecoder
    <3> QED BY <2>1, <3>1, ReaderGoesOn
  <2>4. CASE HeadersComplete(r) \/ ClearEof(r)
    <3>1. /\ reader[r].pc \in {"connect", "eof"} /\ reader'[r].pc \in {"eof", "start"}
          /\ reader'[r].pc = "start" => ~eof'
          /\ reader'[r].track = reader[r].track
      BY <2>4 DEF TypeOK, GoReader, HeadersComplete, ClearEof
    <3>2. reader[r].track = curr_track
      BY <3>1 DEF Control, Restarts
    <3> QED BY <2>1, <3>1, <3>2, ReaderGoesOn
  <2> QED BY <1>1, <2>2, <2>3, <2>4
<1> USE DEF Marking, Acknowledged, NobodyDrains, Fresh
<1>2. CASE audio_player_start(r)
  <2>1. /\ reader[r].pc = "start" /\ reader'[r].pc = "body"
        /\ reader'[r].track = reader[r].track /\ eof' = eof
        /\ \A q \in Readers : q # r => reader'[q] = reader[q]
        /\ UNCHANGED <<playerVars, fifo, buttonVars, mainpc, decoder, heard>>
    BY <1>2 DEF audio_player_start, GoReader, TypeOK
  <2>2. Fresh /\ hpc = "receive" /\ reader[r].track = curr_track /\ ~Started /\ ~eof
    BY <2>1 DEF Control, Restarts, Started
  <2>3. ~Started' /\ mainpc # "start" /\ \A q \in Readers : q # r => ~Active(q)
    BY <2>1, <2>2 DEF Started, Control, Restarts, OneReader
  <2>4. Presses' /\ OneReader' /\ Restarts'
    BY <2>1, <2>2, <2>3 DEF Control, Presses, OneReader, Restarts
  <2>5. Feeds' /\ OneDrains' /\ Drains' /\ Stops'
    BY <2>1, <2>2, <2>3 DEF Feeds, OneDrains, Drains, Stops
  <2>6. Selected'
    <3>1. \A q \in Readers : Streaming(q)' => reader'[q].track = curr_track'
      BY <2>1, <2>2, <2>3
    <3>2. Len(fifo') = 0 /\ \A d \in Decoders : ~Holding(d)'
      BY <2>1, <2>2
    <3> QED BY <3>1, <3>2 DEF Selected
  <2> QED BY <2>4, <2>5, <2>6 DEF Control
<1>3. CASE ReaderEnd(r)
  <2>1. /\ reader[r].pc = "body" /\ reader'[r].pc = "none"
        /\ \A q \in Readers : q # r => reader'[q] = reader[q]
        /\ UNCHANGED <<playerVars, renderer_status, fifo, buttonVars, mainpc, decoder, heard>>
    BY <1>3 DEF ReaderEnd, GoReader, TypeOK
  <2>2. \A q \in Readers : ~Active(q)'
    BY <2>1 DEF Control, OneReader
  <2>3. Started' = Started /\ mainpc # "start" /\ hpc # "restart"
    BY <2>1 DEF Started, Control, Restarts
  <2>4. Presses' /\ OneReader' /\ Restarts' /\ Feeds'
    BY <2>1, <2>2, <2>3 DEF Control, Presses, OneReader, Restarts, Feeds
  <2>5. OneDrains' /\ Drains' /\ Stops' /\ Selected'
    BY <2>1, <2>2, <2>3 DEF Control, OneDrains, Drains, Stops, Selected
  <2> QED BY <2>4, <2>5 DEF Control
<1>4. CASE ConsumerStops(r)
  <2>1. /\ reader[r].pc = "check" /\ reader'[r].pc = "acknowledge" /\ ~Starting(r)
        /\ reader'[r].track = reader[r].track
        /\ \A q \in Readers : q # r => reader'[q] = reader[q]
        /\ UNCHANGED <<command, decoder_status, streamVars, renderer_status, fifo, buttonVars,
                       mainpc, decoder, heard>>
    BY <1>4 DEF ConsumerStops, GoReader, TypeOK
  <2>2. Acknowledged' /\ \A q \in Readers : ~Feeding(q)'
    BY <2>1 DEF Control, OneReader
  <2>3. Started' = Started /\ mainpc # "start" /\ hpc # "restart"
    BY <2>1 DEF Started, Control, Restarts
  <2>4. Presses' /\ OneReader' /\ Restarts' /\ Feeds'
    BY <2>1, <2>2, <2>3 DEF Control, Presses, OneReader, Restarts, Feeds
  <2>5. OneDrains' /\ Drains' /\ Stops' /\ Selected'
    BY <2>1, <2>2, <2>3 DEF Control, OneReader, OneDrains, Drains, Stops, Selected
  <2> QED BY <2>4, <2>5 DEF Control
<1>5. CASE ConsumerAcknowledges(r)
  <2>1. /\ reader[r].pc = "acknowledge" /\ reader'[r].pc \in {"none", "deaf"}
        /\ \A q \in Readers : q # r => reader'[q] = reader[q]
        /\ UNCHANGED <<decoder_command, decoder_status, streamVars, renderer_status, fifo,
                       buttonVars, mainpc, decoder, heard>>
    BY <1>5 DEF ConsumerAcknowledges, afterFailure, GoReader, TypeOK
  <2>2. \A q \in Readers : ~Active(q)'
    BY <2>1 DEF Control, OneReader
  <2>3. Started' = Started /\ mainpc # "start" /\ hpc # "restart"
    BY <2>1 DEF Started, Control, Restarts
  <2>4. Presses' /\ OneReader' /\ Restarts' /\ Feeds'
    BY <2>1, <2>2, <2>3 DEF Control, Presses, OneReader, Restarts, Feeds
  <2>5. OneDrains' /\ Drains' /\ Stops' /\ Selected'
    BY <2>1, <2>2, <2>3 DEF Control, OneReader, OneDrains, Drains, Stops, Selected
  <2> QED BY <2>4, <2>5 DEF Control
<1>6. CASE ConsumerWrites(r)
  <2>1. /\ reader[r].pc = "write" /\ reader'[r].pc = "level"
        /\ reader'[r].track = reader[r].track
        /\ \A q \in Readers : q # r => reader'[q] = reader[q]
        /\ UNCHANGED <<playerVars, streamVars, renderer_status, buttonVars, mainpc, decoder, heard>>
    BY <1>6 DEF ConsumerWrites, GoReader, TypeOK
  <2>2. /\ Len(fifo') = Len(fifo) + 1 /\ fifo'[Len(fifo')] = reader[r].track
        /\ \A i \in 1..Len(fifo) : fifo'[i] = fifo[i]
    BY <1>6, AppendProperties DEF ConsumerWrites, TypeOK
  <2>3. Started' = Started /\ mainpc # "start" /\ hpc # "restart" /\ ~Acknowledged
        /\ \A q \in Readers : ~Starting(q)'
    BY <2>1 DEF Started, Control, OneReader, Restarts
  <2>4. Presses' /\ OneReader' /\ Restarts' /\ Feeds'
    BY <2>1, <2>3 DEF Control, Presses, OneReader, Restarts, Feeds
  <2>5. OneDrains' /\ Drains' /\ Stops'
    BY <2>1, <2>3 DEF Control, OneReader, OneDrains, Drains, Stops
  <2>6. Selected'
    <3> SUFFICES ASSUME renderer_status # "STOPPED" PROVE Selected'
      BY <2>1 DEF Selected
    <3>1. \A i \in 1..Len(fifo') : fifo'[i] = curr_track
      <4>1. reader[r].track = curr_track /\ \A i \in 1..Len(fifo) : fifo[i] = curr_track
        BY <2>1 DEF Control, Selected
      <4>2. Len(fifo) \in Nat
        BY DEF TypeOK
      <4> QED BY <2>2, <4>1, <4>2
    <3> QED BY <2>1, <3>1 DEF Control, Selected
  <2> QED BY <2>4, <2>5, <2>6 DEF Control
<1>7. CASE ConsumerCreates(r)
  <2>1. PICK d \in Decoders :
          /\ decoder[d].pc = "none" /\ decoder'[d].pc \in {"input", "open", "atoms"}
          /\ \A e \in Decoders : e # d => decoder'[e] = decoder[e]
    BY <1>7 DEF ConsumerCreates, task_func, GoDecoder, TypeOK
  <2>2. /\ reader[r].pc = "create" /\ reader'[r].pc = "mark"
        /\ reader'[r].track = reader[r].track
        /\ \A q \in Readers : q # r => reader'[q] = reader[q]
        /\ UNCHANGED <<playerVars, streamVars, renderer_status, fifo, buttonVars, mainpc, heard>>
    BY <1>7 DEF ConsumerCreates, GoReader, TypeOK
  <2>3. /\ decoder_status # "RUNNING" /\ ~Marking /\ Marking'
        /\ \A q \in Readers : Active(q) \/ Active(q)' => q = r
    BY <2>2 DEF Control, Feeds, OneReader
  <2>4. NobodyDrains
    BY <2>3 DEF Control, Drains
  <2>5. ~Started /\ ~Started'
    <3>1. ~Started
      BY <2>2, <2>3 DEF Control, Stops
    <3> QED BY <2>2, <3>1 DEF Started
  <2>6. mainpc # "start" /\ hpc # "restart" /\ \A q \in Readers : ~Starting(q)'
    BY <2>2, <2>3 DEF Control, Restarts
  <2>7. Presses' /\ OneReader' /\ Restarts'
    BY <2>2, <2>3, <2>6 DEF Control, Presses, OneReader, Restarts
  <2>8. Feeds'
    BY <2>1, <2>2, <2>3, <2>4, <2>5 DEF Control, Feeds
  <2>9. OneDrains' /\ Drains' /\ Stops'
    BY <2>1, <2>3, <2>4, <2>5 DEF OneDrains, Drains, Stops
  <2>10. Selected'
    BY <2>1, <2>2, <2>4 DEF Control, Selected
  <2> QED BY <2>7, <2>8, <2>9, <2>10 DEF Control
<1>8. CASE ConsumerMarks(r)
  <2>1. /\ reader[r].pc = "mark" /\ reader'[r].pc \in {"none", "body"}
        /\ reader'[r].track = reader[r].track /\ decoder_status' = "RUNNING"
        /\ \A q \in Readers : q # r => reader'[q] = reader[q]
        /\ UNCHANGED <<command, decoder_command, streamVars, renderer_status, fifo, buttonVars,
                       mainpc, decoder, heard>>
    BY <1>8 DEF ConsumerMarks, afterConsumer, GoReader, TypeOK
  <2>2. Started' = Started /\ mainpc # "start" /\ hpc # "restart"
        /\ \A q \in Readers : ~Starting(q)' /\ ~ReaderAt(q, "create")'
    BY <2>1 DEF Started, Control, OneReader, Restarts
  <2>3. Started => \A d \in Decoders : ~Leaving(d)
    BY <2>1 DEF Control, Drains
  <2>4. Presses' /\ OneReader' /\ Restarts' /\ Feeds'
    BY <2>1, <2>2 DEF Control, Presses, OneReader, Restarts, Feeds
  <2>5. OneDrains' /\ Drains' /\ Stops' /\ Selected'
    BY <2>1, <2>2, <2>3 DEF Control, OneDrains, Drains, Stops, Selected
  <2> QED BY <2>4, <2>5 DEF Control
<1> QED
  BY <1>1, <1>2, <1>3, <1>4, <1>5, <1>6, <1>7, <1>8 DEF ReaderProgress, ReaderTrouble

-----------------------------------------------------------------------------
(* Decoders                                                                *)

(* What holds while a decoder drains: no HTTP task is about to start.      *)
LEMMA WhileDraining ==
  ASSUME Control, NEW d \in Decoders, Draining(d)
  PROVE  /\ mainpc # "start" /\ hpc # "restart" /\ \A r \in Readers : ~Starting(r)
         /\ \A e \in Decoders : Draining(e) => e = d
         /\ decoder_status = "RUNNING" \/ Marking
  BY DEF Control, Restarts, Fresh, NobodyDrains, OneDrains, Drains

LEMMA DecoderInv ==
  ASSUME TypeOK, Control, NEW d \in Decoders, DecoderStep(d)
  PROVE  Control'
<1> USE DEF Mad, Leaving, Draining, Opening, Holding, DecoderAt, playerVars, streamVars, buttonVars
<1>1. CASE \/ MadInput(d) \/ MadFill(d) \/ MadStarved(d) \/ MadFrames(d)
           \/ AacOpen(d) \/ AacPrimed(d) \/ AacWalks(d) \/ AacLoop(d)
           \/ Mp4Walk(d) \/ Mp4Opens(d) \/ Mp4Fill(d) \/ Mp4Returns(d)
  <2>1. /\ \A e \in Decoders : e # d => decoder'[e] = decoder[e]
        /\ UNCHANGED <<playerVars, streamVars, renderer_status, buttonVars, mainpc, reader, heard>>
    BY <1>1
    DEF TypeOK, GoDecoder, MadInput, MadFill, MadStarved, MadFrames, AacOpen, AacPrimed,
        AacWalks, AacLoop, Mp4Walk, Mp4Opens, Mp4Fill, Mp4Returns
  <2>2. CASE \/ MadInput(d) \/ MadStarved(d) \/ MadFrames(d) \/ AacPrimed(d)
             \/ Mp4Opens(d) \/ Mp4Returns(d)
    <3>1. /\ fifo' = fifo /\ decoder'[d].block = decoder[d].block
          /\ decoder[d].pc \in {"input", "starved", "frames", "primed", "atoms", "walk", "sound"}
          /\ decoder'[d].pc \in {"abort", "fill", "input", "render", "none", "frame", "samples",
                                  "returned"}
          /\ Mad(d)' => Mad(d)
          /\ decoder'[d].pc = "render" => decoder_command = "NONE" /\ Holding(d)
          /\ decoder'[d].pc \in {"frame", "samples"} => Holding(d)
          /\ decoder'[d].pc = "abort" => (decoder_command = "STOP" /\ Mad(d)) \/ eof
      BY <2>2
      DEF TypeOK, GoDecoder, MadInput, MadStarved, MadFrames, AacPrimed, Mp4Opens, Mp4Returns
    <3> QED BY <2>1, <3>1, DecoderGoesOn
  <2>3. CASE MadFill(d) \/ AacOpen(d) \/ AacWalks(d) \/ AacLoop(d) \/ Mp4Walk(d) \/ Mp4Fill(d)
    <3>1. CASE fifo # <<>> /\ fifo' = Tail(fifo)
      <4>1. /\ decoder[d].pc \in {"fill", "open", "primed", "loop", "atoms", "walk", "samples"}
            /\ decoder'[d].pc \in {"frames", "primed", "frame", "walk", "sound"}
            /\ decoder'[d].pc = "frames" => Mad(d)
            /\ decoder'[d].pc = "primed" => Opening(d)
            /\ decoder'[d].block = fifo[1]
        <5>1. fifo # <<>> => Tail(fifo) # fifo
          BY TakesBlock
        <5> QED
          BY <2>3, <3>1, <5>1, TakesBlock
          DEF TypeOK, GoDecoder, MadFill, AacOpen, AacWalks, AacLoop, Mp4Walk, Mp4Fill
      <4> QED BY <2>1, <3>1, <4>1, DecoderGoesOn
    <3>2. CASE fifo' = fifo
      <4>1. /\ decoder[d].pc \in {"fill", "open", "loop", "samples"}
            /\ decoder'[d].pc \in {"starved", "loop", "none", "sound", "returned"}
            /\ decoder'[d].pc = "starved" => Mad(d)
            /\ decoder'[d].pc = "sound" => Holding(d) /\ decoder'[d].block = decoder[d].block
        <5>1. fifo # <<>> => Tail(fifo) # fifo
          BY TakesBlock
        <5> QED
          BY <2>3, <3>2, <5>1
          DEF TypeOK, GoDecoder, MadFill, AacOpen, AacWalks, AacLoop, Mp4Walk, Mp4Fill
      <4> QED BY <2>1, <3>2, <4>1, DecoderGoesOn
    <3> QED BY <2>3, <3>1, <3>2 DEF MadFill, AacOpen, AacWalks, AacLoop, Mp4Walk, Mp4Fill
  <2> QED BY <1>1, <2>2, <2>3
<1> USE DEF Active, Starting, Feeding, Streaming, ReaderAt, Marking, Acknowledged, NobodyDrains,
            Fresh
<1>2. CASE MadRender(d) \/ AacRender(d) \/ Mp4Render(d)
  <2>1. /\ \/ decoder[d].pc = "render" /\ decoder'[d].pc = "input"
           \/ decoder[d].pc = "frame" /\ decoder'[d].pc = "loop"
           \/ decoder[d].pc = "sound" /\ decoder'[d].pc = "samples"
        /\ decoder'[d].block = decoder[d].block
        /\ heard' = IF renderer_status = "STOPPED" THEN heard ELSE decoder[d].block
        /\ \A e \in Decoders : e # d => decoder'[e] = decoder[e]
        /\ UNCHANGED <<playerVars, streamVars, renderer_status, fifo, buttonVars, mainpc, reader>>
    BY <1>2 DEF MadRender, AacRender, Mp4Render, render_samples, GoDecoder, TypeOK
  <2>2. /\ mainpc # "start" /\ hpc # "restart" /\ \A r \in Readers : ~Starting(r)
        /\ \A e \in Decoders : Draining(e) => e = d
        /\ decoder_status = "RUNNING" \/ Marking
    BY <2>1, WhileDraining
  <2>3. Presses' /\ OneReader' /\ Restarts'
    BY <2>1, <2>2 DEF Control, Presses, OneReader, Restarts
  <2>4. Feeds'
    <3>1. \A e \in Decoders : Mad(e)' => DecoderAt(d, "render") /\ e = d /\ ~DecoderAt(e, "render")'
      BY <2>1, <2>2
    <3> QED BY <2>1, <2>2, <3>1 DEF Control, Feeds
  <2>5. OneDrains' /\ Drains' /\ Stops' /\ Selected'
    BY <2>1, <2>2 DEF Control, OneDrains, Drains, Stops, Selected
  <2> QED BY <2>3, <2>4, <2>5 DEF Control
<1>3. CASE MadReset(d)
  <2>1. /\ decoder[d].pc = "abort" /\ decoder'[d].pc = "stopped" /\ fifo' = <<>>
        /\ \A e \in Decoders : e # d => decoder'[e] = decoder[e]
        /\ UNCHANGED <<playerVars, streamVars, renderer_status, buttonVars, mainpc, reader, heard>>
    BY <1>3 DEF MadReset, GoDecoder, TypeOK
  <2>2. Started' = Started /\ Len(fifo') = 0
    BY <2>1 DEF Started
  <2>3. Presses' /\ OneReader' /\ Restarts' /\ Feeds'
    BY <2>1, <2>2, WhileDraining DEF Control, Presses, OneReader, Restarts, Feeds
  <2>4. OneDrains' /\ Drains' /\ Stops' /\ Selected'
    BY <2>1, <2>2 DEF Control, OneDrains, Drains, Stops, Selected
  <2> QED BY <2>3, <2>4 DEF Control
<1>4. CASE MadStopped(d)
  <2>1. /\ decoder[d].pc = "stopped" /\ decoder'[d].pc = "clear" /\ decoder_status' = "STOPPED"
        /\ \A e \in Decoders : e # d => decoder'[e] = decoder[e]
        /\ UNCHANGED <<command, decoder_command, streamVars, renderer_status, fifo, buttonVars,
                       mainpc, reader, heard>>
    BY <1>4 DEF MadStopped, GoDecoder, TypeOK
  <2>2. /\ mainpc # "start" /\ hpc # "restart" /\ (\A r \in Readers : ~Starting(r))
        /\ \A e \in Decoders : Draining(e) => e = d
    BY <2>1, WhileDraining
  <2>3. NobodyDrains' /\ Started' = Started
    BY <2>1, <2>2 DEF Started
  <2>4. Started => Acknowledged /\ fifo = <<>>
    BY <2>1 DEF Control, Drains
  <2>5. Presses' /\ OneReader' /\ Restarts' /\ Feeds'
    BY <2>1, <2>2, <2>3 DEF Control, Presses, OneReader, Restarts, Feeds
  <2>6. OneDrains' /\ Drains' /\ Stops' /\ Selected'
    BY <2>1, <2>3, <2>4 DEF Control, OneDrains, Drains, Stops, Selected
  <2> QED BY <2>5, <2>6 DEF Control
<1>5. CASE MadClear(d)
  <2>1. /\ decoder[d].pc = "clear" /\ decoder'[d].pc = "none" /\ decoder_command' = "NONE"
        /\ \A e \in Decoders : e # d => decoder'[e] = decoder[e]
        /\ UNCHANGED <<command, decoder_status, streamVars, renderer_status, fifo, buttonVars,
                       mainpc, reader, heard>>
    BY <1>5 DEF MadClear, GoDecoder, TypeOK
  <2>2. NobodyDrains' = NobodyDrains /\ Started' = Started
    BY <2>1 DEF Started
  <2>3. Presses' /\ OneReader' /\ Restarts' /\ Feeds'
    BY <2>1, <2>2 DEF Control, Presses, OneReader, Restarts, Feeds
  <2>4. OneDrains' /\ Drains' /\ Stops' /\ Selected'
    BY <2>1, <2>2 DEF Control, OneDrains, Drains, Stops, Selected
  <2> QED BY <2>3, <2>4 DEF Control
<1> QED BY <1>1, <1>2, <1>3, <1>4, <1>5 DEF DecoderStep

-----------------------------------------------------------------------------
LEMMA StutterInv == Control /\ UNCHANGED vars => Control'
  BY DEF vars, playerVars, streamVars, buttonVars, Control, Presses, OneReader, Restarts, Fresh,
         Feeds, OneDrains, Drains, Stops, Selected, Started, Marking, Acknowledged, NobodyDrains,
         Active, Starting, Feeding, Streaming, Mad, Leaving, Draining, Opening, Holding, DecoderAt,
         ReaderAt

(* A listener who has not waited once is not patient any more.             *)
LEMMA HastyGrows ==
  ASSUME [Next]_vars
  PROVE  hasty' = IF HastyPress THEN hasty + 1 ELSE hasty
<1>1. ASSUME NEW r \in Readers, ReaderProgress(r) \/ ReaderTrouble(r)
      PROVE  hasty' = hasty
  BY <1>1
  DEF ReaderProgress, ReaderTrouble, ReaderRun, HeadersComplete, ClearEof, audio_player_start,
      ReaderData, ReaderHangup, ReaderFails, ReaderError, ReaderEnd, ConsumerStops, ConsumerAcknowledges, ConsumerGoesOn,
      ConsumerWrites, ConsumerLevel, ConsumerDecides, ConsumerCreates, ConsumerCannotCreate,
      ConsumerMarks, buttonVars
<1>2. ASSUME NEW d \in Decoders, DecoderStep(d)
      PROVE  hasty' = hasty
  BY <1>2
  DEF DecoderStep, MadInput, MadFill, MadStarved, MadFrames, MadRender, MadReset, MadStopped,
      MadClear, AacOpen, AacPrimed, AacWalks, AacLoop, AacRender, Mp4Walk, Mp4Opens, Mp4Fill,
      Mp4Render, Mp4Returns
<1>3. ASSUME StartRadio \/ Press \/ ButtonStep \/ UNCHANGED vars
      PROVE  hasty' = hasty
  BY <1>3
  DEF vars, StartRadio, Press, ButtonStep, ButtonReceive, ButtonCommand, ButtonNext, ButtonWait,
      ButtonRestart
<1> QED BY <1>1, <1>2, <1>3 DEF Next, HastyPress

LEMMA NextRadioInv == RadioInv /\ [Next]_vars => RadioInv'
<1> SUFFICES ASSUME RadioInv, [Next]_vars PROVE RadioInv'
  OBVIOUS
<1>1. TypeOK /\ TypeOK'
  BY NextTyped DEF RadioInv
<1>2. ASSUME patient' PROVE Control'
  <2>1. patient /\ ~HastyPress
    BY <1>1, <1>2, HastyGrows DEF patient, TypeOK
  <2>2. Control
    BY <2>1 DEF RadioInv
  <2> QED BY <1>1, <2>1, <2>2, ButtonInv, ReaderInv, DecoderInv, StutterInv DEF Next
<1> QED BY <1>1, <1>2 DEF RadioInv

LEMMA RadioInvariant == Spec => []RadioInv
  BY InitRadioInv, NextRadioInv, PTL DEF Spec

(* However tasks interleave, streams end and connections fail, a listener  *)
(* who waits for the sound never makes two HTTP tasks feed the FIFO.       *)
THEOREM FeedsAlone == Spec => []OneWriter
<1>1. RadioInv => OneWriter
  BY DEF RadioInv, Control, OneReader, Active, Streaming, OneWriter
<1> QED BY <1>1, RadioInvariant, PTL

(* Nor two decoders drain it.                                              *)
THEOREM DrainsAlone == Spec => []OneDecoder
<1>1. RadioInv => OneDecoder
  BY DEF RadioInv, Control, OneDrains, OneDecoder
<1> QED BY <1>1, RadioInvariant, PTL

(* A step that changes what comes out of the speaker is a decoder's, and   *)
(* what it renders is of the selected track, or it is the silence after a  *)
(* press.                                                                  *)
THEOREM PlaysSelected == Spec => OnlySelectedTrack
<1>1. RadioInv /\ [Next]_vars =>
        [patient /\ heard' # heard => heard' \in {curr_track, Silence}]_vars
  <2> SUFFICES ASSUME RadioInv, Next, patient, heard' # heard
               PROVE  heard' \in {curr_track, Silence}
    OBVIOUS
  <2>1. CASE ButtonReceive
    BY <2>1 DEF ButtonReceive
  <2>2. ASSUME NEW d \in Decoders, MadRender(d) \/ AacRender(d) \/ Mp4Render(d)
        PROVE  heard' = curr_track
    <3>1. Holding(d) /\ renderer_status # "STOPPED" /\ heard' = decoder[d].block
      BY <2>2 DEF MadRender, AacRender, Mp4Render, render_samples, DecoderAt, Holding
    <3> QED BY <3>1 DEF RadioInv, Control, Selected
  <2> QED
    BY <2>1, <2>2
    DEF Next, StartRadio, Press, HastyPress, gpio_isr_handler, ButtonStep,
        ButtonCommand, ButtonNext, ButtonWait, ButtonRestart, ReaderProgress, ReaderTrouble,
        DecoderStep, ReaderRun, HeadersComplete, ClearEof, audio_player_start, ReaderData, ReaderHangup, ReaderFails,
        ReaderError, ReaderEnd, ConsumerStops, ConsumerAcknowledges, ConsumerGoesOn,
        ConsumerWrites, ConsumerLevel, ConsumerDecides, ConsumerCreates, ConsumerCannotCreate,
        ConsumerMarks, MadInput, MadFill, MadStarved, MadFrames, MadReset, MadStopped,
        MadClear, AacOpen, AacPrimed, AacWalks, AacLoop, Mp4Walk, Mp4Opens, Mp4Fill, Mp4Returns
<1> QED BY <1>1, RadioInvariant, PTL DEF Spec, OnlySelectedTrack

-----------------------------------------------------------------------------
(* What it is worth that an answer takes its time                          *)

(* A stop that has been passed on is seen by a decoder, which clears it.   *)
StopIsSeen == decoder_command = "STOP" => \E d \in Decoders : ~DecoderAt(d, "none")

Answered ==
  /\ decoder_command = "STOP" => ~eof
  /\ mainpc = "start" \/ hpc = "restart" \/ Started => StopIsSeen
  /\ \A r \in Readers :
       /\ Starting(r) => StopIsSeen
       /\ Feeding(r) \/ ReaderAt(r, "eof") \/ ReaderAt(r, "start") => decoder_command = "NONE"
       /\ Feeding(r) /\ Started => ~NobodyDrains
  /\ \A d \in Decoders : Leaving(d) => Acknowledged

LEMMA InitAnswered == Init => Answered
<1> SUFFICES ASSUME Init PROVE Answered
  OBVIOUS
<1>1. decoder_command = "NONE" /\ \A r \in Readers : ~Feeding(r)
  BY DEF Init, Feeding, Streaming, ReaderAt
<1>2. \A d \in Decoders : ~Leaving(d)
  BY DEF Init, Leaving
<1> QED BY <1>1, <1>2 DEF Answered, StopIsSeen

LEMMA ButtonAnswered ==
  ASSUME TypeOK, Control, Answered, StartRadio \/ Press \/ ButtonStep
  PROVE  Answered'
<1>1. CASE StartRadio \/ ButtonRestart
  <2>1. Fresh /\ StopIsSeen /\ \A r \in Readers : ~Active(r)
    BY <1>1 DEF StartRadio, ButtonRestart, Control, Restarts, Answered
  <2>2. /\ \A r \in Readers : reader'[r].pc \in {"none", "deaf", "spawned"}
        /\ UNCHANGED <<playerVars, eof, decoder>>
    BY <1>1, <2>1
    DEF StartRadio, ButtonRestart, web_radio_start, GoReader, TypeOK, Active, streamVars
  <2>3. StopIsSeen' /\ \A d \in Decoders : ~Leaving(d)'
    BY <2>1, <2>2 DEF StopIsSeen, DecoderAt, playerVars, Fresh, NobodyDrains, Draining, Leaving
  <2>4. \A r \in Readers : ~Feeding(r)' /\ ~ReaderAt(r, "eof")' /\ ~ReaderAt(r, "start")'
    BY <2>2 DEF Feeding, Streaming, ReaderAt
  <2> QED BY <2>2, <2>3, <2>4 DEF Answered, playerVars
<1>2. CASE Press \/ ButtonReceive \/ ButtonCommand \/ ButtonNext \/ ButtonWait
  <2>1. /\ UNCHANGED <<decoder_command, eof, mainpc, reader, decoder>>
        /\ mainpc = "start" \/ hpc' = "restart" \/ Started' => Started \/ mainpc = "start"
    BY <1>2
    DEF Press, gpio_isr_handler, ButtonReceive, ButtonCommand, ButtonNext, ButtonWait, Audible,
        Started, Track, Silence, TypeOK, playerVars, streamVars
  <2>2. \A r \in Readers : Feeding(r) /\ Started' => ~NobodyDrains
    BY <2>1 DEF Answered, Control, Restarts, Feeding, Streaming, Active
  <2> QED
    BY <2>1, <2>2
    DEF Answered, StopIsSeen, DecoderAt, Starting, Feeding, Streaming, ReaderAt, NobodyDrains,
        Draining, Leaving, Acknowledged, Active
<1> QED BY <1>1, <1>2 DEF ButtonStep

LEMMA ReaderAnswered ==
  ASSUME AnswersTakeTime, TypeOK, Control, Answered,
         NEW r \in Readers, ReaderProgress(r) \/ ReaderTrouble(r)
  PROVE  Answered'
<1> USE DEF ReaderAt, DecoderAt, playerVars, streamVars, buttonVars
<1>1. CASE \/ ReaderRun(r) \/ ReaderFails(r) \/ ReaderData(r) \/ ReaderError(r) \/ ReaderHangup(r)
           \/ ConsumerAcknowledges(r) \/ ConsumerGoesOn(r) \/ ConsumerWrites(r)
           \/ ConsumerLevel(r) \/ ConsumerDecides(r) \/ ConsumerCannotCreate(r)
           \/ ConsumerMarks(r)
  <2>1. /\ \A q \in Readers : q # r => reader'[q] = reader[q]
        /\ UNCHANGED <<decoder_command, eof, hpc, events, heard, mainpc, decoder>>
    BY <1>1
    DEF TypeOK, GoReader, ReaderRun, ReaderFails, ReaderData, ReaderError, ReaderHangup,
        ConsumerAcknowledges, ConsumerGoesOn, ConsumerWrites, ConsumerLevel, ConsumerDecides,
        ConsumerCannotCreate, ConsumerMarks
  <2>2. CASE ReaderRun(r) \/ ReaderFails(r) \/ ReaderHangup(r) \/ ConsumerAcknowledges(r)
    <3>1. /\ reader'[r].pc \in {"none", "deaf", "connect"}
          /\ reader'[r].pc = "connect" => reader[r].pc = "spawned"
      BY <2>2
      DEF TypeOK, GoReader, ReaderRun, ReaderFails, ReaderHangup, ConsumerAcknowledges, afterFailure
    <3>2. /\ \A q \in Readers : (Starting(q)' => Starting(q)) /\ (Feeding(q)' => Feeding(q))
          /\ \A q \in Readers : (ReaderAt(q, "eof") \/ ReaderAt(q, "start"))'
                                 => ReaderAt(q, "eof") \/ ReaderAt(q, "start")
          /\ Acknowledged => Acknowledged'
      BY <2>1, <3>1 DEF Starting, Feeding, Streaming, Acknowledged, Active
    <3> QED BY <2>1, <3>2 DEF Answered, StopIsSeen, Started, NobodyDrains, Draining, Leaving
  <2>3. CASE \/ ReaderData(r) \/ ReaderError(r) \/ ConsumerGoesOn(r) \/ ConsumerWrites(r)
             \/ ConsumerLevel(r) \/ ConsumerDecides(r) \/ ConsumerCannotCreate(r)
             \/ ConsumerMarks(r)
    <3>1. /\ reader[r].pc \in {"body", "check", "write", "level", "decide", "create", "mark"}
          /\ reader'[r].pc \in {"none", "deaf", "body", "check", "write", "level", "decide", "create"}
      BY <2>3
      DEF TypeOK, GoReader, ReaderData, ReaderError, ConsumerGoesOn, ConsumerWrites,
          ConsumerLevel, ConsumerDecides, ConsumerCannotCreate, ConsumerMarks, afterConsumer,
          afterFailure
    <3>2. /\ \A q \in Readers : (Starting(q)' => Starting(q)) /\ (Feeding(q)' => Feeding(q))
          /\ \A q \in Readers : (ReaderAt(q, "eof") \/ ReaderAt(q, "start"))'
                                 => ReaderAt(q, "eof") \/ ReaderAt(q, "start")
          /\ Acknowledged => Acknowledged'
      BY <2>1, <3>1 DEF Starting, Feeding, Streaming, Acknowledged, Active
    <3> QED BY <2>1, <3>2 DEF Answered, StopIsSeen, Started, NobodyDrains, Draining, Leaving
  <2> QED BY <1>1, <2>2, <2>3
<1> USE DEF Active, Starting, Feeding, Streaming, Leaving, Draining, Acknowledged, NobodyDrains,
            Started, StopIsSeen
<1>2. CASE HeadersComplete(r)
  <2>1. /\ reader[r].pc = "connect" /\ reader'[r].pc = "eof"
        /\ \A d \in Decoders : decoder[d].pc # "clear"
        /\ \A q \in Readers : q # r => reader'[q] = reader[q]
        /\ UNCHANGED <<playerVars, eof, buttonVars, mainpc, decoder, heard>>
    BY <1>2 DEF HeadersComplete, GoReader, TypeOK
  <2>2. /\ Fresh /\ StopIsSeen /\ ~Started /\ mainpc # "start" /\ hpc # "restart"
        /\ \A q \in Readers : q # r => ~Active(q)
    BY <2>1 DEF Control, Restarts, OneReader, Answered, Fresh
  <2>3. decoder_command = "NONE"
    BY <2>1, <2>2 DEF Fresh, TypeOK
  <2> QED BY <2>1, <2>2, <2>3 DEF Answered, Fresh
<1>3. CASE ReaderEnd(r)
  <2>1. /\ reader[r].pc = "body" /\ reader'[r].pc = "none"
        /\ \A q \in Readers : q # r => reader'[q] = reader[q]
        /\ UNCHANGED <<playerVars, buttonVars, mainpc, decoder, heard>>
    BY <1>3 DEF ReaderEnd, GoReader, TypeOK
  <2>2. decoder_command = "NONE" /\ \A q \in Readers : ~Active(q)'
    BY <2>1 DEF Control, OneReader, Answered
  <2> QED BY <2>1, <2>2 DEF Answered
<1>4. CASE ConsumerStops(r)
  <2>1. /\ reader[r].pc = "check" /\ reader'[r].pc = "acknowledge"
        /\ \A q \in Readers : q # r => reader'[q] = reader[q]
        /\ UNCHANGED <<eof, buttonVars, mainpc, decoder, heard>>
    BY <1>4 DEF ConsumerStops, GoReader, TypeOK
  <2>2. /\ ~eof /\ mainpc # "start" /\ hpc # "restart"
        /\ \A q \in Readers : q # r => ~Active(q)
    BY <2>1 DEF Control, OneReader, Feeds, Restarts
  <2>3. Started => StopIsSeen'
    BY <2>1 DEF Answered
  <2> QED BY <2>1, <2>2, <2>3 DEF Answered
<1>5. CASE ConsumerCreates(r)
  <2>1. PICK d \in Decoders :
          /\ decoder[d].pc = "none" /\ decoder'[d].pc \in {"input", "open", "atoms"}
          /\ \A e \in Decoders : e # d => decoder'[e] = decoder[e]
    BY <1>5 DEF ConsumerCreates, task_func, GoDecoder, TypeOK
  <2>2. /\ reader[r].pc = "create" /\ reader'[r].pc = "mark"
        /\ \A q \in Readers : q # r => reader'[q] = reader[q]
        /\ UNCHANGED <<playerVars, streamVars, buttonVars, mainpc, heard>>
    BY <1>5 DEF ConsumerCreates, GoReader, TypeOK
  <2>3. ~Acknowledged
    BY <2>2
  <2> QED BY <2>1, <2>2, <2>3 DEF Answered
<1>6. CASE ClearEof(r) \/ audio_player_start(r)
  <2>1. /\ reader[r].pc \in {"eof", "start"} /\ reader'[r].pc \in {"start", "body"}
        /\ eof' => eof
        /\ \A q \in Readers : q # r => reader'[q] = reader[q]
        /\ UNCHANGED <<playerVars, buttonVars, mainpc, decoder, heard>>
    BY <1>6 DEF ClearEof, audio_player_start, GoReader, TypeOK
  <2>2. /\ Fresh /\ ~Started /\ mainpc # "start" /\ hpc # "restart"
        /\ decoder_command = "NONE"
        /\ \A q \in Readers : q # r => ~Active(q)
    BY <2>1 DEF Control, Restarts, OneReader, Answered, Fresh
  <2> QED BY <2>1, <2>2 DEF Answered, Fresh
<1> QED
  BY <1>1, <1>2, <1>3, <1>4, <1>5, <1>6 DEF ReaderProgress, ReaderTrouble

LEMMA DecoderAnswered ==
  ASSUME TypeOK, Control, Answered, NEW d \in Decoders, DecoderStep(d)
  PROVE  Answered'
<1> USE DEF DecoderAt, playerVars, streamVars, buttonVars, Leaving, Draining
<1>1. /\ \A e \in Decoders : e # d => decoder'[e] = decoder[e]
      /\ UNCHANGED <<eof, hpc, events, mainpc, reader>>
  BY DEF DecoderStep, TypeOK, GoDecoder, MadInput, MadFill, MadStarved, MadFrames, MadRender,
         MadReset, MadStopped, MadClear, AacOpen, AacPrimed, AacWalks, AacLoop, AacRender,
         Mp4Walk, Mp4Opens, Mp4Fill, Mp4Render, Mp4Returns
<1> USE DEF Active, Starting, Feeding, Streaming, ReaderAt, Acknowledged, NobodyDrains, Started
<1>2. CASE MadClear(d)
  <2>1. decoder_command' = "NONE" /\ heard' = heard /\ decoder[d].pc = "clear" /\ decoder'[d].pc = "none"
    BY <1>2 DEF MadClear, GoDecoder, TypeOK
  <2> QED BY <1>1, <2>1 DEF Answered, StopIsSeen
<1>3. CASE ~MadClear(d)
  <2>1. /\ UNCHANGED decoder_command /\ Draining(d)
        /\ heard' # heard => Draining(d)'
        /\ decoder'[d].pc = "none" => eof \/ Opening(d)
        /\ ~Draining(d)' => eof \/ Leaving(d) \/ Opening(d)
        /\ Opening(d) => heard' = heard
        /\ Leaving(d)' => Leaving(d) \/ decoder_command = "STOP" \/ eof
    BY <1>3
    DEF DecoderStep, TypeOK, GoDecoder, MadInput, MadFill, MadStarved, MadFrames, MadRender,
        MadReset, MadStopped, AacOpen, AacPrimed, AacWalks, AacLoop, AacRender, Mp4Walk, Mp4Opens,
        Mp4Fill, Mp4Render, Mp4Returns, Opening, render_samples
  <2>2. /\ mainpc # "start" /\ hpc # "restart" /\ (\A r \in Readers : ~Starting(r))
        /\ \A e \in Decoders : Draining(e) => e = d
    BY <2>1, WhileDraining
  <2>3. /\ decoder_command = "STOP" => decoder'[d].pc # "none" \/ Opening(d)
        /\ Opening(d) => ~Started /\ ~Started'
    BY <1>1, <2>1 DEF Answered, Control, Drains
  <2>4. (eof \/ decoder_command = "STOP" \/ Leaving(d)) => Acknowledged
    BY <2>2 DEF Answered, Control, Feeds
  <2> QED BY <1>1, <2>1, <2>2, <2>3, <2>4 DEF Answered, StopIsSeen
<1> QED BY <1>2, <1>3

LEMMA NextAnswered ==
  AnswersTakeTime /\ RadioInv /\ (patient => Answered) /\ [Next]_vars => (patient => Answered)'
<1> SUFFICES ASSUME AnswersTakeTime, RadioInv, patient => Answered, [Next]_vars, patient'
             PROVE  Answered'
  OBVIOUS
<1>1. patient /\ ~HastyPress
  BY HastyGrows, NextTyped DEF patient, TypeOK, RadioInv
<1>2. CASE UNCHANGED vars
  BY <1>1, <1>2
  DEF vars, playerVars, streamVars, buttonVars, Answered, StopIsSeen, Started, Starting, Feeding,
      Streaming, Leaving, Acknowledged, Active, NobodyDrains, Draining, DecoderAt, ReaderAt
<1> QED
  BY <1>1, <1>2, ButtonAnswered, ReaderAnswered, DecoderAnswered DEF Next, RadioInv

(* If the answer to a request takes longer than two adjacent stores of a   *)
(* decoder, then no decoder resets the ring under an HTTP task that is     *)
(* writing to it.  Otherwise a late MadClear leaves a stop for the next    *)
(* decoder, which does.                                                    *)
THEOREM ResetsAlone ==
  ASSUME AnswersTakeTime
  PROVE  Spec => ResetWhileNobodyWrites
<1>1. RadioInv /\ (patient => Answered) /\ [Next]_vars =>
        [patient /\ (\E d \in Decoders : MadReset(d)) =>
           \A r \in Readers : ~ReaderAt(r, "write")]_vars
  BY DEF MadReset, DecoderAt, Answered, Leaving, Acknowledged, Active, ReaderAt
<1> QED
  BY <1>1, InitAnswered, NextAnswered, RadioInvariant, PTL DEF Spec, ResetWhileNobodyWrites

=============================================================================
