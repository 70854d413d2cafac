# A formal model of the ESP32 web radio

This directory holds TLA+ specifications of the firmware in `src/`: the web
radio that downloads an MP3, AAC or MP4 stream over HTTP, buffers it in a ring,
decodes it in a second task and plays it over I2S; and the Bluetooth speaker
the same program can be built as. The modules are translated from the C code;
where the code and what its comments or README say of it differ, the code is
modelled and the difference is listed under [Findings](#findings).

To check a run: `tlc -config fifo_ring.cfg MCSpiRamFifo`. To check the proofs:
`tlapm FifoProofs.tla`.

## 1. The system

```
 button ISR --gpio_evt_queue--> button task --command=STOP--> HTTP task --decoder_command=STOP--> decoder task
                                     |  ^                      |    |                                  |
                                     |  +--- decoder_status ---|----+----------------------------------+
                                     |                         | spiRamFifoWrite       spiRamFifoRead  |
                                     +--starts--> HTTP task    +-----> Icy demux ---> ring ----------->+--> renderer --> I2S
```

| Component | State | Operations | Hard behaviour | What makes it correct |
|---|---|---|---|---|
| **FIFO ring** `fifo/spiram_fifo.c` | `fifoRpos`, `fifoWpos`, `fifoFill`, the byte array, a mutex, two binary semaphores | `spiRamFifoInit/Read/Write/Reset/Fill` | two tasks on two cores; chunk sizes computed before the mutex is taken; semaphores waited for after it is released; reset in the middle of a session | a bounded pipe of bytes; no lost wake-up; neither side stuck for ever |
| **Icy demultiplexer** in the same file | `fifoFlag`, `readDataBytes`, `metaLength`, `readMetaBytes`, `icymeta_text` | head and tail of `spiRamFifoWrite`, `processMetaData` | boundaries fall anywhere in the receive buffers; a request abandons a stream in the middle | parser and server agree on what the next byte is |
| **Radio control** `web_radio.c`, `audio_player.c`, `controls.c`, `mp3_decoder.c`, `fdk_aac_decoder.c`, `http.c` | `player_t` (command, decoder_command, decoder_status), `media_stream_t` (content_type, eof), renderer status, playlist cursor, event queue | button ISR and task, HTTP task and `audio_stream_consumer`, decoder tasks | tasks signal through plain flags; each flag is a mailbox that may be stale, lost or read by the wrong task | one writer, one decoder, only the selected track is heard, the selected track is heard |
| **HTTP client and headers** `http.c`, `web_radio.c` | socket, address list, retries; header key/value buffers, their lengths, `content_type`, `icymeta_interval` | connect with retries, send, read loop; `on_header_field_cb`, `on_header_value_cb`, `on_headers_complete_cb` | every call may fail and most failures do not return; descriptors are numbers that are given out again; header pieces end anywhere, and the buffers outlive the connection | what is opened is closed once, by its owner; what the headers said is what the server sent |
| **Read buffer** `common_buffer.c` | base, read and write position, bytes consumed | `fill_read_buffer`, `buf_seek_rel`, `buf_read` | seeks and reads across refills, each of which moves the bytes; `min` looks at the fill twice; end of stream | a cursor over the stream; no overrun; calls return |
| **MP4 demuxer and decoder** `libm4a/demux.c`, `m4a.c`, `libfaad_decoder.c` | nested `size_remaining`, the file position, `res->format` | `qtmovie_read` and the handler of every atom; the decoding loop | lengths are believed; unsigned remainders wrap; a pointer into a buffer that moves; a read that gives up is not noticed | between two atoms the demuxer stands at an atom; a playable file is played |
| **Audio renderer** `audio_renderer.c` | `renderer_status`, I2S configuration, DMA buffers | `renderer_init/start/stop`, `render_samples` | called by two tasks at once without a lock | `render_samples` returns; the rate follows the stream |
| **Bluetooth speaker** `bt_speaker/` | dispatch queue of ten messages, parameters on the heap, A2DP and AVRCP state | dispatch, task handler, A2DP, AVRCP and data callbacks | full queue, no memory, the phone is ahead of the handler | each block is freed once; the renderer ends where the phone wants it; a registration is always renewed |
| **LED driver** `user_driver/ws2812.c` | `ws2812_buffer`, `ws2812_pos`, `ws2812_half`, the semaphore, RMT memory | `ws2812_setColors`, the interrupt handler | the peripheral reads one half while the handler fills the other; the end of a transmission races a refill | the strip gets its bytes in order; a call leaves nothing to the next |
| **Playlist, vector** `playlist.c`, `vector.c` | entries, cursor, capacity | load through inih, `playlist_next/prev/curr_track` | entries in any order, lines longer than the reader's buffer, growth | every entry is as listed; the cursor is on one of them |
| **WiFi and boot** `wifi.c`, `app_main.c` | event group bit, station | event handler, wait, start of the radio | the link is lost again before `app_main` has looked | the bit follows the link; the radio starts, after an address |
| **UI task** `ui.c` | queue of one event | `ui_queue_event`, `task_ui` | never started: `init_hardware` does not call `ui_init` (`app_main.c:49`) | |
| URL parser | what it allocates | `url_parse`, `url_free` | most returns of its caller free none of it | what is given back is named (`HttpClient`) |
| amplifier driver | none that outlives a call | | | |
| libmad, fdk-aac, libfaad, http_parser | third party | | | |

The firmware persists nothing and does not survive a crash, so no
crash-and-restart behaviour is modelled. What fails in it are connections,
streams, allocations of tasks and the order of its tasks.

## 2. The modules

| Module | Models | Kind |
|---|---|---|
| `BytePipe` | what the ring promises: `Submit`, `Put`, `Request`, `Get` on a bounded sequence of bytes; `Flush` between two streams | abstract specification |
| `SpiRamFifo` | `spiRamFifoInit`, `spiRamFifoRead`, the data loop of `spiRamFifoWrite` | detailed specification, `Pipe == INSTANCE BytePipe WITH ...` |
| `FifoSession` | the ring through the lives of several decoders: `audio_stream_consumer`, `input`, `fill_read_buffer`, `spiRamFifoReset`, `spiRamFifoFill` | composition, EXTENDS `SpiRamFifo` |
| `FifoProofs` | | proofs about the ring, and on top of them about its sessions |
| `IcyMeta` | head and tail of `spiRamFifoWrite`, `processMetaData`, `resetReader` and the server's stream | specification |
| `IcyMetaProofs` | | proofs |
| `RadioControl` | button, HTTP tasks, player flags, decoder tasks, renderer status | specification |
| `RadioControlProofs` | | proofs |
| `StreamCursor` | what the read buffer promises: a cursor over the stream with `Seek`, `Advance`, `Arrive`, `Read`, `ReadDone`, `ReadGivesUp` | abstract specification |
| `ReadBuffer` | `buf_create`, `fill_read_buffer`, `buf_seek_rel`, `buf_read` | detailed specification, `Cursor == INSTANCE StreamCursor WITH ...` |
| `ReadBufferProofs` | | proofs about the read buffer, and on top of them about the MP4 demuxer |
| `Mp4Demux` | `libfaac_decoder_task`, `qtmovie_read`, the handlers of the atoms, on the read buffer | composition, EXTENDS `ReadBuffer` |
| `HttpClient` | `http_client_get` and the header callbacks of `web_radio.c`, for all HTTP tasks at once | specification |
| `HttpClientProofs` | | proofs |
| `Renderer` | `render_samples`, `renderer_start`, `renderer_stop`, the DMA buffers | component, no specification of its own |
| `BtSpeaker` | dispatch queue, handlers, callbacks, the phone | composition, EXTENDS `Renderer` |
| `BtSpeakerProofs` | | proofs |
| `Ws2812` | `ws2812_setColors`, the interrupt handler, the RMT peripheral | specification |
| `Ws2812Proofs` | | proofs |
| `Playlist` | reading the file, the vector, the cursor | component |
| `Boot` | `app_main`, the WiFi event handler, the access point | composition, EXTENDS `Playlist` |
| `BootProofs` | | proofs |
| `MCSpiRamFifo`, `MCFifoSession`, `MCIcyMeta`, `MCRadioControl`, `MCReadBuffer`, `MCMp4Demux`, `MCHttpClient`, `MCBtSpeaker`, `MCWs2812`, `MCBoot` | | instances for TLC |

Two pairs of modules describe the same code for different questions.
`RadioControl` has `http_client_get` from the headers on, as one of the tasks
around the player; `HttpClient` has it up to the body, with its calls, failures
and globals. `FifoSession` has `fill_read_buffer` as one look at the fill and a
read, because its question is what the ring does; `ReadBuffer` has the two looks
of the macro `min`, the positions and the bytes, because its question is what
the decoder gets. `AnswersTakeTime`, `OneWriter` and `DecoderNeverSleeps` are
what one of a pair may assume of the other.

### 2.1 SpiRamFifo

One writer and one reader task. Variables carry the names of the C variables;
`wpc` and `rpc` say where each call is, `wN` and `rN` are the local `n`, `wBuf`
the bytes `buff` still points at. `wFill` and `rFill` are the value of
`fifoFill` that `fifoFill += n` loaded and has not yet stored, so that an update
without the mutex would be lost in the model as on the chip.

| Code (`spiRamFifoWrite`, lines 247-279) | Action |
|---|---|
| call with a buffer | `Write(s)` |
| `n = len`, the two limits, before the mutex | `WriteSize` |
| `xSemaphoreTake(mux)` | `WriteTake` |
| no room: give `mux` | `WriteFull`, then `WriteWait` takes `semCanWrite` |
| copy, load of `fifoFill` | `WriteCopy` |
| store of `fifoFill`, `fifoWpos`, wrap, give `mux` | `WriteCommit` |
| give `semCanRead`, loop or return | `WriteGive` |

`spiRamFifoRead` (lines 82-129) has the same shape; `ReadLow` is its test of
`FIFO_LOWMARK`, which happens outside the mutex, between `ReadEmpty` and
`ReadWait`. The build modelled is the one with `FAKE_SPI_BUFF`, which the code
selects.

`SizeAssumption` asks for `Size >= 2*Chunk - 1`. It is what keeps the two sides
from waiting for each other: the reader sleeps with `fifoFill < rN <= Chunk`,
the writer with `Size - fifoFill < wN <= Chunk`. The code has 32000 and 64.

**The refinement.** The pipe's `stream` is the bytes between the positions less
a chunk the reader has copied out but not yet subtracted (`live`): a `Put`
happens at `WriteCommit`, a `Get` at `ReadCopy`, every other step of the ring
stutters.

### 2.2 FifoSession

The ring at the grain of `SpiRamFifo`, its two sides driven by the tasks that
call it. `spiRamFifoReset` takes `semCanRead` while it holds the mutex every
writer needs, and a writer may wait for room before the decoder exists that
would make it: whether these waits end is decided by the protocol of the
callers, not by the ring.

| Code | Action |
|---|---|
| `audio_stream_consumer`: write, fill, decision, `start_decoder_task`, status | `ConsumerWrites`, `ConsumerLevel`, `ConsumerGoesOn`, `ConsumerCreates`, `ConsumerCannotCreate`, `ConsumerMarks` |
| the stop command, the next reader, the end of a stream | `ConsumerStops`, `NextStream`, `StreamEnds` |
| `input`: command, room in the buffer and first `spiRamFifoFill`, underflow | `DecoderInput`, `DecoderLook(room)`, `DecoderStarved` |
| `fill_read_buffer`: second `spiRamFifoFill`, `spiRamFifoRead` | `DecoderFill`, then the ring's own steps, then `DecoderDecodes` |
| `spiRamFifoReset` up to `semCanRead`, and from there | `DecoderResets`, `DecoderResetEnds` |
| the two stores at the decoder's end | `DecoderStopped`, `DecoderClears` |

The module takes two results of `RadioControl` as its setting: one HTTP task at
a time feeds the ring (`OneWriter`), and a listener leaves a track while its
decoder runs. After a stream has ended nothing more is written, as the finding
`radio_next_after_end` shows. `early_start` is left out: `eof` is never set while the
callback that reads it runs (`BufferedStreamIsDecoded`). `room` may be 0: libmad may
ask for more while the decoder's buffer is full. `SessionAssumption` asks that what
one receive buffer brings fits above the mark: 90 % of 32000 and at most 63 bytes.

### 2.3 IcyMeta

The demultiplexer alone, with bytes counted and not looked at. `kind` and
`left` are the server's side: what comes next and how much of it. The parser's
guards never read them; the properties compare them with what the parser takes
the byte for. `NewRequest` is `http_client_get` setting `newHttpRequest` at a
moment no write is under way, in the middle of metadata as well.

The tail of `spiRamFifoWrite` handles the bytes after the audio by calling
itself; `StoreData` goes back to `pc = "head"` with `newHttpRequest` false, as
the call does. `readDataBytes` and the difference `icymeta_interval -
readDataBytes` are unsigned: `plus` and `minus` wrap at `Word`.

`IcyAssumption` asks that an interval be at least one receive buffer less a
byte (`http.c` reads at most 63 bytes at a time). What follows metadata in a
buffer is stored without looking for the next metadata, so a shorter interval
puts parser and server out of step; servers use thousands.

### 2.4 RadioControl

Each shared flag is a variable with the source's name, each task a program
counter, each step one read or one write of a flag that another task can tell
apart.

| Task | Code | Actions |
|---|---|---|
| `app_main` | `web_radio_start` | `StartRadio` |
| interrupt | `gpio_isr_handler` | `Press`, `HastyPress` |
| button task | `web_radio_gpio_handler_task` with `audio_player_stop`, `playlist_next`, the wait for `STOPPED` | `ButtonReceive`, `ButtonCommand`, `ButtonNext`, `ButtonWait`, `ButtonRestart` |
| HTTP task | `http_get_task`, `http_client_get`, the parser's callbacks | `ReaderRun`, `HeadersComplete`, `ClearEof`, `audio_player_start`, `ReaderData`, `ReaderFails`, `ReaderError`, `ReaderEnd`, `ReaderHangup` |
| HTTP task | `audio_stream_consumer`, `start_decoder_task` | `ConsumerStops` ... `ConsumerMarks` |
| decoder task | `input`, the frame loop and the abort label of `mp3_decoder_task` | `Mad...` |
| decoder task | `fdkaac_decoder_task` | `Aac...` |
| decoder task | `libfaac_decoder_task` | `Mp4...` |

`task_func` is the decoder that `start_decoder_task` chooses by the content type.
The AAC decoder looks at the type once more (`AacWalks`) and ends where there is no
memory for its codec (`AacPrimed`). The MP4 decoder returns from its function when
it cannot go on, which a FreeRTOS task must not do: the model keeps the task,
doing nothing, in `returned`; what the chip does is not followed.

The FIFO is a sequence of blocks, each marked with the track it came from; a
block is what one call writes and one refill of the decoder's buffer takes.
`heard` is an observer: the track of the block last rendered, or `Silence`
once the renderer was stopped.

*Scheduling.* HTTP tasks have priority 20, the button task 10, `app_main` less,
all on core 0. `core0IsFree` lets the lower two step only when every HTTP task
is at a point where it may block (network, FIFO, console, allocation).
Decoders have core 1 to themselves. Interrupts come at any time.

*The listener.* `Press` is a listener who waits for the sound of the chosen
track, and for the servers of abandoned streams to have closed. `HastyPress`,
bounded by `MaxHasty`, comes at any moment. `OneWriter`, `OneDecoder`
and `OnlySelectedTrack` are about histories without a hasty press (`patient`):
with one, two stop commands can be taken for one and two HTTP tasks feed the
FIFO, and with two of them each of these may start a decoder. `radio_faults`
allows one so that the steps after it are taken too, and because a listener who
was patient until then is covered up to that press.

*The world's constants.* `ConnectsFail`, `ReadsFail`, `EndingTracks`,
`ServersHangUp` say what may go wrong. `AnswersTakeTime` excludes one race: the
decoder stores `decoder_status` and then `decoder_command` in adjacent
statements (`mp3_decoder.c:178`), and the answer to a request sent between the
two would have to arrive before the second. `OneWriter`, `OneDecoder` and
`OnlySelectedTrack` are proved with and without it. What it buys is
`ResetWhileNobodyWrites`: if the answer does arrive in between, the late
`decoder_command = CMD_NONE` erases a stop that was meant, or an old stop meets
the next decoder, which then resets the ring under an HTTP task that writes to
it. With `AnswersTakeTime = FALSE` TLC finds such a history with two HTTP tasks
and two decoders; with TRUE the theorem `ResetsAlone` excludes it for all.

### 2.5 ReadBuffer and StreamCursor

The stream is the numbers 1, 2, 3, ...: a byte is its own position, so any byte
that is lost, repeated or displaced shows. The client is any decoder: it calls
`fill_read_buffer`, `buf_seek_rel` and `buf_read` in any order. The HTTP task
stores at any moment (`Store`).

| Code | Action |
|---|---|
| `buf_move_remaining_bytes_to_front`, first look of `min` at the fill | `FillPurges` |
| second look, when the first was the smaller | `FillLooksAgain` |
| `spiRamFifoRead`, `write_pos += ...` | `FillCopies`, or `FillOverruns` |
| `buf_seek_rel`: consume what is there and refill, or the last piece | `SeekLoads`, `SeekEnds` |
| `buf_read`: refill and delay, give up, copy | `ReadLoads`, `ReadFails`, `ReadCopies` |

`min` is a macro (`common_buffer.h`) and evaluates `spiRamFifoFill()` twice. When
the HTTP task stores in between, the second result may exceed the room that the
first was compared with, and `spiRamFifoRead` writes behind `base`.
`ExcessIsWhatCame` says by how much; what the heap holds afterwards is not
modelled, the decoder stands still in `overrun`. Every action of the module that
is reached without such a store is exact.

`buf_write`, `buf_wrap`, `buf_resize`, `buf_seek_abs`, `fread16` and `fread32`
have no caller that runs.

### 2.6 Mp4Demux

The unit of length is four bytes: a header has two units, a table's count one.
A file is the sequence of its atoms in the order they start; a container is
followed by what it contains. The demuxer cannot see where atoms start: it
believes the lengths it has read and its remainders. What a handler does is its
*script*, a sequence of reads, skips and marks that is worked off one call of the
buffer at a time; the guards of the code are the choice of the script and the
actions around it.

| Code (`demux.c`) | Definition |
|---|---|
| the loops of `qtmovie_read` and of `read_chunk_moov` ... `read_chunk_stbl` | `NextAtom`, `LengthRead`, `ContainerEnds`, `EnterContainer`, `UnknownAtom`, `AudioFound` |
| `read_chunk_minf`: first atom must be a `smhd` | `NotSound`, `SoundHeader` |
| `read_chunk_stsd` | `read_chunk_stsd`, `sampleEntry`, `codecData`, `mp4aData`, `FormatSeen`, `EsdsBegins`, `EsdsEnds` |
| `read_chunk_stts/stsz/stsc/stco` | `read_chunk_table` |
| `read_chunk_ftyp`, atoms that are skipped | `read_chunk_ftyp`, `Leaf` |
| `stream_read` with a `buf_read` that gave up | `ReadGaveUp` |
| `libfaac_decoder_task` | `Open`, `FrameFill`, `FrameDecoded`, `FrameError`, `EofSeen` |

A sample description has up to `MaxEntries` = 2 entries; the loop of the code is the
join of their scripts. What makes the demuxer refuse an entry of a format it knows (no
esds, one longer than the entry, an unexpected tag or length, codec data larger than
its buffer) is one format, `refused`, that fails after the fields read up to there; an
unknown format fails at once, and a description without codec data at its end.

`startsAt` is a table given with the files; `StartsAssumption` fixes every entry of
it. `LengthsAssumption` says that an atom holds what it says it has (the entries of
a table, the fields of a sample description) and that a container ends where an
atom ends. The code checks neither; a file for which it is not so makes any
demuxer of this design lose its place, and the properties are about the others.

`size_remaining` is unsigned and wraps: `remainder` of a negative number is
`Huge`, more than any stream holds. `NotAnAtom` is where the model stops
following the code: the demuxer has taken something for a length that is not
one. `strays` records what brought it there, and `LosesPlaceOnlyBy` says that
there are four such reasons and no fifth.

### 2.7 HttpClient

`Descriptors` are numbers that `socket()` returns, the least free one first, as
lwip does. `owner` is which task opened the connection a number stands for now;
the code knows only its `sock`. Failures of calls are remembered in `faults`, so
that each property can name the failure it does not survive. Headers are
sequences of words; `HeaderPiece` hands over a piece of any length, the callbacks
are operators with their C names. The header buffers are the globals of
`web_radio.c` and survive a connection that ends inside a header (`broke`). One
request at a time is in front of its body: that is the patient listener of
`RadioControl`.

Of the heap the module has what outlives a call: the address list, and what
`url_parse` allocated (`url`: the struct, and the texts it points to). `lost` is
what a return did not free. `ResourcesReturned` claims the struct, except after a
name that did not resolve (`http.c:49`), a server that was not reached (76) and a
missing allocation (89); it does not claim the texts, which `free(url)` in line 128
leaves behind and only `url_free`, called nowhere, would return. `url_parse` itself
is taken to succeed.

Inside the headers `read()` may return 0 (`HeadersBreak`) or -1. With -1 line 122
hands the receive buffer, with `(size_t)-1` for a length, to the parser again:
`HeadersError`, `HeaderReplayed` and `ReplayRefused` let it go over any part of what has
come, the callbacks adding it to the buffers once more, until it meets a
character that it refuses. That it reads on into other memory and finds there the end of a
header section is not followed.

`process_header_key_complete` compares as many characters as the key has
(`strncmp` with `key_len`), so a header named `content` would be taken for
`content-type`; `distinct` excludes responses with such a name, those that
repeat a header the radio looks for, and those in which its value does not fit.
`NamesFit` says that the two names fit the buffers of 128 characters.
`ResponsesAssumption` asks for at least one header, with a name and a value:
after a response that was cut off inside a key, one without any header would
leave that key's length standing for the response after it.

### 2.8 Renderer and BtSpeaker

`Renderer` has the status, the I2S switch, the clock, and a DMA buffer that
`RenderWrites` fills and `Plays` drains. `renderer_start` and `renderer_stop`
change the status first and the peripheral in a second step; `RenderChecks` may
fall in between. `BtSpeaker` adds the phone (A2DP and AVRCP, as the profiles let
it behave), the stack's task that copies each event to the heap and sends it,
and the application task that handles it.

| Code | Action |
|---|---|
| `bt_app_a2d_cb`, `bt_app_rc_ct_cb`, `bt_app_work_dispatch` | `Reports` with `dispatch` |
| `bt_app_send_msg`, 10 ms on a full queue | `Sends`, `SendTimesOut` |
| `bt_app_task_handler` | `AppReceives`, `FreesParam` |
| `bt_av_hdl_stack_evt`, `bt_av_hdl_a2d_evt` | `StackUp`, `StartsRenderer`, `StopsRenderer`, `SwitchesI2s`, `LeavesRenderer`, `SetsClock` |
| `bt_av_hdl_avrc_evt`, `bt_av_new_track` | `AvrcEvent`, `FreesText` |
| `bt_app_a2d_data_cb` | `DataArrives`, then `RenderStep` |

`leaked` and `missed` observe what a lost message cost. `bt_app_alloc_meta_buffer`
copies a metadata text to what `malloc` returned without a look: without memory it
writes through a null pointer and the system restarts, which is not followed
(`Answers`). Events that are only
logged are left out; `bt_app_task_shut_down` and `renderer_destroy` have no caller.

### 2.9 Ws2812

A cell stands for the eight pulses of a byte: call number, pixel, channel, and
whether the pause follows. `SendsByte` and `SendsEnd` are the peripheral, `IsrRefills`,
`IsrClears` and `IsrGives` the handler, the others the caller; interrupt and
caller are on one core, the peripheral is as fast as it is. `late` observes a
handler that was not done with a half before the peripheral left the next:
then the strip shows something else, which no software can prevent.

The program's only caller is the UI task, with strips of one pixel; the driver's interface
allows more, and its interrupt handler is only interesting then. A strip whose
bytes fill exactly one half (`3*n = HalfBytes`, excluded by `Ws2812Assumption`)
would be sent what the second half holds from before, since the second copy is
skipped; with the code's four bytes per half no strip has that length.

### 2.10 Playlist and Boot

`Playlist` reads a file line by line as `pls_ini_reader` and inih do, a piece at
a time when a line is longer than the reader's buffer, and gives keys to
`pls_ini_handler`. `wellFormed` says which files the code is written for: numbers
from 1 without gaps, lines shorter than the buffer and no empty line. A number 0 writes through
a null pointer (`crashed`), a gap puts an entry under a number too small, a long
line stores its terminator behind the buffer, and before an empty one the byte in
front of the buffer is looked at, and cleared if it is a carriage return
(`playlist.c:50`); `outside` is TRUE after either store. The playlists in `src/main`
are well-formed.

`Boot` composes it with `app_main` and the WiFi stack. `xEventGroupSetBits` wakes
a waiter that then runs although the bit has been cleared again (`wakes`), which
is why the radio may start while the link is down.

## 3. The runs

| Run | Bounds | Shows |
|---|---|---|
| `fifo_ring` | ring of 5 bytes, chunks of at most 3, bytes 0..4, buffers of 1 and 4 bytes, reads of 1 and 4, `FairSpec` | `ChunkFits`, `PositionsAgree`, `NeverBothAsleep`, `SleepIsJustified`; the ring implements `BytePipe`; `WriteReturns`, `ReadReturns` |
| `fifo_session` | ring of 4 bytes, chunks of at most 2, decoder started above 1, buffers of 1 and 3 bytes, reads of at most 2, `FairSessionSpec` | `DecoderNeverSleeps`, `ResetIsServed`, `DecisionIsCurrent`; the ring implements a pipe that only a reset empties (that a reset comes between streams is `ResetIsServed`, `DecisionIsCurrent` and the protocol); `EveryWriteReturns`, `StopIsObeyed` |
| `icy_parser` | intervals {0, 3, 5}, buffers up to 4, units of 2 bytes, up to 3 units, text of 4 bytes, arithmetic modulo 64 | `InStep`, `OnlyAudioStored` |
| `radio_nominal` | two MP3 tracks, two HTTP and two decoder tasks, FIFO of two blocks, servers that keep sending, `FairSpec` | `SelectedTrackPlays` |
| `radio_faults` | the same, any format, failing connections and reads, ending streams, one hasty press | `OneWriter`, `OneDecoder`, `OnlySelectedTrack` |
| `radio_next_after_end` | as `radio_nominal`, but the first stream ends | violates `NextTrackPlays`, see [Findings](#findings) |
| `read_buffer` | buffer of 3 bytes, FIFO of 4, stream of 6, requests of 1 to 4, two refills per read, `FairBufferSpec` | `UnreadIsNext`, `ExcessIsWhatCame`; the buffer implements `StreamCursor`; `CallsReturn` |
| `mp4_demux` | fourteen files (four playable), sample descriptions of up to two entries, buffer of 3 units, FIFO of 2, one refill per read, `FairMp4Spec` | `InPlace`, `LosesPlaceOnlyBy`, `PlayableIsPlayed` |
| `http_client` | two tasks, two descriptors, three requests, one retry, buffers of 4 words, three responses | `OwnDescriptor`, `ResourcesReturned`, `HeadersAsSent`, `HeadersFit` |
| `bt_speaker` | queue of 2, five reports, one attribute per track, DMA buffer of 1 sample, calls of at most 2, two rates, `FairBtSpec` | `HeapAccounted`, `RendererFollowsPhone`, `TracksReported`, `CallbackReturns` |
| `led_driver` | halves of 4 bytes, as in the code; strips of 1, 2, 3, 4 and 8 pixels; three calls, `FairLedSpec` | `SentAsAsked`, `CallsAreSeparate`, `SetColorsReturns` |
| `boot` | playlists of up to five lines, line buffer of 3, vector of 2, one loss of the link, `FairBootSpec` | `PlaylistAsListed`, `BitFollowsLink`, `RadioStarts` |

**Why the bounds are enough.** 5 = 2*3 - 1 is the tightest ring the assumption
allows and no multiple of the chunk, so chunks are cut at the end of the ring
in every possible place. A buffer of 4 needs two or three chunks; one of 1 is the least.
`LowMark` lies above `Size`, as in the code (112 KB and 32000), where the test
is always true. In `fifo_session` the longest buffer just fits above the mark,
takes two chunks, or three at the end of the ring; any number of decoders live
and die, and positions at a reset take every value. Text, metadata and intervals of the parser are each smaller and
larger than a buffer, and the smallest interval is the one the assumption
allows. Two tracks are the least for which "selected" and "not selected"
differ; two HTTP tasks and two decoders are what an overlap takes, and with
both busy the failed creation of a third is reached (of an HTTP task in `radio_faults`
only, after a hasty press). A FIFO of two blocks can
be empty, partly filled, and full.
`radio_faults` and `http_client` treat the tasks of a kind as interchangeable
(`SYMMETRY TaskSymmetry`): none of their properties names one or is about liveness.

In `read_buffer` a request of 4 exceeds the buffer, one of 3 needs all of it, the
stream is twice the buffer, so bytes move and positions wrap back several times,
and the FIFO can hold more than there is room for. In `mp4_demux` no header or
table fits the buffer with its neighbour, so refills fall into every handler,
and a read may stall once; each file differs from the others in one thing the
demuxer looks at (a brand, a fixed `stsz`, an `stco` without entries, a track that is
no sound, an atom too long for its container, audio before its description, a
sample description with a filler entry first, one that is refused, one without codec
data). In
`http_client` the third request is the one after a broken response was followed
by a whole one; values of five words exceed the buffer; a second task may open a
descriptor under the first. In `bt_speaker` five reports are what it takes to link,
configure, play, pause and go, or to fill the queue of two while one message is
handled and another waits; the dropped message may be any of them. Strips of 1
to 8 pixels have 3 to 24 bytes: less than a half, between one and two halves,
and several times round, ending inside and at the end of a half. In `boot`
entries come in every order over four lines; the vector grows three times; lines
are empty, shorter than the buffer, as long, one longer, and so long that they are read
in pieces.

**Fairness.** FreeRTOS runs every ready task, and the decoders have a core of
their own: `WF` for each HTTP task and each decoder. `app_main` and the button
task run in the gaps the HTTP tasks leave, which open and close again: `SF`.
`WF` of the HTTP tasks also says that servers answer and keep sending, which
`SelectedTrackPlays` needs; failures are excluded there and are no fair steps
elsewhere. In `SpiRamFifo` nobody owes a task a call: `WriteReturns` and
`ReadReturns` are conditional on the peer calling again and again. In `FifoSession`
the tasks themselves call: `WF` of the HTTP task's steps and of the decoder's, and
`SF` of a look with room in the decoder's buffer, which libmad makes because the
buffer is as large as the largest frame and what it looks ahead
(`mp3_decoder.c:30`); none for sending, pressing, or ending a stream, and the two liveness
properties hold without condition.

| Specification | `WF` of | Nothing is assumed of |
|---|---|---|
| `FairBufferSpec` | the steps of a call | the HTTP task: a read returns without a byte, a seek when its bytes are there |
| `FairMp4Spec` | the decoder's task, and the server until the file is sent | when `buf_read` gives up; `PlayableIsPlayed` excepts it |
| `FairBtSpec` | sending or timing out, the application task, `render_samples`, the I2S peripheral | the phone |
| `FairLedSpec` | the caller inside a call, the peripheral, the handler | how late an interrupt is; that there is a next call |
| `FairBootSpec` | `app_main`, the event handler, an access point that answers | how often the link is lost, up to the bound |

`http_client` has safety properties only: that a request ends is up to its server.

**Deadlock.** It is checked in `fifo_ring`, `radio_nominal` and `icy_parser`. The
others say `CHECK_DEADLOCK FALSE`, because the system really may stop: a radio
whose streams have all ended and whose button nobody presses, a decoder that has
returned or overrun its buffer, a seek beyond the end of the stream, a demuxer
that has failed; or because the bound on requests, reports, frames, losses or
presses is used up.

## 4. What is proved

For every value of the constants that the assumptions allow (`HttpAssumption`,
`NamesFit` and `ResponsesAssumption` see 2.7, `StartsAssumption` and
`LengthsAssumption` see 2.6; `PlaylistAssumption` says what a line of a playlist is;
the others bound sizes):

| Theorem | Module | Statement |
|---|---|---|
| `FeedsAlone`, `DrainsAlone`, `PlaysSelected` | `RadioControlProofs` | `Spec => []OneWriter`, `[]OneDecoder`, `OnlySelectedTrack` |
| `ResetsAlone` | `RadioControlProofs` | `Spec => ResetWhileNobodyWrites`, given `AnswersTakeTime` |
| `RadioTypeCorrect` | `RadioControlProofs` | `Spec => []TypeOK` |
| `TypeCorrect`, `CopiesFit`, `Agreement`, `NoLostWakeup`, `NoEmbrace` | `FifoProofs` | `Spec => []TypeOK`, `ChunkFits`, `PositionsAgree`, `SleepIsJustified`, `NeverBothAsleep` |
| `ImplementsPipe` | `FifoProofs` | `Spec => PipeSpec`, the refinement |
| `SessionTypeCorrect`, `NeverSleeps`, `ResetServed`, `RoomMade`, `DecisionCurrent` | `FifoProofs` | `SessionSpec => []SessionTypeOK`, `DecoderNeverSleeps`, `ResetIsServed`, `RoomIsMade`, `DecisionIsCurrent` |
| `ImplementsFlushablePipe` | `FifoProofs` | `SessionSpec => FlushablePipe` |
| `BufferTypeCorrect`, `NoByteLost`, `OverrunBounded` | `ReadBufferProofs` | `BufferSpec => []BufferTypeOK`, `UnreadIsNext`, `ExcessIsWhatCame` |
| `ImplementsCursor` | `ReadBufferProofs` | `BufferSpec => CursorSpec`, the refinement |
| `StaysInPlace`, `PlaceLostOnlyBy`, `DemuxerLosesNoByte` | `ReadBufferProofs` | `Mp4Spec => []InPlace`, `LosesPlaceOnlyBy`, `UnreadIsNext` |
| `HttpTypeCorrect`, `OwnsItsDescriptor`, `ReturnsResources` | `HttpClientProofs` | `HttpSpec => []HttpTypeOK`, `OwnDescriptor`, `ResourcesReturned` |
| `HeadersAreBounded`, `HeadersUnderstood` | `HttpClientProofs` | `HttpSpec => []HeadersFit`, `HeadersAsSent` |
| `FollowsPhone` | `BtSpeakerProofs` | `BtSpec => []RendererFollowsPhone`, given `ConfigRate = BufferRate` |
| `TracksAreReported`, `HeapIsAccounted` | `BtSpeakerProofs` | `BtSpec => []TracksReported`, `HeapAccounted` |
| `CallsSeparate`, `ColoursSent` | `Ws2812Proofs` | `LedSpec => []CallsAreSeparate`, `SentAsAsked` |
| `BitIsRight`, `ListIsLoaded` | `BootProofs` | `BootSpec => []BitFollowsLink`, `PlaylistAsListed` |
| `ParserTypeCorrect`, `StaysInStep`, `AudioOnly`, `MetadataOnly` | `IcyMetaProofs` | `Spec => []TypeOK`, `InStep`, `OnlyAudioStored`, `OnlyMetaParsed` |

**The radio's invariant.** `RadioInv` is `TypeOK` and, for a patient listener,
`Control`. That one HTTP task feeds cannot be shown alone: a press while a track
is heard starts a chain (stop command, its acknowledgement, the decoder's stop,
its status, the next HTTP task) each link of which is a plain flag, and an
invariant has to say at every moment where in the chain the flags may be.
`Presses` says when there is a press; `Restarts`, with `Fresh`, that nothing is
left of the last track when an HTTP task is started and until it has its
answer; `OneReader` and `OneDrains` that there is one of each; `Feeds` that a
stop does not reach a decoder that has been heard before the HTTP task that
feeds it has noticed; `Drains` that a decoder that leaves has been told so and
leaves the FIFO empty; `Stops` what the button task may conclude from
`decoder_status`; `Selected` that, as long as the renderer is not stopped, whatever is
in the FIFO or in a decoder is of the selected track. Most steps tell nobody
anything: `ReaderGoesOn` and `DecoderGoesOn` treat them at once.
For `ResetsAlone`, `Answered` adds that a stop is always on its way to a
decoder that will clear it; this is where `AnswersTakeTime` is used.

**The ring's invariant.** The properties are not inductive by themselves.
`PositionsAgree` needs to know that the fill a task is about to store is based
on a load that is still current (`LoadIsCurrent`), which holds because the
mutex is held from the load to the store (`MutexHeld`). `ChunkFits` needs that
there is a byte left to move whenever a size is computed (`BytesLeft`), and
rests on the fact that each side alone moves its own position, which is why the
size may be computed outside the mutex. `SleepIsJustified` says what a missing
token means; with `SizeAssumption` it gives `NeverBothAsleep` at once. For the
refinement, `CopyIsIntact` says that the bytes copied in at `WriteCopy` are
still there when the fill counts them at `WriteCommit`. The step theorem has one
step per action; the refinement maps the initial state, then each action to
`Submit`, `Put`, `Request`, `Get` or a stutter.

**The session's invariant.** Lemma `RingOrReset` shows that every step of a
session is a step of the ring or one of the two halves of a reset, so the
ring's invariant and its refinement are reused and only the reset is new. On
top of them: `Places` (each side of the ring is in use from one place of its
task), `Promise` (what the decoder was told it may read is still there, because
it alone takes bytes), `Life` (only a consumer that has left its stream makes a
decoder leave, so while it streams `decoder_status` tells the truth), `Token`
(the semaphore a reset will take was given by the write that led to the
decoder's creation, and nobody takes it before), and `Room` (without a decoder
the ring is no fuller than counted).

**The parser's invariant.** `InStep` speaks of the moments between two calls. The
invariant adds what holds inside one: `Called` at the head, `InLength` and
`InContent` in `processMetaData`, `Storing` before the data loop, where the
buffer has been cut so that it ends no later than the audio. `Fresh` covers the
time between a new request and its first buffer, when the counters are those of
the abandoned stream. `InContent` carries `buffLen < MaxBuf`, which with
`IcyAssumption` is why the audio after metadata may be stored unexamined.

**The read buffer's invariant.** `BufferInv` is `BufferTypeOK`, `UnreadIsNext`,
`ExcessIsWhatCame` and `Refilling`. The last is what makes the others inductive:
during a refill the bytes are at the front, what was seen in the FIFO is still
there, because only the decoder takes bytes, and a second look happens only when
the first found no more than there is room for. Three lemmas carry the
quantified part of `UnreadIsNext`: `MoveKeepsUnread` for the move to the front,
`CopyContinues` for the copy out of the FIFO, `ForwardKeepsUnread` for seeks and
reads. For the refinement the cursor's position is `bytes_consumed`, and a call
is the one a refill will return to: `Store`, `Seek`, `Read` are steps of the same
name, `SeekLoads` is an `Advance`, `SeekEnds` an `Arrive`, `ReadFails` a
`ReadGivesUp`, `ReadCopies` a `ReadDone`; every step of a refill stutters.

**The demuxer's invariant.** `InPlace` speaks of the moments between two atoms;
`Walking` says what leads from one to the next, also inside a call of the buffer. A
script is a path: `Leads` says that there is a position of the stream, and a
remembered end of the esds, before and after each operation, such that each operation
moves them as `Moves` says. Paths are joined (`LeadsOn`) and their first step
is taken off (`LeadsFirst`), which is all that the steps of a script need and
makes an induction over it unnecessary. `HandlerLeads` is about the code: whatever the
atom (`StsdLeads` for the two entries of a description), its handler's script leads
to its end, for an esds by way of the pointer.
`At` is where the buffer will be when the call under way is done, and no refill changes it
(`CallStepDoes`). `Expects` is the arithmetic of the nested `size_remaining`, with
one lemma for each thing the walk does to the loops: `LoopEntered`,
`LengthTaken`, `LoopLeft`, `FreshCleared`. A length is an atom's as long as
the demuxer is in place, because the server sends no more than the file
(`Calling`), so what has been read was in it. `BufferInv` holds for a client that
asks for any length (`BufferStepInv`), and so for this one, lost or not.

**The connections' invariant.** `HttpInv` adds three parts to the types. `Ownership`
ties what a task knows (`sock`) to what is open (`owner`), in both directions: a
task that uses a number owns it until a `write()` has failed, and an open
descriptor is known to its owner until an `asprintf` has. `AddressLists` says from
where to where a list is allocated, `UrlFreed` after which failures the struct of the
url is lost. `CloseGivesBack` is the one fact the steps
share: a `close` concerns nobody else's descriptor. Lemmas that keep the
ownership cover all the steps that only touch headers.

**The headers' invariant.** `HeaderInv` says what the buffers hold at each place of
a response where a piece may end: `Collected` distinguishes a key of which n words have
come (`CollectsKey`) from a value (`CollectsValue`), and, since a value is complete
only when the next key begins, a value that has come as a whole from one that has
been understood. `Understood` is what the radio knows after the first n headers.
`StateAt` is `hdr_state` at that place and `NothingLeft` that the buffers not in use are
empty. `PieceIsAdded` is the lemma about `copied`, which cuts a piece
that does not fit: a text of n words is held as its first `KvLen - 1`, and the
buffer is overrun only if a piece follows that cut. `KeyIsRecognized` and
`ValueCompletes` carry `Understood` over a header. After a broken response nothing of
this need hold until the next response is complete, so it has `broke` as an exception,
as the properties have.

**The speaker's invariants.** For each of three topics (audio, rate, track), `Told`
relates what the phone wants to the newest message about the topic, wherever it is:
being sent, in the queue, or being handled; when there is none, to the renderer
and the phone's registration (`Settled`). A lost message puts its topic on `missed`
until another on the same topic is in the queue. `Switched` covers the two steps of
`renderer_start` and `renderer_stop`. The rate is only right if the rate that
`bt_app_a2d_data_cb` hands over (`bt_buffer_fmt`, 44100) is the one of
`create_renderer_config`, so that `render_samples` never sets the clock itself; in
the code both are 44100. For the heap, `HeapInv` keeps the sum of
`HeapAccounted`, in which `InQueue` counts the blocks of the messages in the queue;
`InQueueAppended` and `InQueueTaken` say how it changes with the queue.

**The LED driver's invariants.** `Separate` says that between two transmissions
peripheral and handler are quiet, the semaphore being given when they have become
so, and gives `CallsAreSeparate` however late an interrupt is. While none is late,
`SendingFrom` says where in which half the peripheral is, and `Loaded` what the halves
hold: the half being sent the bytes from k on, the other one those after it, unless
its refill is due. `Wanted` is the k-th byte of the call and, after the last, the zero that ends
the transmission.

**The boot's invariants.** For the link, `LastEventDecides` relates the bit to the
station through the events still queued: the last of them says whether the
station has an address, so the bit does when none is left. It needs `StartsOnce`,
because the event of the start says nothing about an address and must be handled
before another is queued, and `AddressFirst` for the second half of
`BitFollowsLink`. For the playlist, `Loaded` says what the lines read so far make of
the vector: its size is the largest number among them (`Largest`), each field is
the value of the last line that gives it (`Latest`). `NumbersAreNext` turns
`wellFormed` into what the handler relies on, a number that is at most one more
than the size; `LatestNow`, `LatestLater` and `LatestNone` carry `Latest` over a
line; `MaxIs` and `LatestIsListed` connect both to `Max` and `listed` at the end.

**Only model-checked:** liveness (`WriteReturns`, `ReadReturns`,
`EveryWriteReturns`, `StopIsObeyed`, `SelectedTrackPlays`, `CallsReturn`,
`PlayableIsPlayed`, `CallbackReturns`, `SetColorsReturns`, `RadioStarts`: fairness
and `ENABLED` are beyond the prover).

## Findings

| Run | What the code does | What the repository says |
|---|---|---|
| `radio_next_after_end` | after a stream has ended nobody is left to take `CMD_STOP`; the next track's HTTP task takes it and discards its own stream | `README.md:62` the button advances to the next track |

The modules state more that the code does not keep. These properties are no part
of a run; each is violated within seconds under the configuration named when it
takes the place of the properties there (with `CHECK_DEADLOCK FALSE`).

| Property | Configuration | What the code does | What the repository says |
|---|---|---|---|
| `ReaderTerminates` (`RadioControl`) | `radio_nominal.cfg` with `ServersHangUp = FALSE` | the -1 of `audio_stream_consumer` puts the parser in an error state but `http_parser_execute` never returns a negative number, so `http.c:126` reads on for as long as the server sends | `web_radio.c:206` "reader task terminates itself" |
| `NextTrackPlays` (`RadioControl`) | `radio_nominal.cfg` with `Formats <- FirstAac` or `FirstMp4` | the AAC and MP4 decoders neither obey a stop nor report one; the button task waits for ever | `README.md:8`, `README.md:62` |
| `ButtonAnswers` (`RadioControl`) | `radio_nominal.cfg` with `MaxHasty = 1` | a press before any decoder was started waits for a status nobody will set | `README.md:62` |
| `AllFramesConsumed` (`RadioControl`) | `radio_nominal.cfg` with `EndingTracks = {0, 1}` | `input` looks at the fill before `eof`; bytes in between are discarded by the reset | `mp3_decoder.c:68` "when all frames have been consumed" |
| `BufferedStreamIsDecoded` (`RadioControl`) | `radio_next_after_end.cfg` | `eof` is set after the last call of the consumer that looks at it | `audio_player.c:78` "starts decoder task if necessary" |
| `KeepsTitle` (`IcyMeta`) | `icy_parser.cfg` | metadata of length 0 stores a terminator at the start of the title | `spiram_fifo.c:160` "Persist previous meta if no meta content received" |
| `FillFits` (`ReadBuffer`) | `read_buffer.cfg` | `min` looks at the fill twice; a store in between makes the copy longer than the room | `common_buffer.h` "available unused capacity" |
| `SkipsRemainder` (`Mp4Demux`) | `mp4_demux.cfg` | `j` is a pointer into a buffer whose bytes the reads in between may move to the front | `demux.c:162` "will skip the remainder of the atom" |

## 5. Not modelled, and why

- The codec libraries and http_parser are third-party code and appear only through
  what the tasks do with them. They are most of the lines of the repository.
- The amplifier driver is a list of register writes. Of the URL parser only what it
  allocates is modelled.
- `task_ui` and its queue: `init_hardware` does not call `ui_init`, so nothing of
  them runs, and `ui_queue_event` does nothing.
- The SPI RAM variant of the ring is compiled out.
- Of `mp3_decoder.c` the failed allocations (lines 121-124); of `libfaad_decoder.c` the
  set-up of libfaad (lines 157-211), beyond that it may fail, and what FreeRTOS does
  with a task that returns.
- What follows a write through a null pointer: a metadata text without memory
  (`bt_app_av.c:76`), a playlist entry of number 0.
- Of `demux.c` sample descriptions of more than two entries, the values stored in `res`,
  failed allocations, a first atom of length
  1, and `stream_seek`, whose only caller is unreachable; `m4a_seek` and `m4a_seek_raw`
  have no caller.
- The conversion of samples in `audio_renderer.c`.
- Icy intervals shorter than a receive buffer (`IcyAssumption`): what follows
  metadata in a buffer is stored without looking for the next.

## 6. Plan

The model is complete as far as the code that runs is the project's own, and every
safety property the runs check is proved. What remains is to prove more about the
parts that are only checked as steps of other components: that the audio task and
the callbacks of `BtSpeaker` keep the order of tracks, and a refinement of the
demuxer by an abstract walk over the tree of atoms.
