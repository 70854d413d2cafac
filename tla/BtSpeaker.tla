--------------------------------- MODULE BtSpeaker ---------------------------------
(***************************************************************************)
(* The Bluetooth speaker (bt_speaker.c, bt_app_core.c, bt_app_av.c).  The  *)
(* Bluetooth stack's task reports events; each is copied to the heap and   *)
(* sent to the application task, which starts and stops the renderer.      *)
(* Another task of the stack hands the samples to render_samples.          *)
(*                                                                         *)
(* The phone is outside: it links, configures, plays, pauses, changes its  *)
(* track and unlinks as A2DP and AVRCP let it.  The text of a metadata     *)
(* response is a block of the heap.                                        *)
(***************************************************************************)
EXTENDS Renderer, Sequences, FiniteSets

CONSTANTS
  QueueLength,     \* of bt_app_task_queue: 10
  Attributes,      \* metadata a track change asks for: 4
  MaxReports       \* bound: events the stack reports

ASSUME BtAssumption ==
  QueueLength \in Nat \ {0} /\ Attributes \in Nat /\ MaxReports \in Nat

VARIABLES
  queue,                       \* bt_app_task_queue
  sending, handled,            \* message of the stack's task, of the application's
  apc,                         \* where the application task is
  heap,                        \* blocks allocated and not freed
  up,                          \* the callbacks are registered
  linked, streaming, rate,     \* phone: A2DP
  avrc, asked, notify,         \* phone: AVRCP, answers due, registered for a change
  leaked,                      \* blocks of messages that never got into the queue
  missed,                      \* what is no longer known since a message was lost
  reports

phoneVars == <<linked, streaming, rate, avrc, asked, notify>>
appVars == <<handled, apc, up>>
lossVars == <<leaked, missed>>
btVars == <<rendererVars, queue, sending, appVars, heap, phoneVars, lossVars, reports>>

Msg(event, val) == [event |-> event, val |-> val]
None == Msg("none", 0)

(* What a message keeps on the heap: its parameter, and a metadata         *)
(* response also its text.                                                 *)
blocks(m) == CASE m.event \in {"none", "stack_up"} -> 0
               [] m.event = "metadata" -> 2
               [] OTHER -> 1

(* What a message tells, in the sense of missed.                           *)
topic(m) == CASE m.event = "audio" \/ m = Msg("connection", FALSE) -> {"audio"}
              [] m.event = "cfg" -> {"cfg"}
              [] m = Msg("avrc", TRUE) \/ m.event = "change" -> {"track"}
              [] OTHER -> {}

(* bt_speaker_start has started the task and sent it the first message.    *)
BtInit ==
  /\ RendererInit
  /\ queue = <<Msg("stack_up", 0)>> /\ sending = None
  /\ handled = None /\ apc = "receive"
  /\ heap = 0 /\ up = FALSE
  /\ linked = FALSE /\ streaming = FALSE /\ rate = 0
  /\ avrc = FALSE /\ asked = 0 /\ notify = FALSE
  /\ leaked = 0 /\ missed = {} /\ reports = 0

-----------------------------------------------------------------------------
(* The stack's task: bt_app_a2d_cb, bt_app_rc_ct_cb and                    *)
(* bt_app_work_dispatch                                                    *)

(* The event is copied to the heap, or, when there is no memory for the    *)
(* parameter, forgotten; the text of a metadata response stays behind.     *)
dispatch(m) ==
  /\ up /\ sending = None /\ reports < MaxReports
  /\ reports' = reports + 1
  /\ \/ /\ sending' = m /\ heap' = heap + blocks(m)
        /\ UNCHANGED lossVars
     \/ /\ UNCHANGED sending
        /\ heap' = heap + (blocks(m) - 1) /\ leaked' = leaked + (blocks(m) - 1)
        /\ missed' = missed \cup topic(m)
  /\ UNCHANGED <<rendererVars, queue, appVars>>

Connect ==
  /\ ~linked /\ linked' = TRUE
  /\ dispatch(Msg("connection", TRUE))
  /\ UNCHANGED <<streaming, rate, avrc, asked, notify>>

Configure(r) ==
  /\ linked /\ ~streaming /\ rate' = r
  /\ dispatch(Msg("cfg", r))
  /\ UNCHANGED <<linked, streaming, avrc, asked, notify>>

Play ==
  /\ linked /\ ~streaming /\ rate # 0 /\ streaming' = TRUE
  /\ dispatch(Msg("audio", "STARTED"))
  /\ UNCHANGED <<linked, rate, avrc, asked, notify>>

Pause(how) ==
  /\ streaming /\ streaming' = FALSE
  /\ dispatch(Msg("audio", how))
  /\ UNCHANGED <<linked, rate, avrc, asked, notify>>

(* The audio link goes, without a report that the stream has stopped.      *)
Disconnect ==
  /\ linked /\ ~avrc
  /\ linked' = FALSE /\ streaming' = FALSE /\ rate' = 0
  /\ dispatch(Msg("connection", FALSE))
  /\ UNCHANGED <<avrc, asked, notify>>

AvrcConnect ==
  /\ linked /\ ~avrc /\ avrc' = TRUE
  /\ dispatch(Msg("avrc", TRUE))
  /\ UNCHANGED <<linked, streaming, rate, asked, notify>>

AvrcDisconnect ==
  /\ avrc /\ avrc' = FALSE /\ asked' = 0 /\ notify' = FALSE
  /\ dispatch(Msg("avrc", FALSE))
  /\ UNCHANGED <<linked, streaming, rate>>

(* A registration is good for one change.                                  *)
TrackChanges ==
  /\ avrc /\ notify /\ notify' = FALSE
  /\ dispatch(Msg("change", 0))
  /\ UNCHANGED <<linked, streaming, rate, avrc, asked>>

(* bt_app_alloc_meta_buffer.  Without memory for the text it would copy to *)
(* a null pointer and the system restarts: not followed.                   *)
Answers ==
  /\ avrc /\ asked > 0 /\ asked' = asked - 1
  /\ dispatch(Msg("metadata", 0))
  /\ UNCHANGED <<linked, streaming, rate, avrc, notify>>

Reports ==
  \/ Connect \/ Disconnect \/ Play
  \/ (\E r \in Rates : Configure(r))
  \/ (\E how \in {"REMOTE_SUSPEND", "STOPPED"} : Pause(how))
  \/ AvrcConnect \/ AvrcDisconnect \/ TrackChanges \/ Answers

(* bt_app_send_msg                                                         *)
Sends ==
  /\ sending # None /\ Len(queue) < QueueLength
  /\ queue' = Append(queue, sending) /\ sending' = None
  /\ missed' = missed \ topic(sending)
  /\ UNCHANGED <<rendererVars, appVars, heap, phoneVars, leaked, reports>>

(* The queue stays full for 10 ms: the message is dropped, not its blocks. *)
SendTimesOut ==
  /\ sending # None /\ Len(queue) = QueueLength
  /\ sending' = None
  /\ leaked' = leaked + blocks(sending)
  /\ missed' = missed \cup topic(sending)
  /\ UNCHANGED <<rendererVars, queue, appVars, heap, phoneVars, reports>>

-----------------------------------------------------------------------------
(* bt_app_task_handler and the handlers it calls                           *)

AppReceives ==
  /\ apc = "receive" /\ queue # <<>>
  /\ handled' = Head(queue) /\ queue' = Tail(queue)
  /\ apc' = "handle"
  /\ UNCHANGED <<rendererVars, sending, heap, up, phoneVars, lossVars, reports>>

handling(event) == apc = "handle" /\ handled.event = event
untouched == UNCHANGED <<queue, sending, handled, lossVars, reports>>

(* The callbacks are registered, and the speaker can be found.             *)
StackUp ==
  /\ handling("stack_up") /\ up' = TRUE /\ apc' = "free"
  /\ UNCHANGED <<rendererVars, heap, phoneVars>> /\ untouched

starts == handled = Msg("audio", "STARTED")

(* Mutant: a suspended stream does not stop the renderer.                  *)
stops_NotSuspended == handled \in {Msg("connection", FALSE), Msg("audio", "STOPPED")}

stops == handled \in {Msg("connection", FALSE), Msg("audio", "REMOTE_SUSPEND"),
                      Msg("audio", "STOPPED")}

(* renderer_start and renderer_stop, and nothing when the renderer is in   *)
(* that state already.                                                     *)
StartsRenderer ==
  /\ apc = "handle" /\ starts /\ renderer_status # "RUNNING"
  /\ renderer_start /\ apc' = "start"
  /\ UNCHANGED <<clockVars, renderVars, heap, up, phoneVars>> /\ untouched

StopsRenderer ==
  /\ apc = "handle" /\ stops /\ renderer_status # "STOPPED"
  /\ renderer_stop /\ apc' = "stop"
  /\ UNCHANGED <<clockVars, renderVars, heap, up, phoneVars>> /\ untouched

SwitchesI2s ==
  /\ apc \in {"start", "stop"}
  /\ IF apc = "start" THEN i2s_start ELSE i2s_stop
  /\ apc' = "free"
  /\ UNCHANGED <<clockVars, renderVars, heap, up, phoneVars>> /\ untouched

LeavesRenderer ==
  /\ apc = "handle" /\ handled.event \in {"connection", "audio"}
  /\ ~(starts /\ renderer_status # "RUNNING")
  /\ ~(stops /\ renderer_status # "STOPPED")
  /\ apc' = "free"
  /\ UNCHANGED <<rendererVars, heap, up, phoneVars>> /\ untouched

(* i2s_set_clk; the renderer's own sample_rate stays.                      *)
SetsClock ==
  /\ handling("cfg") /\ clock' = handled.val /\ apc' = "free"
  /\ UNCHANGED <<statusVars, sample_rate, renderVars, heap, up, phoneVars>> /\ untouched

(* Mutant: the metadata is asked for, and no registration renewed.         *)
bt_av_new_track_Once ==
  /\ asked' = IF avrc THEN Attributes ELSE asked
  /\ UNCHANGED <<linked, streaming, rate, avrc, notify>>

(* The metadata of the track, and a notice when it changes; a phone that   *)
(* is gone hears neither.                                                  *)
bt_av_new_track ==
  /\ asked' = IF avrc THEN Attributes ELSE asked
  /\ notify' = avrc
  /\ UNCHANGED <<linked, streaming, rate, avrc>>

AvrcEvent ==
  /\ handling("avrc") \/ handling("change")
  /\ IF handled = Msg("avrc", FALSE) THEN UNCHANGED phoneVars ELSE bt_av_new_track
  /\ apc' = "free"
  /\ UNCHANGED <<rendererVars, heap, up>> /\ untouched

(* Mutant: the text is not freed.                                          *)
FreesText_Keeps ==
  /\ handling("metadata") /\ apc' = "free"
  /\ UNCHANGED <<rendererVars, heap, up, phoneVars>> /\ untouched

FreesText ==
  /\ handling("metadata") /\ heap' = heap - 1 /\ apc' = "free"
  /\ UNCHANGED <<rendererVars, up, phoneVars>> /\ untouched

FreesParam ==
  /\ apc = "free"
  /\ heap' = heap - (IF blocks(handled) > 0 THEN 1 ELSE 0)
  /\ handled' = None /\ apc' = "receive"
  /\ UNCHANGED <<rendererVars, queue, sending, up, phoneVars, lossVars, reports>>

AppStep ==
  \/ AppReceives \/ StackUp
  \/ StartsRenderer \/ StopsRenderer \/ SwitchesI2s \/ LeavesRenderer \/ SetsClock
  \/ AvrcEvent \/ FreesText \/ FreesParam

-----------------------------------------------------------------------------
(* bt_app_a2d_data_cb: bt_buffer_fmt says 44100 Hz, whatever was agreed.   *)
BufferRate == 44100

DataArrives ==
  /\ up /\ streaming
  /\ \E n \in 1..MaxSamples : RenderSamples(n, BufferRate)

others == UNCHANGED <<queue, sending, appVars, heap, phoneVars, lossVars, reports>>

BtNext ==
  \/ Reports \/ Sends \/ SendTimesOut
  \/ AppStep
  \/ (DataArrives \/ RenderStep \/ Plays) /\ others

BtSpec == BtInit /\ [][BtNext]_btVars

(* The tasks are run and the peripheral plays; the phone need do nothing.  *)
FairBtSpec ==
  /\ BtSpec
  /\ WF_btVars(Sends \/ SendTimesOut) /\ WF_btVars(AppStep)
  /\ WF_btVars(RenderStep /\ others) /\ WF_btVars(Plays /\ others)

-----------------------------------------------------------------------------
queued(event) == Cardinality({i \in DOMAIN queue : queue[i].event = event})

(* Every block on the heap belongs to a message on its way, or was leaked  *)
(* by one that never reached the queue; none is freed twice.               *)
HeapAccounted ==
  heap = leaked + blocks(sending) + Len(queue) - queued("stack_up") + queued("metadata")
         + (IF apc \in {"start", "stop", "free"} /\ blocks(handled) > 0
            THEN 1 ELSE blocks(handled))

drained == queue = <<>> /\ sending = None /\ apc = "receive"

(* Once every message is handled, the renderer does what the phone wants:  *)
(* it runs exactly while the phone plays, at the rate the phone chose.     *)
(* A message that is lost spoils this until one on the same topic is not.  *)
RendererFollowsPhone ==
  drained =>
    /\ "audio" \notin missed => (renderer_status = "RUNNING") = streaming
    /\ i2s_on = (renderer_status = "RUNNING")
    /\ "cfg" \notin missed /\ rate # 0 => clock = rate

(* Once every message is handled, a linked phone has a registration for    *)
(* the next change of track, unless a message about tracks was lost.       *)
TracksReported == drained /\ avrc /\ "track" \notin missed => notify

(* The stack's data task gets out of render_samples, unless what should    *)
(* have started or stopped the renderer was lost.                          *)
CallbackReturns == rpc # "idle" ~> rpc = "idle" \/ "audio" \in missed

=============================================================================
