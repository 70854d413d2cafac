------------------------------ MODULE BtSpeakerProofs ------------------------------
(***************************************************************************)
(* The Bluetooth speaker, for any length of the queue, any rates and any   *)
(* number of reports: what the phone wants is known at every moment from   *)
(* the newest message about it, until that message is handled, and then    *)
(* from the renderer and the phone itself.  The last part is about the     *)
(* heap.                                                                   *)
(***************************************************************************)
EXTENDS BtSpeaker, FiniteSetTheorems, FunctionTheorems, SequenceTheorems,
        TLAPS

-----------------------------------------------------------------------------
(* Types                                                                   *)

Message ==
  {None, Msg("stack_up", 0), Msg("connection", TRUE), Msg("connection", FALSE),
   Msg("audio", "STARTED"), Msg("audio", "REMOTE_SUSPEND"), Msg("audio", "STOPPED"),
   Msg("avrc", TRUE), Msg("avrc", FALSE), Msg("change", 0), Msg("metadata", 0)}
  \cup {Msg("cfg", r) : r \in Rates}

Topics == {"audio", "cfg", "track"}

BtTypeOK ==
  /\ queue \in Seq(Message) /\ sending \in Message /\ handled \in Message
  /\ apc \in {"receive", "handle", "start", "stop", "free"}
  /\ {streaming, avrc, notify, i2s_on} \subseteq BOOLEAN
  /\ missed \subseteq Topics

(* The invariant.  What message m says about topic t is so:                *)
Right(m, t) ==
  CASE t = "audio" -> streaming <=> m = Msg("audio", "STARTED")
    [] t = "cfg" -> rate # 0 => m.val = rate
    [] t = "track" -> TRUE

(* and what the renderer, or the phone, was last told about it is so.      *)
Settled(t) ==
  CASE t = "audio" -> streaming <=> renderer_status = "RUNNING"
    [] t = "cfg" -> rate # 0 /\ ConfigRate = BufferRate => clock = rate
    [] t = "track" -> avrc => notify

Newest(i, t) ==
  /\ t \in topic(queue[i])
  /\ \A j \in 1..Len(queue) : i < j => t \notin topic(queue[j])

Silent(t) == \A i \in 1..Len(queue) : t \notin topic(queue[i])

Outcome(t) ==
  IF apc = "handle" /\ t \in topic(handled) THEN Right(handled, t) ELSE Settled(t)

(* The newest message about t is right: the one that is being sent,        *)
(* whatever was lost before it, else the last in the queue, else the one   *)
(* that is being handled; and if there is none, all is settled.            *)
Told(t) ==
  /\ t \in topic(sending) => Right(sending, t)
  /\ t \notin missed /\ t \notin topic(sending) =>
       /\ \A i \in 1..Len(queue) : Newest(i, t) => Right(queue[i], t)
       /\ Silent(t) => Outcome(t)

(* renderer_start and renderer_stop are two steps each.                    *)
Switched ==
  /\ apc = "start" => renderer_status = "RUNNING"
  /\ apc = "stop" => renderer_status = "STOPPED"
  /\ apc \notin {"start", "stop"} => (i2s_on <=> renderer_status = "RUNNING")

(* The renderer's own rate is the one it is configured with, and if that   *)
(* is also the rate in bt_buffer_fmt, no sample changes the clock.         *)
BtInv ==
  /\ BtTypeOK /\ Switched
  /\ ConfigRate = BufferRate => sample_rate = ConfigRate
  /\ \A t \in Topics : Told(t)

(* Which messages are about what.                                          *)
LEMMA TopicOf ==
  ASSUME NEW m \in Message
  PROVE  /\ topic(m) \subseteq Topics
         /\ "audio" \in topic(m) <=> m.event = "audio" \/ m = Msg("connection", FALSE)
         /\ "cfg" \in topic(m) <=> m.event = "cfg"
         /\ "track" \in topic(m) <=> m.event = "change" \/ m = Msg("avrc", TRUE)
         /\ m.event \in {"none", "stack_up", "metadata"} => topic(m) = {}
  BY DEF Message, Msg, None, topic, Topics

LEMMA BtInitInv == BtInit => BtInv
<1> SUFFICES ASSUME BtInit PROVE BtInv
  OBVIOUS
<1>1. Msg("stack_up", 0) \in Message /\ None \in Message
  BY DEF Message
<1>2. queue \in Seq(Message) /\ Len(queue) = 1 /\ queue[1] = Msg("stack_up", 0)
  BY <1>1 DEF BtInit
<1>3. topic(None) = {} /\ topic(Msg("stack_up", 0)) = {}
  BY <1>1, TopicOf DEF Msg, None
<1>4. BtTypeOK /\ Switched
  BY <1>1, <1>2 DEF BtInit, RendererInit, BtTypeOK, Switched
<1>5. ASSUME NEW t \in Topics PROVE Told(t)
  <2>1. Settled(t)
    BY DEF BtInit, RendererInit, Settled, Topics
  <2> QED BY <1>2, <1>3, <2>1 DEF BtInit, Told, Newest, Outcome
<1> QED BY <1>4, <1>5 DEF BtInv, BtInit, RendererInit

-----------------------------------------------------------------------------
(* The stack's task                                                        *)

(* A report: the phone has changed at most what its message is about.      *)
LEMMA Dispatched ==
  ASSUME BtInv, NEW m \in Message, dispatch(m),
         {streaming', avrc', notify'} \subseteq BOOLEAN,
         \A t \in Topics : t \in topic(m) => Right(m, t)',
         \A t \in Topics : t \notin topic(m) =>
           (\A n \in Message : Right(n, t) => Right(n, t)') /\ (Settled(t) => Settled(t)')
  PROVE  BtInv'
<1>1. /\ sending = None
      /\ UNCHANGED <<rendererVars, queue, appVars>>
      /\ \/ sending' = m /\ missed' = missed
         \/ sending' = None /\ missed' = missed \cup topic(m)
  BY DEF dispatch, lossVars
<1>2. topic(None) = {} /\ topic(m) \subseteq Topics /\ None \in Message
  BY TopicOf DEF Msg, None, Message
<1>3. BtTypeOK' /\ Switched'
  BY <1>1, <1>2 DEF BtInv, BtTypeOK, Switched, rendererVars, statusVars, appVars
<1>4. ASSUME NEW t \in Topics PROVE Told(t)'
  <2>1. CASE t \in topic(m)
    BY <1>1, <1>2, <2>1 DEF Told
  <2>2. CASE t \notin topic(m)
    <3>1. \A i \in 1..Len(queue) : queue[i] \in Message
      BY DEF BtInv, BtTypeOK
    <3>2. t \notin topic(sending) /\ t \notin topic(sending')
      BY <1>1, <1>2, <2>2
    <3>3. UNCHANGED Silent(t) /\ \A i \in 1..Len(queue) : UNCHANGED Newest(i, t)
      BY <1>1 DEF Silent, Newest
    <3>4. t \notin missed' => t \notin missed
      BY <1>1
    <3>5. Outcome(t) => Outcome(t)'
      BY <1>1, <2>2 DEF Outcome, BtInv, BtTypeOK, appVars, Right
    <3> QED
      BY <1>1, <2>2, <3>1, <3>2, <3>3, <3>4, <3>5 DEF Told, BtInv, Right
  <2> QED BY <2>1, <2>2
<1> QED BY <1>1, <1>3, <1>4 DEF BtInv, rendererVars, clockVars

LEMMA ReportsInv == BtInv /\ Reports => BtInv'
<1> SUFFICES ASSUME BtInv, Reports PROVE BtInv'
  OBVIOUS
<1>1. \A m : dispatch(m) => UNCHANGED <<renderer_status, clock>>
  BY DEF dispatch, rendererVars, statusVars, clockVars
<1> USE <1>1 DEF BtInv, BtTypeOK, Right, Settled, Topics
<1>2. CASE Connect
  <2>1. Msg("connection", TRUE) \in Message /\ topic(Msg("connection", TRUE)) = {}
    BY DEF Message, Msg, topic
  <2> QED BY <1>2, <2>1, Dispatched DEF Connect
<1>3. ASSUME NEW r \in Rates, Configure(r) PROVE BtInv'
  <2>1. Msg("cfg", r) \in Message /\ topic(Msg("cfg", r)) = {"cfg"} /\ Msg("cfg", r).val = r
    BY DEF Message, Msg, topic
  <2> QED BY <1>3, <2>1, Dispatched DEF Configure
<1>4. CASE Play
  <2>1. Msg("audio", "STARTED") \in Message /\ topic(Msg("audio", "STARTED")) = {"audio"}
    BY DEF Message, Msg, topic
  <2> QED BY <1>4, <2>1, Dispatched DEF Play
<1>5. ASSUME NEW how \in {"REMOTE_SUSPEND", "STOPPED"}, Pause(how) PROVE BtInv'
  <2>1. /\ Msg("audio", how) \in Message /\ topic(Msg("audio", how)) = {"audio"}
        /\ Msg("audio", how) # Msg("audio", "STARTED")
    BY DEF Message, Msg, topic
  <2> QED BY <1>5, <2>1, Dispatched DEF Pause
<1>6. CASE Disconnect
  <2>1. /\ Msg("connection", FALSE) \in Message /\ topic(Msg("connection", FALSE)) = {"audio"}
        /\ Msg("connection", FALSE) # Msg("audio", "STARTED")
    BY DEF Message, Msg, topic
  <2> QED BY <1>6, <2>1, Dispatched DEF Disconnect
<1>7. CASE AvrcConnect
  <2>1. Msg("avrc", TRUE) \in Message /\ topic(Msg("avrc", TRUE)) = {"track"}
    BY DEF Message, Msg, topic
  <2> QED BY <1>7, <2>1, Dispatched DEF AvrcConnect
<1>8. CASE AvrcDisconnect
  <2>1. Msg("avrc", FALSE) \in Message /\ topic(Msg("avrc", FALSE)) = {}
    BY DEF Message, Msg, topic
  <2> QED BY <1>8, <2>1, Dispatched DEF AvrcDisconnect
<1>9. CASE TrackChanges
  <2>1. Msg("change", 0) \in Message /\ topic(Msg("change", 0)) = {"track"}
    BY DEF Message, Msg, topic
  <2> QED BY <1>9, <2>1, Dispatched DEF TrackChanges
<1>10. CASE Answers
  <2>1. Msg("metadata", 0) \in Message /\ topic(Msg("metadata", 0)) = {}
    BY DEF Message, Msg, topic
  <2> QED BY <1>10, <2>1, Dispatched DEF Answers
<1> QED BY <1>2, <1>3, <1>4, <1>5, <1>6, <1>7, <1>8, <1>9, <1>10 DEF Reports

(* The message is now the last of the queue, or lost.                      *)
LEMMA SendsInv ==
  ASSUME BtInv, Sends \/ SendTimesOut
  PROVE  BtInv'
<1>1. /\ sending' = None /\ None \in Message /\ topic(None) = {}
      /\ \/ queue' = Append(queue, sending) /\ missed' = missed \ topic(sending)
         \/ queue' = queue /\ missed' = missed \cup topic(sending)
      /\ UNCHANGED <<rendererVars, appVars, phoneVars>>
  BY DEF Sends, SendTimesOut, None, Msg, topic, Message
<1>2. topic(sending) \subseteq Topics
  BY TopicOf DEF BtInv, BtTypeOK
<1>3. BtTypeOK' /\ Switched' /\ (ConfigRate = BufferRate => sample_rate' = ConfigRate)
  BY <1>1, <1>2, AppendProperties
  DEF BtInv, BtTypeOK, Switched, rendererVars, statusVars, clockVars, appVars, phoneVars
<1>4. ASSUME NEW t \in Topics PROVE Told(t)'
  <2>1. /\ \A n : Right(n, t)' <=> Right(n, t)
        /\ Outcome(t)' <=> Outcome(t)
    BY <1>1 DEF Right, Outcome, Settled, appVars, phoneVars, rendererVars, statusVars, clockVars
  <2>2. CASE queue' = queue
    <3>1. Silent(t)' = Silent(t) /\ \A i \in 1..Len(queue) : Newest(i, t)' = Newest(i, t)
      BY <2>2 DEF Silent, Newest
    <3> QED BY <1>1, <2>1, <2>2, <3>1 DEF Told, BtInv
  <2>3. CASE queue' = Append(queue, sending) /\ missed' = missed \ topic(sending)
    <3>1. /\ Len(queue') = Len(queue) + 1 /\ Len(queue) \in Nat
          /\ queue'[Len(queue) + 1] = sending
          /\ \A i \in 1..Len(queue) : queue'[i] = queue[i]
      BY <2>3, AppendProperties, LenProperties DEF BtInv, BtTypeOK
    <3>2. CASE t \in topic(sending)
      <4>1. ~Silent(t)'
        BY <3>1, <3>2 DEF Silent
      <4>2. \A i \in 1..Len(queue') : Newest(i, t)' => i = Len(queue) + 1
        BY <3>1, <3>2 DEF Newest
      <4> QED BY <1>1, <2>1, <3>1, <3>2, <4>1, <4>2 DEF Told, BtInv
    <3>3. CASE t \notin topic(sending)
      <4>1. Silent(t)' => Silent(t)
        BY <3>1, <3>3 DEF Silent
      <4>2. \A i \in 1..Len(queue') : Newest(i, t)' => i \in 1..Len(queue) /\ Newest(i, t)
        BY <3>1, <3>3 DEF Newest
      <4> QED BY <1>1, <2>1, <2>3, <3>1, <3>3, <4>1, <4>2 DEF Told, BtInv
    <3> QED BY <3>2, <3>3
  <2> QED BY <1>1, <2>2, <2>3
<1> QED BY <1>3, <1>4 DEF BtInv

-----------------------------------------------------------------------------
(* The application task                                                    *)

(* What was first in the queue is handled.                                 *)
LEMMA ReceivesInv ==
  ASSUME BtInv, AppReceives
  PROVE  BtInv'
<1>1. /\ apc = "receive" /\ apc' = "handle" /\ handled' = Head(queue) /\ queue' = Tail(queue)
      /\ UNCHANGED <<rendererVars, sending, phoneVars, missed>>
  BY DEF AppReceives, lossVars
<1>2. /\ Head(queue) = queue[1] /\ Head(queue) \in Message
      /\ Len(queue) \in Nat \ {0}
      /\ Tail(queue) \in Seq(Message) /\ Len(Tail(queue)) = Len(queue) - 1
      /\ \A i \in 1..Len(Tail(queue)) : Tail(queue)[i] = queue[i + 1]
  BY HeadTailProperties, EmptySeq DEF AppReceives, BtInv, BtTypeOK
<1>3. BtTypeOK' /\ Switched' /\ (ConfigRate = BufferRate => sample_rate' = ConfigRate)
  BY <1>1, <1>2
  DEF BtInv, BtTypeOK, Switched, rendererVars, statusVars, clockVars, phoneVars
<1>4. ASSUME NEW t \in Topics PROVE Told(t)'
  <2>1. /\ \A n : Right(n, t)' <=> Right(n, t)
        /\ Settled(t)' <=> Settled(t)
    BY <1>1 DEF Right, Settled, phoneVars, rendererVars, statusVars, clockVars
  <2>2. \A i \in 1..Len(queue') : Newest(i, t)' => Newest(i + 1, t)
    <3> SUFFICES ASSUME NEW i \in 1..Len(queue'), Newest(i, t)' PROVE Newest(i + 1, t)
      OBVIOUS
    <3>1. \A j \in 1..Len(queue) : i + 1 < j => j - 1 \in 1..Len(queue') /\ queue'[j - 1] = queue[j]
      BY <1>1, <1>2
    <3> QED BY <1>1, <1>2, <3>1 DEF Newest
  <2>3. Silent(t)' => \A j \in 2..Len(queue) : t \notin topic(queue[j])
    <3>1. \A j \in 2..Len(queue) : j - 1 \in 1..Len(queue') /\ queue'[j - 1] = queue[j]
      BY <1>1, <1>2
    <3> QED BY <3>1 DEF Silent
  <2>4. Silent(t)' => Silent(t) \/ Newest(1, t)
    BY <1>2, <2>3 DEF Silent, Newest
  <2>5. t \notin topic(handled') => ~Newest(1, t)
    BY <1>1, <1>2 DEF Newest
  <2>6. t \in topic(handled') => ~Silent(t)
    BY <1>1, <1>2 DEF Silent
  <2> QED
    BY <1>1, <1>2, <2>1, <2>2, <2>4, <2>5, <2>6 DEF Told, Outcome, BtInv
<1> QED BY <1>3, <1>4 DEF BtInv

(* A step of a handler carries out what the message says, or keeps what    *)
(* has been carried out.                                                   *)
LEMMA Handles ==
  ASSUME BtInv, BtTypeOK', Switched', ConfigRate = BufferRate => sample_rate' = sample_rate,
         UNCHANGED <<queue, sending, missed, streaming, rate>>,
         \A t \in Topics : Outcome(t) => Outcome(t)'
  PROVE  BtInv'
<1>1. ASSUME NEW t \in Topics PROVE Told(t)'
  <2>1. \A n : Right(n, t)' <=> Right(n, t)
    BY DEF Right, Topics
  <2>2. (Silent(t)' <=> Silent(t)) /\ \A i \in 1..Len(queue) : Newest(i, t)' <=> Newest(i, t)
    BY DEF Silent, Newest
  <2> QED BY <2>1, <2>2 DEF Told, BtInv
<1> QED BY <1>1 DEF BtInv

LEMMA AppInv ==
  ASSUME BtInv, AppStep
  PROVE  BtInv'
<1> USE DEF BtTypeOK, Switched, Outcome, Settled, Right, Topics, untouched, handling, phoneVars,
            lossVars, clockVars, rendererVars, statusVars
<1>1. handled \in Message /\ apc \in {"receive", "handle", "start", "stop", "free"}
  BY DEF BtInv
<1>2. CASE AppReceives
  BY <1>2, ReceivesInv
<1>3. CASE StackUp
  <2>1. topic(handled) = {}
    BY <1>1, <1>3, TopicOf DEF StackUp
  <2> QED BY <1>3, <2>1, Handles DEF StackUp, BtInv
<1>4. CASE StartsRenderer
  <2>1. "cfg" \notin topic(handled) /\ "track" \notin topic(handled) /\ "audio" \in topic(handled)
    BY <1>1, <1>4, TopicOf DEF StartsRenderer, starts, Msg
  <2> QED BY <1>4, <2>1, Handles DEF StartsRenderer, starts, renderer_start, BtInv
<1>5. CASE StopsRenderer
  <2>1. "cfg" \notin topic(handled) /\ "track" \notin topic(handled) /\ "audio" \in topic(handled)
        /\ handled # Msg("audio", "STARTED")
    BY <1>1, <1>5, TopicOf DEF StopsRenderer, stops, Msg
  <2> QED BY <1>5, <2>1, Handles DEF StopsRenderer, renderer_stop, BtInv
<1>6. CASE SwitchesI2s
  BY <1>6, Handles DEF SwitchesI2s, i2s_start, i2s_stop, BtInv
<1>7. CASE LeavesRenderer
  <2>1. "cfg" \notin topic(handled) /\ "track" \notin topic(handled)
    BY <1>1, <1>7, TopicOf DEF LeavesRenderer, Msg
  <2>2. "audio" \in topic(handled) => starts \/ stops
    <3>1. handled.event = "audio" =>
            handled \in {Msg("audio", "STARTED"), Msg("audio", "REMOTE_SUSPEND"), Msg("audio", "STOPPED")}
      BY <1>1 DEF Message, None, Msg
    <3> QED BY <1>1, <3>1, TopicOf DEF starts, stops
  <2>3. starts => handled = Msg("audio", "STARTED")
    BY DEF starts
  <2>4. stops => handled # Msg("audio", "STARTED")
    BY DEF stops, Msg
  <2> QED BY <1>7, <2>1, <2>2, <2>3, <2>4, Handles DEF LeavesRenderer, BtInv
<1>8. CASE SetsClock
  <2>1. "audio" \notin topic(handled) /\ "track" \notin topic(handled) /\ "cfg" \in topic(handled)
    BY <1>1, <1>8, TopicOf DEF SetsClock, Msg
  <2> QED BY <1>8, <2>1, Handles DEF SetsClock, BtInv
<1>9. CASE AvrcEvent
  <2>1. "audio" \notin topic(handled) /\ "cfg" \notin topic(handled)
    BY <1>1, <1>9, TopicOf DEF AvrcEvent, Msg
  <2>2. CASE handled = Msg("avrc", FALSE)
    <3>1. "track" \notin topic(handled)
      BY <1>1, <2>2, TopicOf DEF Msg
    <3> QED BY <1>9, <2>1, <2>2, <3>1, Handles DEF AvrcEvent, BtInv
  <2>3. CASE handled # Msg("avrc", FALSE)
    BY <1>9, <2>1, <2>3, Handles DEF AvrcEvent, bt_av_new_track, BtInv
  <2> QED BY <2>2, <2>3
<1>10. CASE FreesText
  <2>1. topic(handled) = {}
    BY <1>1, <1>10, TopicOf DEF FreesText
  <2> QED BY <1>10, <2>1, Handles DEF FreesText, BtInv
<1>11. CASE FreesParam
  <2>1. None \in Message
    BY DEF Message
  <2> QED BY <1>11, <2>1, Handles DEF FreesParam, BtInv
<1> QED
  BY <1>2, <1>3, <1>4, <1>5, <1>6, <1>7, <1>8, <1>9, <1>10, <1>11 DEF AppStep

(* Samples, whatever becomes of them, change nothing of this.              *)
LEMMA SamplesInv ==
  ASSUME BtInv, DataArrives \/ RenderStep \/ Plays, others
  PROVE  BtInv'
<1>1. /\ UNCHANGED statusVars
      /\ ConfigRate = BufferRate => UNCHANGED clockVars
  BY DEF DataArrives, RenderSamples, RenderStep, RenderChecks, RenderWrites, Plays, clockVars, BtInv
<1> QED
  BY <1>1, Handles
  DEF others, BtInv, BtTypeOK, Switched, Outcome, Settled, Right, Topics, phoneVars, appVars,
      lossVars, statusVars, clockVars

LEMMA BtInvariant == BtSpec => []BtInv
<1>1. BtInv /\ UNCHANGED btVars => BtInv'
  BY Handles
  DEF btVars, rendererVars, others, BtInv, BtTypeOK, Switched, Outcome, Settled, Right, Topics,
      phoneVars, appVars, lossVars, statusVars, clockVars
<1>2. BtInv /\ [BtNext]_btVars => BtInv'
  BY <1>1, ReportsInv, SendsInv, AppInv, SamplesInv DEF BtNext
<1> QED BY BtInitInv, <1>2, PTL DEF BtSpec

-----------------------------------------------------------------------------
(* The heap.  The accounts of HeapAccounted are kept by every step, given  *)
(* that the application task holds no message while it waits for one.      *)

Holding ==
  IF apc \in {"start", "stop", "free"} /\ blocks(handled) > 0 THEN 1 ELSE blocks(handled)

(* The positions of a queue where a message of some kind is.               *)
OfEvent(q, event) == {i \in DOMAIN q : q[i].event = event}

(* The blocks of the messages in a queue: one for each, but none for       *)
(* stack_up and two for metadata.                                          *)
Sent == Message \ {None}

InQueue(q) ==
  Len(q) - Cardinality(OfEvent(q, "stack_up")) + Cardinality(OfEvent(q, "metadata"))

HeapInv ==
  /\ heap \in Int /\ leaked \in Int
  /\ queue \in Seq(Sent)
  /\ apc = "receive" => handled = None
  /\ heap = leaked + blocks(sending) + InQueue(queue) + Holding

LEMMA BlocksOf ==
  ASSUME NEW m \in Message
  PROVE  /\ blocks(m) \in Int
         /\ m.event \in {"none", "stack_up"} => blocks(m) = 0
         /\ m.event = "metadata" => blocks(m) = 2
         /\ m.event \notin {"none", "stack_up", "metadata"} => blocks(m) = 1
  BY DEF blocks

LEMMA OfEventFinite ==
  ASSUME NEW q \in Seq(Message), NEW event
  PROVE  IsFiniteSet(OfEvent(q, event)) /\ Cardinality(OfEvent(q, event)) \in Int
<1>1. DOMAIN q = 1..Len(q) /\ Len(q) \in Nat
  BY LenProperties
<1>2. IsFiniteSet(1..Len(q))
  BY <1>1, FS_Interval
<1>3. IsFiniteSet(OfEvent(q, event))
  BY <1>1, <1>2, FS_Subset DEF OfEvent
<1> QED BY <1>3, FS_CardinalityType

LEMMA CountAppended ==
  ASSUME NEW q \in Seq(Message), NEW m \in Message, NEW event
  PROVE  Cardinality(OfEvent(Append(q, m), event))
           = Cardinality(OfEvent(q, event)) + (IF m.event = event THEN 1 ELSE 0)
<1>1. /\ DOMAIN q = 1..Len(q) /\ DOMAIN Append(q, m) = 1..Len(q) + 1 /\ Len(q) \in Nat
      /\ Append(q, m)[Len(q) + 1] = m
      /\ \A i \in 1..Len(q) : Append(q, m)[i] = q[i]
  BY AppendProperties, LenProperties
<1>2. Len(q) + 1 \notin OfEvent(q, event)
  BY <1>1 DEF OfEvent
<1>3. OfEvent(Append(q, m), event)
        = IF m.event = event THEN OfEvent(q, event) \cup {Len(q) + 1} ELSE OfEvent(q, event)
  BY <1>1 DEF OfEvent
<1>4. CASE m.event = event
  BY <1>2, <1>3, <1>4, OfEventFinite, FS_AddElement
<1>5. CASE m.event # event
  BY <1>3, <1>5, OfEventFinite
<1> QED BY <1>4, <1>5

LEMMA CountTaken ==
  ASSUME NEW q \in Seq(Message), q # <<>>, NEW event
  PROVE  Cardinality(OfEvent(q, event))
           = Cardinality(OfEvent(Tail(q), event)) + (IF Head(q).event = event THEN 1 ELSE 0)
<1> DEFINE S == OfEvent(q, event)
           T == OfEvent(Tail(q), event)
           next == [i \in T |-> i + 1]
<1>1. /\ Head(q) = q[1] /\ Len(q) \in Nat \ {0} /\ Tail(q) \in Seq(Message)
      /\ DOMAIN q = 1..Len(q) /\ DOMAIN Tail(q) = 1..Len(q) - 1
      /\ \A i \in 1..Len(q) - 1 : Tail(q)[i] = q[i + 1]
  BY HeadTailProperties, EmptySeq, LenProperties
<1>2. /\ \A i \in T : i \in Int /\ i + 1 \in S \ {1}
      /\ \A j \in S \ {1} : j \in Int /\ j - 1 \in T
  BY <1>1 DEF OfEvent
<1>3. next \in Bijection(T, S \ {1})
  <2>1. next \in [T -> S \ {1}] /\ \A i, j \in T : next[i] = next[j] => i = j
    BY <1>2
  <2>2. \A j \in S \ {1} : \E i \in T : next[i] = j
    <3> SUFFICES ASSUME NEW j \in S \ {1} PROVE \E i \in T : next[i] = j
      OBVIOUS
    <3>1. j - 1 \in T /\ next[j - 1] = j
      BY <1>2
    <3> QED BY <3>1
  <2> QED BY <2>1, <2>2, Fun_IsBij
<1>4. IsFiniteSet(S) /\ IsFiniteSet(T) /\ Cardinality(S) \in Int /\ Cardinality(T) \in Int
  BY <1>1, OfEventFinite
<1>5. Cardinality(S \ {1}) = Cardinality(T)
  BY <1>3, <1>4, FS_Bijection DEF ExistsBijection
<1>6. Cardinality(S \ {1}) = IF 1 \in S THEN Cardinality(S) - 1 ELSE Cardinality(S)
  BY <1>4, FS_RemoveElement
<1>7. 1 \in S <=> Head(q).event = event
  BY <1>1 DEF OfEvent
<1> QED BY <1>4, <1>5, <1>6, <1>7

LEMMA SentHolds ==
  ASSUME NEW m \in Sent
  PROVE  /\ m \in Message
         /\ blocks(m) = 1 - (IF m.event = "stack_up" THEN 1 ELSE 0)
                          + (IF m.event = "metadata" THEN 1 ELSE 0)
<1>1. m.event # "none"
  BY DEF Sent, Message, Msg, None
<1> QED BY <1>1, BlocksOf DEF Sent

LEMMA SentAreMessages ==
  ASSUME NEW q \in Seq(Sent)
  PROVE  q \in Seq(Message)
  BY DEF Sent

LEMMA InQueueAppended ==
  ASSUME NEW q \in Seq(Sent), NEW m \in Sent
  PROVE  InQueue(q) \in Int /\ InQueue(Append(q, m)) = InQueue(q) + blocks(m)
<1>1. q \in Seq(Message) /\ m \in Message /\ Len(q) \in Int
  BY SentAreMessages, SentHolds, LenProperties
<1>2. Len(Append(q, m)) = Len(q) + 1
  BY AppendProperties
<1>3. /\ Cardinality(OfEvent(q, "stack_up")) \in Int
      /\ Cardinality(OfEvent(q, "metadata")) \in Int
  BY <1>1, OfEventFinite
<1>4. /\ Cardinality(OfEvent(Append(q, m), "stack_up"))
           = Cardinality(OfEvent(q, "stack_up")) + (IF m.event = "stack_up" THEN 1 ELSE 0)
      /\ Cardinality(OfEvent(Append(q, m), "metadata"))
           = Cardinality(OfEvent(q, "metadata")) + (IF m.event = "metadata" THEN 1 ELSE 0)
  BY <1>1, CountAppended
<1> QED BY <1>1, <1>2, <1>3, <1>4, SentHolds DEF InQueue

LEMMA InQueueTaken ==
  ASSUME NEW q \in Seq(Sent), q # <<>>
  PROVE  InQueue(Tail(q)) \in Int /\ InQueue(q) = InQueue(Tail(q)) + blocks(Head(q))
<1>1. /\ q \in Seq(Message) /\ Tail(q) \in Seq(Message) /\ Head(q) \in Sent
      /\ Len(Tail(q)) = Len(q) - 1 /\ Len(q) \in Int
  BY SentAreMessages, HeadTailProperties, LenProperties
<1>2. /\ Cardinality(OfEvent(Tail(q), "stack_up")) \in Int
      /\ Cardinality(OfEvent(Tail(q), "metadata")) \in Int
  BY <1>1, OfEventFinite
<1>3. /\ Cardinality(OfEvent(q, "stack_up"))
           = Cardinality(OfEvent(Tail(q), "stack_up"))
             + (IF Head(q).event = "stack_up" THEN 1 ELSE 0)
      /\ Cardinality(OfEvent(q, "metadata"))
           = Cardinality(OfEvent(Tail(q), "metadata"))
             + (IF Head(q).event = "metadata" THEN 1 ELSE 0)
  BY <1>1, CountTaken
<1>4. blocks(Head(q)) = 1 - (IF Head(q).event = "stack_up" THEN 1 ELSE 0)
                          + (IF Head(q).event = "metadata" THEN 1 ELSE 0)
  BY <1>1, SentHolds
<1> QED BY <1>1, <1>2, <1>3, <1>4 DEF InQueue

LEMMA HeapInitInv == BtInit => HeapInv
<1> SUFFICES ASSUME BtInit PROVE HeapInv
  OBVIOUS
<1> DEFINE first == Msg("stack_up", 0)
<1>1. first \in Sent /\ None \in Message /\ first.event = "stack_up" /\ None.event = "none"
  BY DEF Sent, Message, Msg, None
<1>2. blocks(None) = 0
  BY <1>1, BlocksOf
<1>3. /\ Len(queue) = 1 /\ DOMAIN queue = 1..1 /\ queue[1] = first
      /\ queue \in Seq(Sent)
  BY <1>1 DEF BtInit
<1>4. OfEvent(queue, "stack_up") = {1} /\ OfEvent(queue, "metadata") = {}
  BY <1>1, <1>3 DEF OfEvent
<1>5. Cardinality({1}) = 1 /\ Cardinality({}) = 0
  BY FS_Singleton, FS_EmptySet
<1>6. InQueue(queue) = 0
  <2>1. Cardinality(OfEvent(queue, "stack_up")) = 1 /\ Cardinality(OfEvent(queue, "metadata")) = 0
    BY <1>4, <1>5
  <2> QED BY <1>3, <2>1 DEF InQueue
<1>7. sending = None /\ handled = None /\ apc = "receive" /\ heap = 0 /\ leaked = 0
  BY DEF BtInit
<1>8. Holding = 0 /\ blocks(sending) = 0
  BY <1>2, <1>7 DEF Holding
<1> QED BY <1>3, <1>6, <1>7, <1>8 DEF HeapInv

LEMMA ReportsDispatch ==
  ASSUME Reports
  PROVE  \E m \in Message : dispatch(m)
  BY DEF Reports, Connect, Configure, Play, Pause, Disconnect, AvrcConnect, AvrcDisconnect,
         TrackChanges, Answers, Message

LEMMA HeapStep ==
  ASSUME BtTypeOK, HeapInv, [BtNext]_btVars
  PROVE  HeapInv'
<1>1. None \in Message /\ None.event = "none" /\ blocks(None) = 0
  BY BlocksOf DEF Message, Msg, None
<1>2. /\ sending \in Message /\ handled \in Message
      /\ blocks(sending) \in Int /\ blocks(handled) \in Int /\ Holding \in Int
  BY BlocksOf DEF BtTypeOK, Holding
<1>3. InQueue(queue) \in Int
  <2>1. Msg("change", 0) \in Sent
    BY DEF Sent, Message, Msg, None
  <2> QED BY <2>1, InQueueAppended DEF HeapInv
<1>4. CASE Reports
  <2>1. PICK m \in Message : dispatch(m)
    BY <1>4, ReportsDispatch
  <2>2. UNCHANGED <<queue, handled, apc>> /\ sending = None /\ Holding' = Holding
    BY <2>1 DEF dispatch, appVars, Holding
  <2>3. blocks(m) \in Int
    BY BlocksOf
  <2>4. \/ sending' = m /\ heap' = heap + blocks(m) /\ leaked' = leaked
        \/ sending' = sending /\ heap' = heap + (blocks(m) - 1) /\ leaked' = leaked + (blocks(m) - 1)
    BY <2>1 DEF dispatch, lossVars
  <2> QED BY <1>1, <1>2, <1>3, <2>2, <2>3, <2>4 DEF HeapInv
<1>5. CASE Sends
  <2>1. /\ queue' = Append(queue, sending) /\ sending' = None /\ sending \in Sent
        /\ UNCHANGED <<handled, apc, heap, leaked>> /\ Holding' = Holding
    BY <1>2, <1>5 DEF Sends, appVars, Holding, Sent
  <2>2. InQueue(queue') = InQueue(queue) + blocks(sending) /\ queue' \in Seq(Sent)
    BY <2>1, InQueueAppended, AppendProperties DEF HeapInv
  <2> QED BY <1>1, <1>2, <1>3, <2>1, <2>2 DEF HeapInv
<1>6. CASE SendTimesOut
  <2>1. /\ sending' = None /\ leaked' = leaked + blocks(sending)
        /\ UNCHANGED <<queue, handled, apc, heap>> /\ Holding' = Holding
    BY <1>6 DEF SendTimesOut, appVars, Holding
  <2> QED BY <1>1, <1>2, <1>3, <2>1 DEF HeapInv
<1>7. CASE AppReceives
  <2>1. /\ apc = "receive" /\ apc' = "handle" /\ handled = None /\ handled' = Head(queue)
        /\ queue # <<>> /\ queue' = Tail(queue)
        /\ UNCHANGED <<sending, heap, leaked>>
    BY <1>7 DEF AppReceives, lossVars, HeapInv
  <2>2. Holding = 0 /\ Holding' = blocks(Head(queue))
    BY <1>1, <2>1 DEF Holding
  <2>3. /\ queue' \in Seq(Sent) /\ InQueue(queue') \in Int
        /\ InQueue(queue) = InQueue(queue') + blocks(Head(queue))
    BY <2>1, HeadTailProperties, InQueueTaken DEF HeapInv
  <2>4. blocks(Head(queue)) \in Int
    BY <2>1, HeadTailProperties, SentHolds, BlocksOf DEF HeapInv
  <2> QED BY <1>2, <2>1, <2>2, <2>3, <2>4 DEF HeapInv
<1>8. CASE StartsRenderer \/ StopsRenderer \/ SwitchesI2s
  <2>1. /\ UNCHANGED <<queue, sending, handled, heap, leaked>>
        /\ apc' \in {"start", "stop", "free"}
        /\ apc \in {"start", "stop"} \/ (apc = "handle" /\ handled.event \in {"connection", "audio"})
    BY <1>8 DEF StartsRenderer, StopsRenderer, SwitchesI2s, untouched, lossVars, starts, stops, Msg
  <2>2. Holding' = Holding
    BY <1>2, <2>1, BlocksOf DEF Holding
  <2> QED BY <2>1, <2>2 DEF HeapInv
<1>9. CASE StackUp \/ LeavesRenderer \/ SetsClock \/ AvrcEvent
  <2>1. /\ UNCHANGED <<queue, sending, handled, heap, leaked>>
        /\ apc = "handle" /\ apc' = "free" /\ handled.event # "metadata"
    BY <1>9 DEF StackUp, LeavesRenderer, SetsClock, AvrcEvent, handling, untouched, lossVars
  <2>2. Holding' = Holding
    BY <1>2, <2>1, BlocksOf DEF Holding
  <2> QED BY <2>1, <2>2 DEF HeapInv
<1>10. CASE FreesText
  <2>1. /\ UNCHANGED <<queue, sending, handled, leaked>> /\ heap' = heap - 1
        /\ apc = "handle" /\ apc' = "free" /\ handled.event = "metadata"
    BY <1>10 DEF FreesText, handling, untouched, lossVars
  <2>2. Holding' = Holding - 1
    BY <1>2, <2>1, BlocksOf DEF Holding
  <2> QED BY <1>2, <1>3, <2>1, <2>2 DEF HeapInv
<1>11. CASE FreesParam
  <2>1. /\ UNCHANGED <<queue, sending, leaked>>
        /\ heap' = heap - (IF blocks(handled) > 0 THEN 1 ELSE 0)
        /\ apc = "free" /\ apc' = "receive" /\ handled' = None
    BY <1>11 DEF FreesParam, lossVars
  <2>2. Holding' = 0 /\ Holding = IF blocks(handled) > 0 THEN 1 ELSE 0
    BY <1>1, <1>2, <2>1, BlocksOf DEF Holding
  <2> QED BY <1>2, <1>3, <2>1, <2>2 DEF HeapInv
<1>12. CASE UNCHANGED btVars \/ others
  <2>1. UNCHANGED <<queue, sending, handled, apc, heap, leaked>>
    BY <1>12 DEF btVars, others, appVars, lossVars
  <2> QED BY <2>1 DEF HeapInv, Holding
<1> QED
  BY <1>4, <1>5, <1>6, <1>7, <1>8, <1>9, <1>10, <1>11, <1>12 DEF BtNext, AppStep

-----------------------------------------------------------------------------
(* However reports, messages and handlers interleave: once every message   *)
(* is handled, the renderer runs exactly while the phone plays and at the  *)
(* rate it chose, if nothing on that topic was lost since.                 *)
THEOREM FollowsPhone ==
  ASSUME ConfigRate = BufferRate
  PROVE  BtSpec => []RendererFollowsPhone
<1>1. BtInv => RendererFollowsPhone
  <2> SUFFICES ASSUME BtInv, drained PROVE RendererFollowsPhone
    BY DEF RendererFollowsPhone
  <2>1. topic(None) = {} /\ Len(<<>>) = 0
    BY DEF topic, None, Msg
  <2>2. \A t \in Topics : t \notin missed => Settled(t)
    BY <2>1 DEF drained, BtInv, Told, Silent, Outcome
  <2> QED
    BY <2>2 DEF drained, BtInv, BtTypeOK, Switched, Settled, Topics, RendererFollowsPhone
<1> QED BY <1>1, BtInvariant, PTL

(* And a linked phone has a registration for the next change of track.     *)
THEOREM TracksAreReported == BtSpec => []TracksReported
<1>1. BtInv => TracksReported
  <2>1. topic(None) = {} /\ Len(<<>>) = 0
    BY DEF topic, None, Msg
  <2> QED
    BY <2>1
    DEF drained, BtInv, Told, Silent, Outcome, Settled, Topics, TracksReported
<1> QED BY <1>1, BtInvariant, PTL

(* Whatever is lost on the way, every block of the heap is one of a        *)
(* message on its way or was left behind by a lost one, and none is freed  *)
(* twice.                                                                  *)
THEOREM HeapIsAccounted == BtSpec => []HeapAccounted
<1>1. BtInv /\ HeapInv /\ [BtNext]_btVars => HeapInv'
  BY HeapStep DEF BtInv
<1>2. BtSpec => []HeapInv
  BY HeapInitInv, <1>1, BtInvariant, PTL DEF BtSpec
<1>3. BtInv /\ HeapInv => HeapAccounted
  <2> SUFFICES ASSUME BtTypeOK, HeapInv PROVE HeapAccounted
    BY DEF BtInv
  <2> DEFINE started == Cardinality(OfEvent(queue, "stack_up"))
             texts == Cardinality(OfEvent(queue, "metadata"))
  <2>1. /\ blocks(sending) \in Int /\ Holding \in Int /\ leaked \in Int /\ Len(queue) \in Int
        /\ started \in Int /\ texts \in Int
    BY BlocksOf, OfEventFinite, LenProperties DEF BtTypeOK, HeapInv, Holding
  <2>2. heap = leaked + blocks(sending) + (Len(queue) - started + texts) + Holding
    BY DEF HeapInv, InQueue
  <2>3. queued("stack_up") = started /\ queued("metadata") = texts
    BY DEF queued, OfEvent
  <2> HIDE DEF started, texts
  <2>4. HeapAccounted <=> heap = leaked + blocks(sending) + Len(queue) - started + texts + Holding
    BY <2>3 DEF HeapAccounted, Holding
  <2> QED BY <2>1, <2>2, <2>4
<1> QED BY <1>2, <1>3, BtInvariant, PTL

=============================================================================
