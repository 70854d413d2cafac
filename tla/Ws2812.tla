---------------------------------- MODULE Ws2812 ----------------------------------
(***************************************************************************)
(* ws2812.c: the driver of the status LED, or of a strip of them.  The RMT *)
(* peripheral sends pulses from a memory of two halves and wraps around;   *)
(* each time it leaves a half, an interrupt handler fills that half again. *)
(* The interrupt and the task that calls ws2812_setColors are on one core, *)
(* the peripheral is as fast as it is.                                     *)
(*                                                                         *)
(* The eight pulses of a byte are one cell: <<frame, pixel, channel>> with *)
(* a flag for the long pause after the last byte.                          *)
(***************************************************************************)
EXTENDS Integers, Sequences

CONSTANTS
  HalfBytes,     \* MAX_PULSES / 8: 4
  Lengths,       \* pixels of a call: ui.c has one
  MaxFrames      \* bound: calls of ws2812_setColors

ASSUME Ws2812Assumption ==
  /\ HalfBytes \in Nat \ {0} /\ MaxFrames \in Nat
  /\ Lengths \subseteq Nat \ {0}
  /\ \A n \in Lengths : 3 * n # HalfBytes

VARIABLES
  pc,                        \* where ws2812_setColors is
  frame,                     \* the number of the call
  ws2812_buffer,             \* <<>> when it is free
  ws2812_pos, ws2812_len, ws2812_half,
  ws2812_sem,                \* "null", "taken" or "given"
  mem,                       \* RMTMEM
  on, at, thr, end,          \* RMT: sending, next cell, interrupt flags
  isr,                       \* what the interrupt handler has done
  sent,                      \* cells sent since tx_start, until it is late
  late,                      \* a half was left while the last event was pending
  readFreed                  \* the handler read the buffer after it was freed

bufferVars == <<ws2812_buffer, ws2812_len>>
copyVars == <<ws2812_pos, ws2812_half, mem, readFreed>>
rmtVars == <<on, at, sent, late>>
flagVars == <<thr, end>>
ledVars == <<pc, frame, bufferVars, ws2812_sem, copyVars, rmtVars, flagVars, isr>>

Cells == 0..(2 * HalfBytes - 1)
Zero == <<>>
Junk == <<0>>

(* ws2812_init; nobody has written the RMT memory yet.                     *)
LedInit ==
  /\ pc = "idle" /\ frame = 0
  /\ ws2812_buffer = <<>> /\ ws2812_pos = 0 /\ ws2812_len = 0 /\ ws2812_half = 0
  /\ ws2812_sem = "null"
  /\ mem = [c \in Cells |-> Junk]
  /\ on = FALSE /\ at = 0 /\ thr = FALSE /\ end = FALSE
  /\ isr = "none" /\ sent = <<>> /\ late = FALSE /\ readFreed = FALSE

-----------------------------------------------------------------------------
(* ws2812_copy: the next bytes into the half that is next, zeros behind.   *)

left == ws2812_len - ws2812_pos
atMostHalf == IF left > HalfBytes THEN HalfBytes ELSE left
InHalf(c) == c \div HalfBytes = ws2812_half
byteFor(c) == ws2812_pos + (c % HalfBytes)

(* Mutant: behind the last byte the half is left alone.                    *)
ws2812_copy_NoZeros ==
  /\ mem' = [c \in Cells |->
       IF InHalf(c) /\ c % HalfBytes < atMostHalf
       THEN <<ws2812_buffer[byteFor(c) + 1], byteFor(c) = ws2812_len - 1>> ELSE mem[c]]
  /\ ws2812_half' = 1 - ws2812_half
  /\ ws2812_pos' = ws2812_pos + atMostHalf
  /\ readFreed' = (readFreed \/ (left > 0 /\ ws2812_buffer = <<>>))

ws2812_copy ==
  /\ mem' = [c \in Cells |->
       IF ~InHalf(c) THEN mem[c]
       ELSE IF c % HalfBytes >= atMostHalf \/ ws2812_buffer = <<>> THEN Zero
       ELSE <<ws2812_buffer[byteFor(c) + 1], byteFor(c) = ws2812_len - 1>>]
  /\ ws2812_half' = 1 - ws2812_half
  /\ ws2812_pos' = ws2812_pos + atMostHalf
  /\ readFreed' = (readFreed \/ (left > 0 /\ ws2812_buffer = <<>>))

-----------------------------------------------------------------------------
(* ws2812_setColors.  The task does not run while the handler does.        *)

taskAt(p) == pc = p /\ isr = "none"

(* Green, red, blue of every pixel.                                        *)
bytesOf(f, n) ==
  [k \in 1..(3 * n) |-> <<f, ((k - 1) \div 3) + 1, <<"g", "r", "b">>[((k - 1) % 3) + 1]>>]

SetColors(n) ==
  /\ taskAt("idle") /\ frame < MaxFrames
  /\ frame' = frame + 1
  /\ ws2812_buffer' = bytesOf(frame + 1, n) /\ ws2812_len' = 3 * n
  /\ ws2812_pos' = 0 /\ ws2812_half' = 0
  /\ pc' = "first"
  /\ UNCHANGED <<ws2812_sem, mem, readFreed, rmtVars, flagVars, isr>>

CopiesFirst ==
  /\ taskAt("first") /\ ws2812_copy
  /\ pc' = "second"
  /\ UNCHANGED <<frame, bufferVars, ws2812_sem, rmtVars, flagVars, isr>>

CopiesSecond ==
  /\ taskAt("second")
  /\ IF ws2812_pos < ws2812_len THEN ws2812_copy ELSE UNCHANGED copyVars
  /\ pc' = "start"
  /\ UNCHANGED <<frame, bufferVars, ws2812_sem, rmtVars, flagVars, isr>>

(* The semaphore is created, and the peripheral started at the first cell. *)
Starts ==
  /\ taskAt("start")
  /\ ws2812_sem' = "taken"
  /\ on' = TRUE /\ at' = 0 /\ sent' = <<>> /\ late' = FALSE
  /\ pc' = "take"
  /\ UNCHANGED <<frame, bufferVars, copyVars, flagVars, isr>>

Returns ==
  /\ taskAt("take") /\ ws2812_sem = "given"
  /\ ws2812_sem' = "null" /\ ws2812_buffer' = <<>>
  /\ pc' = "idle"
  /\ UNCHANGED <<frame, ws2812_len, copyVars, rmtVars, flagVars, isr>>

TaskStep == CopiesFirst \/ CopiesSecond \/ Starts \/ Returns

-----------------------------------------------------------------------------
(* The RMT peripheral: a zero ends the transmission, the end of a half     *)
(* raises ch0_tx_thr_event.                                                *)

SendsByte ==
  /\ on /\ mem[at] # Zero
  /\ at' = (at + 1) % (2 * HalfBytes)
  /\ IF (at + 1) % HalfBytes = 0 THEN thr' = TRUE /\ late' = (late \/ thr)
                                 ELSE UNCHANGED <<thr, late>>
  /\ sent' = IF late' THEN <<>> ELSE Append(sent, mem[at])
  /\ UNCHANGED <<pc, frame, bufferVars, ws2812_sem, copyVars, on, end, isr>>

SendsEnd ==
  /\ on /\ mem[at] = Zero
  /\ on' = FALSE /\ end' = TRUE
  /\ UNCHANGED <<pc, frame, bufferVars, ws2812_sem, copyVars, at, sent, late, thr, isr>>

Rmt == SendsByte \/ SendsEnd

-----------------------------------------------------------------------------
(* ws2812_handleInterrupt                                                  *)

IsrRefills ==
  /\ isr = "none" /\ thr
  /\ ws2812_copy
  /\ isr' = "refilled"
  /\ UNCHANGED <<pc, frame, bufferVars, ws2812_sem, rmtVars, flagVars>>

(* Mutant: the handler clears all it could have handled.                   *)
IsrClears_All ==
  /\ isr = "refilled"
  /\ thr' = FALSE /\ end' = FALSE /\ isr' = "none"
  /\ UNCHANGED <<pc, frame, bufferVars, ws2812_sem, copyVars, rmtVars>>

IsrClears ==
  /\ isr = "refilled"
  /\ thr' = FALSE /\ isr' = "none"
  /\ UNCHANGED <<pc, frame, bufferVars, ws2812_sem, copyVars, rmtVars, end>>

(* Mutant: the end is looked at first.                                     *)
IsrGives_First ==
  /\ isr = "none" /\ end /\ ws2812_sem # "null"
  /\ ws2812_sem' = "given" /\ end' = FALSE
  /\ UNCHANGED <<pc, frame, bufferVars, copyVars, rmtVars, thr, isr>>

(* Only when no refill is due is the end looked at.                        *)
IsrGives ==
  /\ isr = "none" /\ ~thr /\ end /\ ws2812_sem # "null"
  /\ ws2812_sem' = "given" /\ end' = FALSE
  /\ UNCHANGED <<pc, frame, bufferVars, copyVars, rmtVars, thr, isr>>

Isr == IsrRefills \/ IsrClears \/ IsrGives

LedNext == (\E n \in Lengths : SetColors(n)) \/ TaskStep \/ Rmt \/ Isr

LedSpec == LedInit /\ [][LedNext]_ledVars

FairLedSpec ==
  LedSpec /\ WF_ledVars(TaskStep) /\ WF_ledVars(Rmt) /\ WF_ledVars(Isr)

-----------------------------------------------------------------------------
(* The strip is sent the colours of this call in the order green, red,     *)
(* blue, a pause after the last, and nothing of the call before; all of    *)
(* them by the time the semaphore is given.  Provided that the handler was *)
(* done with each half before the peripheral left the next one.            *)
SentAsAsked ==
  pc = "take" /\ ~late =>
    /\ Len(sent) <= ws2812_len
    /\ \A k \in 1..Len(sent) : sent[k] = <<ws2812_buffer[k], k = ws2812_len>>
    /\ ws2812_sem = "given" => Len(sent) = ws2812_len

(* However late the interrupts come, the handler reads no freed buffer,    *)
(* and no interrupt of one call is left to disturb the next.               *)
CallsAreSeparate ==
  /\ ~readFreed
  /\ pc \in {"idle", "first", "second", "start"} => ~on /\ ~thr /\ ~end

(* However late the interrupts come, ws2812_setColors returns.             *)
SetColorsReturns == pc # "idle" ~> pc = "idle"

=============================================================================
