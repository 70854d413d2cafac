------------------------------- MODULE Ws2812Proofs -------------------------------
(***************************************************************************)
(* The LED driver, for any size of the RMT memory's halves, any strips and *)
(* any number of calls: the strip is sent what was asked for unless an     *)
(* interrupt is late, and however late it is, a call leaves nothing behind *)
(* that would disturb the next.                                            *)
(***************************************************************************)
EXTENDS Ws2812, SequenceTheorems, TLAPS

-----------------------------------------------------------------------------
(* The two halves of the memory                                            *)

first(h) == IF h = 0 THEN 0 ELSE HalfBytes

LEMMA CellsOfHalf ==
  ASSUME NEW h \in {0, 1}, NEW i \in 0..(HalfBytes - 1)
  PROVE  /\ first(h) + i \in Cells
         /\ (first(h) + i) \div HalfBytes = h
         /\ (first(h) + i) % HalfBytes = i
<1>1. HalfBytes \in Nat \ {0}
  BY Ws2812Assumption
<1>2. CASE h = 0
  BY <1>1, <1>2 DEF first, Cells
<1>3. CASE h = 1
  <2>1. first(h) + i \in Cells
    BY <1>1, <1>3 DEF first, Cells
  <2>2. first(h) + i = 1 * HalfBytes + i
    BY <1>1, <1>3 DEF first
  <2> QED BY <1>1, <1>3, <2>1, <2>2
<1> QED BY <1>2, <1>3

(* The cell after the last of a half is the first of the other.            *)
LEMMA NextCell ==
  ASSUME NEW h \in {0, 1}, NEW i \in 0..(HalfBytes - 1), NEW c, c = first(h) + i
  PROVE  /\ i < HalfBytes - 1 => /\ (c + 1) % (2 * HalfBytes) = first(h) + (i + 1)
                                 /\ (c + 1) % HalfBytes # 0
         /\ i = HalfBytes - 1 => /\ (c + 1) % (2 * HalfBytes) = first(1 - h) + 0
                                 /\ (c + 1) % HalfBytes = 0
<1>1. HalfBytes \in Nat \ {0}
  BY Ws2812Assumption
<1>2. CASE i < HalfBytes - 1
  <2>1. (first(h) + (i + 1)) % HalfBytes = i + 1 /\ first(h) + (i + 1) \in Cells
    BY <1>1, <1>2, CellsOfHalf
  <2>2. c + 1 = first(h) + (i + 1) /\ c + 1 \in 0..(2 * HalfBytes - 1)
    BY <1>1, <2>1 DEF first, Cells
  <2>3. (c + 1) % (2 * HalfBytes) = c + 1
    BY <1>1, <2>2
  <2> QED BY <1>1, <1>2, <2>1, <2>2, <2>3
<1>3. CASE i = HalfBytes - 1 /\ h = 0
  BY <1>1, <1>3 DEF first
<1>4. CASE i = HalfBytes - 1 /\ h = 1
  <2>1. c + 1 = 2 * HalfBytes
    BY <1>1, <1>4 DEF first
  <2>2. (c + 1) % (2 * HalfBytes) = 0 /\ (c + 1) % HalfBytes = 0
    BY <1>1, <2>1
  <2> QED BY <1>1, <1>4, <2>2 DEF first
<1> QED BY <1>1, <1>2, <1>3, <1>4

-----------------------------------------------------------------------------
(* However late the interrupts come                                        *)

Quiet == ~on /\ ~thr /\ ~end /\ isr = "none"

(* Outside of a transmission the peripheral and the handler are quiet, and *)
(* the semaphore is given when they have become so.                        *)
Separate ==
  /\ ws2812_sem \in {"null", "taken", "given"}
  /\ pc # "take" => Quiet /\ ws2812_sem = "null"
  /\ pc = "take" => ws2812_sem # "null"
  /\ pc # "idle" => ws2812_buffer # <<>>
  /\ ws2812_sem = "given" => Quiet
  /\ end => ~on
  /\ isr = "refilled" => thr
  /\ ~readFreed

LEMMA SomeBytes ==
  ASSUME NEW f, NEW n \in Lengths
  PROVE  bytesOf(f, n) # <<>> /\ 3 * n \in Nat \ {0} /\ 3 * n # HalfBytes
<1>1. n \in Nat \ {0} /\ 3 * n # HalfBytes
  BY Ws2812Assumption
<1>2. DOMAIN bytesOf(f, n) # {}
  BY <1>1 DEF bytesOf
<1>3. DOMAIN <<>> = {}
  OBVIOUS
<1> QED BY <1>1, <1>2, <1>3

LEMMA NextSeparate == Separate /\ [LedNext]_ledVars => Separate'
<1> SUFFICES ASSUME Separate, [LedNext]_ledVars PROVE Separate'
  OBVIOUS
<1> USE DEF Separate, Quiet, taskAt
<1>1. ws2812_copy /\ ws2812_buffer # <<>> => ~readFreed'
  BY DEF ws2812_copy
<1>2. ASSUME NEW n \in Lengths, SetColors(n) PROVE Separate'
  <2>1. bytesOf(frame + 1, n) # <<>>
    BY SomeBytes
  <2> QED BY <1>2, <2>1 DEF SetColors, rmtVars, flagVars
<1>3. CASE CopiesFirst
  BY <1>1, <1>3 DEF CopiesFirst, bufferVars, rmtVars, flagVars
<1>4. CASE CopiesSecond
  BY <1>1, <1>4 DEF CopiesSecond, bufferVars, copyVars, rmtVars, flagVars
<1>5. CASE Starts
  BY <1>5 DEF Starts, bufferVars, copyVars, flagVars
<1>6. CASE Returns
  BY <1>6 DEF Returns, copyVars, rmtVars, flagVars
<1>7. CASE Rmt
  BY <1>7 DEF Rmt, SendsByte, SendsEnd, bufferVars, copyVars
<1>8. CASE Isr
  BY <1>1, <1>8 DEF Isr, IsrRefills, IsrClears, IsrGives, bufferVars, copyVars, rmtVars, flagVars
<1>9. CASE UNCHANGED ledVars
  BY <1>9 DEF ledVars, bufferVars, copyVars, rmtVars, flagVars
<1> QED BY <1>2, <1>3, <1>4, <1>5, <1>6, <1>7, <1>8, <1>9 DEF LedNext, TaskStep

LEMMA LedSeparate == LedSpec => []Separate
<1>1. LedInit => Separate
  BY DEF LedInit, Separate, Quiet
<1> QED BY <1>1, NextSeparate, PTL DEF LedSpec

(* However late the interrupts come, the handler reads no freed buffer,    *)
(* and no interrupt of one call is left to disturb the next.               *)
THEOREM CallsSeparate == LedSpec => []CallsAreSeparate
<1>1. Separate => CallsAreSeparate
  BY DEF Separate, Quiet, CallsAreSeparate
<1> QED BY <1>1, LedSeparate, PTL

-----------------------------------------------------------------------------
(* What is sent, when no interrupt is late                                 *)

(* What the strip is to be sent k-th, counting from zero.                  *)
Wanted(k) == IF k < ws2812_len THEN <<ws2812_buffer[k + 1], k + 1 = ws2812_len>> ELSE Zero

(* Half h holds the bytes from k on.                                       *)
Holds(h, k) == \A i \in 0..(HalfBytes - 1) : mem[first(h) + i] = Wanted(k + i)

CopiedUpTo(k) == ws2812_pos = IF k < ws2812_len THEN k ELSE ws2812_len

(* Half h holds the bytes from k on, and the other half is to be refilled, *)
(* or has been.                                                            *)
Behind(h, k) ==
  Holds(h, k) /\ ws2812_half = 1 - h /\ CopiedUpTo(k + HalfBytes)

Ahead(h, k) ==
  /\ Holds(h, k) /\ Holds(1 - h, k + HalfBytes)
  /\ ws2812_half = h /\ CopiedUpTo(k + 2 * HalfBytes)

(* A strip that fits into a half needs no other.                           *)
Loaded(h, k) ==
  IF ws2812_len < HalfBytes \/ (thr /\ isr = "none") THEN Behind(h, k) ELSE Ahead(h, k)

(* The peripheral is at byte i of half h, which began with byte k.         *)
SendingFrom(h, i, k) ==
  /\ at = first(h) + i /\ Len(sent) = k + i
  /\ Loaded(h, k)
  /\ ws2812_len < HalfBytes => ~thr /\ k = 0 /\ h = 0

Sending ==
  /\ Len(sent) <= ws2812_len
  /\ \A k \in 1..Len(sent) : sent[k] = Wanted(k - 1)
  /\ ~on => Len(sent) = ws2812_len
  /\ \E h \in {0, 1}, i \in 0..(HalfBytes - 1), k \in Nat : SendingFrom(h, i, k)

Byte == Nat \X Nat \X {"g", "r", "b"}
Pulses == Byte \X BOOLEAN

LedTypeOK ==
  /\ frame \in Nat /\ at \in Cells /\ ws2812_half \in {0, 1}
  /\ ws2812_len \in Nat /\ ws2812_pos \in Nat
  /\ pc \in {"idle", "first", "second", "start", "take"}
  /\ sent \in Seq(Pulses)
  /\ {on, thr, end, late} \subseteq BOOLEAN /\ isr \in {"none", "refilled"}
  /\ pc # "idle" => /\ ws2812_len \notin {0, HalfBytes}
                    /\ \A k \in 1..ws2812_len : ws2812_buffer[k] \in Byte

LedInv ==
  /\ LedTypeOK /\ Separate
  /\ pc = "first" => ws2812_half = 0 /\ ws2812_pos = 0
  /\ pc = "second" => Behind(0, 0)
  /\ pc = "start" => Loaded(0, 0)
  /\ pc = "take" /\ ~late => Sending

(* What is loaded stays as long as nothing is copied.                      *)
LEMMA StaysLoaded ==
  ASSUME NEW h \in {0, 1}, NEW k \in Nat, UNCHANGED <<bufferVars, copyVars>>
  PROVE  Behind(h, k)' = Behind(h, k) /\ Ahead(h, k)' = Ahead(h, k)
  BY DEF Behind, Ahead, Holds, Wanted, CopiedUpTo, bufferVars, copyVars

LEMMA BytesTyped ==
  ASSUME NEW f \in Nat, NEW n \in Lengths, NEW k \in 1..(3 * n)
  PROVE  bytesOf(f, n)[k] \in Byte
<1>1. n \in Nat \ {0}
  BY Ws2812Assumption
<1>2. (k - 1) \div 3 \in Nat /\ ((k - 1) % 3) + 1 \in 1..3
  BY <1>1
<1>3. \A i \in 1..3 : <<"g", "r", "b">>[i] \in {"g", "r", "b"}
  OBVIOUS
<1> QED BY <1>2, <1>3 DEF bytesOf, Byte

LEMMA WantedIs ==
  ASSUME LedTypeOK, pc # "idle", NEW k \in Nat
  PROVE  /\ Wanted(k) = Zero <=> k >= ws2812_len
         /\ k < ws2812_len => Wanted(k) \in Pulses
<1>1. \A a, b : <<a, b>> # Zero
  BY DEF Zero
<1>2. (k + 1 = ws2812_len) \in BOOLEAN
  OBVIOUS
<1>3. CASE k < ws2812_len
  <2>1. ws2812_buffer[k + 1] \in Byte
    BY <1>3 DEF LedTypeOK
  <2>2. Wanted(k) = <<ws2812_buffer[k + 1], k + 1 = ws2812_len>>
    BY <1>3 DEF Wanted
  <2>3. Wanted(k) # Zero
    BY <1>1, <2>2
  <2>4. \A a \in Byte, b \in BOOLEAN : <<a, b>> \in Pulses
    BY DEF Pulses
  <2>5. Wanted(k) \in Pulses
    BY <1>2, <2>1, <2>2, <2>4
  <2> QED BY <1>3, <2>3, <2>5 DEF LedTypeOK
<1>4. CASE k >= ws2812_len
  BY <1>4 DEF Wanted, LedTypeOK
<1> QED BY <1>3, <1>4 DEF LedTypeOK

(* A call of ws2812_copy fills the half that is next and leaves the other. *)
LEMMA CopiesHalf ==
  ASSUME LedTypeOK, ws2812_buffer # <<>>, ws2812_copy, UNCHANGED bufferVars,
         NEW k \in Nat, CopiedUpTo(k), NEW h \in {0, 1}, ws2812_half = h
  PROVE  /\ ws2812_half' = 1 - h /\ ws2812_pos' \in Nat
         /\ CopiedUpTo(k + HalfBytes)' /\ Holds(h, k)'
         /\ \A j \in Nat : Holds(1 - h, j) => Holds(1 - h, j)'
<1>1. HalfBytes \in Nat \ {0} /\ ws2812_len \in Nat /\ ws2812_pos \in Nat
  BY Ws2812Assumption DEF LedTypeOK
<1>2. CopiedUpTo(k + HalfBytes)' /\ ws2812_pos' \in Nat /\ ws2812_half' = 1 - h
  BY <1>1 DEF CopiedUpTo, ws2812_copy, atMostHalf, left, bufferVars
<1>3. ASSUME NEW i \in 0..(HalfBytes - 1) PROVE mem'[first(h) + i] = Wanted(k + i)
  <2>1. /\ first(h) + i \in Cells
        /\ (first(h) + i) \div HalfBytes = h /\ (first(h) + i) % HalfBytes = i
    BY CellsOfHalf
  <2>2. mem'[first(h) + i] =
          IF i >= atMostHalf THEN Zero
          ELSE <<ws2812_buffer[ws2812_pos + i + 1], ws2812_pos + i = ws2812_len - 1>>
    BY <2>1 DEF ws2812_copy, InHalf, byteFor
  <2>3. i >= atMostHalf <=> k + i >= ws2812_len
    BY <1>1 DEF atMostHalf, left, CopiedUpTo
  <2>4. k + i < ws2812_len => ws2812_pos = k
    BY <1>1 DEF CopiedUpTo
  <2>5. (k + i = ws2812_len - 1) <=> (k + i + 1 = ws2812_len)
    BY <1>1
  <2> QED BY <1>1, <2>2, <2>3, <2>4, <2>5 DEF Wanted
<1>4. ASSUME NEW i \in 0..(HalfBytes - 1) PROVE mem'[first(1 - h) + i] = mem[first(1 - h) + i]
  <2>1. 1 - h \in {0, 1} /\ 1 - h # h
    OBVIOUS
  <2>2. first(1 - h) + i \in Cells /\ (first(1 - h) + i) \div HalfBytes = 1 - h
    BY <2>1, CellsOfHalf
  <2> QED BY <2>1, <2>2 DEF ws2812_copy, InHalf
<1> QED BY <1>2, <1>3, <1>4 DEF Holds, Wanted, bufferVars

LEMMA LedInitInv == LedInit => LedInv
<1> SUFFICES ASSUME LedInit PROVE LedInv
  OBVIOUS
<1>1. 0 \in Cells
  BY Ws2812Assumption DEF Cells
<1> QED BY <1>1 DEF LedInit, LedInv, LedTypeOK, Separate, Quiet

LEMMA TaskLedInv ==
  ASSUME LedInv, Separate', TaskStep \/ \E n \in Lengths : SetColors(n)
  PROVE  LedInv'
<1>1. LedTypeOK /\ Separate /\ HalfBytes \in Nat \ {0}
  BY Ws2812Assumption DEF LedInv
<1>2. ASSUME NEW n \in Lengths, SetColors(n) PROVE LedInv'
  <2>1. /\ frame' = frame + 1 /\ pc' = "first"
        /\ ws2812_buffer' = bytesOf(frame + 1, n) /\ ws2812_len' = 3 * n
        /\ ws2812_pos' = 0 /\ ws2812_half' = 0
        /\ UNCHANGED <<rmtVars, flagVars, isr>>
    BY <1>2 DEF SetColors
  <2>2. 3 * n \in Nat \ {0, HalfBytes} /\ \A k \in 1..(3 * n) : bytesOf(frame + 1, n)[k] \in Byte
    <3>1. frame + 1 \in Nat
      BY <1>1 DEF LedTypeOK
    <3> QED BY <3>1, SomeBytes, BytesTyped
  <2>3. LedTypeOK'
    BY <1>1, <2>1, <2>2 DEF LedTypeOK, rmtVars, flagVars
  <2> QED BY <2>1, <2>3 DEF LedInv
<1>3. CASE CopiesFirst
  <2>1. /\ pc = "first" /\ pc' = "second" /\ ws2812_copy
        /\ UNCHANGED <<frame, bufferVars, rmtVars, flagVars, isr>>
    BY <1>3 DEF CopiesFirst, taskAt
  <2>2. /\ ws2812_half = 0 /\ ws2812_buffer # <<>> /\ ws2812_len \in Nat \ {0}
        /\ CopiedUpTo(0)
    BY <1>1, <2>1 DEF LedInv, LedTypeOK, Separate, CopiedUpTo
  <2>3. ws2812_half' = 1 /\ ws2812_pos' \in Nat /\ CopiedUpTo(HalfBytes)' /\ Holds(0, 0)'
    BY <1>1, <2>1, <2>2, CopiesHalf
  <2>4. LedTypeOK'
    BY <1>1, <2>1, <2>3 DEF LedTypeOK, bufferVars, rmtVars, flagVars
  <2> QED BY <1>1, <2>1, <2>3, <2>4 DEF LedInv, Behind
<1>4. CASE CopiesSecond
  <2>1. /\ pc = "second" /\ pc' = "start"
        /\ IF ws2812_pos < ws2812_len THEN ws2812_copy ELSE UNCHANGED copyVars
        /\ UNCHANGED <<frame, bufferVars, rmtVars, flagVars, isr>>
    BY <1>4 DEF CopiesSecond, taskAt
  <2>2. /\ Holds(0, 0) /\ ws2812_half = 1 /\ CopiedUpTo(HalfBytes)
        /\ ws2812_buffer # <<>> /\ ws2812_len \in Nat \ {0, HalfBytes} /\ ~thr
    BY <1>1, <2>1 DEF LedInv, LedTypeOK, Separate, Quiet, Behind
  <2>3. CASE ws2812_len < HalfBytes
    <3>1. ~(ws2812_pos < ws2812_len)
      BY <1>1, <2>2, <2>3 DEF CopiedUpTo
    <3>2. UNCHANGED copyVars
      BY <2>1, <3>1
    <3>3. LedTypeOK'
      BY <1>1, <2>1, <3>2 DEF LedTypeOK, copyVars, bufferVars, rmtVars, flagVars
    <3>4. Behind(0, 0)'
      <4>1. Behind(0, 0)
        BY <1>1, <2>2 DEF Behind
      <4>2. UNCHANGED <<bufferVars, copyVars>>
        BY <2>1, <3>2
      <4> QED BY <4>1, <4>2, StaysLoaded
    <3> QED BY <2>1, <2>3, <3>3, <3>4 DEF LedInv, Loaded, bufferVars
  <2>4. CASE ws2812_len > HalfBytes
    <3>1. ws2812_copy
      BY <1>1, <2>1, <2>2, <2>4 DEF CopiedUpTo
    <3>2. /\ ws2812_half' = 0 /\ ws2812_pos' \in Nat /\ CopiedUpTo(HalfBytes + HalfBytes)'
          /\ Holds(1, HalfBytes)' /\ Holds(0, 0)'
      BY <1>1, <2>1, <2>2, <3>1, CopiesHalf
    <3>3. LedTypeOK'
      BY <1>1, <2>1, <3>2 DEF LedTypeOK, bufferVars, rmtVars, flagVars
    <3>4. Ahead(0, 0)'
      BY <1>1, <3>2 DEF Ahead, CopiedUpTo
    <3> QED BY <1>1, <2>1, <2>2, <2>4, <3>3, <3>4 DEF LedInv, Loaded, bufferVars, flagVars
  <2> QED BY <1>1, <2>2, <2>3, <2>4
<1>5. CASE Starts
  <2>1. /\ pc = "start" /\ pc' = "take" /\ on' = TRUE /\ at' = 0 /\ sent' = <<>> /\ late' = FALSE
        /\ UNCHANGED <<frame, bufferVars, copyVars, flagVars, isr>>
    BY <1>5 DEF Starts, taskAt
  <2>2. 0 \in Cells /\ <<>> \in Seq(Pulses) /\ Len(<<>>) = 0 /\ first(0) = 0
    BY <1>1 DEF Cells, first
  <2>3. Loaded(0, 0) /\ ~thr /\ ws2812_len \in Nat
    BY <1>1, <2>1 DEF LedInv, LedTypeOK, Separate, Quiet
  <2>4. Loaded(0, 0)'
    <3>1. Behind(0, 0)' = Behind(0, 0) /\ Ahead(0, 0)' = Ahead(0, 0)
      BY <2>1, StaysLoaded
    <3> QED BY <2>1, <2>3, <3>1 DEF Loaded, bufferVars, flagVars
  <2>5. LedTypeOK'
    BY <1>1, <2>1, <2>2 DEF LedTypeOK, bufferVars, copyVars, flagVars
  <2>6. SendingFrom(0, 0, 0)'
    BY <2>1, <2>2, <2>3, <2>4 DEF SendingFrom, flagVars
  <2>7. 0 \in {0, 1} /\ 0 \in 0..(HalfBytes - 1) /\ 0 \in Nat
    BY <1>1
  <2>8. Sending'
    BY <2>1, <2>2, <2>3, <2>6, <2>7 DEF Sending, bufferVars
  <2> QED BY <2>1, <2>5, <2>8 DEF LedInv
<1>6. CASE Returns
  BY <1>1, <1>6 DEF Returns, LedInv, LedTypeOK, copyVars, rmtVars, flagVars
<1> QED BY <1>2, <1>3, <1>4, <1>5, <1>6 DEF TaskStep

LEMMA RmtLedInv ==
  ASSUME LedInv, Separate', Rmt
  PROVE  LedInv'
<1>1. LedTypeOK /\ Separate /\ HalfBytes \in Nat \ {0}
  BY Ws2812Assumption DEF LedInv
<1>2. /\ pc = "take" /\ on
      /\ UNCHANGED <<pc, frame, bufferVars, copyVars, isr>>
  BY <1>1 DEF Rmt, SendsByte, SendsEnd, Separate, Quiet
<1>3. at' \in Cells /\ {on', thr', end', late'} \subseteq BOOLEAN
  <2>1. (at + 1) % (2 * HalfBytes) \in Cells
    BY <1>1 DEF Cells, LedTypeOK
  <2> QED BY <1>1, <2>1 DEF Rmt, SendsByte, SendsEnd, LedTypeOK
<1>4. sent' \in Seq(Pulses) => LedTypeOK'
  BY <1>1, <1>2, <1>3 DEF LedTypeOK, bufferVars, copyVars
<1>5. CASE late'
  <2>1. sent' = <<>> \/ sent' = sent
    BY <1>5 DEF Rmt, SendsByte, SendsEnd
  <2>2. sent' \in Seq(Pulses)
    <3>1. <<>> \in Seq(Pulses)
      OBVIOUS
    <3> QED BY <1>1, <2>1, <3>1 DEF LedTypeOK
  <2> QED BY <1>2, <1>4, <1>5, <2>2 DEF LedInv
<1>6. CASE ~late'
  <2>1. Sending
    BY <1>1, <1>2, <1>6 DEF Rmt, SendsByte, SendsEnd, LedInv, LedTypeOK
  <2>2. PICK h \in {0, 1}, i \in 0..(HalfBytes - 1), k \in Nat : SendingFrom(h, i, k)
    BY <2>1 DEF Sending
  <2>3. at = first(h) + i /\ Len(sent) = k + i /\ Loaded(h, k)
    BY <2>2 DEF SendingFrom
  <2>4. mem[at] = Wanted(Len(sent))
    BY <2>3 DEF Loaded, Behind, Ahead, Holds
  <2>5. /\ mem[at] = Zero <=> Len(sent) >= ws2812_len
        /\ Len(sent) < ws2812_len => Wanted(Len(sent)) \in Pulses
        /\ Len(sent) \in Nat
    BY <1>1, <1>2, <2>3, <2>4, WantedIs
  <2>6. Len(sent) <= ws2812_len /\ \A j \in 1..Len(sent) : sent[j] = Wanted(j - 1)
    BY <2>1 DEF Sending
  <2>7. \A j \in Nat : Wanted(j)' = Wanted(j)
    BY <1>2 DEF Wanted, bufferVars
  <2>8. CASE SendsEnd
    <3>1. Len(sent) = ws2812_len /\ UNCHANGED <<at, sent, thr>>
      BY <1>1, <2>5, <2>6, <2>8 DEF SendsEnd, LedTypeOK
    <3>2. SendingFrom(h, i, k)'
      BY <1>2, <2>2, <3>1, StaysLoaded DEF SendingFrom, Loaded, bufferVars
    <3>3. Sending'
      BY <1>2, <2>6, <2>7, <3>1, <3>2 DEF Sending, bufferVars
    <3> QED BY <1>1, <1>2, <1>4, <3>1, <3>3 DEF LedInv, LedTypeOK
  <2>9. CASE SendsByte
    <3>1. /\ sent' = Append(sent, Wanted(Len(sent))) /\ Len(sent) < ws2812_len
          /\ at' = (at + 1) % (2 * HalfBytes) /\ UNCHANGED <<on, end>>
      BY <1>1, <1>6, <2>4, <2>5, <2>9 DEF SendsByte, LedTypeOK
    <3>2. /\ sent' \in Seq(Pulses) /\ Len(sent') = Len(sent) + 1
          /\ \A j \in 1..Len(sent') : sent'[j] = Wanted(j - 1)
      BY <1>1, <2>5, <2>6, <3>1, AppendProperties DEF LedTypeOK
    <3>3. ASSUME NEW g \in {0, 1}, NEW j \in 0..(HalfBytes - 1), NEW l \in Nat,
                 SendingFrom(g, j, l)'
          PROVE  LedInv'
      <4>1. Sending'
        BY <1>1, <1>2, <2>5, <2>7, <3>1, <3>2, <3>3 DEF Sending, bufferVars, LedTypeOK
      <4> QED BY <1>2, <1>4, <3>2, <4>1 DEF LedInv
    <3>4. CASE i < HalfBytes - 1
      <4>1. at' = first(h) + (i + 1) /\ thr' = thr /\ i + 1 \in 0..(HalfBytes - 1)
        BY <1>1, <2>3, <2>9, <3>1, <3>4, NextCell DEF SendsByte
      <4>2. Len(sent') = k + (i + 1)
        BY <1>1, <2>3, <3>2
      <4>3. SendingFrom(h, i + 1, k)'
        BY <1>2, <2>2, <4>1, <4>2, StaysLoaded DEF SendingFrom, Loaded, bufferVars
      <4> QED BY <3>3, <4>1, <4>3
    <3>5. CASE i = HalfBytes - 1
      <4>1. at' = first(1 - h) + 0 /\ thr' = TRUE /\ ~thr /\ isr = "none"
        BY <1>1, <1>6, <2>3, <2>9, <3>1, <3>5, NextCell DEF SendsByte, LedTypeOK, Separate
      <4>2. 1 - h \in {0, 1} /\ 0 \in 0..(HalfBytes - 1) /\ k + HalfBytes \in Nat
        BY <1>1
      <4>3. Len(sent') = (k + HalfBytes) + 0
        BY <1>1, <2>3, <3>2, <3>5
      <4>4. ws2812_len >= HalfBytes
        BY <1>1, <2>3, <3>1, <3>5 DEF LedTypeOK
      <4>5. Ahead(h, k)'
        BY <1>1, <1>2, <2>3, <4>1, <4>4, StaysLoaded DEF Loaded, LedTypeOK
      <4>6. Behind(1 - h, k + HalfBytes)'
        BY <1>1, <4>5 DEF Ahead, Behind, CopiedUpTo
      <4>7. SendingFrom(1 - h, 0, k + HalfBytes)'
        BY <1>1, <1>2, <4>1, <4>3, <4>4, <4>6 DEF SendingFrom, Loaded, bufferVars, LedTypeOK
      <4> QED BY <3>3, <4>2, <4>7
    <3> QED BY <1>1, <3>4, <3>5
  <2> QED BY <2>8, <2>9 DEF Rmt
<1> QED BY <1>5, <1>6

LEMMA IsrLedInv ==
  ASSUME LedInv, Separate', Isr
  PROVE  LedInv'
<1>1. LedTypeOK /\ Separate /\ HalfBytes \in Nat \ {0}
  BY Ws2812Assumption DEF LedInv
<1>2. pc = "take" /\ UNCHANGED <<pc, frame, bufferVars, rmtVars>>
  BY <1>1 DEF Isr, IsrRefills, IsrClears, IsrGives, Separate, Quiet
<1>3. \A k \in Nat : Wanted(k)' = Wanted(k)
  BY <1>2 DEF Wanted, bufferVars
<1>4. ASSUME ~late, \A h \in {0, 1}, i \in 0..(HalfBytes - 1), k \in Nat :
                      SendingFrom(h, i, k) => SendingFrom(h, i, k)'
      PROVE  Sending'
  <2>1. Sending
    BY <1>2, <1>4 DEF LedInv
  <2> QED BY <1>1, <1>2, <1>3, <1>4, <2>1 DEF Sending, bufferVars, rmtVars, LedTypeOK
<1>5. CASE IsrRefills
  <2>1. thr /\ isr = "none" /\ isr' = "refilled" /\ ws2812_copy /\ UNCHANGED flagVars
        /\ ws2812_buffer # <<>> /\ ws2812_half \in {0, 1}
    BY <1>1, <1>2, <1>5 DEF IsrRefills, Separate, LedTypeOK
  <2>2. ws2812_half' = 1 - ws2812_half /\ ws2812_pos' \in Nat
    BY <1>1, <2>1 DEF ws2812_copy, atMostHalf, left, LedTypeOK
  <2>3. LedTypeOK'
    BY <1>1, <1>2, <2>1, <2>2 DEF LedTypeOK, bufferVars, rmtVars, flagVars
  <2>4. ASSUME NEW h \in {0, 1}, NEW i \in 0..(HalfBytes - 1), NEW k \in Nat,
               SendingFrom(h, i, k)
        PROVE  SendingFrom(h, i, k)'
    <3>1. Behind(h, k) /\ ws2812_len >= HalfBytes
      BY <1>1, <2>1, <2>4 DEF SendingFrom, Loaded, LedTypeOK
    <3>2. /\ Holds(h, k) /\ ws2812_half = 1 - h /\ CopiedUpTo(k + HalfBytes)
          /\ 1 - h \in {0, 1} /\ 1 - (1 - h) = h /\ k + HalfBytes \in Nat
          /\ (k + HalfBytes) + HalfBytes = k + 2 * HalfBytes
      BY <1>1, <3>1 DEF Behind
    <3>3. /\ ws2812_half' = h /\ CopiedUpTo(k + 2 * HalfBytes)'
          /\ Holds(1 - h, k + HalfBytes)' /\ Holds(h, k)'
      BY <1>1, <1>2, <2>1, <3>2, CopiesHalf
    <3> QED
      BY <1>1, <1>2, <2>1, <2>4, <3>1, <3>3
      DEF SendingFrom, Loaded, Ahead, LedTypeOK, bufferVars, rmtVars, flagVars
  <2> QED BY <1>2, <1>4, <2>3, <2>4 DEF LedInv, rmtVars
<1>6. CASE IsrClears \/ IsrGives
  <2>1. LedTypeOK'
    BY <1>1, <1>2, <1>6 DEF IsrClears, IsrGives, LedTypeOK, bufferVars, rmtVars, copyVars
  <2>2. /\ UNCHANGED copyVars
        /\ (thr /\ isr = "none") = (thr' /\ isr' = "none") /\ (thr' => thr)
    BY <1>1, <1>6 DEF IsrClears, IsrGives, Separate
  <2>3. ASSUME NEW h \in {0, 1}, NEW i \in 0..(HalfBytes - 1), NEW k \in Nat,
               SendingFrom(h, i, k)
        PROVE  SendingFrom(h, i, k)'
    BY <1>2, <2>2, <2>3, StaysLoaded DEF SendingFrom, Loaded, bufferVars, rmtVars
  <2> QED BY <1>2, <1>4, <2>1, <2>3 DEF LedInv, rmtVars
<1> QED BY <1>5, <1>6 DEF Isr

LEMMA LedInvariant == LedSpec => []LedInv
<1>1. LedInv /\ UNCHANGED ledVars => LedInv'
  <2> SUFFICES ASSUME LedInv, UNCHANGED ledVars PROVE LedInv'
    OBVIOUS
  <2> USE DEF ledVars, bufferVars, copyVars, rmtVars, flagVars
  <2>1. LedTypeOK' /\ Separate'
    BY NextSeparate DEF LedInv, LedTypeOK
  <2>2. Behind(0, 0)' = Behind(0, 0) /\ Loaded(0, 0)' = Loaded(0, 0)
    BY StaysLoaded DEF Loaded
  <2>3. Sending => Sending'
    <3>1. \A h \in {0, 1}, i \in 0..(HalfBytes - 1), k \in Nat :
            SendingFrom(h, i, k) => SendingFrom(h, i, k)'
      BY StaysLoaded DEF SendingFrom, Loaded
    <3> QED BY <3>1 DEF Sending, Wanted
  <2> QED BY <2>1, <2>2, <2>3 DEF LedInv
<1>2. LedInv /\ [LedNext]_ledVars => LedInv'
  BY <1>1, NextSeparate, TaskLedInv, RmtLedInv, IsrLedInv DEF LedInv, LedNext
<1> QED BY LedInitInv, <1>2, PTL DEF LedSpec

(* As long as no interrupt is late, the strip is sent the colours of this  *)
(* call and nothing else, whatever the length of the strip; and all of     *)
(* them before the semaphore is given.                                     *)
THEOREM ColoursSent == LedSpec => []SentAsAsked
<1>1. LedInv => SentAsAsked
  <2> SUFFICES ASSUME LedInv, pc = "take", ~late
               PROVE  /\ Len(sent) <= ws2812_len
                      /\ \A k \in 1..Len(sent) : sent[k] = <<ws2812_buffer[k], k = ws2812_len>>
                      /\ ws2812_sem = "given" => Len(sent) = ws2812_len
    BY DEF SentAsAsked
  <2>1. Sending /\ ws2812_len \in Nat /\ sent \in Seq(Pulses)
    BY DEF LedInv, LedTypeOK
  <2>2. ws2812_sem = "given" => Len(sent) = ws2812_len
    BY <2>1 DEF LedInv, Separate, Quiet, Sending
  <2>3. ASSUME NEW k \in 1..Len(sent) PROVE sent[k] = <<ws2812_buffer[k], k = ws2812_len>>
    <3>1. sent[k] = Wanted(k - 1) /\ k - 1 < ws2812_len /\ (k - 1) + 1 = k
      BY <2>1 DEF Sending
    <3> QED BY <3>1 DEF Wanted
  <2> QED BY <2>1, <2>2, <2>3 DEF Sending
<1> QED BY <1>1, LedInvariant, PTL

=============================================================================
