-------------------------------- MODULE IcyMeta --------------------------------
(***************************************************************************)
(* The Icy demultiplexer at the head and tail of spiRamFifoWrite: it takes *)
(* apart a stream in which, after every icymeta_interval bytes of audio,   *)
(* come a length byte and that many units of metadata.  The boundaries     *)
(* fall anywhere in the buffers the HTTP task happens to receive.          *)
(*                                                                         *)
(* Bytes are counted, not looked at.  What the server really sent next is  *)
(* in "kind" and "left"; the parser cannot see them, and what it takes a   *)
(* byte for is compared with them.  One step is one call of a function or  *)
(* one part of spiRamFifoWrite; only the HTTP task runs here.              *)
(***************************************************************************)
EXTENDS Integers

CONSTANTS
  Intervals,     \* values of the icy-metaint header; 0 when there is none
  MaxBuf,        \* longest buffer: http.c reads at most 63 bytes at a time
  Unit,          \* bytes a unit of metadata has (16)
  MaxUnits,      \* largest length byte (255)
  TextLen,       \* ICY_META_BUFF_LEN
  Word           \* 2^32: unsigned arithmetic wraps there

(* A server puts at least one receive buffer of audio between two pieces   *)
(* of metadata.                                                            *)
ASSUME IcyAssumption ==
  /\ MaxBuf \in Nat \ {0} /\ Unit \in Nat \ {0} /\ MaxUnits \in Nat
  /\ TextLen \in Nat \ {0} /\ Word \in Nat /\ MaxBuf < Word
  /\ \A i \in Intervals : i \in Nat /\ (i > 0 => i >= MaxBuf - 1) /\ i + MaxBuf < Word

VARIABLES
  newHttpRequest, icymeta_interval,                    \* http.c
  fifoFlag, readDataBytes, metaLength, readMetaBytes,  \* the parser
  textLen,                 \* where icymeta_text was last terminated
  pc, buffLen,             \* where the call is, and the bytes it has left
  endMetaLength,           \* bytes to come back to after the audio
  kind, left               \* the server: what comes next, and how much of it

parserVars == <<fifoFlag, readDataBytes, metaLength, readMetaBytes>>
requestVars == <<newHttpRequest, icymeta_interval>>
serverVars == <<kind, left>>
vars == <<requestVars, parserVars, textLen, pc, buffLen, endMetaLength, serverVars>>

Init ==
  /\ newHttpRequest = FALSE /\ icymeta_interval = 0
  /\ fifoFlag = "DATA" /\ readDataBytes = 0 /\ metaLength = 0 /\ readMetaBytes = 0
  /\ textLen = 0
  /\ pc = "closed" /\ buffLen = 0 /\ endMetaLength = 0
  /\ kind = "data" /\ left = 0

-----------------------------------------------------------------------------
(* The server's side of the stream                                         *)

(* n bytes of audio go by.  Without Icy metadata there is nothing else.    *)
passData(n) ==
  IF icymeta_interval = 0 \/ n = 0
  THEN UNCHANGED serverVars
  ELSE /\ left' = left - n
       /\ kind' = IF left = n THEN "length" ELSE "data"

(* The length byte goes by; it announces m bytes.                          *)
passLength(m) ==
  IF m = 0 THEN kind' = "data" /\ left' = icymeta_interval
           ELSE kind' = "meta" /\ left' = m

passMeta(n) ==
  IF left = n THEN kind' = "data" /\ left' = icymeta_interval
              ELSE kind' = "meta" /\ left' = left - n

-----------------------------------------------------------------------------
(* http_client_get: a new request, at a moment no write is under way.      *)
(* Whatever the previous stream was in the middle of is over.              *)
NewRequest ==
  /\ pc \in {"closed", "idle"}
  /\ newHttpRequest' = TRUE
  /\ icymeta_interval' \in Intervals
  /\ kind' = "data" /\ left' = icymeta_interval'
  /\ pc' = "idle"
  /\ UNCHANGED <<parserVars, textLen, buffLen, endMetaLength>>

(* Mutant: resetReader is not called for a new request.                    *)
spiRamFifoWrite_NoReset(len) ==
  /\ pc = "idle"
  /\ buffLen' = len
  /\ newHttpRequest' = FALSE
  /\ IF newHttpRequest
     THEN metaLength' = 0 /\ readMetaBytes' = 0 /\ textLen' = 0
     ELSE UNCHANGED <<metaLength, readMetaBytes, textLen>>
  /\ pc' = "head"
  /\ UNCHANGED <<fifoFlag, readDataBytes, icymeta_interval, endMetaLength, serverVars>>

(* spiRamFifoWrite is called: lines 206 to 216.                            *)
spiRamFifoWrite(len) ==
  /\ pc = "idle"
  /\ buffLen' = len
  /\ newHttpRequest' = FALSE
  /\ IF newHttpRequest
     THEN /\ fifoFlag' = "DATA" /\ readDataBytes' = 0
          /\ metaLength' = 0 /\ readMetaBytes' = 0 /\ textLen' = 0
     ELSE UNCHANGED <<parserVars, textLen>>
  /\ pc' = "head"
  /\ UNCHANGED <<icymeta_interval, endMetaLength, serverVars>>

(* Arithmetic of an unsigned int.                                          *)
minus(a, b) == IF a >= b THEN a - b ELSE a - b + Word
plus(a, b) == IF a + b < Word THEN a + b ELSE a + b - Word

AtMost(n, limit) == IF n < limit THEN n ELSE limit

(* Mutant: the audio already received is not subtracted.                   *)
dataLeft_Whole == icymeta_interval

(* What the interval still has of audio.                                   *)
dataLeft == minus(icymeta_interval, readDataBytes)

(* The first switch: split the buffer at the end of the audio, or give it  *)
(* to processMetaData.                                                     *)
HeadSplits ==
  /\ pc = "head"
  /\ icymeta_interval = 0 \/ fifoFlag = "DATA"
  /\ IF icymeta_interval > 0 /\ dataLeft < buffLen
     THEN /\ endMetaLength' = buffLen - dataLeft
          /\ buffLen' = dataLeft
     ELSE /\ endMetaLength' = 0
          /\ UNCHANGED buffLen
  /\ pc' = "data"
  /\ UNCHANGED <<requestVars, parserVars, textLen, serverVars>>

HeadMeta ==
  /\ pc = "head"
  /\ icymeta_interval > 0 /\ fifoFlag # "DATA"
  /\ endMetaLength' = 0
  /\ pc' = IF fifoFlag = "ICY_META_LENGTH" THEN "length" ELSE "content"
  /\ UNCHANGED <<requestVars, parserVars, textLen, buffLen, serverVars>>

(* processMetaData, ICY_META_LENGTH: the byte says how much will follow.   *)
MetaLength(units) ==
  /\ pc = "length"
  /\ metaLength' = units * Unit
  /\ readMetaBytes' = 0
  /\ buffLen' = buffLen - 1
  /\ fifoFlag' = "ICY_META_CONTENT"
  /\ pc' = "content"
  /\ passLength(units * Unit)
  /\ UNCHANGED <<requestVars, readDataBytes, textLen, endMetaLength>>

(* processMetaData, ICY_META_CONTENT: take what the buffer has of it.  A    *)
(* byte that icymeta_text has no room for ends the text early.             *)
MetaContent ==
  LET n == AtMost(buffLen, metaLength - readMetaBytes)
  IN  /\ pc = "content"
      /\ readMetaBytes # metaLength
      /\ buffLen > 0
      /\ readMetaBytes' = readMetaBytes + n
      /\ buffLen' = buffLen - n
      /\ textLen' = IF readMetaBytes + n > TextLen - 1 THEN TextLen - 1 ELSE textLen
      /\ passMeta(n)
      /\ UNCHANGED <<requestVars, fifoFlag, readDataBytes, metaLength, pc, endMetaLength>>

(* All of it has been taken: end the title and go back to audio.           *)
MetaDone ==
  /\ pc = "content"
  /\ readMetaBytes = metaLength
  /\ textLen' = AtMost(readMetaBytes, TextLen - 1)
  /\ fifoFlag' = "DATA" /\ readDataBytes' = 0
  /\ metaLength' = 0 /\ readMetaBytes' = 0
  /\ pc' = "data"
  /\ UNCHANGED <<requestVars, buffLen, endMetaLength, serverVars>>

(* The buffer ends before the metadata does.                               *)
MetaMore ==
  /\ pc = "content"
  /\ readMetaBytes # metaLength
  /\ buffLen = 0
  /\ pc' = "data"
  /\ UNCHANGED <<requestVars, parserVars, textLen, buffLen, endMetaLength, serverVars>>

(* The data loop stores buffLen bytes; then the rest, if any, is handled   *)
(* by a call of spiRamFifoWrite of its own.                                *)
StoreData ==
  /\ pc = "data"
  /\ readDataBytes' = plus(readDataBytes, buffLen)
  /\ passData(buffLen)
  /\ IF endMetaLength > 0
     THEN /\ fifoFlag' = "ICY_META_LENGTH"
          /\ buffLen' = endMetaLength
          /\ pc' = "head"
     ELSE /\ buffLen' = 0
          /\ pc' = "idle"
          /\ UNCHANGED fifoFlag
  /\ endMetaLength' = 0
  /\ UNCHANGED <<requestVars, metaLength, readMetaBytes, textLen>>

Next ==
  \/ NewRequest
  \/ \E len \in 1..MaxBuf : spiRamFifoWrite(len)
  \/ HeadSplits \/ HeadMeta
  \/ \E units \in 0..MaxUnits : MetaLength(units)
  \/ MetaContent \/ MetaDone \/ MetaMore
  \/ StoreData

Spec == Init /\ [][Next]_vars
-----------------------------------------------------------------------------
(* Properties                                                              *)

MaxMeta == MaxUnits * Unit

(* The terminator stays inside icymeta_text, and the counters keep to the  *)
(* ranges of their C types.                                                *)
CountersOK ==
  /\ icymeta_interval \in Intervals \cup {0}
  /\ fifoFlag \in {"DATA", "ICY_META_LENGTH", "ICY_META_CONTENT"}
  /\ readDataBytes \in 0..(Word - 1)
  /\ metaLength \in 0..MaxMeta /\ readMetaBytes \in 0..metaLength
  /\ textLen \in 0..(TextLen - 1)
  /\ pc \in {"closed", "idle", "head", "length", "content", "data"}
  /\ buffLen \in 0..MaxBuf /\ endMetaLength \in 0..MaxBuf
  /\ kind \in {"data", "length", "meta"} /\ left \in Nat

TypeOK == newHttpRequest \in BOOLEAN /\ CountersOK

(* Between two calls the parser knows what the server sends next and how   *)
(* much of it: no split of the stream into buffers, and no request that    *)
(* cut the previous stream short, makes the counters of spiram_fifo.c      *)
(* drift from the stream.                                                  *)
AtBoundary ==
  \/ kind = "data" /\ left > 0 /\ readDataBytes + left = icymeta_interval
  \/ kind = "length" /\ readDataBytes = icymeta_interval

InMeta == kind = "meta" /\ left > 0 /\ metaLength - readMetaBytes = left

InStep ==
  pc = "idle" /\ icymeta_interval > 0 /\ ~newHttpRequest =>
    \/ fifoFlag = "DATA" /\ AtBoundary
    \/ fifoFlag = "ICY_META_CONTENT" /\ InMeta

(* The decoder is never given metadata for audio: all of what the data     *)
(* loop of spiRamFifoWrite stores is audio.                                *)
OnlyAudioStored ==
  pc = "data" /\ icymeta_interval > 0 /\ buffLen > 0 => kind = "data" /\ buffLen <= left

(* And no audio is taken for metadata: processMetaData reads a length byte *)
(* only where the server put one, and as many bytes of text as it sent.    *)
OnlyMetaParsed ==
  /\ pc = "length" => kind = "length" /\ buffLen > 0
  /\ pc = "content" /\ readMetaBytes # metaLength =>
       kind = "meta" /\ left = metaLength - readMetaBytes

(* "Persist previous meta if no meta content received" (spiram_fifo.c:160):*)
(* within a stream, a piece of metadata of length 0 leaves the title alone.*)
KeepsTitle == [][MetaDone /\ metaLength = 0 => textLen' = textLen]_vars

-----------------------------------------------------------------------------
(* The inductive invariant: what relates parser and server at every place  *)
(* of a call, not only between calls.                                      *)

Called == pc \in {"idle", "head"} =>
  \/ fifoFlag = "DATA" /\ AtBoundary
  \/ fifoFlag = "ICY_META_CONTENT" /\ InMeta
  \/ fifoFlag = "ICY_META_LENGTH" /\ pc = "head" /\ kind = "length"

Storing == pc = "data" =>
  \/ /\ fifoFlag = "DATA" /\ AtBoundary
     /\ buffLen <= icymeta_interval - readDataBytes
     /\ endMetaLength > 0 => buffLen = icymeta_interval - readDataBytes
  \/ fifoFlag = "ICY_META_CONTENT" /\ InMeta /\ buffLen = 0 /\ endMetaLength = 0

InLength == pc = "length" =>
  fifoFlag = "ICY_META_LENGTH" /\ kind = "length" /\ buffLen > 0

InContent == pc = "content" =>
  /\ fifoFlag = "ICY_META_CONTENT"
  /\ \/ InMeta
     \/ /\ readMetaBytes = metaLength /\ buffLen < MaxBuf
        /\ kind = "data" /\ left = icymeta_interval

Fresh ==
  /\ newHttpRequest => pc = "idle" /\ kind = "data" /\ left = icymeta_interval
  /\ pc = "closed" => icymeta_interval = 0
  /\ pc \in {"length", "content"} => icymeta_interval > 0
  /\ pc = "head" => buffLen > 0
  /\ icymeta_interval = 0 \/ pc # "data" => endMetaLength = 0

IInv ==
  /\ TypeOK /\ Fresh
  /\ icymeta_interval > 0 /\ ~newHttpRequest =>
       Called /\ Storing /\ InLength /\ InContent
=============================================================================
