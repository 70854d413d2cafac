----------------------------- MODULE IcyMetaProofs -----------------------------
(* Proofs about IcyMeta, for every interval, buffer length and title: the  *)
(* parser never loses step with the stream.                                *)
EXTENDS IcyMeta, TLAPS

(* A length byte announces a natural number of bytes, at most MaxUnits of  *)
(* them.                                                                   *)
LEMMA Announced ==
  ASSUME NEW units \in 0..MaxUnits
  PROVE  units * Unit \in 0..MaxMeta
  BY IcyAssumption, Z3 DEF MaxMeta

(* So metaLength can be 0.                                                 *)
LEMMA MaxBytes == MaxMeta \in Nat
  BY IcyAssumption, Z3 DEF MaxMeta

(* The invariant holds before the first request.                           *)
LEMMA InitIInv == Init => IInv
<1> SUFFICES ASSUME Init PROVE IInv
  OBVIOUS
<1>1. newHttpRequest \in BOOLEAN
  BY DEF Init
<1>2. CountersOK
  BY IcyAssumption, MaxBytes DEF Init, CountersOK
<1>3. Fresh
  BY DEF Init, Fresh
<1>4. ~(icymeta_interval > 0)
  BY DEF Init
<1> QED
  BY <1>1, <1>2, <1>3, <1>4 DEF IInv, TypeOK

(* Every step keeps the invariant.                                         *)
LEMMA NextIInv == IInv /\ [Next]_vars => IInv'
<1> SUFFICES ASSUME IInv, [Next]_vars PROVE IInv'
  OBVIOUS
<1> USE IcyAssumption, MaxBytes
<1> USE DEF IInv, TypeOK, CountersOK, Fresh, Called, Storing, InLength, InContent,
            AtBoundary, InMeta, parserVars, serverVars, requestVars
<1>1. CASE NewRequest
  BY <1>1 DEF NewRequest
<1>2. ASSUME NEW len \in 1..MaxBuf, spiRamFifoWrite(len) PROVE IInv'
  <2>1. newHttpRequest' \in BOOLEAN /\ ~newHttpRequest'
    BY <1>2 DEF spiRamFifoWrite
  <2>2. CountersOK'
    BY <1>2 DEF spiRamFifoWrite
  <2>3. Fresh'
    BY <1>2, <2>1 DEF spiRamFifoWrite
  <2>4. CASE newHttpRequest
    BY <1>2, <2>1, <2>2, <2>3, <2>4 DEF spiRamFifoWrite
  <2>5. CASE ~newHttpRequest
    BY <1>2, <2>1, <2>2, <2>3, <2>5 DEF spiRamFifoWrite
  <2> QED
    BY <2>4, <2>5
<1>3. CASE HeadSplits
  BY <1>3 DEF HeadSplits, dataLeft, minus
<1>4. CASE HeadMeta
  BY <1>4 DEF HeadMeta
<1>5. ASSUME NEW units \in 0..MaxUnits, MetaLength(units) PROVE IInv'
  BY <1>5, Announced DEF MetaLength, passLength
<1>6. CASE MetaContent
  BY <1>6 DEF MetaContent, passMeta, AtMost
<1>7. CASE MetaDone
  BY <1>7 DEF MetaDone, AtMost
<1>8. CASE MetaMore
  BY <1>8 DEF MetaMore
<1>9. CASE StoreData
  BY <1>9 DEF StoreData, passData, plus
<1>10. CASE UNCHANGED vars
  BY <1>10 DEF vars
<1> QED
  BY <1>1, <1>2, <1>3, <1>4, <1>5, <1>6, <1>7, <1>8, <1>9, <1>10 DEF Next

(* The invariant says what the properties say of the places they name.     *)
LEMMA InSync == IInv => InStep /\ OnlyAudioStored /\ OnlyMetaParsed
  BY IcyAssumption DEF IInv, TypeOK, CountersOK, Fresh, Called, Storing, InLength,
     InContent, AtBoundary, InMeta, InStep, OnlyAudioStored, OnlyMetaParsed

(* The counters of spiram_fifo.c stay in range, and the terminator of the  *)
(* title inside icymeta_text, for every length byte.                       *)
THEOREM ParserTypeCorrect == Spec => []TypeOK
<1>1. IInv => TypeOK
  BY DEF IInv
<1> QED
  BY <1>1, InitIInv, NextIInv, PTL DEF Spec

(* Between calls of spiRamFifoWrite the parser knows where in the stream   *)
(* it is, wherever the receive buffers cut it and whenever a request       *)
(* abandoned the stream before.                                            *)
THEOREM StaysInStep == Spec => []InStep
  BY InSync, InitIInv, NextIInv, PTL DEF Spec

(* The ring is given audio only.                                           *)
THEOREM AudioOnly == Spec => []OnlyAudioStored
  BY InSync, InitIInv, NextIInv, PTL DEF Spec

(* processMetaData is given metadata only.                                 *)
THEOREM MetadataOnly == Spec => []OnlyMetaParsed
  BY InSync, InitIInv, NextIInv, PTL DEF Spec
=============================================================================
