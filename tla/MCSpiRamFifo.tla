---------------------------- MODULE MCSpiRamFifo ----------------------------
(* Instances of SpiRamFifo for TLC.  The bytes of a buffer differ, so that *)
(* a byte that is lost, repeated or moved shows; a buffer longer than a    *)
(* chunk takes two rounds of the loop, and three when it meets the end of  *)
(* the ring.                                                               *)
EXTENDS SpiRamFifo

MCByte == 0..4
MCBuffers == {<<1>>, <<1, 2, 3, 4>>}
MCLengths == {1, 4}
=============================================================================
