----------------------------- MODULE MCFifoSession -----------------------------
(* An instance of FifoSession for TLC.  The longest buffer just fits above *)
(* the mark, and takes two chunks or, at the end of the ring, three.       *)
EXTENDS FifoSession

MCByte == 0..3
MCBuffers == {<<1>>, <<1, 2, 3>>}
MCLengths == 1..2
=============================================================================
