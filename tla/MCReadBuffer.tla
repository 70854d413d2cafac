---------------------------- MODULE MCReadBuffer ----------------------------
(* Instances of ReadBuffer for TLC.                                        *)
EXTENDS ReadBuffer

MCLengths == {1, 3, 4}
=============================================================================
