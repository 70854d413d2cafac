------------------------------- MODULE MCIcyMeta -------------------------------
(* Instances of IcyMeta for TLC.                                           *)
EXTENDS IcyMeta

(* No metadata at all, an interval one short of a buffer, and a longer one *)
(* that ends at every place inside a buffer.                               *)
MCIntervals == {0, 3, 5}
=============================================================================
