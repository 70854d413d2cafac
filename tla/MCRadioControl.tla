---------------------------- MODULE MCRadioControl ----------------------------
(* Instances of RadioControl for TLC: two tracks, a FIFO of two blocks.    *)
EXTENDS RadioControl, TLC

OnlyMpeg == [t \in 0..1 |-> {"mpeg"}]
FirstAac == [t \in 0..1 |-> IF t = 0 THEN {"aac"} ELSE {"mpeg"}]
FirstMp4 == [t \in 0..1 |-> IF t = 0 THEN {"mp4"} ELSE {"mpeg"}]
AnyFormat == [t \in 0..1 |-> {"mpeg", "mp4", "aac", "other"}]

(* HTTP tasks are interchangeable, and so are decoder tasks.  Used for     *)
(* safety only.                                                            *)
TaskSymmetry == Permutations(Readers) \cup Permutations(Decoders)
=============================================================================
