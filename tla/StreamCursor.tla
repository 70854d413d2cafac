------------------------------ MODULE StreamCursor ------------------------------
(***************************************************************************)
(* What the read buffer promises a decoder: a cursor that moves forward    *)
(* over the stream.  A seek moves it by exactly the bytes asked for, as    *)
(* they arrive; a read takes exactly the next bytes, or gives up and takes *)
(* none.  Where the bytes wait in between is nobody's business.            *)
(*                                                                         *)
(* The stream is the numbers 1, 2, 3, ...: a byte is its own position.     *)
(***************************************************************************)
EXTENDS Integers, Sequences

CONSTANTS
  Cap,                   \* the longest read that can succeed
  Lengths                \* the lengths asked for

VARIABLES
  sent,                  \* bytes the HTTP task has stored so far
  pos,                   \* bytes the decoder has consumed
  want,                  \* what is left of the request under way
  call,                  \* the request: "none", "seek", "read"
  out                    \* what the last read returned

cursorVars == <<sent, pos, want, call, out>>

Failed == <<>>

Init == sent = 0 /\ pos = 0 /\ want = 0 /\ call = "none" /\ out = Failed

Store ==
  /\ sent' = sent + 1
  /\ UNCHANGED <<pos, want, call, out>>

Seek(n) ==
  /\ call = "none"
  /\ call' = "seek" /\ want' = n
  /\ UNCHANGED <<sent, pos, out>>

(* Part of the way, over bytes that are there.                             *)
Advance(n) ==
  /\ call = "seek" /\ n <= want /\ pos + n <= sent
  /\ pos' = pos + n /\ want' = want - n
  /\ UNCHANGED <<sent, call, out>>

Arrive ==
  /\ call = "seek" /\ pos + want <= sent
  /\ pos' = pos + want /\ want' = 0 /\ call' = "none"
  /\ UNCHANGED <<sent, out>>

Read(n) ==
  /\ call = "none"
  /\ call' = "read" /\ want' = n
  /\ UNCHANGED <<sent, pos, out>>

ReadDone ==
  /\ call = "read" /\ want <= Cap /\ pos + want <= sent
  /\ out' = [i \in 1..want |-> pos + i]
  /\ pos' = pos + want /\ want' = 0 /\ call' = "none"
  /\ UNCHANGED sent

ReadGivesUp ==
  /\ call = "read"
  /\ out' = Failed /\ want' = 0 /\ call' = "none"
  /\ UNCHANGED <<sent, pos>>

Next ==
  \/ Store
  \/ \E n \in Lengths : Seek(n) \/ Read(n)
  \/ \E n \in 0..want : Advance(n)
  \/ Arrive \/ ReadDone \/ ReadGivesUp

Spec == Init /\ [][Next]_cursorVars

===============================================================================
