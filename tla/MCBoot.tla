---------------------------------- MODULE MCBoot ----------------------------------
EXTENDS Boot

Line(key, n, val, len) == [key |-> key, n |-> n, val |-> val, len |-> len]

(* The value of a line is its place.                                       *)
LineSet(i, numbers, lens) ==
  {Line(key, n, i, len) : key \in {"title", "file"}, n \in numbers, len \in lens}

OfLength(k, numbers, lens) ==
  {f \in [1..k -> UNION {LineSet(i, numbers, lens) : i \in 1..k}] :
     \A i \in 1..k : f[i].val = i}

(* Every playlist of one line, every one of two lines of all lengths that  *)
(* matter, every one of four short lines and three numbers, one with       *)
(* something else in it, one with empty lines and one that makes the       *)
(* vector grow three times.                                                *)
MCFiles ==
  {<<>>, <<Line("other", 0, 1, 2), Line("title", 1, 2, 2), Line("file", 1, 3, 2)>>,
   <<Line("title", 1, 1, 2), Line("other", 0, 2, 0), Line("file", 1, 3, 2),
     Line("other", 0, 4, 0)>>,
   [i \in 1..5 |-> Line("file", i, i, 2)]}
  \cup OfLength(1, {-1, 0, 1, 2}, 2..5) \cup OfLength(2, {0, 1, 2}, {2, 3, 5})
  \cup OfLength(4, 1..3, {2})
=============================================================================
