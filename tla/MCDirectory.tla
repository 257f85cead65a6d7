---------------------------- MODULE MCDirectory ---------------------------
(* A directory of three files and the two dots.  Entry 4 is twice as long   *)
(* as the others; the buffers hold nothing, one short entry, a long one,    *)
(* or a long and a short one.                                               *)
EXTENDS Directory

Sizes == [e \in Entry |-> IF e = 4 THEN 2 ELSE 1]
TwoPatterns == {Entry, {3, 5}}
FourRooms == {0, 1, 2, 3}
============================================================================
