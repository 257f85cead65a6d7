--------------------------- MODULE MCBulkJournal ---------------------------
(* Small instances of BulkJournal for TLC.                                  *)
EXTENDS BulkJournal

CONSTANTS w1, w2, p, q, b1, b2, b3, bad, big

Op(t, ps) == [type |-> t, paths |-> ps]

(* Package b1 is a run of writes in which one file comes twice, b2 a rename  *)
(* over a file b1 wrote, b3 a write to the result.                          *)
MCJournal == <<Op("write", {p}), Op("write", {q}), Op("write", {p}),
               Op("other", {p, q}), Op("write", {q})>>
MCFirst == [b \in Package |-> IF b = b3 THEN 5 ELSE IF b = b2 THEN 4 ELSE 1]
MCLast == [b \in Package |-> IF b = b3 THEN 5 ELSE IF b = b2 THEN 4 ELSE 3]

(* A shorter journal for the runs with two workers or a liveness property.  *)
SmallJournal == <<Op("write", {p}), Op("write", {q}), Op("other", {p, q})>>
SmallFirst == [b \in Package |-> IF b = b2 THEN 3 ELSE 1]
SmallLast == [b \in Package |-> IF b = b2 THEN 3 ELSE 2]
============================================================================
