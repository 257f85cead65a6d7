---------------------------- MODULE MCOpenTable ----------------------------
(* Small instances of OpenTable for TLC.                                    *)
EXTENDS OpenTable, TLC

CONSTANTS c1, c2, p1, p2, i1, i2, i3, h1, h2, h3

Symmetric == Permutations(Path) \cup Permutations(Inode) \cup Permutations(Handle)
============================================================================
