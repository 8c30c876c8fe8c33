----------------------------- MODULE MCGenAlloc -----------------------------
(***************************************************************************)
(* GenAlloc on a small instance: two threads, two blocks one of which is   *)
(* strictly aligned, two size classes, and sizes inside and beyond them.   *)
(***************************************************************************)
EXTENDS GenAlloc, TLC

CONSTANTS t1, t2, b1, b2, b3

TwoThreads == {t1, t2}
OneThread == {t1}
Blocks == {b1, b2, b3}
TwoBlocks == {b1, b2}
Aligned == {b1}
Classes == {2, 3}
Sizes == {1, 4, 5}
OneSize == {1}
Symmetry == Permutations(TwoThreads)
=============================================================================
