----------------------------- MODULE MCScheduler -----------------------------
(***************************************************************************)
(* Scheduler on small instances: three green threads on one P and one M,   *)
(* as with RUN_MAXPROCS=1; three on two Ps with three Ms, without SIGURG;  *)
(* and two on two Ps with SIGURG.                                          *)
(***************************************************************************)
EXTENDS Scheduler, TLC

CONSTANTS g1, g2, g3, m0, m1, m2, p0, p1

OneP == {p0}
TwoPs == {p0, p1}
OneM == {m0}
TwoMs == {m0, m1}
ThreeMs == {m0, m1, m2}
OneG == {g1}
TwoGs == {g1, g2}
ThreeGs == {g1, g2, g3}
NoIo == {}

\* The main thread and P[0] are named by the specification; the others are
\* interchangeable.
Symmetry2 == Permutations(TwoGs) \cup Permutations({m1, m2})
Symmetry3 == Permutations(ThreeGs) \cup Permutations({m1, m2})
=============================================================================
