---------------------------- MODULE MCLocalQueue ----------------------------
(***************************************************************************)
(* LocalQueue on small instances: a deque of two slots, sixteen index      *)
(* values, and starting points at zero, before the sign change and before  *)
(* the wrap.                                                               *)
(***************************************************************************)
EXTENDS LocalQueue, TLC

CONSTANTS g1, g2, g3, m1, m2, m3

MCG == {g1, g2, g3}
TwoThieves == {m2, m3}
NoForeign == {}
OneForeign == {m2}
NoThief == {}
AllStarts == {0, 7, 14}
\* Green threads and thieves are interchangeable in every definition.
Symmetry == Permutations(MCG) \cup Permutations(TwoThieves)
=============================================================================
