------------------------------- MODULE MCStack -------------------------------
(***************************************************************************)
(* Stack with one G on two Ms, one of which has an alternate signal stack. *)
(***************************************************************************)
EXTENDS Stack, TLC

CONSTANTS g1, m1, m2

OneG == {g1}
OneM == {m1}
TwoMs == {m1, m2}
=============================================================================
