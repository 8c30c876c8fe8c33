------------------------------ MODULE MCChannel ------------------------------
(***************************************************************************)
(* Channel on a small instance: two green threads that can both wait, the  *)
(* main thread that can release them and cannot block, two values, and a   *)
(* capacity of none, one and two.                                          *)
(***************************************************************************)
EXTENDS Channel

CONSTANTS g1, g2, main, v1, v2

MCG == {g1, g2}
MCThread == {main}
MCVal == {v1, v2}
MCCaps == 0 .. 2
=============================================================================
