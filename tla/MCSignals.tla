------------------------------ MODULE MCSignals ------------------------------
(***************************************************************************)
(* Signals with three channels that compete for a registry of two entries, *)
(* two signals and at most one signal in the pipe.                         *)
(***************************************************************************)
EXTENDS Signals, TLC

CONSTANTS c1, c2, c3, int, usr

ThreeChans == {c1, c2, c3}
TwoSignals == {int, usr}
OneSlot == [c \in Chan |-> 1]
=============================================================================
