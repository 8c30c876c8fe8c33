------------------------------- MODULE MCExec -------------------------------
(***************************************************************************)
(* Exec with two commands: one whose output is captured, with pipes of its *)
(* own made before or after, beside one that is run or started with pipes; *)
(* and two that are started with input.                                    *)
(***************************************************************************)
EXTENDS Exec, TLC

CONSTANTS c1, c2

TwoCmds == {c1, c2}
CaptureAndStart ==
  c1 :> {"combined", "out", "err"} @@ c2 :> {"output", "run", "in", "err"}
Starts == [c \in TwoCmds |-> {"start", "in"}]
TwicePipes == c1 :> 2 @@ c2 :> 1
FirstWrites == [c \in TwoCmds |-> IF c = c1 THEN 2 ELSE 0]
=============================================================================
