------------------------------- MODULE MCPoller -------------------------------
(***************************************************************************)
(* Poller with two green threads and two fds.                              *)
(***************************************************************************)
EXTENDS Poller, TLC

CONSTANTS g1, g2, f1, f2

TwoGs == {g1, g2}
TwoFds == {f1, f2}
OneSlot == {f1}
Symmetry == Permutations(TwoGs)
\* The first descriptor is read, written, closed and opened again; the second is
\* only read, and where fd_slots has but OneSlot it is beyond the table.
TwoInterests == f1 :> {{"read"}, {"write"}, {"read", "write"}} @@ f2 :> {{"read"}}
OneGenerations == f1 :> 4 @@ f2 :> 0
TwoGenerations == f1 :> 2 @@ f2 :> 2
Reads == f1 :> {{"read"}} @@ f2 :> {{"read"}}
=============================================================================
