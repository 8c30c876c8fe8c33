------------------------------ MODULE MCRobinMap ------------------------------
(***************************************************************************)
(* RobinMap with colliding hashes, some of whose probes wrap around.       *)
(***************************************************************************)
EXTENDS RobinMap, TLC

CONSTANTS k1, k2, k3, k4

FourKeys == {k1, k2, k3, k4}
\* In a table of four: 3, 3, 2, 2; in one of eight: 7, 7, 6, 6.
Colliding == k1 :> 7 @@ k2 :> 15 @@ k3 :> 6 @@ k4 :> 14
=============================================================================
