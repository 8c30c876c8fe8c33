------------------------------- MODULE Dictionary -------------------------------
(***************************************************************************)
(* What a map promises: a value for some of the keys, and the true answer  *)
(* to every lookup and deletion.                                           *)
(***************************************************************************)
CONSTANTS Key, Val, NULL

VARIABLES contents,  \* the value of each key, or NULL
          answer     \* the key of the last lookup or deletion, and what it returned

Init ==
  /\ contents = [k \in Key |-> NULL]
  /\ answer = [key |-> NULL, result |-> NULL]

Put(k, v) ==
  /\ contents' = [contents EXCEPT ![k] = v]
  /\ UNCHANGED answer

\* The key's value, or NULL where the map has none.
Lookup(k) ==
  /\ answer' = [key |-> k, result |-> contents[k]]
  /\ UNCHANGED contents

\* The deleted value stands for the answer true, NULL for false.
Remove(k) ==
  /\ answer' = [key |-> k, result |-> contents[k]]
  /\ contents' = [contents EXCEPT ![k] = NULL]

Next == \E k \in Key : Lookup(k) \/ Remove(k) \/ \E v \in Val : Put(k, v)

Spec == Init /\ [][Next]_<<contents, answer>>
=============================================================================
