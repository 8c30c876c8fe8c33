------------------------------ MODULE WorkDeque ------------------------------
(***************************************************************************)
(* What a work-stealing deque promises: a sequence of green threads to     *)
(* which its owner adds at one end and from which the owner takes at that  *)
(* end and thieves at the other; a green thread is either in the deque,    *)
(* once, or out.                                                           *)
(***************************************************************************)
EXTENDS Naturals, Sequences

CONSTANTS G, Size

VARIABLES queue,   \* the green threads in the deque, oldest first
          out      \* the green threads that are not in it

vars == <<queue, out>>

Init == queue = <<>> /\ out = G

Put(g) ==
  /\ g \in out /\ Len(queue) < Size
  /\ queue' = Append(queue, g)
  /\ out' = out \ {g}

TakeNewest ==
  /\ queue # <<>>
  /\ queue' = SubSeq(queue, 1, Len(queue) - 1)
  /\ out' = out \cup {queue[Len(queue)]}

TakeOldest ==
  /\ queue # <<>>
  /\ queue' = Tail(queue)
  /\ out' = out \cup {Head(queue)}

Next == (\E g \in G : Put(g)) \/ TakeNewest \/ TakeOldest

Spec == Init /\ [][Next]_vars
=============================================================================
