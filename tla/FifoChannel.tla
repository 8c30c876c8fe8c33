----------------------------- MODULE FifoChannel -----------------------------
(***************************************************************************)
(* What a Run channel promises to the program, without a ring buffer, a    *)
(* lock or a scheduler: values leave in the order in which they were       *)
(* accepted, each exactly once; a receive that finds nothing waits in      *)
(* line; a send beyond the capacity waits until its value is within it;    *)
(* close gives every waiting receiver the zero value and fails every       *)
(* waiting sender, and a failed sender never returns: it stops the         *)
(* program.                                                                *)
(***************************************************************************)
EXTENDS Naturals, Sequences

CONSTANTS Caller,   \* everything that may call a channel operation
          Val,      \* the values a program sends
          Zero,     \* the zero value of the element type
          Caps      \* the capacities a channel may be created with

VARIABLES cap,      \* the capacity of this channel
          queue,    \* accepted values that nobody has received yet
          putters,  \* callers blocked in send: the owners of queue's last values
          takers,   \* callers blocked in receive, in arrival order
          result,   \* the value each caller received last
          open,     \* FALSE once the channel is closed
          failed,   \* senders that were waiting when the channel was closed
          stopped   \* TRUE once a panic has ended the program

vars == <<cap, queue, putters, takers, result, open, failed, stopped>>

Init ==
  /\ cap \in Caps
  /\ queue = <<>> /\ putters = <<>> /\ takers = <<>>
  /\ result = [c \in Caller |-> Zero]
  /\ open = TRUE /\ failed = {} /\ stopped = FALSE

\* A caller that waits in line, or whose send has failed, performs nothing.
Acts(c) ==
  /\ ~stopped /\ c \notin failed
  /\ \A i \in DOMAIN putters : putters[i] # c
  /\ \A i \in DOMAIN takers : takers[i] # c

\* A value meets the first waiting receiver.
Deliver(c, v) ==
  /\ Acts(c) /\ open /\ takers # <<>>
  /\ result' = [result EXCEPT ![Head(takers)] = v]
  /\ takers' = Tail(takers)
  /\ UNCHANGED <<cap, queue, putters, open, failed, stopped>>

\* A value is accepted; its sender waits when it lies beyond the capacity.
Put(c, v) ==
  /\ Acts(c) /\ open /\ takers = <<>>
  /\ queue' = Append(queue, v)
  /\ putters' = IF Len(queue) < cap THEN putters ELSE Append(putters, c)
  /\ UNCHANGED <<cap, takers, result, open, failed, stopped>>

\* The oldest value leaves; the first waiting sender is now within the capacity.
Get(c) ==
  /\ Acts(c) /\ queue # <<>>
  /\ result' = [result EXCEPT ![c] = Head(queue)]
  /\ queue' = Tail(queue)
  /\ putters' = IF putters = <<>> THEN <<>> ELSE Tail(putters)
  /\ UNCHANGED <<cap, takers, open, failed, stopped>>

GetZero(c) ==
  /\ Acts(c) /\ queue = <<>> /\ ~open
  /\ result' = [result EXCEPT ![c] = Zero]
  /\ UNCHANGED <<cap, queue, putters, takers, open, failed, stopped>>

Wait(c) ==
  /\ Acts(c) /\ queue = <<>> /\ open
  /\ takers' = Append(takers, c)
  /\ UNCHANGED <<cap, queue, putters, result, open, failed, stopped>>

Shut(c) ==
  /\ Acts(c) /\ open
  /\ open' = FALSE
  /\ result' = [x \in Caller |->
                  IF \E i \in DOMAIN takers : takers[i] = x THEN Zero ELSE result[x]]
  /\ failed' = {putters[i] : i \in DOMAIN putters}
  /\ queue' = SubSeq(queue, 1, Len(queue) - Len(putters))
  /\ putters' = <<>> /\ takers' = <<>>
  /\ UNCHANGED <<cap, stopped>>

\* Send on or close of a closed channel, a failed sender that runs again, and
\* an operation that would block where blocking is impossible end the program.
Panic ==
  /\ ~stopped
  /\ stopped' = TRUE
  /\ failed' \in SUBSET failed
  /\ UNCHANGED <<cap, queue, putters, takers, result, open>>

Next ==
  \/ \E c \in Caller, v \in Val : Deliver(c, v) \/ Put(c, v)
  \/ \E c \in Caller : Get(c) \/ GetZero(c) \/ Wait(c) \/ Shut(c)
  \/ Panic

Spec == Init /\ [][Next]_vars
=============================================================================
