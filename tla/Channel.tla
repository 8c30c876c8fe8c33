------------------------------- MODULE Channel -------------------------------
(***************************************************************************)
(* One channel of src/runtime/run_chan.c and the green threads that use    *)
(* it.  Every operation is one critical section under ch->lock and is one  *)
(* action here; what an operation does after it has released the lock (the *)
(* calls of run_g_ready, the switch to the scheduler) is a step of its     *)
(* own.  Plain threads (the main thread, the signal dispatcher) have no    *)
(* current G and may call the operations but not block in them.            *)
(***************************************************************************)
EXTENDS Naturals, Sequences, SequencesExt

CONSTANTS G,        \* green threads
          Thread,   \* OS threads without a current G
          Val,      \* values programs send; Zero is kept out to be recognisable
          Zero,     \* what memset(data, 0, elem_size) leaves behind
          Caps      \* buffer capacities run_chan_new is called with

Caller == G \cup Thread

ASSUME ChannelAssumption ==
  /\ Caps \subseteq Nat
  /\ G \cap Thread = {}
  /\ Zero \notin Val

VARIABLES
  buffer_cap, buffer, buffer_len, send_idx, recv_idx,  \* struct run_chan
  send_q, recv_q, closed,
  status,       \* g->status
  chan_panic,   \* g->chan_panic
  outgoing,     \* what a sender's chan_data_ptr points at while it waits
  received,     \* the destination of a caller's latest receive
  pc,           \* "user", "waking" (past the unlock) or "blocked" (run_schedule)
  wake_list,    \* the Gs a caller has popped and still has to pass to run_g_ready
  aborted       \* TRUE once abort() was called

chanVars == <<buffer_cap, buffer, buffer_len, send_idx, recv_idx, closed>>
vars == <<buffer_cap, buffer, buffer_len, send_idx, recv_idx, send_q, recv_q, closed,
          status, chan_panic, outgoing, received, pc, wake_list, aborted>>

Init ==
  /\ buffer_cap \in Caps
  /\ buffer = [i \in 0 .. buffer_cap - 1 |-> Zero]
  /\ buffer_len = 0 /\ send_idx = 0 /\ recv_idx = 0
  /\ send_q = <<>> /\ recv_q = <<>> /\ closed = FALSE
  /\ status = [g \in G |-> "G_RUNNING"]
  /\ chan_panic = [g \in G |-> FALSE]
  /\ outgoing = [g \in G |-> Zero]
  /\ received = [c \in Caller |-> Zero]
  /\ pc = [c \in Caller |-> "user"]
  /\ wake_list = [c \in Caller |-> <<>>]
  /\ aborted = FALSE

\* A caller in user code may call an operation while the program is alive.
MayCall(c) == pc[c] = "user" /\ ~aborted

Abort ==
  /\ aborted' = TRUE
  /\ UNCHANGED <<chanVars, send_q, recv_q, status, chan_panic, outgoing, received, pc,
                 wake_list>>

\* Leave the critical section with the Gs of gs still to be made ready.
LeaveToWake(c, gs) ==
  /\ wake_list' = [wake_list EXCEPT ![c] = gs]
  /\ pc' = [pc EXCEPT ![c] = IF gs = <<>> THEN "user" ELSE "waking"]

\* The tail of a blocking operation up to the unlock: the caller is queued.
Park(g) ==
  /\ status' = [status EXCEPT ![g] = "G_WAITING"]
  /\ chan_panic' = [chan_panic EXCEPT ![g] = FALSE]
  /\ pc' = [pc EXCEPT ![g] = "blocked"]

-----------------------------------------------------------------------------
(* run_chan_send *)

SendClosed(c) == MayCall(c) /\ closed /\ Abort

\* Mutant: the receiver that is served stays in recv_q.
SendToReceiverKeepsIt(c, v) ==
  /\ MayCall(c) /\ ~closed /\ recv_q # <<>>
  /\ received' = [received EXCEPT ![Head(recv_q)] = v]
  /\ LeaveToWake(c, <<Head(recv_q)>>)
  /\ UNCHANGED <<chanVars, send_q, recv_q, status, chan_panic, outgoing, aborted>>

SendToReceiver(c, v) ==
  /\ MayCall(c) /\ ~closed /\ recv_q # <<>>
  /\ received' = [received EXCEPT ![Head(recv_q)] = v]
  /\ recv_q' = Tail(recv_q)
  /\ LeaveToWake(c, <<Head(recv_q)>>)
  /\ UNCHANGED <<chanVars, send_q, status, chan_panic, outgoing, aborted>>

\* Mutant: the write position does not wrap.
SendToBufferNoWrap(c, v) ==
  /\ MayCall(c) /\ ~closed /\ recv_q = <<>> /\ buffer_len < buffer_cap
  /\ buffer' = [buffer EXCEPT ![send_idx] = v]
  /\ send_idx' = send_idx + 1
  /\ buffer_len' = buffer_len + 1
  /\ UNCHANGED <<buffer_cap, recv_idx, send_q, recv_q, closed, status, chan_panic, outgoing,
                 received, pc, wake_list, aborted>>

SendToBuffer(c, v) ==
  /\ MayCall(c) /\ ~closed /\ recv_q = <<>> /\ buffer_len < buffer_cap
  /\ buffer' = [buffer EXCEPT ![send_idx] = v]
  /\ send_idx' = (send_idx + 1) % buffer_cap
  /\ buffer_len' = buffer_len + 1
  /\ UNCHANGED <<buffer_cap, recv_idx, send_q, recv_q, closed, status, chan_panic, outgoing,
                 received, pc, wake_list, aborted>>

SendMustBlock(c) == MayCall(c) /\ ~closed /\ recv_q = <<>> /\ ~(buffer_len < buffer_cap)

SendBlock(g, v) ==
  /\ SendMustBlock(g)
  /\ outgoing' = [outgoing EXCEPT ![g] = v]
  /\ send_q' = Append(send_q, g)
  /\ Park(g)
  /\ UNCHANGED <<chanVars, recv_q, received, wake_list, aborted>>

SendOnThread(t) == SendMustBlock(t) /\ Abort

-----------------------------------------------------------------------------
(* run_chan_recv *)

\* Mutant: a receive from a full buffer leaves the sender waiting.
RecvLeavesSender(c) ==
  /\ MayCall(c) /\ send_q # <<>> /\ buffer_cap > 0 /\ buffer_len > 0
  /\ received' = [received EXCEPT ![c] = buffer[recv_idx]]
  /\ recv_idx' = (recv_idx + 1) % buffer_cap
  /\ buffer_len' = buffer_len - 1
  /\ UNCHANGED <<buffer_cap, buffer, send_idx, send_q, recv_q, closed, status, chan_panic,
                 outgoing, pc, wake_list, aborted>>

\* Mutant: the rotation moves the read position only.
RecvRotateHalf(c) ==
  /\ MayCall(c) /\ send_q # <<>> /\ buffer_cap > 0 /\ buffer_len > 0
  /\ received' = [received EXCEPT ![c] = buffer[recv_idx]]
  /\ buffer' = [buffer EXCEPT ![send_idx] = outgoing[Head(send_q)]]
  /\ recv_idx' = (recv_idx + 1) % buffer_cap
  /\ send_q' = Tail(send_q)
  /\ LeaveToWake(c, <<Head(send_q)>>)
  /\ UNCHANGED <<buffer_cap, buffer_len, send_idx, recv_q, closed, status, chan_panic, outgoing,
                 aborted>>

\* Mutant: the waiting sender's value overtakes the buffered ones.
RecvOvertakes(c) ==
  /\ MayCall(c) /\ send_q # <<>> /\ buffer_cap > 0 /\ buffer_len > 0
  /\ received' = [received EXCEPT ![c] = outgoing[Head(send_q)]]
  /\ send_q' = Tail(send_q)
  /\ LeaveToWake(c, <<Head(send_q)>>)
  /\ UNCHANGED <<chanVars, recv_q, status, chan_panic, outgoing, aborted>>

\* A sender waits behind a full buffer: take the oldest value and let the
\* sender's value into the freed slot.
RecvRotate(c) ==
  /\ MayCall(c) /\ send_q # <<>> /\ buffer_cap > 0 /\ buffer_len > 0
  /\ received' = [received EXCEPT ![c] = buffer[recv_idx]]
  /\ buffer' = [buffer EXCEPT ![send_idx] = outgoing[Head(send_q)]]
  /\ recv_idx' = (recv_idx + 1) % buffer_cap
  /\ send_idx' = (send_idx + 1) % buffer_cap
  /\ send_q' = Tail(send_q)
  /\ LeaveToWake(c, <<Head(send_q)>>)
  /\ UNCHANGED <<buffer_cap, buffer_len, recv_q, closed, status, chan_panic, outgoing, aborted>>

RecvFromSender(c) ==
  /\ MayCall(c) /\ send_q # <<>> /\ ~(buffer_cap > 0 /\ buffer_len > 0)
  /\ received' = [received EXCEPT ![c] = outgoing[Head(send_q)]]
  /\ send_q' = Tail(send_q)
  /\ LeaveToWake(c, <<Head(send_q)>>)
  /\ UNCHANGED <<chanVars, recv_q, status, chan_panic, outgoing, aborted>>

RecvFromBuffer(c) ==
  /\ MayCall(c) /\ send_q = <<>> /\ buffer_len > 0
  /\ received' = [received EXCEPT ![c] = buffer[recv_idx]]
  /\ recv_idx' = (recv_idx + 1) % buffer_cap
  /\ buffer_len' = buffer_len - 1
  /\ UNCHANGED <<buffer_cap, buffer, send_idx, send_q, recv_q, closed, status, chan_panic,
                 outgoing, pc, wake_list, aborted>>

NothingToRecv(c) == MayCall(c) /\ send_q = <<>> /\ buffer_len = 0

RecvClosed(c) ==
  /\ NothingToRecv(c) /\ closed
  /\ received' = [received EXCEPT ![c] = Zero]
  /\ UNCHANGED <<chanVars, send_q, recv_q, status, chan_panic, outgoing, pc, wake_list, aborted>>

RecvBlock(g) ==
  /\ NothingToRecv(g) /\ ~closed
  /\ recv_q' = Append(recv_q, g)
  /\ Park(g)
  /\ UNCHANGED <<chanVars, send_q, outgoing, received, wake_list, aborted>>

RecvOnThread(t) == NothingToRecv(t) /\ ~closed /\ Abort

-----------------------------------------------------------------------------
(* run_chan_close *)

CloseClosed(c) == MayCall(c) /\ closed /\ Abort

\* Mutant: the waiting senders are unlinked and forgotten.
CloseForgetsSenders(c) ==
  /\ MayCall(c) /\ ~closed
  /\ closed' = TRUE
  /\ received' = [x \in Caller |-> IF x \in ToSet(recv_q) THEN Zero ELSE received[x]]
  /\ send_q' = <<>> /\ recv_q' = <<>>
  /\ LeaveToWake(c, recv_q)
  /\ UNCHANGED <<buffer_cap, buffer, buffer_len, send_idx, recv_idx, status, chan_panic, outgoing,
                 aborted>>

\* Mutant: one receiver is woken, the others stay in recv_q.
CloseWakesOne(c) ==
  /\ MayCall(c) /\ ~closed
  /\ closed' = TRUE
  /\ recv_q' = IF recv_q = <<>> THEN <<>> ELSE Tail(recv_q)
  /\ LeaveToWake(c, IF recv_q = <<>> THEN <<>> ELSE <<Head(recv_q)>>)
  /\ UNCHANGED <<buffer_cap, buffer, buffer_len, send_idx, recv_idx, send_q, status, chan_panic,
                 outgoing, received, aborted>>

Close(c) ==
  /\ MayCall(c) /\ ~closed
  /\ closed' = TRUE
  /\ received' = [x \in Caller |-> IF x \in ToSet(recv_q) THEN Zero ELSE received[x]]
  /\ chan_panic' = [g \in G |-> CASE g \in ToSet(send_q) -> TRUE
                                  [] g \in ToSet(recv_q) -> FALSE
                                  [] OTHER -> chan_panic[g]]
  /\ send_q' = <<>> /\ recv_q' = <<>>
  /\ LeaveToWake(c, recv_q \o send_q)
  /\ UNCHANGED <<buffer_cap, buffer, buffer_len, send_idx, recv_idx, status, outgoing, aborted>>

-----------------------------------------------------------------------------
(* Outside the lock *)

\* run_g_ready on the next G of the caller's wake list.
GReady(c) ==
  /\ wake_list[c] # <<>> /\ ~aborted
  /\ status' = [status EXCEPT ![Head(wake_list[c])] = "G_RUNNABLE"]
  /\ LeaveToWake(c, Tail(wake_list[c]))
  /\ UNCHANGED <<chanVars, send_q, recv_q, chan_panic, outgoing, received, aborted>>

\* The scheduler runs g again: run_schedule returns, or panics for a sender
\* that was waiting when the channel was closed.
Resume(g) ==
  /\ pc[g] = "blocked" /\ status[g] = "G_RUNNABLE" /\ ~aborted
  /\ status' = [status EXCEPT ![g] = "G_RUNNING"]
  /\ chan_panic' = [chan_panic EXCEPT ![g] = FALSE]
  /\ aborted' = chan_panic[g]
  /\ pc' = [pc EXCEPT ![g] = IF chan_panic[g] THEN "blocked" ELSE "user"]
  /\ UNCHANGED <<chanVars, send_q, recv_q, outgoing, received, wake_list>>

Send(c) ==
  \/ SendClosed(c)
  \/ \E v \in Val : SendToReceiver(c, v) \/ SendToBuffer(c, v)
Recv(c) ==
  RecvRotate(c) \/ RecvFromSender(c) \/ RecvFromBuffer(c) \/ RecvClosed(c)

Next ==
  \/ \E c \in Caller : Send(c) \/ Recv(c) \/ CloseClosed(c) \/ Close(c) \/ GReady(c)
  \/ \E g \in G : (\E v \in Val : SendBlock(g, v)) \/ RecvBlock(g) \/ Resume(g)
  \/ \E t \in Thread : SendOnThread(t) \/ RecvOnThread(t)

\* A thread past the unlock goes on, and a runnable G is run again: whether a
\* program calls further operations is its own affair.
Fairness ==
  /\ \A c \in Caller : WF_vars(GReady(c))
  /\ \A g \in G : WF_vars(Resume(g))

Spec == Init /\ [][Next]_vars
FairSpec == Spec /\ Fairness

-----------------------------------------------------------------------------
(* Properties *)

\* The Gs linked into one of the intrusive lists g->sched_next serves.
Listed == ToSet(send_q) \cup ToSet(recv_q) \cup UNION {ToSet(wake_list[c]) : c \in Caller}

\* The fields of struct run_chan and of the Gs hold values of their types, and
\* the indices of a buffered channel lie inside the buffer.
TypeOK ==
  /\ buffer_cap \in Caps
  /\ buffer \in [0 .. buffer_cap - 1 -> Val \cup {Zero}]
  /\ buffer_len \in 0 .. buffer_cap
  /\ send_idx \in 0 .. buffer_cap /\ recv_idx \in 0 .. buffer_cap
  /\ buffer_cap > 0 => send_idx < buffer_cap /\ recv_idx < buffer_cap
  /\ send_q \in Seq(G) /\ recv_q \in Seq(G)
  /\ closed \in BOOLEAN
  /\ status \in [G -> {"G_RUNNING", "G_RUNNABLE", "G_WAITING"}]
  /\ chan_panic \in [G -> BOOLEAN]
  /\ outgoing \in [G -> Val \cup {Zero}]
  /\ received \in [Caller -> Val \cup {Zero}]
  /\ pc \in [Caller -> {"user", "waking", "blocked"}]
  /\ wake_list \in [Caller -> Seq(G)]
  /\ aborted \in BOOLEAN

\* Nobody waits for what is there: receivers wait only on an empty open channel
\* without waiting senders, senders only behind a full open one.  The paths of
\* run_chan_send and run_chan_recv that test one queue and trust the other
\* (a receive that finds a sender assumes the buffer full) depend on it.
WaitersJustified ==
  /\ recv_q # <<>> => buffer_len = 0 /\ send_q = <<>> /\ ~closed
  /\ send_q # <<>> => buffer_len = buffer_cap /\ ~closed

\* The two indices delimit the buffered values: the next write position is
\* buffer_len slots after the next read position, around the ring.
RingAligned ==
  buffer_cap > 0 => send_idx = (recv_idx + buffer_len) % buffer_cap

\* A G that a channel operation put to sleep is in exactly one of the lists
\* that sched_next links (send_q, recv_q, one caller's wake list), once, until
\* run_g_ready is called for it: no waiter is lost and none is readied twice.
WaiterAccounting ==
  /\ \A g \in G : status[g] = "G_WAITING" <=> g \in Listed
  /\ \A g \in G : status[g] # "G_RUNNING" => pc[g] = "blocked"
  /\ \A c \in Caller : wake_list[c] # <<>> => pc[c] = "waking"
  /\ IsInjective(send_q) /\ IsInjective(recv_q)
  /\ \A c \in Caller : IsInjective(wake_list[c])
  /\ ToSet(send_q) \cap ToSet(recv_q) = {}
  /\ \A c \in Caller : ToSet(wake_list[c]) \cap (ToSet(send_q) \cup ToSet(recv_q)) = {}
  /\ \A c, d \in Caller : c # d => ToSet(wake_list[c]) \cap ToSet(wake_list[d]) = {}

\* The values the channel holds, oldest first: those in the ring from the read
\* position on, then those of the waiting senders.
Held ==
  [i \in 1 .. buffer_len + Len(send_q) |->
     IF i <= buffer_len THEN buffer[(recv_idx + i - 1) % buffer_cap]
                        ELSE outgoing[send_q[i - buffer_len]]]

\* The ring and the waiting senders together are one FIFO queue, and waking,
\* parking and panicking happen as FifoChannel promises.
Fifo == INSTANCE FifoChannel WITH
  cap <- buffer_cap,
  queue <- Held,
  putters <- send_q,
  takers <- recv_q,
  result <- received,
  open <- ~closed,
  failed <- {g \in G : chan_panic[g]},
  stopped <- aborted

\* run_chan.c implements the abstract channel.
ImplementsFifo == Fifo!Spec

\* A G taken off a wait queue returns from its operation, or the program ends:
\* nothing between the unlock and run_g_ready forgets it.
HandoffCompletes ==
  \A g \in G : (pc[g] = "blocked" /\ g \notin ToSet(send_q) \cup ToSet(recv_q))
                 ~> (pc[g] = "user" \/ aborted)

\* "Wakes all waiting receivers (zero values) and senders (panic)": once a
\* channel is closed nobody stays blocked on it.
CloseReleasesAll ==
  closed ~> (aborted \/ \A g \in G : pc[g] # "blocked")
=============================================================================
