----------------------------- MODULE LocalQueue -----------------------------
(***************************************************************************)
(* The lock-free local run queue of a P (src/runtime/run_scheduler.c,      *)
(* "Lock-Free Local Run Queue (Chase-Lev deque)"), one atomic access per   *)
(* step.  The M bound to the P is the owner: it pushes and pops at the     *)
(* tail.  Ms of other Ps steal at the head.  A foreign M that runs         *)
(* run_g_ready or run_spawn_on_node pushes at the tail as well, with the   *)
(* same code.  head and tail are uint32_t: indices wrap at Width, which    *)
(* stands for 2^32, and differences are compared as int32_t.  Memory is    *)
(* sequentially consistent, as x86-64 and AArch64 make these accesses (on  *)
(* either, a load acquire followed by a load acquire stays in order).      *)
(***************************************************************************)
EXTENDS Naturals, Sequences, FiniteSets

CONSTANTS G, NoG,
          Owner,      \* the M bound to the P
          Thief,      \* Ms that steal from it
          Foreign,    \* Ms that push to it although it is not theirs
          Size,       \* RUN_LOCAL_QUEUE_SIZE
          Width,      \* number of index values
          Start,      \* index values at which an empty queue may be found
          MaxPush     \* bound: pushes in one behaviour

Pusher == {Owner} \cup Foreign
M == Pusher \cup Thief

ASSUME LocalQueueAssumption ==
  /\ Size \in Nat \ {0} /\ Width \in Nat /\ Width % Size = 0 /\ Width >= 4 * Size
  /\ Start \subseteq 0 .. Width - 1
  /\ MaxPush \in Nat /\ MaxPush < Width  \* no M sleeps through 2^32 pushes
  /\ Owner \notin Thief \cup Foreign /\ Thief \cap Foreign = {} /\ NoG \notin G

VARIABLES
  head, tail, buf,   \* run_local_queue_t
  pc, t, h, g,       \* of each M: where it is in a call, and the locals
  parked,            \* the Gs that are not runnable: running, waiting, or on the global queue
  popped,            \* how the owner's latest call ended: pop "hit", pop "miss", or "none"
  pushes             \* number of pushes so far

vars == <<head, tail, buf, pc, t, h, g, parked, popped, pushes>>

Add(i, n) == (i + n) % Width
Sub(i, j) == (i + Width - j) % Width
Negative(d) == d >= Width \div 2   \* (int32_t)d < 0

Init ==
  /\ head \in Start /\ tail = head
  /\ buf = [i \in 0 .. Size - 1 |-> NoG]
  /\ pc = [m \in M |-> "idle"]
  /\ t = [m \in M |-> 0] /\ h = [m \in M |-> 0] /\ g = [m \in M |-> NoG]
  /\ parked = G
  /\ popped = "none"
  /\ pushes = 0

Go(m, from, to) == pc[m] = from /\ pc' = [pc EXCEPT ![m] = to]

\* A call ends: the locals are dead.
Finish(m) ==
  /\ pc' = [pc EXCEPT ![m] = "idle"]
  /\ t' = [t EXCEPT ![m] = 0] /\ h' = [h EXCEPT ![m] = 0] /\ g' = [g EXCEPT ![m] = NoG]

-----------------------------------------------------------------------------
(* run_local_queue_push; a full queue sends the G to the global queue *)

PushLoad(m, x) ==
  /\ Go(m, "idle", "push_check")
  /\ x \in parked /\ parked' = parked \ {x}
  /\ pushes < MaxPush /\ pushes' = pushes + 1
  /\ g' = [g EXCEPT ![m] = x]
  /\ t' = [t EXCEPT ![m] = tail]
  /\ popped' = IF m = Owner THEN "none" ELSE popped
  /\ UNCHANGED <<head, tail, buf, h>>

PushFull(m) ==
  /\ pc[m] = "push_check" /\ Sub(t[m], head) >= Size
  /\ parked' = parked \cup {g[m]}
  /\ Finish(m)
  /\ UNCHANGED <<head, tail, buf, popped, pushes>>

PushCheck(m) ==
  /\ Go(m, "push_check", "push_write") /\ Sub(t[m], head) < Size
  /\ UNCHANGED <<head, tail, buf, t, h, g, parked, popped, pushes>>

PushWrite(m) ==
  /\ Go(m, "push_write", "push_publish")
  /\ buf' = [buf EXCEPT ![t[m] % Size] = g[m]]
  /\ UNCHANGED <<head, tail, t, h, g, parked, popped, pushes>>

PushPublish(m) ==
  /\ pc[m] = "push_publish"
  /\ tail' = Add(t[m], 1)
  /\ Finish(m)
  /\ UNCHANGED <<head, buf, parked, popped, pushes>>

-----------------------------------------------------------------------------
(* run_local_queue_pop, by the owner *)

PopZero(m) ==
  /\ pc[m] = "idle" /\ tail = 0
  /\ popped' = "miss"
  /\ UNCHANGED <<head, tail, buf, pc, t, h, g, parked, pushes>>

PopLoad(m) ==
  /\ Go(m, "idle", "pop_reserve") /\ tail # 0
  /\ t' = [t EXCEPT ![m] = tail - 1]
  /\ popped' = "none"
  /\ UNCHANGED <<head, tail, buf, h, g, parked, pushes>>

PopReserve(m) ==
  /\ Go(m, "pop_reserve", "pop_check")
  /\ tail' = t[m]
  /\ UNCHANGED <<head, buf, t, h, g, parked, popped, pushes>>

\* Mutant: the last member is taken for none.
PopEmptyOffByOne(m) ==
  /\ Go(m, "pop_check", "pop_restore") /\ (t[m] = head \/ Negative(Sub(t[m], head)))
  /\ popped' = "miss"
  /\ UNCHANGED <<head, tail, buf, t, h, g, parked, pushes>>

PopEmpty(m) ==
  /\ Go(m, "pop_check", "pop_restore") /\ Negative(Sub(t[m], head))
  /\ popped' = "miss"
  /\ UNCHANGED <<head, tail, buf, t, h, g, parked, pushes>>

PopTake(m) ==
  /\ pc[m] = "pop_check" /\ ~Negative(Sub(t[m], head)) /\ t[m] # head
  /\ popped' = "hit"
  /\ parked' = parked \cup {buf[t[m] % Size]}
  /\ Finish(m)
  /\ UNCHANGED <<head, tail, buf, pushes>>

PopLast(m) ==
  /\ Go(m, "pop_check", "pop_cas") /\ t[m] = head
  /\ h' = [h EXCEPT ![m] = head]
  /\ g' = [g EXCEPT ![m] = buf[t[m] % Size]]
  /\ UNCHANGED <<head, tail, buf, t, parked, popped, pushes>>

PopCas(m) ==
  /\ Go(m, "pop_cas", "pop_restore")
  /\ IF head = h[m]
     THEN /\ head' = Add(h[m], 1)
          /\ popped' = "hit"
          /\ UNCHANGED g
     ELSE /\ popped' = "miss"
          /\ g' = [g EXCEPT ![m] = NoG]
          /\ UNCHANGED head
  /\ UNCHANGED <<tail, buf, t, h, parked, pushes>>

\* Mutant: the tail stays lowered.
PopRestoreForgets(m) ==
  /\ pc[m] = "pop_restore"
  /\ parked' = parked \cup ({g[m]} \ {NoG})
  /\ Finish(m)
  /\ UNCHANGED <<head, tail, buf, popped, pushes>>

PopRestore(m) ==
  /\ pc[m] = "pop_restore"
  /\ tail' = Add(t[m], 1)
  /\ parked' = parked \cup ({g[m]} \ {NoG})
  /\ Finish(m)
  /\ UNCHANGED <<head, buf, popped, pushes>>

-----------------------------------------------------------------------------
(* run_local_queue_steal *)

StealHead(m) ==
  /\ Go(m, "idle", "steal_tail")
  /\ h' = [h EXCEPT ![m] = head]
  /\ UNCHANGED <<head, tail, buf, t, g, parked, popped, pushes>>

NoneToSteal(m) == Sub(tail, h[m]) = 0 \/ Negative(Sub(tail, h[m]))

StealNone(m) ==
  /\ pc[m] = "steal_tail" /\ NoneToSteal(m)
  /\ Finish(m)
  /\ UNCHANGED <<head, tail, buf, parked, popped, pushes>>

StealTail(m) ==
  /\ Go(m, "steal_tail", "steal_read") /\ ~NoneToSteal(m)
  /\ UNCHANGED <<head, tail, buf, t, h, g, parked, popped, pushes>>

StealRead(m) ==
  /\ Go(m, "steal_read", "steal_cas")
  /\ g' = [g EXCEPT ![m] = buf[h[m] % Size]]
  /\ UNCHANGED <<head, tail, buf, t, h, parked, popped, pushes>>

\* Mutant: the head is stored without a compare.
StealWinBlind(m) ==
  /\ pc[m] = "steal_cas"
  /\ head' = Add(h[m], 1)
  /\ parked' = parked \cup {g[m]}
  /\ Finish(m)
  /\ UNCHANGED <<tail, buf, popped, pushes>>

StealWin(m) ==
  /\ pc[m] = "steal_cas" /\ head = h[m]
  /\ head' = Add(h[m], 1)
  /\ parked' = parked \cup {g[m]}
  /\ Finish(m)
  /\ UNCHANGED <<tail, buf, popped, pushes>>

StealLose(m) ==
  /\ pc[m] = "steal_cas" /\ head # h[m]
  /\ Finish(m)
  /\ UNCHANGED <<head, tail, buf, parked, popped, pushes>>

Push(m) == (\E x \in G : PushLoad(m, x)) \/ PushFull(m) \/ PushCheck(m) \/ PushWrite(m)
             \/ PushPublish(m)
Pop(m) == PopZero(m) \/ PopLoad(m) \/ PopReserve(m) \/ PopEmpty(m) \/ PopTake(m) \/ PopLast(m)
            \/ PopCas(m) \/ PopRestore(m)
Steal(m) == StealHead(m) \/ StealNone(m) \/ StealTail(m) \/ StealRead(m) \/ StealWin(m)
              \/ StealLose(m)

Next ==
  \/ \E m \in Pusher : Push(m)
  \/ Pop(Owner)
  \/ \E m \in Thief : Steal(m)

Spec == Init /\ [][Next]_vars

-----------------------------------------------------------------------------
(* Properties *)

\* A pop that has lowered the tail holds a claim on the last member until it
\* knows whether a thief was there first.
Tail_ == IF pc[Owner] \in {"pop_check", "pop_cas", "pop_restore"} THEN Add(tail, 1) ELSE tail

\* The members of the deque, oldest first.
Content == [i \in 1 .. Sub(Tail_, head) |-> buf[Add(head, i - 1) % Size]]

\* Fields and locals hold values of their types, and the deque never claims more
\* members than it has slots.
TypeOK ==
  /\ head \in 0 .. Width - 1 /\ tail \in 0 .. Width - 1
  /\ buf \in [0 .. Size - 1 -> G \cup {NoG}]
  /\ t \in [M -> 0 .. Width - 1] /\ h \in [M -> 0 .. Width - 1]
  /\ g \in [M -> G \cup {NoG}] /\ popped \in {"none", "hit", "miss"}
  /\ parked \subseteq G /\ pushes \in 0 .. MaxPush
  /\ Sub(Tail_, head) <= Size

\* The Gs an M carries between the two ends of a call that owns them: a push
\* that has not published its G yet, a pop that has won it and not returned.
Carried(m) ==
  IF pc[m] \in {"push_check", "push_write", "push_publish", "pop_restore"}
  THEN {g[m]} \ {NoG} ELSE {}

\* "G_RUNNABLE: ready to run, in a run queue" (scheduler.md): a G that was made
\* runnable and not yet taken is in the deque, once, or in the hands of the one
\* call that moves it; none is lost and none can be taken twice.
RunnableIsQueued ==
  /\ \A x \in G \ parked :
       Cardinality({i \in DOMAIN Content : Content[i] = x})
         + Cardinality({m \in M : x \in Carried(m)}) = 1
  /\ \A x \in parked : \A i \in DOMAIN Content : Content[i] # x

\* The step-by-step code implements a deque on which operations are atomic.
Deque == INSTANCE WorkDeque WITH
  queue <- Content,
  out <- parked \cup UNION {Carried(m) : m \in M}
ImplementsDeque == Deque!Spec

\* A lone P that finds no G, with live Gs and no I/O, calls it a deadlock and
\* aborts.  For that the owner's pop must not miss a G of its own queue: it finds
\* nothing only when there is nothing, except when the tail, after 2^32 pushes,
\* stands at index 0 again.
PopMissJustified ==
  popped = "miss" => Content = <<>> \/ tail = 0
=============================================================================
