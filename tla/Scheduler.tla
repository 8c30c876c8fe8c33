------------------------------ MODULE Scheduler ------------------------------
(***************************************************************************)
(* The G-M-P scheduler of src/runtime/run_scheduler.c: green threads (G)   *)
(* run on OS threads (M) that hold a processor (P).  Every critical        *)
(* section under one of the scheduler's mutexes and every operation on a   *)
(* local queue is one step of the M that performs it (LocalQueue opens up  *)
(* the latter).  An M is somewhere in run_schedule_loop on its g0 stack,   *)
(* or in the code of its current G; frame[m] is that position with the     *)
(* locals of the function it is in.                                        *)
(*                                                                         *)
(* What a program does is left open: a running G may yield, block (as the  *)
(* channel operations do) until another G readies it, wait for I/O, spawn, *)
(* or exit, and with several Ps SIGURG may redirect it to run_yield        *)
(* between any two steps.  All Gs have preferred_node = -1, on one NUMA    *)
(* node.                                                                   *)
(***************************************************************************)
EXTENDS Integers, Sequences, FiniteSets, SequencesExt

CONSTANTS G, M, P, NULL,
          MainM,      \* M0, the thread that calls run_scheduler_run
          MainP,      \* P[0]
          LocalSize,  \* RUN_LOCAL_QUEUE_SIZE
          Sigurg,     \* the platform has signal-based preemption: not on Windows
          IoG         \* bound: the Gs that wait for I/O

ASSUME SchedulerAssumption ==
  /\ MainM \in M /\ MainP \in P /\ IoG \subseteq G
  /\ LocalSize \in Nat \ {0} /\ IsFiniteSet(P) /\ Sigurg \in BOOLEAN
  /\ NULL \notin G \cup M \cup P

VARIABLES
  status, last_p, preempt, preempt_safe,  \* of each G
  saved,                         \* the G's context holds where it left off
  resume,                        \* the frame its context continues with
  local, p_status, bound_m,      \* of each P
  idle_p,                        \* idle_p_stack, top last
  current_g, current_p, parked,  \* of each M
  frame,                         \* of each M: what it is doing
  idle_m,                        \* the idle M list, head first
  global, live,                  \* global_queue, live_g_count
  waiting,                       \* Gs in the wait queue of some channel
  registered, io, ready_io,      \* poller: an fd is open; Gs waiting; their events
  notified,                      \* run_poller_wakeup was called
  fate    \* "ok", "deadlocked" after the abort, or the undefined behaviour met

preemptVars == <<preempt, preempt_safe>>
gVars == <<status, last_p, preemptVars, saved, resume>>
pVars == <<local, p_status, bound_m, idle_p>>
mVars == <<current_g, current_p, parked, frame, idle_m>>
ioVars == <<registered, io, ready_io, notified>>
vars == <<gVars, pVars, mVars, ioVars, global, live, waiting, fate>>

NumPs == Cardinality(P)

\* at: the step to take next.  self: the value of tls_current_m the function
\* has read.  g, p: the G it works on and the P chosen for it.  w: the M
\* run_wake_m has unlinked.
\* then: where to go after run_g_ready or run_wake_m.  left: the Ps a
\* stealing round has still to try.  woken: the poll made a G runnable.
Frame(at) == [at |-> at, self |-> NULL, g |-> NULL, p |-> NULL, w |-> NULL, then |-> NULL,
              left |-> {}, woken |-> FALSE]

Init ==
  /\ status = [g \in G |-> "G_IDLE"] /\ last_p = [g \in G |-> NULL]
  /\ preempt = [g \in G |-> FALSE] /\ preempt_safe = [g \in G |-> FALSE]
  /\ saved = [g \in G |-> FALSE]
  /\ resume = [g \in G |-> Frame("user")]
  /\ local = [p \in P |-> <<>>]
  /\ p_status = [p \in P |-> IF p = MainP THEN "P_RUNNING" ELSE "P_IDLE"]
  /\ bound_m = [p \in P |-> IF p = MainP THEN MainM ELSE NULL]
  /\ idle_p \in SetToSeqs(P \ {MainP})
  /\ current_g = [m \in M |-> NULL]
  /\ current_p = [m \in M |-> IF m = MainM THEN MainP ELSE NULL]
  /\ parked = [m \in M |-> FALSE]
  /\ frame = [m \in M |-> Frame(IF m = MainM THEN "main" ELSE "unborn")]
  /\ idle_m = <<>> /\ global = <<>> /\ live = 0 /\ waiting = {}
  /\ registered = FALSE /\ io = {} /\ ready_io = {} /\ notified = FALSE
  /\ fate = "ok"

-----------------------------------------------------------------------------
(* Helpers *)

At(m, at) == frame[m].at = at
Goto(m, at) == frame' = [frame EXCEPT ![m] = Frame(at)]
Set(m, f) == frame' = [frame EXCEPT ![m] = f]

\* run_local_push_or_global
PushLocal(p, g) ==
  IF Len(local[p]) < LocalSize
  THEN local' = [local EXCEPT ![p] = Append(@, g)] /\ UNCHANGED global
  ELSE global' = Append(global, g) /\ UNCHANGED local

PushGlobal(g) == global' = Append(global, g) /\ UNCHANGED local

\* run_acquire_idle_p, and binding the P to m.
AcquireP(m) ==
  LET p == Last(idle_p)
  IN  /\ idle_p # <<>>
      /\ idle_p' = Front(idle_p)
      /\ p_status' = [p_status EXCEPT ![p] = "P_RUNNING"]
      /\ bound_m' = [bound_m EXCEPT ![p] = m]
      /\ current_p' = [current_p EXCEPT ![m] = p]

\* Mutant: the M goes on pointing at the P it has released.
ReleasePKeepsIt(m) ==
  LET p == current_p[m]
  IN  /\ idle_p' = Append(idle_p, p)
      /\ p_status' = [p_status EXCEPT ![p] = "P_IDLE"]
      /\ bound_m' = [bound_m EXCEPT ![p] = NULL]
      /\ UNCHANGED current_p

\* run_release_p
ReleaseP(m) ==
  LET p == current_p[m]
  IN  /\ idle_p' = Append(idle_p, p)
      /\ p_status' = [p_status EXCEPT ![p] = "P_IDLE"]
      /\ bound_m' = [bound_m EXCEPT ![p] = NULL]
      /\ current_p' = [current_p EXCEPT ![m] = NULL]

keepP == UNCHANGED <<p_status, bound_m, idle_p, current_p>>

-----------------------------------------------------------------------------
(* run_schedule_loop, up to a G to execute *)

LoopTop(m) ==
  /\ At(m, "loop")
  /\ \/ current_p[m] # NULL /\ Goto(m, "find_local") /\ keepP
     \/ current_p[m] = NULL /\ AcquireP(m) /\ Goto(m, "find_local")
     \/ current_p[m] = NULL /\ idle_p = <<>> /\ Goto(m, "no_p") /\ keepP
  /\ UNCHANGED <<gVars, local, current_g, parked, idle_m, ioVars, global, live, waiting, fate>>

NoP(m) ==
  /\ At(m, "no_p")
  /\ Goto(m, IF live <= 0 THEN "exited" ELSE "park")
  /\ UNCHANGED <<gVars, pVars, current_g, current_p, parked, idle_m, ioVars, global, live,
                 waiting, fate>>

\* run_park_m: the idle list is joined with park_mutex held.
Park(m) ==
  /\ At(m, "park")
  /\ parked' = [parked EXCEPT ![m] = TRUE]
  /\ idle_m' = <<m>> \o idle_m
  /\ Goto(m, "parked")
  /\ UNCHANGED <<gVars, pVars, current_g, current_p, ioVars, global, live, waiting, fate>>

Unparked(m) ==
  /\ At(m, "parked") /\ ~parked[m]
  /\ Goto(m, "loop")
  /\ UNCHANGED <<gVars, pVars, current_g, current_p, parked, idle_m, ioVars, global, live,
                 waiting, fate>>

\* run_find_runnable: the local queue (the newest), the global queue (the
\* oldest), the poller, and the two queues again if it woke a G.
FindLocal(m) ==
  LET q == local[current_p[m]]
  IN  /\ At(m, "find_local")
      /\ IF q # <<>>
         THEN /\ local' = [local EXCEPT ![current_p[m]] = Front(q)]
              /\ Set(m, [Frame("execute") EXCEPT !.g = Last(q)])
         ELSE Set(m, [frame[m] EXCEPT !.at = "find_global"]) /\ UNCHANGED local
  /\ UNCHANGED <<gVars, p_status, bound_m, idle_p, current_g, current_p, parked, idle_m, ioVars,
                 global, live, waiting, fate>>

FindGlobal(m) ==
  /\ At(m, "find_global")
  /\ IF global # <<>>
     THEN /\ global' = Tail(global)
          /\ Set(m, [Frame("execute") EXCEPT !.g = Head(global)])
     ELSE /\ Set(m, IF frame[m].woken
                    THEN [Frame("steal") EXCEPT !.left = P \ {current_p[m]}]
                    ELSE Frame("poll"))
          /\ UNCHANGED global
  /\ UNCHANGED <<gVars, pVars, current_g, current_p, parked, idle_m, ioVars, live, waiting, fate>>

\* Mutant: the poll descriptor still names the G that was readied.
PollReadyKeepsG(m) ==
  /\ At(m, "poll") \/ At(m, "poll_blocking")
  /\ \E g \in ready_io :
       /\ ready_io' = ready_io \ {g} /\ UNCHANGED io
       /\ Set(m, [Frame("ready") EXCEPT !.g = g, !.then = frame[m].at])
  /\ UNCHANGED <<gVars, pVars, current_g, current_p, parked, idle_m, registered, notified, global,
                 live, waiting, fate>>

\* run_poller_poll: run_on_fd_ready for each event there is.
PollReady(m) ==
  /\ At(m, "poll") \/ At(m, "poll_blocking")
  /\ \E g \in ready_io :
       /\ ready_io' = ready_io \ {g} /\ io' = io \ {g}
       /\ Set(m, [Frame("ready") EXCEPT !.g = g, !.then = frame[m].at])
  /\ UNCHANGED <<gVars, pVars, current_g, current_p, parked, idle_m, registered, notified, global,
                 live, waiting, fate>>

\* Without an open fd the poll does not run; otherwise it also takes a wakeup.
PollDone(m) ==
  /\ At(m, "poll") /\ ready_io = {}
  /\ Set(m, IF frame[m].woken
            THEN [Frame("find_local") EXCEPT !.woken = TRUE]
            ELSE [Frame("steal") EXCEPT !.left = P \ {current_p[m]}])
  /\ notified' = (notified /\ ~registered)
  /\ UNCHANGED <<gVars, pVars, current_g, current_p, parked, idle_m, registered, io, ready_io,
                 global, live, waiting, fate>>

\* Mutant: a steal reads the victim's head and leaves it there.
StealCopies(m) ==
  /\ At(m, "steal")
  /\ \E p \in frame[m].left :
       IF local[p] # <<>> THEN Set(m, [Frame("execute") EXCEPT !.g = Head(local[p])])
                          ELSE Set(m, [frame[m] EXCEPT !.left = @ \ {p}])
  /\ UNCHANGED <<gVars, pVars, current_g, current_p, parked, idle_m, ioVars, global, live, waiting,
                 fate>>

\* Mutant: stealing passes every victim by.
StealNothing(m) ==
  /\ At(m, "steal")
  /\ \E p \in frame[m].left : Set(m, [frame[m] EXCEPT !.left = @ \ {p}])
  /\ UNCHANGED <<gVars, pVars, current_g, current_p, parked, idle_m, ioVars, global, live, waiting,
                 fate>>

\* run_try_steal from one victim.  With a second thief it may also lose the race
\* for the head.
Steal(m) ==
  /\ At(m, "steal")
  /\ \E p \in frame[m].left :
       \/ /\ local[p] # <<>>
          /\ local' = [local EXCEPT ![p] = Tail(@)]
          /\ Set(m, [Frame("execute") EXCEPT !.g = Head(local[p])])
       \/ /\ local[p] = <<>> \/ NumPs > 2
          /\ UNCHANGED local
          /\ Set(m, [frame[m] EXCEPT !.left = @ \ {p}])
  /\ UNCHANGED <<gVars, p_status, bound_m, idle_p, current_g, current_p, parked, idle_m, ioVars,
                 global, live, waiting, fate>>

\* Mutant: open fds do not keep the loop from giving up.
NoWorkIgnoresIo(m) ==
  /\ At(m, "steal") /\ frame[m].left = {}
  /\ IF live <= 0 THEN ReleaseP(m) /\ Goto(m, "exited") ELSE Goto(m, "give_up") /\ keepP
  /\ UNCHANGED <<gVars, local, current_g, parked, idle_m, ioVars, global, live, waiting, fate>>

\* Mutant: the end is taken for reached only below zero.
NoWorkOffByOne(m) ==
  /\ At(m, "steal") /\ frame[m].left = {}
  /\ IF live < 0
     THEN ReleaseP(m) /\ Goto(m, "exited")
     ELSE Goto(m, IF registered THEN "poll_blocking" ELSE "give_up") /\ keepP
  /\ UNCHANGED <<gVars, local, current_g, parked, idle_m, ioVars, global, live, waiting, fate>>

\* Mutant: the M leaves when one G is left.
NoWorkTooEarly(m) ==
  /\ At(m, "steal") /\ frame[m].left = {}
  /\ IF live <= 1
     THEN ReleaseP(m) /\ Goto(m, "exited")
     ELSE Goto(m, IF registered THEN "poll_blocking" ELSE "give_up") /\ keepP
  /\ UNCHANGED <<gVars, local, current_g, parked, idle_m, ioVars, global, live, waiting, fate>>

\* No work: all done, or on to the blocking poll.
NoWork(m) ==
  /\ At(m, "steal") /\ frame[m].left = {}
  /\ IF live <= 0
     THEN ReleaseP(m) /\ Goto(m, "exited")
     ELSE Goto(m, IF registered THEN "poll_blocking" ELSE "give_up") /\ keepP
  /\ UNCHANGED <<gVars, local, current_g, parked, idle_m, ioVars, global, live, waiting, fate>>

\* run_poller_poll_blocking(-1) returns after an event or a wakeup.
PollBlockingDone(m) ==
  /\ At(m, "poll_blocking") /\ ready_io = {}
  /\ frame[m].woken \/ notified
  /\ Goto(m, IF frame[m].woken THEN "loop" ELSE "give_up")
  /\ notified' = FALSE
  /\ UNCHANGED <<gVars, pVars, current_g, current_p, parked, idle_m, registered, io, ready_io,
                 global, live, waiting, fate>>

\* Mutant: a lone P looks for work again.
GiveUpSpins(m) ==
  /\ At(m, "give_up")
  /\ IF NumPs > 1 THEN ReleaseP(m) /\ Goto(m, "park") ELSE Goto(m, "loop") /\ keepP
  /\ UNCHANGED <<gVars, local, current_g, parked, idle_m, ioVars, global, live, waiting, fate>>

GiveUp(m) ==
  /\ At(m, "give_up")
  /\ IF NumPs > 1
     THEN ReleaseP(m) /\ Goto(m, "park") /\ UNCHANGED fate
     ELSE fate' = "deadlocked" /\ UNCHANGED frame /\ keepP
  /\ UNCHANGED <<gVars, local, current_g, parked, idle_m, ioVars, global, live, waiting>>

-----------------------------------------------------------------------------
(* Running a G, and what the loop does when it comes back *)

Execute(m) ==
  LET g == frame[m].g
  IN  /\ At(m, "execute")
      /\ status' = [status EXCEPT ![g] = "G_RUNNING"]
      /\ last_p' = [last_p EXCEPT ![g] = current_p[m]]
      /\ current_g' = [current_g EXCEPT ![m] = g]
      /\ Goto(m, "switch_in")
      /\ UNCHANGED <<preemptVars, saved, resume, pVars, current_p, parked, idle_m, ioVars, global,
                     live, waiting, fate>>

\* run_context_switch restores whatever the context holds: when the G has not
\* yet left the M it last ran on, that is not where the G is.
SwitchIn(m) ==
  LET g == current_g[m]
  IN  /\ At(m, "switch_in")
      /\ saved' = [saved EXCEPT ![g] = FALSE]
      /\ Set(m, resume[g])
      /\ resume' = [resume EXCEPT ![g] = Frame("user")]
      /\ preempt_safe' = [preempt_safe EXCEPT ![g] = FALSE]
      /\ fate' = IF saved[g] THEN fate ELSE "stale context"
      /\ UNCHANGED <<status, last_p, preempt, pVars, current_g, current_p, parked, idle_m, ioVars,
                     global, live, waiting>>

\* run_context_switch from the G to the g0 of the M the function took for its own.
SwitchOut(m) ==
  LET g == current_g[m]
  IN  /\ At(m, "switch")
      /\ saved' = [saved EXCEPT ![g] = TRUE]
      /\ Set(m, [Frame("returned") EXCEPT !.g = g])
      /\ UNCHANGED <<status, last_p, preemptVars, resume, pVars, current_g, current_p, parked,
                     idle_m, ioVars, global, live, waiting, fate>>

\* The loop looks at the G that has just left: nothing keeps another M from
\* having run it to its end in the meantime.
Returned(m) ==
  LET g == frame[m].g
      dead == status[g] = "G_DEAD"
  IN  /\ At(m, "returned")
      /\ current_g' = [current_g EXCEPT ![m] = NULL]
      /\ fate' = IF status[g] = "FREED" THEN "use after free" ELSE fate
      /\ status' = [status EXCEPT ![g] = IF dead THEN "FREED" ELSE @]
      /\ live' = IF dead THEN live - 1 ELSE live
      /\ Goto(m, IF dead /\ live - 1 <= 0 THEN "last_died" ELSE "loop")
      /\ UNCHANGED <<last_p, preemptVars, saved, resume, pVars, current_p, parked, idle_m, ioVars,
                     global, waiting>>

\* run_poller_wakeup and run_unpark_all_idle_ms
LastDied(m) ==
  /\ At(m, "last_died")
  /\ notified' = TRUE
  /\ parked' = [x \in M |-> parked[x] /\ x \notin ToSet(idle_m)]
  /\ idle_m' = <<>>
  /\ Goto(m, "loop")
  /\ UNCHANGED <<gVars, pVars, current_g, current_p, registered, io, ready_io, global, live,
                 waiting, fate>>

-----------------------------------------------------------------------------
(* What G code does *)

InUser(m) == At(m, "user")

\* run_yield and run_g_exit have read tls_current_m and the current G.
BeginYield(m) ==
  /\ InUser(m)
  /\ resume' = [resume EXCEPT ![current_g[m]] = Frame("user")]
  /\ Set(m, [Frame("yield") EXCEPT !.self = m])
  /\ UNCHANGED <<status, last_p, preemptVars, saved, pVars, current_g, current_p, parked, idle_m,
                 ioVars, global, live, waiting, fate>>

\* The conditions of run_sigurg_handler; with one P no SIGURG is ever sent.
Preemptible(m) ==
  LET g == current_g[m]
  IN  Sigurg /\ NumPs > 1 /\ g # NULL /\ status[g] = "G_RUNNING" /\ ~preempt_safe[g]

\* The loop has set current_g and not switched yet, or is back and has not
\* cleared it; or the G is leaving and another M has taken it up.
OffG(m) == frame[m].at \in {"switch_in", "switch", "returned"}

\* SIGURG then interrupts the switch: run_yield overwrites the context of the G
\* with a place on the g0 stack, or queues a G that is not this M's any more.
PreemptSwitch(m) ==
  /\ Preemptible(m) /\ OffG(m)
  /\ fate' = "bad preemption"
  /\ UNCHANGED <<gVars, pVars, mVars, ioVars, global, live, waiting>>

\* SIGURG while a G runs, whatever code of the runtime it is in: the trampoline
\* calls run_yield, and the interrupted code goes on when the G is run again
\* (preempt_safe until then).
Preempt(m) ==
  LET g == current_g[m]
  IN  /\ Preemptible(m) /\ ~OffG(m)
      /\ preempt' = [preempt EXCEPT ![g] = TRUE]
      /\ preempt_safe' = [preempt_safe EXCEPT ![g] = TRUE]
      /\ resume' = [resume EXCEPT ![g] = frame[m]]
      /\ Set(m, [Frame("yield") EXCEPT !.self = m])
      /\ UNCHANGED <<status, last_p, saved, pVars, current_g, current_p, parked, idle_m, ioVars,
                     global, live, waiting, fate>>

\* Mutant: a preempted G is not queued.
YieldDropsPreempted(m) ==
  LET g == current_g[m]
  IN  /\ At(m, "yield")
      /\ status' = [status EXCEPT ![g] = "G_RUNNABLE"]
      /\ preempt' = [preempt EXCEPT ![g] = FALSE]
      /\ IF ~preempt[g] /\ current_p[m] # NULL THEN PushLocal(current_p[m], g)
                                              ELSE UNCHANGED <<local, global>>
      /\ Goto(m, "switch")
      /\ fate' = IF frame[m].self = m THEN fate ELSE "stale m"
      /\ UNCHANGED <<last_p, preempt_safe, saved, resume, p_status, bound_m, idle_p, current_g,
                     current_p, parked, idle_m, ioVars, live, waiting>>

\* A G that was moved to another M goes on with the m it has read before.
Yield(m) ==
  LET g == current_g[m]
  IN  /\ At(m, "yield")
      /\ status' = [status EXCEPT ![g] = "G_RUNNABLE"]
      /\ preempt' = [preempt EXCEPT ![g] = FALSE]
      /\ IF ~preempt[g] /\ current_p[m] # NULL THEN PushLocal(current_p[m], g) ELSE PushGlobal(g)
      /\ Goto(m, "switch")
      /\ fate' = IF frame[m].self = m THEN fate ELSE "stale m"
      /\ UNCHANGED <<last_p, preempt_safe, saved, resume, p_status, bound_m, idle_p, current_g,
                     current_p, parked, idle_m, ioVars, live, waiting>>

\* A channel operation parks the G: G_WAITING, into the wait queue, unlock.
Block(m) ==
  LET g == current_g[m]
  IN  /\ InUser(m)
      /\ status' = [status EXCEPT ![g] = "G_WAITING"]
      /\ resume' = [resume EXCEPT ![g] = Frame("user")]
      /\ waiting' = waiting \cup {g}
      /\ Goto(m, "switch")
      /\ UNCHANGED <<last_p, preemptVars, saved, pVars, current_g, current_p, parked, idle_m,
                     ioVars, global, live, fate>>

\* run_poll_wait
WaitIo(m) ==
  LET g == current_g[m]
  IN  /\ InUser(m) /\ g \in IoG /\ registered
      /\ status' = [status EXCEPT ![g] = "G_WAITING"]
      /\ resume' = [resume EXCEPT ![g] = Frame("user")]
      /\ io' = io \cup {g}
      /\ Goto(m, "switch")
      /\ UNCHANGED <<last_p, preemptVars, saved, pVars, current_g, current_p, parked, idle_m,
                     registered, ready_io, notified, global, live, waiting, fate>>

\* run_poll_open and run_poll_close of an fd nobody waits for
OpenOrClose(m) ==
  /\ InUser(m) /\ current_g[m] \in IoG /\ io = {}
  /\ registered' = ~registered
  /\ UNCHANGED <<gVars, pVars, mVars, io, ready_io, notified, global, live, waiting, fate>>

BeginExit(m) ==
  /\ InUser(m)
  /\ Set(m, [Frame("exit") EXCEPT !.self = m])
  /\ UNCHANGED <<gVars, pVars, current_g, current_p, parked, idle_m, ioVars, global, live,
                 waiting, fate>>

Exit(m) ==
  /\ At(m, "exit")
  /\ status' = [status EXCEPT ![current_g[m]] = "G_DEAD"]
  /\ Goto(m, "switch")
  /\ fate' = IF frame[m].self = m THEN fate ELSE "stale m"
  /\ UNCHANGED <<last_p, preemptVars, saved, resume, pVars, current_g, current_p, parked, idle_m,
                 ioVars, global, live, waiting>>

\* run_spawn, from a G or from the main thread before run_scheduler_run: the new
\* G is counted, then queued.
BeginSpawn(m, g) ==
  /\ InUser(m) \/ At(m, "main")
  /\ status[g] = "G_IDLE"
  /\ status' = [status EXCEPT ![g] = "G_RUNNABLE"]
  /\ saved' = [saved EXCEPT ![g] = TRUE]
  /\ live' = live + 1
  /\ Set(m, [Frame("spawn") EXCEPT !.g = g, !.self = m, !.then = frame[m].at])
  /\ UNCHANGED <<last_p, preemptVars, resume, pVars, current_g, current_p, parked, idle_m, ioVars,
                 global, waiting, fate>>

\* Without a P the code takes an idle one for the M it has read; that M has
\* none only if the G is no longer there.
Spawn(m) ==
  LET self == frame[m].self
  IN  /\ At(m, "spawn")
      /\ fate' = IF current_p[self] = NULL /\ current_g[self] = NULL THEN "stale m" ELSE fate
      /\ IF current_p[self] # NULL THEN PushLocal(current_p[self], frame[m].g)
                                   ELSE PushGlobal(frame[m].g)
      /\ Set(m, IF current_g[self] = NULL THEN [Frame("wake") EXCEPT !.then = frame[m].then]
                                          ELSE Frame(frame[m].then))
      /\ UNCHANGED <<gVars, p_status, bound_m, idle_p, current_g, current_p, parked, idle_m,
                     ioVars, live, waiting>>

\* main() calls run_scheduler_run.
RunScheduler(m) ==
  /\ At(m, "main")
  /\ Goto(m, "loop")
  /\ UNCHANGED <<gVars, pVars, current_g, current_p, parked, idle_m, ioVars, global, live,
                 waiting, fate>>

-----------------------------------------------------------------------------
(* run_g_ready and run_wake_m, in G code or in the scheduler loop *)

\* A channel operation has taken g out of a wait queue.
BeginReady(m, g) ==
  /\ InUser(m) /\ g \in waiting
  /\ waiting' = waiting \ {g}
  /\ Set(m, [Frame("ready") EXCEPT !.g = g, !.then = "user"])
  /\ UNCHANGED <<gVars, pVars, current_g, current_p, parked, idle_m, ioVars, global, live, fate>>

\* The P it ran on last if that is running, or else the one of this M by the
\* time of the push, which comes later.
GReady(m) ==
  LET g == frame[m].g
      p == last_p[g]
  IN  /\ At(m, "ready")
      /\ status' = [status EXCEPT ![g] = "G_RUNNABLE"]
      /\ Set(m, [frame[m] EXCEPT !.at = "queue", !.self = m,
                                 !.p = IF p # NULL /\ p_status[p] = "P_RUNNING" THEN p ELSE NULL])
      /\ UNCHANGED <<last_p, preemptVars, saved, resume, pVars, current_g, current_p, parked,
                     idle_m, ioVars, global, live, waiting, fate>>

Queue(m) ==
  LET p == IF frame[m].p # NULL THEN frame[m].p ELSE current_p[frame[m].self]
  IN  /\ At(m, "queue")
      /\ IF p # NULL THEN PushLocal(p, frame[m].g) ELSE PushGlobal(frame[m].g)
      /\ Set(m, [Frame("wake") EXCEPT !.then = frame[m].then])
      /\ UNCHANGED <<gVars, p_status, bound_m, idle_p, current_g, current_p, parked, idle_m,
                     ioVars, live, waiting, fate>>

\* Back from run_g_ready or run_wake_m; a poll counts the G it has woken.
Caller(m) ==
  [Frame(frame[m].then) EXCEPT !.woken = frame[m].then \in {"poll", "poll_blocking"}]
Back(m) == Set(m, Caller(m))

\* run_has_idle_p; a spawn wakes an M, a ready also wakes the poller.
Wake(m) ==
  /\ At(m, "wake")
  /\ IF idle_p = <<>> THEN Back(m) /\ UNCHANGED notified
     ELSE Set(m, [frame[m] EXCEPT !.at = "wake_m"])
          /\ notified' = (notified \/ frame[m].then # "main")
  /\ UNCHANGED <<gVars, pVars, current_g, current_p, parked, idle_m, registered, io, ready_io,
                 global, live, waiting, fate>>

WakeM(m) ==
  /\ At(m, "wake_m")
  /\ IF idle_m # <<>>
     THEN /\ idle_m' = Tail(idle_m)
          /\ Set(m, [frame[m] EXCEPT !.at = "wake_bind", !.w = Head(idle_m)])
     ELSE Set(m, [frame[m] EXCEPT !.at = "wake_new"]) /\ UNCHANGED idle_m
  /\ UNCHANGED <<gVars, pVars, current_g, current_p, parked, ioVars, global, live, waiting, fate>>

\* Mutant: without an idle P the unlinked M is not put back.
WakeBindDropsM(m) ==
  /\ At(m, "wake_bind")
  /\ Back(m)
  /\ \/ AcquireP(frame[m].w) /\ parked' = [parked EXCEPT ![frame[m].w] = FALSE]
     \/ idle_p = <<>> /\ keepP /\ UNCHANGED parked
  /\ UNCHANGED <<gVars, local, current_g, idle_m, ioVars, global, live, waiting, fate>>

WakeBind(m) ==
  /\ At(m, "wake_bind")
  /\ Back(m)
  /\ \/ /\ AcquireP(frame[m].w)
        /\ parked' = [parked EXCEPT ![frame[m].w] = FALSE]
        /\ UNCHANGED idle_m
     \/ /\ idle_p = <<>> /\ keepP
        /\ idle_m' = <<frame[m].w>> \o idle_m
        /\ UNCHANGED parked
  /\ UNCHANGED <<gVars, local, current_g, ioVars, global, live, waiting, fate>>

\* A new thread; M stands for RUN_MAX_M_COUNT, the limit on their number.  Where there
\* is no P or no M left, or the thread cannot be created and the P goes back, the wake
\* is lost.
WakeNew(m) ==
  /\ At(m, "wake_new")
  /\ \/ \E x \in M :
          /\ At(x, "unborn") /\ AcquireP(x)
          /\ frame' = [frame EXCEPT ![x] = Frame("loop"), ![m] = Caller(m)]
     \/ Back(m) /\ keepP
  /\ UNCHANGED <<gVars, local, current_g, parked, idle_m, ioVars, global, live, waiting, fate>>

-----------------------------------------------------------------------------

\* The kernel: an fd a G waits for becomes ready.
IoEvent(g) ==
  /\ g \in io \ ready_io
  /\ ready_io' = ready_io \cup {g}
  /\ UNCHANGED <<gVars, pVars, mVars, registered, io, notified, global, live, waiting, fate>>

\* Steps an M takes without a choice of the program's.
Step(m) ==
  \/ LoopTop(m) \/ NoP(m) \/ Park(m) \/ Unparked(m)
  \/ FindLocal(m) \/ FindGlobal(m) \/ PollReady(m) \/ PollDone(m) \/ Steal(m)
  \/ NoWork(m) \/ PollBlockingDone(m) \/ GiveUp(m)
  \/ Execute(m) \/ SwitchIn(m) \/ SwitchOut(m) \/ Returned(m) \/ LastDied(m)
  \/ Yield(m) \/ Exit(m) \/ Spawn(m) \/ GReady(m) \/ Queue(m)
  \/ Wake(m) \/ WakeM(m) \/ WakeBind(m) \/ WakeNew(m)

\* Steps the program chooses.
User(m) ==
  \/ BeginYield(m) \/ Block(m) \/ WaitIo(m) \/ OpenOrClose(m) \/ BeginExit(m) \/ RunScheduler(m)
  \/ \E g \in G : BeginSpawn(m, g) \/ BeginReady(m, g)

Next ==
  /\ fate = "ok"
  /\ \/ \E m \in M : Step(m) \/ User(m) \/ Preempt(m) \/ PreemptSwitch(m)
     \/ \E g \in G : IoEvent(g)

Spec == Init /\ [][Next]_vars

\* Every M goes on, code of a G included, and events arrive.
Fairness ==
  /\ \A m \in M : WF_vars(fate = "ok" /\ (Step(m) \/ User(m)))
  /\ \A g \in G : WF_vars(fate = "ok" /\ IoEvent(g))

FairSpec == Spec /\ Fairness

-----------------------------------------------------------------------------
(* Properties.  Once fate is not "ok" the code has aborted or its behaviour is  *)
(* undefined, and nothing more is claimed.                                      *)

\* The fields hold values of their types, and a function that uses the current
\* G or the current P of its M has one.
TypeOK ==
  /\ status \in [G -> {"G_IDLE", "G_RUNNABLE", "G_RUNNING", "G_WAITING", "G_DEAD", "FREED"}]
  /\ last_p \in [G -> P \cup {NULL}]
  /\ preempt \in [G -> BOOLEAN] /\ preempt_safe \in [G -> BOOLEAN] /\ saved \in [G -> BOOLEAN]
  /\ local \in [P -> Seq(G)] /\ global \in Seq(G) /\ idle_p \in Seq(P) /\ idle_m \in Seq(M)
  /\ \A p \in P : Len(local[p]) <= LocalSize
  /\ p_status \in [P -> {"P_IDLE", "P_RUNNING"}] /\ bound_m \in [P -> M \cup {NULL}]
  /\ current_g \in [M -> G \cup {NULL}] /\ current_p \in [M -> P \cup {NULL}]
  /\ parked \in [M -> BOOLEAN]
  /\ waiting \subseteq G /\ io \subseteq IoG /\ ready_io \subseteq io
  /\ registered \in BOOLEAN /\ notified \in BOOLEAN
  /\ \A m \in M :
       /\ frame[m].at \in {"user", "yield", "exit", "switch", "switch_in"} => current_g[m] \in G
       /\ frame[m].at \in {"find_local", "find_global", "poll", "poll_blocking", "steal", "execute",
                           "give_up", "switch_in", "user"} => current_p[m] \in P

Count(seq, x) == Cardinality({i \in DOMAIN seq : seq[i] = x})

\* "A G runs on an M, which must be attached to a P": every P is idle, once, or
\* held by one M, the one its bound_m names, through every acquire, release,
\* hand-over to a woken M and creation of an M.
POwnership ==
  \A p \in P :
    LET holders == {m \in M : current_p[m] = p}
    IN  /\ Count(idle_p, p) + Cardinality(holders) = 1
        /\ IF bound_m[p] = NULL THEN holders = {} /\ p_status[p] = "P_IDLE"
                               ELSE holders = {bound_m[p]} /\ p_status[p] = "P_RUNNING"

\* Places where a live G can be: the run queues, a wait queue, the poller, the
\* hands of an M or of a suspended G, and an M that runs it.
Hands(g) ==
  Cardinality({m \in M : frame[m].at \in {"execute", "ready", "queue", "spawn"} /\ frame[m].g = g})
    + Cardinality({x \in G : resume[x].at \in {"ready", "queue", "spawn"} /\ resume[x].g = g})
Queued(g) ==
  Count(global, g)
    + Cardinality({slot \in P \X (1 .. LocalSize) :
                     slot[2] \in DOMAIN local[slot[1]] /\ local[slot[1]][slot[2]] = g})
Waits(g) == (IF g \in waiting THEN 1 ELSE 0) + (IF g \in io THEN 1 ELSE 0)
Runs(g) == Cardinality({m \in M : current_g[m] = g /\ frame[m].at \notin {"switch", "returned"}})

\* No G is lost and none is in two places: a G that was spawned and has not
\* exited is in exactly one of them, whatever moves it.
GInOnePlace ==
  fate = "ok" =>
    \A g \in G :
      Queued(g) + Hands(g) + Waits(g) + Runs(g) =
        IF status[g] \in {"G_RUNNABLE", "G_RUNNING", "G_WAITING"} THEN 1 ELSE 0

\* A parked M is known to exactly one party that will unpark it: the idle list,
\* or the run_wake_m that has unlinked it; nobody else is.
ParkedMIsKnown ==
  \A m \in M :
    Count(idle_m, m) + Cardinality({x \in M : frame[x].w = m})
      + Cardinality({g \in G : resume[g].w = m}) = IF parked[m] THEN 1 ELSE 0

\* live_g_count is the number of Gs spawned and not yet freed, and
\* run_scheduler_run does not return while one is left.
LiveExact ==
  fate = "ok" =>
    /\ live = Cardinality({g \in G : status[g] \notin {"G_IDLE", "FREED"}})
    /\ At(MainM, "exited") => live = 0

\* An M that gives up its P does not strand work: while no M is left that holds
\* a P or is on its way to one, no G is in a run queue.
NoStrandedWork ==
  fate = "ok" /\ (\A m \in M : parked[m] \/ frame[m].at \in {"unborn", "exited"})
    => \A g \in G : Queued(g) = 0

\* "All green threads are deadlocked" is printed only when no G can ever run
\* again: none is runnable, and no fd is open that one could wait for.
AbortJustified ==
  fate = "deadlocked" =>
    /\ \A g \in G : status[g] \notin {"G_RUNNABLE", "G_RUNNING"}
    /\ io = {} /\ live > 0

\* "When this drops to 0, scheduler exits": once every G that was spawned has
\* died, run_scheduler_run returns to the main thread.
SchedulerExits ==
  (\E g \in G : status[g] = "FREED") /\ live = 0 
    ~> At(MainM, "exited") \/ live > 0 \/ fate \notin {"ok", "deadlocked"}

\* A program all of whose Gs wait for each other is told so.
DeadlockReported ==
  (~registered /\ waiting # {} /\ waiting = {g \in G : status[g] \notin {"G_IDLE", "FREED"}})
    ~> fate # "ok"

\* "G_RUNNING: currently executing on an M": no two Ms execute the same G.
RunsOnOneM ==
  \A m, n \in M :
    m # n /\ current_g[m] = current_g[n] /\ current_g[m] # NULL
      => {frame[m].at, frame[n].at} \cap {"returned", "switch_in"} # {}

\* "The signal handler checks if the M is executing user code (not in the
\* runtime)": what a preempted G goes on with is user code.
PreemptsUserCodeOnly ==
  /\ fate # "bad preemption"
  /\ \A g \in G : preempt[g] => resume[g].at = "user"

\* "Poll for completed I/O events ... Called from find_runnable on every
\* scheduling pass": a G whose event has come is made runnable.
IoServed == \A g \in G : g \in ready_io ~> g \notin ready_io \/ fate # "ok"
=============================================================================
