-------------------------------- MODULE Poller --------------------------------
(***************************************************************************)
(* The I/O poller: run_xev.c over run_xev_bridge.zig over libxev.  A green *)
(* thread waits for an fd in its poll descriptor (waiter) and in the fd's  *)
(* slot (slot_g); the slot's completions are requests in libxev's loop,    *)
(* which whoever holds xev_lock may run: the thread that polls, or a green *)
(* thread that closes an fd and drains its completions.                    *)
(*                                                                         *)
(* libxev and the kernel are external: a request stays in the loop, at the *)
(* address of its completion, until the callback disarms it; a ready one   *)
(* is reported, an error may be reported at any time, and a request of an  *)
(* earlier open, of a file that the fd is no longer, may be reported at    *)
(* any time, too.  The passes of a close may or may not be enough to       *)
(* retire what it has cancelled.  A green thread is seen from the          *)
(* program's calls to the return of run_schedule; Scheduler has the queues *)
(* in between.                                                             *)
(***************************************************************************)
EXTENDS Integers, Sequences, FiniteSets, SequencesExt

CONSTANTS G, Fd, NULL,
          Table,         \* the fds that fd_slots has a slot for
          Loop,          \* the M that polls, as a holder of xev_lock
          Racing,        \* whether an open may run beside another open or a close
          Interest,      \* bound: of each fd, the sets of events programs wait for
          MaxGeneration  \* bound: of each fd, the generations of its slot

Dir == {"read", "write"}
ASSUME PollerAssumption ==
  /\ IsFiniteSet(Fd) /\ Racing \in BOOLEAN /\ MaxGeneration \in [Fd -> Nat]
  /\ Interest \in [Fd -> SUBSET (SUBSET Dir)]
  /\ Table \subseteq Fd /\ NULL \notin G \cup Fd /\ Loop \notin G /\ Loop # NULL

VARIABLES
  waiter,                          \* pd->read_g and pd->write_g of each fd
  generation, active,              \* of each fd's slot
  slot_g,                          \* slot.read_g and slot.write_g
  completion,  \* the slot's completions: "blank", "active" or "retired"
  ctx,         \* the generation in the context of each, or 0 where it has no slot
  requests,    \* what the loop has for each: the generations it was added in
  ready,                           \* what the kernel has to report
  registered_count,
  lock,                            \* who holds xev_lock
  poll,                            \* what the polling M does
  fired,       \* callbacks_fired has moved, or async_fired is set, since a blocking tick began
  notified,                        \* a wakeup is under way
  pc, call, loaded,  \* of each G: where it is, in which call, the count it has read
  both,        \* whether a G has waited for both events at once
  fate         \* "ok", or what went wrong: the model stops there

slotVars == <<generation, active, slot_g, completion, ctx, requests>>
pollVars == <<poll, fired, notified>>
vars == <<waiter, slotVars, ready, registered_count, lock, pollVars, pc, call, loaded, both, fate>>

NoCall == [fd |-> NULL, events |-> {}]

Init ==
  /\ waiter = [f \in Fd |-> [d \in Dir |-> NULL]]
  /\ generation = [f \in Fd |-> 0] /\ active = [f \in Fd |-> FALSE]
  /\ slot_g = [f \in Fd |-> [d \in Dir |-> NULL]]
  /\ completion = [f \in Fd |-> [d \in Dir |-> "blank"]]
  /\ ctx = [f \in Fd |-> [d \in Dir |-> 0]] /\ requests = [f \in Fd |-> [d \in Dir |-> {}]]
  /\ ready = {} /\ registered_count = 0 /\ lock = NULL
  /\ poll = "idle" /\ fired = FALSE /\ notified = FALSE
  /\ pc = [g \in G |-> "user"] /\ call = [g \in G |-> NoCall]
  /\ loaded = [g \in G |-> 0] /\ both = FALSE /\ fate = "ok"

Enter(g, at, f, evs) ==
  /\ pc' = [pc EXCEPT ![g] = at]
  /\ call' = [call EXCEPT ![g] = [fd |-> f, events |-> evs]]
Return(g) ==
  /\ pc' = [pc EXCEPT ![g] = "user"]
  /\ call' = [call EXCEPT ![g] = NoCall]

\* registered_count is read and written back without a lock by the opens, and
\* under xev_lock by the closes.
CountFree == Racing \/ \A g \in G : pc[g] \notin {"open", "count"}

\* The G waits for event d of f, and nothing has readied it yet.
WaitsFor(g, f, d) == pc[g] = "parked" /\ call[g].fd = f /\ d \in call[g].events

-----------------------------------------------------------------------------
(* run_poll_open: no lock is taken *)

\* The kernel gives out no fd that is being opened or closed; one that is open may be
\* opened again.  An fd beyond the table is refused, and nothing changes.
OpenLoad(g, f) ==
  /\ pc[g] = "user" /\ f \in Table /\ generation[f] + 2 <= MaxGeneration[f] /\ CountFree
  /\ \A h \in G : call[h].fd = f => pc[h] \notin {"open", "close", "drain", "count"}
  /\ Enter(g, "open", f, {})
  /\ loaded' = [loaded EXCEPT ![g] = registered_count]
  /\ UNCHANGED <<waiter, slotVars, ready, registered_count, lock, pollVars, both, fate>>

\* The slot starts afresh, whatever the loop has at the addresses of its completions
\* and whoever waits.  A file that is new to the fd has no events yet.
OpenStore(g) ==
  LET f == call[g].fd
  IN  /\ pc[g] = "open"
      /\ registered_count' = IF active[f] THEN registered_count ELSE loaded[g] + 1
      /\ generation' = [generation EXCEPT ![f] = @ + 1]
      /\ active' = [active EXCEPT ![f] = TRUE]
      /\ slot_g' = [slot_g EXCEPT ![f] = [d \in Dir |-> NULL]]
      /\ completion' = [completion EXCEPT ![f] = [d \in Dir |-> "blank"]]
      /\ ctx' = [ctx EXCEPT ![f] = [d \in Dir |-> 0]]
      /\ ready' = IF active[f] THEN ready ELSE ready \ ({f} \X Dir)
      /\ fate' = IF \E h \in G, d \in Dir : WaitsFor(h, f, d) THEN "stranded" ELSE fate
      /\ Return(g) /\ loaded' = [loaded EXCEPT ![g] = 0]
      /\ UNCHANGED <<waiter, requests, lock, pollVars, both>>

-----------------------------------------------------------------------------
(* run_poll_wait *)

\* A descriptor has one reader and one writer at a time.  The fd is open, or the
\* program has not looked at what run_poll_open returned.
WaitBegin(g, f, evs) ==
  /\ pc[g] = "user" /\ (active[f] \/ f \notin Table)
  /\ \A h \in G : pc[h] \in {"wait", "parked"} /\ call[h].fd = f => call[h].events \cap evs = {}
  /\ Enter(g, "wait", f, evs)
  /\ both' = (both \/ evs = Dir)
  /\ UNCHANGED <<waiter, slotVars, ready, registered_count, lock, pollVars, loaded, fate>>

\* The first critical section.  A slot that is not active, or that does not exist,
\* takes no request, and the G parks all the same.  A completion that is active is
\* left to the loop (read_armed and write_armed are set in every active slot that has
\* one).
WaitRegister(g) ==
  LET f == call[g].fd  evs == call[g].events
      new == {d \in evs : completion[f][d] # "active"}
  IN  /\ pc[g] = "wait" /\ lock = NULL
      /\ waiter' = [waiter EXCEPT ![f] = [d \in Dir |-> IF d \in evs THEN g ELSE @[d]]]
      /\ IF active[f]
         THEN /\ slot_g' = [slot_g EXCEPT ![f] = [d \in Dir |-> IF d \in evs THEN g ELSE @[d]]]
              /\ completion' = [completion EXCEPT ![f] =
                   [d \in Dir |-> IF d \in new THEN "active" ELSE @[d]]]
              /\ ctx' = [ctx EXCEPT ![f] = [d \in Dir |->
                   IF d \in new THEN generation[f] ELSE @[d]]]
              /\ requests' = [requests EXCEPT ![f] =
                   [d \in Dir |-> IF d \in new THEN @[d] \cup {generation[f]} ELSE @[d]]]
              /\ UNCHANGED fate
         ELSE /\ fate' = "stranded"
              /\ UNCHANGED <<slot_g, completion, ctx, requests>>
      /\ pc' = [pc EXCEPT ![g] = "parked"]
      /\ UNCHANGED <<generation, active, ready, registered_count, lock, pollVars, call, loaded,
                     both>>

\* run_schedule returns: an M runs the G again.
Resume(g) ==
  /\ pc[g] = "queued"
  /\ pc' = [pc EXCEPT ![g] = "returned"]
  /\ UNCHANGED <<waiter, slotVars, ready, registered_count, lock, pollVars, call, loaded, both,
                 fate>>

\* The second critical section: the descriptor forgets the G.
WaitDone(g) ==
  LET f == call[g].fd
  IN  /\ pc[g] = "returned" /\ lock = NULL
      /\ waiter' = [waiter EXCEPT ![f] =
           [d \in Dir |-> IF d \in call[g].events /\ @[d] = g THEN NULL ELSE @[d]]]
      /\ Return(g)
      /\ UNCHANGED <<slotVars, ready, registered_count, lock, pollVars, loaded, both, fate>>

-----------------------------------------------------------------------------
(* run_poll_close *)

CloseBegin(g, f) ==
  /\ pc[g] = "user" /\ (generation[f] > 0 \/ f \notin Table)
  /\ \A h \in G : pc[h] = "open" => call[h].fd # f
  /\ Enter(g, "close", f, {})
  /\ UNCHANGED <<waiter, slotVars, ready, registered_count, lock, pollVars, loaded, both, fate>>

\* Both Gs of the descriptor are readied, whether or not they wait.
CloseWake(g, f) ==
  LET gs == {waiter[f][d] : d \in Dir} \ {NULL}
      inTurn == /\ \A h \in gs : pc[h] = "parked"
                /\ \A d, e \in Dir : waiter[f][d] = waiter[f][e] /\ d # e => waiter[f][d] = NULL
  IN  /\ pc' = [h \in G |-> IF h = g THEN IF active[f] THEN "drain" ELSE "user"
                            ELSE IF h \in gs THEN "queued" ELSE pc[h]]
      /\ fate' = IF inTurn THEN fate ELSE "readied by a close"
      /\ waiter' = [waiter EXCEPT ![f] = [d \in Dir |-> NULL]]

\* Mutant: the slot stays active until its completions have been drained.
CloseLateInactive(g) ==
  LET f == call[g].fd
  IN  /\ pc[g] = "close" /\ lock = NULL
      /\ CloseWake(g, f)
      /\ IF active[f]
         THEN lock' = g /\ UNCHANGED <<active, generation, slot_g, call>>
         ELSE call' = [call EXCEPT ![g] = NoCall] /\ UNCHANGED <<lock, active, generation, slot_g>>
      /\ UNCHANGED <<completion, ctx, requests, ready, registered_count, pollVars, loaded, both>>

\* Mutant: the waiters are left to their events.
CloseWakesNone(g) ==
  LET f == call[g].fd
  IN  /\ pc[g] = "close" /\ lock = NULL /\ active[f]
      /\ pc' = [pc EXCEPT ![g] = "drain"]
      /\ lock' = g
      /\ active' = [active EXCEPT ![f] = FALSE]
      /\ generation' = [generation EXCEPT ![f] = @ + 1]
      /\ slot_g' = [slot_g EXCEPT ![f] = [d \in Dir |-> NULL]]
      /\ UNCHANGED <<waiter, completion, ctx, requests, ready, registered_count, pollVars, call,
                     loaded, both, fate>>

\* Mutant: a second close counts, too.
CloseTwiceCounts(g) ==
  LET f == call[g].fd
  IN  /\ pc[g] = "close" /\ lock = NULL
      /\ CloseWake(g, f)
      /\ IF active[f]
         THEN /\ lock' = g
              /\ active' = [active EXCEPT ![f] = FALSE]
              /\ generation' = [generation EXCEPT ![f] = @ + 1]
              /\ slot_g' = [slot_g EXCEPT ![f] = [d \in Dir |-> NULL]]
              /\ UNCHANGED <<call, registered_count>>
         ELSE /\ registered_count' = registered_count - 1
              /\ call' = [call EXCEPT ![g] = NoCall]
              /\ UNCHANGED <<lock, active, generation, slot_g>>
      /\ UNCHANGED <<completion, ctx, requests, ready, pollVars, loaded, both>>

\* Under xev_lock, up to the cancellations.
Close(g) ==
  LET f == call[g].fd
  IN  /\ pc[g] = "close" /\ lock = NULL
      /\ CloseWake(g, f)
      /\ IF active[f]
         THEN /\ lock' = g
              /\ active' = [active EXCEPT ![f] = FALSE]
              /\ generation' = [generation EXCEPT ![f] = @ + 1]
              /\ slot_g' = [slot_g EXCEPT ![f] = [d \in Dir |-> NULL]]
              /\ UNCHANGED call
         ELSE /\ call' = [call EXCEPT ![g] = NoCall]
              /\ UNCHANGED <<lock, active, generation, slot_g>>
      /\ UNCHANGED <<completion, ctx, requests, ready, registered_count, pollVars, loaded, both>>

\* The passes are over.  A completion that has retired is reset; one that has not is
\* left to the loop, without a slot in its context.  Then the count is read.
Drained(g) ==
  LET f == call[g].fd
  IN  /\ pc[g] = "drain" /\ CountFree
      /\ completion' = [completion EXCEPT ![f] =
           [d \in Dir |-> IF @[d] = "active" THEN "active" ELSE "blank"]]
      /\ ctx' = [ctx EXCEPT ![f] = [d \in Dir |-> 0]]
      /\ pc' = [pc EXCEPT ![g] = "count"]
      /\ loaded' = [loaded EXCEPT ![g] = registered_count]
      /\ UNCHANGED <<waiter, generation, active, slot_g, requests, ready, registered_count, lock,
                     pollVars, call, both, fate>>

CloseDone(g) ==
  /\ pc[g] = "count"
  /\ registered_count' = loaded[g] - 1
  /\ lock' = NULL
  /\ Return(g) /\ loaded' = [loaded EXCEPT ![g] = 0]
  /\ UNCHANGED <<waiter, slotVars, ready, pollVars, both, fate>>

-----------------------------------------------------------------------------
(* The loop *)

\* Somebody is in loop.run.
LoopRuns ==
  \/ poll = "tick"
  \/ poll = "block" /\ ~fired
  \/ \E g \in G : pc[g] = "drain"

\* run_on_fd_ready for the Gs that the slot has for these events.
FdReady(f, evs) ==
  LET gs == {slot_g[f][d] : d \in evs} \ {NULL}
      inTurn == /\ \A d \in evs : slot_g[f][d] # NULL => WaitsFor(slot_g[f][d], f, d)
                /\ slot_g[f]["read"] = slot_g[f]["write"] => Cardinality(evs) = 1 \/ gs = {}
  IN  /\ pc' = [h \in G |-> IF h \in gs /\ pc[h] = "parked" THEN "queued" ELSE pc[h]]
      /\ fired' = (fired \/ (poll = "block" /\ gs # {}))
      /\ slot_g' = [slot_g EXCEPT ![f] = [d \in Dir |-> IF d \in evs THEN NULL ELSE @[d]]]
      /\ fate' = IF inTurn THEN fate
                 ELSE IF both THEN "readied for both events"
                 ELSE "readied by an event"

\* The request that the loop has had since generation k is reported: pollCallback,
\* writePollCallback.  An error readies both Gs of the slot.  The callback of a
\* completion that has been reset is unreachable code in libxev.  In an active slot
\* the context, which requests of all generations share, is of the slot's generation:
\* no callback tells an event of an earlier open from one of this.
LoopEvent(f, d, k, error) ==
  /\ LoopRuns /\ k \in requests[f][d]
  /\ error \/ <<f, d>> \in ready \/ k # generation[f]
  /\ \/ /\ completion[f][d] = "blank" /\ fate' = "reset completion"
        /\ UNCHANGED <<completion, requests, pc, fired, slot_g>>
     \/ /\ completion[f][d] # "blank" /\ active[f] /\ ctx[f][d] = generation[f]
        /\ FdReady(f, IF error THEN Dir ELSE {d})
        /\ UNCHANGED <<completion, requests>>
     \/ /\ completion[f][d] # "blank" /\ ~(active[f] /\ ctx[f][d] = generation[f])
        /\ completion' = [completion EXCEPT ![f][d] = "retired"]
        /\ requests' = [requests EXCEPT ![f][d] = @ \ {k}]
        /\ UNCHANGED <<pc, fired, slot_g, fate>>
  /\ UNCHANGED <<waiter, generation, active, ctx, ready, registered_count, lock, poll, notified,
                 call, loaded, both>>

\* asyncNoop
LoopAsync ==
  /\ LoopRuns /\ notified
  /\ notified' = FALSE
  /\ fired' = (fired \/ poll = "block")
  /\ UNCHANGED <<waiter, slotVars, ready, registered_count, lock, poll, pc, call, loaded, both,
                 fate>>

\* run_poller_poll and run_poller_poll_blocking look at the count, then lock.
PollBegin(kind) ==
  /\ poll = "idle" /\ registered_count > 0
  /\ poll' = kind
  /\ UNCHANGED <<waiter, slotVars, ready, registered_count, lock, fired, notified, pc, call, loaded,
                 both, fate>>

\* run_xev_tick looks at the count again, run_xev_tick_blocking does not.
Tick ==
  /\ poll = "to_tick" /\ lock = NULL
  /\ IF registered_count > 0
     THEN poll' = "tick" /\ lock' = Loop
     ELSE poll' = "idle" /\ UNCHANGED lock
  /\ UNCHANGED <<waiter, slotVars, ready, registered_count, fired, notified, pc, call, loaded,
                 both, fate>>

TickBlocking ==
  /\ poll = "to_block" /\ lock = NULL
  /\ poll' = "block" /\ lock' = Loop
  /\ UNCHANGED <<waiter, slotVars, ready, registered_count, fired, notified, pc, call, loaded,
                 both, fate>>

PollEnd ==
  /\ \/ poll = "tick"
     \/ poll = "block" /\ fired
  /\ poll' = "idle" /\ lock' = NULL /\ fired' = FALSE
  /\ UNCHANGED <<waiter, slotVars, ready, registered_count, notified, pc, call, loaded, both,
                 fate>>

-----------------------------------------------------------------------------
(* The kernel, the program's reads and writes, and the other threads *)

BecomesReady(f, d) ==
  /\ <<f, d>> \notin ready /\ active[f] /\ d \in UNION Interest[f]
  /\ ready' = ready \cup {<<f, d>>}
  /\ UNCHANGED <<waiter, slotVars, registered_count, lock, pollVars, pc, call, loaded, both, fate>>

\* A read or write uses the readiness up, when nobody waits for it.
Consume(f, d) ==
  /\ <<f, d>> \in ready /\ slot_g[f][d] = NULL
  /\ \A g \in G : call[g].fd = f => d \notin call[g].events
  /\ ready' = ready \ {<<f, d>>}
  /\ UNCHANGED <<waiter, slotVars, registered_count, lock, pollVars, pc, call, loaded, both, fate>>

\* run_poller_wakeup
Wakeup ==
  /\ ~notified /\ notified' = TRUE
  /\ UNCHANGED <<waiter, slotVars, ready, registered_count, lock, poll, fired, pc, call, loaded,
                 both, fate>>

Calls(g) ==
  \E f \in Fd :
    \/ OpenLoad(g, f) \/ CloseBegin(g, f)
    \/ \E evs \in Interest[f] : WaitBegin(g, f, evs)
Continues(g) ==
  \/ OpenStore(g) \/ WaitRegister(g) \/ Resume(g) \/ WaitDone(g)
  \/ Close(g) \/ Drained(g) \/ CloseDone(g)
Reports(f, d) == \E k \in requests[f][d], error \in BOOLEAN : LoopEvent(f, d, k, error)
Polls == Tick \/ TickBlocking \/ PollEnd \/ LoopAsync

Next ==
  /\ fate = "ok"
  /\ \/ \E g \in G : Calls(g) \/ Continues(g)
     \/ \E f \in Fd, d \in Dir : Reports(f, d) \/ BecomesReady(f, d) \/ Consume(f, d)
     \/ Polls \/ Wakeup
     \/ \E kind \in {"to_tick", "to_block"} : PollBegin(kind)

Spec == Init /\ [][Next]_vars

\* A thread goes on unless it waits for the lock, which is granted to whoever
\* asks for it again and again; the scheduler polls, and a request that is ready
\* is not passed over for ever.
FairSpec ==
  /\ Spec
  /\ \A g \in G : SF_vars(fate = "ok" /\ Continues(g))
  /\ SF_vars(fate = "ok" /\ Polls)
  /\ WF_vars(fate = "ok" /\ \E kind \in {"to_tick", "to_block"} : PollBegin(kind))
  /\ \A f \in Fd, d \in Dir : SF_vars(fate = "ok" /\ LoopEvent(f, d, generation[f], FALSE))

-----------------------------------------------------------------------------
(* Properties *)

\* The fields hold values of their types.
PollerTypeOK ==
  /\ waiter \in [Fd -> [Dir -> G \cup {NULL}]]
  /\ generation \in [Fd -> Nat] /\ active \in [Fd -> BOOLEAN]
  /\ slot_g \in [Fd -> [Dir -> G \cup {NULL}]]
  /\ completion \in [Fd -> [Dir -> {"blank", "active", "retired"}]]
  /\ ctx \in [Fd -> [Dir -> Nat]] /\ requests \in [Fd -> [Dir -> SUBSET Nat]]
  /\ ready \subseteq Fd \X Dir
  /\ registered_count \in Nat
  /\ lock \in G \cup {NULL, Loop}
  /\ poll \in {"idle", "to_tick", "to_block", "tick", "block"}
  /\ fired \in BOOLEAN /\ notified \in BOOLEAN
  /\ pc \in [G -> {"user", "open", "wait", "parked", "queued", "returned", "close", "drain",
                   "count"}]
  /\ call \in [G -> [fd : Fd \cup {NULL}, events : SUBSET Dir]]
  /\ loaded \in [G -> Int] /\ both \in BOOLEAN
  /\ fate \in {"ok", "stranded", "readied by a close", "readied by an event",
               "readied for both events", "reset completion"}

\* "When the poller detects readiness, the G is made runnable again": as long as
\* a G is parked in run_poll_wait, the slot is active, knows the G, and its active
\* completion is a request of its present generation in the loop, whatever closes
\* and opens ran since and whatever they left there.
WaiterServed ==
  fate = "ok" =>
    \A g \in G, f \in Fd, d \in Dir :
      WaitsFor(g, f, d) =>
        /\ active[f] /\ waiter[f][d] = g /\ slot_g[f][d] = g
        /\ completion[f][d] = "active" /\ ctx[f][d] = generation[f]
        /\ generation[f] \in requests[f][d]

\* "the pollCallback/writePollCallback guards (active/generation checks) will disarm
\* safely": however late a completion fires, after the close, after the drain has
\* given it up or after the next open of the fd, it readies a G only while that G
\* waits for that event of the fd, as long as no G has waited for both events at
\* once.
EventsInTurn == fate # "readied by an event"

\* The generation checks tell an event of an earlier open from one of this: no G is
\* readied by a request that an earlier open of the fd has left in the loop.
EventsOfThisOpen ==
  [][\A f \in Fd, d \in Dir : \A k \in requests[f][d] \ {generation[f]}, error \in BOOLEAN :
       LoopEvent(f, d, k, error) => pc' = pc]_vars

\* "leave it alone so its eventual CQE finds a valid op rather than .noop": the loop
\* meets no completion whose storage has been reset.
NoBlankCompletion == fate # "reset completion"

\* run_poller_has_waiters, which decides whether the scheduler polls at all: when
\* opens and closes do not race, the count is that of the open fds.
CountExact ==
  registered_count = Cardinality({f \in Fd : active[f]})
                     + Cardinality({g \in G : pc[g] \in {"drain", "count"}})

\* "Park the current G until the fd is ready for the given events": a G that
\* waits for an event that has come gets out of run_poll_wait.
WaitReturns ==
  \A g \in G, f \in Fd, d \in Dir :
    (pc[g] = "wait" /\ call[g].fd = f /\ d \in call[g].events /\ <<f, d>> \in ready)
      ~> (pc[g] \notin {"wait", "parked"} \/ fate # "ok")
=============================================================================
