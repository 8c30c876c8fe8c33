# A TLA+ model of the Run runtime

Run (`src/src`) is a compiler in Zig for the Run language, with a runtime in C (`src/src/runtime`)
that gives Run programs green threads on growable stacks, channels, I/O that parks a green thread
instead of a thread, generational references, maps, child processes and OS signals relayed to
channels. This directory holds TLA+ specifications of the runtime, the TLC configurations that
check them on small instances, and proofs that TLAPS checks. The specifications are translated
from the C code (and, for the poller, from the Zig code under it); `PROJECT.json` names the lines
each definition stands for.

To run one configuration: `tlc -config MCChannel.cfg MCChannel.tla`. To check a proof:
`tlapm ChannelProofs.tla`.

## Inventory

The runtime is where the program's own hard logic is: threads, lock-free queues, parking and
waking, memory that is recycled, descriptors and signals shared with the operating system. The
compiler is a pipeline of pure functions; the standard library is sequential Run code, most of it
still skeletal.

| Component | State it keeps | Operations | Interacts with | What is hard | Correct when |
|---|---|---|---|---|---|
| Channels, `run_chan.c` | capacity, ring and two indices, two intrusive wait queues, `closed` | new, send, recv, close, free | parks and readies Gs through the scheduler; the signal dispatcher sends without a G | a G is linked into one list through its one `sched_next`; wake-ups happen after the unlock; the paths test one queue and trust the other | it is one FIFO; no waiter is lost, woken twice or left behind by a close |
| Local run queue, `run_scheduler.c:199-255` | `head`, `tail`, 256 slots of a Chase-Lev deque | push, pop (owner), steal (others) | the scheduler; also pushed to by `run_g_ready` on other Ms | races of pop and steal for the last member; wrapping indices compared with a sign | it implements an atomic deque; the owner never misses a G |
| G-M-P scheduler, `run_scheduler.c`, `run_main.c` | Gs with a status, Ms with a current G and P, Ps with a deque, idle lists, global queue, live count | init, run, spawn, yield, park, ready, park and wake an M, preempt, exit, abort on deadlock | everything that blocks; the poller; SIGURG | a G is visible to other Ms before it has left its own; lists and counts are checked in one place and used in another | each G and P is in one place, work is not stranded, the scheduler ends exactly when it should |
| Growable stacks, `run_scheduler.c:291-458, 907-928, 1569-1625, 1718-1731` | of each G the committed size and the deepest use since the last look; the kernel's page protection | prologue check, fault handler, growth by doubling, shrink after a switch | the scheduling loop, SIGSEGV, SIGURG | the count and the protection change in separate steps; the loop shrinks what others may use | the count is what the kernel has, live frames keep their pages, an overflow is reported for a full stack only |
| System-call hand-off, `run_scheduler.c:1359-1409` | P released around a call | enter, exit | scheduler | an exit without a P | the G runs once; no caller exists yet |
| Generational allocator, `run_alloc.c` | header of each block (generation, size, capacity), free lists per size class and one for large blocks, `run_gen_epoch` | alloc, free, ref create, check, deref | slices, maps, generated code | the address of a freed block is reused while references to it live on; free is several steps | stale references fail, live ones pass, every block is in one place |
| I/O poller, `run_xev.c`, `run_xev_bridge.zig` | fd slots with generations, completions in libxev's loop, waiting Gs, a count of open fds, wakeup flags | open, wait, close, poll, blocking poll, wakeup | scheduler, libxev | completions that fire after a close or a reopen; the lock is held over a blocking poll | a waiting G always has a request of its own open of the fd in the loop, and an event readies a G only while it waits for it |
| Legacy poller, `run_poller_legacy.c` | as above | as above | built only with `-Dlegacy-poller` | | |
| Hash map, `run_map.c` | Robin Hood table of hashed entries with probe lengths | get, set, delete, grow, iterate | allocator | probe lengths around the wrap, displacement, backward shift, growth in the middle of a set | it is a dictionary, every entry is reachable, every call returns |
| Slices and strings, `run_slice.c`, `run_string.c` | header with a generational reference | append, slice, index | allocator | headers left stale by a growing append | a stale header is noticed |
| Processes, `run_exec.c` | six pipe ends, pid and status of each command | run, output, combined output, start, wait, pipe accessors, free | the kernel's descriptors, fork, other threads | descriptors that children inherit, failures halfway, numbers that are reused | captured output is complete, no descriptor outlives its command but those a later call has overwritten, the call returns |
| Signals, `run_signal.c` | registry of channels, self-pipe, dispositions, dispatcher thread | notify, stop, ignore, reset, dispatch | channels, the kernel | the registry is edited while the dispatcher walks it; `ignore` takes no lock; the send may block under the mutex | each signal goes once to each channel that wants it; dispositions follow the registry |
| WASI scheduler, context switch, NUMA, virtual memory, formatting, introspection | | | | thin, assembly or single-threaded | |
| Compiler: lexer, parser, type checker, ownership, folding, lowering, back ends, driver | AST and IR | passes | each other, in order | large, but pure and sequential | the move checker and dead-code pass are the candidates |
| Tools: formatter, LSP, debugger | | requests | compiler | | |
| Standard library | | | runtime | `sync` and `context` promise blocking that the code does not have yet | |
| Vendored libxev, website, editors, packaging, benchmarks, examples, tests | | | | third-party or assets | |

`PROJECT.json` lists every component with its sources and status, and under `hazards` what in this
code is hard to test, at the line where it bites, with the property that covers it or why none
does.

## Modules

| Module | What it is | Built on |
|---|---|---|
| `FifoChannel` | what a channel promises: a FIFO, two lines of waiters, close | |
| `Channel` | `run_chan.c`, one action per path of an operation | instantiates `FifoChannel` |
| `ChannelProofs` | facts about lists without repetition; the invariants of `Channel`, and that it implements `FifoChannel` | `Channel` |
| `WorkDeque` | what a work-stealing deque promises | |
| `LocalQueue` | the Chase-Lev deque, one atomic access per action | instantiates `WorkDeque` |
| `Scheduler` | the scheduling loop, `run_g_ready`, `run_wake_m`, SIGURG, termination, the scheduler's view of the poller | the deque and channels as atomic operations |
| `SchedulerProofs` | invariants of `Scheduler` | `Scheduler` |
| `Stack` | growable stacks: check, fault, growth, shrink | |
| `StackProofs` | invariants of `Stack` | `Stack` |
| `GenAlloc` | `run_alloc.c`, one atomic access or critical section per action | |
| `GenAllocProofs` | invariants of `GenAlloc` | `GenAlloc` |
| `Poller` | `run_xev.c` and `run_xev_bridge.zig` over libxev | |
| `PollerProofs` | invariants of `Poller` | `Poller` |
| `Dictionary` | what a map promises | |
| `RobinMap` | `run_map.c`, one probe per action | instantiates `Dictionary` |
| `ContainerProofs` | invariants of `RobinMap` and `LocalQueue`, and that they implement `Dictionary` and `WorkDeque` | `RobinMap`, `LocalQueue` |
| `Signals` | `run_signal.c` with the kernel's dispositions and the pipe | |
| `SignalsProofs` | invariants of `Signals` | `Signals` |
| `Exec` | `run_exec.c` with the kernel's descriptors, forks and pipes | |
| `ExecProofs` | invariants of `Exec` | `Exec` |
| `MC*` | model values, small sets and symmetry | one each |

The modules meet at their abstractions. `Scheduler` uses a local queue whose operations are
atomic; `LocalQueue` shows that the code implements one, `WorkDeque`, when only the owner pushes.
`Scheduler` has the channel operations as "block until another G readies you", which is what
`Channel` does in `Park` and `GReady`; `Channel` in turn takes from the scheduler only that a G
made ready runs again. `Scheduler` sees the poller as a set of Gs with events, a flag that an fd
is open and a wakeup; `Poller` has the fds, slots, completions and the lock below that, and takes
from the scheduler that it polls and that a readied G runs. `Signals` has a channel as a count,
since all that `Channel` says of a sender without a G is that it delivers, buffers or aborts.
`Stack` leaves the choice of the M that resumes a G open, which is more than `Scheduler` allows.

Definitions called "Mutant" are plausible mistakes in the definition that follows them; they are
not used by any specification. `PROJECT.json` pairs each checked property with a mutant that
breaks it.

In most modules a variable `fate` (in `Channel` and `GenAlloc` `aborted`) records that the code
has aborted or that its behaviour has become undefined; the model stops there. Invariants of such
a module are stated for the behaviours that have not come to that point, so they show that the
bookkeeping is right as long as these windows are missed; that the windows can be hit is shown by
the configurations under "Further configurations".

### Channel

Each operation holds `ch->lock` from its first read to its unlock, so a path through it is one
action: `SendToReceiver`, `SendToBuffer`, `SendBlock`; `RecvRotate` (a receive with a sender
waiting behind a full ring), `RecvFromSender`, `RecvFromBuffer`, `RecvClosed`, `RecvBlock`;
`Close`. What follows the unlock is separate: the popped Gs sit in `wake_list[c]` until the caller
has passed each to `run_g_ready` (`GReady`), and a G whose `run_schedule` returns is `Resume`,
which panics when `chan_panic` is set. `outgoing` is what `chan_data_ptr` of a sender points at,
`received` the destination of a receive; a receiver's destination is written by the peer.
Callers are green threads or threads without a current G (the main thread, the signal dispatcher),
for which an operation that would block aborts. `aborted` stops everything.

Not modelled: `run_chan_free`, which looks at nothing and may be called only when nobody uses the
channel, element sizes, and the scheduler's queues between `GReady` and `Resume`.

### LocalQueue

`head` and `tail` are `uint32_t` and differences are compared as `int32_t`: `Add`, `Sub` and
`Negative` do this modulo `Width`, which stands for 2^32. A behaviour may start at any of the
indices in `Start`, since an idle queue may be found at any of them; the chosen values let the
indices change sign and wrap. Every atomic load, store and compare-and-swap is an action, with the
locals `t`, `h`, `g` of the C functions kept for each M. A G that a push finds no room for goes
back to `parked` (the global queue). Memory is sequentially consistent, which x86-64 and AArch64
provide for these accesses: two load-acquires stay in order on both. `Foreign` are Ms that push
although they do not own the P, as `run_g_ready` and `run_spawn_on_node` do. No M sleeps through
2^32 pushes of another (`MaxPush < Width`).

### Scheduler

An M is at one place, `frame[m].at`, of `run_schedule_loop` or of a call its G makes, with that
function's locals in the rest of the frame (`self` is the M the function has read from
`tls_current_m`, `w` the M that `run_wake_m` has unlinked, `left` the victims not yet tried).
Everything under one mutex is one step, and so is an operation on a local queue; acquiring a P and
binding it, and releasing it and clearing `current_p`, are one step each: in between, another M
can see only `p->status`, and one that reads the intermediate value pushes to its own P and stays
active, as it does when it reads just before or after. `run_g_ready` is three steps (choose the P,
queue, wake), since the chosen P may have changed status by the time of the push. The push itself
is one step (`Queue`) also where its M does not own the P: what such a push can do to the queue is
`LocalQueue` with `Foreign` Ms, and here almost no behaviour would be left to check. `WakeNew` may
fail to create a thread, and then the wake is lost, as in the code.

A context switch is modelled by what it does. `saved[g]` says that the context of `g` holds where
it left off, and `resume[g]` is that place. A G that yields or blocks is in a queue at `Yield`,
`Block` or `WaitIo`, and its context is saved at `SwitchOut`, a step later: another M may take it
in between and switch to a context that is not there. `Preempt` is SIGURG at any step of a G,
in whatever function of the runtime it is, under exactly the handler's condition; the interrupted
frame goes into `resume[g]` and goes on when the G runs again, possibly on another M, with the `m`
it had read before.

`fate` is one of `"deadlocked"`, `"stale context"`, `"use after free"` (the loop looks at a G that
another M has freed), `"stale m"` (code goes on with another thread's M), `"bad preemption"`
(SIGURG during a switch).

A program is left open: any G may yield, block, ready a blocked G, wait for I/O, open or close an
fd, spawn or exit at any time. All Gs have `preferred_node` -1 on one NUMA node. `M` stands for
`RUN_MAX_M_COUNT`. An M that loses the race for a victim's head passes it by; this needs a second
thief, hence more than two Ps. A poll descriptor is seen as `registered` (an fd is open, what
`run_poller_has_waiters` counts), `io` (the Gs that wait) and `ready_io` (their events). A close of
an fd (`OpenOrClose`) readies nobody here: whom it readies, and that it may ready a G twice, is
`Poller`; a G that is readied early is, to the scheduler, one that `BeginReady` has chosen.

### Stack

An address is its depth below the top of the stack: `sp[g]` is how deep the live frames reach,
`want[g]` where the G is about to write, `frame[g]` the depth of the innermost function whose
prologue called `run_morestack`. Page `k` holds the depths above `Page * (k - 1)`; `writable[g]`
is the kernel's protection, `committed[g]` and `watermark[g]` are the G's fields. SIGURG has no
alternate stack (`SA_ONSTACK` is not set), so the kernel's frame and those of the trampoline lie on
the G's own: `pushed[g]` is how much deeper they have taken a G that is switched out, and
`Saved(g)`, the depth the loop sees, counts them in.

`Call` decides on a frame, `Touch` writes it or faults. A prologue goes through `Check`
(`run_stack_check`: record the depth, clamp the target, `GrowTo`), a fault through `Fault` (the
SIGSEGV handler, which needs an alternate signal stack: `sigaltstack` is per thread, and only the
thread that ran `run_scheduler_init` has called it; an address in no G's stack gets the default
action). `GrowTo` is the decision of
`run_stack_grow_to_sp`, which reads `stack_committed` once; `Protect` and `Store` are its two
effects, and SIGURG may fall between them. `Yield`, `Exit` and `Preempt` leave the G to the loop of
its M (`look[m]`), whose `Look` records the depth, shrinks (`Shrink`) or frees, while another M may
already `Resume` the G. `Look` is one step; a `Resume` beside it may fall before it, after it or
into the middle, and where it does not fall clear of it the model stops (`"raced"`), on either side.

`fate` is one of `"overflow"` (the abort), `"crashed"` (a fault on an M that cannot run the
handler), `"overrun"` (a write below the reserved range, where there is no guard once everything
is committed), `"raced"` (another M resumes the G before or while the loop looks at it), `"stale
growth"` (a shrink has changed the count an interrupted growth has read), `"handler preempted"`
(SIGURG switches out a G whose SIGSEGV handler is on the M's signal stack) and `"no room for
SIGURG"` (the kernel cannot put its frame on the G's stack, and raises SIGSEGV instead).

With a threshold of 4 and a hysteresis of 2 the test `target < minimum` of the shrink never holds;
it is modelled all the same. Left out: the fixed stacks of Windows, and a `RUN_STACK_MAX` that is
not a multiple of the page, with which every `mprotect` fails unnoticed.

### GenAlloc

A lifetime is a block together with the generation stamped on it; `owned` and `freed` record what
the program holds and has passed to `run_gen_free`. An allocation is: choose a class, pop from a
list under its lock (`AllocPop`: the head of a class list if it meets the alignment, the first
large block with room), then `malloc` if there was none, then stamp. A free is: check the mark
(`FreeCheck`), store it (`FreeMark`), push under the lock (`FreePush`). `run_gen_free` sees the
pointer only; `FreeAgain` says whether programs free a pointer they have freed before.
`RefCreate` captures a generation, `Passes` is `run_gen_check`, and a dereference that fails
aborts. Statistics, contents and the switch that disables checks are left out.

### Poller

A G's call is at `pc[g]`. `run_poll_open` takes no lock: `OpenLoad` reads `registered_count`,
`OpenStore` writes it back and starts the slot afresh under a new generation, whether or not it was
active, whatever the loop has at the addresses of its completions, and whoever waits there. An fd
beyond `Table` is refused and has no slot; programs that do not look at the answer wait for it and
close it all the same. `run_poll_wait` is two critical sections with a park between them:
`WaitRegister` (into `waiter`, the descriptor's fields, and `slot_g`, the slot's, with a request in
the loop unless the completion is active) and `WaitDone`. `run_poll_close` is `Close` (ready both Gs
of the descriptor, make the slot inactive under a new generation), the drain, during which the
thread runs the loop and with it the callbacks of every fd, `Drained`, which may come before
everything has retired, as after the 64 passes of the code, and then leaves the completion and its
request where they are, and the decrement of the count (`CloseDone`). A poll begins with the lock
(`Tick`, `TickBlocking`), runs the loop and ends; the blocking one ends once something has fired.

A slot has one completion per direction, and so one context, for all its opens. `requests[f][d]`
are the generations in which a request was put in the loop at that address: after a drain that gave
up and a reopen the old request and the new one are both there. A callback (`LoopEvent`) tests
slot, state and generation in the order of the Zig code, but it reads the generation from the
context the new registration has written: in an active slot the test never decides, and an old
request readies the new waiter. What holds is that it readies only a G that waits for that event
(`EventsInTurn`), if for the wrong open; that it should be the right one is `EventsOfThisOpen`, under
"Further configurations".

libxev and the kernel are external: a request stays in the loop until its callback disarms it, a
ready one is reported, and an error, or an event of an earlier open, may be reported at any time.
`fate` is `"stranded"` (a wait without a request: its slot is not active, does not exist, or is
opened again under the waiter), `"readied by a close"` (`run_poll_close` readies a G that was
readied already), `"readied for both events"`, `"reset completion"` (a callback for a completion
whose storage an open has reset, which libxev does not survive) or `"readied by an event"`. All but
the last happen; that the last does not is `EventsInTurn`. `Racing` says whether opens may run
beside other opens and closes. Left out: the Windows poll timer.

### RobinMap

One step is one pass of a probe loop: `Set` tests the load and goes to `Insert` or starts a resize,
whose `Rehash` takes one bucket of the old table at a time; `SetEmpty`, `SetUpdate` and `SetNext`
(with the exchange of a richer entry) are the probe of an insertion, `GetHit`, `DeleteHit`, `Miss`
and `SearchNext` those of a search, `Shift` the backward shift. `insert_data` is the entry in hand,
with its probe length. The hash is the constant `Hash`, any function; equality of keys is that of
TLA+. An insertion of a resize that would resize again ends in the state `"nested"`, which is shown
to be unreachable. Left out: iteration, which only reads, `run_map_free` and allocation.

### Signals

`registry` is the table, `mutex` the holder of `registry_mutex`. A call of the program is
`NotifyFind` (find or make the entry; return silently when the table is full), `NotifyInstall` once
per signal, `NotifyEnd`; `StopRemove`, `StopRestore` once per signal that nobody wants any more,
`StopEnd`; `ResetBegin`, `ResetOne`, `ResetDrop`, `ResetEnd`; and `IgnoreOne`, which takes no mutex
and so falls between any two of these. `Raise` is the kernel with the handler, `Read`,
`LockRegistry`, `Send` once per entry and `UnlockRegistry` the dispatcher. A send that finds the
channel full aborts, since the dispatcher has no G. `EnsureDispatcher` may fail to make the pipe,
after which handlers write to nobody.

### Exec

Every command is driven by a thread of its own; they share `table`, the process's descriptors, in
which another thread opens and closes a file. `pipes[c]` are the six numbers the command remembers,
and `turn[c]` counts the pipes that were put into each pair: `StreamPipe` and `OutputPipe` may come
at any time, and again, and overwrite what was there. `Fork` copies the table into `holds[c]` and
wires the child's streams in the order of the code; `StartFails` is a fork that fails or a command
that was started before. `CloseIn`, `CloseOut`, `CloseErr` are the parent's closes, `Read` one
`read`, `ReadEnd` the end of the file, `ReadFails` a read error, which the code takes for the end,
`Wait` the `waitpid`, `Free` the closes of `run_exec_free`. A pipe that cannot be made changes
nothing. A child writes a bounded number of times, reads its input to the end if that is a pipe, and
exits. `fate` is `"stray close"` once a number is closed that belongs to somebody else. Left out:
arguments, environment, working directory and the search of the path.

## Runs

| Run | Instance | What it shows |
|---|---|---|
| `chan` | two Gs and a thread without a G; capacities 0, 1, 2; two values; 298,336 states | `WaitersJustified`: nobody waits for what is there. `RingAligned`: the indices delimit the buffered values. `WaiterAccounting`: a sleeping G is in exactly one list until it is readied. `ImplementsFifo`: the ring followed by the waiting senders' values is one FIFO. `HandoffCompletes`, `CloseReleasesAll`: a popped waiter returns; after a close nobody stays blocked. |
| `deque_owner` | two slots, three Gs, owner and two thieves, 16 index values, starts 0, 7, 14; 164,760 states | `ImplementsDeque`; `RunnableIsQueued`: no G is lost or taken twice; `PopMissJustified`: the owner finds nothing only when nothing is there, or the tail has come round to 0. |
| `sched_one_p` | three Gs, one of which uses I/O; one P, one M; two slots; 4,944 states | `AbortJustified` and `DeadlockReported`: the abort comes exactly when no G can run again; `SchedulerExits`: when all have exited the scheduler returns. |
| `sched_two_p` | three Gs, two Ps, three Ms, one slot, no SIGURG; 356,989 states | `GInOnePlace`, `ParkedMIsKnown`, `LiveExact`, `NoStrandedWork`: Gs, parked Ms and the live count are exact, and the last M to park leaves no G queued. |
| `sched_sigurg` | two Gs, two Ps, three Ms, one slot, SIGURG at any step; 315,701 states | `POwnership`, `GInOnePlace`: the accounting of Ps and Gs survives preemption inside the runtime. |
| `stack` | one G, two Ms one of which has a signal stack; pages of 2 units, initial commit 2, maximum 16, headroom 8, SIGURG with a frame of 1 unit at any step; 323,919 states | `CommittedIsReal`: the count is what the kernel has. `LiveFramesKept`: no shrink takes a page of a live frame, the interrupted call's and SIGURG's included. `OverflowMeansFull`: the overflow abort is for a stack at its last page. `TouchSucceeds`: a fault is served and the G gets on. |
| `alloc` | two threads, two blocks (one strictly aligned), classes 2 and 3, sizes 1, 4, 5, four generations; 395,532 states | `StaleRefsFail`, `LiveRefsPass`: a reference passes while its own lifetime lives, and not once a free has marked the block. `BlockInOnePlace`, `RecycledFits`: no block is lost, shared or too small. |
| `poller` | two Gs, an fd that is read, written, closed and opened up to three times, with or without a close between, and an fd beyond the table; 2,950,136 states | `WaiterServed`: a parked G has a request of this very open of its fd in the loop, and slot and descriptor know it, whatever an earlier open has left there. `EventsInTurn`: a late completion readies a G only while it waits for that event. `CountExact`: the count the scheduler polls by. |
| `map` | four keys that collide around the wrap, two values, capacity 4 growing to 8; 155,641 states | `Reachable`: each entry's probe length is exact and a search gets there. `CountedOnce`: one entry per key, exact count, an empty bucket, no nested resize. `ImplementsDictionary`. `CallReturns`: no probe goes round for ever. |
| `signals` | three channels with room for one signal, a registry of two, two signals, one in the pipe; 403,288 states | `RegisteredIsHandled`: outside an edit a wanted signal does not kill, and a handler has a channel. `RelayedToEachOnce`: edits of the registry between two sends make the dispatcher skip, repeat or misdirect none. `DispatcherReadsAgain`. |
| `exec` | a command captured with its stderr, with up to two pipes of its own or overwritten ones, beside one that is captured or run with one pipe; four descriptors, a pipe with room for one write; 433,329 states | `OutputIsComplete`: unless a read fails; `OnlyOverwrittenOutlive`: whatever failed and whenever it was freed, a descriptor that is left was overwritten by a later call; `OutputReturns`: also with the pipe inherited by other children. |

`sched_double_run` is the one run that expects a violation, of `RunsOnOneM`: a yielding G is
queued before its context is saved, and another M runs it on the stack the first is still on.
The documentation line it contradicts is quoted under `findings` in `PROJECT.json`.

Why the bounds are enough to be interesting:

- `chan`: with capacity 2 the ring wraps while senders wait; with three callers there can be two
  waiters and a third party, so that the order of waiters, a hand-off interrupted by a close and
  a receiver that finds two senders all happen. Callers repeat operations without a bound.
- `deque_owner`: two slots and up to six pushes fill, empty and wrap the deque several times; two
  thieves race each other and the owner for the last member; the starts put the sign change of
  the indices (8) and the wrap (16) inside the behaviours.
- `sched_two_p`: `run_wake_m`'s path that puts an M back, and parking without a P, need a third M
  and a third G. One slot makes the spill to the global queue ordinary.
- `stack`: eight pages with an initial commit of one give three doublings and two halvings in a
  row, the headroom is half of the maximum as 32 KB is of a small `RUN_STACK_MAX`, and calls and
  returns of one or two units end on and off page boundaries. A maximum of 32 units has passed
  too (1.2 million states), and so have pages of 1 unit with the initial commit of two of them. Gs share nothing of this, so one G is enough; two Ms are needed for a
  resumption before the look and for a fault on an M without a signal stack.
- `alloc`: two blocks make reuse certain, and four generations let a block be recycled while two
  threads hold references to its earlier lifetimes.
- `poller`: an open takes a generation and so does a close, so four generations are two opens with
  a close after each, or three and a close at the end. Two opens let a request of the first, which a drain
  has given up or an open has covered, fire in the second. The Gs are alike (symmetry); one waits
  while the other closes and reopens, and either waits for one event or both. The second fd is the
  one without a slot: two fds with slots meet in nothing but the count and the lock, and
  `MCPollerLock.cfg` has those.
- `map`: in a table of four with hashes 3, 3, 2, 2 every probe sequence wraps, a third entry
  already displaces, and the fourth makes the table grow; in the table of eight the order of
  homes is again reversed against the order of insertion.
- `signals`: the third channel finds the registry full or takes a place that a stop has freed, and
  a stop of the first entry moves the second under the dispatcher's index.
- `exec`: four descriptors are those of two pipes, so a second command finds them taken, half
  taken or freed and reused; a pipe with room for one write makes the child wait for the reader.
  Two pipes of one command are enough for the second to overwrite the first, in the same field or,
  with the combined output, in the other. Only the first child writes, twice.

Deadlock is checked where the system never stops: in `LocalQueue`, where an M can always begin
another call, and in `RobinMap`. Elsewhere a program may end or block its callers for good, and
the bounds stop `GenAlloc`; the cfg says so.

### Further configurations

These show a property that a comment or the documentation states and the code does not keep, or one
the code has no defence for; TLC reports the violation. They document the limits of the passing
runs above.

| Configuration | Property | What happens |
|---|---|---|
| `MCLocalQueueForeign.cfg` | `RunnableIsQueued` | `run_g_ready` pushes to the P the G ran on last from any M. Two pushes write one slot, or a push undoes the owner's pop: a G marked runnable ("in a run queue", scheduler.md:26) is in no queue. |
| `MCSchedulerExitHang.cfg` | `SchedulerExits` | An M reads a positive live count, the last G dies and unparks nobody, the M parks for good, and `run_scheduler_run` does not return. `run_main.c` leaves by `_Exit` when the user's main returns, so this bites programs that embed the scheduler. |
| `MCSchedulerPreempt.cfg` | `PreemptsUserCodeOnly` | The SIGURG handler looks at the G's status only, so it redirects code of the runtime. |
| `MCSchedulerStarved.cfg` | `IoServed` | On one P a G that yields in a loop is found in the local queue every time, and the poller is never asked. |
| `MCGenAllocAgain.cfg` | `DoubleFreeDetected` | After a block is recycled its mark is gone: a second free of the old pointer frees the new owner's block. |
| `MCPollerLock.cfg` | `WaitReturns` | The blocking poll holds `xev_lock`: a G that waits for a ready fd cannot register until an event of another fd ends the poll ("Park the current G until the fd is ready", `run_poller.h:66`). |
| `MCSignalsFull.cfg` | `DeliveryNeverBlocks` | "Signal delivery will not block sending to c." (`signal.run:20`): the dispatcher has no G, so a full or closed channel aborts the program. |
| `MCSignalsIgnore.cfg` | `IgnoredStaysIgnored` | "ignore causes the provided signals to be ignored." (`signal.run:28`): a `stop` of a channel that had the signal restores the default, and the next one kills the program. |
| `MCExecCombined.cfg` | `CombinedHasStderr` | "Run and capture stdout+stderr combined." (`run_exec.h:40`): the child closes the shared pipe end after wiring stdout and then duplicates the closed number to stderr (`run_exec.c:151-158`), so stderr stays the parent's. |
| `MCExecStray.cfg` | `OnlyOwnFdsClosed` | After a combined start the parent closes the shared end twice (`run_exec.c:193-199`), and `run_exec_free` closes numbers the program has closed: another thread's file may have the number by then. |
| `MCExecLeak.cfg` | `NothingLeftOpen` | "freeCmd releases all resources associated with a command handle." (`exec.run:87`, `run_exec.h:64`): a second pipe for a stream, or an output call after a pipe accessor, overwrites the numbers of the first pipe (`run_exec.c:263`, `287`, `292-293`, `325`, `334`, `343`), and nobody closes them. |
| `MCExecWait.cfg` | `WaitReleases` | "waitCmd waits for the command to exit and releases any resources." (`exec.run:63`): `run_exec_do_wait` closes nothing. |
| `MCExecInput.cfg` | `InputEnds` | No descriptor is close-on-exec: two children that read their input to the end hold each other's write end, and neither ends after the program has closed its own. |
| `MCStackHeadroom.cfg` | `HeadroomServes` | "calls that never run the check themselves (libc: printf, snprintf, ...) have stack to use" (`run_scheduler.c:36`): a shrink after a yield takes the headroom away, and the libc call after it faults. On an M other than the first, that ends the process. |
| `MCStackOdd.cfg` | `OverflowMeansFull` | "If the stack has reached RUN_STACK_MAX, it reports a stack overflow error" (scheduler.md:379): the committed size is doubled, so a maximum that is not the initial commit times a power of two is stepped over, and half a stack counts as full. |
| `MCStackOverrun.cfg` | `OverrunIsCaught` | A stack that is committed down to its base has no guard page left; a call without a check writes below it. |
| `MCStackPreempted.cfg` | `GrowthIsAtomic` | SIGURG arrives between the `mprotect` and the store of the new size, the loop shrinks the stack, and the store then claims pages that are gone. |

A few more need another constant or property in one of these:

- `MCPoller.cfg` with `EventsOfThisOpen` (as a PROPERTY, without SYMMETRY): a request that an earlier
  open has left in the loop readies the waiter of the present one, since its context is the new
  one's.
- `MCPoller.cfg` with `NoBlankCompletion`: `run_poll_open` of an fd that is open, or whose drain has
  given up, resets the storage of a completion that is in the loop (`run_xev_bridge.zig:137`); its
  callback is then the `.noop` of which the comment at 200-206 warns.
- `MCPollerLock.cfg` with `Racing = TRUE` and `CountExact`: the unlocked count of `run_poll_open` loses
  an update.
- `MCLocalQueue.cfg` with `PopMissJustified` without its `tail = 0`: after 2^32 pushes the owner takes
  a deque with members for empty.
- `MCStackPreempted.cfg` with `M <- TwoMs` and `LookIsAlone`: a G that was switched out is resumed on
  another M before, or while, the loop of the first looks at it and shrinks its stack.
- The same with `SigurgHasRoom`: SIGURG finds the G about to write on a page that is not committed
  yet, and its frame, for which nobody grows the stack, ends the program.

## Fairness

- `Channel`: weak fairness of `GReady` and `Resume`. A thread past its unlock goes on, and a G
  that was made ready is run again, which the scheduler owes. Nothing is assumed of the program:
  it need never call another operation.
- `Scheduler`: weak fairness of each M's next step, its G's code included, and of each I/O event:
  the operating system schedules threads, the code of a G does not stop of itself between
  two calls, and an fd that is waited for becomes ready. No fairness between an M's choices: a G
  may yield for ever. `SchedulerExits` and `DeadlockReported` hold with one P under this alone;
  with two the first is violated, and `NoStrandedWork` and `ParkedMIsKnown` are the safety that
  liveness with several Ps rests on.
- `Stack`: strong fairness of a G's steps in a call and of its resumption, weak fairness of the
  loop's look. SIGURG interrupts a G time and again, but every 10 ms, which leaves time for a step;
  nothing is assumed of what the program calls. `TouchSucceeds` needs the strong form, since a
  preempted G cannot step until it is resumed.
- `RobinMap`: weak fairness of the steps of a call under way: a loop goes round. None of calls.
- `Signals`: weak fairness of the dispatcher and of a program inside a call, and strong fairness of
  the dispatcher's lock, which it may find taken again and again.
- `Exec`: weak fairness of the threads inside their calls, of each child's exit once its input has
  ended, and of the program's close of that input, without which a child may read for ever.
- `Poller`: `FairSpec` is used only by `MCPollerLock.cfg`, where even strong fairness of everybody
  who wants the lock does not help.
- `LocalQueue` and `GenAlloc` are checked for safety only.

## Proofs

TLAPS proves these for every value of the constants (some 17,600 obligations in eight modules):

| Theorem | Statement | Argument |
|---|---|---|
| `ChannelProofs!TypeCorrect` | `Spec => []TypeOK` | inductive as it stands; the indices stay below a positive capacity |
| `ChannelProofs!WaitersJustifiedAlways` | `Spec => []WaitersJustified` | inductive with `TypeOK`: a receiver joins an empty open channel, and every action that would fill it serves the receiver instead |
| `ChannelProofs!RingAlignedAlways` | `Spec => []RingAligned` | inductive with `TypeOK`: each action moves the index or the length it must, and `RingWrite`, `RingRead` and `RingTurn` are the arithmetic modulo the capacity |
| `ChannelProofs!WaiterAccountingAlways` | `Spec => []WaiterAccounting` | inductive with `TypeOK`; the lemmas on lists say what taking a head, appending and joining do to the members |
| `ChannelProofs!FifoImplemented` | `Spec => ImplementsFifo` | step by step: the buffered values from the read index on, followed by those of the waiting senders, are the abstract queue; from the invariants above and `PanicIsPending` |
| `SchedulerProofs!GsAreInOnePlace`, `LiveIsExact` | `Spec => []GInOnePlace`, `[]LiveExact` | from `SchedInv`, below: `InOnePlace` and `Counted` |
| `SchedulerProofs!PsAreOwned`, `ParkedMsAreKnown` | `Spec => []POwnership`, `[]ParkedMIsKnown` | from `Owned` and `Known` of `SchedInv`, which hold also after the behaviour has become undefined |
| `SchedulerProofs!WorkIsNotStranded` | under `NumPs <= 2`: `Spec => []NoStrandedWork` | from `Covered` of `SchedInv` |
| `SchedulerProofs!AbortsAreJustified` | `Spec => []AbortJustified` | from `Lone` and `InOnePlace` of `SchedInv` |
| `SchedulerProofs!TypesHold` | `Spec => []TypeOK` | from `FieldTypes`, `FrameTypes` and `Shape` of `SchedInv` |
| `GenAllocProofs!TypeCorrect` | `Spec => []TypeOK` | inductive with `HandMalloced`: what a thread has in its hands came from `malloc` |
| `GenAllocProofs!StaleRefsFailAlways` | `Spec => []StaleRefsFail` | from `StaleInv`, below |
| `GenAllocProofs!LiveRefsPassAlways`, `BlockInOnePlaceAlways` | under `~FreeAgain`: `Spec => []LiveRefsPass`, `[]BlockInOnePlace` | from `PlaceInv`, below |
| `GenAllocProofs!RecycledFitsAlways` | `Spec => []RecycledFits` | from `FitsInv`, below |
| `ContainerProofs!QueuedOnceAlways`, `PopMissJustifiedAlways`, `DequeTypeCorrect` | under `Foreign = {}`: `Spec => []RunnableIsQueued`, `[]PopMissJustified`, `[]TypeOK` | from `DequeInv`, below |
| `ContainerProofs!DequeImplemented` | under `Foreign = {}`: `Spec => ImplementsDeque` | a push is the step that publishes the tail, a pop the one that sees or wins its member, a steal the compare it wins; the others change neither `Content` nor who is out; from `DequeInv` |
| `ContainerProofs!EntriesReachable`, `EntriesCountedOnce`, `MapTypeCorrect` | `MapSpec => []Reachable`, `[]CountedOnce`, `[]MapTypeOK` | from `MapInv`, below |
| `ContainerProofs!MapRefinesDictionary` | `MapSpec => ImplementsDictionary` | each step changes `Contents` as the dictionary does or leaves it alone, from `MapInv` |
| `SignalsProofs!RelayIsExact`, `DispositionsFollowRegistry` | `Spec => []RelayedToEachOnce`, `[]RegisteredIsHandled` | from `SigInv`, below |
| `ExecProofs!OnlyOverwrittenOutliveTheirCommand`, `OutputCallsAreComplete` | `Spec => []OnlyOverwrittenOutlive`, `[]OutputIsComplete` | from `FdInv` and `OutInv`, below |
| `PollerProofs!WaiterServedAlways`, `EventsInTurnAlways` | `Spec => []WaiterServed`, `[]EventsInTurn` | from `Structure` and `SlotsKnow`, below |
| `StackProofs!CommittedIsRealAlways`, `LiveFramesKeptAlways` | `Spec => []CommittedIsReal`, `[]LiveFramesKept` | from `StackInv`, below |
| `StackProofs!OverflowMeansFullAlways` | under `SizesMeet`: `Spec => []OverflowMeansFull` | from `FullInv`, below |

Why the invariants are needed:

- `SchedInv` has two halves. `Always` holds in every state: the fields and frames have their types
  (`FieldTypes`, `FrameTypes`), each position of an M goes with a G, a P or neither (`Shape`), a P is
  idle once or one M's (`Owned`), and a parked M is in the idle list once or in the hand-over of one
  `run_wake_m`, even of one that SIGURG has suspended (`Known`). `WhileOk` holds until the code
  aborts or runs one G twice: the code of a G is on one M, and a G that has a saved context is on
  none (`SingleRun`); a G is in one queue, one hand, one wait queue or on one M (`InOnePlace`);
  `Alive` is finite and counted (`Counted`). `GInOnePlace`, `POwnership` and `ParkedMIsKnown` add
  numbers up, and no step can be followed through a sum: the invariant says the same with sets of
  at most one member, and the theorems count at the end. `POwnership` needs `Shape`, since a
  hand-over reads the P from the frame and not from the M; `InOnePlace` needs `SingleRun`, since a
  switch of a G that is on two Ms would leave it in two places.
- `NoStrandedWork` speaks of the last M that parks, but the mistake would be made earlier, when it
  passed a queue by. `Covered` says for every queue that holds a G that some M with a P has still to
  look at it: it has not got past it in its round (`HasPassed`), or a push has sent it, or a woken M,
  round again. A thief that loses the race for a head goes on to the next queue, and the G behind
  that head may then be nobody's. It takes a second thief, hence three Ps: the theorem is for at
  most two, which is what `sched_two_p` checks.
- `AbortJustified` is about the state in which the loop gives up. `Lone` follows a single P there:
  nothing is preempted, a blocking poll and a give-up see a live G, a wakeup is pending only at the
  end, and a G that waits for an fd has it registered. What is left is that a live G that is in no
  queue, in no hand and on no M waits for another one.
- `RunnableIsQueued` counts, and says nothing of what the Ms have read. `DequeInv` says with sequences
  that the members are distinct, that none of them is out and that who is not out is a member
  (`Sound`), and adds what each M may still rely on. The owner (`OwnerKnows`): nobody else moves the
  tail, so the one it has read is the present one; a push that has found room still has it, since
  thieves only make more; the slot it has written is the one behind the last member; at the
  compare-and-swap for the last member either the head has not moved or nothing is left. A thief
  (`ThiefKnows`): if the head is what it was, there is a member and the slot holds what the thief has
  read. That needs the head not to have come round meanwhile, which no relation of head and tail
  excludes: the invariant bounds how far the head has moved since the thief read it by the pushes
  made, and these by `MaxPush < Width`. `SlotsApart` is where `Width` has to be a multiple of `Size`,
  as 2^32 is of 256: otherwise a write behind the last member could land on the first when the
  indices wrap. The theorems assume `Foreign = {}`, since with a foreign pusher the invariant
  `OwnerKnows` and `RunnableIsQueued` itself fail (`MCLocalQueueForeign.cfg`).
- `StaleRefsFail` is not inductive: a later stamp could, for all it says, give a block the
  generation a stale reference has captured, or unmark a block without making it the program's.
  `StaleInv` adds `LifetimesApart` (the generation of every lifetime, owned or freed, lies below
  `run_gen_epoch`, so that a fresh stamp is none of theirs, and no lifetime is both owned and
  freed) and `UnmarkedIsOwned` (an unmarked block carries the generation of a lifetime the program
  owns, unless a free is about to mark it). A reference that passes has the generation of its
  block, hence is an owned lifetime, hence not a freed one. The theorem makes no use of
  `~FreeAgain`: stale references fail in programs that free twice, too.
- `BlockInOnePlace` counts, and no step can be followed through a count. `PlaceInv` says the same
  without counting: the blocks in hand, the owned lifetimes of a block and the places on the lists
  are each of a kind (`HeldOnce`, `OwnedOnce`, `ListedOnce`), and a block is in one of the three and
  not in two (`Placed`). Every action moves one block from one place to another; `TakeOut` and
  `PutIn` say what a pop and a push do to the lists. `LiveRefsPass` is a part of it: a stamp and a
  mark reach a block in hand only, which then is not owned. Where programs free twice both fail
  (TLC finds it with the constants of `MCGenAllocAgain.cfg`), so the theorems assume `~FreeAgain`.
- `FitsInv` adds to `RecycledFits` that a block was made for a class or is larger than all of them
  (`Rounded`), so that `run_size_class` of its capacity is the list it came from, and that a block
  popped for a request has room for it until the stamp (`RoomInHand`).
- `Reachable` says what the table is between two steps but not why a displacement or a shift keeps
  it: `MapInv` adds where the entry in hand is (every bucket it has passed is at least as far from
  home), where the gap of a deletion is, that a rehash has put at most the old entries into a table
  of twice the size, and that keys in the two tables and in hand are different.
- `SigInv` is `Exclusive` (at most one of program and dispatcher is inside the mutex), `Types`,
  `Together` (a wanted signal's disposition is not the default; a handled one is wanted, or a `stop`
  still has to restore it), `Found` (a notify has an entry to install for) and `RelayedToEachOnce`.
- `FdInv` is `FdTypes` and, for each command, `Field`: an open descriptor of the last pipe that was
  put into a field is in that field (`InField`), no pipe is ahead of its field's count (`NoneLater`),
  and a combined call, which counts a turn of `stderr_pipe` without a pipe, has no descriptor there
  (`NoErr`) and has closed its write end before the parent compares the two numbers. What a free
  finds in no field is then an earlier pipe's. `OutInv` says that what the child has written to its
  stdout is what is in the pipe and what has been read.
- `Structure` is `Types`, `Calling`, `OneEach` (one reader and one writer per descriptor),
  `Exclusive` (an fd that is opened is nobody else's; one that is drained is not active), `Current`
  (a completion of an active slot has the slot's generation in its context, and a request of that
  generation in the loop, whatever else the loop has at its address) and `Known` (a descriptor knows
  only Gs that are in `run_poll_wait`); `SlotsKnow` ties the slots to the Gs that wait. `EventsInTurn`
  does not rest on the generation test, which an old request passes: it rests on `SlotsKnow`, since
  whatever fires finds in the slot only a G that waits for that event.
- `StackInv` is `Types` and, until something goes wrong, for every G that its pages are those of the
  committed size (of the new size once a growth has reached `Store`, `RealOf`) and that its frames,
  SIGURG's included, are in them (`LiveOf`); a growth under way has read the present count
  (`Growing`). That a shrink leaves enough is `EnoughIsLeft`: the target is at least the recorded
  depth, which is that of the context the switch has saved (`Saved`). `Quotient`, `PageMonotone` and
  `PagesMeet` are the arithmetic of pages.
- `OverflowMeansFull` rests on the sizes a stack goes through. `ByDoubling` says that the committed
  count, and the count a growth is about to store, is the initial commit times a power of two; a
  shrink halves it (`ShrinkHalves`: where the first test lets a shrink be, half the stack is at least
  twice what is used), a growth multiplies it, and of two powers of two the smaller divides the
  larger (`Comparable`), so a growth that needs no more than the maximum finds a size within it
  (`DoublingFinds`). `SizesMeet` says that the fresh stack and the maximum are among these sizes, as
  with the default maximum; without it TLC finds the violation (`MCStackOdd.cfg`). These facts are
  proved by induction over the powers of two (`PowInduction`), from the least-number principle for
  sets of naturals (`Least`).

The assumptions are the named `ASSUME`s of the modules: capacities, sizes and rooms are naturals,
`NULL` and the zero value are none of the program's values, green threads are not OS threads, a
table has at least four buckets, a stack is a whole number of pages. TLC evaluates them in every
run. In particular the number of callers, threads, blocks, keys, channels, commands, fds, Gs and Ms,
hashes, capacities and page sizes are arbitrary. Where a module bounds a counter for TLC
(`MaxEpoch`, `MaxGeneration`, `MaxPending`, `MaxPipes`, `MaxWrites`) the theorem holds for every bound; the
pushes in one behaviour of `LocalQueue` (`MaxPush`) are any number below `Width`.

Every safety invariant and every refinement that a run checks is a theorem, but for `CountExact`: it
holds only where opens race nothing, and no contract of the runtime says they do not, so it is
model-checked for those and not proved. `NoStrandedWork` with more than two Ps is not claimed. Only model-checked are the liveness properties, which rest on
fairness, and that the prover does not handle: `HandoffCompletes`, `CloseReleasesAll`,
`SchedulerExits`, `DeadlockReported`, `CallReturns`, `DispatcherReadsAgain`, `OutputReturns` and
`TouchSucceeds`.

## Not modelled, and why

- The scheduler: system calls (no caller yet), NUMA preferences, the SIGALRM timer,
  `run_g_queue_remove`, changing the number of Ps. Locks are atomic steps, so a G preempted while
  it holds a lock is a listed hazard and not a checked one. Threads that ready a G without being
  an M are in `Channel` but not in `Scheduler`.
- `run_chan_free`, `run_map_free`, map iteration, the Windows poll timer, the arguments,
  environment and path search of commands: they keep no state of their own, build strings, or
  may be used only where nothing else happens.
- Slice headers: that a header left behind by a growing append fails its check is
  `StaleRefsFail`; headers that share an array are not modelled. Strings are immutable.
- The legacy poller, built only with a flag, has the same interface as the one modelled. The WASI
  scheduler runs each G to its end on one thread.
- The compiler's passes, code generators and tools: pure functions over trees and text, which
  tests and fuzzers suit better.
- The standard library: sequential code; `sync` and `context` promise blocking that the code does
  not have yet, so there is no behaviour to compare with the promise.
- Assembly, thin wrappers over the operating system, SIMD, formatting, stack traces, vendored code.

Of the C, header and assembly files, some 24,400 lines, 14,280 are a generated parser for editors
(`src/editors/tree-sitter-run/src/parser.c`), and another 2,700 are SIMD, formatting, NUMA and the
legacy poller. The runtime's stateful modules, some 4,100 lines, are what is modelled.

## Plan

Done, in this order: `Channel` with `FifoChannel`, its invariants and the refinement proved;
`LocalQueue` with `WorkDeque`; `Scheduler`; `GenAlloc`; `Poller`; `RobinMap` with `Dictionary`;
`Signals`; `Exec`; `Stack`, with their invariants proved.

Left, in this order:

1. `Scheduler` with its locks opened up, for preemption under a lock, and with the system-call
   hand-off once it has a caller.
2. Slices over `GenAlloc`: headers that share an array, appends through one of them.
3. `Scheduler` and `Poller` composed in one run, for a wakeup dropped between two ticks.
4. `sync` and `context` when they block; the move checker as a pure algorithm.

Theorems: the safety of what is modelled is proved; each of the above brings its own invariants.
