------------------------------- MODULE Signals -------------------------------
(***************************************************************************)
(* run_signal.c: OS signals relayed to channels.  The handler writes the   *)
(* signal to a pipe, a dispatcher thread reads the pipe and sends the      *)
(* signal to every channel of the registry that wants it, and the program  *)
(* edits the registry and the dispositions meanwhile, all under            *)
(* registry_mutex but for run_signal_ignore and the handler itself.        *)
(*                                                                         *)
(* The kernel's dispositions and pipe are external, as is the channel of   *)
(* run_chan.c, seen here as a count: the dispatcher has no green thread,   *)
(* so a send that finds no room aborts the program (run_chan.c:110-117).   *)
(***************************************************************************)
EXTENDS Integers, Sequences, FiniteSets, SequencesExt

CONSTANTS Chan, Signal, NULL,
          Room,              \* of each channel, how many signals it buffers
          MAX_REGISTRATIONS,
          MaxPending         \* bound: signals in the pipe

ASSUME SignalsAssumption ==
  /\ IsFiniteSet(Signal) /\ Room \in [Chan -> Nat] /\ MAX_REGISTRATIONS \in Nat \ {0}
  /\ MaxPending \in Nat \ {0} /\ NULL # "program" /\ NULL # "dispatcher"

VARIABLES
  disposition,          \* of each signal: "default", "ignored" or "handled"
  self_pipe,            \* the signals written and not read
  registry,             \* a sequence of [ch, signals]
  mutex,                \* the holder of registry_mutex: "program", "dispatcher" or NULL
  dispatcher,           \* "none", "failed" (no pipe), "read", "lock" or "send"
  byte, next, served,   \* its signal, its index in the registry, the channels sent to
  pc, ch, todo,         \* the program's call: its part, channel and signals not yet handled
  buffered,             \* of each channel, the signals in it
  fate                  \* "ok", "killed" by a signal or "aborted": the model stops there

callVars == <<pc, ch, todo>>
relayVars == <<dispatcher, byte, next, served>>
vars == <<disposition, self_pipe, registry, mutex, relayVars, callVars, buffered, fate>>

Init ==
  /\ disposition = [s \in Signal |-> "default"] /\ self_pipe = <<>> /\ registry = <<>>
  /\ mutex = NULL /\ dispatcher = "none" /\ byte = NULL /\ next = 0 /\ served = {}
  /\ pc = "user" /\ ch = NULL /\ todo = {} /\ buffered = [c \in Chan |-> 0] /\ fate = "ok"

Wants(s) == {k \in DOMAIN registry : s \in registry[k].signals}
Entry(c) == {k \in DOMAIN registry : registry[k].ch = c}
Wanting(e, ss) == [e EXCEPT !.signals = ss]

\* Of the program's threads one at most is between the lock and the unlock of
\* notify, stop or reset; the others have touched nothing, so one call is kept.
Call(at, c, ss) == pc = "user" /\ pc' = at /\ ch' = c /\ todo' = ss
LockedCall(at, c, ss) == mutex = NULL /\ mutex' = "program" /\ Call(at, c, ss)
Return == pc' = "user" /\ ch' = NULL /\ todo' = {}
Done(s) == s \in todo /\ todo' = todo \ {s}
Unlock == mutex' = NULL

-----------------------------------------------------------------------------
(* The kernel and the handler *)

\* A raised signal finds the program's disposition.  A handler that has no pipe
\* writes nothing.
Raise(s) ==
  /\ \/ /\ disposition[s] = "default" /\ fate' = "killed"
        /\ UNCHANGED self_pipe
     \/ /\ disposition[s] = "handled" /\ dispatcher # "failed"
        /\ Len(self_pipe) < MaxPending
        /\ self_pipe' = Append(self_pipe, s) /\ UNCHANGED fate
  /\ UNCHANGED <<disposition, registry, mutex, relayVars, callVars, buffered>>

\* The program takes a signal from a channel.
Receive(c) ==
  /\ buffered[c] > 0 /\ buffered' = [buffered EXCEPT ![c] = @ - 1]
  /\ UNCHANGED <<disposition, self_pipe, registry, mutex, relayVars, callVars, fate>>

-----------------------------------------------------------------------------
(* The dispatcher thread *)

Read ==
  /\ dispatcher = "read" /\ self_pipe # <<>>
  /\ byte' = Head(self_pipe) /\ self_pipe' = Tail(self_pipe) /\ dispatcher' = "lock"
  /\ UNCHANGED <<disposition, registry, mutex, next, served, callVars, buffered, fate>>

LockRegistry ==
  /\ dispatcher = "lock" /\ mutex = NULL
  /\ mutex' = "dispatcher" /\ dispatcher' = "send" /\ next' = 1 /\ served' = {}
  /\ UNCHANGED <<disposition, self_pipe, registry, byte, callVars, buffered, fate>>

\* Mutant: the registry is left unlocked for the time of a send.
SendUnlocked ==
  LET e == registry[next]
  IN  /\ dispatcher = "send" /\ next \in DOMAIN registry /\ next' = next + 1
      /\ byte \in e.signals => buffered[e.ch] < Room[e.ch]
      /\ IF byte \in e.signals
         THEN /\ buffered' = [buffered EXCEPT ![e.ch] = @ + 1] /\ served' = served \cup {e.ch}
         ELSE UNCHANGED <<buffered, served>>
      /\ Unlock
      /\ UNCHANGED <<disposition, self_pipe, registry, dispatcher, byte, callVars, fate>>

\* One entry of the registry; run_chan_send does not return when there is no room.
Send ==
  LET e == registry[next]
  IN  /\ dispatcher = "send" /\ next \in DOMAIN registry
      /\ \/ /\ byte \notin e.signals /\ next' = next + 1
            /\ UNCHANGED <<buffered, served, fate>>
         \/ /\ byte \in e.signals /\ buffered[e.ch] < Room[e.ch]
            /\ buffered' = [buffered EXCEPT ![e.ch] = @ + 1] /\ served' = served \cup {e.ch}
            /\ next' = next + 1 /\ UNCHANGED fate
         \/ /\ byte \in e.signals /\ buffered[e.ch] = Room[e.ch]
            /\ fate' = "aborted" /\ UNCHANGED <<buffered, served, next>>
      /\ UNCHANGED <<disposition, self_pipe, registry, mutex, dispatcher, byte, callVars>>

UnlockRegistry ==
  /\ dispatcher = "send" /\ next \notin DOMAIN registry
  /\ Unlock /\ dispatcher' = "read" /\ byte' = NULL /\ next' = 0 /\ served' = {}
  /\ UNCHANGED <<disposition, self_pipe, registry, callVars, buffered, fate>>

-----------------------------------------------------------------------------
(* run_signal_notify *)

\* run_ensure_dispatcher: once, and its pipe may fail.
EnsureDispatcher ==
  IF dispatcher = "none" THEN dispatcher' \in {"read", "failed"} ELSE UNCHANGED dispatcher

\* Mutant: the early return for a full registry keeps the mutex.
NotifyFindLocked(c, ss) ==
  /\ mutex = NULL /\ pc = "user" /\ EnsureDispatcher /\ mutex' = "program"
  /\ IF Entry(c) = {} /\ Len(registry) >= MAX_REGISTRATIONS
     THEN UNCHANGED <<registry, callVars>>
     ELSE /\ Call("install", c, ss)
          /\ registry' = IF Entry(c) # {} THEN registry
                         ELSE Append(registry, [ch |-> c, signals |-> {}])
  /\ UNCHANGED <<disposition, self_pipe, byte, next, served, buffered, fate>>

\* Find or create the channel's entry; a full registry is returned from in silence.
NotifyFind(c, ss) ==
  /\ mutex = NULL /\ pc = "user" /\ EnsureDispatcher
  /\ \/ /\ Entry(c) # {} /\ LockedCall("install", c, ss) /\ UNCHANGED registry
     \/ /\ Entry(c) = {} /\ Len(registry) < MAX_REGISTRATIONS
        /\ registry' = Append(registry, [ch |-> c, signals |-> {}])
        /\ LockedCall("install", c, ss)
     \/ /\ Entry(c) = {} /\ Len(registry) >= MAX_REGISTRATIONS
        /\ UNCHANGED <<registry, mutex, callVars>>
  /\ UNCHANGED <<disposition, self_pipe, byte, next, served, buffered, fate>>

NotifyInstall(s) ==
  /\ pc = "install" /\ Done(s)
  /\ registry' = [k \in DOMAIN registry |->
       Wanting(registry[k], registry[k].signals \cup IF k \in Entry(ch) THEN {s} ELSE {})]
  /\ disposition' = [disposition EXCEPT ![s] = "handled"]
  /\ UNCHANGED <<self_pipe, mutex, relayVars, pc, ch, buffered, fate>>

NotifyEnd ==
  /\ pc = "install" /\ todo = {} /\ Unlock /\ Return
  /\ UNCHANGED <<disposition, self_pipe, registry, relayVars, buffered, fate>>

-----------------------------------------------------------------------------
(* run_signal_stop *)

\* The entry is removed by shifting the later ones.
StopRemove(c) ==
  /\ \/ /\ Entry(c) = {} /\ LockedCall("restore", c, {}) /\ UNCHANGED registry
     \/ \E k \in Entry(c) : /\ registry' = RemoveAt(registry, k)
                            /\ LockedCall("restore", c, registry[k].signals)
  /\ UNCHANGED <<disposition, self_pipe, relayVars, buffered, fate>>

\* Mutant: the signals of the entry are restored whoever else wants them.
StopRestoreAll(s) ==
  /\ pc = "restore" /\ Done(s)
  /\ disposition' = [disposition EXCEPT ![s] = "default"]
  /\ UNCHANGED <<self_pipe, registry, mutex, relayVars, pc, ch, buffered, fate>>

\* A signal nobody wants any more gets its default back, ignored or not.
StopRestore(s) ==
  /\ pc = "restore" /\ Done(s)
  /\ disposition' = IF Wants(s) = {} THEN [disposition EXCEPT ![s] = "default"]
                                     ELSE disposition
  /\ UNCHANGED <<self_pipe, registry, mutex, relayVars, pc, ch, buffered, fate>>

StopEnd ==
  /\ pc = "restore" /\ todo = {} /\ Unlock /\ Return
  /\ UNCHANGED <<disposition, self_pipe, registry, relayVars, buffered, fate>>

-----------------------------------------------------------------------------
(* run_signal_ignore, which takes no mutex, and run_signal_reset *)

\* One signal of the list; nothing else is read or kept between two of them.
IgnoreOne(s) ==
  /\ disposition' = [disposition EXCEPT ![s] = "ignored"]
  /\ UNCHANGED <<self_pipe, registry, mutex, relayVars, callVars, buffered, fate>>

ResetBegin(ss) ==
  /\ LockedCall("clear", NULL, ss)
  /\ UNCHANGED <<disposition, self_pipe, registry, relayVars, buffered, fate>>

ResetOne(s) ==
  /\ pc = "clear" /\ Done(s)
  /\ disposition' = [disposition EXCEPT ![s] = "default"]
  /\ registry' = [k \in DOMAIN registry |-> Wanting(registry[k], registry[k].signals \ {s})]
  /\ UNCHANGED <<self_pipe, mutex, relayVars, pc, ch, buffered, fate>>

\* Entries left without a signal are dropped, the later ones move up.
ResetDrop(k) ==
  /\ pc = "clear" /\ todo = {} /\ registry[k].signals = {}
  /\ registry' = RemoveAt(registry, k)
  /\ UNCHANGED <<disposition, self_pipe, mutex, relayVars, callVars, buffered, fate>>

ResetEnd ==
  /\ pc = "clear" /\ todo = {} /\ \A k \in DOMAIN registry : registry[k].signals # {}
  /\ Unlock /\ Return
  /\ UNCHANGED <<disposition, self_pipe, registry, relayVars, buffered, fate>>

-----------------------------------------------------------------------------
Dispatch == Read \/ LockRegistry \/ Send \/ UnlockRegistry

Begin ==
  \/ \E c \in Chan, ss \in SUBSET Signal \ {{}} : NotifyFind(c, ss)
  \/ \E c \in Chan : StopRemove(c)
  \/ \E ss \in SUBSET Signal \ {{}} : ResetBegin(ss)
  \/ \E s \in Signal : IgnoreOne(s)

Go == \/ NotifyEnd \/ StopEnd \/ ResetEnd
      \/ \E k \in DOMAIN registry : ResetDrop(k)
      \/ \E s \in Signal : NotifyInstall(s) \/ StopRestore(s) \/ ResetOne(s)

Next ==
  /\ fate = "ok"
  /\ \/ Dispatch \/ Begin \/ Go
     \/ \E s \in Signal : Raise(s)
     \/ \E c \in Chan : Receive(c)

Spec == Init /\ [][Next]_vars

\* Every thread the OS runs goes on, and a mutex that is free again and again is
\* had in the end by the dispatcher; nobody has to call, to raise or to receive.
FairSpec ==
  /\ Spec
  /\ WF_vars(fate = "ok" /\ Dispatch) /\ SF_vars(fate = "ok" /\ LockRegistry)
  /\ WF_vars(fate = "ok" /\ Go)

-----------------------------------------------------------------------------
\* The registry has one entry per channel at most, within its table; the mutex
\* is held exactly while somebody is between the lock and the unlock of a call.
TypeOK ==
  /\ disposition \in [Signal -> {"default", "ignored", "handled"}]
  /\ self_pipe \in Seq(Signal) /\ Len(self_pipe) <= MaxPending
  /\ registry \in Seq([ch : Chan, signals : SUBSET Signal])
  /\ Len(registry) <= MAX_REGISTRATIONS
  /\ \A j, k \in DOMAIN registry : registry[j].ch = registry[k].ch => j = k
  /\ dispatcher \in {"none", "failed", "read", "lock", "send"}
  /\ byte \in Signal \cup {NULL} /\ served \subseteq Chan
  /\ next \in 0..(MAX_REGISTRATIONS + 1)
  /\ buffered \in [Chan -> Nat] /\ \A c \in Chan : buffered[c] <= Room[c]
  /\ pc \in {"user", "install", "restore", "clear"}
  /\ ch \in Chan \cup {NULL} /\ todo \subseteq Signal
  /\ (mutex = "program") <=> (pc # "user")
  /\ (mutex = "dispatcher") <=> (dispatcher = "send")
  /\ fate \in {"ok", "killed", "aborted"}

\* Whenever the registry is not being edited, a signal some channel wants does
\* not kill the program (ignored it may be: run_signal_ignore looks at no
\* registration), and a handler is installed only for a signal that some channel
\* wants: notify, stop, reset and an unlocked ignore keep dispositions and
\* registry together, in whatever order they meet.
RegisteredIsHandled ==
  mutex \in {NULL, "dispatcher"} =>
    \A s \in Signal : /\ Wants(s) # {} => disposition[s] # "default"
                      /\ disposition[s] = "handled" => Wants(s) # {}

\* While the dispatcher relays a signal it has sent it to exactly the channels
\* that want it among the entries it has passed: stop and reset, which move the
\* entries, make it skip none, repeat none, and send to none that was stopped.
RelayedToEachOnce ==
  dispatcher = "send" =>
    served = {registry[k].ch : k \in {j \in Wants(byte) : j < next}}

\* A signal that the dispatcher has read is relayed and the dispatcher reads
\* again, whatever the program calls meanwhile.
DispatcherReadsAgain ==
  dispatcher = "lock" ~> (dispatcher = "read" \/ fate # "ok")

\* "Signal delivery will not block sending to c." (src/stdlib/os/signal/signal.run:20)
DeliveryNeverBlocks == fate # "aborted"

\* "ignore causes the provided signals to be ignored." (src/stdlib/os/signal/signal.run:28)
\* A signal ignored gets its default back from a reset only.
IgnoredStaysIgnored ==
  [][\A s \in Signal :
       (disposition[s] = "ignored" /\ disposition'[s] = "default") =>
         pc = "clear" /\ s \in todo]_vars
=============================================================================
