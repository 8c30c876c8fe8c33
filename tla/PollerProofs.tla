----------------------------- MODULE PollerProofs -----------------------------
(***************************************************************************)
(* The poller's slots and descriptors, for every set of green threads and  *)
(* fds, every number of opens and whatever a close leaves in the loop:     *)
(* Structure says what the calls, the slots and the descriptors have to do *)
(* with one another, and the properties follow from it.                    *)
(***************************************************************************)
EXTENDS Poller, TLAPS

PC == {"user", "open", "wait", "parked", "queued", "returned", "close", "drain", "count"}

Types ==
  /\ waiter \in [Fd -> [Dir -> G \cup {NULL}]]
  /\ generation \in [Fd -> Nat] /\ active \in [Fd -> BOOLEAN]
  /\ slot_g \in [Fd -> [Dir -> G \cup {NULL}]]
  /\ completion \in [Fd -> [Dir -> {"blank", "active", "retired"}]]
  /\ ctx \in [Fd -> [Dir -> Nat]] /\ requests \in [Fd -> [Dir -> SUBSET Nat]]
  /\ pc \in [G -> PC]
  /\ call \in [G -> [fd : Fd \cup {NULL}, events : SUBSET Dir]]

\* A call is about an fd of the program, and only a wait is for events.
Calling ==
  \A g \in G :
    /\ pc[g] = "user" => call[g] = NoCall
    /\ pc[g] # "user" => call[g].fd \in Fd
    /\ pc[g] \in {"open", "close", "drain", "count"} => call[g].events = {}

\* A descriptor has one reader and one writer at a time.
Waits == {"wait", "parked"}
OneEach ==
  \A g, h \in G :
    g # h /\ {pc[g], pc[h]} \subseteq Waits /\ call[g].fd = call[h].fd =>
      call[g].events \cap call[h].events = {}

\* Nobody else opens or closes an fd that is being opened; an fd whose completions
\* are drained is not active.
Changes == {"open", "close", "drain", "count"}
Exclusive ==
  \A g \in G :
    /\ pc[g] = "open" => \A h \in G \ {g} : pc[h] \in Changes => call[h].fd # call[g].fd
    /\ pc[g] \in {"drain", "count"} => ~active[call[g].fd]

\* The completions of an active slot are of its generation, whatever else the loop
\* has at their addresses.
Current ==
  \A f \in Fd, d \in Dir : active[f] =>
    /\ completion[f][d] # "blank" => ctx[f][d] = generation[f]
    /\ completion[f][d] = "active" => generation[f] \in requests[f][d]

\* A descriptor knows only Gs that are in run_poll_wait for that event.
Known ==
  \A f \in Fd, d \in Dir : waiter[f][d] # NULL =>
    LET g == waiter[f][d]
    IN  pc[g] \in {"parked", "queued", "returned"} /\ call[g].fd = f /\ d \in call[g].events

Structure == Types /\ Calling /\ OneEach /\ Exclusive /\ Current /\ Known

-----------------------------------------------------------------------------
(* What the actions have in common *)

\* Only g's place and call change.
Only(g, at) ==
  /\ pc' \in [G -> PC] /\ pc'[g] = at
  /\ call' \in [G -> [fd : Fd \cup {NULL}, events : SUBSET Dir]]
  /\ \A h \in G \ {g} : pc'[h] = pc[h] /\ call'[h] = call[h]

LEMMA EnterOnly ==
  ASSUME Types, NEW g \in G, NEW at \in PC, NEW f \in Fd, NEW evs \in SUBSET Dir,
         Enter(g, at, f, evs)
  PROVE  Only(g, at) /\ call'[g].fd = f /\ call'[g].events = evs
  BY DEF Types, Enter, Only

LEMMA ReturnOnly ==
  ASSUME Types, NEW g \in G, Return(g)
  PROVE  Only(g, "user") /\ call'[g] = NoCall
  BY DEF Types, Return, Only, NoCall, PC

LEMMA StayOnly ==
  ASSUME Types, NEW g \in G, NEW at \in PC, pc' = [pc EXCEPT ![g] = at], UNCHANGED call
  PROVE  Only(g, at) /\ call'[g] = call[g]
  BY DEF Types, Only

\* A G that has returned is in no call, and is no reader or writer.
LEMMA ReturnedCalls ==
  ASSUME Structure, NEW g \in G, Only(g, "user"), call'[g] = NoCall
  PROVE  Calling' /\ OneEach'
  <1>1. Calling'
    BY DEF Structure, Calling, Only
  <1>2. OneEach'
    <2>1. SUFFICES ASSUME NEW h \in G, NEW k \in G, h # k, {pc'[h], pc'[k]} \subseteq Waits,
                          call'[h].fd = call'[k].fd
                   PROVE  call'[h].events \cap call'[k].events = {}
      BY DEF OneEach
    <2>2. h # g /\ k # g
      BY <2>1 DEF Only, Waits
    <2>3. pc'[h] = pc[h] /\ call'[h] = call[h] /\ pc'[k] = pc[k] /\ call'[k] = call[k]
      BY <2>2 DEF Only
    <2> QED
      BY <2>1, <2>3 DEF Structure, OneEach
  <1> QED
    BY <1>1, <1>2

\* A G that enters a call, moves on in one or returns disturbs nothing while the
\* descriptors and slots stay.
LEMMA CallMoves ==
  ASSUME Structure, NEW g \in G, NEW at \in PC, Only(g, at), UNCHANGED <<waiter, slotVars>>,
         at = "user" => call'[g] = NoCall,
         at # "user" => call'[g].fd \in Fd,
         at \in {"open", "close", "drain", "count"} => call'[g].events = {},
         at \in Waits => \A h \in G \ {g} :
           pc[h] \in Waits /\ call'[g].fd = call[h].fd => call'[g].events \cap call[h].events = {},
         at = "open" => \A h \in G \ {g} : pc[h] \in Changes => call[h].fd # call'[g].fd,
         at \in Changes => \A h \in G \ {g} : pc[h] = "open" => call'[g].fd # call[h].fd,
         at \in {"drain", "count"} => ~active[call'[g].fd],
         \A f \in Fd, d \in Dir : waiter[f][d] = g =>
           at \in {"parked", "queued", "returned"} /\ call'[g] = call[g]
  PROVE  Structure'
  <1> USE DEF Only, slotVars
  <1>1. Types'
    BY DEF Structure, Types
  <1>2. Calling'
    BY DEF Structure, Calling
  <1>3. OneEach'
    BY DEF Structure, OneEach
  <1>4. Exclusive'
    BY DEF Structure, Exclusive
  <1>5. Current'
    BY DEF Structure, Current
  <1>6. Known'
    <2>1. ASSUME NEW f \in Fd, NEW d \in Dir, waiter[f][d] # NULL
          PROVE  /\ pc'[waiter[f][d]] \in {"parked", "queued", "returned"}
                 /\ call'[waiter[f][d]].fd = f /\ d \in call'[waiter[f][d]].events
      <3>1. waiter[f][d] \in G
        BY <2>1 DEF Structure, Types
      <3>2. /\ pc[waiter[f][d]] \in {"parked", "queued", "returned"}
            /\ call[waiter[f][d]].fd = f /\ d \in call[waiter[f][d]].events
        BY <2>1 DEF Structure, Known
      <3> QED
        BY <3>1, <3>2
    <2> QED
      BY <2>1 DEF Known
  <1> QED
    BY <1>1, <1>2, <1>3, <1>4, <1>5, <1>6 DEF Structure

\* Steps of the loop, the kernel and the other threads touch none of it.
LEMMA Untouched ==
  ASSUME Structure, UNCHANGED <<waiter, slotVars, pc, call>>
  PROVE  Structure'
  BY DEF Structure, Types, Calling, OneEach, Exclusive, Current, Known, slotVars

\* A G that is not in run_poll_wait is in no descriptor.
LEMMA NotKnown ==
  ASSUME Structure, NEW g \in G, pc[g] \notin {"parked", "queued", "returned"}
  PROVE  \A f \in Fd, d \in Dir : waiter[f][d] # g
  BY PollerAssumption DEF Structure, Known

-----------------------------------------------------------------------------
(* Every step keeps the structure *)

LEMMA OpenLoadKeeps ==
  ASSUME Structure, NEW g \in G, NEW f \in Fd, OpenLoad(g, f) PROVE Structure'
  <1>1. Only(g, "open") /\ call'[g].fd = f /\ call'[g].events = {}
    BY EnterOnly DEF OpenLoad, Structure, PC
  <1>2. \A e \in Fd, d \in Dir : waiter[e][d] # g
    BY NotKnown DEF OpenLoad
  <1> QED
    BY <1>1, <1>2, CallMoves DEF OpenLoad, PC, Waits, Changes

LEMMA WaitBeginKeeps ==
  ASSUME Structure, NEW g \in G, NEW f \in Fd, NEW evs \in Interest[f], WaitBegin(g, f, evs)
  PROVE  Structure'
  <1>0. evs \in SUBSET Dir
    BY PollerAssumption
  <1>1. Only(g, "wait") /\ call'[g].fd = f /\ call'[g].events = evs
    BY <1>0, EnterOnly DEF WaitBegin, Structure, PC
  <1>2. \A e \in Fd, d \in Dir : waiter[e][d] # g
    BY NotKnown DEF WaitBegin
  <1>3. \A h \in G \ {g} : pc[h] \in Waits /\ f = call[h].fd => evs \cap call[h].events = {}
    BY DEF WaitBegin, Waits
  <1> QED
    BY <1>1, <1>2, <1>3, CallMoves DEF WaitBegin, PC, Changes

LEMMA CloseBeginKeeps ==
  ASSUME Structure, NEW g \in G, NEW f \in Fd, CloseBegin(g, f) PROVE Structure'
  <1>1. Only(g, "close") /\ call'[g].fd = f /\ call'[g].events = {}
    BY EnterOnly DEF CloseBegin, Structure, PC
  <1>2. \A e \in Fd, d \in Dir : waiter[e][d] # g
    BY NotKnown DEF CloseBegin
  <1> QED
    BY <1>1, <1>2, CallMoves DEF CloseBegin, PC, Waits

\* Within a call the G keeps its fd and its events.
LEMMA StepKeeps ==
  ASSUME Structure, NEW g \in G, NEW at \in PC \ {"user", "open"}, Only(g, at),
         call'[g] = call[g], pc[g] \notin {"user", "open"}, UNCHANGED <<waiter, slotVars>>,
         at \in {"close", "drain", "count"} => pc[g] \in {"close", "drain", "count"},
         at \in Waits => pc[g] \in Waits,
         at \in {"drain", "count"} => ~active[call[g].fd],
         at \in {"parked", "queued", "returned"} \/ pc[g] \notin {"parked", "queued", "returned"}
  PROVE  Structure'
  <1>1. \A f \in Fd, d \in Dir : waiter[f][d] = g => at \in {"parked", "queued", "returned"}
    BY NotKnown
  <1>2. call[g].fd \in Fd
    BY DEF Structure, Calling
  <1>3. at \in Waits => \A h \in G \ {g} :
          pc[h] \in Waits /\ call[g].fd = call[h].fd => call[g].events \cap call[h].events = {}
    BY DEF Structure, OneEach
  <1>4. at \in Changes => \A h \in G \ {g} : pc[h] = "open" => call[g].fd # call[h].fd
    BY DEF Structure, Exclusive, Changes
  <1>5. at \in {"close", "drain", "count"} => call[g].events = {}
    BY DEF Structure, Calling
  <1> QED
    BY <1>1, <1>2, <1>3, <1>4, <1>5, CallMoves

LEMMA ResumeKeeps ==
  ASSUME Structure, NEW g \in G, Resume(g) PROVE Structure'
  <1>1. Only(g, "returned") /\ call'[g] = call[g]
    BY StayOnly DEF Resume, Structure, PC
  <1> QED
    BY <1>1, StepKeeps DEF Resume, PC, Waits

LEMMA DrainedKeeps ==
  ASSUME Structure, NEW g \in G, Drained(g) PROVE Structure'
  <1> DEFINE f == call[g].fd
  <1>1. f \in Fd /\ pc[g] = "drain" /\ ~active[f] /\ \A e \in Fd, d \in Dir : waiter[e][d] # g
    BY NotKnown DEF Drained, Structure, Calling, Exclusive
  <1>2. Only(g, "count") /\ call' = call
    BY StayOnly DEF Drained, Structure, PC
  <1>3. /\ completion' = [completion EXCEPT ![f] =
             [d \in Dir |-> IF completion[f][d] = "active" THEN "active" ELSE "blank"]]
        /\ ctx' = [ctx EXCEPT ![f] = [d \in Dir |-> 0]]
        /\ UNCHANGED <<waiter, generation, active, slot_g, requests>>
    BY DEF Drained
  <1> HIDE DEF f
  <1>4. Types'
    BY <1>1, <1>2, <1>3 DEF Structure, Types, Only
  <1>5. Calling' /\ OneEach' /\ Exclusive'
    <2>1. Calling'
      BY <1>1, <1>2 DEF Structure, Calling, Only
    <2>2. OneEach'
      BY <1>2 DEF Structure, OneEach, Only, Waits
    <2>3. Exclusive'
      <3>1. \A h \in G \ {g} : pc[h] = "open" => call[h].fd # f
        BY <1>1 DEF Structure, Exclusive, Changes, f
      <3> QED
        BY <1>1, <1>2, <1>3, <3>1 DEF Structure, Exclusive, Only, Changes, f
    <2> QED
      BY <2>1, <2>2, <2>3
  <1>6. Current'
    <2>1. \A e \in Fd : active[e] => completion'[e] = completion[e] /\ ctx'[e] = ctx[e]
      BY <1>1, <1>3 DEF Structure, Types
    <2>2. UNCHANGED <<generation, active, requests>>
      BY <1>3
    <2> QED
      BY <2>1, <2>2 DEF Structure, Current
  <1>7. Known'
    <2>1. ASSUME NEW e \in Fd, NEW d \in Dir, waiter[e][d] # NULL
          PROVE  pc'[waiter[e][d]] = pc[waiter[e][d]]
      BY <1>1, <1>2, <2>1 DEF Structure, Types, Only
    <2> QED
      BY <1>2, <1>3, <2>1 DEF Structure, Known
  <1> QED
    BY <1>4, <1>5, <1>6, <1>7 DEF Structure

LEMMA CloseDoneKeeps ==
  ASSUME Structure, NEW g \in G, CloseDone(g) PROVE Structure'
  <1>1. Only(g, "user") /\ call'[g] = NoCall
    BY ReturnOnly DEF CloseDone, Structure
  <1>2. \A f \in Fd, d \in Dir : waiter[f][d] # g
    BY NotKnown DEF CloseDone
  <1>3. \A h \in G : pc[h] = "open" => call[h].fd \in Fd
    BY DEF Structure, Calling
  <1>4. call'[g].fd = NULL /\ call'[g].events = {}
    BY <1>1 DEF NoCall
  <1> QED
    BY <1>1, <1>2, <1>3, <1>4, CallMoves, PollerAssumption DEF CloseDone, PC, Waits, Changes

LEMMA OpenStoreKeeps ==
  ASSUME Structure, NEW g \in G, OpenStore(g) PROVE Structure'
  <1> DEFINE f == call[g].fd
  <1>1. /\ f \in Fd /\ pc[g] = "open" /\ \A h \in G \ {g} : pc[h] \in Changes => call[h].fd # f
        /\ \A e \in Fd, d \in Dir : waiter[e][d] # g
    BY NotKnown DEF OpenStore, Structure, Calling, Exclusive
  <1>2. Only(g, "user") /\ call'[g] = NoCall
    BY ReturnOnly DEF OpenStore, Structure
  <1>3. /\ generation' = [generation EXCEPT ![f] = @ + 1]
        /\ active' = [active EXCEPT ![f] = TRUE]
        /\ slot_g' = [slot_g EXCEPT ![f] = [d \in Dir |-> NULL]]
        /\ completion' = [completion EXCEPT ![f] = [d \in Dir |-> "blank"]]
        /\ ctx' = [ctx EXCEPT ![f] = [d \in Dir |-> 0]]
        /\ UNCHANGED <<waiter, requests>>
    BY DEF OpenStore
  <1> HIDE DEF f
  <1>4. Types'
    BY <1>1, <1>2, <1>3 DEF Structure, Types, Only
  <1>5. Calling' /\ OneEach'
    BY <1>2, ReturnedCalls
  <1>6. Exclusive'
    <2>1. ASSUME NEW h \in G \ {g}, pc[h] \in Changes
          PROVE  call[h].fd \in Fd \ {f} /\ active'[call[h].fd] = active[call[h].fd]
      <3>1. call[h].fd \in Fd \ {f}
        BY <1>1, <2>1 DEF Structure, Calling, Changes
      <3>2. active'[call[h].fd] = active[call[h].fd]
        BY <1>1, <1>3, <3>1 DEF Structure, Types
      <3> QED
        BY <3>1, <3>2
    <2> QED
      BY <1>2, <2>1 DEF Structure, Exclusive, Only, Changes
  <1>7. Current'
    BY <1>1, <1>3 DEF Structure, Types, Current
  <1>8. Known'
    <2>1. ASSUME NEW e \in Fd, NEW d \in Dir, waiter'[e][d] # NULL
          PROVE  /\ pc'[waiter'[e][d]] \in {"parked", "queued", "returned"}
                 /\ call'[waiter'[e][d]].fd = e /\ d \in call'[waiter'[e][d]].events
      <3>1. waiter[e][d] \in G \ {g} /\ waiter'[e][d] = waiter[e][d]
        BY <1>1, <1>3, <2>1 DEF Structure, Types
      <3> QED
        BY <1>2, <2>1, <3>1 DEF Structure, Known, Only
    <2> QED
      BY <2>1 DEF Known
  <1> QED
    BY <1>4, <1>5, <1>6, <1>7, <1>8 DEF Structure

LEMMA WaitRegisterKeeps ==
  ASSUME Structure, NEW g \in G, WaitRegister(g) PROVE Structure'
  <1> DEFINE f == call[g].fd
             evs == call[g].events
             new == {d \in evs : completion[f][d] # "active"}
  <1>1. f \in Fd /\ pc[g] = "wait" /\ \A e \in Fd, d \in Dir : waiter[e][d] # g
    BY NotKnown DEF WaitRegister, Structure, Calling
  <1>2. Only(g, "parked") /\ call'[g] = call[g]
    BY StayOnly DEF WaitRegister, Structure, PC
  <1>3. /\ waiter' = [waiter EXCEPT ![f] = [d \in Dir |-> IF d \in evs THEN g ELSE @[d]]]
        /\ UNCHANGED <<generation, active>>
    BY DEF WaitRegister
  <1>4. \/ slot_g' = [slot_g EXCEPT ![f] = [d \in Dir |-> IF d \in evs THEN g ELSE slot_g[f][d]]]
        \/ slot_g' = slot_g
    BY DEF WaitRegister
  <1>9. \/ /\ completion' = [completion EXCEPT ![f] =
                [d \in Dir |-> IF d \in new THEN "active" ELSE completion[f][d]]]
           /\ ctx' = [ctx EXCEPT ![f] =
                [d \in Dir |-> IF d \in new THEN generation[f] ELSE ctx[f][d]]]
           /\ requests' = [requests EXCEPT ![f] =
                [d \in Dir |-> IF d \in new THEN requests[f][d] \cup {generation[f]}
                               ELSE requests[f][d]]]
        \/ UNCHANGED <<completion, ctx, requests>>
    BY DEF WaitRegister
  <1> HIDE DEF f, evs, new
  <1>5. Types'
    <2>1. slot_g' \in [Fd -> [Dir -> G \cup {NULL}]]
      <3>1. slot_g \in [Fd -> [Dir -> G \cup {NULL}]]
        BY DEF Structure, Types
      <3>2. [d \in Dir |-> IF d \in evs THEN g ELSE slot_g[f][d]] \in [Dir -> G \cup {NULL}]
        BY <1>1, <3>1
      <3> QED
        BY <1>1, <1>4, <3>1, <3>2
    <2>2. /\ completion' \in [Fd -> [Dir -> {"blank", "active", "retired"}]]
          /\ ctx' \in [Fd -> [Dir -> Nat]] /\ requests' \in [Fd -> [Dir -> SUBSET Nat]]
      <3>1. /\ completion \in [Fd -> [Dir -> {"blank", "active", "retired"}]]
            /\ ctx \in [Fd -> [Dir -> Nat]] /\ requests \in [Fd -> [Dir -> SUBSET Nat]]
            /\ generation[f] \in Nat
        BY <1>1 DEF Structure, Types
      <3>2. /\ [d \in Dir |-> IF d \in new THEN "active" ELSE completion[f][d]]
                 \in [Dir -> {"blank", "active", "retired"}]
            /\ [d \in Dir |-> IF d \in new THEN generation[f] ELSE ctx[f][d]] \in [Dir -> Nat]
            /\ [d \in Dir |-> IF d \in new THEN requests[f][d] \cup {generation[f]}
                              ELSE requests[f][d]] \in [Dir -> SUBSET Nat]
        BY <1>1, <3>1
      <3>3. completion' \in [Fd -> [Dir -> {"blank", "active", "retired"}]]
        BY <1>9, <3>1, <3>2
      <3>4. ctx' \in [Fd -> [Dir -> Nat]]
        BY <1>9, <3>1, <3>2
      <3>5. requests' \in [Fd -> [Dir -> SUBSET Nat]]
        BY <1>9, <3>1, <3>2
      <3> QED
        BY <3>3, <3>4, <3>5
    <2>3. waiter' \in [Fd -> [Dir -> G \cup {NULL}]]
      BY <1>1, <1>3 DEF Structure, Types
    <2> QED
      BY <1>2, <1>3, <2>1, <2>2, <2>3 DEF Structure, Types, Only
  <1>6. Calling' /\ OneEach' /\ Exclusive'
    <2>1. \A h \in G : call'[h] = call[h]
      BY <1>2 DEF Only
    <2>2. Calling'
      BY <1>1, <1>2, <2>1 DEF Structure, Calling, Only
    <2>3. OneEach'
      BY <1>1, <1>2, <2>1 DEF Structure, OneEach, Only, Waits
    <2>4. Exclusive'
      BY <1>1, <1>2, <1>3, <2>1 DEF Structure, Exclusive, Only, Changes
    <2> QED
      BY <2>2, <2>3, <2>4
  <1>7. Current'
    <2>1. ASSUME NEW e \in Fd, NEW d \in Dir
          PROVE  \/ /\ completion'[e][d] = completion[e][d] /\ ctx'[e][d] = ctx[e][d]
                    /\ requests'[e][d] = requests[e][d]
                 \/ ctx'[e][d] = generation[e] /\ generation[e] \in requests'[e][d]
      <3>1. /\ completion \in [Fd -> [Dir -> {"blank", "active", "retired"}]]
            /\ ctx \in [Fd -> [Dir -> Nat]] /\ requests \in [Fd -> [Dir -> SUBSET Nat]]
        BY DEF Structure, Types
      <3>2. CASE e = f /\ d \in new
        BY <1>1, <1>9, <3>1, <3>2
      <3>3. CASE ~(e = f /\ d \in new)
        BY <1>1, <1>9, <3>1, <3>3
      <3> QED
        BY <3>2, <3>3
    <2> QED
      BY <1>3, <2>1 DEF Structure, Current
  <1>8. Known'
    <2>1. ASSUME NEW e \in Fd, NEW d \in Dir, waiter'[e][d] # NULL
          PROVE  /\ pc'[waiter'[e][d]] \in {"parked", "queued", "returned"}
                 /\ call'[waiter'[e][d]].fd = e /\ d \in call'[waiter'[e][d]].events
      <3>1. CASE e = f /\ d \in evs
        <4>1. waiter'[e][d] = g
          BY <1>1, <1>3, <3>1 DEF Structure, Types
        <4> QED
          BY <1>2, <3>1, <4>1 DEF Only, f, evs
      <3>2. CASE ~(e = f /\ d \in evs)
        <4>1. waiter'[e][d] = waiter[e][d] /\ waiter[e][d] \in G \ {g}
          BY <1>1, <1>3, <2>1, <3>2 DEF Structure, Types
        <4> QED
          BY <1>2, <2>1, <4>1 DEF Structure, Known, Only
      <3> QED
        BY <3>1, <3>2
    <2> QED
      BY <2>1 DEF Known
  <1> QED
    BY <1>5, <1>6, <1>7, <1>8 DEF Structure

LEMMA WaitDoneKeeps ==
  ASSUME Structure, NEW g \in G, WaitDone(g) PROVE Structure'
  <1> DEFINE f == call[g].fd
  <1>1. f \in Fd /\ pc[g] = "returned"
    BY DEF WaitDone, Structure, Calling
  <1>2. Only(g, "user") /\ call'[g] = NoCall
    BY ReturnOnly DEF WaitDone, Structure
  <1>3. /\ waiter' = [waiter EXCEPT ![f] =
             [d \in Dir |-> IF d \in call[g].events /\ @[d] = g THEN NULL ELSE @[d]]]
        /\ UNCHANGED slotVars
    BY DEF WaitDone
  <1> HIDE DEF f
  <1>4. Types'
    BY <1>1, <1>2, <1>3 DEF Structure, Types, Only, slotVars
  <1>5. Calling' /\ OneEach'
    BY <1>2, ReturnedCalls
  <1>6. Exclusive'
    BY <1>2, <1>3 DEF Structure, Exclusive, Only, slotVars, Changes
  <1>7. Current'
    BY <1>3 DEF Structure, Current, slotVars
  <1>8. Known'
    <2>1. ASSUME NEW e \in Fd, NEW d \in Dir, waiter'[e][d] # NULL
          PROVE  /\ pc'[waiter'[e][d]] \in {"parked", "queued", "returned"}
                 /\ call'[waiter'[e][d]].fd = e /\ d \in call'[waiter'[e][d]].events
      <3>1. waiter'[e][d] = waiter[e][d]
        BY <1>1, <1>3, <2>1 DEF Structure, Types
      <3>2. waiter[e][d] # g
        <4>1. SUFFICES ASSUME waiter[e][d] = g PROVE FALSE
          OBVIOUS
        <4>2. e = f /\ d \in call[g].events
          BY <2>1, <3>1, <4>1 DEF Structure, Known, f
        <4>3. waiter'[e][d] = NULL
          BY <1>1, <1>3, <4>1, <4>2 DEF Structure, Types
        <4> QED
          BY <2>1, <4>3
      <3>3. waiter[e][d] \in G \ {g}
        BY <2>1, <3>1, <3>2 DEF Structure, Types
      <3> QED
        BY <1>2, <2>1, <3>1, <3>3 DEF Structure, Known, Only
    <2> QED
      BY <2>1 DEF Known
  <1> QED
    BY <1>4, <1>5, <1>6, <1>7, <1>8 DEF Structure

LEMMA CloseKeeps ==
  ASSUME Structure, NEW g \in G, Close(g) PROVE Structure'
  <1> DEFINE f == call[g].fd
             gs == {waiter[f][d] : d \in Dir} \ {NULL}
  <1>1. f \in Fd /\ pc[g] = "close" /\ call[g].events = {}
    BY DEF Close, Structure, Calling
  <1>2. /\ waiter' = [waiter EXCEPT ![f] = [d \in Dir |-> NULL]]
        /\ pc' = [h \in G |-> IF h = g THEN IF active[f] THEN "drain" ELSE "user"
                              ELSE IF h \in gs THEN "queued" ELSE pc[h]]
    BY DEF Close, CloseWake
  <1>3. \/ /\ active[f] /\ active' = [active EXCEPT ![f] = FALSE]
           /\ generation' = [generation EXCEPT ![f] = @ + 1]
           /\ slot_g' = [slot_g EXCEPT ![f] = [d \in Dir |-> NULL]]
           /\ UNCHANGED <<call, completion, ctx, requests>>
        \/ /\ ~active[f] /\ call' = [call EXCEPT ![g] = NoCall]
           /\ UNCHANGED <<active, generation, slot_g, completion, ctx, requests>>
    BY DEF Close
  <1>4. \A h \in gs : pc[h] \in {"parked", "queued", "returned"} /\ h # g
    BY <1>1 DEF Structure, Known
  <1> HIDE DEF f, gs
  <1>5. /\ pc'[g] = IF active[f] THEN "drain" ELSE "user"
        /\ \A h \in G \ {g} :
             \/ pc'[h] = pc[h]
             \/ pc'[h] = "queued" /\ pc[h] \in {"parked", "queued", "returned"}
    <2>1. pc'[g] = IF active[f] THEN "drain" ELSE "user"
      BY <1>2
    <2>2. ASSUME NEW h \in G \ {g}
          PROVE  \/ pc'[h] = pc[h]
                 \/ pc'[h] = "queued" /\ pc[h] \in {"parked", "queued", "returned"}
      <3>1. pc'[h] = IF h \in gs THEN "queued" ELSE pc[h]
        BY <1>2
      <3>2. CASE h \in gs
        BY <1>4, <3>1, <3>2, Zenon
      <3>3. CASE h \notin gs
        BY <3>1, <3>3
      <3> QED
        BY <3>2, <3>3
    <2> QED
      BY <2>1, <2>2
  <1>6. /\ call'[g] = IF active[f] THEN call[g] ELSE NoCall
        /\ \A h \in G \ {g} : call'[h] = call[h]
    BY <1>3 DEF Structure, Types
  <1>7. /\ ~active'[f]
        /\ \A e \in Fd \ {f} : active'[e] = active[e] /\ generation'[e] = generation[e]
        /\ UNCHANGED <<completion, ctx, requests>>
    BY <1>1, <1>3 DEF Structure, Types
  <1>8. Types'
    <2>1. pc' \in [G -> PC]
      <3>1. pc \in [G -> PC]
        BY DEF Structure, Types
      <3> QED
        BY <1>2, <3>1 DEF PC
    <2>2. call' \in [G -> [fd : Fd \cup {NULL}, events : SUBSET Dir]]
      <3>1. call \in [G -> [fd : Fd \cup {NULL}, events : SUBSET Dir]]
        BY DEF Structure, Types
      <3>2. NoCall \in [fd : Fd \cup {NULL}, events : SUBSET Dir]
        BY DEF NoCall
      <3>3. call' = call \/ call' = [call EXCEPT ![g] = NoCall]
        BY <1>3
      <3> QED
        BY <3>1, <3>2, <3>3
    <2>3. waiter' \in [Fd -> [Dir -> G \cup {NULL}]] /\ slot_g' \in [Fd -> [Dir -> G \cup {NULL}]]
      <3>1. slot_g' = slot_g \/ slot_g' = [slot_g EXCEPT ![f] = [d \in Dir |-> NULL]]
        BY <1>3
      <3>2. waiter \in [Fd -> [Dir -> G \cup {NULL}]] /\ slot_g \in [Fd -> [Dir -> G \cup {NULL}]]
        BY DEF Structure, Types
      <3> QED
        BY <1>1, <1>2, <3>1, <3>2
    <2>4. /\ generation' \in [Fd -> Nat] /\ active' \in [Fd -> BOOLEAN]
      <3>1. generation' = generation \/ generation' = [generation EXCEPT ![f] = generation[f] + 1]
        BY <1>3
      <3>2. active' = active \/ active' = [active EXCEPT ![f] = FALSE]
        BY <1>3
      <3>3. /\ generation \in [Fd -> Nat] /\ active \in [Fd -> BOOLEAN]
        BY DEF Structure, Types
      <3>4. generation[f] + 1 \in Nat /\ generation' \in [Fd -> Nat]
        BY <1>1, <3>1, <3>3
      <3>5. active' \in [Fd -> BOOLEAN]
        BY <3>2, <3>3
      <3> QED
        BY <3>4, <3>5
    <2> QED
      BY <1>7, <2>1, <2>2, <2>3, <2>4 DEF Structure, Types
  <1>9. NoCall.fd = NULL /\ NoCall.events = {}
    BY DEF NoCall
  <1>10. Calling'
    <2>1. ASSUME NEW h \in G \ {g}
          PROVE  /\ pc'[h] = "user" => call'[h] = NoCall
                 /\ pc'[h] # "user" => call'[h].fd \in Fd
                 /\ pc'[h] \in {"open", "close", "drain", "count"} => call'[h].events = {}
      BY <1>5, <1>6 DEF Structure, Calling
    <2>2. /\ pc'[g] = "user" => call'[g] = NoCall
          /\ pc'[g] # "user" => call'[g].fd \in Fd
          /\ pc'[g] \in {"open", "close", "drain", "count"} => call'[g].events = {}
      BY <1>1, <1>5, <1>6 DEF f
    <2> QED
      BY <2>1, <2>2 DEF Calling
  <1>11. OneEach'
    <2>1. pc'[g] \notin Waits /\ \A h \in G \ {g} : pc'[h] \in Waits => pc[h] = pc'[h]
      BY <1>5 DEF Waits
    <2> QED
      BY <1>6, <2>1 DEF Structure, OneEach
  <1>12. Exclusive'
    <2>1. ASSUME NEW h \in G \ {g}, pc'[h] = "open", NEW i \in G \ {h}, pc'[i] \in Changes
          PROVE  call'[i].fd # call'[h].fd
      <3>1. pc[h] = "open" /\ call'[h] = call[h]
        BY <1>5, <1>6, <2>1
      <3>2. pc[i] \in Changes
        BY <1>1, <1>5, <2>1 DEF Changes
      <3>3. call[i].fd # call[h].fd
        BY <3>1, <3>2 DEF Structure, Exclusive
      <3>4. call'[i] = call[i]
        BY <1>5, <1>6, <2>1 DEF Changes
      <3> QED
        BY <3>1, <3>3, <3>4
    <2>2. ASSUME NEW h \in G, pc'[h] \in {"drain", "count"}
          PROVE  ~active'[call'[h].fd]
      <3>1. CASE h = g
        BY <1>5, <1>6, <1>7, <2>2, <3>1 DEF f
      <3>2. CASE h # g
        <4>1. pc[h] = pc'[h] /\ call'[h] = call[h] /\ call[h].fd \in Fd
          BY <1>5, <1>6, <2>2, <3>2 DEF Structure, Calling
        <4>2. ~active[call[h].fd]
          BY <2>2, <4>1 DEF Structure, Exclusive
        <4> QED
          BY <1>7, <4>1, <4>2
      <3> QED
        BY <3>1, <3>2
    <2>3. pc'[g] # "open"
      BY <1>5
    <2> QED
      BY <2>1, <2>2, <2>3 DEF Exclusive
  <1>13. Current'
    BY <1>7 DEF Structure, Current
  <1>14. Known'
    <2>1. ASSUME NEW e \in Fd, NEW d \in Dir, waiter'[e][d] # NULL
          PROVE  /\ pc'[waiter'[e][d]] \in {"parked", "queued", "returned"}
                 /\ call'[waiter'[e][d]].fd = e /\ d \in call'[waiter'[e][d]].events
      <3>1. waiter'[e][d] = waiter[e][d]
        BY <1>1, <1>2, <2>1 DEF Structure, Types
      <3>2. waiter[e][d] \in G \ {g}
        <4>1. waiter[e][d] # g
          BY <1>1, NotKnown
        <4> QED
          BY <2>1, <3>1, <4>1 DEF Structure, Types
      <3>3. /\ pc[waiter[e][d]] \in {"parked", "queued", "returned"}
            /\ call[waiter[e][d]].fd = e /\ d \in call[waiter[e][d]].events
        BY <2>1, <3>1 DEF Structure, Known
      <3> QED
        BY <1>5, <1>6, <3>1, <3>2, <3>3
    <2> QED
      BY <2>1 DEF Known
  <1> QED
    BY <1>8, <1>10, <1>11, <1>12, <1>13, <1>14 DEF Structure

\* An event readies some Gs and clears their slot, or retires a completion whose
\* slot is inactive.
LEMMA LoopEventDoes ==
  ASSUME Structure, NEW f \in Fd, NEW d \in Dir, NEW k \in requests[f][d],
         NEW error \in BOOLEAN, LoopEvent(f, d, k, error)
  PROVE  \/ /\ \E evs \in SUBSET Dir : FdReady(f, evs) /\ (evs = Dir \/ evs = {d})
            /\ UNCHANGED <<completion, requests>>
         \/ /\ ~active[f]
            /\ completion' = [completion EXCEPT ![f][d] = "retired"]
            /\ requests' = [requests EXCEPT ![f][d] = @ \ {k}]
            /\ UNCHANGED <<pc, fired, slot_g, fate>>
         \/ fate' = "reset completion" /\ UNCHANGED <<completion, requests, pc, fired, slot_g>>
  BY DEF LoopEvent, Structure, Current

LEMMA LoopEventKeeps ==
  ASSUME Structure, NEW f \in Fd, NEW d \in Dir, NEW k \in requests[f][d],
         NEW error \in BOOLEAN, LoopEvent(f, d, k, error)
  PROVE  Structure'
  <1>1. UNCHANGED <<waiter, generation, active, ctx, call>>
    BY DEF LoopEvent
  <1>2. CASE \E evs \in SUBSET Dir : FdReady(f, evs) /\ UNCHANGED <<completion, requests>>
    <2>0. PICK evs \in SUBSET Dir : FdReady(f, evs)
      BY <1>2
    <2>1. /\ pc' \in [G -> PC]
          /\ \A h \in G : pc'[h] = pc[h] \/ (pc[h] = "parked" /\ pc'[h] = "queued")
      <3> DEFINE gs == {slot_g[f][c] : c \in evs} \ {NULL}
      <3>1. pc' = [h \in G |-> IF h \in gs /\ pc[h] = "parked" THEN "queued" ELSE pc[h]]
        BY <2>0 DEF FdReady
      <3>2. pc \in [G -> PC]
        BY DEF Structure, Types
      <3> HIDE DEF gs
      <3> QED
        BY <3>1, <3>2 DEF PC
    <2>2. slot_g' \in [Fd -> [Dir -> G \cup {NULL}]]
      <3>1. slot_g' = [slot_g EXCEPT ![f] = [c \in Dir |-> IF c \in evs THEN NULL
                                                           ELSE slot_g[f][c]]]
        BY <2>0 DEF FdReady
      <3>2. slot_g \in [Fd -> [Dir -> G \cup {NULL}]]
        BY DEF Structure, Types
      <3> QED
        BY <3>1, <3>2
    <2>3. Types'
      BY <1>1, <1>2, <2>1, <2>2 DEF Structure, Types
    <2>4. Calling' /\ OneEach' /\ Exclusive'
      BY <1>1, <2>1 DEF Structure, Calling, OneEach, Exclusive, Waits, Changes
    <2>5. Current'
      BY <1>1, <1>2 DEF Structure, Current
    <2>6. Known'
      <3>1. ASSUME NEW e \in Fd, NEW c \in Dir, waiter[e][c] # NULL
            PROVE  pc'[waiter[e][c]] \in {"parked", "queued", "returned"}
        BY <2>1, <3>1 DEF Structure, Types, Known
      <3> QED
        BY <1>1, <3>1 DEF Structure, Known
    <2> QED
      BY <2>3, <2>4, <2>5, <2>6 DEF Structure
  <1>3. CASE /\ ~active[f] /\ completion' = [completion EXCEPT ![f][d] = "retired"]
             /\ requests' = [requests EXCEPT ![f][d] = @ \ {k}] /\ UNCHANGED <<pc, slot_g>>
    <2>1. Types'
      BY <1>1, <1>3 DEF Structure, Types
    <2>2. Current'
      BY <1>1, <1>3 DEF Structure, Types, Current
    <2> QED
      BY <1>1, <1>3, <2>1, <2>2 DEF Structure, Calling, OneEach, Exclusive, Known
  <1>4. CASE UNCHANGED <<completion, requests, pc, slot_g>>
    BY <1>1, <1>4, Untouched DEF slotVars
  <1> QED
    BY <1>2, <1>3, <1>4, LoopEventDoes

THEOREM StructureAlways == Spec => []Structure
  <1>1. Init => Structure
    <2> SUFFICES ASSUME Init PROVE Structure
      OBVIOUS
    <2>1. Types
      BY DEF Init, Types, PC, NoCall
    <2> QED
      BY <2>1 DEF Init, Structure, Calling, OneEach, Exclusive, Current, Known, NoCall
  <1>2. ASSUME Structure, [Next]_vars PROVE Structure'
    <2>1. ASSUME NEW g \in G, Calls(g) PROVE Structure'
      BY <1>2, <2>1, OpenLoadKeeps, WaitBeginKeeps, CloseBeginKeeps DEF Calls
    <2>2. ASSUME NEW g \in G, Continues(g) PROVE Structure'
      BY <1>2, <2>2, OpenStoreKeeps, WaitRegisterKeeps, ResumeKeeps, WaitDoneKeeps, CloseKeeps,
         DrainedKeeps, CloseDoneKeeps DEF Continues
    <2>3. ASSUME NEW f \in Fd, NEW d \in Dir, Reports(f, d) PROVE Structure'
      BY <1>2, <2>3, LoopEventKeeps DEF Reports
    <2>4. ASSUME \/ \E f \in Fd, d \in Dir : BecomesReady(f, d) \/ Consume(f, d)
                 \/ Polls \/ Wakeup
                 \/ \E kind \in {"to_tick", "to_block"} : PollBegin(kind)
                 \/ UNCHANGED vars
          PROVE  Structure'
      BY <1>2, <2>4, Untouched
         DEF BecomesReady, Consume, Polls, Tick, TickBlocking, PollEnd, LoopAsync, Wakeup,
             PollBegin, vars
    <2> QED
      BY <1>2, <2>1, <2>2, <2>3, <2>4 DEF Next
  <1> QED
    BY <1>1, <1>2, PTL DEF Spec

-----------------------------------------------------------------------------
(* A G that waits is served *)

\* The slot's completion for event d of f is a request of the present generation.
Served(f, d) ==
  /\ completion[f][d] = "active" /\ ctx[f][d] = generation[f]
  /\ generation[f] \in requests[f][d]

\* The calls and the steps within them that leave the descriptors and the slots.
LEMMA CallerMoves ==
  ASSUME Structure, NEW g \in G, Calls(g) \/ Resume(g) \/ CloseDone(g)
  PROVE  /\ \E at \in PC \ {"parked"} : Only(g, at)
         /\ pc[g] # "parked" /\ UNCHANGED <<waiter, slotVars, fate>> /\ (both => both')
  <1>1. ASSUME NEW f \in Fd, OpenLoad(g, f)
        PROVE  Only(g, "open") /\ pc[g] # "parked" /\ UNCHANGED <<waiter, slotVars, both, fate>>
    BY <1>1, EnterOnly DEF OpenLoad, Structure, PC
  <1>2. ASSUME NEW f \in Fd, NEW evs \in Interest[f], WaitBegin(g, f, evs)
        PROVE  /\ Only(g, "wait") /\ pc[g] # "parked"
               /\ UNCHANGED <<waiter, slotVars, fate>> /\ (both => both')
    BY <1>2, EnterOnly, PollerAssumption DEF WaitBegin, Structure, PC
  <1>3. ASSUME NEW f \in Fd, CloseBegin(g, f)
        PROVE  Only(g, "close") /\ pc[g] # "parked" /\ UNCHANGED <<waiter, slotVars, both, fate>>
    BY <1>3, EnterOnly DEF CloseBegin, Structure, PC
  <1>4. CASE Resume(g)
    BY <1>4, StayOnly DEF Resume, Structure, PC
  <1>5. CASE CloseDone(g)
    BY <1>5, ReturnOnly DEF CloseDone, Structure, PC
  <1> QED
    BY <1>1, <1>2, <1>3, <1>4, <1>5 DEF Calls, PC

\* A G that does not come to wait for an event waited for it before.
LEMMA WaitersOnly ==
  ASSUME Structure, NEW g \in G, NEW at \in PC \ {"parked"}, Only(g, at)
  PROVE  \A h \in G, f \in Fd, d \in Dir : WaitsFor(h, f, d)' => WaitsFor(h, f, d) /\ h # g
  BY DEF Only, WaitsFor

\* Where the descriptors and slots stay, the Gs that waited before are served.
LEMMA ServedStays ==
  ASSUME WaiterServed, fate = "ok", UNCHANGED <<waiter, slotVars>>,
         \A h \in G, f \in Fd, d \in Dir : WaitsFor(h, f, d)' => WaitsFor(h, f, d)
  PROVE  WaiterServed'
  BY DEF WaiterServed, slotVars

LEMMA WaitRegisterServes ==
  ASSUME Structure, WaiterServed, fate = "ok", NEW g \in G, WaitRegister(g) PROVE WaiterServed'
  <1> DEFINE f == call[g].fd
             evs == call[g].events
             new == {d \in evs : completion[f][d] # "active"}
  <1>1. f \in Fd /\ evs \in SUBSET Dir
    BY DEF WaitRegister, Structure, Calling, Types
  <1>2. Only(g, "parked") /\ call'[g] = call[g]
    BY StayOnly DEF WaitRegister, Structure, PC
  <1>3. SUFFICES ASSUME fate' = "ok", NEW h \in G, NEW e \in Fd, NEW d \in Dir, WaitsFor(h, e, d)'
                 PROVE  /\ active'[e] /\ waiter'[e][d] = h /\ slot_g'[e][d] = h
                        /\ Served(e, d)'
    BY DEF WaiterServed, Served
  <1>4. /\ active[f] /\ UNCHANGED <<generation, active>>
        /\ waiter' = [waiter EXCEPT ![f] = [c \in Dir |-> IF c \in evs THEN g ELSE waiter[f][c]]]
        /\ slot_g' = [slot_g EXCEPT ![f] = [c \in Dir |-> IF c \in evs THEN g ELSE slot_g[f][c]]]
        /\ completion' = [completion EXCEPT ![f] =
             [c \in Dir |-> IF c \in new THEN "active" ELSE completion[f][c]]]
        /\ ctx' = [ctx EXCEPT ![f] =
             [c \in Dir |-> IF c \in new THEN generation[f] ELSE ctx[f][c]]]
        /\ requests' = [requests EXCEPT ![f] =
             [c \in Dir |-> IF c \in new THEN requests[f][c] \cup {generation[f]}
                            ELSE requests[f][c]]]
    BY <1>3 DEF WaitRegister
  <1>0. \A c \in evs : c \in new \/ Served(f, c)
    BY <1>1, <1>4 DEF Structure, Types, Current, Served
  <1>7. new \subseteq evs
    OBVIOUS
  <1> HIDE DEF f, evs, new
  <1>5. CASE h = g
    <2>1. e = f /\ d \in evs
      BY <1>2, <1>3, <1>5 DEF WaitsFor, f, evs
    <2>2. waiter'[e][d] = g /\ slot_g'[e][d] = g
      BY <1>1, <1>4, <2>1 DEF Structure, Types
    <2>3. Served(e, d)'
      BY <1>0, <1>1, <1>4, <2>1 DEF Structure, Types, Served
    <2> QED
      BY <1>4, <1>5, <2>1, <2>2, <2>3
  <1>6. CASE h # g
    <2>1. WaitsFor(h, e, d)
      BY <1>2, <1>3, <1>6 DEF WaitsFor, Only
    <2>2. /\ active[e] /\ waiter[e][d] = h /\ slot_g[e][d] = h
          /\ Served(e, d)
      BY <2>1 DEF WaiterServed, Served
    <2>3. ~(e = f /\ d \in evs)
      BY <1>6, <2>1 DEF WaitsFor, WaitRegister, Structure, OneEach, Waits, f, evs
    <2>4. waiter'[e][d] = waiter[e][d] /\ slot_g'[e][d] = slot_g[e][d]
      BY <1>1, <1>4, <2>3 DEF Structure, Types
    <2>5. /\ completion'[e][d] = completion[e][d] /\ ctx'[e][d] = ctx[e][d]
          /\ requests'[e][d] = requests[e][d]
      BY <1>1, <1>4, <1>7, <2>3 DEF Structure, Types
    <2> QED
      BY <1>4, <2>2, <2>4, <2>5 DEF Served
  <1> QED
    BY <1>5, <1>6

LEMMA WaitDoneServes ==
  ASSUME Structure, WaiterServed, fate = "ok", NEW g \in G, WaitDone(g) PROVE WaiterServed'
  <1>1. Only(g, "user")
    BY ReturnOnly DEF WaitDone, Structure
  <1>2. SUFFICES ASSUME NEW h \in G, NEW e \in Fd, NEW d \in Dir, WaitsFor(h, e, d)'
                 PROVE  /\ active'[e] /\ waiter'[e][d] = h /\ slot_g'[e][d] = h
                        /\ Served(e, d)'
    BY DEF WaiterServed, Served
  <1>3. WaitsFor(h, e, d) /\ h # g
    BY <1>1, <1>2, WaitersOnly DEF PC
  <1>4. /\ active[e] /\ waiter[e][d] = h /\ slot_g[e][d] = h /\ Served(e, d)
        /\ UNCHANGED slotVars
    BY <1>3 DEF WaiterServed, WaitDone, Served
  <1>5. waiter'[e][d] = waiter[e][d]
    <2>1. waiter' = [waiter EXCEPT ![call[g].fd] =
             [c \in Dir |-> IF c \in call[g].events /\ waiter[call[g].fd][c] = g THEN NULL
                            ELSE waiter[call[g].fd][c]]]
      BY DEF WaitDone
    <2>2. waiter \in [Fd -> [Dir -> G \cup {NULL}]]
      BY DEF Structure, Types
    <2> QED
      BY <1>3, <1>4, <2>1, <2>2
  <1> QED
    BY <1>4, <1>5 DEF slotVars, Served

LEMMA OpenStoreServes ==
  ASSUME Structure, WaiterServed, fate = "ok", NEW g \in G, OpenStore(g) PROVE WaiterServed'
  <1>1. Only(g, "user") /\ call[g].fd \in Fd
    BY ReturnOnly DEF OpenStore, Structure, Calling
  <1>2. SUFFICES ASSUME fate' = "ok", NEW h \in G, NEW e \in Fd, NEW d \in Dir, WaitsFor(h, e, d)'
                 PROVE  /\ active'[e] /\ waiter'[e][d] = h /\ slot_g'[e][d] = h
                        /\ Served(e, d)'
    BY DEF WaiterServed, Served
  <1>3. WaitsFor(h, e, d) /\ h # g
    BY <1>1, <1>2, WaitersOnly DEF PC
  <1>4. e # call[g].fd
    BY <1>2, <1>3 DEF OpenStore
  <1>5. /\ waiter'[e] = waiter[e] /\ slot_g'[e] = slot_g[e] 
        /\ completion'[e] = completion[e] /\ ctx'[e] = ctx[e] /\ requests' = requests
        /\ active'[e] = active[e] /\ generation'[e] = generation[e]
    BY <1>4 DEF OpenStore, Structure, Types
  <1> QED
    BY <1>3, <1>5 DEF WaiterServed, Served

LEMMA CloseServes ==
  ASSUME Structure, WaiterServed, fate = "ok", NEW g \in G, Close(g) PROVE WaiterServed'
  <1> DEFINE f == call[g].fd
             gs == {waiter[f][d] : d \in Dir} \ {NULL}
  <1>1. /\ f \in Fd /\ pc[g] = "close"
        /\ pc' = [h \in G |-> IF h = g THEN IF active[f] THEN "drain" ELSE "user"
                              ELSE IF h \in gs THEN "queued" ELSE pc[h]]
    BY DEF Close, CloseWake, Structure, Calling
  <1>2. SUFFICES ASSUME NEW h \in G, NEW e \in Fd, NEW d \in Dir, WaitsFor(h, e, d)'
                 PROVE  /\ active'[e] /\ waiter'[e][d] = h /\ slot_g'[e][d] = h
                        /\ Served(e, d)'
    BY DEF WaiterServed, Served
  <1>3. h # g /\ h \notin gs /\ pc[h] = "parked"
    <2> HIDE DEF gs
    <2>1. pc'[h] = "parked"
      BY <1>2 DEF WaitsFor
    <2> QED
      BY <1>1, <2>1
  <1>4. WaitsFor(h, e, d)
    <2>1. call'[h] = call[h]
      BY <1>3 DEF Close, Structure, Types
    <2> QED
      BY <1>2, <1>3, <2>1 DEF WaitsFor
  <1>5. waiter[e][d] = h /\ active[e] /\ slot_g[e][d] = h /\ Served(e, d)
    BY <1>4 DEF WaiterServed, Served
  <1>6. e # f
    BY <1>3, <1>5, PollerAssumption
  <1>7. waiter'[e] = waiter[e] /\ UNCHANGED <<completion, ctx, requests>>
    BY <1>6 DEF Close, CloseWake, Structure, Types
  <1>8. slot_g'[e] = slot_g[e] /\ active'[e] = active[e] /\ generation'[e] = generation[e]
    BY <1>6 DEF Close, Structure, Types
  <1> QED
    BY <1>5, <1>7, <1>8 DEF Served

LEMMA DrainedServes ==
  ASSUME Structure, WaiterServed, NEW g \in G, Drained(g) PROVE WaiterServed'
  <1>1. Only(g, "count") /\ call[g].fd \in Fd /\ ~active[call[g].fd]
    BY StayOnly DEF Drained, Structure, Calling, Exclusive, PC
  <1>2. SUFFICES ASSUME fate = "ok", NEW h \in G, NEW e \in Fd, NEW d \in Dir, WaitsFor(h, e, d)'
                 PROVE  /\ active'[e] /\ waiter'[e][d] = h /\ slot_g'[e][d] = h
                        /\ Served(e, d)'
    BY DEF WaiterServed, Served, Drained
  <1>3. WaitsFor(h, e, d)
    BY <1>1, <1>2, WaitersOnly DEF PC
  <1>4. active[e] /\ waiter[e][d] = h /\ slot_g[e][d] = h /\ Served(e, d)
    BY <1>2, <1>3 DEF WaiterServed, Served
  <1>5. completion'[e] = completion[e] /\ ctx'[e] = ctx[e]
    BY <1>1, <1>4 DEF Drained, Structure, Types
  <1> QED
    BY <1>4, <1>5 DEF Drained, Served

LEMMA LoopEventServes ==
  ASSUME Structure, WaiterServed, fate = "ok",
         NEW f \in Fd, NEW d \in Dir, NEW k \in requests[f][d], NEW error \in BOOLEAN,
         LoopEvent(f, d, k, error)
  PROVE  WaiterServed'
  <1>1. UNCHANGED <<waiter, generation, active, ctx, call>>
    BY DEF LoopEvent
  <1>2. CASE \E evs \in SUBSET Dir : FdReady(f, evs) /\ UNCHANGED <<completion, requests>>
    <2>1. PICK evs \in SUBSET Dir : FdReady(f, evs)
      BY <1>2
    <2> DEFINE gs == {slot_g[f][c] : c \in evs} \ {NULL}
    <2>2. SUFFICES ASSUME NEW h \in G, NEW e \in Fd, NEW c \in Dir, WaitsFor(h, e, c)'
                   PROVE  /\ active'[e] /\ waiter'[e][c] = h /\ slot_g'[e][c] = h
                          /\ Served(e, c)'
      BY DEF WaiterServed, Served
    <2>3. pc[h] = "parked" /\ h \notin gs
      <3>1. pc' = [i \in G |-> IF i \in gs /\ pc[i] = "parked" THEN "queued" ELSE pc[i]]
        BY <2>1 DEF FdReady
      <3>2. pc'[h] = "parked"
        BY <2>2 DEF WaitsFor
      <3> HIDE DEF gs
      <3> QED
        BY <3>1, <3>2
    <2>4. WaitsFor(h, e, c)
      BY <1>1, <2>2, <2>3 DEF WaitsFor
    <2>5. waiter[e][c] = h /\ active[e] /\ slot_g[e][c] = h /\ Served(e, c)
      BY <2>4 DEF WaiterServed, Served
    <2>6. ~(e = f /\ c \in evs)
      BY <2>3, <2>5, PollerAssumption
    <2>7. slot_g'[e][c] = slot_g[e][c]
      <3>1. slot_g' = [slot_g EXCEPT ![f] = [b \in Dir |-> IF b \in evs THEN NULL
                                                           ELSE slot_g[f][b]]]
        BY <2>1 DEF FdReady
      <3>2. slot_g \in [Fd -> [Dir -> G \cup {NULL}]]
        BY DEF Structure, Types
      <3> QED
        BY <2>6, <3>1, <3>2
    <2> QED
      BY <1>1, <1>2, <2>5, <2>7 DEF Served
  <1>3. CASE /\ ~active[f] /\ completion' = [completion EXCEPT ![f][d] = "retired"]
             /\ requests' = [requests EXCEPT ![f][d] = @ \ {k}] /\ UNCHANGED <<pc, slot_g>>
    <2>1. \A e \in Fd : active[e] =>
            completion'[e] = completion[e] /\ requests'[e] = requests[e]
      BY <1>3 DEF Structure, Types
    <2> QED
      BY <1>1, <1>3, <2>1 DEF WaiterServed, WaitsFor
  <1>4. CASE UNCHANGED <<completion, requests, pc, slot_g>>
    BY <1>1, <1>4 DEF WaiterServed, WaitsFor
  <1> QED
    BY <1>2, <1>3, <1>4, LoopEventDoes

\* Whatever closes and opens run meanwhile, a G that waits stays with the slot
\* that will ready it (WaiterServed).
THEOREM WaiterServedAlways == Spec => []WaiterServed
  <1>1. Init => WaiterServed
    BY DEF Init, WaiterServed, WaitsFor
  <1>2. ASSUME Structure, WaiterServed, [Next]_vars PROVE WaiterServed'
    <2>0. SUFFICES ASSUME Next PROVE WaiterServed'
      BY <1>2 DEF vars, slotVars, WaiterServed, WaitsFor
    <2> fate = "ok"
      BY <2>0 DEF Next
    <2>1. ASSUME NEW g \in G, Calls(g) \/ Resume(g) \/ CloseDone(g)
          PROVE  WaiterServed'
      BY <1>2, <2>1, CallerMoves, WaitersOnly, ServedStays
    <2>2. ASSUME \/ \E f \in Fd, d \in Dir : BecomesReady(f, d) \/ Consume(f, d)
                 \/ Polls \/ Wakeup
                 \/ \E kind \in {"to_tick", "to_block"} : PollBegin(kind)
          PROVE  WaiterServed'
      <3>1. UNCHANGED <<waiter, slotVars, pc, call>>
        BY <2>2 DEF BecomesReady, Consume, Polls, Tick, TickBlocking, PollEnd, LoopAsync, Wakeup,
                    PollBegin
      <3> QED
        BY <1>2, <3>1, ServedStays DEF WaitsFor
    <2> QED
      BY <1>2, <2>0, <2>1, <2>2, OpenStoreServes, WaitRegisterServes, WaitDoneServes, CloseServes,
         DrainedServes, LoopEventServes DEF Next, Continues, Reports
  <1> QED
    BY <1>1, <1>2, StructureAlways, PTL DEF Spec

-----------------------------------------------------------------------------
(* Events come in turn *)

\* As long as nobody waits for both events at once, a slot knows only Gs that
\* wait for that event of that fd.
SlotsKnow ==
  fate = "ok" /\ ~both =>
    /\ \A g \in G : call[g].events # Dir
    /\ \A g \in G, f \in Fd, d \in Dir : slot_g[f][d] = g => WaitsFor(g, f, d)

LEMMA OneEvent ==
  ASSUME Structure, SlotsKnow, fate = "ok", ~both, NEW g \in G, NEW e \in Fd, NEW f \in Fd,
         NEW c \in Dir, NEW d \in Dir, WaitsFor(g, e, c), WaitsFor(g, f, d)
  PROVE  c = d /\ e = f
  <1>1. call[g].events \in SUBSET Dir /\ call[g].events # Dir
    BY DEF Structure, Types, SlotsKnow
  <1>2. e = f /\ {c, d} \subseteq call[g].events
    BY DEF WaitsFor
  <1> QED
    BY <1>1, <1>2 DEF Dir

LEMMA CallsKnow ==
  ASSUME Structure, SlotsKnow, NEW g \in G, Calls(g) \/ Resume(g) \/ CloseDone(g)
  PROVE  SlotsKnow'
  <1>1. PICK at \in PC \ {"parked"} : Only(g, at)
    BY CallerMoves
  <1>2. pc[g] # "parked" /\ UNCHANGED <<waiter, slotVars, fate>> /\ (both => both')
    BY CallerMoves
  <1>3. SUFFICES ASSUME fate = "ok", ~both, ~both' PROVE SlotsKnow'
    BY <1>2 DEF SlotsKnow
  <1>4. call'[g].events # Dir
    <2>1. ASSUME NEW f \in Fd, OpenLoad(g, f) \/ CloseBegin(g, f) PROVE call'[g].events = {}
      BY <2>1, EnterOnly DEF OpenLoad, CloseBegin, Structure, PC
    <2>2. ASSUME NEW f \in Fd, NEW evs \in Interest[f], WaitBegin(g, f, evs)
          PROVE  call'[g].events = evs /\ evs # Dir
      <3>1. evs # Dir
        BY <1>3, <2>2 DEF WaitBegin
      <3> QED
        BY <2>2, <3>1, EnterOnly, PollerAssumption DEF WaitBegin, Structure, PC
    <2>3. CASE CloseDone(g)
      BY <2>3, ReturnOnly DEF CloseDone, Structure, NoCall, Dir
    <2>4. CASE Resume(g)
      BY <1>3, <2>4 DEF Resume, SlotsKnow
    <2> QED
      BY <2>1, <2>2, <2>3, <2>4 DEF Calls, Dir
  <1>5. ASSUME NEW h \in G, NEW f \in Fd, NEW d \in Dir, slot_g[f][d] = h
        PROVE  WaitsFor(h, f, d)'
    <2>1. WaitsFor(h, f, d)
      BY <1>3, <1>5 DEF SlotsKnow
    <2> QED
      BY <1>1, <1>2, <2>1 DEF WaitsFor, Only, slotVars
  <1> QED
    BY <1>1, <1>2, <1>3, <1>4, <1>5 DEF SlotsKnow, Only, slotVars

LEMMA DrainedKnows ==
  ASSUME Structure, SlotsKnow, NEW g \in G, Drained(g) PROVE SlotsKnow'
  <1>1. Only(g, "count") /\ pc[g] = "drain" /\ UNCHANGED <<call, slot_g, both, fate>>
    BY StayOnly DEF Drained, Structure, PC
  <1> QED
    BY <1>1 DEF SlotsKnow, WaitsFor, Only

LEMMA OpenStoreKnows ==
  ASSUME Structure, SlotsKnow, NEW g \in G, OpenStore(g) PROVE SlotsKnow'
  <1>1. Only(g, "user") /\ call'[g] = NoCall /\ call[g].fd \in Fd /\ pc[g] = "open"
    BY ReturnOnly DEF OpenStore, Structure, Calling
  <1>2. SUFFICES ASSUME fate = "ok", ~both PROVE SlotsKnow'
    BY DEF OpenStore, SlotsKnow
  <1>3. \A h \in G : call'[h].events # Dir
    <2>1. call'[g].events # Dir
      BY <1>1 DEF NoCall, Dir
    <2>2. \A h \in G \ {g} : call'[h].events # Dir
      BY <1>1, <1>2 DEF SlotsKnow, Only
    <2> QED
      BY <2>1, <2>2
  <1>4. ASSUME NEW h \in G, NEW f \in Fd, NEW d \in Dir, slot_g'[f][d] = h
        PROVE  WaitsFor(h, f, d)'
    <2>1. slot_g[f][d] = h
      BY <1>1, <1>4, PollerAssumption DEF OpenStore, Structure, Types
    <2>2. WaitsFor(h, f, d)
      BY <1>2, <2>1 DEF SlotsKnow
    <2> QED
      BY <1>1, <2>2 DEF WaitsFor, Only
  <1> QED
    BY <1>3, <1>4 DEF SlotsKnow

LEMMA WaitRegisterKnows ==
  ASSUME Structure, SlotsKnow, NEW g \in G, WaitRegister(g) PROVE SlotsKnow'
  <1>1. /\ Only(g, "parked") /\ call'[g] = call[g] /\ call[g].fd \in Fd /\ pc[g] = "wait"
        /\ UNCHANGED both
    BY StayOnly DEF WaitRegister, Structure, Calling, PC
  <1>2. SUFFICES ASSUME fate = "ok", ~both PROVE SlotsKnow'
    BY <1>1 DEF SlotsKnow, WaitRegister
  <1>3. \A h \in G : call'[h].events # Dir
    BY <1>1, <1>2 DEF SlotsKnow, Only
  <1>4. ASSUME NEW h \in G, NEW f \in Fd, NEW d \in Dir, slot_g'[f][d] = h
        PROVE  WaitsFor(h, f, d)'
    <2>1. \/ slot_g'[f][d] = slot_g[f][d]
          \/ slot_g'[f][d] = g /\ f = call[g].fd /\ d \in call[g].events
      <3>1. slot_g \in [Fd -> [Dir -> G \cup {NULL}]]
        BY DEF Structure, Types
      <3>2. \/ slot_g' = slot_g
            \/ slot_g' = [slot_g EXCEPT ![call[g].fd] =
                 [c \in Dir |-> IF c \in call[g].events THEN g ELSE slot_g[call[g].fd][c]]]
        BY DEF WaitRegister
      <3> QED
        BY <1>1, <3>1, <3>2
    <2>2. CASE slot_g'[f][d] = slot_g[f][d]
      <3>1. WaitsFor(h, f, d)
        BY <1>2, <1>4, <2>2 DEF SlotsKnow
      <3> QED
        BY <1>1, <3>1 DEF WaitsFor, Only
    <2>3. CASE slot_g'[f][d] = g /\ f = call[g].fd /\ d \in call[g].events
      BY <1>1, <1>4, <2>3 DEF WaitsFor, Only
    <2> QED
      BY <2>1, <2>2, <2>3
  <1> QED
    BY <1>3, <1>4 DEF SlotsKnow

LEMMA WaitDoneKnows ==
  ASSUME Structure, SlotsKnow, NEW g \in G, WaitDone(g) PROVE SlotsKnow'
  <1>1. Only(g, "user") /\ call'[g] = NoCall /\ pc[g] = "returned"
    BY ReturnOnly DEF WaitDone, Structure
  <1>2. SUFFICES ASSUME fate = "ok", ~both PROVE SlotsKnow'
    BY DEF SlotsKnow, WaitDone
  <1>3. \A h \in G : call'[h].events # Dir
    <2>1. call'[g].events # Dir
      BY <1>1 DEF NoCall, Dir
    <2>2. \A h \in G \ {g} : call'[h].events # Dir
      BY <1>1, <1>2 DEF SlotsKnow, Only
    <2> QED
      BY <2>1, <2>2
  <1>4. ASSUME NEW h \in G, NEW f \in Fd, NEW d \in Dir, slot_g[f][d] = h
        PROVE  WaitsFor(h, f, d)'
    <2>1. WaitsFor(h, f, d)
      BY <1>2, <1>4 DEF SlotsKnow
    <2> QED
      BY <1>1, <2>1 DEF WaitsFor, Only
  <1> QED
    BY <1>3, <1>4 DEF SlotsKnow, WaitDone, slotVars

LEMMA CloseKnows ==
  ASSUME Structure, WaiterServed, SlotsKnow, NEW g \in G, Close(g) PROVE SlotsKnow'
  <1> DEFINE f == call[g].fd
             gs == {waiter[f][d] : d \in Dir} \ {NULL}
  <1>1. /\ f \in Fd /\ pc[g] = "close"
        /\ pc' = [h \in G |-> IF h = g THEN IF active[f] THEN "drain" ELSE "user"
                              ELSE IF h \in gs THEN "queued" ELSE pc[h]]
    BY DEF Close, CloseWake, Structure, Calling
  <1>2. /\ call' \in [G -> [fd : Fd \cup {NULL}, events : SUBSET Dir]]
        /\ call'[g].events = {} /\ \A h \in G \ {g} : call'[h] = call[h]
    <2>1. call \in [G -> [fd : Fd \cup {NULL}, events : SUBSET Dir]] /\ call[g].events = {}
      BY <1>1 DEF Structure, Types, Calling
    <2>2. call' = call \/ call' = [call EXCEPT ![g] = NoCall]
      BY DEF Close
    <2>3. NoCall \in [fd : Fd \cup {NULL}, events : SUBSET Dir] /\ NoCall.events = {}
      BY DEF NoCall
    <2> QED
      BY <2>1, <2>2, <2>3
  <1>3. SUFFICES ASSUME fate = "ok", ~both PROVE SlotsKnow'
    BY DEF SlotsKnow, Close, CloseWake
  <1>4. \A h \in G : call'[h].events # Dir
    BY <1>2, <1>3 DEF SlotsKnow, Dir
  <1>5. ASSUME NEW h \in G, NEW e \in Fd, NEW d \in Dir, slot_g'[e][d] = h
        PROVE  WaitsFor(h, e, d)'
    <2>1. slot_g[e][d] = h /\ (e = f => ~active[f])
      BY <1>1, <1>5, PollerAssumption DEF Close, Structure, Types
    <2>2. WaitsFor(h, e, d)
      BY <1>3, <2>1 DEF SlotsKnow
    <2>3. active[e] /\ call[h].fd = e /\ e # f
      BY <1>3, <2>1, <2>2 DEF WaiterServed, WaitsFor
    <2>4. h \notin gs
      BY <1>1, <2>3 DEF Structure, Known
    <2>5. pc[h] = "parked" /\ h # g
      BY <1>1, <2>2 DEF WaitsFor
    <2> HIDE DEF gs
    <2>6. pc'[h] = pc[h] /\ call'[h] = call[h]
      BY <1>1, <1>2, <2>4, <2>5
    <2> QED
      BY <2>2, <2>6 DEF WaitsFor
  <1> QED
    BY <1>4, <1>5 DEF SlotsKnow

\* Where the slots are right, an event readies only Gs that wait for it.
LEMMA LoopEventKnows ==
  ASSUME Structure, SlotsKnow, fate = "ok",
         NEW f \in Fd, NEW d \in Dir, NEW k \in requests[f][d], NEW error \in BOOLEAN,
         LoopEvent(f, d, k, error)
  PROVE  SlotsKnow' /\ fate' # "readied by an event"
  <1>1. UNCHANGED <<call, both>>
    BY DEF LoopEvent
  <1>2. ASSUME NEW evs \in SUBSET Dir, FdReady(f, evs), evs = Dir \/ evs = {d}
        PROVE  SlotsKnow' /\ fate' # "readied by an event"
    <2> DEFINE gs == {slot_g[f][c] : c \in evs} \ {NULL}
    <2>1. /\ pc' = [h \in G |-> IF h \in gs /\ pc[h] = "parked" THEN "queued" ELSE pc[h]]
          /\ slot_g' = [slot_g EXCEPT ![f] = [c \in Dir |-> IF c \in evs THEN NULL
                                                           ELSE slot_g[f][c]]]
      BY <1>2 DEF FdReady
    <2>2. CASE both
      BY <1>1, <1>2, <2>2 DEF FdReady, SlotsKnow
    <2>3. CASE ~both
      <3>1. \A c \in Dir : slot_g[f][c] # NULL => WaitsFor(slot_g[f][c], f, c)
        BY <2>3 DEF SlotsKnow, Structure, Types
      <3>2. slot_g[f]["read"] = slot_g[f]["write"] => slot_g[f]["read"] = NULL
        <4>1. SUFFICES ASSUME slot_g[f]["read"] = slot_g[f]["write"], slot_g[f]["read"] # NULL
                       PROVE  FALSE
          OBVIOUS
        <4>2. slot_g[f]["read"] \in G
          BY <4>1 DEF Structure, Types, Dir
        <4>3. WaitsFor(slot_g[f]["read"], f, "read") /\ WaitsFor(slot_g[f]["read"], f, "write")
          BY <3>1, <4>1 DEF Dir
        <4> QED
          BY <2>3, <4>2, <4>3, OneEvent DEF Dir
      <3>3. slot_g[f]["read"] = slot_g[f]["write"] => gs = {}
        BY <3>2 DEF Dir
      <3>4. fate' = fate
        BY <1>2, <3>1, <3>3 DEF FdReady
      <3>5. ASSUME NEW h \in G, NEW e \in Fd, NEW c \in Dir, slot_g'[e][c] = h
            PROVE  WaitsFor(h, e, c)'
        <4>1. slot_g[e][c] = h /\ ~(e = f /\ c \in evs)
          <5>1. slot_g \in [Fd -> [Dir -> G \cup {NULL}]]
            BY DEF Structure, Types
          <5> QED
            BY <2>1, <3>5, <5>1, PollerAssumption
        <4>2. WaitsFor(h, e, c)
          BY <2>3, <4>1 DEF SlotsKnow
        <4>3. h \notin gs
          <5>1. SUFFICES ASSUME NEW b \in evs, slot_g[f][b] = h PROVE FALSE
            OBVIOUS
          <5>2. WaitsFor(h, f, b) /\ b \in Dir
            BY <2>3, <5>1 DEF SlotsKnow
          <5> QED
            BY <2>3, <4>1, <4>2, <5>1, <5>2, OneEvent
        <4> HIDE DEF gs
        <4>4. pc'[h] = pc[h]
          <5>1. pc \in [G -> PC]
            BY DEF Structure, Types
          <5> QED
            BY <2>1, <4>3, <5>1
        <4> QED
          BY <1>1, <4>2, <4>4 DEF WaitsFor
      <3> QED
        BY <1>1, <2>3, <3>4, <3>5 DEF SlotsKnow
    <2> QED
      BY <2>2, <2>3
  <1>3. CASE UNCHANGED <<pc, slot_g, fate>>
    BY <1>1, <1>3 DEF SlotsKnow, WaitsFor
  <1>4. CASE fate' = "reset completion"
    BY <1>4 DEF SlotsKnow
  <1> QED
    BY <1>2, <1>3, <1>4, LoopEventDoes

\* As long as nobody waits for both events at once, an event readies a G only
\* while it waits for that event of the fd, whatever the loop has left (EventsInTurn).
THEOREM EventsInTurnAlways == Spec => []EventsInTurn
  <1>1. Init => SlotsKnow /\ EventsInTurn
    <2> SUFFICES ASSUME Init PROVE SlotsKnow /\ EventsInTurn
      OBVIOUS
    <2>1. EventsInTurn
      BY DEF Init, EventsInTurn
    <2>2. \A g \in G, f \in Fd, d \in Dir : slot_g[f][d] # g
      BY PollerAssumption DEF Init
    <2> QED
      <3>1. \A g \in G : call[g].events = {}
        BY DEF Init, NoCall
      <3>2. Dir # {}
        BY DEF Dir
      <3> QED
        BY <2>1, <2>2, <3>1, <3>2 DEF SlotsKnow
  <1>2. ASSUME Structure, WaiterServed, SlotsKnow, EventsInTurn, [Next]_vars
        PROVE  SlotsKnow' /\ EventsInTurn'
    <2>0. SUFFICES ASSUME Next PROVE SlotsKnow' /\ EventsInTurn'
      <3>1. CASE UNCHANGED vars
        <4>1. UNCHANGED <<pc, call, slot_g, both, fate>>
          BY <3>1 DEF vars, slotVars
        <4>2. EventsInTurn'
          BY <1>2, <4>1 DEF EventsInTurn
        <4>3. SlotsKnow'
          BY <1>2, <4>1 DEF SlotsKnow, WaitsFor
        <4> QED
          BY <4>2, <4>3
      <3> QED
        BY <1>2, <3>1
    <2> fate = "ok"
      BY <2>0 DEF Next
    <2>1. ASSUME NEW g \in G, Calls(g) \/ Resume(g) \/ CloseDone(g)
          PROVE  SlotsKnow' /\ EventsInTurn'
      BY <1>2, <2>1, CallerMoves, CallsKnow DEF EventsInTurn
    <2>2. ASSUME NEW g \in G, Drained(g) PROVE SlotsKnow' /\ EventsInTurn'
      BY <1>2, <2>2, DrainedKnows DEF Drained, EventsInTurn
    <2>3. ASSUME \/ \E f \in Fd, d \in Dir : BecomesReady(f, d) \/ Consume(f, d)
                 \/ Polls \/ Wakeup
                 \/ \E kind \in {"to_tick", "to_block"} : PollBegin(kind)
          PROVE  SlotsKnow' /\ EventsInTurn'
      <3>1. UNCHANGED <<slotVars, pc, call, both, fate>>
        BY <2>3 DEF BecomesReady, Consume, Polls, Tick, TickBlocking, PollEnd, LoopAsync, Wakeup,
                    PollBegin
      <3> QED
        BY <1>2, <3>1 DEF SlotsKnow, EventsInTurn, WaitsFor, slotVars
    <2>4. ASSUME NEW g \in G, OpenStore(g) \/ WaitRegister(g) \/ WaitDone(g) \/ Close(g)
          PROVE  SlotsKnow' /\ EventsInTurn'
      <3>1. EventsInTurn'
        BY <1>2, <2>4
           DEF EventsInTurn, OpenStore, WaitRegister, WaitDone, Close, CloseWake
      <3> QED
        BY <1>2, <2>4, <3>1, OpenStoreKnows, WaitRegisterKnows, WaitDoneKnows, CloseKnows
    <2> QED
      BY <1>2, <2>0, <2>1, <2>2, <2>3, <2>4, LoopEventKnows
         DEF Next, Continues, Reports, EventsInTurn
  <1> QED
    BY <1>1, <1>2, StructureAlways, WaiterServedAlways, PTL DEF Spec

=============================================================================
