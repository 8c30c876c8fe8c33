---------------------------- MODULE SignalsProofs ----------------------------
(***************************************************************************)
(* Proofs about Signals, for any channels and signals, any room and any    *)
(* size of the registry: dispositions and registrations stay together, and *)
(* whatever the program calls while a signal is relayed, it goes to every  *)
(* channel registered for it, once.                                        *)
(***************************************************************************)
EXTENDS Signals, SequenceTheorems, TLAPS

Entries == [ch : Chan, signals : SUBSET Signal]

\* The mutex is held exactly between the lock and the unlock of a call, so that
\* nobody edits the registry in the middle of a relay.
Exclusive ==
  /\ (mutex = "dispatcher") <=> (dispatcher = "send")
  /\ (mutex = "program") <=> (pc # "user")
  /\ mutex \in {NULL, "program", "dispatcher"}

Types ==
  /\ registry \in Seq(Entries) /\ disposition \in [Signal -> {"default", "ignored", "handled"}]
  /\ ch \in Chan \cup {NULL} /\ todo \subseteq Signal
  /\ dispatcher = "send" => next \in Nat

\* In the middle of run_signal_stop the signals still to restore may be handled
\* and wanted by nobody.
Together ==
  \A s \in Signal :
    /\ Wants(s) # {} => disposition[s] # "default"
    /\ disposition[s] = "handled" => Wants(s) # {} \/ (pc = "restore" /\ s \in todo)

\* run_signal_notify has found or made the entry it installs signals for.
Found == pc = "install" => Entry(ch) # {}

SigInv == Exclusive /\ Types /\ Together /\ Found /\ RelayedToEachOnce

-----------------------------------------------------------------------------
(* The registry as a sequence *)

\* The shift of run_signal_stop and of run_signal_reset.
LEMMA RemoveAtProperties ==
  ASSUME NEW S, NEW q \in Seq(S), NEW k \in 1..Len(q)
  PROVE  /\ RemoveAt(q, k) \in Seq(S)
         /\ Len(RemoveAt(q, k)) = Len(q) - 1
         /\ \A j \in 1..(Len(q) - 1) : RemoveAt(q, k)[j] = IF j < k THEN q[j] ELSE q[j + 1]
<1> DEFINE a == SubSeq(q, 1, k - 1)
           b == SubSeq(q, k + 1, Len(q))
<1>1. a \in Seq(S) /\ Len(a) = k - 1 /\ \A j \in 1..(k - 1) : a[j] = q[j]
  BY SubSeqProperties
<1>2. b \in Seq(S) /\ Len(b) = Len(q) - k /\ \A j \in 1..(Len(q) - k) : b[j] = q[k + j]
  BY SubSeqProperties
<1> HIDE DEF a, b
<1>3. /\ a \o b \in Seq(S) /\ Len(a \o b) = Len(q) - 1
      /\ \A j \in 1..(Len(q) - 1) : (a \o b)[j] = IF j < k THEN q[j] ELSE q[j + 1]
  <2>1. /\ a \o b \in Seq(S) /\ Len(a \o b) = Len(a) + Len(b)
        /\ \A i \in 1..(Len(a) + Len(b)) :
             (a \o b)[i] = IF i <= Len(a) THEN a[i] ELSE b[i - Len(a)]
    BY <1>1, <1>2, ConcatProperties
  <2>2. k \in Nat /\ Len(q) \in Nat /\ Len(a) + Len(b) = Len(q) - 1
    BY <1>1, <1>2
  <2>3. ASSUME NEW j \in 1..(Len(q) - 1)
        PROVE  (a \o b)[j] = IF j < k THEN q[j] ELSE q[j + 1]
    <3>1. CASE j < k
      <4>1. (a \o b)[j] = a[j] /\ a[j] = q[j]
        BY <1>1, <2>1, <2>2, <3>1
      <4>2. QED
        BY <3>1, <4>1
    <3>2. CASE ~(j < k)
      <4>1. (a \o b)[j] = b[j - (k - 1)] /\ b[j - (k - 1)] = q[k + (j - (k - 1))]
        BY <1>1, <1>2, <2>1, <2>2, <3>2
      <4>2. k + (j - (k - 1)) = j + 1
        BY <2>2
      <4>3. QED
        BY <3>2, <4>1, <4>2
    <3>3. QED
      BY <3>1, <3>2
  <2>4. QED
    BY <2>1, <2>2, <2>3
<1>4. RemoveAt(q, k) = a \o b
  BY DEF RemoveAt, a, b
<1>5. QED
  BY <1>3, <1>4

\* What is left after the removal wants what the other entries wanted.
LEMMA RemoveKeepsOthers ==
  ASSUME NEW q \in Seq(Entries), NEW k \in 1..Len(q), NEW s
  PROVE  (\E j \in DOMAIN RemoveAt(q, k) : s \in RemoveAt(q, k)[j].signals)
           <=> (\E j \in DOMAIN q : j # k /\ s \in q[j].signals)
<1> DEFINE r == RemoveAt(q, k)
<1>1. /\ r \in Seq(Entries) /\ DOMAIN r = 1..(Len(q) - 1) /\ DOMAIN q = 1..Len(q)
      /\ \A j \in 1..(Len(q) - 1) : r[j] = IF j < k THEN q[j] ELSE q[j + 1]
  <2>1. /\ r \in Seq(Entries) /\ Len(r) = Len(q) - 1
        /\ \A j \in 1..(Len(q) - 1) : r[j] = IF j < k THEN q[j] ELSE q[j + 1]
    BY RemoveAtProperties
  <2> HIDE DEF r
  <2>2. DOMAIN r = 1..Len(r) /\ DOMAIN q = 1..Len(q)
    BY <2>1, LenProperties
  <2>3. QED
    BY <2>1, <2>2
<1> HIDE DEF r
<1>2. ASSUME NEW j \in DOMAIN r, s \in r[j].signals
      PROVE  \E i \in DOMAIN q : i # k /\ s \in q[i].signals
  <2>1. CASE j < k
    BY <1>1, <1>2, <2>1
  <2>2. CASE ~(j < k)
    <3>1. j + 1 \in DOMAIN q /\ j + 1 # k /\ r[j] = q[j + 1]
      BY <1>1, <1>2, <2>2
    <3>2. QED
      BY <3>1, <1>2
  <2>3. QED
    BY <2>1, <2>2
<1>3. ASSUME NEW i \in DOMAIN q, i # k, s \in q[i].signals
      PROVE  \E j \in DOMAIN r : s \in r[j].signals
  <2>1. CASE i < k
    BY <1>1, <1>3, <2>1
  <2>2. CASE ~(i < k)
    <3>1. i - 1 \in DOMAIN r /\ r[i - 1] = q[i]
      BY <1>1, <1>3, <2>2
    <3>2. QED
      BY <3>1, <1>3
  <2>3. QED
    BY <2>1, <2>2
<1>4. QED
  BY <1>2, <1>3 DEF r

\* An entry with other signals is an entry of the same channel.
LEMMA EntrySignals ==
  ASSUME NEW e \in Entries, NEW ss \in SUBSET Signal
  PROVE  /\ Wanting(e, ss) \in Entries
         /\ Wanting(e, ss).signals = ss /\ Wanting(e, ss).ch = e.ch
BY DEF Entries, Wanting

\* A registry rewritten entry by entry is a registry.
LEMMA RewrittenRegistry ==
  ASSUME NEW q \in Seq(Entries), NEW r, DOMAIN r = DOMAIN q, r = [k \in DOMAIN r |-> r[k]],
         \A k \in DOMAIN q : r[k] \in Entries
  PROVE  r \in Seq(Entries) /\ DOMAIN r = 1..Len(q) /\ Len(q) \in Nat
<1>1. DOMAIN q = 1..Len(q) /\ Len(q) \in Nat
  OBVIOUS
<1>2. r \in [1..Len(q) -> Entries]
  BY <1>1
<1>3. QED
  BY <1>1, <1>2, SeqDef

-----------------------------------------------------------------------------
(* One lemma per group of actions *)

LEMMA InitSig == Init => SigInv
<1> SUFFICES ASSUME Init
             PROVE  SigInv
  OBVIOUS
<1>1. Types
  BY EmptySeq DEF Init, Types
<1>2. \A s \in Signal : Wants(s) = {} /\ disposition[s] = "default"
  BY DEF Init, Wants
<1>3. QED
  BY <1>1, <1>2, SignalsAssumption
  DEF Init, SigInv, Exclusive, Together, Found, RelayedToEachOnce

\* What no registration, disposition or lock depends on may change freely.
LEMMA StutterSig ==
  ASSUME SigInv, UNCHANGED <<disposition, registry, mutex, callVars>>,
         \/ UNCHANGED <<dispatcher, byte, next, served>>
         \/ dispatcher # "send" /\ dispatcher' # "send"
  PROVE  SigInv'
<1>1. \A s : Wants(s)' = Wants(s)
  BY DEF Wants
<1>2. Exclusive' /\ Types' /\ Together' /\ Found'
  BY <1>1 DEF SigInv, Exclusive, Types, Together, Found, Entry, callVars
<1>3. RelayedToEachOnce'
  BY <1>1 DEF SigInv, RelayedToEachOnce, Wants
<1>4. QED
  BY <1>2, <1>3 DEF SigInv

LEMMA LockSig ==
  ASSUME SigInv, LockRegistry
  PROVE  SigInv'
<1>1. \A s : Wants(s)' = Wants(s)
  BY DEF Wants, LockRegistry
<1>2. Exclusive' /\ Types' /\ Together' /\ Found'
  BY <1>1, SignalsAssumption
  DEF SigInv, Exclusive, Types, Together, Found, Entry, callVars, LockRegistry
<1>3. RelayedToEachOnce'
  <2>1. served' = {} /\ next' = 1 /\ registry' = registry
    BY DEF LockRegistry
  <2>2. DOMAIN registry = 1..Len(registry)
    BY DEF SigInv, Types
  <2>3. \A j \in Wants(byte)' : ~(j < next')
    BY <2>1, <2>2 DEF Wants
  <2>4. QED
    BY <2>1, <2>3 DEF RelayedToEachOnce
<1>4. QED
  BY <1>2, <1>3 DEF SigInv

LEMMA UnlockSig ==
  ASSUME SigInv, UnlockRegistry
  PROVE  SigInv'
<1>1. \A s : Wants(s)' = Wants(s)
  BY DEF Wants, UnlockRegistry
<1>2. Exclusive' /\ Types' /\ Together' /\ Found'
  BY <1>1, SignalsAssumption
  DEF SigInv, Exclusive, Types, Together, Found, Entry, callVars, UnlockRegistry, Unlock
<1>3. RelayedToEachOnce'
  BY DEF RelayedToEachOnce, UnlockRegistry
<1>4. QED
  BY <1>2, <1>3 DEF SigInv

\* The index moves past one entry, and the entry's channel is served if it
\* wants the signal.
LEMMA SendSig ==
  ASSUME SigInv, Send
  PROVE  SigInv'
<1>1. /\ dispatcher = "send" /\ dispatcher' = "send" /\ next \in 1..Len(registry)
      /\ UNCHANGED <<disposition, registry, mutex, byte, pc, ch, todo>>
      /\ served = {registry[k].ch : k \in {j \in Wants(byte) : j < next}}
      /\ Wants(byte) \subseteq 1..Len(registry)
  BY DEF Send, SigInv, Types, RelayedToEachOnce, callVars, Wants
<1>2. \A s : Wants(s)' = Wants(s)
  BY <1>1 DEF Wants
<1>3. next' \in Nat
  BY <1>1 DEF Send
<1>4. Exclusive' /\ Types' /\ Together' /\ Found'
  BY <1>1, <1>2, <1>3 DEF SigInv, Exclusive, Types, Together, Found, Entry
<1>5. served' = {registry[k].ch : k \in {j \in Wants(byte) : j < next'}}
  <2>1. CASE next' = next /\ served' = served
    BY <1>1, <2>1
  <2>2. CASE next \notin Wants(byte) /\ next' = next + 1 /\ served' = served
    <3>1. {j \in Wants(byte) : j < next'} = {j \in Wants(byte) : j < next}
      BY <1>1, <2>2
    <3>2. QED
      BY <1>1, <2>2, <3>1
  <2>3. CASE /\ next \in Wants(byte) /\ next' = next + 1
             /\ served' = served \cup {registry[next].ch}
    <3>1. {j \in Wants(byte) : j < next'} = {j \in Wants(byte) : j < next} \cup {next}
      BY <1>1, <2>3
    <3>2. QED
      BY <1>1, <2>3, <3>1
  <2>4. QED
    BY <1>1, <2>1, <2>2, <2>3 DEF Send, Wants
<1>6. RelayedToEachOnce'
  <2>1. registry' = registry /\ Wants(byte)' = Wants(byte')
    BY <1>1 DEF Wants
  <2>2. byte' = byte /\ Wants(byte)' = Wants(byte)
    BY <1>1, <1>2
  <2>3. QED
    BY <1>1, <1>5, <2>1, <2>2 DEF RelayedToEachOnce
<1>7. QED
  BY <1>4, <1>6 DEF SigInv

\* While the program is between lock and unlock, or has just locked or
\* unlocked, the dispatcher relays nothing.
LEMMA NotRelaying ==
  ASSUME SigInv, mutex \in {NULL, "program"}, dispatcher' = dispatcher \/ dispatcher' # "send"
  PROVE  dispatcher # "send" /\ dispatcher' # "send" /\ RelayedToEachOnce'
BY SignalsAssumption DEF SigInv, Exclusive, RelayedToEachOnce

LEMMA NotifyFindSig ==
  ASSUME SigInv, NEW c \in Chan, NEW ss \in SUBSET Signal, NotifyFind(c, ss)
  PROVE  SigInv'
<1>1. /\ mutex = NULL /\ pc = "user" /\ disposition' = disposition
      /\ dispatcher' = dispatcher \/ dispatcher' # "send"
  BY DEF NotifyFind, EnsureDispatcher
<1>2. dispatcher # "send" /\ dispatcher' # "send" /\ RelayedToEachOnce'
  BY <1>1, NotRelaying
<1>3. registry' \in Seq(Entries) /\ \A s \in Signal : Wants(s)' = Wants(s)
  <2>1. CASE registry' = registry
    BY <2>1 DEF SigInv, Types, Wants
  <2>2. CASE registry' = Append(registry, [ch |-> c, signals |-> {}])
    <3> DEFINE e == [ch |-> c, signals |-> {}]
    <3>1. e \in Entries /\ registry \in Seq(Entries)
      BY DEF Entries, SigInv, Types
    <3>2. /\ registry' \in Seq(Entries) /\ Len(registry') = Len(registry) + 1
          /\ \A i \in 1..Len(registry) : registry'[i] = registry[i]
          /\ registry'[Len(registry) + 1] = e
      BY <2>2, <3>1, AppendProperties
    <3>3. /\ DOMAIN registry = 1..Len(registry) /\ Len(registry) \in Nat
          /\ DOMAIN registry' = DOMAIN registry \cup {Len(registry) + 1}
      BY <3>1, <3>2
    <3>4. e.signals = {}
      OBVIOUS
    <3> HIDE DEF e
    <3>5. QED
      BY <3>2, <3>3, <3>4 DEF Wants
  <2>3. QED
    BY <2>1, <2>2 DEF NotifyFind
<1>4. \/ mutex' = "program" /\ pc' = "install" /\ ch' = c /\ todo' = ss
      \/ mutex' = mutex /\ pc' = pc /\ ch' = ch /\ todo' = todo
  BY DEF NotifyFind, LockedCall, Call, callVars
<1>5. Exclusive' /\ Types' /\ Together'
  BY <1>1, <1>2, <1>3, <1>4, SignalsAssumption DEF SigInv, Exclusive, Types, Together
<1>6. Found'
  <2>1. CASE Entry(c) # {} /\ ch' = c /\ registry' = registry
    BY <2>1 DEF Found, Entry
  <2>2. CASE ch' = c /\ registry' = Append(registry, [ch |-> c, signals |-> {}])
    <3>1. /\ registry' \in Seq(Entries) /\ Len(registry') = Len(registry) + 1
          /\ registry'[Len(registry) + 1] = [ch |-> c, signals |-> {}] /\ Len(registry) \in Nat
      BY <2>2, AppendProperties DEF SigInv, Types, Entries
    <3>2. Len(registry) + 1 \in DOMAIN registry' /\ registry'[Len(registry) + 1].ch = c
      BY <3>1
    <3>3. QED
      BY <2>2, <3>2 DEF Found, Entry
  <2>3. CASE pc' = "user"
    BY <2>3 DEF Found
  <2>4. QED
    BY <1>1, <2>1, <2>2, <2>3 DEF NotifyFind, LockedCall, Call, callVars
<1>7. QED
  BY <1>2, <1>5, <1>6 DEF SigInv

LEMMA NotifyInstallSig ==
  ASSUME SigInv, NEW s \in Signal, NotifyInstall(s)
  PROVE  SigInv'
<1> DEFINE more(k) == registry[k].signals \cup IF k \in Entry(ch) THEN {s} ELSE {}
           added(k) == Wanting(registry[k], more(k))
<1>1. /\ pc = "install" /\ mutex = "program" /\ UNCHANGED <<mutex, dispatcher, pc, ch, next>>
      /\ todo' \subseteq todo
      /\ registry' = [k \in DOMAIN registry |-> added(k)]
      /\ disposition' = [disposition EXCEPT ![s] = "handled"]
  BY DEF NotifyInstall, SigInv, Exclusive, Done, relayVars
<1>2. RelayedToEachOnce'
  BY <1>1, NotRelaying
<1>3. registry \in Seq(Entries) /\ \A k \in DOMAIN registry : registry[k] \in Entries
  BY DEF SigInv, Types
<1>4. ASSUME NEW k \in DOMAIN registry
      PROVE  added(k) \in Entries /\ added(k).signals = more(k) /\ added(k).ch = registry[k].ch
  <2>1. registry[k] \in Entries /\ more(k) \in SUBSET Signal
    BY <1>3 DEF Entries
  <2>2. QED
    BY <2>1, EntrySignals
<1> HIDE DEF added
<1>5. DOMAIN registry' = DOMAIN registry /\ \A k \in DOMAIN registry : registry'[k] = added(k)
  BY <1>1
<1>6. registry' \in Seq(Entries)
  BY <1>1, <1>3, <1>4, <1>5, RewrittenRegistry
<1>7. Exclusive' /\ Types'
  BY <1>1, <1>2, <1>6 DEF SigInv, Exclusive, Types
<1>8. Entry(ch)' = Entry(ch) /\ Entry(ch) # {}
  BY <1>1, <1>4, <1>5 DEF Entry, SigInv, Found
<1>9. \A t \in Signal \ {s} : Wants(t)' = Wants(t)
  BY <1>4, <1>5 DEF Wants
<1>10. Wants(s)' # {}
  BY <1>4, <1>5, <1>8 DEF Wants, Entry
<1>11. Together'
  <2>1. \A t \in Signal : disposition'[t] = IF t = s THEN "handled" ELSE disposition[t]
    BY <1>1 DEF SigInv, Types
  <2>2. QED
    BY <1>1, <1>9, <1>10, <2>1 DEF SigInv, Together
<1>12. QED
  BY <1>1, <1>2, <1>7, <1>8, <1>11 DEF SigInv, Found, Entry

LEMMA ResetOneSig ==
  ASSUME SigInv, NEW s \in Signal, ResetOne(s)
  PROVE  SigInv'
<1> DEFINE less(k) == registry[k].signals \ {s}
           left(k) == Wanting(registry[k], less(k))
<1>1. /\ pc = "clear" /\ mutex = "program" /\ UNCHANGED <<mutex, dispatcher, pc, ch, next>>
      /\ todo' \subseteq todo
      /\ registry' = [k \in DOMAIN registry |-> left(k)]
      /\ disposition' = [disposition EXCEPT ![s] = "default"]
  BY DEF ResetOne, SigInv, Exclusive, Done, relayVars
<1>2. RelayedToEachOnce'
  BY <1>1, NotRelaying
<1>3. registry \in Seq(Entries) /\ \A k \in DOMAIN registry : registry[k] \in Entries
  BY DEF SigInv, Types
<1>4. ASSUME NEW k \in DOMAIN registry
      PROVE  left(k) \in Entries /\ left(k).signals = less(k)
  <2>1. registry[k] \in Entries /\ less(k) \in SUBSET Signal
    BY <1>3 DEF Entries
  <2>2. QED
    BY <2>1, EntrySignals
<1> HIDE DEF left
<1>5. DOMAIN registry' = DOMAIN registry /\ \A k \in DOMAIN registry : registry'[k] = left(k)
  BY <1>1
<1>6. registry' \in Seq(Entries)
  BY <1>1, <1>3, <1>4, <1>5, RewrittenRegistry
<1>7. Exclusive' /\ Types'
  BY <1>1, <1>2, <1>6 DEF SigInv, Exclusive, Types
<1>8. Wants(s)' = {} /\ \A t \in Signal \ {s} : Wants(t)' = Wants(t)
  BY <1>4, <1>5 DEF Wants
<1>9. Together'
  <2>1. \A t \in Signal : disposition'[t] = IF t = s THEN "default" ELSE disposition[t]
    BY <1>1 DEF SigInv, Types
  <2>2. QED
    BY <1>1, <1>8, <2>1 DEF SigInv, Together
<1>10. QED
  BY <1>1, <1>2, <1>7, <1>9 DEF SigInv, Found

\* An entry goes: what it alone wanted is to be restored, or it wanted nothing.
LEMMA StopRemoveSig ==
  ASSUME SigInv, NEW c \in Chan, StopRemove(c)
  PROVE  SigInv'
<1>1. /\ pc = "user" /\ mutex = NULL /\ UNCHANGED <<dispatcher, next, disposition>>
      /\ pc' = "restore" /\ mutex' = "program" /\ ch' = c
  BY DEF StopRemove, LockedCall, Call, relayVars
<1>2. dispatcher # "send" /\ RelayedToEachOnce'
  BY <1>1, NotRelaying
<1>3. CASE registry' = registry /\ todo' = {}
  BY <1>1, <1>2, <1>3, SignalsAssumption
  DEF SigInv, Exclusive, Types, Together, Found, Wants
<1>4. CASE \E k \in Entry(c) : registry' = RemoveAt(registry, k) /\ todo' = registry[k].signals
  <2>1. PICK k \in Entry(c) : registry' = RemoveAt(registry, k) /\ todo' = registry[k].signals
    BY <1>4
  <2>2. registry \in Seq(Entries) /\ k \in 1..Len(registry) /\ k \in DOMAIN registry
    BY DEF SigInv, Types, Entry
  <2>3. registry' \in Seq(Entries) /\ todo' \subseteq Signal
    <3>1. registry' \in Seq(Entries)
      BY <2>1, <2>2, RemoveAtProperties
    <3>2. registry[k] \in Entries
      BY <2>2
    <3>3. QED
      BY <2>1, <3>1, <3>2 DEF Entries
  <2>4. \A s : Wants(s)' # {} <=> \E j \in DOMAIN registry : j # k /\ s \in registry[j].signals
    BY <2>1, <2>2, RemoveKeepsOthers DEF Wants
  <2>5. Together'
    BY <1>1, <2>1, <2>2, <2>4 DEF SigInv, Together, Wants
  <2>6. QED
    BY <1>1, <1>2, <2>3, <2>5, SignalsAssumption DEF SigInv, Exclusive, Types, Found
<1>5. QED
  BY <1>3, <1>4 DEF StopRemove, LockedCall, Call

LEMMA ResetDropSig ==
  ASSUME SigInv, NEW k \in DOMAIN registry, ResetDrop(k)
  PROVE  SigInv'
<1>1. /\ pc = "clear" /\ mutex = "program" /\ registry[k].signals = {}
      /\ registry' = RemoveAt(registry, k)
      /\ UNCHANGED <<mutex, dispatcher, next, disposition, pc, ch, todo>>
  BY DEF ResetDrop, SigInv, Exclusive, relayVars, callVars
<1>2. RelayedToEachOnce'
  BY <1>1, NotRelaying
<1>3. registry \in Seq(Entries) /\ k \in 1..Len(registry)
  BY DEF SigInv, Types
<1>4. registry' \in Seq(Entries)
  BY <1>1, <1>3, RemoveAtProperties
<1>5. \A s : Wants(s)' # {} <=> Wants(s) # {}
  BY <1>1, <1>3, RemoveKeepsOthers DEF Wants
<1>6. QED
  BY <1>1, <1>2, <1>4, <1>5 DEF SigInv, Exclusive, Types, Together, Found

\* The disposition of one signal changes; the registry does not.
LEMMA StopRestoreSig ==
  ASSUME SigInv, NEW s \in Signal, StopRestore(s)
  PROVE  SigInv'
<1>1. /\ pc = "restore" /\ mutex = "program" /\ todo' = todo \ {s}
      /\ UNCHANGED <<registry, mutex, dispatcher, next, pc, ch>>
      /\ disposition' = IF Wants(s) = {} THEN [disposition EXCEPT ![s] = "default"]
                                         ELSE disposition
  BY DEF StopRestore, SigInv, Exclusive, Done, relayVars
<1>2. RelayedToEachOnce'
  BY <1>1, NotRelaying
<1>3. \A t : Wants(t)' = Wants(t)
  BY <1>1 DEF Wants
<1>4. Together'
  BY <1>1, <1>3 DEF SigInv, Types, Together
<1>5. QED
  BY <1>1, <1>2, <1>4 DEF SigInv, Exclusive, Types, Found

LEMMA IgnoreSig ==
  ASSUME SigInv, NEW s \in Signal, IgnoreOne(s)
  PROVE  SigInv'
<1>1. /\ UNCHANGED <<registry, mutex, relayVars, callVars>>
      /\ disposition' = [disposition EXCEPT ![s] = "ignored"]
      /\ \A t : Wants(t)' = Wants(t)
  BY DEF IgnoreOne, Wants
<1>2. RelayedToEachOnce'
  BY <1>1 DEF SigInv, RelayedToEachOnce, relayVars, Wants
<1>3. Together'
  BY <1>1 DEF SigInv, Types, Together, callVars
<1>4. QED
  BY <1>1, <1>2, <1>3 DEF SigInv, Exclusive, Types, Found, Entry, relayVars, callVars

LEMMA ResetBeginSig ==
  ASSUME SigInv, NEW ss \in SUBSET Signal, ResetBegin(ss)
  PROVE  SigInv'
<1>1. /\ pc = "user" /\ mutex = NULL /\ mutex' = "program" /\ pc' = "clear" /\ ch' = NULL
      /\ todo' = ss /\ UNCHANGED <<registry, disposition, dispatcher, next>>
      /\ \A t : Wants(t)' = Wants(t)
  BY DEF ResetBegin, LockedCall, Call, relayVars, Wants
<1>2. dispatcher # "send" /\ RelayedToEachOnce'
  BY <1>1, NotRelaying
<1>3. QED
  BY <1>1, <1>2, SignalsAssumption DEF SigInv, Exclusive, Types, Together, Found

LEMMA EndSig ==
  ASSUME SigInv, NotifyEnd \/ StopEnd \/ ResetEnd
  PROVE  SigInv'
<1>1. /\ pc # "user" /\ mutex = "program" /\ mutex' = NULL /\ pc' = "user" /\ ch' = NULL
      /\ todo' = {} /\ UNCHANGED <<registry, disposition, dispatcher, next>>
      /\ pc = "restore" => todo = {}
      /\ \A t : Wants(t)' = Wants(t)
  BY DEF NotifyEnd, StopEnd, ResetEnd, Unlock, Return, relayVars, Wants, SigInv, Exclusive
<1>2. dispatcher # "send" /\ RelayedToEachOnce'
  BY <1>1, NotRelaying
<1>3. QED
  BY <1>1, <1>2, SignalsAssumption DEF SigInv, Exclusive, Types, Together, Found

-----------------------------------------------------------------------------
(* The invariant and the two theorems *)

LEMMA NextSig == SigInv /\ [Next]_vars => SigInv'
<1> SUFFICES ASSUME SigInv, [Next]_vars
             PROVE  SigInv'
  OBVIOUS
<1>1. CASE Dispatch
  <2>1. CASE Read
    BY <2>1, StutterSig DEF Read
  <2>2. QED
    BY <1>1, <2>1, LockSig, SendSig, UnlockSig DEF Dispatch
<1>2. CASE Begin
  BY <1>2, NotifyFindSig, StopRemoveSig, ResetBeginSig, IgnoreSig DEF Begin
<1>3. CASE Go
  BY <1>3, EndSig, ResetDropSig, NotifyInstallSig, StopRestoreSig, ResetOneSig DEF Go
<1>4. CASE \/ \E s \in Signal : Raise(s)
           \/ \E c \in Chan : Receive(c)
           \/ UNCHANGED vars
  <2>1. UNCHANGED <<disposition, registry, mutex, callVars, dispatcher, byte, next, served>>
    BY <1>4 DEF Raise, Receive, vars, relayVars
  <2>2. QED
    BY <2>1, StutterSig
<1>5. QED
  BY <1>1, <1>2, <1>3, <1>4 DEF Next

LEMMA SigInvAlways == Spec => []SigInv
<1>1. Init => SigInv
  BY InitSig
<1>2. SigInv /\ [Next]_vars => SigInv'
  BY NextSig
<1>3. QED
  BY <1>1, <1>2, PTL DEF Spec

\* While the dispatcher thread relays a signal (run_signal.c:74-80) it has sent
\* it to exactly the channels that want it among the entries it has passed,
\* whatever notify, stop, reset, ignore, raised signals and receives interleave.
THEOREM RelayIsExact == Spec => []RelayedToEachOnce
<1>1. SigInv => RelayedToEachOnce
  BY DEF SigInv
<1>2. QED
  BY <1>1, SigInvAlways, PTL

\* Outside an edit of the registry a wanted signal has not its default, which
\* would kill the program, and only a wanted one has the handler.
THEOREM DispositionsFollowRegistry == Spec => []RegisteredIsHandled
<1>1. SigInv => RegisteredIsHandled
  BY SignalsAssumption DEF SigInv, Exclusive, Together, RegisteredIsHandled
<1>2. QED
  BY <1>1, SigInvAlways, PTL
=============================================================================
