---------------------------- MODULE SchedulerProofs ----------------------------
(***************************************************************************)
(* The scheduler for every number of Gs, Ms and Ps and every size of the   *)
(* local queues, with preemption and without.                              *)
(*                                                                         *)
(* SchedInv says, of every state: what each position of an M goes with     *)
(* (Shape), who has which P (Owned), who knows a parked M (Known); and     *)
(* until the code aborts or its behaviour is undefined: which M a G's code *)
(* is on (SingleRun), where each G is (InOnePlace), how many there are     *)
(* (Counted), which queues are still looked at (Covered), and what a       *)
(* single P makes sure of (Lone).                                          *)
(***************************************************************************)
EXTENDS Scheduler, FiniteSetTheorems, SequenceTheorems, TLAPS

-----------------------------------------------------------------------------
(* The inductive invariant *)

\* An M with a G in its hands, and the calls of run_spawn, run_g_ready and
\* run_wake_m, which return to then.
Handing == {"spawn", "ready", "queue", "execute"}
Calls == {"spawn", "ready", "queue", "wake", "wake_m", "wake_bind", "wake_new"}
Callers == {"user", "main", "poll", "poll_blocking"}
GCode == {"user", "yield", "exit", "switch", "switch_in", "returned"}
NoProc == {"no_p", "park", "unborn", "exited"}
Places == Calls \cup GCode \cup NoProc \cup
            {"main", "loop", "parked", "find_local", "find_global", "poll", "steal",
             "poll_blocking", "give_up", "execute", "last_died"}

FrameSet == [at : Places, self : M \cup {NULL}, g : G \cup {NULL}, p : P \cup {NULL},
             w : M \cup {NULL}, then : Callers \cup {NULL}, left : SUBSET P, woken : BOOLEAN]

\* Each function has the locals it uses.
FrameOK(f) ==
  /\ f \in FrameSet
  /\ f.at \in Handing \cup {"returned"} => f.g \in G
  /\ f.at \in {"spawn", "queue"} => f.self \in M
  /\ f.at \in Calls => f.then \in Callers
  /\ f.at = "spawn" => f.then \in {"user", "main"}
  /\ f.at = "wake_bind" <=> f.w # NULL

\* The types of the fields but for the frames: the queues, who has which P, the rest.
ListTypes ==
  /\ local \in [P -> Seq(G)] /\ global \in Seq(G)
  /\ \A p \in P : Len(local[p]) <= LocalSize
ProcTypes ==
  /\ idle_p \in Seq(P) /\ current_p \in [M -> P \cup {NULL}]
  /\ p_status \in [P -> {"P_IDLE", "P_RUNNING"}] /\ bound_m \in [P -> M \cup {NULL}]
OtherTypes ==
  /\ status \in [G -> {"G_IDLE", "G_RUNNABLE", "G_RUNNING", "G_WAITING", "G_DEAD", "FREED"}]
  /\ last_p \in [G -> P \cup {NULL}]
  /\ preempt \in [G -> BOOLEAN] /\ preempt_safe \in [G -> BOOLEAN] /\ saved \in [G -> BOOLEAN]
  /\ idle_m \in Seq(M) /\ current_g \in [M -> G \cup {NULL}] /\ parked \in [M -> BOOLEAN]
  /\ waiting \subseteq G /\ io \subseteq IoG /\ ready_io \subseteq io
  /\ registered \in BOOLEAN /\ notified \in BOOLEAN
FieldTypes == ListTypes /\ ProcTypes /\ OtherTypes

FrameTypes ==
  /\ frame \in [M -> FrameSet] /\ resume \in [G -> FrameSet]
  /\ \A m \in M : FrameOK(frame[m])
  /\ \A g \in G : FrameOK(resume[g])

\* The code of a G, and the scheduler's own.
GSide(f) == f.at \in GCode \/ (f.at \in Calls /\ f.then = "user")

ShapeAt(m, f, g, p, sleeps) ==
  /\ GSide(f) <=> g # NULL
  /\ f.at \in NoProc => p = NULL
  /\ f.at \notin NoProc \cup {"loop", "parked"} => p # NULL
  /\ sleeps => f.at = "parked" /\ p = NULL
  /\ f.at = "main" \/ (f.at \in Calls /\ f.then = "main") => m = MainM
ShapeOf(m) == ShapeAt(m, frame[m], current_g[m], current_p[m], parked[m])
ResumeShape(g) ==
  /\ GSide(resume[g]) /\ resume[g].at \notin {"switch", "switch_in", "returned"}
  /\ ~preempt_safe[g] => resume[g] = Frame("user")
Shape == (\A m \in M : ShapeOf(m)) /\ (\A g \in G : ResumeShape(g))

Distinct(s) == \A i, j \in DOMAIN s : s[i] = s[j] => i = j

\* Ps: one holder or one place in the idle stack.
Owned ==
  /\ Distinct(idle_p)
  /\ \A p \in P : /\ p \in ToSet(idle_p) <=> bound_m[p] = NULL
                  /\ p_status[p] = "P_IDLE" <=> bound_m[p] = NULL
                  /\ \A m \in M : bound_m[p] = m <=> current_p[m] = p

\* Parked Ms: one place in the idle list or one run_wake_m, suspended or not.
Known ==
  /\ Distinct(idle_m)
  /\ \A m \in M : parked[m] <=> \/ m \in ToSet(idle_m)
                               \/ \E x \in M : frame[x].w = m
                               \/ \E g \in G : resume[g].w = m
  /\ \A x \in M : frame[x].w # NULL =>
       /\ frame[x].w \notin ToSet(idle_m)
       /\ \A y \in M : frame[y].w = frame[x].w => y = x
       /\ \A g \in G : resume[g].w # frame[x].w
  /\ \A g \in G : resume[g].w # NULL =>
       /\ resume[g].w \notin ToSet(idle_m)
       /\ \A h \in G : resume[h].w = resume[g].w => h = g

\* The M a G's code is on: one, which its saved context knows nothing of.
On(m) == frame[m].at \notin {"switch_in", "returned"}
Single(m) ==
  LET g == current_g[m]
  IN  g # NULL =>
        /\ status[g] # "G_IDLE"
        /\ On(m) => /\ ~saved[g]
                    /\ preempt_safe[g] => frame[m].at \in {"yield", "switch"}
                    /\ \A n \in M : On(n) /\ current_g[n] = g => n = m
SingleRun == \A m \in M : Single(m)

\* The places of a G: the queues, those who have it in hand, the ways to wait, and
\* the Ms that run it.
Queues == P \cup {NULL}
List(q) == IF q = NULL THEN global ELSE local[q]
InHand(f) == IF f.at \in Handing THEN f.g ELSE NULL
InRun(f, g) == IF f.at \in {"switch", "returned"} THEN NULL ELSE g
Active(g) == status[g] \in {"G_RUNNABLE", "G_RUNNING", "G_WAITING"}

Lists(g) == {q \in Queues : g \in ToSet(List(q))}
Holders(g) == {m \in M : InHand(frame[m]) = g}
Keepers(g) == {x \in G : InHand(resume[x]) = g}
WaitsIn(g) == {k \in {"waiting", "io"} : g \in (IF k = "io" THEN io ELSE waiting)}
Runners(g) == {m \in M : InRun(frame[m], current_g[m]) = g}

One(S) == \E x \in S : S = {x}
Placed(active, L, H, K, W, R) ==
  IF active
  THEN \/ One(L) /\ H = {} /\ K = {} /\ W = {} /\ R = {}
       \/ L = {} /\ One(H) /\ K = {} /\ W = {} /\ R = {}
       \/ L = {} /\ H = {} /\ One(K) /\ W = {} /\ R = {}
       \/ L = {} /\ H = {} /\ K = {} /\ One(W) /\ R = {}
       \/ L = {} /\ H = {} /\ K = {} /\ W = {} /\ One(R)
  ELSE L = {} /\ H = {} /\ K = {} /\ W = {} /\ R = {}
PlaceOf(g) == Placed(Active(g), Lists(g), Holders(g), Keepers(g), WaitsIn(g), Runners(g))

InOnePlace ==
  /\ \A q \in Queues : Distinct(List(q))
  /\ \A g \in G : PlaceOf(g)
  /\ \A g \in waiting \cup io : status[g] = "G_WAITING"

\* live_g_count
Alive == {g \in G : status[g] \notin {"G_IDLE", "FREED"}}
Counted ==
  /\ IsFiniteSet(Alive) /\ live = Cardinality(Alive)
  /\ At(MainM, "exited") => live = 0

\* The queues an M has found empty since it last knew of no work.
HasPassed(f, own, q) ==
  \/ f.at = "give_up"
  \/ f.at = "poll_blocking" /\ ~f.woken
  \/ q = own /\ (f.at \in {"find_global", "steal"} \/ (f.at = "poll" /\ ~f.woken))
  \/ q = NULL /\ (f.at = "steal" \/ (f.at = "poll" /\ ~f.woken))
  \/ q # NULL /\ f.at = "steal" /\ q \notin f.left
Covers(m, q) == current_p[m] # NULL /\ ~HasPassed(frame[m], current_p[m], q)
Covered ==
  NumPs <= 2 => \A q \in Queues : List(q) # <<>> => \E m \in M : Covers(m, q)

\* With one P.
InMain(f) == f.at = "main" \/ (f.at \in Calls /\ f.then = "main")
InPoll(f) == f.at = "poll_blocking" \/ (f.at \in Calls /\ f.then = "poll_blocking")
Lone ==
  /\ io # {} => registered
  /\ NumPs = 1 =>
       /\ \A g \in G : resume[g] = Frame("user")
       /\ notified => live = 0
       /\ InMain(frame[MainM]) => ~notified
       /\ \A m \in M : /\ InPoll(frame[m]) \/ At(m, "give_up") => live > 0
                       /\ At(m, "give_up") => ~registered
                       /\ At(m, "last_died") => live = 0

Always == FieldTypes /\ FrameTypes /\ Shape /\ Owned /\ Known
WhileOk == SingleRun /\ InOnePlace /\ Counted /\ Covered /\ Lone
SchedInv == /\ Always
            /\ fate = "ok" => WhileOk
            /\ AbortJustified

-----------------------------------------------------------------------------
(* Lists *)

LEMMA Appended ==
  ASSUME NEW S, NEW s \in Seq(S), NEW x \in S
  PROVE  /\ Append(s, x) \in Seq(S) /\ Len(Append(s, x)) = Len(s) + 1
         /\ ToSet(Append(s, x)) = ToSet(s) \cup {x}
         /\ Distinct(s) /\ x \notin ToSet(s) => Distinct(Append(s, x))
         /\ Append(s, x) # <<>>
  <1> DEFINE a == Append(s, x)
  <1>1. /\ a \in Seq(S) /\ Len(a) = Len(s) + 1 /\ Len(s) \in Nat
        /\ \A i \in 1 .. Len(s) : a[i] = s[i]
        /\ a[Len(s) + 1] = x
        /\ DOMAIN a = 1 .. Len(s) + 1 /\ DOMAIN s = 1 .. Len(s)
    BY AppendProperties, LenProperties
  <1> HIDE DEF a
  <1>2. ToSet(a) = ToSet(s) \cup {x}
    BY <1>1 DEF ToSet
  <1>3. Distinct(s) /\ x \notin ToSet(s) => Distinct(a)
    BY <1>1 DEF ToSet, Distinct
  <1>4. a # <<>>
    BY <1>1, EmptySeq
  <1> QED
    BY <1>1, <1>2, <1>3, <1>4 DEF a

LEMMA HeadTaken ==
  ASSUME NEW S, NEW s \in Seq(S), s # <<>>
  PROVE  /\ Head(s) \in S /\ Head(s) \in ToSet(s)
         /\ Tail(s) \in Seq(S) /\ Len(Tail(s)) <= Len(s)
         /\ ToSet(Tail(s)) \subseteq ToSet(s)
         /\ Distinct(s) => Distinct(Tail(s)) /\ ToSet(Tail(s)) = ToSet(s) \ {Head(s)}
  <1> DEFINE a == Tail(s)
  <1>1. /\ a \in Seq(S) /\ Len(a) = Len(s) - 1 /\ Len(s) \in Nat \ {0}
        /\ \A i \in 1 .. Len(a) : a[i] = s[i + 1]
        /\ Head(s) = s[1] /\ Head(s) \in S
        /\ DOMAIN a = 1 .. Len(s) - 1 /\ DOMAIN s = 1 .. Len(s)
    BY HeadTailProperties, LenProperties, EmptySeq
  <1> HIDE DEF a
  <1>2. \A i \in DOMAIN a : i + 1 \in DOMAIN s /\ a[i] = s[i + 1] /\ i + 1 # 1
    BY <1>1
  <1>3. \A i \in DOMAIN s : i # 1 => i - 1 \in DOMAIN a /\ a[i - 1] = s[i]
    BY <1>1
  <1>4. ToSet(a) \subseteq ToSet(s) /\ Head(s) \in ToSet(s)
    <2>1. ASSUME NEW x \in ToSet(a) PROVE x \in ToSet(s)
      <3>1. PICK i \in DOMAIN a : x = a[i]
        BY DEF ToSet
      <3>2. i + 1 \in DOMAIN s /\ x = s[i + 1]
        BY <1>2, <3>1
      <3> QED
        BY <3>2 DEF ToSet
    <2>2. 1 \in DOMAIN s
      BY <1>1
    <2> QED
      BY <1>1, <2>1, <2>2 DEF ToSet
  <1>5. ASSUME Distinct(s) PROVE Distinct(a) /\ ToSet(a) = ToSet(s) \ {Head(s)}
    <2>1. Distinct(a)
      BY <1>1, <1>2, <1>5 DEF Distinct
    <2>2. ASSUME NEW x \in ToSet(a) PROVE x \in ToSet(s) \ {Head(s)}
      <3>1. PICK i \in DOMAIN a : x = a[i]
        BY DEF ToSet
      <3>2. i + 1 \in DOMAIN s /\ x = s[i + 1] /\ i + 1 # 1 /\ 1 \in DOMAIN s
        BY <1>1, <1>2, <3>1
      <3>3. x # s[1]
        BY <1>5, <3>2 DEF Distinct
      <3>4. x \in ToSet(s)
        BY <3>2 DEF ToSet
      <3> QED
        BY <1>1, <3>3, <3>4
    <2>3. ASSUME NEW x \in ToSet(s) \ {Head(s)} PROVE x \in ToSet(a)
      <3>1. PICK i \in DOMAIN s : x = s[i]
        BY DEF ToSet
      <3>2. i - 1 \in DOMAIN a /\ x = a[i - 1]
        BY <1>1, <1>3, <3>1
      <3> QED
        BY <3>2 DEF ToSet
    <2> QED
      BY <2>1, <2>2, <2>3
  <1>6. Len(a) <= Len(s)
    BY <1>1
  <1> QED
    BY <1>1, <1>4, <1>5, <1>6 DEF a

LEMMA LastTaken ==
  ASSUME NEW S, NEW s \in Seq(S), s # <<>>
  PROVE  /\ Last(s) \in S /\ Last(s) \in ToSet(s)
         /\ Front(s) \in Seq(S) /\ Len(Front(s)) <= Len(s)
         /\ ToSet(Front(s)) \subseteq ToSet(s)
         /\ Distinct(s) => Distinct(Front(s)) /\ ToSet(Front(s)) = ToSet(s) \ {Last(s)}
  <1> DEFINE a == Front(s)
  <1>0. Len(s) \in Nat \ {0} /\ DOMAIN s = 1 .. Len(s)
    BY LenProperties, EmptySeq
  <1>1. /\ a \in Seq(S) /\ Len(a) = Len(s) - 1
        /\ \A i \in 1 .. Len(a) : a[i] = s[i]
    BY <1>0, SubSeqProperties DEF Front
  <1>2. DOMAIN a = 1 .. Len(s) - 1 /\ Last(s) = s[Len(s)] /\ Last(s) \in S
    BY <1>0, <1>1, LenProperties, ElementOfSeq DEF Last
  <1> HIDE DEF a
  <1>3. \A i \in DOMAIN a : i \in DOMAIN s /\ a[i] = s[i] /\ i # Len(s)
    BY <1>0, <1>1, <1>2
  <1>4. \A i \in DOMAIN s : i # Len(s) => i \in DOMAIN a /\ a[i] = s[i]
    BY <1>0, <1>1, <1>2
  <1>5. ToSet(a) \subseteq ToSet(s) /\ Last(s) \in ToSet(s) /\ Len(s) \in DOMAIN s
    BY <1>0, <1>2, <1>3 DEF ToSet
  <1>6. ASSUME Distinct(s) PROVE Distinct(a) /\ ToSet(a) = ToSet(s) \ {Last(s)}
    <2>1. Distinct(a)
      BY <1>3, <1>6 DEF Distinct
    <2>2. ToSet(a) \subseteq ToSet(s) \ {Last(s)}
      BY <1>2, <1>3, <1>5, <1>6 DEF ToSet, Distinct
    <2>3. ToSet(s) \ {Last(s)} \subseteq ToSet(a)
      BY <1>2, <1>4 DEF ToSet
    <2> QED
      BY <2>1, <2>2, <2>3
  <1>7. Len(a) <= Len(s)
    BY <1>0, <1>1
  <1> QED
    BY <1>1, <1>2, <1>5, <1>6, <1>7 DEF a

LEMMA PutFirst ==
  ASSUME NEW S, NEW s \in Seq(S), NEW x \in S
  PROVE  /\ <<x>> \o s \in Seq(S)
         /\ ToSet(<<x>> \o s) = ToSet(s) \cup {x}
         /\ Distinct(s) /\ x \notin ToSet(s) => Distinct(<<x>> \o s)
  <1> DEFINE a == <<x>> \o s
             o == <<x>>
  <1>1. o \in Seq(S) /\ Len(o) = 1 /\ o[1] = x
    OBVIOUS
  <1> HIDE DEF o
  <1>2. /\ o \o s \in Seq(S) /\ Len(o \o s) = Len(o) + Len(s)
        /\ \A i \in 1 .. Len(o) + Len(s) :
             (o \o s)[i] = IF i <= Len(o) THEN o[i] ELSE s[i - Len(o)]
    BY <1>1, ConcatProperties
  <1>3. a = o \o s
    BY DEF o
  <1> HIDE DEF a
  <1>4. /\ a \in Seq(S) /\ Len(s) \in Nat /\ DOMAIN s = 1 .. Len(s)
        /\ DOMAIN a = 1 .. 1 + Len(s)
    BY <1>1, <1>2, <1>3, LenProperties
  <1>5. \A i \in 1 .. 1 + Len(s) : a[i] = IF i <= 1 THEN x ELSE s[i - 1]
    BY <1>1, <1>2, <1>3, <1>4
  <1>6. 1 \in DOMAIN a /\ a[1] = x
    BY <1>4, <1>5
  <1>7. \A i \in DOMAIN a : i # 1 => i - 1 \in DOMAIN s /\ a[i] = s[i - 1]
    BY <1>4, <1>5
  <1>8. \A i \in DOMAIN s : i + 1 \in DOMAIN a /\ a[i + 1] = s[i]
    BY <1>4, <1>5
  <1>9. ToSet(a) \subseteq ToSet(s) \cup {x}
    BY <1>6, <1>7 DEF ToSet
  <1>10. ToSet(s) \cup {x} \subseteq ToSet(a)
    BY <1>6, <1>8 DEF ToSet
  <1>11. ASSUME Distinct(s), x \notin ToSet(s) PROVE Distinct(a)
    <2>1. SUFFICES ASSUME NEW i \in DOMAIN a, NEW j \in DOMAIN a, a[i] = a[j] PROVE i = j
      BY DEF Distinct
    <2>2. CASE i = 1 \/ j = 1
      BY <1>6, <1>7, <1>11, <2>1, <2>2 DEF ToSet
    <2>3. CASE i # 1 /\ j # 1
      <3>1. i - 1 = j - 1
        BY <1>7, <1>11, <2>1, <2>3 DEF Distinct
      <3> QED
        BY <1>4, <3>1
    <2> QED
      BY <2>2, <2>3
  <1> QED
    BY <1>4, <1>9, <1>10, <1>11 DEF a

-----------------------------------------------------------------------------
(* Frames *)

\* What a step that puts m at f leaves.
Moved(m, f) ==
  /\ frame' \in [M -> FrameSet] /\ frame'[m] = f /\ FrameOK(f)
  /\ \A x \in M : x # m => frame'[x] = frame[x]

LEMMA SetMoves ==
  ASSUME FrameTypes, NEW m \in M, NEW f, FrameOK(f), Set(m, f)
  PROVE  Moved(m, f)
  BY DEF FrameTypes, FrameOK, Set, Moved

LEMMA NullIsNone == NULL \notin M /\ NULL \notin G /\ NULL \notin P
  BY SchedulerAssumption

LEMMA PlainFrame ==
  ASSUME NEW at \in Places \ (Handing \cup Calls \cup {"returned"})
  PROVE  FrameOK(Frame(at))
  BY NullIsNone DEF FrameOK, FrameSet, Frame, Handing, Calls, Places

LEMMA ExecuteFrame ==
  ASSUME NEW g \in G
  PROVE  FrameOK([Frame("execute") EXCEPT !.g = g])
  BY NullIsNone DEF FrameOK, FrameSet, Frame, Handing, Calls, Places

LEMMA ReturnedFrame ==
  ASSUME NEW g \in G
  PROVE  FrameOK([Frame("returned") EXCEPT !.g = g])
  BY NullIsNone DEF FrameOK, FrameSet, Frame, Handing, Calls, Places, GCode

LEMMA ReadyFrame ==
  ASSUME NEW g \in G, NEW then \in Callers
  PROVE  FrameOK([Frame("ready") EXCEPT !.g = g, !.then = then])
  BY NullIsNone DEF FrameOK, FrameSet, Frame, Handing, Calls, Places

LEMMA SpawnFrame ==
  ASSUME NEW g \in G, NEW m \in M, NEW then \in {"user", "main"}
  PROVE  FrameOK([Frame("spawn") EXCEPT !.g = g, !.self = m, !.then = then])
  BY NullIsNone DEF FrameOK, FrameSet, Frame, Handing, Calls, Places, Callers

LEMMA WakeFrame ==
  ASSUME NEW then \in Callers
  PROVE  FrameOK([Frame("wake") EXCEPT !.then = then])
  BY NullIsNone DEF FrameOK, FrameSet, Frame, Handing, Calls, Places

LEMMA SelfFrame ==
  ASSUME NEW m \in M, NEW at \in {"yield", "exit"}
  PROVE  FrameOK([Frame(at) EXCEPT !.self = m])
  BY NullIsNone DEF FrameOK, FrameSet, Frame, Handing, Calls, Places, GCode

LEMMA StealFrame ==
  ASSUME NEW S \in SUBSET P
  PROVE  FrameOK([Frame("steal") EXCEPT !.left = S])
  BY NullIsNone DEF FrameOK, FrameSet, Frame, Handing, Calls, Places

LEMMA WokenFrame ==
  ASSUME NEW at \in Places \ (Handing \cup Calls \cup {"returned"}), NEW b \in BOOLEAN
  PROVE  FrameOK([Frame(at) EXCEPT !.woken = b])
  BY NullIsNone DEF FrameOK, FrameSet, Frame, Handing, Calls, Places

\* The steps that change a field of the frame in place.
LEMMA AtFrame ==
  ASSUME NEW f, FrameOK(f), f.w = NULL,
         NEW at \in Places \ (Handing \cup {"returned", "wake_bind"}),
         at \in Calls => f.at \in Calls
  PROVE  FrameOK([f EXCEPT !.at = at])
  BY NullIsNone DEF FrameOK, FrameSet, Handing, Calls, Places

LEMMA UnlinkFrame ==
  ASSUME NEW f, FrameOK(f), f.at \in Calls, NEW w \in M
  PROVE  FrameOK([f EXCEPT !.at = "wake_bind", !.w = w])
  BY NullIsNone DEF FrameOK, FrameSet, Handing, Calls, Places

LEMMA QueueFrame ==
  ASSUME NEW f, FrameOK(f), f.at = "ready", NEW m \in M, NEW p \in P \cup {NULL}
  PROVE  FrameOK([f EXCEPT !.at = "queue", !.self = m, !.p = p])
  BY NullIsNone DEF FrameOK, FrameSet, Handing, Calls, Places

LEMMA LeftFrame ==
  ASSUME NEW f, FrameOK(f), f.at = "steal", NEW p
  PROVE  FrameOK([f EXCEPT !.left = @ \ {p}])
  BY NullIsNone DEF FrameOK, FrameSet, Handing, Calls, Places

LEMMA CallerFrame ==
  ASSUME FrameTypes, NEW m \in M, frame[m].at \in Calls
  PROVE  FrameOK(Caller(m)) /\ Caller(m).at = frame[m].then /\ Caller(m).w = NULL
         /\ Caller(m).woken = (frame[m].then \in {"poll", "poll_blocking"})
         /\ Caller(m).left = {}
  <1>1. frame[m].then \in Callers
    BY DEF FrameTypes, FrameOK
  <1>2. frame[m].then \in Places \ (Handing \cup Calls \cup {"returned"})
    BY <1>1 DEF Callers, Places, Handing, Calls, GCode
  <1> DEFINE t == frame[m].then
             b == t \in {"poll", "poll_blocking"}
  <1>4. Caller(m) = [Frame(t) EXCEPT !.woken = b]
    BY DEF Caller
  <1>5. b \in BOOLEAN /\ t \in Places \ (Handing \cup Calls \cup {"returned"})
    BY <1>2
  <1>6. b = (frame[m].then \in {"poll", "poll_blocking"}) /\ t = frame[m].then
    OBVIOUS
  <1> HIDE DEF t, b
  <1>7. FrameOK([Frame(t) EXCEPT !.woken = b])
    BY <1>5, WokenFrame
  <1>8. /\ [Frame(t) EXCEPT !.woken = b].at = t /\ [Frame(t) EXCEPT !.woken = b].w = NULL
        /\ [Frame(t) EXCEPT !.woken = b].woken = b /\ [Frame(t) EXCEPT !.woken = b].left = {}
    BY DEF Frame
  <1> QED
    BY <1>4, <1>6, <1>7, <1>8

-----------------------------------------------------------------------------
(* Where each step of an M leaves it *)

\* What the steps of m start from.
Before(m) == Always /\ fate = "ok" /\ WhileOk /\ m \in M

LEMMA HasG ==
  ASSUME NEW m, Before(m), GSide(frame[m])
  PROVE  current_g[m] \in G
  BY DEF Before, Always, Shape, ShapeOf, ShapeAt, FieldTypes, OtherTypes

LEMMA HasP ==
  ASSUME NEW m, Before(m), frame[m].at \notin NoProc \cup {"loop", "parked"}
  PROVE  current_p[m] \in P
  BY DEF Before, Always, Shape, ShapeOf, ShapeAt, FieldTypes, ProcTypes

LEMMA LoopTopMoves ==
  ASSUME NEW m, Before(m), LoopTop(m)
  PROVE  \/ Moved(m, Frame("find_local"))
         \/ current_p[m] = NULL /\ idle_p = <<>> /\ keepP /\ Moved(m, Frame("no_p"))
  BY SetMoves, PlainFrame DEF LoopTop, Goto, Set, Before, Always, Places, Handing, Calls, NoProc

LEMMA FindLocalMoves ==
  ASSUME NEW m, Before(m), FindLocal(m)
  PROVE  LET p == current_p[m]
         IN  /\ p \in P
             /\ \/ /\ local[p] # <<>> /\ Last(local[p]) \in G
                   /\ Moved(m, [Frame("execute") EXCEPT !.g = Last(local[p])])
                \/ /\ local[p] = <<>> /\ local' = local
                   /\ Moved(m, [frame[m] EXCEPT !.at = "find_global"])
  <1>1. current_p[m] \in P /\ local[current_p[m]] \in Seq(G) /\ frame[m].w = NULL
    BY HasP
       DEF FindLocal, At, Before, Always, FieldTypes, ListTypes, FrameTypes, FrameOK, NoProc
  <1>2. local[current_p[m]] # <<>> => Last(local[current_p[m]]) \in G
    BY <1>1, LastTaken
  <1> QED
    BY <1>1, <1>2, SetMoves, ExecuteFrame, AtFrame
       DEF FindLocal, At, Before, Always, Places, Handing, Calls, FrameTypes

LEMMA FindGlobalMoves ==
  ASSUME NEW m, Before(m), FindGlobal(m)
  PROVE  \/ /\ global # <<>> /\ Head(global) \in G
            /\ Moved(m, [Frame("execute") EXCEPT !.g = Head(global)])
         \/ /\ global = <<>> /\ global' = global /\ frame[m].woken
            /\ Moved(m, [Frame("steal") EXCEPT !.left = P \ {current_p[m]}])
         \/ /\ global = <<>> /\ global' = global /\ ~frame[m].woken
            /\ Moved(m, Frame("poll"))
  <1>1. global # <<>> => Head(global) \in G
    BY HeadTaken DEF Before, Always, FieldTypes, ListTypes
  <1> QED
    BY <1>1, SetMoves, ExecuteFrame, StealFrame, PlainFrame
       DEF FindGlobal, Before, Always, Places, Handing, Calls, FrameTypes

LEMMA PollReadyMoves ==
  ASSUME NEW m, Before(m), PollReady(m)
  PROVE  \E g \in ready_io :
           /\ g \in G /\ ready_io' = ready_io \ {g} /\ io' = io \ {g}
           /\ Moved(m, [Frame("ready") EXCEPT !.g = g, !.then = frame[m].at])
  <1>1. PICK g \in ready_io : /\ ready_io' = ready_io \ {g} /\ io' = io \ {g}
                              /\ Set(m, [Frame("ready") EXCEPT !.g = g, !.then = frame[m].at])
    BY DEF PollReady
  <1>2. g \in G
    BY SchedulerAssumption DEF Before, Always, FieldTypes, OtherTypes
  <1>3. frame[m].at \in Callers
    BY DEF PollReady, At, Callers
  <1> QED
    BY <1>1, <1>2, <1>3, ReadyFrame, SetMoves DEF Before, Always

LEMMA PollDoneMoves ==
  ASSUME NEW m, Before(m), PollDone(m)
  PROVE  \/ frame[m].woken /\ Moved(m, [Frame("find_local") EXCEPT !.woken = TRUE])
         \/ ~frame[m].woken /\ Moved(m, [Frame("steal") EXCEPT !.left = P \ {current_p[m]}])
  BY SetMoves, WokenFrame, StealFrame
     DEF PollDone, Before, Always, Places, Handing, Calls, FrameTypes

LEMMA StealMoves ==
  ASSUME NEW m, Before(m), Steal(m)
  PROVE  \E p \in frame[m].left :
           /\ p \in P
           /\ \/ /\ local[p] # <<>> /\ Head(local[p]) \in G
                 /\ local' = [local EXCEPT ![p] = Tail(local[p])]
                 /\ Moved(m, [Frame("execute") EXCEPT !.g = Head(local[p])])
              \/ /\ local[p] = <<>> \/ NumPs > 2
                 /\ local' = local
                 /\ Moved(m, [frame[m] EXCEPT !.left = @ \ {p}])
  <1>0. FrameTypes /\ m \in M /\ FieldTypes
    BY DEF Before, Always
  <1>1. PICK p \in frame[m].left :
          \/ /\ local[p] # <<>> /\ local' = [local EXCEPT ![p] = Tail(@)]
             /\ Set(m, [Frame("execute") EXCEPT !.g = Head(local[p])])
          \/ /\ local[p] = <<>> \/ NumPs > 2
             /\ UNCHANGED local /\ Set(m, [frame[m] EXCEPT !.left = @ \ {p}])
    BY DEF Steal
  <1>2. p \in P
    BY <1>0 DEF FrameTypes, FrameSet
  <1>3. local[p] \in Seq(G)
    BY <1>0, <1>2 DEF FieldTypes, ListTypes
  <1>4. local[p] # <<>> => Head(local[p]) \in G
    BY <1>3, HeadTaken
  <1>5. FrameOK([frame[m] EXCEPT !.left = @ \ {p}])
    BY <1>0, LeftFrame DEF Steal, At, FrameTypes
  <1>6. CASE /\ local[p] # <<>> /\ local' = [local EXCEPT ![p] = Tail(@)]
             /\ Set(m, [Frame("execute") EXCEPT !.g = Head(local[p])])
    BY <1>0, <1>2, <1>4, <1>6, ExecuteFrame, SetMoves
  <1>7. CASE /\ local[p] = <<>> \/ NumPs > 2
             /\ UNCHANGED local /\ Set(m, [frame[m] EXCEPT !.left = @ \ {p}])
    BY <1>0, <1>2, <1>5, <1>7, SetMoves
  <1> QED
    BY <1>1, <1>6, <1>7

LEMMA NoWorkMoves ==
  ASSUME NEW m, Before(m), NoWork(m)
  PROVE  \/ live <= 0 /\ ReleaseP(m) /\ Moved(m, Frame("exited"))
         \/ ~(live <= 0) /\ keepP /\ registered /\ Moved(m, Frame("poll_blocking"))
         \/ ~(live <= 0) /\ keepP /\ ~registered /\ Moved(m, Frame("give_up"))
  BY SetMoves, PlainFrame
     DEF NoWork, Goto, Set, Before, Always, Places, Handing, Calls, FrameTypes, NoProc

LEMMA GiveUpMoves ==
  ASSUME NEW m, Before(m), GiveUp(m)
  PROVE  \/ NumPs > 1 /\ ReleaseP(m) /\ Moved(m, Frame("park"))
         \/ ~(NumPs > 1) /\ keepP /\ Moved(m, frame[m])
  BY SetMoves, PlainFrame
     DEF GiveUp, Goto, Set, Before, Always, Places, Handing, Calls, FrameTypes, NoProc, Moved

LEMMA ExecuteMoves ==
  ASSUME NEW m, Before(m), Execute(m)
  PROVE  Moved(m, Frame("switch_in")) /\ frame[m].g \in G
  <1>0. m \in M /\ FrameTypes
    BY DEF Before, Always
  <1>1. FrameOK(Frame("switch_in"))
    BY PlainFrame DEF Places, Handing, Calls, GCode
  <1>2. Set(m, Frame("switch_in"))
    BY DEF Execute, Goto, Set
  <1>3. frame[m].g \in G
    BY <1>0 DEF Execute, At, Handing, FrameTypes, FrameOK
  <1> QED
    BY <1>0, <1>1, <1>2, <1>3, SetMoves

LEMMA SwitchInMoves ==
  ASSUME NEW m, Before(m), SwitchIn(m)
  PROVE  current_g[m] \in G /\ Moved(m, resume[current_g[m]])
  <1>1. current_g[m] \in G
    BY HasG DEF SwitchIn, At, GSide, GCode
  <1> QED
    BY <1>1, SetMoves DEF SwitchIn, Before, Always, FrameTypes

LEMMA SwitchOutMoves ==
  ASSUME NEW m, Before(m), SwitchOut(m)
  PROVE  /\ current_g[m] \in G
         /\ Moved(m, [Frame("returned") EXCEPT !.g = current_g[m]])
  <1>1. current_g[m] \in G
    BY HasG DEF SwitchOut, At, GSide, GCode
  <1> QED
    BY <1>1, SetMoves, ReturnedFrame DEF SwitchOut, Before, Always

LEMMA SpawnMoves ==
  ASSUME NEW m, Before(m), Spawn(m)
  PROVE  \/ /\ current_g[frame[m].self] = NULL
            /\ Moved(m, [Frame("wake") EXCEPT !.then = frame[m].then])
         \/ /\ current_g[frame[m].self] # NULL /\ frame[m].then \in {"user", "main"}
            /\ Moved(m, Frame(frame[m].then))
  <1>0. FrameTypes /\ m \in M
    BY DEF Before, Always
  <1>1. frame[m].then \in {"user", "main"}
    BY <1>0 DEF Spawn, At, FrameTypes, FrameOK
  <1> DEFINE t == frame[m].then
  <1>2. t \in Callers /\ t \in Places \ (Handing \cup Calls \cup {"returned"})
    BY <1>1 DEF Callers, Places, Handing, Calls, GCode
  <1>3. FrameOK(Frame(t)) /\ FrameOK([Frame("wake") EXCEPT !.then = t])
    <2> HIDE DEF t
    <2> QED
      BY <1>2, PlainFrame, WakeFrame
  <1> QED
    BY <1>0, <1>1, <1>3, SetMoves DEF Spawn

LEMMA BeginSpawnMoves ==
  ASSUME NEW m, Before(m), NEW g \in G, BeginSpawn(m, g)
  PROVE  /\ frame[m].at \in {"user", "main"}
         /\ Moved(m, [Frame("spawn") EXCEPT !.g = g, !.self = m, !.then = frame[m].at])
  BY SetMoves, SpawnFrame DEF BeginSpawn, InUser, At, Before, Always

LEMMA QueueMoves ==
  ASSUME NEW m, Before(m), Queue(m)
  PROVE  Moved(m, [Frame("wake") EXCEPT !.then = frame[m].then])
  BY SetMoves, WakeFrame DEF Queue, At, Before, Always, FrameTypes, FrameOK, Calls

LEMMA GReadyMoves ==
  ASSUME NEW m, Before(m), GReady(m)
  PROVE  \E p \in P \cup {NULL} :
           Moved(m, [frame[m] EXCEPT !.at = "queue", !.self = m, !.p = p])
  <1> DEFINE l == last_p[frame[m].g]
             p == IF l # NULL /\ p_status[l] = "P_RUNNING" THEN l ELSE NULL
  <1>0. FrameTypes /\ m \in M /\ FieldTypes /\ frame[m].g \in G /\ frame[m].at = "ready"
    BY DEF Before, Always, GReady, At, FrameTypes, FrameOK, Handing
  <1>1. p \in P \cup {NULL}
    BY <1>0 DEF FieldTypes, ProcTypes, OtherTypes
  <1>2. Set(m, [frame[m] EXCEPT !.at = "queue", !.self = m, !.p = p])
    BY DEF GReady
  <1> HIDE DEF p
  <1> QED
    BY <1>0, <1>1, <1>2, SetMoves, QueueFrame DEF FrameTypes

LEMMA WakeMoves ==
  ASSUME NEW m, Before(m), Wake(m)
  PROVE  \/ idle_p = <<>> /\ notified' = notified /\ Moved(m, Caller(m))
         \/ idle_p # <<>> /\ Moved(m, [frame[m] EXCEPT !.at = "wake_m"])
  <1>0. FrameTypes /\ m \in M /\ frame[m].at \in Calls /\ frame[m].w = NULL
    BY DEF Before, Always, Wake, At, FrameTypes, FrameOK, Calls
  <1>1. FrameOK(Caller(m))
    BY <1>0, CallerFrame
  <1>2. FrameOK([frame[m] EXCEPT !.at = "wake_m"])
    BY <1>0, AtFrame DEF FrameTypes, Places, Handing, Calls
  <1> QED
    BY <1>0, <1>1, <1>2, SetMoves DEF Wake, Back

LEMMA WakeMMoves ==
  ASSUME NEW m, Before(m), WakeM(m)
  PROVE  \/ /\ idle_m # <<>> /\ Head(idle_m) \in M
            /\ Moved(m, [frame[m] EXCEPT !.at = "wake_bind", !.w = Head(idle_m)])
         \/ /\ idle_m = <<>> /\ idle_m' = idle_m
            /\ Moved(m, [frame[m] EXCEPT !.at = "wake_new"])
  <1>0. FrameTypes /\ m \in M /\ frame[m].at \in Calls /\ frame[m].w = NULL
    BY DEF Before, Always, WakeM, At, FrameTypes, FrameOK, Calls
  <1>1. idle_m # <<>> => Head(idle_m) \in M
    BY HeadTaken DEF Before, Always, FieldTypes, OtherTypes
  <1>2. FrameOK([frame[m] EXCEPT !.at = "wake_new"])
    BY <1>0, AtFrame DEF FrameTypes, Places, Handing, Calls
  <1>3. idle_m # <<>> => FrameOK([frame[m] EXCEPT !.at = "wake_bind", !.w = Head(idle_m)])
    BY <1>0, <1>1, UnlinkFrame DEF FrameTypes
  <1> QED
    BY <1>0, <1>1, <1>2, <1>3, SetMoves DEF WakeM

LEMMA WakeBindMoves ==
  ASSUME NEW m, Before(m), WakeBind(m)
  PROVE  Moved(m, Caller(m)) /\ frame[m].w \in M
  <1>0. FrameTypes /\ m \in M /\ frame[m].at \in Calls /\ frame[m].w # NULL
    BY DEF Before, Always, WakeBind, At, FrameTypes, FrameOK, Calls
  <1>1. FrameOK(Caller(m)) /\ frame[m].w \in M
    BY <1>0, CallerFrame DEF FrameTypes, FrameSet
  <1> QED
    BY <1>0, <1>1, SetMoves DEF WakeBind, Back

LEMMA SimpleMoves ==
  ASSUME NEW m, Before(m)
  PROVE  /\ NoP(m) => Moved(m, Frame(IF live <= 0 THEN "exited" ELSE "park"))
         /\ Park(m) => Moved(m, Frame("parked"))
         /\ Unparked(m) => Moved(m, Frame("loop"))
         /\ PollBlockingDone(m) => Moved(m, Frame(IF frame[m].woken THEN "loop" ELSE "give_up"))
         /\ Returned(m) =>
              Moved(m, Frame(IF status[frame[m].g] = "G_DEAD" /\ live - 1 <= 0
                             THEN "last_died" ELSE "loop"))
         /\ LastDied(m) => Moved(m, Frame("loop"))
         /\ Yield(m) => Moved(m, Frame("switch"))
         /\ Exit(m) => Moved(m, Frame("switch"))
         /\ Block(m) => Moved(m, Frame("switch"))
         /\ WaitIo(m) => Moved(m, Frame("switch"))
         /\ RunScheduler(m) => Moved(m, Frame("loop"))
         /\ BeginYield(m) => Moved(m, [Frame("yield") EXCEPT !.self = m])
         /\ BeginExit(m) => Moved(m, [Frame("exit") EXCEPT !.self = m])
         /\ Preempt(m) => Moved(m, [Frame("yield") EXCEPT !.self = m])
  <1>0. FrameTypes /\ m \in M
    BY DEF Before, Always
  <1>1. ASSUME NEW at \in Places \ (Handing \cup Calls \cup {"returned"}), Goto(m, at)
        PROVE  Moved(m, Frame(at))
    BY <1>0, <1>1, SetMoves, PlainFrame DEF Goto, Set
  <1>2. ASSUME NEW at \in {"yield", "exit"}, Set(m, [Frame(at) EXCEPT !.self = m])
        PROVE  Moved(m, [Frame(at) EXCEPT !.self = m])
    BY <1>0, <1>2, SetMoves, SelfFrame
  <1>3. {"exited", "park", "parked", "loop", "give_up", "last_died", "switch"}
           \subseteq Places \ (Handing \cup Calls \cup {"returned"})
    BY DEF Places, Handing, Calls, GCode, NoProc
  <1>4. ASSUME NoP(m) PROVE Moved(m, Frame(IF live <= 0 THEN "exited" ELSE "park"))
    BY <1>1, <1>3, <1>4 DEF NoP
  <1>5. ASSUME PollBlockingDone(m)
        PROVE  Moved(m, Frame(IF frame[m].woken THEN "loop" ELSE "give_up"))
    BY <1>1, <1>3, <1>5 DEF PollBlockingDone
  <1>6. ASSUME Returned(m)
        PROVE  Moved(m, Frame(IF status[frame[m].g] = "G_DEAD" /\ live - 1 <= 0
                              THEN "last_died" ELSE "loop"))
    BY <1>1, <1>3, <1>6 DEF Returned
  <1>7. (Park(m) => Moved(m, Frame("parked"))) /\ (Unparked(m) => Moved(m, Frame("loop")))
    BY <1>1, <1>3 DEF Park, Unparked
  <1>8. /\ LastDied(m) => Moved(m, Frame("loop"))
        /\ RunScheduler(m) => Moved(m, Frame("loop"))
    BY <1>1, <1>3 DEF LastDied, RunScheduler
  <1>9. /\ Yield(m) \/ Exit(m) \/ Block(m) \/ WaitIo(m) => Moved(m, Frame("switch"))
    BY <1>1, <1>3 DEF Yield, Exit, Block, WaitIo
  <1>10. /\ BeginYield(m) \/ Preempt(m) => Moved(m, [Frame("yield") EXCEPT !.self = m])
         /\ BeginExit(m) => Moved(m, [Frame("exit") EXCEPT !.self = m])
    BY <1>2 DEF BeginYield, Preempt, BeginExit
  <1> QED
    BY <1>4, <1>5, <1>6, <1>7, <1>8, <1>9, <1>10

LEMMA BeginReadyMoves ==
  ASSUME NEW m, Before(m), NEW g \in G, BeginReady(m, g)
  PROVE  Moved(m, [Frame("ready") EXCEPT !.g = g, !.then = "user"])
  <1> DEFINE f == [Frame("ready") EXCEPT !.g = g, !.then = "user"]
  <1>1. FrameOK(f)
    BY ReadyFrame, Zenon DEF Callers
  <1>2. Set(m, f)
    BY DEF BeginReady
  <1> HIDE DEF f
  <1>3. Moved(m, f)
    BY <1>1, <1>2, SetMoves DEF Before, Always
  <1> QED
    BY <1>3 DEF f

LEMMA WakeNewMoves ==
  ASSUME NEW m, Before(m), WakeNew(m)
  PROVE  \/ Moved(m, Caller(m)) /\ keepP
         \/ \E x \in M :
              /\ At(x, "unborn") /\ x # m /\ AcquireP(x)
              /\ frame' \in [M -> FrameSet] /\ frame'[x] = Frame("loop")
              /\ frame'[m] = Caller(m)
              /\ FrameOK(Frame("loop")) /\ FrameOK(Caller(m))
              /\ \A y \in M : y # m /\ y # x => frame'[y] = frame[y]
  <1>0. FrameTypes /\ m \in M /\ frame[m].at \in Calls
    BY DEF Before, Always, WakeNew, At, Calls
  <1>1. FrameOK(Caller(m)) /\ FrameOK(Frame("loop"))
    BY <1>0, CallerFrame, PlainFrame DEF Places, Handing, Calls
  <1>2. CASE Back(m) /\ keepP
    BY <1>0, <1>1, <1>2, SetMoves DEF Back
  <1>3. ASSUME NEW x \in M, At(x, "unborn"), AcquireP(x),
               frame' = [frame EXCEPT ![x] = Frame("loop"), ![m] = Caller(m)]
        PROVE  /\ x # m /\ frame' \in [M -> FrameSet] /\ frame'[x] = Frame("loop")
               /\ frame'[m] = Caller(m)
               /\ \A y \in M : y # m /\ y # x => frame'[y] = frame[y]
    <2>1. x # m
      BY <1>3 DEF WakeNew, At
    <2> QED
      BY <1>0, <1>1, <1>3, <2>1 DEF FrameTypes, FrameOK
  <1> QED
    BY <1>1, <1>2, <1>3 DEF WakeNew

-----------------------------------------------------------------------------
(* Types *)

\* Where a step puts a G: at the end of one queue.
Pushed(q, g) ==
  /\ q \in Queues /\ g \in G
  /\ List(q)' = Append(List(q), g)
  /\ \A r \in Queues : r # q => List(r)' = List(r)
  /\ q # NULL => Len(local[q]) < LocalSize
  /\ local' \in [P -> Seq(G)] /\ global' \in Seq(G)

LEMMA LocalPushed ==
  ASSUME FieldTypes, NEW p \in P, NEW g \in G, PushLocal(p, g)
  PROVE  \E q \in Queues : Pushed(q, g)
  <1>1. local[p] \in Seq(G) /\ Append(local[p], g) \in Seq(G) /\ Append(global, g) \in Seq(G)
    BY AppendProperties DEF FieldTypes, ListTypes
  <1>2. CASE Len(local[p]) < LocalSize
    <2>1. local' = [local EXCEPT ![p] = Append(local[p], g)] /\ global' = global
      BY <1>2 DEF PushLocal
    <2>2. Pushed(p, g)
      BY <1>1, <1>2, <2>1, NullIsNone DEF Pushed, Queues, List, FieldTypes, ListTypes
    <2> QED
      BY <2>2 DEF Queues
  <1>3. CASE ~(Len(local[p]) < LocalSize)
    <2>1. global' = Append(global, g) /\ local' = local
      BY <1>3 DEF PushLocal
    <2>2. Pushed(NULL, g)
      BY <1>1, <2>1, NullIsNone DEF Pushed, Queues, List, FieldTypes, ListTypes
    <2> QED
      BY <2>2 DEF Queues
  <1> QED
    BY <1>2, <1>3

LEMMA GlobalPushed ==
  ASSUME FieldTypes, NEW g \in G, PushGlobal(g)
  PROVE  \E q \in Queues : Pushed(q, g)
  <1>1. Append(global, g) \in Seq(G)
    BY AppendProperties DEF FieldTypes, ListTypes
  <1>2. Pushed(NULL, g)
    BY <1>1, NullIsNone DEF Pushed, Queues, List, FieldTypes, ListTypes, PushGlobal
  <1> QED
    BY <1>2 DEF Queues

LEMMA PushedTypes ==
  ASSUME FieldTypes, NEW q, NEW g, Pushed(q, g)
  PROVE  ListTypes'
  <1>1. ASSUME NEW p \in P PROVE Len(local'[p]) <= LocalSize
    <2>1. p \in Queues /\ p # NULL /\ List(p) = local[p] /\ List(p)' = local'[p]
            /\ local[p] \in Seq(G)
      BY NullIsNone DEF Queues, List, FieldTypes, ListTypes
    <2>2. CASE p = q
      <3>1. local'[p] = Append(local[p], g) /\ Len(local[p]) < LocalSize /\ g \in G
        BY <2>1, <2>2 DEF Pushed
      <3>2. Len(local'[p]) = Len(local[p]) + 1 /\ Len(local[p]) \in Nat
        BY <2>1, <3>1, AppendProperties, LenProperties
      <3> QED
        BY <3>1, <3>2, SchedulerAssumption
    <2>3. CASE p # q
      BY <2>1, <2>3 DEF Pushed, FieldTypes, ListTypes
    <2> QED
      BY <2>2, <2>3
  <1> QED
    BY <1>1 DEF ListTypes, Pushed

LEMMA AcquireTypes ==
  ASSUME FieldTypes, NEW m \in M, AcquireP(m) PROVE ProcTypes' /\ Last(idle_p) \in P
  <1>1. idle_p \in Seq(P) /\ idle_p # <<>>
    BY DEF FieldTypes, ProcTypes, AcquireP
  <1>2. Last(idle_p) \in P /\ Front(idle_p) \in Seq(P)
    BY <1>1, LastTaken
  <1> QED
    BY <1>2 DEF FieldTypes, ProcTypes, AcquireP

LEMMA ReleaseTypes ==
  ASSUME FieldTypes, NEW m \in M, current_p[m] \in P, ReleaseP(m) PROVE ProcTypes'
  <1>1. idle_p \in Seq(P)
    BY DEF FieldTypes, ProcTypes
  <1>2. Append(idle_p, current_p[m]) \in Seq(P)
    BY <1>1, AppendProperties
  <1> QED
    BY <1>2 DEF FieldTypes, ProcTypes, ReleaseP

LEMMA KeepTypes == ASSUME FieldTypes, keepP PROVE ProcTypes'
  BY DEF FieldTypes, ProcTypes, keepP

\* The steps by what they do to the fields.
LEMMA StepFieldTypes ==
  ASSUME NEW m, Before(m), Step(m)
  PROVE  FieldTypes'
  <1>0. FieldTypes /\ FrameTypes /\ m \in M
    BY DEF Before, Always
  <1> USE DEF FieldTypes, ListTypes, ProcTypes, OtherTypes
  <1>1. CASE LoopTop(m)
    <2>1. ProcTypes'
      BY <1>0, <1>1, AcquireTypes, KeepTypes DEF LoopTop
    <2> QED
      BY <1>0, <1>1, <2>1 DEF LoopTop, gVars, preemptVars, ioVars
  <1>2. CASE NoP(m) \/ Unparked(m)
    BY <1>0, <1>2
       DEF NoP, Unparked, gVars, preemptVars, pVars, ioVars
  <1>3. CASE Park(m)
    <2>1. <<m>> \o idle_m \in Seq(M)
      BY <1>0, PutFirst
    <2> QED
      BY <1>0, <1>3, <2>1 DEF Park, gVars, preemptVars, pVars, ioVars
  <1>4. CASE FindLocal(m)
    <2>1. current_p[m] \in P /\ local[current_p[m]] \in Seq(G)
      BY <1>0, <1>4, FindLocalMoves
    <2>2. local[current_p[m]] # <<>> =>
            /\ Front(local[current_p[m]]) \in Seq(G)
            /\ Len(Front(local[current_p[m]])) <= Len(local[current_p[m]])
      BY <2>1, LastTaken
    <2>3. ListTypes'
      <3>1. CASE local[current_p[m]] = <<>>
        BY <1>0, <1>4, <3>1 DEF FindLocal
      <3>2. CASE local[current_p[m]] # <<>>
        <4>1. local' = [local EXCEPT ![current_p[m]] = Front(local[current_p[m]])]
          BY <1>4, <3>2 DEF FindLocal
        <4>2. global' = global
          BY <1>4 DEF FindLocal
        <4>3. Len(Front(local[current_p[m]])) <= LocalSize
          BY <1>0, <2>1, <2>2, <3>2, LenProperties, SchedulerAssumption
        <4> QED
          BY <1>0, <2>1, <2>2, <3>2, <4>1, <4>2, <4>3
      <3> QED
        BY <3>1, <3>2
    <2> QED
      BY <1>0, <1>4, <2>3 DEF FindLocal, gVars, preemptVars, ioVars
  <1>5. CASE FindGlobal(m)
    <2>1. global # <<>> => Tail(global) \in Seq(G)
      BY <1>0, HeadTaken
    <2> QED
      BY <1>0, <1>5, <2>1 DEF FindGlobal, gVars, preemptVars, pVars, ioVars
  <1>6. CASE PollReady(m)
    BY <1>0, <1>6 DEF PollReady, gVars, preemptVars, pVars
  <1>7. CASE PollDone(m) \/ PollBlockingDone(m)
    BY <1>0, <1>7 DEF PollDone, PollBlockingDone, gVars, preemptVars, pVars
  <1>8. CASE Steal(m)
    <2>1. PICK p \in P :
            \/ local[p] # <<>> /\ local' = [local EXCEPT ![p] = Tail(local[p])]
            \/ local' = local
      BY <1>0, <1>8, StealMoves
    <2>2. local[p] \in Seq(G)
      BY <1>0
    <2>3. local[p] # <<>> => Tail(local[p]) \in Seq(G) /\ Len(Tail(local[p])) <= Len(local[p])
      BY <2>2, HeadTaken
    <2>4. local[p] # <<>> => Len(Tail(local[p])) <= LocalSize
      BY <1>0, <2>2, <2>3, LenProperties, SchedulerAssumption
    <2>5. ListTypes'
      <3>0. global' = global
        BY <1>8 DEF Steal
      <3>1. CASE local' = local
        BY <1>0, <3>0, <3>1
      <3>2. CASE local[p] # <<>> /\ local' = [local EXCEPT ![p] = Tail(local[p])]
        BY <1>0, <2>3, <2>4, <3>0, <3>2
      <3> QED
        BY <2>1, <3>1, <3>2
    <2> QED
      BY <1>0, <1>8, <2>5 DEF Steal, gVars, preemptVars, ioVars
  <1>9. CASE NoWork(m)
    <2>1. ProcTypes'
      BY <1>0, <1>9, ReleaseTypes, KeepTypes, HasP DEF NoWork, At, NoProc
    <2> QED
      BY <1>0, <1>9, <2>1 DEF NoWork, gVars, preemptVars, ioVars
  <1>10. CASE GiveUp(m)
    <2>1. ProcTypes'
      BY <1>0, <1>10, ReleaseTypes, KeepTypes, HasP DEF GiveUp, At, NoProc
    <2> QED
      BY <1>0, <1>10, <2>1 DEF GiveUp, gVars, preemptVars, ioVars
  <1>11. CASE Execute(m)
    <2>1. frame[m].g \in G /\ current_p[m] \in P \cup {NULL}
      BY <1>0, <1>11, ExecuteMoves
    <2> QED
      BY <1>0, <1>11, <2>1 DEF Execute, preemptVars, pVars, ioVars
  <1>12. CASE SwitchIn(m) \/ SwitchOut(m)
    BY <1>0, <1>12 DEF SwitchIn, SwitchOut, preemptVars, pVars, ioVars
  <1>13. CASE Returned(m)
    BY <1>0, <1>13 DEF Returned, preemptVars, pVars, ioVars
  <1>14. CASE LastDied(m)
    <2>1. idle_m' \in Seq(M)
      BY <1>14, EmptySeq DEF LastDied
    <2>2. parked' \in [M -> BOOLEAN]
      BY <1>0, <1>14 DEF LastDied
    <2> QED
      BY <1>0, <1>14, <2>1, <2>2 DEF LastDied, gVars, preemptVars, pVars
  <1>15. CASE Yield(m)
    <2>1. current_g[m] \in G
      BY <1>0, <1>15, HasG DEF Yield, At, GSide, GCode, Before, Always, Shape, ShapeOf, ShapeAt
    <2>2. current_p[m] \in P \cup {NULL}
      BY <1>0
    <2>3. \E q \in Queues : Pushed(q, current_g[m])
      BY <1>0, <1>15, <2>1, <2>2, LocalPushed, GlobalPushed DEF Yield
    <2>4. ListTypes'
      BY <1>0, <2>3, PushedTypes
    <2> QED
      BY <1>0, <1>15, <2>4 DEF Yield, preemptVars, ioVars
  <1>16. CASE Exit(m)
    BY <1>0, <1>16 DEF Exit, preemptVars, pVars, ioVars
  <1>17. CASE Spawn(m)
    <2>1. frame[m].g \in G /\ frame[m].self \in M
      BY <1>0, <1>17 DEF Spawn, At, FrameTypes, FrameOK, Handing
    <2>2. current_p[frame[m].self] \in P \cup {NULL}
      BY <1>0, <2>1
    <2>3. \E q \in Queues : Pushed(q, frame[m].g)
      BY <1>0, <1>17, <2>1, <2>2, LocalPushed, GlobalPushed DEF Spawn
    <2>4. ListTypes'
      BY <1>0, <2>3, PushedTypes
    <2> QED
      BY <1>0, <1>17, <2>4 DEF Spawn, gVars, preemptVars, ioVars
  <1>18. CASE GReady(m)
    BY <1>0, <1>18 DEF GReady, preemptVars, pVars, ioVars
  <1>19. CASE Queue(m)
    <2>1. frame[m].g \in G /\ frame[m].self \in M /\ frame[m].p \in P \cup {NULL}
      BY <1>0, <1>19 DEF Queue, At, FrameTypes, FrameOK, FrameSet, Handing
    <2>2. current_p[frame[m].self] \in P \cup {NULL}
      BY <1>0, <2>1
    <2>3. \E q \in Queues : Pushed(q, frame[m].g)
      BY <1>0, <1>19, <2>1, <2>2, LocalPushed, GlobalPushed DEF Queue
    <2>4. ListTypes'
      BY <1>0, <2>3, PushedTypes
    <2> QED
      BY <1>0, <1>19, <2>4 DEF Queue, gVars, preemptVars, ioVars
  <1>20. CASE Wake(m)
    BY <1>0, <1>20 DEF Wake, gVars, preemptVars, pVars
  <1>21. CASE WakeM(m)
    <2>1. idle_m # <<>> => Tail(idle_m) \in Seq(M)
      BY <1>0, HeadTaken
    <2> QED
      BY <1>0, <1>21, <2>1 DEF WakeM, gVars, preemptVars, pVars, ioVars
  <1>22. CASE WakeBind(m)
    <2>1. frame[m].w \in M
      BY <1>22, WakeBindMoves
    <2>2. ProcTypes'
      BY <1>0, <1>22, <2>1, AcquireTypes, KeepTypes DEF WakeBind
    <2>3. <<frame[m].w>> \o idle_m \in Seq(M)
      BY <1>0, <2>1, PutFirst
    <2>4. idle_m' \in Seq(M) /\ parked' \in [M -> BOOLEAN]
      BY <1>0, <1>22, <2>1, <2>3 DEF WakeBind
    <2> QED
      BY <1>0, <1>22, <2>2, <2>4
         DEF WakeBind, gVars, preemptVars, ioVars
  <1>23. CASE WakeNew(m)
    <2>1. ProcTypes'
      BY <1>0, <1>23, AcquireTypes, KeepTypes DEF WakeNew
    <2> QED
      BY <1>0, <1>23, <2>1
         DEF WakeNew, gVars, preemptVars, ioVars
  <1> QED
    BY <1>1, <1>2, <1>3, <1>4, <1>5, <1>6, <1>7, <1>8, <1>9, <1>10, <1>11, <1>12, <1>13, <1>14,
       <1>15, <1>16, <1>17, <1>18, <1>19, <1>20, <1>21, <1>22, <1>23 DEF Step

LEMMA UserFieldTypes ==
  ASSUME NEW m, Before(m), User(m) \/ Preempt(m) \/ PreemptSwitch(m)
  PROVE  FieldTypes'
  <1>0. FieldTypes /\ FrameTypes /\ m \in M
    BY DEF Before, Always
  <1> USE DEF FieldTypes, ListTypes, ProcTypes, OtherTypes
  <1>1. frame[m].at = "user" => current_g[m] \in G
    BY DEF GSide, GCode, Before, Always, Shape, ShapeOf, ShapeAt
  <1>2. CASE BeginYield(m) \/ BeginExit(m) \/ RunScheduler(m) \/ PreemptSwitch(m)
    BY <1>0, <1>2
       DEF BeginYield, BeginExit, RunScheduler, PreemptSwitch, gVars, preemptVars, pVars, mVars,
           ioVars
  <1>3. CASE Block(m) \/ WaitIo(m)
    BY <1>0, <1>1, <1>3 DEF Block, WaitIo, InUser, At, preemptVars, pVars, ioVars
  <1>4. CASE OpenOrClose(m)
    BY <1>0, <1>4 DEF OpenOrClose, gVars, preemptVars, pVars, mVars
  <1>5. ASSUME NEW g \in G, BeginSpawn(m, g) PROVE FieldTypes'
    BY <1>0, <1>5 DEF BeginSpawn, preemptVars, pVars, ioVars
  <1>6. ASSUME NEW g \in G, BeginReady(m, g) PROVE FieldTypes'
    BY <1>0, <1>6 DEF BeginReady, gVars, preemptVars, pVars, ioVars
  <1>7. CASE Preempt(m)
    BY <1>0, <1>7 DEF Preempt, pVars, ioVars
  <1> QED
    BY <1>2, <1>3, <1>4, <1>5, <1>6, <1>7 DEF User

LEMMA EventTypes ==
  ASSUME FieldTypes, NEW g \in G, IoEvent(g)
  PROVE  FieldTypes'
  BY DEF FieldTypes, ListTypes, ProcTypes, OtherTypes, IoEvent, gVars, preemptVars, pVars, mVars

-----------------------------------------------------------------------------
(* The frames, and what they go with *)

LEMMA MovedFrames ==
  ASSUME FrameTypes, NEW m, NEW f, Moved(m, f),
         resume' \in [G -> FrameSet], \A g \in G : FrameOK(resume'[g])
  PROVE  FrameTypes'
  BY DEF FrameTypes, Moved

\* One step of m takes it to f.
Steps(m) == \E f : Moved(m, f)

LEMMA StepMoves ==
  ASSUME NEW m, Before(m), Step(m)
  PROVE  Steps(m) \/ WakeNew(m)
  <1> USE DEF Steps
  <1>1. CASE LoopTop(m)
    BY <1>1, LoopTopMoves
  <1>2. CASE FindLocal(m)
    BY <1>2, FindLocalMoves
  <1>3. CASE FindGlobal(m)
    BY <1>3, FindGlobalMoves
  <1>4. CASE PollReady(m) \/ PollDone(m)
    BY <1>4, PollReadyMoves, PollDoneMoves
  <1>5. CASE Steal(m)
    BY <1>5, StealMoves
  <1>6. CASE NoWork(m)
    BY <1>6, NoWorkMoves
  <1>7. CASE GiveUp(m)
    BY <1>7, GiveUpMoves
  <1>8. CASE Execute(m) \/ SwitchIn(m) \/ SwitchOut(m)
    BY <1>8, ExecuteMoves, SwitchInMoves, SwitchOutMoves
  <1>9. CASE Spawn(m) \/ Queue(m) \/ GReady(m)
    BY <1>9, SpawnMoves, QueueMoves, GReadyMoves
  <1>10. CASE Wake(m) \/ WakeM(m) \/ WakeBind(m)
    BY <1>10, WakeMoves, WakeMMoves, WakeBindMoves
  <1>11. CASE \/ NoP(m) \/ Park(m) \/ Unparked(m) \/ PollBlockingDone(m) \/ Returned(m)
              \/ LastDied(m) \/ Yield(m) \/ Exit(m)
    BY <1>11, SimpleMoves
  <1> QED
    BY <1>1, <1>2, <1>3, <1>4, <1>5, <1>6, <1>7, <1>8, <1>9, <1>10, <1>11 DEF Step

\* Only a switch to a G changes what a G continues with, and SIGURG.
LEMMA StepResume ==
  ASSUME NEW m, Step(m)
  PROVE  SwitchIn(m) \/ (resume' = resume /\ preempt_safe' = preempt_safe)
  BY Zenon
     DEF Step, LoopTop, NoP, Park, Unparked, FindLocal, FindGlobal, PollReady, PollDone, Steal,
         NoWork, PollBlockingDone, GiveUp, Execute, SwitchOut, Returned, LastDied, Yield, Exit,
         Spawn, GReady, Queue, Wake, WakeM, WakeBind, WakeNew, gVars, preemptVars

LEMMA StepFrameTypes ==
  ASSUME NEW m, Before(m), Step(m)
  PROVE  FrameTypes'
  <1>0. FrameTypes /\ m \in M
    BY DEF Before, Always
  <1>1. resume' \in [G -> FrameSet] /\ \A g \in G : FrameOK(resume'[g])
    <2>1. CASE resume' = resume
      BY <1>0, <2>1 DEF FrameTypes
    <2>2. CASE SwitchIn(m)
      <3>1. FrameOK(Frame("user"))
        BY PlainFrame DEF Places, Handing, Calls, GCode
      <3>2. resume' = [resume EXCEPT ![current_g[m]] = Frame("user")]
        BY <2>2 DEF SwitchIn
      <3> QED
        BY <1>0, <3>1, <3>2 DEF FrameTypes, FrameOK
    <2> QED
      BY <2>1, <2>2, StepResume
  <1>2. CASE Steps(m)
    BY <1>0, <1>1, <1>2, MovedFrames DEF Steps
  <1>3. CASE WakeNew(m)
    <2>1. CASE Moved(m, Caller(m))
      BY <1>0, <1>1, <2>1, MovedFrames
    <2>2. CASE \E x \in M :
              /\ frame' \in [M -> FrameSet] /\ frame'[x] = Frame("loop")
              /\ frame'[m] = Caller(m)
              /\ FrameOK(Frame("loop")) /\ FrameOK(Caller(m))
              /\ \A y \in M : y # m /\ y # x => frame'[y] = frame[y]
      BY <1>0, <1>1, <2>2 DEF FrameTypes
    <2> QED
      BY <1>3, <2>1, <2>2, WakeNewMoves
  <1> QED
    BY <1>2, <1>3, StepMoves

LEMMA UserFrameTypes ==
  ASSUME NEW m, Before(m), User(m) \/ Preempt(m) \/ PreemptSwitch(m)
  PROVE  FrameTypes'
  <1>0. FrameTypes /\ m \in M
    BY DEF Before, Always
  <1>1. CASE OpenOrClose(m) \/ PreemptSwitch(m)
    BY <1>0, <1>1 DEF OpenOrClose, PreemptSwitch, mVars, gVars, FrameTypes
  <1>2. CASE ~(OpenOrClose(m) \/ PreemptSwitch(m))
    <2>1. Steps(m)
      BY <1>2, SimpleMoves, BeginSpawnMoves, BeginReadyMoves DEF User, Steps
    <2>2. FrameOK(Frame("user")) /\ FrameOK(frame[m])
      BY <1>0, PlainFrame, Zenon DEF Places, Handing, Calls, GCode, FrameTypes
    <2>3. \/ resume' = resume \/ resume' = [resume EXCEPT ![current_g[m]] = Frame("user")]
          \/ resume' = [resume EXCEPT ![current_g[m]] = frame[m]]
      BY <1>2 DEF User, BeginYield, Block, WaitIo, BeginExit, RunScheduler, BeginSpawn, BeginReady,
                  Preempt, gVars
    <2>4. resume' \in [G -> FrameSet] /\ \A g \in G : FrameOK(resume'[g])
      BY <1>0, <2>2, <2>3 DEF FrameTypes, FrameOK
    <2> QED
      BY <1>0, <2>1, <2>4, MovedFrames DEF Steps
  <1> QED
    BY <1>1, <1>2

\* Of the other Ms nothing changes that Shape speaks of, and m goes to f.
LEMMA ShapeMoves ==
  ASSUME NEW m, Before(m), FieldTypes', NEW f, Moved(m, f),
         \A x \in M : x # m => /\ current_g'[x] = current_g[x] /\ parked'[x] = parked[x]
                               /\ current_p'[x] = current_p[x],
         ShapeAt(m, f, current_g'[m], current_p'[m], parked'[m]),
         \A g \in G : ResumeShape(g)'
  PROVE  Shape'
  <1>1. ASSUME NEW x \in M PROVE ShapeOf(x)'
    <2>1. CASE x = m
      BY <2>1 DEF Moved, ShapeOf
    <2>2. CASE x # m
      BY <2>2 DEF Moved, ShapeOf, Before, Always, Shape
    <2> QED
      BY <2>1, <2>2
  <1> QED
    BY <1>1 DEF Shape

LEMMA SameResume ==
  ASSUME NEW m, Before(m), resume' = resume, preempt_safe' = preempt_safe
  PROVE  \A g \in G : ResumeShape(g)'
  BY DEF Before, Always, Shape, ResumeShape

\* What m's own fields say before the step.
LEMMA OwnShape ==
  ASSUME NEW m, Before(m)
  PROVE  /\ ShapeAt(m, frame[m], current_g[m], current_p[m], parked[m])
         /\ frame[m] \in FrameSet /\ FrameOK(frame[m]) /\ m \in M
         /\ current_g[m] \in G \cup {NULL} /\ current_p[m] \in P \cup {NULL}
         /\ parked[m] \in BOOLEAN
  BY DEF Before, Always, Shape, ShapeOf, FrameTypes, FieldTypes, ProcTypes, OtherTypes

LEMMA CallerShape ==
  ASSUME NEW m, Before(m), frame[m].at \in Calls
  PROVE  ShapeAt(m, Caller(m), current_g[m], current_p[m], parked[m])
  <1>1. /\ FrameOK(Caller(m)) /\ Caller(m).at = frame[m].then /\ frame[m].then \in Callers
    BY CallerFrame DEF Before, Always, FrameTypes, FrameOK
  <1>2. frame[m].at \notin NoProc \cup {"loop", "parked"} \cup GCode
    BY DEF Calls, NoProc, GCode
  <1>3. GSide(frame[m]) <=> frame[m].then = "user"
    BY <1>2 DEF GSide
  <1>4. GSide(Caller(m)) <=> frame[m].then = "user"
    BY <1>1 DEF GSide, Callers, GCode, Calls
  <1>5. Caller(m).at \notin NoProc \cup {"loop", "parked"} \cup Calls
    BY <1>1 DEF Callers, NoProc, Calls
  <1> QED
    BY <1>1, <1>2, <1>3, <1>4, <1>5, OwnShape DEF ShapeAt

LEMMA StepShape ==
  ASSUME NEW m, Before(m), Step(m)
  PROVE  Shape'
  <1>0. FieldTypes /\ FieldTypes' /\ m \in M
    BY StepFieldTypes DEF Before, Always
  <1>r. ~SwitchIn(m) => \A g \in G : ResumeShape(g)'
    BY StepResume, SameResume
  <1>s. ShapeAt(m, frame[m], current_g[m], current_p[m], parked[m]) /\ FrameOK(frame[m])
    BY OwnShape
  <1> DEFINE Others == \A x \in M : x # m => /\ current_g'[x] = current_g[x]
                                            /\ parked'[x] = parked[x]
                                            /\ current_p'[x] = current_p[x]
             Here(f) == ShapeAt(m, f, current_g'[m], current_p'[m], parked'[m])
  <1>m. ASSUME NEW f, Moved(m, f), Others, Here(f), ~SwitchIn(m) PROVE Shape'
    BY <1>0, <1>r, <1>m, ShapeMoves
  <1>1. CASE LoopTop(m)
    <2>1. Others
      BY <1>0, <1>1 DEF LoopTop, AcquireP, keepP, FieldTypes, ProcTypes, OtherTypes
    <2>2. ~SwitchIn(m) /\ parked' = parked /\ current_g' = current_g /\ frame[m].at = "loop"
      BY <1>1 DEF LoopTop, SwitchIn, At
    <2>3. ASSUME Moved(m, Frame("find_local")) PROVE Here(Frame("find_local"))
      <3>1. current_p'[m] # NULL
        <4>1. CASE current_p[m] # NULL /\ keepP
          BY <4>1 DEF keepP
        <4>2. CASE AcquireP(m)
          BY <1>0, <4>2, AcquireTypes, NullIsNone DEF AcquireP, FieldTypes, ProcTypes
        <4>3. CASE Goto(m, "no_p")
          BY <1>0, <2>3, <4>3 DEF Goto, Moved, Frame, Before, Always, FrameTypes
        <4> QED
          BY <1>1, <4>1, <4>2, <4>3 DEF LoopTop
      <3>2. GSide(frame[m]) <=> GSide(Frame("find_local"))
        BY <2>2 DEF Frame, GSide, GCode, Calls
      <3> QED
        BY <1>s, <2>2, <3>1, <3>2 DEF ShapeAt, Frame, NoProc, Calls
    <2>4. ASSUME current_p[m] = NULL, keepP PROVE Here(Frame("no_p"))
      BY <1>s, <2>2, <2>4 DEF ShapeAt, Frame, NoProc, Calls, GSide, GCode, keepP
    <2> QED
      BY <1>1, <1>m, <2>1, <2>2, <2>3, <2>4, LoopTopMoves
  <1>2. CASE NoP(m) \/ Unparked(m)
    <2>1. Others /\ ~SwitchIn(m)
      BY <1>2 DEF NoP, Unparked, SwitchIn, At, pVars
    <2>2. /\ NoP(m) => Here(Frame(IF live <= 0 THEN "exited" ELSE "park"))
          /\ Unparked(m) => Here(Frame("loop"))
      BY <1>s DEF NoP, Unparked, At, ShapeAt, Frame, NoProc, Calls, GSide, GCode, pVars
    <2> QED
      BY <1>2, <1>m, <2>1, <2>2, SimpleMoves
  <1>3. CASE Park(m)
    <2>1. Others /\ ~SwitchIn(m)
      BY <1>0, <1>3 DEF Park, SwitchIn, At, pVars, FieldTypes, OtherTypes
    <2>2. Here(Frame("parked"))
      BY <1>0, <1>3, <1>s
         DEF Park, At, ShapeAt, Frame, NoProc, Calls, GSide, GCode, pVars, FieldTypes, OtherTypes
    <2> QED
      BY <1>3, <1>m, <2>1, <2>2, SimpleMoves
  <1>4. CASE FindLocal(m)
    <2>1. Others /\ ~SwitchIn(m)
      BY <1>4 DEF FindLocal, SwitchIn, At
    <2>2. ASSUME NEW g PROVE Here([Frame("execute") EXCEPT !.g = g])
      BY <1>4, <1>s DEF FindLocal, At, ShapeAt, Frame, NoProc, Calls, GSide, GCode
    <2>3. Here([frame[m] EXCEPT !.at = "find_global"])
      BY <1>4, <1>s
         DEF FindLocal, At, ShapeAt, FrameOK, FrameSet, NoProc, Calls, GSide, GCode
    <2> QED
      BY <1>4, <1>m, <2>1, <2>2, <2>3, FindLocalMoves
  <1>5. CASE FindGlobal(m)
    <2>1. Others /\ ~SwitchIn(m)
      BY <1>5 DEF FindGlobal, SwitchIn, At, pVars
    <2>2. ASSUME NEW g PROVE Here([Frame("execute") EXCEPT !.g = g])
      BY <1>5, <1>s DEF FindGlobal, At, ShapeAt, Frame, NoProc, Calls, GSide, GCode, pVars
    <2>3. ASSUME NEW S PROVE Here([Frame("steal") EXCEPT !.left = S]) /\ Here(Frame("poll"))
      BY <1>5, <1>s DEF FindGlobal, At, ShapeAt, Frame, NoProc, Calls, GSide, GCode, pVars
    <2> QED
      BY <1>5, <1>m, <2>1, <2>2, <2>3, FindGlobalMoves
  <1>6. CASE PollReady(m)
    <2>1. Others /\ ~SwitchIn(m)
      BY <1>6 DEF PollReady, SwitchIn, At, pVars
    <2>2. ASSUME NEW g
          PROVE  Here([Frame("ready") EXCEPT !.g = g, !.then = frame[m].at])
      BY <1>6, <1>s DEF PollReady, At, ShapeAt, Frame, NoProc, Calls, GSide, GCode, pVars
    <2> QED
      BY <1>6, <1>m, <2>1, <2>2, PollReadyMoves
  <1>7. CASE PollDone(m)
    <2>1. Others /\ ~SwitchIn(m)
      BY <1>7 DEF PollDone, SwitchIn, At, pVars
    <2>2. ASSUME NEW S PROVE /\ Here([Frame("steal") EXCEPT !.left = S])
                             /\ Here([Frame("find_local") EXCEPT !.woken = TRUE])
      BY <1>7, <1>s DEF PollDone, At, ShapeAt, Frame, NoProc, Calls, GSide, GCode, pVars
    <2> QED
      BY <1>7, <1>m, <2>1, <2>2, PollDoneMoves
  <1>8. CASE Steal(m)
    <2>1. Others /\ ~SwitchIn(m)
      BY <1>8 DEF Steal, SwitchIn, At
    <2>2. ASSUME NEW g PROVE Here([Frame("execute") EXCEPT !.g = g])
      BY <1>8, <1>s DEF Steal, At, ShapeAt, Frame, NoProc, Calls, GSide, GCode
    <2>3. ASSUME NEW p PROVE Here([frame[m] EXCEPT !.left = @ \ {p}])
      BY <1>8, <1>s
         DEF Steal, At, ShapeAt, FrameOK, FrameSet, NoProc, Calls, GSide, GCode
    <2> QED
      BY <1>8, <1>m, <2>1, <2>2, <2>3, StealMoves
  <1>9. CASE PollBlockingDone(m)
    <2>1. Others /\ ~SwitchIn(m)
      BY <1>9 DEF PollBlockingDone, SwitchIn, At, pVars
    <2>2. Here(Frame(IF frame[m].woken THEN "loop" ELSE "give_up"))
      BY <1>9, <1>s DEF PollBlockingDone, At, ShapeAt, Frame, NoProc, Calls, GSide, GCode, pVars
    <2> QED
      BY <1>9, <1>m, <2>1, <2>2, SimpleMoves
  <1>10. CASE NoWork(m)
    <2>1. Others /\ ~SwitchIn(m)
      BY <1>0, <1>10 DEF NoWork, SwitchIn, At, ReleaseP, keepP, FieldTypes, ProcTypes
    <2>2. /\ ReleaseP(m) => Here(Frame("exited"))
          /\ keepP => Here(Frame("poll_blocking")) /\ Here(Frame("give_up"))
      BY <1>0, <1>10, <1>s DEF NoWork, At, ShapeAt, Frame, NoProc, Calls, GSide, GCode, ReleaseP,
         keepP, FieldTypes, ProcTypes
    <2> QED
      BY <1>10, <1>m, <2>1, <2>2, NoWorkMoves
  <1>11. CASE GiveUp(m)
    <2>1. Others /\ ~SwitchIn(m)
      BY <1>0, <1>11 DEF GiveUp, SwitchIn, At, ReleaseP, keepP, FieldTypes, ProcTypes
    <2>2. /\ ReleaseP(m) => Here(Frame("park"))
          /\ keepP => Here(frame[m])
      BY <1>0, <1>11, <1>s DEF GiveUp, At, ShapeAt, Frame, NoProc, Calls, GSide, GCode, ReleaseP,
         keepP, FieldTypes, ProcTypes
    <2> QED
      BY <1>11, <1>m, <2>1, <2>2, GiveUpMoves
  <1>12. CASE Execute(m)
    <2>1. Others /\ ~SwitchIn(m)
      BY <1>0, <1>12 DEF Execute, SwitchIn, At, pVars, FieldTypes, OtherTypes
    <2>2. Here(Frame("switch_in"))
      BY <1>0, <1>12, <1>s, ExecuteMoves, NullIsNone
         DEF Execute, At, ShapeAt, Frame, NoProc, Calls, GSide, GCode, pVars, FieldTypes,
             OtherTypes
    <2> QED
      BY <1>12, <1>m, <2>1, <2>2, ExecuteMoves
  <1>13. CASE SwitchIn(m)
    <2> DEFINE g == current_g[m]
    <2>0. g \in G /\ Moved(m, resume[g])
      BY <1>13, SwitchInMoves
    <2>1. Others
      BY <1>13 DEF SwitchIn, pVars
    <2>2. \A h \in G : ResumeShape(h) /\ FrameOK(resume[h])
      BY DEF Before, Always, Shape, FrameTypes
    <2>3. Here(resume[g])
      <3>1. GSide(resume[g]) /\ FrameOK(resume[g])
        BY <2>0, <2>2 DEF ResumeShape
      <3>2. resume[g].at \notin NoProc \cup {"loop", "parked", "main"}
        BY <3>1 DEF GSide, NoProc, GCode, Calls
      <3>3. resume[g].at \in Calls => resume[g].then = "user"
        BY <3>1 DEF GSide, GCode, Calls
      <3>4. current_g'[m] # NULL /\ current_p'[m] # NULL /\ ~parked'[m]
        BY <1>13, <1>s, <2>0, NullIsNone DEF SwitchIn, At, ShapeAt, NoProc, pVars
      <3> QED
        BY <3>1, <3>2, <3>3, <3>4 DEF ShapeAt
    <2>4. \A h \in G : ResumeShape(h)'
      <3>1. /\ resume' = [resume EXCEPT ![g] = Frame("user")]
            /\ preempt_safe' = [preempt_safe EXCEPT ![g] = FALSE]
        BY <1>13 DEF SwitchIn
      <3>2. GSide(Frame("user")) /\ Frame("user").at = "user"
        BY DEF GSide, Frame, GCode
      <3> QED
        BY <2>2, <3>1, <3>2 DEF ResumeShape, Before, Always, FrameTypes, FieldTypes, OtherTypes
    <2> QED
      BY <1>0, <2>0, <2>1, <2>3, <2>4, ShapeMoves
  <1>14. CASE SwitchOut(m)
    <2>1. Others /\ ~SwitchIn(m)
      BY <1>14 DEF SwitchOut, SwitchIn, At, pVars
    <2>2. ASSUME NEW g PROVE Here([Frame("returned") EXCEPT !.g = g])
      BY <1>14, <1>s DEF SwitchOut, At, ShapeAt, Frame, NoProc, Calls, GSide, GCode, pVars
    <2> QED
      BY <1>14, <1>m, <2>1, <2>2, SwitchOutMoves
  <1>15. CASE Returned(m)
    <2>1. Others /\ ~SwitchIn(m)
      BY <1>0, <1>15 DEF Returned, SwitchIn, At, pVars, FieldTypes, OtherTypes
    <2>2. Here(Frame("last_died")) /\ Here(Frame("loop"))
      BY <1>0, <1>15, <1>s
         DEF Returned, At, ShapeAt, Frame, NoProc, Calls, GSide, GCode, pVars, FieldTypes,
             OtherTypes
    <2> QED
      BY <1>15, <1>m, <2>1, <2>2, SimpleMoves
  <1>17. CASE Yield(m) \/ Exit(m)
    <2>1. Others /\ ~SwitchIn(m)
      BY <1>17 DEF Yield, Exit, SwitchIn, At, pVars
    <2>2. Here(Frame("switch"))
      <3>1. /\ frame[m].at \in {"yield", "exit"} /\ current_g' = current_g
            /\ current_p' = current_p /\ parked' = parked
        BY <1>17 DEF Yield, Exit, At, pVars
      <3> QED
        BY <1>s, <3>1 DEF ShapeAt, Frame, NoProc, Calls, GSide, GCode
    <2> QED
      BY <1>17, <1>m, <2>1, <2>2, SimpleMoves
  <1>18. CASE Spawn(m)
    <2>1. Others /\ ~SwitchIn(m)
      BY <1>18 DEF Spawn, SwitchIn, At
    <2>2. Here([Frame("wake") EXCEPT !.then = frame[m].then])
      BY <1>18, <1>s DEF Spawn, At, ShapeAt, Frame, NoProc, Calls, GSide, GCode
    <2>3. frame[m].then \in {"user", "main"} => Here(Frame(frame[m].then))
      BY <1>18, <1>s DEF Spawn, At, ShapeAt, Frame, NoProc, Calls, GSide, GCode
    <2> QED
      BY <1>18, <1>m, <2>1, <2>2, <2>3, SpawnMoves
  <1>19. CASE GReady(m)
    <2>1. Others /\ ~SwitchIn(m)
      BY <1>19 DEF GReady, SwitchIn, At, pVars
    <2>2. ASSUME NEW p PROVE Here([frame[m] EXCEPT !.at = "queue", !.self = m, !.p = p])
      BY <1>19, <1>s
         DEF GReady, At, ShapeAt, FrameOK, FrameSet, NoProc, Calls, GSide, GCode, pVars
    <2> QED
      BY <1>19, <1>m, <2>1, <2>2, GReadyMoves
  <1>20. CASE Queue(m)
    <2>1. Others /\ ~SwitchIn(m)
      BY <1>20 DEF Queue, SwitchIn, At
    <2>2. Here([Frame("wake") EXCEPT !.then = frame[m].then])
      BY <1>20, <1>s DEF Queue, At, ShapeAt, Frame, NoProc, Calls, GSide, GCode
    <2> QED
      BY <1>20, <1>m, <2>1, <2>2, QueueMoves
  <1>21. CASE Wake(m)
    <2>1. Others /\ ~SwitchIn(m)
      BY <1>21 DEF Wake, SwitchIn, At, pVars
    <2>2. Here([frame[m] EXCEPT !.at = "wake_m"])
      BY <1>21, <1>s
         DEF Wake, At, ShapeAt, FrameOK, FrameSet, NoProc, Calls, GSide, GCode, pVars
    <2>3. Here(Caller(m))
      BY <1>21, CallerShape DEF Wake, At, Calls, pVars
    <2> QED
      BY <1>21, <1>m, <2>1, <2>2, <2>3, WakeMoves
  <1>22. CASE WakeM(m)
    <2>1. Others /\ ~SwitchIn(m)
      BY <1>22 DEF WakeM, SwitchIn, At, pVars
    <2>2. ASSUME NEW w PROVE /\ Here([frame[m] EXCEPT !.at = "wake_bind", !.w = w])
                             /\ Here([frame[m] EXCEPT !.at = "wake_new"])
      BY <1>22, <1>s
         DEF WakeM, At, ShapeAt, FrameOK, FrameSet, NoProc, Calls, GSide, GCode, pVars
    <2> QED
      BY <1>22, <1>m, <2>1, <2>2, WakeMMoves
  <1>23. CASE LastDied(m)
    <2>1. ASSUME NEW x \in M PROVE ShapeOf(x)'
      <3>1. /\ current_g'[x] = current_g[x] /\ current_p'[x] = current_p[x]
            /\ parked'[x] => parked[x]
        BY <1>0, <1>23 DEF LastDied, pVars
      <3>2. ShapeAt(x, frame[x], current_g[x], current_p[x], parked[x])
        BY DEF Before, Always, Shape, ShapeOf
      <3>3. CASE x = m
        <4>1. frame'[m] = Frame("loop") /\ frame[m].at = "last_died"
          BY <1>23, SimpleMoves DEF Moved, LastDied, At
        <4> QED
          BY <3>1, <3>2, <3>3, <4>1 DEF ShapeOf, ShapeAt, Frame, NoProc, Calls, GSide, GCode
      <3>4. CASE x # m
        <4>0. Moved(m, Frame("loop"))
          BY <1>23, SimpleMoves
        <4>1. frame'[x] = frame[x]
          BY <3>4, <4>0 DEF Moved
        <4> QED
          BY <3>1, <3>2, <4>1 DEF ShapeOf, ShapeAt
      <3> QED
        BY <3>3, <3>4
    <2>2. ~SwitchIn(m)
      BY <1>23 DEF LastDied, SwitchIn, At
    <2> QED
      BY <1>r, <2>1, <2>2 DEF Shape
  <1>24. CASE WakeBind(m)
    <2> DEFINE w == frame[m].w
    <2>0. w \in M /\ Moved(m, Caller(m)) /\ frame[m].at = "wake_bind"
      BY <1>24, WakeBindMoves DEF WakeBind, At
    <2>1. parked[w]
      BY <2>0 DEF Before, Always, Known
    <2>2. frame[w].at = "parked" /\ w # m
      BY <2>0, <2>1 DEF Before, Always, Shape, ShapeOf, ShapeAt
    <2>3. ASSUME NEW x \in M, x # w
          PROVE  /\ current_g'[x] = current_g[x] /\ parked'[x] = parked[x]
                 /\ current_p'[x] = current_p[x]
      BY <1>0, <1>24, <2>0, <2>3
         DEF WakeBind, AcquireP, keepP, FieldTypes, ProcTypes, OtherTypes
    <2>4. /\ current_g'[w] = current_g[w]
          /\ \/ ~parked'[w]
             \/ parked'[w] = parked[w] /\ current_p'[w] = current_p[w]
      BY <1>0, <1>24, <2>0 DEF WakeBind, AcquireP, keepP, FieldTypes, ProcTypes, OtherTypes
    <2>5. ASSUME NEW x \in M PROVE ShapeOf(x)'
      <3>1. ShapeAt(x, frame[x], current_g[x], current_p[x], parked[x])
        BY DEF Before, Always, Shape, ShapeOf
      <3>2. CASE x = m
        <4>1. ShapeAt(m, Caller(m), current_g[m], current_p[m], parked[m])
          BY <2>0, CallerShape DEF Calls
        <4> QED
          BY <2>0, <2>2, <2>3, <3>2, <4>1 DEF ShapeOf, Moved
      <3>3. CASE x = w
        BY <2>0, <2>2, <2>4, <3>1, <3>3
           DEF ShapeOf, Moved, ShapeAt, NoProc, Calls, GSide, GCode
      <3>4. CASE x # m /\ x # w
        BY <2>0, <2>3, <3>1, <3>4 DEF ShapeOf, Moved
      <3> QED
        BY <3>2, <3>3, <3>4
    <2>6. ~SwitchIn(m)
      BY <2>0 DEF SwitchIn, At
    <2> QED
      BY <1>r, <2>5, <2>6 DEF Shape
  <1>25. CASE WakeNew(m)
    <2>0. ~SwitchIn(m) /\ frame[m].at \in Calls /\ current_g' = current_g /\ parked' = parked
      BY <1>25 DEF WakeNew, SwitchIn, At, Calls
    <2>1. ShapeAt(m, Caller(m), current_g[m], current_p[m], parked[m])
      BY <2>0, CallerShape
    <2>2. CASE Moved(m, Caller(m)) /\ keepP
      BY <1>m, <2>0, <2>1, <2>2 DEF keepP
    <2>3. ASSUME NEW x \in M, At(x, "unborn"), x # m, AcquireP(x),
                 frame'[x] = Frame("loop"), frame'[m] = Caller(m),
                 \A y \in M : y # m /\ y # x => frame'[y] = frame[y]
          PROVE  Shape'
      <3>1. \A y \in M : y # x => current_p'[y] = current_p[y]
        BY <1>0, <2>3 DEF AcquireP, FieldTypes, ProcTypes
      <3>2. ASSUME NEW y \in M PROVE ShapeOf(y)'
        <4>1. ShapeAt(y, frame[y], current_g[y], current_p[y], parked[y])
          BY DEF Before, Always, Shape, ShapeOf
        <4>2. CASE y = m
          BY <2>0, <2>1, <2>3, <3>1, <4>2 DEF ShapeOf
        <4>3. CASE y = x
          BY <2>0, <2>3, <4>1, <4>3
             DEF At, ShapeOf, ShapeAt, NoProc, Calls, GSide, GCode, Frame
        <4>4. CASE y # x /\ y # m
          BY <2>0, <2>3, <3>1, <4>1, <4>4 DEF ShapeOf
        <4> QED
          BY <4>2, <4>3, <4>4
      <3> QED
        BY <1>r, <2>0, <3>2 DEF Shape
    <2> QED
      BY <1>25, <2>2, <2>3, WakeNewMoves
  <1> QED
    BY <1>1, <1>2, <1>3, <1>4, <1>5, <1>6, <1>7, <1>8, <1>9, <1>10, <1>11, <1>12, <1>13, <1>14,
       <1>15, <1>17, <1>18, <1>19, <1>20, <1>21, <1>22, <1>23, <1>24, <1>25 DEF Step

LEMMA UserShape ==
  ASSUME NEW m, Before(m), User(m) \/ Preempt(m) \/ PreemptSwitch(m)
  PROVE  Shape'
  <1>0. FieldTypes /\ FieldTypes' /\ m \in M
    BY UserFieldTypes DEF Before, Always
  <1>s. ShapeAt(m, frame[m], current_g[m], current_p[m], parked[m]) /\ FrameOK(frame[m])
    BY OwnShape
  <1> DEFINE Others == \A x \in M : x # m => /\ current_g'[x] = current_g[x]
                                            /\ parked'[x] = parked[x]
                                            /\ current_p'[x] = current_p[x]
             Here(f) == ShapeAt(m, f, current_g'[m], current_p'[m], parked'[m])
  <1>1. CASE OpenOrClose(m) \/ PreemptSwitch(m)
    <2>1. /\ frame' = frame /\ current_g' = current_g /\ current_p' = current_p
          /\ parked' = parked /\ resume' = resume /\ preempt_safe' = preempt_safe
      BY <1>1 DEF OpenOrClose, PreemptSwitch, mVars, gVars, preemptVars
    <2> QED
      BY <2>1 DEF Before, Always, Shape, ShapeOf, ResumeShape
  <1>2. Others /\ current_g' = current_g /\ current_p' = current_p /\ parked' = parked
    BY Zenon
       DEF User, BeginYield, Block, WaitIo, OpenOrClose, BeginExit, RunScheduler, BeginSpawn,
           BeginReady, Preempt, PreemptSwitch, pVars, mVars
  <1> DEFINE g == current_g[m]
  <1>3. ASSUME frame[m].at = "user"
        PROVE  /\ Here([Frame("yield") EXCEPT !.self = m])
               /\ Here([Frame("exit") EXCEPT !.self = m])
               /\ Here(Frame("switch"))
               /\ \A h : Here([Frame("ready") EXCEPT !.g = h, !.then = "user"])
               /\ \A h : Here([Frame("spawn") EXCEPT !.g = h, !.self = m, !.then = frame[m].at])
               /\ g \in G
    BY <1>0, <1>2, <1>3, <1>s DEF ShapeAt, Frame, NoProc, Calls, GSide, GCode, FieldTypes,
                                  OtherTypes
  <1>4. ASSUME resume' = resume, preempt_safe' = preempt_safe, NEW f, Moved(m, f), Here(f)
        PROVE  Shape'
    BY <1>0, <1>2, <1>4, ShapeMoves, SameResume
  <1>5. CASE BeginExit(m)
    BY <1>3, <1>4, <1>5, SimpleMoves DEF BeginExit, InUser, At, gVars, preemptVars
  <1>6. CASE RunScheduler(m)
    <2>1. Here(Frame("loop"))
      BY <1>2, <1>6, <1>s DEF RunScheduler, At, ShapeAt, Frame, NoProc, Calls, GSide, GCode
    <2> QED
      BY <1>4, <1>6, <2>1, SimpleMoves DEF RunScheduler, gVars, preemptVars
  <1>7. ASSUME NEW h \in G, BeginSpawn(m, h) PROVE Shape'
    <2>1. Moved(m, [Frame("spawn") EXCEPT !.g = h, !.self = m, !.then = frame[m].at])
      BY <1>7, BeginSpawnMoves
    <2>2. Here([Frame("spawn") EXCEPT !.g = h, !.self = m, !.then = frame[m].at])
      <3>1. CASE frame[m].at = "user"
        BY <1>3, <3>1
      <3>2. CASE frame[m].at = "main"
        BY <1>2, <1>s, <3>2 DEF ShapeAt, Frame, NoProc, Calls, GSide, GCode
      <3> QED
        BY <1>7, <3>1, <3>2 DEF BeginSpawn, InUser, At
    <2> QED
      BY <1>4, <1>7, <2>1, <2>2 DEF BeginSpawn, preemptVars
  <1>8. ASSUME NEW h \in G, BeginReady(m, h) PROVE Shape'
    <2>1. Moved(m, [Frame("ready") EXCEPT !.g = h, !.then = "user"])
      BY <1>8, BeginReadyMoves
    <2> QED
      BY <1>3, <1>4, <1>8, <2>1 DEF BeginReady, InUser, At, gVars, preemptVars
  <1>9. CASE BeginYield(m) \/ Block(m) \/ WaitIo(m)
    <2>0. frame[m].at = "user" /\ preempt_safe' = preempt_safe
      BY <1>9 DEF BeginYield, Block, WaitIo, InUser, At, preemptVars
    <2>1. ~preempt_safe[g]
      <3>1. g # NULL /\ On(m)
        BY <1>3, <2>0, NullIsNone DEF On
      <3> QED
        BY <1>0, <2>0, <3>1 DEF Before, WhileOk, SingleRun, Single
    <2>2. resume' = resume
      <3>1. resume[g] = Frame("user")
        BY <1>3, <2>0, <2>1 DEF Before, Always, Shape, ResumeShape
      <3> QED
        BY <1>9, <3>1 DEF BeginYield, Block, WaitIo, Before, Always, FrameTypes
    <2> QED
      BY <1>3, <1>4, <1>9, <2>0, <2>2, SimpleMoves
  <1>10. CASE Preempt(m)
    <2>0. /\ g # NULL /\ frame[m].at \notin {"switch_in", "switch", "returned"}
          /\ preempt_safe' = [preempt_safe EXCEPT ![g] = TRUE]
          /\ resume' = [resume EXCEPT ![g] = frame[m]]
      BY <1>10 DEF Preempt, Preemptible, OffG
    <2>1. GSide(frame[m]) /\ g \in G
      BY <1>0, <1>s, <2>0 DEF ShapeAt, FieldTypes, OtherTypes
    <2>2. \A h \in G : ResumeShape(h)'
      BY <2>0, <2>1 DEF Before, Always, Shape, ResumeShape, FrameTypes, FieldTypes, OtherTypes
    <2>3. Here([Frame("yield") EXCEPT !.self = m])
      <3>1. frame[m].at \notin NoProc \cup {"loop", "parked"}
        BY <2>1 DEF GSide, GCode, NoProc, Calls
      <3> QED
        BY <1>2, <1>s, <2>0, <3>1 DEF ShapeAt, Frame, NoProc, Calls, GSide, GCode
    <2> QED
      BY <1>0, <1>2, <1>10, <2>2, <2>3, SimpleMoves, ShapeMoves
  <1> QED
    BY <1>1, <1>5, <1>6, <1>7, <1>8, <1>9, <1>10 DEF User

LEMMA EventShape ==
  ASSUME FrameTypes, Shape, NEW g \in G, IoEvent(g)
  PROVE  FrameTypes' /\ Shape'
  BY DEF IoEvent, gVars, preemptVars, mVars, FrameTypes, Shape, ShapeOf, ShapeAt, ResumeShape

-----------------------------------------------------------------------------
(* Who has a P *)

LEMMA AcquireOwned ==
  ASSUME FieldTypes, Owned, NEW x \in M, current_p[x] = NULL, AcquireP(x)
  PROVE  Owned'
  <1> DEFINE p == Last(idle_p)
  <1>0. /\ idle_p \in Seq(P) /\ idle_p # <<>> /\ idle_p' = Front(idle_p)
        /\ p_status' = [p_status EXCEPT ![p] = "P_RUNNING"]
        /\ bound_m' = [bound_m EXCEPT ![p] = x]
        /\ current_p' = [current_p EXCEPT ![x] = p]
    BY DEF AcquireP, FieldTypes, ProcTypes
  <1>1. p \in P /\ p \in ToSet(idle_p) /\ Distinct(idle_p)
    BY <1>0, LastTaken DEF Owned
  <1>2. Distinct(idle_p') /\ ToSet(idle_p') = ToSet(idle_p) \ {p}
    BY <1>0, <1>1, LastTaken
  <1>3. bound_m[p] = NULL
    BY <1>1 DEF Owned
  <1> HIDE DEF p
  <1>4. ASSUME NEW q \in P
        PROVE  /\ q \in ToSet(idle_p)' <=> bound_m'[q] = NULL
               /\ p_status'[q] = "P_IDLE" <=> bound_m'[q] = NULL
               /\ \A m \in M : bound_m'[q] = m <=> current_p'[m] = q
    <2>1. CASE q = p
      <3>1. bound_m'[q] = x /\ p_status'[q] = "P_RUNNING" /\ x # NULL
        BY <1>0, <2>1, NullIsNone DEF FieldTypes, ProcTypes
      <3>2. \A m \in M : current_p[m] # p
        BY <1>1, <1>3, NullIsNone DEF Owned
      <3> QED
        BY <1>0, <1>2, <2>1, <3>1, <3>2 DEF FieldTypes, ProcTypes
    <2>2. CASE q # p
      <3>1. bound_m'[q] = bound_m[q] /\ p_status'[q] = p_status[q]
        BY <1>0, <2>2 DEF FieldTypes, ProcTypes
      <3>2. \A m \in M : current_p'[m] = q <=> current_p[m] = q
        BY <1>0, <2>2, NullIsNone DEF FieldTypes, ProcTypes
      <3> QED
        BY <1>2, <2>2, <3>1, <3>2 DEF Owned
    <2> QED
      BY <2>1, <2>2
  <1> QED
    BY <1>2, <1>4 DEF Owned

LEMMA ReleaseOwned ==
  ASSUME FieldTypes, Owned, NEW m \in M, current_p[m] \in P, ReleaseP(m)
  PROVE  Owned'
  <1> DEFINE p == current_p[m]
  <1>0. /\ p \in P /\ idle_p \in Seq(P) /\ idle_p' = Append(idle_p, p)
        /\ p_status' = [p_status EXCEPT ![p] = "P_IDLE"]
        /\ bound_m' = [bound_m EXCEPT ![p] = NULL]
        /\ current_p' = [current_p EXCEPT ![m] = NULL]
    BY DEF ReleaseP, FieldTypes, ProcTypes
  <1>1. bound_m[p] = m /\ m # NULL
    BY <1>0, NullIsNone DEF Owned
  <1>2. p \notin ToSet(idle_p) /\ Distinct(idle_p)
    BY <1>0, <1>1 DEF Owned
  <1>3. Distinct(idle_p') /\ ToSet(idle_p') = ToSet(idle_p) \cup {p}
    BY <1>0, <1>2, Appended
  <1>4. p = current_p[m]
    OBVIOUS
  <1> HIDE DEF p
  <1>5. ASSUME NEW q \in P
        PROVE  /\ q \in ToSet(idle_p)' <=> bound_m'[q] = NULL
               /\ p_status'[q] = "P_IDLE" <=> bound_m'[q] = NULL
               /\ \A n \in M : bound_m'[q] = n <=> current_p'[n] = q
    <2>1. CASE q = p
      <3>1. bound_m'[q] = NULL /\ p_status'[q] = "P_IDLE"
        BY <1>0, <2>1 DEF FieldTypes, ProcTypes
      <3>2. \A n \in M : n # m => current_p[n] # p
        BY <1>0, <1>1 DEF Owned
      <3> QED
        BY <1>0, <1>3, <2>1, <3>1, <3>2, NullIsNone DEF FieldTypes, ProcTypes
    <2>2. CASE q # p
      <3>1. bound_m'[q] = bound_m[q] /\ p_status'[q] = p_status[q]
        BY <1>0, <2>2 DEF FieldTypes, ProcTypes
      <3>2. \A n \in M : current_p'[n] = q <=> current_p[n] = q
        BY <1>0, <1>4, <2>2, NullIsNone DEF FieldTypes, ProcTypes
      <3> QED
        BY <1>3, <2>2, <3>1, <3>2 DEF Owned
    <2> QED
      BY <2>1, <2>2
  <1> QED
    BY <1>3, <1>5 DEF Owned

LEMMA KeepOwned == ASSUME Owned, keepP PROVE Owned'
  BY DEF keepP, Owned

\* The steps by what they do to the Ps.
LEMMA StepProcs ==
  ASSUME NEW m, Before(m), Step(m)
  PROVE  \/ keepP
         \/ \E x \in M : current_p[x] = NULL /\ AcquireP(x)
         \/ current_p[m] \in P /\ ReleaseP(m)
  <1>0. m \in M
    BY DEF Before
  <1>1. CASE LoopTop(m)
    BY <1>0, <1>1 DEF LoopTop
  <1>2. CASE NoWork(m)
    BY <1>2, HasP DEF NoWork, At, NoProc
  <1>3. CASE GiveUp(m)
    BY <1>3, HasP DEF GiveUp, At, NoProc
  <1>4. CASE WakeBind(m)
    <2>1. frame[m].w \in M /\ parked[frame[m].w]
      BY <1>0, <1>4, WakeBindMoves DEF Before, Always, Known
    <2>2. current_p[frame[m].w] = NULL
      BY <2>1 DEF Before, Always, Shape, ShapeOf, ShapeAt
    <2> QED
      BY <1>4, <2>1, <2>2 DEF WakeBind
  <1>5. CASE WakeNew(m)
    <2>1. ASSUME NEW x \in M, At(x, "unborn") PROVE current_p[x] = NULL
      BY <2>1 DEF At, Before, Always, Shape, ShapeOf, ShapeAt, NoProc
    <2> QED
      BY <1>5, <2>1 DEF WakeNew
  <1>6. CASE ~(LoopTop(m) \/ NoWork(m) \/ GiveUp(m) \/ WakeBind(m) \/ WakeNew(m))
    BY <1>6, Zenon
       DEF Step, NoP, Park, Unparked, FindLocal, FindGlobal, PollReady, PollDone, Steal,
       PollBlockingDone, Execute, SwitchIn, SwitchOut, Returned, LastDied, Yield, Exit, Spawn,
       GReady, Queue, Wake, WakeM, pVars, keepP
  <1> QED
    BY <1>1, <1>2, <1>3, <1>4, <1>5, <1>6

LEMMA UserProcs ==
  ASSUME NEW m, User(m) \/ Preempt(m) \/ PreemptSwitch(m) PROVE keepP
  BY Zenon
     DEF User, BeginYield, Block, WaitIo, OpenOrClose, BeginExit, RunScheduler, BeginSpawn,
         BeginReady, Preempt, PreemptSwitch, pVars, mVars, keepP

-----------------------------------------------------------------------------
(* Who knows a parked M *)

LEMMA KnownSame ==
  ASSUME Known, idle_m' = idle_m, parked' = parked,
         \A x \in M : frame'[x].w = frame[x].w,
         \A g \in G : resume'[g].w = resume[g].w
  PROVE  Known'
  BY DEF Known

\* A step that is not about unlinked Ms leaves m with none.
LEMMA NoLink ==
  ASSUME NEW m, Before(m), frame[m].at # "wake_bind", NEW f, Moved(m, f), f.at # "wake_bind"
  PROVE  \A x \in M : frame'[x].w = frame[x].w
  BY DEF Before, Always, FrameTypes, FrameOK, Moved

LEMMA StepNoLink ==
  ASSUME NEW m, Before(m), Step(m), ~WakeM(m), ~WakeBind(m), ~SwitchIn(m)
  PROVE  \A x \in M : frame'[x].w = frame[x].w
  <1>0. FrameTypes /\ m \in M /\ frame[m] \in FrameSet
    BY DEF Before, Always, FrameTypes
  <1>1. CASE WakeNew(m)
    <2>1. frame[m].at = "wake_new" /\ frame[m].at \in Calls
      BY <1>1 DEF WakeNew, At, Calls
    <2>2. frame[m].w = NULL /\ Caller(m).w = NULL /\ Frame("loop").w = NULL
      BY <1>0, <2>1, CallerFrame DEF FrameTypes, FrameOK, Frame
    <2>3. \A x \in M : At(x, "unborn") => frame[x].w = NULL
      BY <1>0 DEF FrameTypes, FrameOK, At
    <2> QED
      BY <1>1, <2>2, <2>3, WakeNewMoves DEF Moved
  <1>2. CASE ~WakeNew(m)
    <2>1. frame[m].at # "wake_bind"
      BY <1>2, Zenon
         DEF Step, LoopTop, NoP, Park, Unparked, FindLocal, FindGlobal, PollReady, PollDone,
         Steal, NoWork, PollBlockingDone, GiveUp, Execute, SwitchOut, Returned, LastDied, Yield,
         Exit, Spawn, GReady, Queue, Wake, At
    <2>2. ASSUME NEW f, Moved(m, f), f.at # "wake_bind"
          PROVE  \A x \in M : frame'[x].w = frame[x].w
      BY <2>1, <2>2, NoLink
    <2>3. CASE LoopTop(m)
      BY <2>2, <2>3, LoopTopMoves DEF Frame
    <2>4. CASE FindLocal(m)
      BY <1>0, <2>2, <2>4, FindLocalMoves DEF Frame, FrameSet
    <2>5. CASE FindGlobal(m)
      BY <2>2, <2>5, FindGlobalMoves DEF Frame
    <2>6. CASE PollReady(m)
      BY <2>2, <2>6, PollReadyMoves DEF Frame
    <2>7. CASE PollDone(m)
      BY <2>2, <2>7, PollDoneMoves DEF Frame
    <2>8. CASE Steal(m)
      <3>1. ASSUME NEW p PROVE [frame[m] EXCEPT !.left = @ \ {p}].at = "steal"
        BY <1>0, <2>8 DEF Steal, At, FrameSet
      <3> QED
        BY <2>2, <2>8, <3>1, StealMoves DEF Frame
    <2>9. CASE NoWork(m)
      BY <2>2, <2>9, NoWorkMoves DEF Frame
    <2>10. CASE GiveUp(m)
      BY <2>1, <2>2, <2>10, GiveUpMoves DEF Frame
    <2>11. CASE Execute(m)
      BY <2>2, <2>11, ExecuteMoves DEF Frame
    <2>12. CASE SwitchOut(m)
      BY <2>2, <2>12, SwitchOutMoves DEF Frame
    <2>13. CASE Spawn(m)
      <3>1. frame[m].then \in {"user", "main"} => Frame(frame[m].then).at # "wake_bind"
        BY DEF Frame
      <3>2. [Frame("wake") EXCEPT !.then = frame[m].then].at # "wake_bind"
        BY DEF Frame
      <3> QED
        BY <2>2, <2>13, <3>1, <3>2, SpawnMoves
    <2>14. CASE Queue(m)
      BY <2>2, <2>14, QueueMoves DEF Frame
    <2>15. CASE GReady(m)
      <3>1. ASSUME NEW p
            PROVE  [frame[m] EXCEPT !.at = "queue", !.self = m, !.p = p].at # "wake_bind"
        BY <1>0 DEF FrameSet
      <3> QED
        BY <2>2, <2>15, <3>1, GReadyMoves
    <2>16. CASE Wake(m)
      <3>1. frame[m].at \in Calls
        BY <2>16 DEF Wake, At, Calls
      <3>2. Caller(m).at # "wake_bind"
        BY <1>0, <3>1, CallerFrame DEF FrameTypes, FrameOK, Callers
      <3>3. [frame[m] EXCEPT !.at = "wake_m"].at # "wake_bind"
        BY <1>0 DEF FrameSet
      <3> QED
        BY <2>2, <2>16, <3>2, <3>3, WakeMoves
    <2>17. CASE \/ NoP(m) \/ Park(m) \/ Unparked(m) \/ PollBlockingDone(m) \/ Returned(m)
                \/ LastDied(m) \/ Yield(m) \/ Exit(m)
      <3>1. \A at \in {"exited", "park", "parked", "loop", "give_up", "last_died", "switch"} :
              Moved(m, Frame(at)) => \A x \in M : frame'[x].w = frame[x].w
        BY <2>2 DEF Frame
      <3> HIDE DEF Moved
      <3> QED
        BY <2>17, <3>1, SimpleMoves
    <2> QED
      BY <1>2, <2>3, <2>4, <2>5, <2>6, <2>7, <2>8, <2>9, <2>10, <2>11, <2>12, <2>13, <2>14,
         <2>15, <2>16, <2>17 DEF Step
  <1> QED
    BY <1>1, <1>2

LEMMA ParkKnown ==
  ASSUME NEW m, Before(m), Park(m)
  PROVE  Known'
  <1>0. /\ FieldTypes /\ FrameTypes /\ m \in M /\ Known /\ idle_m \in Seq(M)
        /\ parked' = [parked EXCEPT ![m] = TRUE] /\ idle_m' = <<m>> \o idle_m
        /\ resume' = resume /\ frame[m].at = "park"
    BY DEF Before, Always, Park, FieldTypes, OtherTypes, gVars, At
  <1>1. ~parked[m]
    BY <1>0 DEF Before, Always, Shape, ShapeOf, ShapeAt
  <1>2. /\ m \notin ToSet(idle_m) /\ \A x \in M : frame[x].w # m
        /\ \A g \in G : resume[g].w # m
    BY <1>0, <1>1 DEF Known
  <1>3. \A x \in M : frame'[x].w = frame[x].w
    <2>1. Step(m) /\ ~WakeM(m) /\ ~WakeBind(m) /\ ~SwitchIn(m)
      BY <1>0 DEF Step, WakeM, WakeBind, SwitchIn, At
    <2> QED
      BY <2>1, StepNoLink
  <1>4. ToSet(idle_m') = ToSet(idle_m) \cup {m} /\ Distinct(idle_m')
    BY <1>0, <1>2, PutFirst DEF Known
  <1>5. \A x \in M : parked'[x] = (parked[x] \/ x = m)
    BY <1>0 DEF FieldTypes, OtherTypes
  <1>6. \A x \in M : parked'[x] <=> \/ x \in ToSet(idle_m)'
                                   \/ \E y \in M : frame'[y].w = x
                                   \/ \E g \in G : resume'[g].w = x
    <2>1. SUFFICES ASSUME NEW x \in M
                   PROVE  parked'[x] <=> \/ x \in ToSet(idle_m)'
                                         \/ \E y \in M : frame'[y].w = x
                                         \/ \E g \in G : resume'[g].w = x
      OBVIOUS
    <2>2. parked[x] <=> \/ x \in ToSet(idle_m)
                        \/ \E y \in M : frame[y].w = x
                        \/ \E g \in G : resume[g].w = x
      BY <1>0 DEF Known
    <2>3. (\E y \in M : frame'[y].w = x) <=> (\E y \in M : frame[y].w = x)
      BY <1>3
    <2>4. (x \in ToSet(idle_m)') <=> (x \in ToSet(idle_m) \/ x = m)
      BY <1>4
    <2>5. parked'[x] <=> (parked[x] \/ x = m)
      BY <1>5
    <2> QED
      BY <1>0, <2>2, <2>3, <2>4, <2>5
  <1>7. \A x \in M : frame'[x].w # NULL =>
          /\ frame'[x].w \notin ToSet(idle_m)'
          /\ \A y \in M : frame'[y].w = frame'[x].w => y = x
          /\ \A g \in G : resume'[g].w # frame'[x].w
    BY <1>0, <1>2, <1>3, <1>4 DEF Known
  <1>8. \A g \in G : resume'[g].w # NULL =>
          /\ resume'[g].w \notin ToSet(idle_m)'
          /\ \A k \in G : resume'[k].w = resume'[g].w => k = g
    BY <1>0, <1>2, <1>4 DEF Known
  <1> QED
    BY <1>4, <1>6, <1>7, <1>8 DEF Known

LEMMA WakeMKnown ==
  ASSUME NEW m, Before(m), WakeM(m)
  PROVE  Known'
  <1>0. /\ FieldTypes /\ FrameTypes /\ m \in M /\ Known /\ idle_m \in Seq(M)
        /\ parked' = parked /\ resume' = resume /\ frame[m].at = "wake_m" /\ frame[m] \in FrameSet
    BY DEF Before, Always, WakeM, FieldTypes, OtherTypes, gVars, At, FrameTypes
  <1>1. frame[m].w = NULL
    BY <1>0 DEF FrameTypes, FrameOK
  <1>2. CASE idle_m = <<>> /\ idle_m' = idle_m /\ Moved(m, [frame[m] EXCEPT !.at = "wake_new"])
    <2>1. [frame[m] EXCEPT !.at = "wake_new"].w = NULL
      BY <1>0, <1>1 DEF FrameSet
    <2>2. \A x \in M : frame'[x].w = frame[x].w
      BY <1>1, <1>2, <2>1 DEF Moved
    <2> QED
      BY <1>0, <1>2, <2>2, KnownSame
  <1> DEFINE h == Head(idle_m)
  <1>3. CASE idle_m # <<>> /\ Moved(m, [frame[m] EXCEPT !.at = "wake_bind", !.w = h])
    <2>0. h \in M /\ h \in ToSet(idle_m) /\ idle_m' = Tail(idle_m)
      BY <1>0, <1>3, HeadTaken DEF WakeM
    <2>1. [frame[m] EXCEPT !.at = "wake_bind", !.w = h].w = h
      BY <1>0 DEF FrameSet
    <2>2. ToSet(idle_m') = ToSet(idle_m) \ {h} /\ Distinct(idle_m')
      BY <1>0, <1>3, <2>0, HeadTaken DEF Known
    <2>3. frame'[m].w = h /\ \A x \in M : x # m => frame'[x].w = frame[x].w
      BY <1>3, <2>1 DEF Moved
    <2>4. /\ \A x \in M : frame[x].w # h
          /\ \A g \in G : resume[g].w # h
      BY <1>0, <2>0, NullIsNone DEF Known
    <2> HIDE DEF h
    <2>5. \A x \in M : parked'[x] <=> \/ x \in ToSet(idle_m)'
                                     \/ \E y \in M : frame'[y].w = x
                                     \/ \E g \in G : resume'[g].w = x
      BY <1>0, <1>1, <2>0, <2>2, <2>3, NullIsNone DEF Known
    <2>6. \A x \in M : frame'[x].w # NULL =>
            /\ frame'[x].w \notin ToSet(idle_m)'
            /\ \A y \in M : frame'[y].w = frame'[x].w => y = x
            /\ \A g \in G : resume'[g].w # frame'[x].w
      BY <1>0, <2>2, <2>3, <2>4 DEF Known
    <2>7. \A g \in G : resume'[g].w # NULL =>
            /\ resume'[g].w \notin ToSet(idle_m)'
            /\ \A k \in G : resume'[k].w = resume'[g].w => k = g
      BY <1>0, <2>2 DEF Known
    <2> QED
      BY <2>2, <2>5, <2>6, <2>7 DEF Known
  <1> QED
    BY <1>2, <1>3, WakeMMoves

LEMMA WakeBindKnown ==
  ASSUME NEW m, Before(m), WakeBind(m)
  PROVE  Known'
  <1> DEFINE w == frame[m].w
  <1>0. /\ FieldTypes /\ FrameTypes /\ m \in M /\ Known /\ idle_m \in Seq(M)
        /\ resume' = resume /\ frame[m].at = "wake_bind" /\ w \in M
    BY WakeBindMoves DEF Before, Always, WakeBind, FieldTypes, OtherTypes, gVars, At
  <1>1. frame'[m].w = NULL /\ \A x \in M : x # m => frame'[x].w = frame[x].w
    BY <1>0, WakeBindMoves, CallerFrame DEF Moved, Calls
  <1>2. /\ w \notin ToSet(idle_m) /\ \A x \in M : x # m => frame[x].w # w
        /\ \A g \in G : resume[g].w # w
        /\ w # NULL /\ parked[w] /\ Distinct(idle_m)
    BY <1>0, NullIsNone DEF Known
  <1>3. w = frame[m].w
    OBVIOUS
  <1> HIDE DEF w
  <1>4. \/ ToSet(idle_m') = ToSet(idle_m) /\ Distinct(idle_m')
             /\ \A x \in M : parked'[x] = (parked[x] /\ x # w)
        \/ ToSet(idle_m') = ToSet(idle_m) \cup {w} /\ Distinct(idle_m') /\ parked' = parked
    <2>1. \/ idle_m' = idle_m /\ parked' = [parked EXCEPT ![w] = FALSE]
          \/ idle_m' = <<w>> \o idle_m /\ parked' = parked
      BY <1>3 DEF WakeBind
    <2>2. CASE idle_m' = idle_m /\ parked' = [parked EXCEPT ![w] = FALSE]
      BY <1>0, <1>2, <2>2 DEF FieldTypes, OtherTypes
    <2>3. CASE idle_m' = <<w>> \o idle_m /\ parked' = parked
      BY <1>0, <1>2, <2>3, PutFirst
    <2> QED
      BY <2>1, <2>2, <2>3
  <1>5. \A x \in M : parked'[x] <=> \/ x \in ToSet(idle_m)'
                                   \/ \E y \in M : frame'[y].w = x
                                   \/ \E g \in G : resume'[g].w = x
    <2>1. SUFFICES ASSUME NEW x \in M
                   PROVE  parked'[x] <=> \/ x \in ToSet(idle_m)'
                                         \/ \E y \in M : frame'[y].w = x
                                         \/ \E g \in G : resume'[g].w = x
      OBVIOUS
    <2>2. parked[x] <=> \/ x \in ToSet(idle_m)
                        \/ \E y \in M : frame[y].w = x
                        \/ \E g \in G : resume[g].w = x
      BY <1>0 DEF Known
    <2>3. CASE x = w
      <3>1. ~(\E y \in M : frame'[y].w = x) /\ ~(\E g \in G : resume'[g].w = x)
        BY <1>0, <1>1, <1>2, <2>3
      <3> QED
        BY <1>2, <1>4, <2>3, <3>1
    <2>4. CASE x # w
      <3>1. (\E y \in M : frame'[y].w = x) <=> (\E y \in M : frame[y].w = x)
        BY <1>1, <1>3, <2>4, NullIsNone
      <3> QED
        BY <1>0, <1>4, <2>2, <2>4, <3>1
    <2> QED
      BY <2>3, <2>4
  <1>6. \A x \in M : frame'[x].w # NULL =>
          /\ frame'[x].w \notin ToSet(idle_m)'
          /\ \A y \in M : frame'[y].w = frame'[x].w => y = x
          /\ \A g \in G : resume'[g].w # frame'[x].w
    BY <1>0, <1>1, <1>2, <1>4 DEF Known
  <1>7. \A g \in G : resume'[g].w # NULL =>
          /\ resume'[g].w \notin ToSet(idle_m)'
          /\ \A k \in G : resume'[k].w = resume'[g].w => k = g
    BY <1>0, <1>2, <1>4 DEF Known
  <1> QED
    BY <1>4, <1>5, <1>6, <1>7 DEF Known

LEMMA LastDiedKnown ==
  ASSUME NEW m, Before(m), LastDied(m)
  PROVE  Known'
  <1>0. /\ m \in M /\ Known /\ idle_m' = <<>> /\ frame[m].at = "last_died"
        /\ resume' = resume /\ \A x \in M : parked'[x] = (parked[x] /\ x \notin ToSet(idle_m))
    BY DEF Before, Always, LastDied, gVars, At
  <1>1. \A x \in M : frame'[x].w = frame[x].w
    <2>1. Step(m) /\ ~WakeM(m) /\ ~WakeBind(m) /\ ~SwitchIn(m)
      BY <1>0 DEF Step, WakeM, WakeBind, SwitchIn, At
    <2> QED
      BY <2>1, StepNoLink
  <1>2. ToSet(idle_m') = {} /\ Distinct(idle_m')
    <2>1. DOMAIN idle_m' = {}
      BY <1>0
    <2> QED
      BY <2>1 DEF ToSet, Distinct
  <1>3. \A x \in M : parked'[x] <=> \/ x \in ToSet(idle_m)'
                                   \/ \E y \in M : frame'[y].w = x
                                   \/ \E g \in G : resume'[g].w = x
    <2>1. \A x \in M : frame[x].w # NULL => frame[x].w \notin ToSet(idle_m)
      BY <1>0 DEF Known
    <2>2. \A g \in G : resume[g].w # NULL => resume[g].w \notin ToSet(idle_m)
      BY <1>0 DEF Known
    <2>3. \A x \in M : parked[x] <=> \/ x \in ToSet(idle_m)
                                     \/ \E y \in M : frame[y].w = x
                                     \/ \E g \in G : resume[g].w = x
      BY <1>0 DEF Known
    <2>4. SUFFICES ASSUME NEW x \in M
                   PROVE  parked'[x] <=> \/ x \in ToSet(idle_m)'
                                         \/ \E y \in M : frame'[y].w = x
                                         \/ \E g \in G : resume'[g].w = x
      OBVIOUS
    <2>5. (\E y \in M : frame'[y].w = x) <=> (\E y \in M : frame[y].w = x)
      BY <1>1
    <2>6. x \in ToSet(idle_m) => ~(\E y \in M : frame[y].w = x) /\ ~(\E g \in G : resume[g].w = x)
      BY <2>1, <2>2, NullIsNone
    <2>7. parked'[x] <=> (parked[x] /\ x \notin ToSet(idle_m))
      BY <1>0
    <2>8. x \notin ToSet(idle_m)'
      BY <1>2
    <2>9. parked[x] <=> \/ x \in ToSet(idle_m)
                        \/ \E y \in M : frame[y].w = x
                        \/ \E g \in G : resume[g].w = x
      BY <2>3
    <2> QED
      BY <1>0, <2>5, <2>6, <2>7, <2>8, <2>9
  <1>4. \A x \in M : frame'[x].w # NULL =>
          /\ frame'[x].w \notin ToSet(idle_m)'
          /\ \A y \in M : frame'[y].w = frame'[x].w => y = x
          /\ \A g \in G : resume'[g].w # frame'[x].w
    BY <1>0, <1>1, <1>2 DEF Known
  <1>5. \A g \in G : resume'[g].w # NULL =>
          /\ resume'[g].w \notin ToSet(idle_m)'
          /\ \A k \in G : resume'[k].w = resume'[g].w => k = g
    BY <1>0, <1>2 DEF Known
  <1> QED
    BY <1>2, <1>3, <1>4, <1>5 DEF Known

\* Unlinked Ms that change from one context to another.
LEMMA SwitchInKnown ==
  ASSUME NEW m, Before(m), SwitchIn(m)
  PROVE  Known'
  <1> DEFINE g == current_g[m]
  <1>0. /\ m \in M /\ Known /\ idle_m' = idle_m /\ parked' = parked /\ g \in G
        /\ frame'[m] = resume[g] /\ \A x \in M : x # m => frame'[x] = frame[x]
        /\ FrameTypes /\ resume' = [resume EXCEPT ![g] = Frame("user")]
        /\ frame[m].at = "switch_in"
    BY SwitchInMoves DEF Before, Always, SwitchIn, At, Moved
  <1>1. frame[m].w = NULL /\ Frame("user").w = NULL
    BY <1>0 DEF FrameTypes, FrameOK, Frame
  <1> HIDE DEF g
  <1>2. /\ frame'[m].w = resume[g].w /\ resume'[g].w = NULL
        /\ \A x \in M : x # m => frame'[x].w = frame[x].w
        /\ \A h \in G : h # g => resume'[h].w = resume[h].w
    BY <1>0, <1>1 DEF FrameTypes
  <1>3. \A x \in M : ((\E y \in M : frame'[y].w = x) \/ (\E h \in G : resume'[h].w = x))
                     <=> ((\E y \in M : frame[y].w = x) \/ (\E h \in G : resume[h].w = x))
    BY <1>0, <1>1, <1>2, NullIsNone
  <1>4. \A x \in M : parked'[x] <=> \/ x \in ToSet(idle_m)'
                                   \/ \E y \in M : frame'[y].w = x
                                   \/ \E h \in G : resume'[h].w = x
    BY <1>0, <1>3 DEF Known
  <1>5. \A x \in M : frame'[x].w # NULL =>
          /\ frame'[x].w \notin ToSet(idle_m)'
          /\ \A y \in M : frame'[y].w = frame'[x].w => y = x
          /\ \A h \in G : resume'[h].w # frame'[x].w
    BY <1>0, <1>2 DEF Known
  <1>6. \A k \in G : resume'[k].w # NULL =>
          /\ resume'[k].w \notin ToSet(idle_m)'
          /\ \A h \in G : resume'[h].w = resume'[k].w => h = k
    BY <1>0, <1>2 DEF Known
  <1> QED
    BY <1>0, <1>4, <1>5, <1>6 DEF Known

LEMMA PreemptKnown ==
  ASSUME NEW m, Before(m), Preempt(m)
  PROVE  Known'
  <1> DEFINE g == current_g[m]
  <1>0. /\ m \in M /\ Known /\ idle_m' = idle_m /\ parked' = parked /\ g \in G
        /\ Moved(m, [Frame("yield") EXCEPT !.self = m])
        /\ FrameTypes /\ resume' = [resume EXCEPT ![g] = frame[m]] /\ ~preempt_safe[g]
    BY SimpleMoves
       DEF Before, Always, Preempt, Preemptible, FieldTypes, OtherTypes
  <1>1. resume[g].w = NULL /\ [Frame("yield") EXCEPT !.self = m].w = NULL
    BY <1>0 DEF Frame, Before, Always, Shape, ResumeShape
  <1> HIDE DEF g
  <1>2. /\ resume'[g].w = frame[m].w /\ frame'[m].w = NULL
        /\ \A x \in M : x # m => frame'[x].w = frame[x].w
        /\ \A h \in G : h # g => resume'[h].w = resume[h].w
    BY <1>0, <1>1 DEF FrameTypes, Moved
  <1>3. \A x \in M : ((\E y \in M : frame'[y].w = x) \/ (\E h \in G : resume'[h].w = x))
                     <=> ((\E y \in M : frame[y].w = x) \/ (\E h \in G : resume[h].w = x))
    BY <1>0, <1>1, <1>2, NullIsNone
  <1>4. \A x \in M : parked'[x] <=> \/ x \in ToSet(idle_m)'
                                   \/ \E y \in M : frame'[y].w = x
                                   \/ \E h \in G : resume'[h].w = x
    BY <1>0, <1>3 DEF Known
  <1>5. \A x \in M : frame'[x].w # NULL =>
          /\ frame'[x].w \notin ToSet(idle_m)'
          /\ \A y \in M : frame'[y].w = frame'[x].w => y = x
          /\ \A h \in G : resume'[h].w # frame'[x].w
    BY <1>0, <1>2 DEF Known
  <1>6. \A k \in G : resume'[k].w # NULL =>
          /\ resume'[k].w \notin ToSet(idle_m)'
          /\ \A h \in G : resume'[h].w = resume'[k].w => h = k
    BY <1>0, <1>2 DEF Known
  <1> QED
    BY <1>0, <1>4, <1>5, <1>6 DEF Known

LEMMA UserNoLink ==
  ASSUME NEW m, Before(m), User(m) \/ PreemptSwitch(m)
  PROVE  (\A x \in M : frame'[x].w = frame[x].w) /\ (\A g \in G : resume'[g].w = resume[g].w)
  <1>1. CASE OpenOrClose(m) \/ PreemptSwitch(m)
    BY <1>1 DEF OpenOrClose, PreemptSwitch, mVars, gVars
  <1>2. CASE ~(OpenOrClose(m) \/ PreemptSwitch(m))
    <2>0. FrameTypes /\ frame[m].at # "wake_bind"
      <3>1. FrameTypes
        BY DEF Before, Always
      <3>2. frame[m].at = "user" \/ frame[m].at = "main"
        BY <1>2, Zenon DEF User, BeginYield, Block, WaitIo, BeginExit, RunScheduler, BeginSpawn,
                           BeginReady, InUser, At
      <3> QED
        BY <3>1, <3>2
    <2>1. \E f : Moved(m, f) /\ f.at # "wake_bind"
      <3>1. /\ Frame("switch").at # "wake_bind" /\ Frame("loop").at # "wake_bind"
            /\ [Frame("yield") EXCEPT !.self = m].at # "wake_bind"
            /\ [Frame("exit") EXCEPT !.self = m].at # "wake_bind"
        BY DEF Frame
      <3>2. \A g, t :
              /\ [Frame("ready") EXCEPT !.g = g, !.then = t].at # "wake_bind"
              /\ [Frame("spawn") EXCEPT !.g = g, !.self = m, !.then = t].at # "wake_bind"
        BY DEF Frame
      <3>3. CASE BeginYield(m) \/ BeginExit(m) \/ Block(m) \/ WaitIo(m) \/ RunScheduler(m)
        <4>1. \/ Moved(m, Frame("switch")) \/ Moved(m, Frame("loop"))
              \/ Moved(m, [Frame("yield") EXCEPT !.self = m])
              \/ Moved(m, [Frame("exit") EXCEPT !.self = m])
          BY <3>3, SimpleMoves
        <4> QED
          BY <3>1, <4>1
      <3>4. ASSUME NEW g \in G, BeginSpawn(m, g) PROVE \E f : Moved(m, f) /\ f.at # "wake_bind"
        <4>1. Moved(m, [Frame("spawn") EXCEPT !.g = g, !.self = m, !.then = frame[m].at])
          BY <3>4, BeginSpawnMoves
        <4> QED
          BY <3>2, <4>1
      <3>5. ASSUME NEW g \in G, BeginReady(m, g) PROVE \E f : Moved(m, f) /\ f.at # "wake_bind"
        <4>1. Moved(m, [Frame("ready") EXCEPT !.g = g, !.then = "user"])
          BY <3>5, BeginReadyMoves
        <4> QED
          BY <3>2, <4>1
      <3> QED
        BY <1>2, <3>3, <3>4, <3>5 DEF User
    <2>2. \A g \in G : resume'[g].w = resume[g].w
      <3>1. CASE resume' = resume
        BY <3>1
      <3>2. CASE BeginYield(m) \/ Block(m) \/ WaitIo(m)
        <4>0. frame[m].at = "user" /\ resume' = [resume EXCEPT ![current_g[m]] = Frame("user")]
          BY <3>2 DEF BeginYield, Block, WaitIo, InUser, At
        <4>1. current_g[m] \in G
          BY <4>0 DEF Before, Always, Shape, ShapeOf, ShapeAt, GSide, GCode, FieldTypes,
                      OtherTypes
        <4>2. ~preempt_safe[current_g[m]]
          BY <4>0, <4>1, NullIsNone
             DEF Before, Always, WhileOk, SingleRun, Single, On, FieldTypes, OtherTypes
        <4>3. resume[current_g[m]] = Frame("user")
          BY <4>1, <4>2 DEF Before, Always, Shape, ResumeShape
        <4> QED
          BY <2>0, <4>0, <4>3 DEF FrameTypes
      <3> QED
        BY <1>2, <3>1, <3>2, Zenon
           DEF User, BeginExit, RunScheduler, BeginSpawn, BeginReady, gVars
    <2> QED
      BY <2>0, <2>1, <2>2, NoLink
  <1> QED
    BY <1>1, <1>2

\* Types, Shape, Owned and Known come through every step, whatever it ends in.
LEMMA NextAlways ==
  ASSUME SchedInv, Next PROVE Always'
  <1>0. fate = "ok" /\ Always /\ WhileOk
    BY DEF SchedInv, Next
  <1>1. ASSUME NEW m \in M, Step(m) PROVE Always'
    <2>0. Before(m)
      BY <1>0 DEF Before
    <2>1. FieldTypes' /\ FrameTypes' /\ Shape'
      BY <1>1, <2>0, StepFieldTypes, StepFrameTypes, StepShape
    <2>2. Owned'
      BY <1>0, <1>1, <2>0, StepProcs, AcquireOwned, ReleaseOwned, KeepOwned DEF Always
    <2>3. Known'
      <3>1. CASE Park(m) \/ WakeM(m) \/ WakeBind(m) \/ LastDied(m) \/ SwitchIn(m)
        BY <2>0, <3>1, ParkKnown, WakeMKnown, WakeBindKnown, LastDiedKnown, SwitchInKnown
      <3>2. CASE ~(Park(m) \/ WakeM(m) \/ WakeBind(m) \/ LastDied(m) \/ SwitchIn(m))
        <4>1. idle_m' = idle_m /\ parked' = parked
          BY <1>1, <3>2, Zenon
             DEF Step, LoopTop, NoP, Unparked, FindLocal, FindGlobal, PollReady,
             PollDone, Steal, NoWork, PollBlockingDone, GiveUp, Execute, SwitchOut, Returned,
             Yield, Exit, Spawn, GReady, Queue, Wake, WakeNew
        <4>2. resume' = resume
          BY <1>1, <3>2, StepResume
        <4>3. \A x \in M : frame'[x].w = frame[x].w
          BY <1>1, <2>0, <3>2, StepNoLink
        <4> QED
          BY <1>0, <4>1, <4>2, <4>3, KnownSame DEF Always
      <3> QED
        BY <3>1, <3>2
    <2> QED
      BY <2>1, <2>2, <2>3 DEF Always
  <1>2. ASSUME NEW m \in M, User(m) \/ Preempt(m) \/ PreemptSwitch(m) PROVE Always'
    <2>0. Before(m)
      BY <1>0 DEF Before
    <2>1. FieldTypes' /\ FrameTypes' /\ Shape'
      BY <1>2, <2>0, UserFieldTypes, UserFrameTypes, UserShape
    <2>2. Owned'
      BY <1>0, <1>2, UserProcs, KeepOwned DEF Always
    <2>3. Known'
      <3>1. CASE Preempt(m)
        BY <2>0, <3>1, PreemptKnown
      <3>2. CASE User(m) \/ PreemptSwitch(m)
        <4>1. idle_m' = idle_m /\ parked' = parked
          BY <3>2, Zenon
             DEF User, BeginYield, Block, WaitIo, OpenOrClose, BeginExit, RunScheduler,
                 BeginSpawn, BeginReady, PreemptSwitch, mVars
        <4> QED
          BY <1>0, <2>0, <3>2, <4>1, UserNoLink, KnownSame DEF Always
      <3> QED
        BY <1>2, <3>1, <3>2
    <2> QED
      BY <2>1, <2>2, <2>3 DEF Always
  <1>3. ASSUME NEW g \in G, IoEvent(g) PROVE Always'
    <2>1. FieldTypes' /\ FrameTypes' /\ Shape'
      BY <1>0, <1>3, EventTypes, EventShape DEF Always
    <2>2. Owned' /\ Known'
      BY <1>0, <1>3 DEF Always, Owned, Known, IoEvent, pVars, mVars, gVars
    <2> QED
      BY <2>1, <2>2 DEF Always
  <1> QED
    BY <1>1, <1>2, <1>3 DEF Next

-----------------------------------------------------------------------------
(* Where a G is *)

\* What m has in hand and runs, before and after a step that takes it to f.
LEMMA HandMoves ==
  ASSUME NEW m \in M, NEW f, Moved(m, f), NEW g \in G
  PROVE  /\ InHand(f) = g => Holders(g)' = Holders(g) \cup {m}
         /\ InHand(f) # g => Holders(g)' = Holders(g) \ {m}
         /\ m \in Holders(g) <=> InHand(frame[m]) = g
  BY DEF Moved, Holders

LEMMA RunMoves ==
  ASSUME NEW m \in M, NEW f, Moved(m, f), NEW g \in G,
         \A x \in M : x # m => current_g'[x] = current_g[x]
  PROVE  /\ InRun(f, current_g'[m]) = g => Runners(g)' = Runners(g) \cup {m}
         /\ InRun(f, current_g'[m]) # g => Runners(g)' = Runners(g) \ {m}
         /\ m \in Runners(g) <=> InRun(frame[m], current_g[m]) = g
  BY DEF Moved, Runners

\* What the contexts have in hand, when that of x changes.
LEMMA KeepMoves ==
  ASSUME NEW x \in G, NEW g \in G, \A y \in G : y # x => resume'[y] = resume[y]
  PROVE  /\ InHand(resume'[x]) = g => Keepers(g)' = Keepers(g) \cup {x}
         /\ InHand(resume'[x]) # g => Keepers(g)' = Keepers(g) \ {x}
         /\ x \in Keepers(g) <=> InHand(resume[x]) = g
  BY DEF Keepers

LEMMA KeepSame ==
  ASSUME \A x \in G : InHand(resume'[x]) = InHand(resume[x]), NEW g \in G
  PROVE  Keepers(g)' = Keepers(g)
  BY DEF Keepers

LEMMA ListsSame ==
  ASSUME local' = local, global' = global, NEW g
  PROVE  Lists(g)' = Lists(g) /\ (\A q \in Queues : List(q)' = List(q))
  BY DEF Lists, List, Queues

LEMMA WaitsSame ==
  ASSUME waiting' = waiting, io' = io, NEW g PROVE WaitsIn(g)' = WaitsIn(g)
  BY DEF WaitsIn

\* The list types, by queue.
LEMMA ListType ==
  ASSUME FieldTypes PROVE \A q \in Queues : List(q) \in Seq(G)
  BY DEF FieldTypes, ListTypes, Queues, List

\* A G put at the end of a queue.
LEMMA ListsPushed ==
  ASSUME FieldTypes, NEW q, NEW g, Pushed(q, g), q \notin Lists(g), InOnePlace
  PROVE  /\ \A r \in Queues : Distinct(List(r))'
         /\ Lists(g)' = Lists(g) \cup {q} /\ q \in Queues /\ g \in G
         /\ \A h \in G : h # g => Lists(h)' = Lists(h)
  <1>1. /\ q \in Queues /\ g \in G /\ List(q) \in Seq(G) /\ List(q)' = Append(List(q), g)
        /\ \A r \in Queues : r # q => List(r)' = List(r)
    BY ListType DEF Pushed
  <1>2. ToSet(List(q)') = ToSet(List(q)) \cup {g}
    BY <1>1, Appended
  <1>3. g \notin ToSet(List(q)) /\ Distinct(List(q))
    BY <1>1 DEF Lists, InOnePlace
  <1>4. Distinct(List(q)')
    BY <1>1, <1>3, Appended
  <1>5. \A r \in Queues : Distinct(List(r)')
    BY <1>1, <1>4 DEF InOnePlace
  <1>6. \A r \in Queues : ToSet(List(r)') = IF r = q THEN ToSet(List(r)) \cup {g}
                                                     ELSE ToSet(List(r))
    BY <1>1, <1>2
  <1>7. \A h \in G : Lists(h)' = {r \in Queues : h \in ToSet(List(r)')}
    BY DEF Lists
  <1> QED
    BY <1>1, <1>5, <1>6, <1>7 DEF Lists, Distinct

\* The one G taken from a queue.
Taken(q, g) ==
  /\ q \in Queues /\ g \in G
  /\ g \in ToSet(List(q)) /\ ToSet(List(q)') = ToSet(List(q)) \ {g}
  /\ Distinct(List(q)')
  /\ \A r \in Queues : r # q => List(r)' = List(r)

LEMMA ListsTaken ==
  ASSUME NEW q, NEW g, Taken(q, g), InOnePlace
  PROVE  /\ \A r \in Queues : Distinct(List(r))'
         /\ Lists(g)' = Lists(g) \ {q} /\ q \in Lists(g)
         /\ \A h \in G : h # g => Lists(h)' = Lists(h)
  <1>1. \A r \in Queues : Distinct(List(r)')
    BY DEF InOnePlace, Taken
  <1>2. \A h \in G : Lists(h)' = {r \in Queues : h \in ToSet(List(r)')}
    BY DEF Lists
  <1> QED
    BY <1>1, <1>2 DEF Lists, Distinct, Taken

\* A G has one place.
LEMMA PlaceIsOne ==
  ASSUME NEW g, PlaceOf(g)
  PROVE  /\ ~Active(g) => /\ Lists(g) = {} /\ Holders(g) = {} /\ Keepers(g) = {}
                          /\ WaitsIn(g) = {} /\ Runners(g) = {}
         /\ \A x \in Lists(g) : /\ Lists(g) = {x} /\ Holders(g) = {} /\ Keepers(g) = {}
                                /\ WaitsIn(g) = {} /\ Runners(g) = {} /\ Active(g)
         /\ \A x \in Holders(g) : /\ Lists(g) = {} /\ Holders(g) = {x} /\ Keepers(g) = {}
                                  /\ WaitsIn(g) = {} /\ Runners(g) = {} /\ Active(g)
         /\ \A x \in Keepers(g) : /\ Lists(g) = {} /\ Holders(g) = {} /\ Keepers(g) = {x}
                                  /\ WaitsIn(g) = {} /\ Runners(g) = {} /\ Active(g)
         /\ \A x \in WaitsIn(g) : /\ Lists(g) = {} /\ Holders(g) = {} /\ Keepers(g) = {}
                                  /\ WaitsIn(g) = {x} /\ Runners(g) = {} /\ Active(g)
         /\ \A x \in Runners(g) : /\ Lists(g) = {} /\ Holders(g) = {} /\ Keepers(g) = {}
                                  /\ WaitsIn(g) = {} /\ Runners(g) = {x} /\ Active(g)
  BY DEF PlaceOf, Placed, One

\* Nothing about g changes.
Stays(g) ==
  /\ Active(g)' <=> Active(g)
  /\ Lists(g)' = Lists(g) /\ Holders(g)' = Holders(g) /\ Keepers(g)' = Keepers(g)
  /\ WaitsIn(g)' = WaitsIn(g) /\ Runners(g)' = Runners(g)

LEMMA StaysPlaced ==
  ASSUME NEW g, PlaceOf(g), Stays(g) PROVE PlaceOf(g)'
  BY DEF PlaceOf, Stays, Placed

\* A step that moves one G at most.
LEMMA OneMoved ==
  ASSUME InOnePlace, \A q \in Queues : Distinct(List(q))',
         NEW g, PlaceOf(g)', \A h \in G : h # g => Stays(h),
         \A h \in G : h \in waiting' \cup io' => status'[h] = "G_WAITING",
         FieldTypes'
  PROVE  InOnePlace'
  <1>1. \A h \in G : PlaceOf(h)'
    BY StaysPlaced DEF InOnePlace
  <1>2. waiting' \cup io' \subseteq G
    BY SchedulerAssumption DEF FieldTypes, OtherTypes
  <1> QED
    BY <1>1, <1>2 DEF InOnePlace

LEMMA NoneMoved ==
  ASSUME InOnePlace, local' = local, global' = global, \A h \in G : Stays(h),
         \A h \in G : h \in waiting' \cup io' => status'[h] = "G_WAITING",
         FieldTypes'
  PROVE  InOnePlace'
  <1>1. \A h \in G : PlaceOf(h)'
    BY StaysPlaced DEF InOnePlace
  <1>2. waiting' \cup io' \subseteq G
    BY SchedulerAssumption DEF FieldTypes, OtherTypes
  <1>3. \A q \in Queues : Distinct(List(q))'
    BY ListsSame DEF InOnePlace, Distinct
  <1> QED
    BY <1>1, <1>2, <1>3 DEF InOnePlace

\* A step of m that moves no G, with the statuses of the same kind.
LEMMA QuietPlaces ==
  ASSUME NEW m, Before(m), NEW f, Moved(m, f), FieldTypes',
         InHand(f) = InHand(frame[m]),
         InRun(f, current_g'[m]) = InRun(frame[m], current_g[m]),
         \A x \in M : x # m => current_g'[x] = current_g[x],
         \A x \in G : InHand(resume'[x]) = InHand(resume[x]),
         local' = local, global' = global, waiting' = waiting, io' = io,
         \A g \in G : Active(g)' <=> Active(g),
         \A g \in G : status[g] = "G_WAITING" /\ g \in waiting \cup io => status'[g] = status[g]
  PROVE  InOnePlace'
  <1>0. InOnePlace /\ m \in M
    BY DEF Before, WhileOk
  <1>1. ASSUME NEW g \in G PROVE Stays(g)
    <2>0. /\ InHand(f) = g => Holders(g)' = Holders(g) \cup {m}
          /\ InHand(f) # g => Holders(g)' = Holders(g) \ {m}
          /\ m \in Holders(g) <=> InHand(frame[m]) = g
      BY <1>0, HandMoves
    <2>1. Holders(g)' = Holders(g)
      BY <2>0
    <2>2. Runners(g)' = Runners(g)
      BY <1>0, RunMoves
    <2> QED
      BY <2>1, <2>2, KeepSame, ListsSame, WaitsSame DEF Stays
  <1>2. \A g \in G : g \in waiting' \cup io' => status'[g] = "G_WAITING"
    BY <1>0 DEF InOnePlace
  <1> QED
    BY <1>0, <1>1, <1>2, NoneMoved

\* What is known of the G that m runs, and of the one it has in hand.
LEMMA RunsNow ==
  ASSUME NEW m, Before(m), NEW g \in G, g = current_g[m],
         frame[m].at \notin {"switch", "returned"}
  PROVE  /\ Lists(g) = {} /\ Holders(g) = {} /\ Keepers(g) = {} /\ WaitsIn(g) = {}
         /\ Runners(g) = {m} /\ Active(g) /\ g \notin waiting /\ g \notin io
  <1>1. m \in Runners(g)
    BY DEF Runners, InRun, Before
  <1>2. PlaceOf(g)
    BY DEF Before, WhileOk, InOnePlace
  <1>3. WaitsIn(g) = {} => g \notin waiting /\ g \notin io
    BY DEF WaitsIn
  <1> QED
    BY <1>1, <1>2, <1>3, PlaceIsOne

LEMMA HoldsNow ==
  ASSUME NEW m, Before(m), frame[m].at \in Handing, NEW g, g = frame[m].g
  PROVE  /\ g \in G /\ InHand(frame[m]) = g
         /\ Lists(g) = {} /\ Holders(g) = {m} /\ Keepers(g) = {} /\ WaitsIn(g) = {}
         /\ Runners(g) = {} /\ Active(g) /\ g \notin waiting /\ g \notin io
  <1>0. g \in G
    BY DEF Before, Always, FrameTypes, FrameOK
  <1>1. m \in Holders(g) /\ InHand(frame[m]) = g
    BY DEF Holders, InHand, Before
  <1>2. PlaceOf(g)
    BY <1>0 DEF Before, WhileOk, InOnePlace
  <1>3. WaitsIn(g) = {} => g \notin waiting /\ g \notin io
    BY DEF WaitsIn
  <1> QED
    BY <1>0, <1>1, <1>2, <1>3, PlaceIsOne

\* A G that user code runs on has an empty context in its record.
LEMMA PlainResume ==
  ASSUME NEW m, Before(m), NEW g \in G, g = current_g[m], On(m),
         frame[m].at \notin {"yield", "switch"}
  PROVE  resume[g] = Frame("user") /\ ~preempt_safe[g]
  <1>1. Single(m) /\ ResumeShape(g) /\ g # NULL /\ preempt_safe[g] \in BOOLEAN
    BY NullIsNone DEF Before, WhileOk, SingleRun, Always, Shape, FieldTypes, OtherTypes
  <1> QED
    BY <1>1 DEF Single, ResumeShape

LEMMA UserInHand == InHand(Frame("user")) = NULL
  BY DEF InHand, Frame, Handing

\* A step without a G in hand that changes no status.
LEMMA QuietSame ==
  ASSUME NEW m, Before(m), NEW f, Moved(m, f), FieldTypes',
         f.at \notin Handing, frame[m].at \notin Handing,
         \/ current_g[m] = NULL
         \/ f.at \in {"switch", "returned"} <=> frame[m].at \in {"switch", "returned"},
         status' = status, local' = local, global' = global, waiting' = waiting, io' = io,
         current_g' = current_g, \A x \in G : InHand(resume'[x]) = InHand(resume[x])
  PROVE  InOnePlace'
  <1>1. InHand(f) = InHand(frame[m]) /\ InRun(f, current_g'[m]) = InRun(frame[m], current_g[m])
    BY DEF InHand, InRun
  <1>2. \A g \in G : Active(g)' <=> Active(g)
    BY DEF Active
  <1> QED
    BY <1>1, <1>2, QuietPlaces

LEMMA NoG ==
  ASSUME NEW m, Before(m), ~GSide(frame[m]) PROVE current_g[m] = NULL
  BY DEF Before, Always, Shape, ShapeOf, ShapeAt

LEMMA LoopQuiet ==
  ASSUME NEW m, Before(m), FieldTypes',
         \/ LoopTop(m) \/ NoP(m) \/ Park(m) \/ Unparked(m) \/ PollDone(m) \/ NoWork(m)
         \/ PollBlockingDone(m) \/ GiveUp(m) \/ LastDied(m)
  PROVE  InOnePlace'
  <1>1. /\ status' = status /\ local' = local /\ global' = global /\ waiting' = waiting
        /\ io' = io /\ current_g' = current_g /\ resume' = resume
    BY DEF LoopTop, NoP, Park, Unparked, PollDone, NoWork, PollBlockingDone, GiveUp, LastDied,
           gVars, pVars, ioVars
  <1>2. frame[m].at \in {"loop", "no_p", "park", "parked", "poll", "steal", "poll_blocking",
                         "give_up", "last_died"}
    BY DEF LoopTop, NoP, Park, Unparked, PollDone, NoWork, PollBlockingDone, GiveUp, LastDied, At
  <1>3. frame[m].at \notin Handing /\ ~GSide(frame[m])
    BY <1>2 DEF Handing, GSide, GCode, Calls
  <1>4. current_g[m] = NULL
    BY <1>3, NoG
  <1>5. ASSUME NEW f, Moved(m, f), f.at \notin Handing PROVE InOnePlace'
    BY <1>1, <1>3, <1>4, <1>5, QuietSame
  <1>6. ASSUME NEW at \in {"find_local", "no_p", "exited", "park", "parked", "loop", "steal",
                           "poll_blocking", "give_up"}
        PROVE  Frame(at).at \notin Handing
    BY DEF Frame, Handing
  <1>7. /\ [Frame("find_local") EXCEPT !.woken = TRUE].at \notin Handing
        /\ \A S : [Frame("steal") EXCEPT !.left = S].at \notin Handing
    BY DEF Frame, Handing
  <1>8. \E f : Moved(m, f) /\ f.at \notin Handing
    <2>1. CASE LoopTop(m)
      BY <1>6, <2>1, LoopTopMoves
    <2>2. CASE PollDone(m)
      BY <1>7, <2>2, PollDoneMoves
    <2>3. CASE NoWork(m)
      BY <1>6, <2>3, NoWorkMoves
    <2>4. CASE GiveUp(m)
      BY <1>3, <1>6, <2>4, GiveUpMoves
    <2>5. CASE NoP(m)
      BY <1>6, <2>5, SimpleMoves
    <2>6. CASE Park(m) \/ Unparked(m) \/ LastDied(m)
      BY <1>6, <2>6, SimpleMoves
    <2>7. CASE PollBlockingDone(m)
      BY <1>6, <2>7, SimpleMoves
    <2> QED
      BY <2>1, <2>2, <2>3, <2>4, <2>5, <2>6, <2>7
  <1> QED
    BY <1>5, <1>8

LEMMA WakeQuiet ==
  ASSUME NEW m, Before(m), FieldTypes', Wake(m) \/ WakeM(m) \/ WakeBind(m)
  PROVE  InOnePlace'
  <1>1. /\ status' = status /\ local' = local /\ global' = global /\ waiting' = waiting
        /\ io' = io /\ current_g' = current_g /\ resume' = resume
    BY DEF Wake, WakeM, WakeBind, gVars, pVars, ioVars
  <1>2. frame[m].at \in {"wake", "wake_m", "wake_bind"} /\ FrameTypes /\ m \in M
    BY DEF Wake, WakeM, WakeBind, At, Before, Always
  <1>3. frame[m].at \notin Handing \cup {"switch", "returned"} /\ frame[m].at \in Calls
    BY <1>2 DEF Handing, Calls
  <1>4. Caller(m).at \notin Handing \cup {"switch", "returned"}
    <2>1. Caller(m).at \in Callers
      BY <1>2, <1>3, CallerFrame DEF FrameTypes, FrameOK
    <2> QED
      BY <2>1 DEF Callers, Handing
  <1>5. ASSUME NEW at \in {"wake_m", "wake_new"}
        PROVE  [frame[m] EXCEPT !.at = at].at \notin Handing \cup {"switch", "returned"}
    <2>1. [frame[m] EXCEPT !.at = at].at = at
      BY <1>2 DEF FrameTypes, FrameSet
    <2> QED
      BY <2>1 DEF Handing
  <1>6. [frame[m] EXCEPT !.at = "wake_bind", !.w = Head(idle_m)].at
          \notin Handing \cup {"switch", "returned"}
    <2>1. [frame[m] EXCEPT !.at = "wake_bind", !.w = Head(idle_m)].at = "wake_bind"
      BY <1>2 DEF FrameTypes, FrameSet
    <2> QED
      BY <2>1 DEF Handing
  <1>7. ASSUME NEW f, Moved(m, f), f.at \notin Handing \cup {"switch", "returned"}
        PROVE  InOnePlace'
    BY <1>1, <1>3, <1>7, QuietSame
  <1>8. \E f : Moved(m, f) /\ f.at \notin Handing \cup {"switch", "returned"}
    <2>1. CASE Wake(m)
      BY <1>4, <1>5, <2>1, WakeMoves
    <2>2. CASE WakeM(m)
      BY <1>5, <1>6, <2>2, WakeMMoves
    <2>3. CASE WakeBind(m)
      BY <1>4, <2>3, WakeBindMoves
    <2> QED
      BY <2>1, <2>2, <2>3
  <1> QED
    BY <1>7, <1>8

\* The new thread has no G.
LEMMA WakeNewQuiet ==
  ASSUME NEW m, Before(m), FieldTypes', WakeNew(m)
  PROVE  InOnePlace'
  <1>1. /\ status' = status /\ local' = local /\ global' = global /\ waiting' = waiting
        /\ io' = io /\ current_g' = current_g /\ resume' = resume
    BY DEF WakeNew, gVars, ioVars
  <1>2. frame[m].at = "wake_new" /\ FrameTypes /\ m \in M /\ FrameTypes'
    BY StepFrameTypes DEF WakeNew, At, Before, Always, Step
  <1>3. frame[m].at \notin Handing \cup {"switch", "returned"} /\ frame[m].at \in Calls
    BY <1>2 DEF Handing, Calls
  <1>4. Caller(m).at \notin Handing \cup {"switch", "returned"}
    <2>1. Caller(m).at \in Callers
      BY <1>2, <1>3, CallerFrame DEF FrameTypes, FrameOK
    <2> QED
      BY <2>1 DEF Callers, Handing
  <1>5. CASE Moved(m, Caller(m))
    BY <1>1, <1>3, <1>4, <1>5, QuietSame
  <1>6. ASSUME NEW x \in M, At(x, "unborn"), x # m, frame'[x] = Frame("loop"),
               frame'[m] = Caller(m), \A y \in M : y # m /\ y # x => frame'[y] = frame[y]
        PROVE  InOnePlace'
    <2>1. current_g[x] = NULL /\ frame[x].at = "unborn" /\ Frame("loop").at = "loop"
      BY <1>6 DEF At, GSide, GCode, Calls, Before, Always, Shape, ShapeOf, ShapeAt, Frame
    <2>2. \A y \in M : InHand(frame'[y]) = InHand(frame[y])
      BY <1>3, <1>4, <1>6, <2>1 DEF InHand, Handing
    <2>3. \A y \in M : InRun(frame'[y], current_g[y]) = InRun(frame[y], current_g[y])
      BY <1>3, <1>4, <1>6, <2>1 DEF InRun
    <2>4. \A g \in G : Holders(g)' = Holders(g) /\ Runners(g)' = Runners(g)
      BY <1>1, <2>2, <2>3 DEF Holders, Runners
    <2>5. \A g \in G : Active(g)' <=> Active(g)
      BY <1>1 DEF Active
    <2>6. \A g \in G : Stays(g)
      BY <1>1, <2>4, <2>5, KeepSame, ListsSame, WaitsSame DEF Stays
    <2>7. \A g \in G : g \in waiting' \cup io' => status'[g] = "G_WAITING"
      BY <1>1 DEF Before, WhileOk, InOnePlace
    <2> QED
      BY <1>1, <2>6, <2>7, NoneMoved DEF Before, WhileOk
  <1> QED
    BY <1>5, <1>6, WakeNewMoves

LEMMA BackQuiet ==
  ASSUME NEW m, Before(m), FieldTypes', SwitchOut(m) \/ Returned(m) \/ GReady(m)
  PROVE  InOnePlace'
  <1>0. m \in M /\ FrameTypes /\ FieldTypes
    BY DEF Before, Always
  <1>1. CASE SwitchOut(m)
    <2> DEFINE f == [Frame("returned") EXCEPT !.g = current_g[m]]
    <2>1. Moved(m, f) /\ f.at = "returned" /\ frame[m].at = "switch"
      BY <1>1, SwitchOutMoves DEF Frame, SwitchOut, At
    <2>2. /\ status' = status /\ local' = local /\ global' = global /\ waiting' = waiting
          /\ io' = io /\ current_g' = current_g /\ resume' = resume
      BY <1>1 DEF SwitchOut, pVars, ioVars
    <2> HIDE DEF f
    <2>3. f.at \notin Handing /\ frame[m].at \notin Handing
      BY <2>1 DEF Handing
    <2> QED
      BY <2>1, <2>2, <2>3, QuietSame
  <1>2. CASE Returned(m)
    <2>1. PICK at \in {"last_died", "loop"} : Moved(m, Frame(at))
      BY <1>2, SimpleMoves
    <2>2. Frame(at).at \notin Handing /\ frame[m].at = "returned"
      BY <1>2, <2>1 DEF Frame, Handing, Returned, At
    <2>3. /\ local' = local /\ global' = global /\ waiting' = waiting
          /\ io' = io /\ current_g' = [current_g EXCEPT ![m] = NULL] /\ resume' = resume
          /\ \/ status' = status
             \/ /\ status[frame[m].g] = "G_DEAD"
                /\ status' = [status EXCEPT ![frame[m].g] = "FREED"]
      BY <1>0, <1>2 DEF Returned, pVars, ioVars, FieldTypes, OtherTypes
    <2>4. InHand(Frame(at)) = InHand(frame[m])
      BY <2>2 DEF InHand, Handing
    <2>5. InRun(Frame(at), current_g'[m]) = InRun(frame[m], current_g[m])
      BY <1>0, <2>2, <2>3 DEF InRun, FieldTypes, OtherTypes
    <2>6. \A g \in G : Active(g)' <=> Active(g)
      BY <1>0, <2>3 DEF Active, FieldTypes, OtherTypes
    <2>7. \A x \in M : x # m => current_g'[x] = current_g[x]
      BY <1>0, <2>3 DEF FieldTypes, OtherTypes
    <2>8. \A g \in G : status[g] = "G_WAITING" => status'[g] = status[g]
      BY <1>0, <2>3 DEF FieldTypes, OtherTypes
    <2> QED
      BY <2>1, <2>3, <2>4, <2>5, <2>6, <2>7, <2>8, QuietPlaces
  <1>3. CASE GReady(m)
    <2> DEFINE g == frame[m].g
    <2>0. frame[m].at = "ready" /\ frame[m] \in FrameSet /\ frame[m].at \in Handing
      BY <1>0, <1>3 DEF GReady, At, FrameTypes, FrameSet, Handing
    <2>1. PICK p \in P \cup {NULL} : Moved(m, [frame[m] EXCEPT !.at = "queue", !.self = m, !.p = p])
      BY <1>3, GReadyMoves
    <2> DEFINE f == [frame[m] EXCEPT !.at = "queue", !.self = m, !.p = p]
    <2>2. f.at = "queue" /\ f.g = g
      BY <2>0 DEF FrameSet
    <2>3. g \in G /\ Active(g) /\ g \notin waiting /\ g \notin io
      BY <2>0, HoldsNow
    <2>4. /\ local' = local /\ global' = global /\ waiting' = waiting
          /\ io' = io /\ current_g' = current_g /\ resume' = resume
          /\ status' = [status EXCEPT ![g] = "G_RUNNABLE"]
      BY <1>3 DEF GReady, pVars, ioVars
    <2>5. Moved(m, f)
      BY <2>1
    <2>6. InHand(f) = InHand(frame[m]) /\ InRun(f, current_g'[m]) = InRun(frame[m], current_g[m])
      BY <2>0, <2>2, <2>4 DEF InHand, InRun, Handing
    <2> HIDE DEF f, g
    <2>7. \A h \in G : Active(h)' <=> Active(h)
      BY <1>0, <2>3, <2>4 DEF Active, FieldTypes, OtherTypes
    <2>8. \A h \in G : h \in waiting \cup io => status'[h] = status[h]
      BY <1>0, <2>3, <2>4 DEF FieldTypes, OtherTypes
    <2> QED
      BY <2>4, <2>5, <2>6, <2>7, <2>8, QuietPlaces
  <1> QED
    BY <1>1, <1>2, <1>3

LEMMA UserQuiet ==
  ASSUME NEW m, Before(m), FieldTypes',
         BeginYield(m) \/ BeginExit(m) \/ RunScheduler(m) \/ OpenOrClose(m)
  PROVE  InOnePlace'
  <1>0. m \in M /\ FrameTypes /\ FieldTypes
    BY DEF Before, Always
  <1>1. /\ status' = status /\ local' = local /\ global' = global /\ waiting' = waiting
        /\ io' = io /\ current_g' = current_g
    BY DEF BeginYield, BeginExit, RunScheduler, OpenOrClose, gVars, pVars, ioVars, mVars
  <1>2. \A x \in G : resume'[x] = resume[x]
    <2>1. CASE BeginYield(m)
      <3>1. frame[m].at = "user" /\ resume' = [resume EXCEPT ![current_g[m]] = Frame("user")]
        BY <2>1 DEF BeginYield, InUser, At
      <3>2. current_g[m] \in G
        BY <3>1, HasG DEF GSide, GCode, Calls
      <3>3. resume[current_g[m]] = Frame("user")
        BY <3>1, <3>2, PlainResume DEF On
      <3> QED
        BY <1>0, <3>1, <3>3 DEF FrameTypes
    <2>2. CASE ~BeginYield(m)
      BY <2>2 DEF BeginExit, RunScheduler, OpenOrClose, gVars
    <2> QED
      BY <2>1, <2>2
  <1>3. ASSUME NEW f, Moved(m, f), f.at \notin Handing, frame[m].at \notin Handing,
               \/ current_g[m] = NULL
               \/ f.at \in {"switch", "returned"} <=> frame[m].at \in {"switch", "returned"}
        PROVE  InOnePlace'
    BY <1>1, <1>2, <1>3, QuietSame
  <1>4. CASE BeginYield(m)
    <2>1. Moved(m, [Frame("yield") EXCEPT !.self = m]) /\ frame[m].at = "user"
      BY <1>4, SimpleMoves DEF BeginYield, InUser, At
    <2>2. [Frame("yield") EXCEPT !.self = m].at = "yield"
      BY DEF Frame
    <2> QED
      BY <1>3, <2>1, <2>2 DEF Handing
  <1>5. CASE BeginExit(m)
    <2>1. Moved(m, [Frame("exit") EXCEPT !.self = m]) /\ frame[m].at = "user"
      BY <1>5, SimpleMoves DEF BeginExit, InUser, At
    <2>2. [Frame("exit") EXCEPT !.self = m].at = "exit"
      BY DEF Frame
    <2> QED
      BY <1>3, <2>1, <2>2 DEF Handing
  <1>6. CASE RunScheduler(m)
    <2>1. Moved(m, Frame("loop")) /\ frame[m].at = "main"
      BY <1>6, SimpleMoves DEF RunScheduler, At
    <2>2. Frame("loop").at = "loop"
      BY DEF Frame
    <2> QED
      BY <1>3, <2>1, <2>2 DEF Handing
  <1>7. CASE OpenOrClose(m)
    <2>1. Moved(m, frame[m]) /\ frame[m].at = "user"
      BY <1>0, <1>7 DEF OpenOrClose, mVars, Moved, FrameTypes, InUser, At
    <2> QED
      BY <1>3, <2>1 DEF Handing
  <1> QED
    BY <1>4, <1>5, <1>6, <1>7

LEMMA EventQuiet ==
  ASSUME InOnePlace, FieldTypes', NEW g \in G, IoEvent(g)
  PROVE  InOnePlace'
  <1>1. /\ status' = status /\ local' = local /\ global' = global /\ waiting' = waiting
        /\ io' = io /\ current_g' = current_g /\ resume' = resume /\ frame' = frame
    BY DEF IoEvent, gVars, pVars, mVars
  <1>2. \A h \in G : Stays(h)
    BY <1>1, KeepSame, ListsSame, WaitsSame DEF Stays, Active, Holders, Runners
  <1>3. \A h \in G : h \in waiting' \cup io' => status'[h] = "G_WAITING"
    BY <1>1 DEF InOnePlace
  <1> QED
    BY <1>1, <1>2, <1>3, NoneMoved

LEMMA HandSame ==
  ASSUME NEW m \in M, NEW f, Moved(m, f), NEW g \in G,
         InHand(f) = g <=> InHand(frame[m]) = g
  PROVE  Holders(g)' = Holders(g)
  <1>1. /\ InHand(f) = g => Holders(g)' = Holders(g) \cup {m}
        /\ InHand(f) # g => Holders(g)' = Holders(g) \ {m}
        /\ m \in Holders(g) <=> InHand(frame[m]) = g
    BY HandMoves
  <1> QED
    BY <1>1

LEMMA RunSame ==
  ASSUME NEW m \in M, NEW f, Moved(m, f), NEW g \in G,
         \A x \in M : x # m => current_g'[x] = current_g[x],
         InRun(f, current_g'[m]) = g <=> InRun(frame[m], current_g[m]) = g
  PROVE  Runners(g)' = Runners(g)
  <1>1. /\ InRun(f, current_g'[m]) = g => Runners(g)' = Runners(g) \cup {m}
        /\ InRun(f, current_g'[m]) # g => Runners(g)' = Runners(g) \ {m}
        /\ m \in Runners(g) <=> InRun(frame[m], current_g[m]) = g
    BY RunMoves
  <1> QED
    BY <1>1

\* From a queue into the hands of m.
LEMMA TakePlaces ==
  ASSUME NEW m, Before(m), FieldTypes', NEW q, NEW g, Taken(q, g), NEW f, Moved(m, f),
         InHand(f) = g, InHand(frame[m]) = NULL, current_g[m] = NULL, current_g' = current_g,
         status' = status, resume' = resume, waiting' = waiting, io' = io
  PROVE  InOnePlace'
  <1>0. InOnePlace /\ m \in M /\ g \in G /\ PlaceOf(g)
    BY DEF Before, WhileOk, InOnePlace, Taken
  <1>1. /\ \A r \in Queues : Distinct(List(r))'
        /\ Lists(g)' = Lists(g) \ {q} /\ q \in Lists(g)
        /\ \A h \in G : h # g => Lists(h)' = Lists(h)
    BY <1>0, ListsTaken
  <1>2. /\ Lists(g) = {q} /\ Holders(g) = {} /\ Keepers(g) = {}
        /\ WaitsIn(g) = {} /\ Runners(g) = {} /\ Active(g)
    BY <1>0, <1>1, PlaceIsOne
  <1>3. Holders(g)' = Holders(g) \cup {m}
    BY <1>0, HandMoves
  <1>4. ASSUME NEW h \in G
        PROVE  Runners(h)' = Runners(h) /\ Keepers(h)' = Keepers(h) /\ WaitsIn(h)' = WaitsIn(h)
    <2>1. Runners(h)' = Runners(h)
      BY <1>0, RunSame, NullIsNone DEF InRun
    <2> QED
      BY <2>1, KeepSame, WaitsSame
  <1>5. ASSUME NEW h \in G, h # g PROVE Stays(h)
    <2>1. Holders(h)' = Holders(h)
      BY <1>0, <1>5, HandSame, NullIsNone
    <2> QED
      BY <1>1, <1>4, <1>5, <2>1 DEF Stays, Active
  <1>6. PlaceOf(g)'
    <2>1. /\ Lists(g)' = {} /\ Holders(g)' = {m} /\ Keepers(g)' = {} /\ WaitsIn(g)' = {}
          /\ Runners(g)' = {} /\ Active(g)'
      BY <1>0, <1>1, <1>2, <1>3, <1>4 DEF Active
    <2> QED
      BY <2>1 DEF PlaceOf, Placed, One
  <1>7. \A h \in G : h \in waiting' \cup io' => status'[h] = "G_WAITING"
    BY <1>0 DEF InOnePlace
  <1> QED
    BY <1>0, <1>1, <1>5, <1>6, <1>7, OneMoved

LEMMA FindPlaces ==
  ASSUME NEW m, Before(m), FieldTypes', FindLocal(m) \/ FindGlobal(m) \/ Steal(m)
  PROVE  InOnePlace'
  <1>0. m \in M /\ FrameTypes /\ FieldTypes /\ InOnePlace
    BY DEF Before, Always, WhileOk
  <1>1. /\ status' = status /\ waiting' = waiting
        /\ io' = io /\ current_g' = current_g /\ resume' = resume
    BY DEF FindLocal, FindGlobal, Steal, gVars, ioVars
  <1>2. frame[m].at \in {"find_local", "find_global", "steal"}
    BY DEF FindLocal, FindGlobal, Steal, At
  <1>3. current_g[m] = NULL
    BY <1>2, NoG DEF GSide, GCode, Calls
  <1>4. InHand(frame[m]) = NULL /\ frame[m].at \notin Handing
    BY <1>2 DEF InHand, Handing
  <1>5. ASSUME NEW q, NEW g \in G, Taken(q, g), Moved(m, [Frame("execute") EXCEPT !.g = g])
        PROVE  InOnePlace'
    <2>1. InHand([Frame("execute") EXCEPT !.g = g]) = g
      BY DEF InHand, Frame, Handing
    <2> QED
      BY <1>1, <1>3, <1>4, <1>5, <2>1, TakePlaces
  <1>6. ASSUME NEW f, Moved(m, f), f.at \notin Handing, local' = local, global' = global
        PROVE  InOnePlace'
    BY <1>1, <1>3, <1>4, <1>6, QuietSame
  <1>7. CASE FindLocal(m)
    <2>0. PICK p \in P : p = current_p[m]
      BY <1>7, FindLocalMoves
    <2>1. p \in P /\ global' = global
      BY <1>7 DEF FindLocal
    <2>2. p \in Queues /\ List(p) = local[p] /\ List(p)' = local'[p] /\ local[p] \in Seq(G)
      BY <1>0, <2>1, NullIsNone DEF Queues, List, FieldTypes, ListTypes
    <2>3. CASE local[p] # <<>> /\ Moved(m, [Frame("execute") EXCEPT !.g = Last(local[p])])
      <3>1. local' = [local EXCEPT ![p] = Front(local[p])]
        BY <1>7, <2>0, <2>3 DEF FindLocal
      <3>2. /\ Last(local[p]) \in G /\ Last(local[p]) \in ToSet(local[p])
            /\ Distinct(Front(local[p]))
            /\ ToSet(Front(local[p])) = ToSet(local[p]) \ {Last(local[p])}
        <4>1. Distinct(local[p])
          BY <1>0, <2>2 DEF InOnePlace
        <4> QED
          BY <2>2, <2>3, <4>1, LastTaken
      <3>3. \A r \in Queues : r # p => List(r)' = List(r)
        BY <1>0, <2>1, <3>1 DEF Queues, List, FieldTypes, ListTypes
      <3>4. local'[p] = Front(local[p])
        BY <1>0, <2>1, <3>1 DEF FieldTypes, ListTypes
      <3>5. Taken(p, Last(local[p]))
        BY <2>2, <3>2, <3>3, <3>4 DEF Taken
      <3> QED
        BY <1>5, <2>3, <3>2, <3>5
    <2>4. CASE local' = local /\ Moved(m, [frame[m] EXCEPT !.at = "find_global"])
      <3>1. [frame[m] EXCEPT !.at = "find_global"].at = "find_global"
        BY <1>0 DEF FrameTypes, FrameSet
      <3> QED
        BY <1>6, <2>1, <2>4, <3>1 DEF Handing
    <2> QED
      BY <1>7, <2>0, <2>3, <2>4, FindLocalMoves
  <1>8. CASE FindGlobal(m)
    <2>1. global \in Seq(G) /\ NULL \in Queues /\ List(NULL) = global /\ List(NULL)' = global'
      BY <1>0 DEF Queues, List, FieldTypes, ListTypes
    <2>2. local' = local
      BY <1>8 DEF FindGlobal, pVars
    <2>3. CASE global # <<>> /\ Moved(m, [Frame("execute") EXCEPT !.g = Head(global)])
      <3>1. global' = Tail(global)
        BY <1>8, <2>3 DEF FindGlobal
      <3>2. /\ Head(global) \in G /\ Head(global) \in ToSet(global) /\ Distinct(Tail(global))
            /\ ToSet(Tail(global)) = ToSet(global) \ {Head(global)}
        <4>1. Distinct(global)
          BY <1>0, <2>1 DEF InOnePlace
        <4> QED
          BY <2>1, <2>3, <4>1, HeadTaken
      <3>3. \A r \in Queues : r # NULL => List(r)' = List(r)
        BY <2>2 DEF Queues, List
      <3>4. Taken(NULL, Head(global))
        BY <2>1, <3>1, <3>2, <3>3 DEF Taken
      <3> QED
        BY <1>5, <2>3, <3>2, <3>4
    <2>4. CASE global' = global /\ \E f : Moved(m, f) /\ f.at \notin Handing
      BY <1>6, <2>2, <2>4
    <2>5. \A S : [Frame("steal") EXCEPT !.left = S].at \notin Handing
      BY DEF Frame, Handing
    <2>6. Frame("poll").at \notin Handing
      BY DEF Frame, Handing
    <2> QED
      BY <1>8, <2>3, <2>4, <2>5, <2>6, FindGlobalMoves
  <1>9. CASE Steal(m)
    <2>1. PICK p \in P :
            \/ /\ local[p] # <<>> /\ local' = [local EXCEPT ![p] = Tail(local[p])]
               /\ Moved(m, [Frame("execute") EXCEPT !.g = Head(local[p])])
            \/ local' = local /\ Moved(m, [frame[m] EXCEPT !.left = @ \ {p}])
      BY <1>9, StealMoves
    <2>2. /\ p \in Queues /\ List(p) = local[p] /\ List(p)' = local'[p] /\ local[p] \in Seq(G)
          /\ global' = global
      BY <1>0, <1>9, <2>1, NullIsNone DEF Queues, List, FieldTypes, ListTypes, Steal
    <2>3. CASE /\ local[p] # <<>> /\ local' = [local EXCEPT ![p] = Tail(local[p])]
               /\ Moved(m, [Frame("execute") EXCEPT !.g = Head(local[p])])
      <3>2. /\ Head(local[p]) \in G /\ Head(local[p]) \in ToSet(local[p])
            /\ Distinct(Tail(local[p]))
            /\ ToSet(Tail(local[p])) = ToSet(local[p]) \ {Head(local[p])}
        <4>1. Distinct(local[p])
          BY <1>0, <2>2 DEF InOnePlace
        <4> QED
          BY <2>2, <2>3, <4>1, HeadTaken
      <3>3. \A r \in Queues : r # p => List(r)' = List(r)
        BY <1>0, <2>2, <2>3 DEF Queues, List, FieldTypes, ListTypes
      <3>4. local'[p] = Tail(local[p])
        BY <1>0, <2>3 DEF FieldTypes, ListTypes
      <3>5. Taken(p, Head(local[p]))
        BY <2>2, <3>2, <3>3, <3>4 DEF Taken
      <3> QED
        BY <1>5, <2>3, <3>2, <3>5
    <2>4. CASE local' = local /\ Moved(m, [frame[m] EXCEPT !.left = @ \ {p}])
      <3>1. [frame[m] EXCEPT !.left = @ \ {p}].at = frame[m].at
        BY <1>0 DEF FrameTypes, FrameSet
      <3> QED
        BY <1>4, <1>6, <2>2, <2>4, <3>1
    <2> QED
      BY <2>1, <2>3, <2>4
  <1> QED
    BY <1>7, <1>8, <1>9

\* Out of the ways to wait into the hands of m.
LEMMA ReadyPlaces ==
  ASSUME NEW m, Before(m), FieldTypes', NEW g \in G, NEW f, Moved(m, f),
         InHand(f) = g, InHand(frame[m]) = NULL,
         InRun(f, current_g[m]) = InRun(frame[m], current_g[m]), current_g' = current_g,
         status' = status, resume' = resume, local' = local, global' = global,
         NEW k \in WaitsIn(g), WaitsIn(g)' = WaitsIn(g) \ {k},
         \A h \in G : h # g => WaitsIn(h)' = WaitsIn(h),
         waiting' \subseteq waiting, io' \subseteq io
  PROVE  InOnePlace'
  <1>0. InOnePlace /\ m \in M /\ PlaceOf(g)
    BY DEF Before, WhileOk, InOnePlace
  <1>2. /\ Lists(g) = {} /\ Holders(g) = {} /\ Keepers(g) = {}
        /\ WaitsIn(g) = {k} /\ Runners(g) = {} /\ Active(g)
    BY <1>0, PlaceIsOne
  <1>3. Holders(g)' = Holders(g) \cup {m}
    BY <1>0, HandMoves
  <1>4. ASSUME NEW h \in G
        PROVE  Runners(h)' = Runners(h) /\ Keepers(h)' = Keepers(h) /\ Lists(h)' = Lists(h)
    <2>1. Runners(h)' = Runners(h)
      BY <1>0, RunSame
    <2> QED
      BY <2>1, KeepSame, ListsSame
  <1>5. ASSUME NEW h \in G, h # g PROVE Stays(h)
    <2>1. Holders(h)' = Holders(h)
      BY <1>0, <1>5, HandSame, NullIsNone
    <2> QED
      BY <1>4, <1>5, <2>1 DEF Stays, Active
  <1>6. PlaceOf(g)'
    <2>1. /\ Lists(g)' = {} /\ Holders(g)' = {m} /\ Keepers(g)' = {} /\ WaitsIn(g)' = {}
          /\ Runners(g)' = {} /\ Active(g)'
      BY <1>0, <1>2, <1>3, <1>4 DEF Active
    <2> QED
      BY <2>1 DEF PlaceOf, Placed, One
  <1>7. \A h \in G : h \in waiting' \cup io' => status'[h] = "G_WAITING"
    BY <1>0 DEF InOnePlace
  <1>8. \A q \in Queues : Distinct(List(q))'
    BY <1>0, ListsSame DEF InOnePlace, Distinct
  <1> QED
    BY <1>0, <1>5, <1>6, <1>7, <1>8, OneMoved

LEMMA PollReadyPlaces ==
  ASSUME NEW m, Before(m), FieldTypes', PollReady(m)
  PROVE  InOnePlace'
  <1>0. FieldTypes /\ FrameTypes /\ m \in M
    BY DEF Before, Always
  <1>1. PICK g \in ready_io : /\ g \in G /\ io' = io \ {g}
                              /\ Moved(m, [Frame("ready") EXCEPT !.g = g, !.then = frame[m].at])
    BY PollReadyMoves
  <1> DEFINE f == [Frame("ready") EXCEPT !.g = g, !.then = frame[m].at]
  <1>2. f.at = "ready" /\ f.g = g
    BY DEF Frame
  <1>3. InHand(f) = g /\ InRun(f, current_g[m]) = current_g[m]
    BY <1>2 DEF InHand, InRun, Handing
  <1>4. InHand(frame[m]) = NULL /\ InRun(frame[m], current_g[m]) = current_g[m]
    BY DEF PollReady, At, InHand, InRun, Handing
  <1>5. Moved(m, f)
    BY <1>1
  <1> HIDE DEF f
  <1>6. /\ status' = status /\ local' = local /\ global' = global /\ waiting' = waiting
        /\ current_g' = current_g /\ resume' = resume
    BY DEF PollReady, gVars, pVars
  <1>7. g \in io
    BY <1>0, <1>1 DEF FieldTypes, OtherTypes
  <1>8. "io" \in WaitsIn(g) /\ WaitsIn(g)' = WaitsIn(g) \ {"io"}
    BY <1>1, <1>6, <1>7 DEF WaitsIn
  <1>9. \A h \in G : h # g => WaitsIn(h)' = WaitsIn(h)
    BY <1>1, <1>6 DEF WaitsIn
  <1> QED
    BY <1>1, <1>3, <1>4, <1>5, <1>6, <1>8, <1>9, ReadyPlaces

LEMMA BeginReadyPlaces ==
  ASSUME NEW m, Before(m), FieldTypes', NEW g \in G, BeginReady(m, g)
  PROVE  InOnePlace'
  <1> DEFINE f == [Frame("ready") EXCEPT !.g = g, !.then = "user"]
  <1>2. f.at = "ready" /\ f.g = g
    BY DEF Frame
  <1>3. InHand(f) = g /\ InRun(f, current_g[m]) = current_g[m]
    BY <1>2 DEF InHand, InRun, Handing
  <1>4. InHand(frame[m]) = NULL /\ InRun(frame[m], current_g[m]) = current_g[m]
    BY DEF BeginReady, InUser, At, InHand, InRun, Handing
  <1>5. Moved(m, f)
    BY BeginReadyMoves
  <1> HIDE DEF f
  <1>6. /\ status' = status /\ local' = local /\ global' = global /\ io' = io
        /\ current_g' = current_g /\ resume' = resume /\ waiting' = waiting \ {g} /\ g \in waiting
    BY DEF BeginReady, gVars, pVars, ioVars
  <1>8. "waiting" \in WaitsIn(g) /\ WaitsIn(g)' = WaitsIn(g) \ {"waiting"}
    BY <1>6 DEF WaitsIn
  <1>9. \A h \in G : h # g => WaitsIn(h)' = WaitsIn(h)
    BY <1>6 DEF WaitsIn
  <1> QED
    BY <1>3, <1>4, <1>5, <1>6, <1>8, <1>9, ReadyPlaces

\* A G that stops running, into a way to wait.
LEMMA ParkPlaces ==
  ASSUME NEW m, Before(m), FieldTypes', Block(m) \/ WaitIo(m)
  PROVE  InOnePlace'
  <1>0. InOnePlace /\ m \in M /\ FieldTypes /\ FrameTypes
    BY DEF Before, WhileOk, Always
  <1>1. frame[m].at = "user" /\ Moved(m, Frame("switch")) /\ Frame("switch").at = "switch"
    BY SimpleMoves DEF Block, WaitIo, InUser, At, Frame
  <1>2. PICK g \in G : g = current_g[m]
    BY <1>1, HasG DEF GSide, GCode
  <1>3. PlaceOf(g)
    BY <1>0 DEF InOnePlace
  <1>4. /\ Lists(g) = {} /\ Holders(g) = {} /\ Keepers(g) = {} /\ WaitsIn(g) = {}
        /\ Runners(g) = {m} /\ Active(g) /\ g \notin waiting /\ g \notin io
    BY <1>1, <1>2, RunsNow
  <1>5. resume[g] = Frame("user")
    BY <1>1, <1>2, PlainResume DEF On
  <1>6. /\ status' = [status EXCEPT ![g] = "G_WAITING"]
        /\ resume' = [resume EXCEPT ![g] = resume[g]]
        /\ local' = local /\ global' = global /\ current_g' = current_g
        /\ \/ waiting' = waiting \cup {g} /\ io' = io
           \/ io' = io \cup {g} /\ waiting' = waiting
    BY <1>2, <1>5 DEF Block, WaitIo, pVars, ioVars
  <1>7. resume' = resume
    BY <1>0, <1>6 DEF FrameTypes
  <1>8. /\ InHand(Frame("switch")) = NULL /\ InRun(Frame("switch"), current_g'[m]) = NULL
        /\ InHand(frame[m]) = NULL /\ InRun(frame[m], current_g[m]) = g
    BY <1>1, <1>2 DEF InHand, InRun, Handing
  <1>9. \E k \in {"waiting", "io"} : WaitsIn(g)' = {k}
    BY <1>4, <1>6 DEF WaitsIn
  <1>10. ASSUME NEW h \in G
         PROVE  Keepers(h)' = Keepers(h) /\ Lists(h)' = Lists(h) /\ Holders(h)' = Holders(h)
    <2>1. Holders(h)' = Holders(h)
      BY <1>0, <1>1, <1>8, HandSame, NullIsNone
    <2> QED
      BY <1>6, <1>7, <2>1, KeepSame, ListsSame
  <1>11. Runners(g)' = {}
    <2>1. Runners(g)' = Runners(g) \ {m}
      BY <1>0, <1>1, <1>6, <1>8, RunMoves, NullIsNone
    <2> QED
      BY <1>4, <2>1
  <1>12. ASSUME NEW h \in G, h # g PROVE Stays(h)
    <2>1. Runners(h)' = Runners(h)
      BY <1>0, <1>1, <1>6, <1>8, <1>12, RunSame, NullIsNone
    <2>2. WaitsIn(h)' = WaitsIn(h)
      BY <1>6, <1>12 DEF WaitsIn
    <2>3. status'[h] = status[h]
      BY <1>0, <1>6, <1>12 DEF FieldTypes, OtherTypes
    <2> QED
      BY <1>10, <2>1, <2>2, <2>3 DEF Stays, Active
  <1>13. PlaceOf(g)'
    <2>1. status'[g] = "G_WAITING"
      BY <1>0, <1>6 DEF FieldTypes, OtherTypes
    <2>2. /\ Lists(g)' = {} /\ Holders(g)' = {} /\ Keepers(g)' = {}
          /\ Runners(g)' = {} /\ Active(g)'
      BY <1>4, <1>10, <1>11, <2>1 DEF Active
    <2> QED
      BY <1>9, <2>2 DEF PlaceOf, Placed, One
  <1>14. \A h \in G : h \in waiting' \cup io' => status'[h] = "G_WAITING"
    BY <1>0, <1>6 DEF InOnePlace, FieldTypes, OtherTypes
  <1>15. \A q \in Queues : Distinct(List(q))'
    BY <1>0, <1>6, ListsSame DEF InOnePlace, Distinct
  <1> QED
    BY <1>0, <1>12, <1>13, <1>14, <1>15, OneMoved

\* A G that stops running for good.
LEMMA ExitPlaces ==
  ASSUME NEW m, Before(m), FieldTypes', Exit(m)
  PROVE  InOnePlace'
  <1>0. InOnePlace /\ m \in M /\ FieldTypes /\ FrameTypes
    BY DEF Before, WhileOk, Always
  <1>1. frame[m].at = "exit" /\ Moved(m, Frame("switch")) /\ Frame("switch").at = "switch"
    BY SimpleMoves DEF Exit, At, Frame
  <1>2. PICK g \in G : g = current_g[m]
    BY <1>1, HasG DEF GSide, GCode
  <1>4. /\ Lists(g) = {} /\ Holders(g) = {} /\ Keepers(g) = {} /\ WaitsIn(g) = {}
        /\ Runners(g) = {m} /\ Active(g) /\ g \notin waiting /\ g \notin io
    BY <1>1, <1>2, RunsNow
  <1>6. /\ status' = [status EXCEPT ![g] = "G_DEAD"] /\ resume' = resume
        /\ local' = local /\ global' = global /\ current_g' = current_g
        /\ waiting' = waiting /\ io' = io
    BY <1>2 DEF Exit, pVars, ioVars
  <1>8. /\ InHand(Frame("switch")) = NULL /\ InRun(Frame("switch"), current_g'[m]) = NULL
        /\ InHand(frame[m]) = NULL /\ InRun(frame[m], current_g[m]) = g
    BY <1>1, <1>2 DEF InHand, InRun, Handing
  <1>10. ASSUME NEW h \in G
         PROVE  /\ Keepers(h)' = Keepers(h) /\ Lists(h)' = Lists(h) /\ Holders(h)' = Holders(h)
                /\ WaitsIn(h)' = WaitsIn(h)
    <2>1. Holders(h)' = Holders(h)
      BY <1>0, <1>1, <1>8, HandSame, NullIsNone
    <2> QED
      BY <1>6, <2>1, KeepSame, ListsSame, WaitsSame
  <1>11. Runners(g)' = {}
    <2>1. Runners(g)' = Runners(g) \ {m}
      BY <1>0, <1>1, <1>6, <1>8, RunMoves, NullIsNone
    <2> QED
      BY <1>4, <2>1
  <1>12. ASSUME NEW h \in G, h # g PROVE Stays(h)
    <2>1. Runners(h)' = Runners(h)
      BY <1>0, <1>1, <1>6, <1>8, <1>12, RunSame, NullIsNone
    <2>3. status'[h] = status[h]
      BY <1>0, <1>6, <1>12 DEF FieldTypes, OtherTypes
    <2> QED
      BY <1>10, <2>1, <2>3 DEF Stays, Active
  <1>13. PlaceOf(g)'
    <2>1. status'[g] = "G_DEAD"
      BY <1>0, <1>6 DEF FieldTypes, OtherTypes
    <2>2. /\ Lists(g)' = {} /\ Holders(g)' = {} /\ Keepers(g)' = {} /\ WaitsIn(g)' = {}
          /\ Runners(g)' = {} /\ ~Active(g)'
      BY <1>4, <1>10, <1>11, <2>1 DEF Active
    <2> QED
      BY <2>2 DEF PlaceOf, Placed, One
  <1>14. \A h \in G : h \in waiting' \cup io' => status'[h] = "G_WAITING"
    BY <1>0, <1>4, <1>6 DEF InOnePlace, FieldTypes, OtherTypes
  <1>15. \A q \in Queues : Distinct(List(q))'
    BY <1>0, <1>6, ListsSame DEF InOnePlace, Distinct
  <1> QED
    BY <1>0, <1>12, <1>13, <1>14, <1>15, OneMoved

\* A G that stops running and is queued.
LEMMA YieldPlaces ==
  ASSUME NEW m, Before(m), FieldTypes', Yield(m)
  PROVE  InOnePlace'
  <1>0. InOnePlace /\ m \in M /\ FieldTypes /\ FrameTypes
    BY DEF Before, WhileOk, Always
  <1>1. frame[m].at = "yield" /\ Moved(m, Frame("switch")) /\ Frame("switch").at = "switch"
    BY SimpleMoves DEF Yield, At, Frame
  <1>2. PICK g \in G : g = current_g[m]
    BY <1>1, HasG DEF GSide, GCode
  <1>4. /\ Lists(g) = {} /\ Holders(g) = {} /\ Keepers(g) = {} /\ WaitsIn(g) = {}
        /\ Runners(g) = {m} /\ Active(g) /\ g \notin waiting /\ g \notin io
    BY <1>1, <1>2, RunsNow
  <1>5. PICK q \in Queues : Pushed(q, g)
    BY <1>0, <1>2, LocalPushed, GlobalPushed DEF Yield, FieldTypes, ProcTypes
  <1>6. /\ status' = [status EXCEPT ![g] = "G_RUNNABLE"] /\ resume' = resume
        /\ current_g' = current_g /\ waiting' = waiting /\ io' = io
    BY <1>2 DEF Yield, ioVars
  <1>7. /\ \A r \in Queues : Distinct(List(r))'
        /\ Lists(g)' = {q}
        /\ \A h \in G : h # g => Lists(h)' = Lists(h)
    <2>1. /\ \A r \in Queues : Distinct(List(r))'
          /\ Lists(g)' = Lists(g) \cup {q}
          /\ \A h \in G : h # g => Lists(h)' = Lists(h)
      BY <1>0, <1>4, <1>5, ListsPushed
    <2> QED
      BY <1>4, <2>1
  <1>8. /\ InHand(Frame("switch")) = NULL /\ InRun(Frame("switch"), current_g'[m]) = NULL
        /\ InHand(frame[m]) = NULL /\ InRun(frame[m], current_g[m]) = g
    BY <1>1, <1>2 DEF InHand, InRun, Handing
  <1>10. ASSUME NEW h \in G
         PROVE  /\ Keepers(h)' = Keepers(h) /\ Holders(h)' = Holders(h)
                /\ WaitsIn(h)' = WaitsIn(h)
    <2>1. Holders(h)' = Holders(h)
      BY <1>0, <1>1, <1>8, HandSame, NullIsNone
    <2> QED
      BY <1>6, <2>1, KeepSame, WaitsSame
  <1>11. Runners(g)' = {}
    <2>1. Runners(g)' = Runners(g) \ {m}
      BY <1>0, <1>1, <1>6, <1>8, RunMoves, NullIsNone
    <2> QED
      BY <1>4, <2>1
  <1>12. ASSUME NEW h \in G, h # g PROVE Stays(h)
    <2>1. Runners(h)' = Runners(h)
      BY <1>0, <1>1, <1>6, <1>8, <1>12, RunSame, NullIsNone
    <2>3. status'[h] = status[h]
      BY <1>0, <1>6, <1>12 DEF FieldTypes, OtherTypes
    <2> QED
      BY <1>7, <1>10, <1>12, <2>1, <2>3 DEF Stays, Active
  <1>13. PlaceOf(g)'
    <2>1. status'[g] = "G_RUNNABLE"
      BY <1>0, <1>6 DEF FieldTypes, OtherTypes
    <2>2. /\ Lists(g)' = {q} /\ Holders(g)' = {} /\ Keepers(g)' = {} /\ WaitsIn(g)' = {}
          /\ Runners(g)' = {} /\ Active(g)'
      BY <1>4, <1>7, <1>10, <1>11, <2>1 DEF Active
    <2> QED
      BY <2>2 DEF PlaceOf, Placed, One
  <1>14. \A h \in G : h \in waiting' \cup io' => status'[h] = "G_WAITING"
    BY <1>0, <1>4, <1>6 DEF InOnePlace, FieldTypes, OtherTypes
  <1> QED
    BY <1>0, <1>7, <1>12, <1>13, <1>14, OneMoved

\* From the hands of m to running on it.
LEMMA ExecutePlaces ==
  ASSUME NEW m, Before(m), FieldTypes', Execute(m)
  PROVE  InOnePlace'
  <1>0. InOnePlace /\ m \in M /\ FieldTypes /\ FrameTypes
    BY DEF Before, WhileOk, Always
  <1>1. /\ frame[m].at = "execute" /\ Moved(m, Frame("switch_in"))
        /\ Frame("switch_in").at = "switch_in" /\ frame[m].at \in Handing
    BY ExecuteMoves DEF Execute, At, Frame, Handing
  <1>2. PICK g \in G : g = frame[m].g
    BY ExecuteMoves
  <1>3. current_g[m] = NULL
    BY <1>1, NoG DEF GSide, GCode, Calls
  <1>4. /\ Lists(g) = {} /\ Holders(g) = {m} /\ Keepers(g) = {} /\ WaitsIn(g) = {}
        /\ Runners(g) = {} /\ Active(g) /\ g \notin waiting /\ g \notin io
        /\ InHand(frame[m]) = g
    BY <1>1, <1>2, HoldsNow
  <1>6. /\ status' = [status EXCEPT ![g] = "G_RUNNING"] /\ resume' = resume
        /\ local' = local /\ global' = global /\ current_g' = [current_g EXCEPT ![m] = g]
        /\ waiting' = waiting /\ io' = io
    BY <1>2 DEF Execute, pVars, ioVars
  <1>7. current_g'[m] = g /\ \A x \in M : x # m => current_g'[x] = current_g[x]
    BY <1>0, <1>6 DEF FieldTypes, OtherTypes
  <1>8. /\ InHand(Frame("switch_in")) = NULL /\ InRun(Frame("switch_in"), current_g'[m]) = g
        /\ InRun(frame[m], current_g[m]) = NULL
    BY <1>1, <1>3, <1>7 DEF InHand, InRun, Handing
  <1>9. ASSUME NEW h \in G
        PROVE  /\ Keepers(h)' = Keepers(h) /\ Lists(h)' = Lists(h) /\ WaitsIn(h)' = WaitsIn(h)
    BY <1>6, KeepSame, ListsSame, WaitsSame
  <1>10. Holders(g)' = {}
    <2>1. Holders(g)' = Holders(g) \ {m}
      BY <1>0, <1>1, <1>8, HandMoves, NullIsNone
    <2> QED
      BY <1>4, <2>1
  <1>11. Runners(g)' = {m}
    <2>1. Runners(g)' = Runners(g) \cup {m}
      BY <1>0, <1>1, <1>7, <1>8, RunMoves
    <2> QED
      BY <1>4, <2>1
  <1>12. ASSUME NEW h \in G, h # g PROVE Stays(h)
    <2>1. Runners(h)' = Runners(h)
      BY <1>0, <1>1, <1>7, <1>8, <1>12, RunSame, NullIsNone
    <2>2. Holders(h)' = Holders(h)
      BY <1>0, <1>1, <1>4, <1>8, <1>12, HandSame, NullIsNone
    <2>3. status'[h] = status[h]
      BY <1>0, <1>6, <1>12 DEF FieldTypes, OtherTypes
    <2> QED
      BY <1>9, <2>1, <2>2, <2>3 DEF Stays, Active
  <1>13. PlaceOf(g)'
    <2>1. status'[g] = "G_RUNNING"
      BY <1>0, <1>6 DEF FieldTypes, OtherTypes
    <2>2. /\ Lists(g)' = {} /\ Holders(g)' = {} /\ Keepers(g)' = {} /\ WaitsIn(g)' = {}
          /\ Runners(g)' = {m} /\ Active(g)'
      BY <1>4, <1>9, <1>10, <1>11, <2>1 DEF Active
    <2> QED
      BY <2>2 DEF PlaceOf, Placed, One
  <1>14. \A h \in G : h \in waiting' \cup io' => status'[h] = "G_WAITING"
    BY <1>0, <1>4, <1>6 DEF InOnePlace, FieldTypes, OtherTypes
  <1>15. \A q \in Queues : Distinct(List(q))'
    BY <1>0, <1>6, ListsSame DEF InOnePlace, Distinct
  <1> QED
    BY <1>0, <1>12, <1>13, <1>14, <1>15, OneMoved

\* A new G is in the hands of m.
LEMMA BeginSpawnPlaces ==
  ASSUME NEW m, Before(m), FieldTypes', NEW g \in G, BeginSpawn(m, g)
  PROVE  InOnePlace'
  <1> DEFINE f == [Frame("spawn") EXCEPT !.g = g, !.self = m, !.then = frame[m].at]
  <1>0. InOnePlace /\ m \in M /\ FieldTypes /\ FrameTypes /\ PlaceOf(g)
    BY DEF Before, WhileOk, Always, InOnePlace
  <1>1. frame[m].at \in {"user", "main"} /\ Moved(m, f) /\ f.at = "spawn" /\ f.g = g
    BY BeginSpawnMoves DEF Frame
  <1> HIDE DEF f
  <1>2. status[g] = "G_IDLE"
    BY DEF BeginSpawn
  <1>4. /\ Lists(g) = {} /\ Holders(g) = {} /\ Keepers(g) = {} /\ WaitsIn(g) = {}
        /\ Runners(g) = {} /\ g \notin waiting /\ g \notin io
    <2>1. ~Active(g)
      BY <1>2 DEF Active
    <2>2. g \notin waiting /\ g \notin io
      BY <1>0, <1>2 DEF InOnePlace
    <2> QED
      BY <1>0, <2>1, <2>2, PlaceIsOne
  <1>6. /\ status' = [status EXCEPT ![g] = "G_RUNNABLE"] /\ resume' = resume
        /\ local' = local /\ global' = global /\ current_g' = current_g
        /\ waiting' = waiting /\ io' = io
    BY DEF BeginSpawn, pVars, ioVars
  <1>8. /\ InHand(f) = g /\ InRun(f, current_g'[m]) = current_g[m]
        /\ InHand(frame[m]) = NULL /\ InRun(frame[m], current_g[m]) = current_g[m]
    BY <1>1, <1>6 DEF InHand, InRun, Handing
  <1>9. ASSUME NEW h \in G
        PROVE  /\ Keepers(h)' = Keepers(h) /\ Lists(h)' = Lists(h) /\ WaitsIn(h)' = WaitsIn(h)
               /\ Runners(h)' = Runners(h)
    <2>1. Runners(h)' = Runners(h)
      BY <1>0, <1>1, <1>6, <1>8, RunSame
    <2> QED
      BY <1>6, <2>1, KeepSame, ListsSame, WaitsSame
  <1>10. Holders(g)' = {m}
    <2>1. Holders(g)' = Holders(g) \cup {m}
      BY <1>0, <1>1, <1>8, HandMoves
    <2> QED
      BY <1>4, <2>1
  <1>12. ASSUME NEW h \in G, h # g PROVE Stays(h)
    <2>2. Holders(h)' = Holders(h)
      BY <1>0, <1>1, <1>8, <1>12, HandSame, NullIsNone
    <2>3. status'[h] = status[h]
      BY <1>0, <1>6, <1>12 DEF FieldTypes, OtherTypes
    <2> QED
      BY <1>9, <2>2, <2>3 DEF Stays, Active
  <1>13. PlaceOf(g)'
    <2>1. status'[g] = "G_RUNNABLE"
      BY <1>0, <1>6 DEF FieldTypes, OtherTypes
    <2>2. /\ Lists(g)' = {} /\ Holders(g)' = {m} /\ Keepers(g)' = {} /\ WaitsIn(g)' = {}
          /\ Runners(g)' = {} /\ Active(g)'
      BY <1>4, <1>9, <1>10, <2>1 DEF Active
    <2> QED
      BY <2>2 DEF PlaceOf, Placed, One
  <1>14. \A h \in G : h \in waiting' \cup io' => status'[h] = "G_WAITING"
    BY <1>0, <1>4, <1>6 DEF InOnePlace, FieldTypes, OtherTypes
  <1>15. \A q \in Queues : Distinct(List(q))'
    BY <1>0, <1>6, ListsSame DEF InOnePlace, Distinct
  <1> QED
    BY <1>0, <1>12, <1>13, <1>14, <1>15, OneMoved

\* From the hands of m to a queue.
LEMMA QueuePlaces ==
  ASSUME NEW m, Before(m), FieldTypes', Spawn(m) \/ Queue(m)
  PROVE  InOnePlace'
  <1>0. InOnePlace /\ m \in M /\ FieldTypes /\ FrameTypes
    BY DEF Before, WhileOk, Always
  <1>1. frame[m].at \in {"spawn", "queue"} /\ frame[m].at \in Handing
    BY DEF Spawn, Queue, At, Handing
  <1>2. PICK g \in G : g = frame[m].g
    BY <1>0, <1>1 DEF FrameTypes, FrameOK
  <1>3. \E f : Moved(m, f) /\ f.at \in {"wake", "user", "main"}
    <2>1. \A t : [Frame("wake") EXCEPT !.then = t].at = "wake" /\ Frame(t).at = t
      BY DEF Frame
    <2>2. CASE Spawn(m)
      <3>1. \/ Moved(m, [Frame("wake") EXCEPT !.then = frame[m].then])
            \/ frame[m].then \in {"user", "main"} /\ Moved(m, Frame(frame[m].then))
        BY <2>2, SpawnMoves
      <3> HIDE DEF Moved
      <3> QED
        BY <2>1, <3>1
    <2>3. CASE Queue(m)
      BY <2>1, <2>3, QueueMoves
    <2> QED
      BY <2>2, <2>3
  <1>4. /\ Lists(g) = {} /\ Holders(g) = {m} /\ Keepers(g) = {} /\ WaitsIn(g) = {}
        /\ Runners(g) = {} /\ Active(g) /\ g \notin waiting /\ g \notin io
        /\ InHand(frame[m]) = g
    BY <1>1, <1>2, HoldsNow
  <1>5. PICK q \in Queues : Pushed(q, g)
    <2>1. frame[m].self \in M /\ frame[m].p \in P \cup {NULL}
      BY <1>0, <1>1 DEF FrameTypes, FrameOK, FrameSet
    <2>2. current_p[frame[m].self] \in P \cup {NULL}
      BY <1>0, <2>1 DEF FieldTypes, ProcTypes
    <2>3. (\E p \in P : PushLocal(p, g)) \/ PushGlobal(g)
      BY <1>2, <2>1, <2>2 DEF Spawn, Queue
    <2> QED
      BY <1>0, <2>3, LocalPushed, GlobalPushed
  <1>6. /\ status' = status /\ resume' = resume
        /\ current_g' = current_g /\ waiting' = waiting /\ io' = io
    BY DEF Spawn, Queue, gVars, ioVars
  <1>7. /\ \A r \in Queues : Distinct(List(r))'
        /\ Lists(g)' = {q}
        /\ \A h \in G : h # g => Lists(h)' = Lists(h)
    <2>1. /\ \A r \in Queues : Distinct(List(r))'
          /\ Lists(g)' = Lists(g) \cup {q}
          /\ \A h \in G : h # g => Lists(h)' = Lists(h)
      BY <1>0, <1>4, <1>5, ListsPushed
    <2> QED
      BY <1>4, <2>1
  <1>8. PICK f : /\ Moved(m, f) /\ InHand(f) = NULL /\ InRun(f, current_g'[m]) = current_g[m]
                 /\ InRun(frame[m], current_g[m]) = current_g[m]
    BY <1>1, <1>3, <1>6 DEF InHand, InRun, Handing
  <1>10. ASSUME NEW h \in G
         PROVE  /\ Keepers(h)' = Keepers(h) /\ Runners(h)' = Runners(h)
                /\ WaitsIn(h)' = WaitsIn(h)
    <2>1. Runners(h)' = Runners(h)
      BY <1>0, <1>6, <1>8, RunSame
    <2> QED
      BY <1>6, <2>1, KeepSame, WaitsSame
  <1>11. Holders(g)' = {}
    <2>1. Holders(g)' = Holders(g) \ {m}
      BY <1>0, <1>8, HandMoves, NullIsNone
    <2> QED
      BY <1>4, <2>1
  <1>12. ASSUME NEW h \in G, h # g PROVE Stays(h)
    <2>1. Holders(h)' = Holders(h)
      BY <1>0, <1>4, <1>8, <1>12, HandSame, NullIsNone
    <2> QED
      BY <1>6, <1>7, <1>10, <1>12, <2>1 DEF Stays, Active
  <1>13. PlaceOf(g)'
    <2>2. /\ Lists(g)' = {q} /\ Holders(g)' = {} /\ Keepers(g)' = {} /\ WaitsIn(g)' = {}
          /\ Runners(g)' = {} /\ Active(g)'
      BY <1>4, <1>6, <1>7, <1>10, <1>11 DEF Active
    <2> QED
      BY <2>2 DEF PlaceOf, Placed, One
  <1>14. \A h \in G : h \in waiting' \cup io' => status'[h] = "G_WAITING"
    BY <1>0, <1>6 DEF InOnePlace
  <1> QED
    BY <1>0, <1>7, <1>12, <1>13, <1>14, OneMoved

\* A G that goes on takes over what its context has in hand.
LEMMA SwitchInPlaces ==
  ASSUME NEW m, Before(m), FieldTypes', SwitchIn(m)
  PROVE  InOnePlace'
  <1>0. InOnePlace /\ m \in M /\ FieldTypes /\ FrameTypes
    BY DEF Before, WhileOk, Always
  <1>1. frame[m].at = "switch_in"
    BY DEF SwitchIn, At
  <1>2. PICK g \in G : g = current_g[m]
    BY SwitchInMoves
  <1>3. Moved(m, resume[g]) /\ resume[g].at \notin {"switch", "returned"}
    BY <1>2, SwitchInMoves DEF Before, Always, Shape, ResumeShape
  <1>6. /\ status' = status /\ resume' = [resume EXCEPT ![g] = Frame("user")]
        /\ local' = local /\ global' = global /\ current_g' = current_g
        /\ waiting' = waiting /\ io' = io
    BY <1>2 DEF SwitchIn, pVars, ioVars
  <1>7. /\ resume'[g] = Frame("user") /\ InHand(resume'[g]) = NULL
        /\ \A y \in G : y # g => resume'[y] = resume[y]
    BY <1>0, <1>6, UserInHand DEF FrameTypes
  <1>8. /\ InRun(resume[g], current_g'[m]) = g /\ InRun(frame[m], current_g[m]) = g
        /\ InHand(frame[m]) = NULL
    BY <1>1, <1>2, <1>3, <1>6 DEF InHand, InRun, Handing
  <1>9. ASSUME NEW h \in G
        PROVE  /\ Runners(h)' = Runners(h) /\ Lists(h)' = Lists(h) /\ WaitsIn(h)' = WaitsIn(h)
    <2>1. Runners(h)' = Runners(h)
      BY <1>0, <1>3, <1>6, <1>8, RunSame
    <2> QED
      BY <1>6, <2>1, ListsSame, WaitsSame
  <1>10. ASSUME NEW h \in G, InHand(resume[g]) # h PROVE Stays(h)
    <2>1. Holders(h)' = Holders(h)
      BY <1>0, <1>3, <1>8, <1>10, HandSame, NullIsNone
    <2>2. Keepers(h)' = Keepers(h)
      <3>1. /\ InHand(resume'[g]) # h => Keepers(h)' = Keepers(h) \ {g}
            /\ g \in Keepers(h) <=> InHand(resume[g]) = h
        BY <1>7, KeepMoves
      <3> QED
        BY <1>7, <1>10, <3>1, NullIsNone
    <2> QED
      BY <1>6, <1>9, <2>1, <2>2 DEF Stays, Active
  <1>11. ASSUME NEW h \in G, InHand(resume[g]) = h PROVE PlaceOf(h)'
    <2>1. g \in Keepers(h) /\ Keepers(h)' = Keepers(h) \ {g}
      BY <1>7, <1>11, KeepMoves, NullIsNone
    <2>2. /\ Lists(h) = {} /\ Holders(h) = {} /\ Keepers(h) = {g} /\ WaitsIn(h) = {}
          /\ Runners(h) = {} /\ Active(h)
      BY <1>0, <2>1, PlaceIsOne DEF InOnePlace
    <2>3. Holders(h)' = Holders(h) \cup {m}
      BY <1>0, <1>3, <1>11, HandMoves
    <2>4. /\ Lists(h)' = {} /\ Holders(h)' = {m} /\ Keepers(h)' = {} /\ WaitsIn(h)' = {}
          /\ Runners(h)' = {} /\ Active(h)'
      BY <1>6, <1>9, <2>1, <2>2, <2>3 DEF Active
    <2> QED
      BY <2>4 DEF PlaceOf, Placed, One
  <1>14. \A h \in G : h \in waiting' \cup io' => status'[h] = "G_WAITING"
    BY <1>0, <1>6 DEF InOnePlace
  <1>15. \A q \in Queues : Distinct(List(q))'
    BY <1>0, <1>6, ListsSame DEF InOnePlace, Distinct
  <1>16. CASE InHand(resume[g]) \in G
    BY <1>0, <1>10, <1>11, <1>14, <1>15, <1>16, OneMoved
  <1>17. CASE InHand(resume[g]) \notin G
    BY <1>0, <1>6, <1>10, <1>14, <1>17, NoneMoved
  <1> QED
    BY <1>16, <1>17

\* SIGURG: the context of the G keeps what it has in hand.
LEMMA PreemptPlaces ==
  ASSUME NEW m, Before(m), FieldTypes', Preempt(m)
  PROVE  InOnePlace'
  <1> DEFINE f == [Frame("yield") EXCEPT !.self = m]
  <1>0. InOnePlace /\ m \in M /\ FieldTypes /\ FrameTypes
    BY DEF Before, WhileOk, Always
  <1>1. /\ frame[m].at \notin {"switch_in", "switch", "returned"}
        /\ Moved(m, f) /\ f.at = "yield"
    BY SimpleMoves DEF Preempt, OffG, Frame
  <1> HIDE DEF f
  <1>2. PICK g \in G : g = current_g[m]
    BY <1>0 DEF Preempt, Preemptible, FieldTypes, OtherTypes
  <1>3. /\ resume' = [resume EXCEPT ![g] = frame[m]] /\ ~preempt_safe[g]
        /\ status' = status
        /\ local' = local /\ global' = global /\ current_g' = current_g
        /\ waiting' = waiting /\ io' = io
    BY <1>2 DEF Preempt, Preemptible, pVars, ioVars
  <1>4. resume[g] = Frame("user")
    BY <1>3 DEF Before, Always, Shape, ResumeShape
  <1>7. /\ resume'[g] = frame[m] /\ InHand(resume[g]) = NULL
        /\ \A y \in G : y # g => resume'[y] = resume[y]
    BY <1>0, <1>3, <1>4, UserInHand DEF FrameTypes
  <1>8. /\ InRun(f, current_g'[m]) = g /\ InRun(frame[m], current_g[m]) = g
        /\ InHand(f) = NULL
    BY <1>1, <1>2, <1>3 DEF InHand, InRun, Handing
  <1>9. ASSUME NEW h \in G
        PROVE  /\ Runners(h)' = Runners(h) /\ Lists(h)' = Lists(h) /\ WaitsIn(h)' = WaitsIn(h)
    <2>1. Runners(h)' = Runners(h)
      BY <1>0, <1>1, <1>3, <1>8, RunSame
    <2> QED
      BY <1>3, <2>1, ListsSame, WaitsSame
  <1>10. ASSUME NEW h \in G, InHand(frame[m]) # h PROVE Stays(h)
    <2>1. Holders(h)' = Holders(h)
      BY <1>0, <1>1, <1>8, <1>10, HandSame, NullIsNone
    <2>2. Keepers(h)' = Keepers(h)
      <3>1. /\ InHand(resume'[g]) # h => Keepers(h)' = Keepers(h) \ {g}
            /\ g \in Keepers(h) <=> InHand(resume[g]) = h
        BY <1>7, KeepMoves
      <3> QED
        BY <1>7, <1>10, <3>1, NullIsNone
    <2> QED
      BY <1>3, <1>9, <2>1, <2>2 DEF Stays, Active
  <1>11. ASSUME NEW h \in G, InHand(frame[m]) = h PROVE PlaceOf(h)'
    <2>1. m \in Holders(h) /\ Holders(h)' = Holders(h) \ {m}
      BY <1>0, <1>1, <1>8, <1>11, HandMoves, NullIsNone
    <2>2. /\ Lists(h) = {} /\ Holders(h) = {m} /\ Keepers(h) = {} /\ WaitsIn(h) = {}
          /\ Runners(h) = {} /\ Active(h)
      BY <1>0, <2>1, PlaceIsOne DEF InOnePlace
    <2>3. Keepers(h)' = Keepers(h) \cup {g}
      BY <1>7, <1>11, KeepMoves
    <2>4. /\ Lists(h)' = {} /\ Holders(h)' = {} /\ Keepers(h)' = {g} /\ WaitsIn(h)' = {}
          /\ Runners(h)' = {} /\ Active(h)'
      BY <1>3, <1>9, <2>1, <2>2, <2>3 DEF Active
    <2> QED
      BY <2>4 DEF PlaceOf, Placed, One
  <1>14. \A h \in G : h \in waiting' \cup io' => status'[h] = "G_WAITING"
    BY <1>0, <1>3 DEF InOnePlace
  <1>15. \A q \in Queues : Distinct(List(q))'
    BY <1>0, <1>3, ListsSame DEF InOnePlace, Distinct
  <1>16. CASE InHand(frame[m]) \in G
    BY <1>0, <1>10, <1>11, <1>14, <1>15, <1>16, OneMoved
  <1>17. CASE InHand(frame[m]) \notin G
    BY <1>0, <1>3, <1>10, <1>14, <1>17, NoneMoved
  <1> QED
    BY <1>16, <1>17

LEMMA NextInOnePlace ==
  ASSUME SchedInv, Next, FieldTypes', fate' = "ok"
  PROVE  InOnePlace'
  <1>0. Always /\ fate = "ok" /\ WhileOk
    BY DEF SchedInv, Next
  <1>1. ASSUME NEW m \in M, Step(m) \/ User(m) \/ Preempt(m) \/ PreemptSwitch(m)
        PROVE  InOnePlace'
    <2>0. Before(m)
      BY <1>0, <1>1 DEF Before
    <2>1. CASE \/ LoopTop(m) \/ NoP(m) \/ Park(m) \/ Unparked(m) \/ PollDone(m) \/ NoWork(m)
               \/ PollBlockingDone(m) \/ GiveUp(m) \/ LastDied(m)
      BY <2>0, <2>1, LoopQuiet
    <2>2. CASE Wake(m) \/ WakeM(m) \/ WakeBind(m) \/ WakeNew(m)
      BY <2>0, <2>2, WakeQuiet, WakeNewQuiet
    <2>3. CASE SwitchOut(m) \/ Returned(m) \/ GReady(m)
      BY <2>0, <2>3, BackQuiet
    <2>4. CASE FindLocal(m) \/ FindGlobal(m) \/ Steal(m)
      BY <2>0, <2>4, FindPlaces
    <2>5. CASE PollReady(m) \/ Execute(m) \/ SwitchIn(m)
      BY <2>0, <2>5, PollReadyPlaces, ExecutePlaces, SwitchInPlaces
    <2>6. CASE Yield(m) \/ Exit(m) \/ Spawn(m) \/ Queue(m)
      BY <2>0, <2>6, YieldPlaces, ExitPlaces, QueuePlaces
    <2>7. CASE User(m)
      BY <2>0, <2>7, UserQuiet, ParkPlaces, BeginSpawnPlaces, BeginReadyPlaces DEF User
    <2>8. CASE Preempt(m)
      BY <2>0, <2>8, PreemptPlaces
    <2>9. CASE PreemptSwitch(m)
      BY <2>9 DEF PreemptSwitch
    <2> QED
      BY <1>1, <2>1, <2>2, <2>3, <2>4, <2>5, <2>6, <2>7, <2>8, <2>9 DEF Step
  <1>2. ASSUME NEW g \in G, IoEvent(g) PROVE InOnePlace'
    BY <1>0, <1>2, EventQuiet DEF WhileOk
  <1> QED
    BY <1>1, <1>2 DEF Next

-----------------------------------------------------------------------------
(* One M runs a G *)

\* A step of an M that runs no G, or stays in the code of its G.
LEMMA SinglePlain ==
  ASSUME NEW m, Before(m), NEW f, Moved(m, f), current_g' = current_g, saved' = saved,
         preempt_safe' = preempt_safe,
         \A g \in G : status'[g] = "G_IDLE" => status[g] = "G_IDLE",
         current_g[m] # NULL =>
           /\ On(m) /\ f.at \notin {"switch_in", "returned"}
           /\ frame[m].at \in {"yield", "switch"} => f.at \in {"yield", "switch"}
  PROVE  SingleRun'
  <1>0. m \in M /\ SingleRun /\ FieldTypes
    BY DEF Before, WhileOk, Always
  <1>1. \A x \in M : x # m => On(x)' = On(x) /\ frame'[x].at = frame[x].at
    BY DEF Moved, On
  <1>2. current_g[m] # NULL => On(m) /\ On(m)'
    BY DEF Moved, On
  <1>3. SUFFICES ASSUME NEW x \in M, current_g[x] # NULL PROVE Single(x)'
    BY DEF SingleRun, Single
  <1>4. current_g[x] \in G /\ Single(x)
    BY <1>0, <1>3 DEF FieldTypes, OtherTypes, SingleRun
  <1>5. status'[current_g[x]] # "G_IDLE"
    BY <1>3, <1>4 DEF Single
  <1>6. CASE ~On(x)'
    BY <1>5, <1>6 DEF Single
  <1>7. CASE On(x)'
    <2>1. On(x)
      BY <1>1, <1>2, <1>3, <1>7
    <2>2. ~saved'[current_g[x]]
      BY <1>3, <1>4, <2>1 DEF Single
    <2>3. preempt_safe'[current_g[x]] => frame'[x].at \in {"yield", "switch"}
      <3>1. preempt_safe[current_g[x]] => frame[x].at \in {"yield", "switch"}
        BY <1>3, <1>4, <2>1 DEF Single
      <3> QED
        BY <1>1, <1>3, <3>1 DEF Moved
    <2>4. ASSUME NEW n \in M, On(n)', current_g[n] = current_g[x] PROVE n = x
      <3>1. On(n)
        BY <1>1, <1>2, <1>3, <2>4
      <3> QED
        BY <1>3, <1>4, <2>1, <2>4, <3>1 DEF Single
    <2> QED
      BY <1>5, <2>2, <2>3, <2>4 DEF Single
  <1> QED
    BY <1>6, <1>7

LEMMA ExecuteSingle ==
  ASSUME NEW m, Before(m), Execute(m)
  PROVE  SingleRun'
  <1>0. m \in M /\ SingleRun /\ FieldTypes /\ FrameTypes
    BY DEF Before, WhileOk, Always
  <1>1. PICK g \in G : g = frame[m].g
    BY ExecuteMoves
  <1>2. /\ current_g' = [current_g EXCEPT ![m] = g] /\ saved' = saved
        /\ status' = [status EXCEPT ![g] = "G_RUNNING"] /\ preempt_safe' = preempt_safe
    BY <1>1 DEF Execute, preemptVars
  <1>3. ~On(m)' /\ \A x \in M : x # m => frame'[x] = frame[x]
    BY ExecuteMoves DEF Moved, On, Frame
  <1>4. ASSUME NEW x \in M PROVE Single(x)'
    <2>1. CASE x = m
      <3>1. current_g'[m] = g /\ status'[g] # "G_IDLE"
        BY <1>0, <1>2 DEF FieldTypes, OtherTypes
      <3> QED
        BY <1>3, <2>1, <3>1 DEF Single
    <2>2. CASE x # m
      <3>1. /\ current_g'[x] = current_g[x] /\ frame'[x] = frame[x] /\ Single(x)
            /\ current_g[x] \in G \cup {NULL}
        BY <1>0, <1>2, <1>3, <2>2 DEF FieldTypes, OtherTypes, SingleRun
      <3>2. current_g[x] # NULL /\ status[current_g[x]] # "G_IDLE"
              => status'[current_g[x]] # "G_IDLE"
        BY <1>0, <1>2, <3>1 DEF FieldTypes, OtherTypes
      <3>3. \A n \in M : n # m => current_g'[n] = current_g[n] /\ On(n)' = On(n)
        BY <1>0, <1>2, <1>3 DEF FieldTypes, OtherTypes, On
      <3> QED
        BY <1>2, <1>3, <2>2, <3>1, <3>2, <3>3 DEF Single
    <2> QED
      BY <2>1, <2>2
  <1> QED
    BY <1>4 DEF SingleRun

LEMMA SwitchOutSingle ==
  ASSUME NEW m, Before(m), SwitchOut(m)
  PROVE  SingleRun'
  <1>0. m \in M /\ SingleRun /\ FieldTypes /\ FrameTypes
    BY DEF Before, WhileOk, Always
  <1>1. PICK g \in G : g = current_g[m]
    BY SwitchOutMoves
  <1>2. /\ current_g' = current_g /\ saved' = [saved EXCEPT ![g] = TRUE]
        /\ status' = status /\ preempt_safe' = preempt_safe
    BY <1>1 DEF SwitchOut, preemptVars
  <1>3. ~On(m)' /\ \A x \in M : x # m => frame'[x] = frame[x]
    <2>1. frame' = [frame EXCEPT ![m] = [Frame("returned") EXCEPT !.g = g]]
      BY <1>1 DEF SwitchOut, Set
    <2>2. frame'[m].at = "returned"
      BY <1>0, <2>1 DEF FrameTypes, Frame
    <2> QED
      BY <1>0, <2>1, <2>2 DEF On, FrameTypes
  <1>4. On(m) /\ Single(m) /\ g # NULL
    BY <1>0, NullIsNone DEF SwitchOut, At, On, SingleRun
  <1>5. ASSUME NEW x \in M PROVE Single(x)'
    <2>1. CASE x = m
      BY <1>2, <1>3, <1>4, <2>1 DEF Single
    <2>2. CASE x # m
      <3>1. On(x)' = On(x) /\ Single(x) /\ frame'[x] = frame[x]
        BY <1>0, <1>3, <2>2 DEF On, SingleRun
      <3>2. On(x) => current_g[x] # g
        BY <1>1, <1>4, <2>2 DEF Single
      <3>3. \A n \in M : On(n)' => On(n)
        BY <1>3, <1>4 DEF On
      <3>4. On(x) /\ current_g[x] # NULL => saved'[current_g[x]] = saved[current_g[x]]
        BY <1>0, <1>2, <3>2 DEF FieldTypes, OtherTypes
      <3> QED
        BY <1>2, <3>1, <3>3, <3>4 DEF Single
    <2> QED
      BY <2>1, <2>2
  <1> QED
    BY <1>5 DEF SingleRun

\* The context is the one of a G that has left its M, or the step is the last.
LEMMA SwitchInSingle ==
  ASSUME NEW m, Before(m), SwitchIn(m), fate' = "ok"
  PROVE  SingleRun'
  <1>0. m \in M /\ SingleRun /\ FieldTypes /\ FrameTypes
    BY DEF Before, WhileOk, Always
  <1>1. PICK g \in G : g = current_g[m]
    BY SwitchInMoves
  <1>2. /\ current_g' = current_g /\ saved' = [saved EXCEPT ![g] = FALSE] /\ saved[g]
        /\ status' = status /\ preempt_safe' = [preempt_safe EXCEPT ![g] = FALSE]
    BY <1>1 DEF SwitchIn
  <1>3. \A x \in M : x # m => frame'[x] = frame[x]
    BY SwitchInMoves DEF Moved
  <1>4. ~On(m) /\ Single(m) /\ g # NULL
    BY <1>0, NullIsNone DEF SwitchIn, At, On, SingleRun
  <1>5. \A n \in M : On(n) => current_g[n] # g
    BY <1>0, <1>2, NullIsNone DEF SingleRun, Single
  <1>6. \A n \in M : n # m => On(n)' = On(n)
    BY <1>3 DEF On
  <1>7. ~saved'[g] /\ ~preempt_safe'[g]
    BY <1>0, <1>2 DEF FieldTypes, OtherTypes
  <1>8. ASSUME NEW x \in M PROVE Single(x)'
    <2>1. CASE x = m
      <3>1. \A n \in M : On(n)' /\ current_g[n] = g => n = m
        BY <1>5, <1>6
      <3> QED
        BY <1>1, <1>2, <1>4, <1>7, <2>1, <3>1 DEF Single
    <2>2. CASE x # m
      <3>1. On(x)' = On(x) /\ Single(x) /\ frame'[x] = frame[x]
        BY <1>0, <1>3, <2>2 DEF On, SingleRun
      <3>2. On(x) => current_g[x] # g
        BY <1>5
      <3>3. \A n \in M : On(n)' => On(n) \/ current_g[n] = g
        BY <1>1, <1>6
      <3>4. On(x) /\ current_g[x] # NULL =>
              /\ saved'[current_g[x]] = saved[current_g[x]]
              /\ preempt_safe'[current_g[x]] = preempt_safe[current_g[x]]
        BY <1>0, <1>2, <3>2 DEF FieldTypes, OtherTypes
      <3> QED
        BY <1>2, <3>1, <3>2, <3>3, <3>4 DEF Single
    <2> QED
      BY <2>1, <2>2
  <1> QED
    BY <1>8 DEF SingleRun

LEMMA ReturnedSingle ==
  ASSUME NEW m, Before(m), Returned(m)
  PROVE  SingleRun'
  <1>0. m \in M /\ SingleRun /\ FieldTypes /\ FrameTypes
    BY DEF Before, WhileOk, Always
  <1>1. /\ current_g' = [current_g EXCEPT ![m] = NULL] /\ saved' = saved
        /\ preempt_safe' = preempt_safe
    BY DEF Returned, preemptVars
  <1>2. \A g \in G : status[g] # "G_IDLE" => status'[g] # "G_IDLE"
    BY <1>0 DEF Returned, FieldTypes, OtherTypes
  <1>3. \A x \in M : x # m => frame'[x] = frame[x]
    <2>1. \E f : Moved(m, f)
      BY SimpleMoves
    <2> QED
      BY <2>1 DEF Moved
  <1>4. current_g'[m] = NULL /\ \A x \in M : x # m => current_g'[x] = current_g[x]
    BY <1>0, <1>1 DEF FieldTypes, OtherTypes
  <1>5. ASSUME NEW x \in M PROVE Single(x)'
    <2>1. CASE x = m
      BY <1>4, <2>1 DEF Single
    <2>2. CASE x # m
      <3>1. /\ On(x)' = On(x) /\ Single(x) /\ frame'[x] = frame[x] /\ current_g'[x] = current_g[x]
            /\ current_g[x] \in G \cup {NULL}
        BY <1>0, <1>3, <1>4, <2>2 DEF On, SingleRun, FieldTypes, OtherTypes
      <3>2. \A n \in M : current_g'[n] # NULL => On(n)' = On(n) /\ current_g'[n] = current_g[n]
        BY <1>3, <1>4 DEF On
      <3> QED
        BY <1>1, <1>2, <3>1, <3>2 DEF Single
    <2> QED
      BY <2>1, <2>2
  <1> QED
    BY <1>5 DEF SingleRun

LEMMA BeginSpawnSingle ==
  ASSUME NEW m, Before(m), NEW g \in G, BeginSpawn(m, g)
  PROVE  SingleRun'
  <1>0. m \in M /\ SingleRun /\ FieldTypes /\ FrameTypes
    BY DEF Before, WhileOk, Always
  <1>1. /\ current_g' = current_g /\ saved' = [saved EXCEPT ![g] = TRUE]
        /\ preempt_safe' = preempt_safe /\ status' = [status EXCEPT ![g] = "G_RUNNABLE"]
        /\ status[g] = "G_IDLE"
    BY DEF BeginSpawn, preemptVars
  <1>2. \A x \in M : current_g[x] # g
    BY <1>0, <1>1, NullIsNone DEF SingleRun, Single
  <1>3. \A x \in M : On(x)' = On(x) /\ (frame[x].at \in {"yield", "switch"} => frame'[x] = frame[x])
    BY BeginSpawnMoves DEF Moved, On, Frame
  <1>4. ASSUME NEW x \in M, current_g[x] # NULL PROVE Single(x)'
    <2>1. /\ current_g[x] \in G /\ current_g[x] # g /\ Single(x)
          /\ current_g'[x] = current_g[x]
      BY <1>0, <1>1, <1>2, <1>4 DEF SingleRun, FieldTypes, OtherTypes
    <2>2. /\ saved'[current_g[x]] = saved[current_g[x]]
          /\ status'[current_g[x]] = status[current_g[x]]
      BY <1>0, <1>1, <2>1 DEF FieldTypes, OtherTypes
    <2> QED
      BY <1>1, <1>3, <2>1, <2>2 DEF Single
  <1> QED
    BY <1>1, <1>4 DEF SingleRun, Single

LEMMA PreemptSingle ==
  ASSUME NEW m, Before(m), Preempt(m)
  PROVE  SingleRun'
  <1>0. m \in M /\ SingleRun /\ FieldTypes /\ FrameTypes
    BY DEF Before, WhileOk, Always
  <1>1. PICK g \in G : g = current_g[m]
    BY <1>0 DEF Preempt, Preemptible, FieldTypes, OtherTypes
  <1>2. /\ current_g' = current_g /\ saved' = saved /\ status' = status
        /\ preempt_safe' = [preempt_safe EXCEPT ![g] = TRUE]
    BY <1>1 DEF Preempt
  <1>3. /\ On(m) /\ On(m)' /\ frame'[m].at = "yield"
        /\ \A x \in M : x # m => frame'[x] = frame[x]
    <2>1. Moved(m, [Frame("yield") EXCEPT !.self = m])
      BY SimpleMoves
    <2>2. frame'[m].at = "yield" /\ \A x \in M : x # m => frame'[x] = frame[x]
      BY <2>1 DEF Moved, Frame
    <2> QED
      BY <2>2 DEF On, Preempt, OffG
  <1>4. Single(m) /\ g # NULL
    BY <1>0, NullIsNone DEF SingleRun
  <1>5. \A x \in M : On(x)' = On(x)
    BY <1>3 DEF On
  <1>6. ASSUME NEW x \in M, current_g[x] # NULL PROVE Single(x)'
    <2>1. CASE x = m
      BY <1>1, <1>2, <1>3, <1>4, <1>5, <2>1 DEF Single
    <2>2. CASE x # m
      <3>1. Single(x) /\ frame'[x] = frame[x] /\ (On(x) => current_g[x] # g)
        BY <1>0, <1>1, <1>3, <1>4, <2>2 DEF SingleRun, Single
      <3>2. On(x) => preempt_safe'[current_g[x]] = preempt_safe[current_g[x]]
        BY <1>0, <1>2, <3>1 DEF FieldTypes, OtherTypes
      <3> QED
        BY <1>2, <1>5, <3>1, <3>2 DEF Single
    <2> QED
      BY <2>1, <2>2
  <1> QED
    BY <1>2, <1>6 DEF SingleRun, Single

LEMMA WakeNewSingle ==
  ASSUME NEW m, Before(m), WakeNew(m)
  PROVE  SingleRun'
  <1>0. m \in M /\ SingleRun /\ FieldTypes /\ FrameTypes
    BY DEF Before, WhileOk, Always
  <1>1. /\ current_g' = current_g /\ saved' = saved /\ status' = status
        /\ preempt_safe' = preempt_safe
    BY DEF WakeNew, gVars, preemptVars
  <1>2. frame[m].at = "wake_new" /\ frame[m].at \in Calls /\ On(m)
    BY DEF WakeNew, At, Calls, On
  <1>3. Caller(m).at \notin {"switch_in", "returned"}
    <2>1. Caller(m).at \in Callers
      BY <1>0, <1>2, CallerFrame DEF FrameTypes, FrameOK
    <2> QED
      BY <2>1 DEF Callers
  <1>4. CASE Moved(m, Caller(m))
    BY <1>1, <1>2, <1>3, <1>4, SinglePlain
  <1>5. ASSUME NEW x \in M, At(x, "unborn"), x # m, frame'[x] = Frame("loop"),
               frame'[m] = Caller(m), \A y \in M : y # m /\ y # x => frame'[y] = frame[y]
        PROVE  SingleRun'
    <2>1. current_g[x] = NULL
      BY <1>5 DEF At, GSide, GCode, Calls, Before, Always, Shape, ShapeOf, ShapeAt
    <2>2. \A y \in M : y # x => On(y)' = On(y)
      BY <1>2, <1>3, <1>5 DEF On
    <2>3. \A y \in M : y # x /\ frame[y].at \in {"yield", "switch"} => frame'[y] = frame[y]
      BY <1>2, <1>5
    <2>4. ASSUME NEW y \in M, current_g[y] # NULL PROVE Single(y)'
      <3>1. y # x /\ Single(y)
        BY <1>0, <2>1, <2>4 DEF SingleRun
      <3>2. \A n \in M : current_g[n] = current_g[y] => n # x
        BY <2>1, <2>4
      <3> QED
        BY <1>1, <2>2, <2>3, <2>4, <3>1, <3>2 DEF Single
    <2> QED
      BY <1>1, <2>4 DEF SingleRun, Single
  <1> QED
    BY <1>4, <1>5, WakeNewMoves

LEMMA LoopSingle ==
  ASSUME NEW m, Before(m),
         \/ LoopTop(m) \/ NoP(m) \/ Park(m) \/ Unparked(m) \/ FindLocal(m) \/ FindGlobal(m)
         \/ PollReady(m) \/ PollDone(m) \/ Steal(m) \/ NoWork(m) \/ PollBlockingDone(m)
         \/ GiveUp(m) \/ LastDied(m) \/ RunScheduler(m)
  PROVE  SingleRun'
  <1>1. /\ status' = status /\ saved' = saved /\ preempt_safe' = preempt_safe
        /\ current_g' = current_g
    BY DEF LoopTop, NoP, Park, Unparked, FindLocal, FindGlobal, PollReady, PollDone, Steal, NoWork,
           PollBlockingDone, GiveUp, LastDied, RunScheduler, gVars, preemptVars
  <1>2. frame[m].at \in {"loop", "no_p", "park", "parked", "find_local", "find_global", "poll",
                         "steal", "poll_blocking", "give_up", "last_died", "main"}
    BY DEF LoopTop, NoP, Park, Unparked, FindLocal, FindGlobal, PollReady, PollDone, Steal, NoWork,
           PollBlockingDone, GiveUp, LastDied, RunScheduler, At
  <1>3. current_g[m] = NULL
    BY <1>2, NoG DEF GSide, GCode, Calls
  <1>4. \E f : Moved(m, f)
    <2>1. CASE RunScheduler(m)
      BY <2>1, SimpleMoves
    <2>2. CASE ~RunScheduler(m)
      <3>1. Step(m) /\ ~WakeNew(m)
        BY <1>2, <2>2 DEF Step, WakeNew, At
      <3> QED
        BY <3>1, StepMoves DEF Steps
    <2> QED
      BY <2>1, <2>2
  <1> QED
    BY <1>1, <1>3, <1>4, SinglePlain

LEMMA CallSingle ==
  ASSUME NEW m, Before(m),
         Spawn(m) \/ GReady(m) \/ Queue(m) \/ Wake(m) \/ WakeM(m) \/ WakeBind(m)
  PROVE  SingleRun'
  <1>0. m \in M /\ FieldTypes /\ FrameTypes /\ frame[m] \in FrameSet
    BY DEF Before, Always, FrameTypes
  <1>1. frame[m].at \in {"spawn", "ready", "queue", "wake", "wake_m", "wake_bind"}
    BY DEF Spawn, GReady, Queue, Wake, WakeM, WakeBind, At
  <1>2. frame[m].at \in Calls
    BY <1>1 DEF Calls
  <1>3. /\ saved' = saved /\ preempt_safe' = preempt_safe /\ current_g' = current_g
        /\ status' = status \/ status' = [status EXCEPT ![frame[m].g] = "G_RUNNABLE"]
    BY DEF Spawn, GReady, Queue, Wake, WakeM, WakeBind, gVars, preemptVars
  <1>4. \A g \in G : status'[g] = "G_IDLE" => status[g] = "G_IDLE"
    BY <1>0, <1>3 DEF FieldTypes, OtherTypes
  <1>5. Caller(m).at \notin {"switch_in", "returned"}
    <2>1. Caller(m).at \in Callers
      BY <1>0, <1>2, CallerFrame DEF FrameTypes, FrameOK
    <2> QED
      BY <2>1 DEF Callers
  <1>6. \E f : Moved(m, f) /\ f.at \notin {"switch_in", "returned"}
    <2>1. CASE Spawn(m)
      <3>1. \A t : [Frame("wake") EXCEPT !.then = t].at = "wake" /\ Frame(t).at = t
        BY DEF Frame
      <3> QED
        BY <2>1, <3>1, SpawnMoves
    <2>2. CASE Queue(m)
      <3>1. [Frame("wake") EXCEPT !.then = frame[m].then].at = "wake"
        BY DEF Frame
      <3> QED
        BY <2>2, <3>1, QueueMoves
    <2>3. CASE GReady(m)
      <3>1. \A p : [frame[m] EXCEPT !.at = "queue", !.self = m, !.p = p].at = "queue"
        BY <1>0 DEF FrameSet
      <3> QED
        BY <2>3, <3>1, GReadyMoves
    <2>4. CASE Wake(m) \/ WakeM(m) \/ WakeBind(m)
      <3>1. /\ [frame[m] EXCEPT !.at = "wake_m"].at = "wake_m"
            /\ [frame[m] EXCEPT !.at = "wake_new"].at = "wake_new"
            /\ [frame[m] EXCEPT !.at = "wake_bind", !.w = Head(idle_m)].at = "wake_bind"
        BY <1>0 DEF FrameSet
      <3> QED
        BY <1>5, <2>4, <3>1, WakeMoves, WakeMMoves, WakeBindMoves
    <2> QED
      BY <2>1, <2>2, <2>3, <2>4
  <1>7. On(m) /\ frame[m].at \notin {"yield", "switch"}
    BY <1>1 DEF On
  <1> QED
    BY <1>3, <1>4, <1>6, <1>7, SinglePlain

LEMMA CodeSingle ==
  ASSUME NEW m, Before(m),
         \/ Yield(m) \/ Exit(m) \/ Block(m) \/ WaitIo(m) \/ BeginYield(m) \/ BeginExit(m)
         \/ OpenOrClose(m) \/ \E g \in G : BeginReady(m, g)
  PROVE  SingleRun'
  <1>0. m \in M /\ FieldTypes /\ FrameTypes
    BY DEF Before, Always
  <1>1. frame[m].at \in {"yield", "exit", "user"}
    BY DEF Yield, Exit, Block, WaitIo, BeginYield, BeginExit, OpenOrClose, BeginReady, InUser, At
  <1>2. /\ saved' = saved /\ preempt_safe' = preempt_safe /\ current_g' = current_g
        /\ \/ status' = status
           \/ \E s \in {"G_RUNNABLE", "G_DEAD", "G_WAITING"} :
                status' = [status EXCEPT ![current_g[m]] = s]
    BY DEF Yield, Exit, Block, WaitIo, BeginYield, BeginExit, OpenOrClose, BeginReady, gVars, mVars,
           preemptVars
  <1>3. \A g \in G : status'[g] = "G_IDLE" => status[g] = "G_IDLE"
    BY <1>0, <1>2 DEF FieldTypes, OtherTypes
  <1>4. ASSUME NEW f, Moved(m, f), f.at \notin {"switch_in", "returned"},
               frame[m].at = "yield" => f.at = "switch"
        PROVE  SingleRun'
    <2>1. On(m) /\ frame[m].at # "switch"
      BY <1>1 DEF On
    <2> QED
      BY <1>2, <1>3, <1>4, <2>1, SinglePlain
  <1>5. CASE Yield(m) \/ Exit(m) \/ Block(m) \/ WaitIo(m)
    <2>1. Moved(m, Frame("switch")) /\ Frame("switch").at = "switch"
      BY <1>5, SimpleMoves DEF Frame
    <2> QED
      BY <1>4, <2>1
  <1>6. CASE BeginYield(m)
    <2>1. /\ Moved(m, [Frame("yield") EXCEPT !.self = m]) /\ frame[m].at = "user"
          /\ [Frame("yield") EXCEPT !.self = m].at = "yield"
      BY <1>6, SimpleMoves DEF Frame, BeginYield, InUser, At
    <2> QED
      BY <1>4, <2>1
  <1>7. CASE BeginExit(m)
    <2>1. /\ Moved(m, [Frame("exit") EXCEPT !.self = m]) /\ frame[m].at = "user"
          /\ [Frame("exit") EXCEPT !.self = m].at = "exit"
      BY <1>7, SimpleMoves DEF Frame, BeginExit, InUser, At
    <2> QED
      BY <1>4, <2>1
  <1>8. CASE OpenOrClose(m)
    <2>1. Moved(m, frame[m]) /\ frame[m].at = "user"
      BY <1>0, <1>8 DEF OpenOrClose, mVars, Moved, FrameTypes, InUser, At
    <2> QED
      BY <1>4, <2>1
  <1>9. ASSUME NEW g \in G, BeginReady(m, g) PROVE SingleRun'
    <2>1. /\ Moved(m, [Frame("ready") EXCEPT !.g = g, !.then = "user"]) /\ frame[m].at = "user"
          /\ [Frame("ready") EXCEPT !.g = g, !.then = "user"].at = "ready"
      BY <1>9, BeginReadyMoves DEF Frame, BeginReady, InUser, At
    <2> QED
      BY <1>4, <2>1
  <1> QED
    BY <1>5, <1>6, <1>7, <1>8, <1>9

LEMMA NextSingleRun ==
  ASSUME SchedInv, Next, fate' = "ok"
  PROVE  SingleRun'
  <1>0. Always /\ fate = "ok" /\ WhileOk
    BY DEF SchedInv, Next
  <1>1. ASSUME NEW m \in M, Step(m) \/ User(m) \/ Preempt(m) \/ PreemptSwitch(m)
        PROVE  SingleRun'
    <2>0. Before(m)
      BY <1>0, <1>1 DEF Before
    <2>1. CASE \/ LoopTop(m) \/ NoP(m) \/ Park(m) \/ Unparked(m) \/ FindLocal(m) \/ FindGlobal(m)
               \/ PollReady(m) \/ PollDone(m) \/ Steal(m) \/ NoWork(m) \/ PollBlockingDone(m)
               \/ GiveUp(m) \/ LastDied(m)
      BY <2>0, <2>1, LoopSingle
    <2>2. CASE Spawn(m) \/ GReady(m) \/ Queue(m) \/ Wake(m) \/ WakeM(m) \/ WakeBind(m)
      BY <2>0, <2>2, CallSingle
    <2>3. CASE WakeNew(m) \/ Execute(m) \/ SwitchIn(m) \/ SwitchOut(m) \/ Returned(m)
      BY <2>0, <2>3, WakeNewSingle, ExecuteSingle, SwitchInSingle, SwitchOutSingle, ReturnedSingle
    <2>4. CASE Yield(m) \/ Exit(m)
      BY <2>0, <2>4, CodeSingle
    <2>7. CASE User(m)
      BY <2>0, <2>7, CodeSingle, LoopSingle, BeginSpawnSingle DEF User
    <2>8. CASE Preempt(m)
      BY <2>0, <2>8, PreemptSingle
    <2>9. CASE PreemptSwitch(m)
      BY <2>9 DEF PreemptSwitch
    <2> QED
      BY <1>1, <2>1, <2>2, <2>3, <2>4, <2>7, <2>8, <2>9 DEF Step
  <1>2. ASSUME NEW g \in G, IoEvent(g) PROVE SingleRun'
    BY <1>0, <1>2 DEF IoEvent, gVars, mVars, preemptVars, WhileOk, SingleRun, Single, On
  <1> QED
    BY <1>1, <1>2 DEF Next

-----------------------------------------------------------------------------
(* How many Gs live *)

\* The G an M has in hand or runs is alive.
LEMMA HeldLives ==
  ASSUME NEW m, Before(m), NEW g \in G, Active(g)
  PROVE  g \in Alive /\ live \in Nat /\ live > 0
  <1>1. g \in Alive
    BY DEF Alive, Active
  <1>2. live = Cardinality(Alive) /\ IsFiniteSet(Alive)
    BY DEF Before, WhileOk, Counted
  <1>3. Cardinality(Alive) \in Nat /\ Cardinality(Alive) # 0
    BY <1>1, <1>2, FS_CardinalityType, FS_EmptySet
  <1> QED
    BY <1>1, <1>2, <1>3

LEMMA LiveType ==
  ASSUME NEW m, Before(m) PROVE live \in Nat
  BY FS_CardinalityType DEF Before, WhileOk, Counted

\* The status of one G changes, and it stays alive or dead.
LEMMA AliveSame ==
  ASSUME NEW m, Before(m), NEW g \in G, NEW s, status' = [status EXCEPT ![g] = s],
         s \notin {"G_IDLE", "FREED"}, status[g] \notin {"G_IDLE", "FREED"}
  PROVE  Alive' = Alive
  BY DEF Alive, Before, Always, FieldTypes, OtherTypes

LEMMA CountedSame ==
  ASSUME NEW m, Before(m), Alive' = Alive, live' = live, At(MainM, "exited")' => live = 0
  PROVE  Counted'
  BY DEF Counted, Before, WhileOk

\* The other Ms do not leave.
LEMMA MainStays ==
  ASSUME NEW m, Before(m), NEW f, Moved(m, f), f.at # "exited"
  PROVE  At(MainM, "exited")' => At(MainM, "exited") /\ m # MainM
  BY SchedulerAssumption DEF At, Moved

\* Two steps alone lead out of the loop.
LEMMA StepStays ==
  ASSUME NEW m, Before(m), Step(m), ~NoP(m), ~NoWork(m), ~WakeNew(m)
  PROVE  \E f : Moved(m, f) /\ f.at # "exited"
  <1>0. m \in M /\ frame \in [M -> FrameSet] /\ FrameTypes /\ frame[m] \in FrameSet
    BY DEF Before, Always, FrameTypes
  <1>1. SUFFICES frame'[m].at # "exited"
    BY StepMoves DEF Steps, Moved
  <1>4. CASE LoopTop(m) \/ FindLocal(m) \/ FindGlobal(m) \/ PollDone(m)
    BY <1>0, <1>4
       DEF LoopTop, FindLocal, FindGlobal, PollDone, Goto, Set, Frame, FrameSet
  <1>5. CASE PollReady(m) \/ Steal(m) \/ GiveUp(m)
    <2>1. CASE PollReady(m)
      <3>1. PICK g : Set(m, [Frame("ready") EXCEPT !.g = g, !.then = frame[m].at])
        BY <2>1 DEF PollReady
      <3> QED
        BY <1>0, <3>1 DEF Set, Frame
    <2>2. CASE Steal(m)
      <3>1. PICK p : \/ Set(m, [Frame("execute") EXCEPT !.g = Head(local[p])])
                     \/ Set(m, [frame[m] EXCEPT !.left = @ \ {p}])
        BY <2>2 DEF Steal
      <3>2. frame[m].at = "steal"
        BY <2>2 DEF Steal, At
      <3> QED
        BY <1>0, <3>1, <3>2 DEF Set, Frame, FrameSet
    <2>3. CASE GiveUp(m)
      BY <1>0, <2>3 DEF GiveUp, Goto, Frame, At
    <2> QED
      BY <1>5, <2>1, <2>2, <2>3
  <1>8. CASE Execute(m) \/ SwitchOut(m) \/ GReady(m) \/ Queue(m)
    <2>1. CASE Execute(m)
      BY <1>0, <2>1 DEF Execute, Goto, Frame
    <2>2. CASE SwitchOut(m)
      BY <1>0, <2>2 DEF SwitchOut, Set, Frame
    <2>3. CASE GReady(m)
      BY <1>0, <2>3 DEF GReady, Set, FrameSet
    <2>4. CASE Queue(m)
      BY <1>0, <2>4 DEF Queue, Set, Frame
    <2> QED
      BY <1>8, <2>1, <2>2, <2>3, <2>4
  <1>9. CASE SwitchIn(m)
    <2>1. current_g[m] \in G /\ frame'[m] = resume[current_g[m]]
      BY <1>9, SwitchInMoves DEF Moved
    <2> QED
      BY <2>1 DEF Before, Always, Shape, ResumeShape, GSide, GCode, Calls
  <1>10. CASE Spawn(m)
    <2>1. frame[m].then \in {"user", "main"}
      BY <1>0, <1>10 DEF FrameTypes, FrameOK, Spawn, At
    <2> QED
      BY <1>0, <1>10, <2>1 DEF Spawn, Set, Frame
  <1>12. CASE Wake(m) \/ WakeM(m) \/ WakeBind(m)
    <2>1. frame[m].at \in Calls
      BY <1>12 DEF Wake, WakeM, WakeBind, At, Calls
    <2>2. Caller(m).at \in Callers
      BY <1>0, <2>1, CallerFrame DEF FrameTypes, FrameOK
    <2> QED
      BY <1>0, <1>12, <2>2 DEF Wake, WakeM, WakeBind, Back, Set, Callers, FrameSet
  <1>13. CASE \/ Park(m) \/ Unparked(m) \/ LastDied(m) \/ Yield(m) \/ Exit(m)
              \/ PollBlockingDone(m) \/ Returned(m)
    <2>1. \E at \in {"parked", "loop", "switch", "give_up", "last_died"} : Goto(m, at)
      <3>1. CASE Park(m) \/ Unparked(m) \/ LastDied(m) \/ Yield(m) \/ Exit(m)
        BY <3>1 DEF Park, Unparked, LastDied, Yield, Exit
      <3>2. CASE PollBlockingDone(m)
        BY <3>2 DEF PollBlockingDone
      <3>3. CASE Returned(m)
        BY <3>3 DEF Returned
      <3> QED
        BY <1>13, <3>1, <3>2, <3>3
    <2> QED
      BY <1>0, <2>1 DEF Goto, Frame
  <1> QED
    BY <1>4, <1>5, <1>8, <1>9, <1>10, <1>12, <1>13 DEF Step

LEMMA StepCounted ==
  ASSUME NEW m, Before(m), Step(m), ~Returned(m)
  PROVE  Counted'
  <1>0. m \in M /\ FieldTypes /\ FrameTypes /\ Counted
    BY DEF Before, Always, WhileOk
  <1>1. live' = live
    BY Zenon
       DEF Step, LoopTop, NoP, Park, Unparked, FindLocal, FindGlobal, PollReady, PollDone, Steal,
           NoWork, PollBlockingDone, GiveUp, Execute, SwitchIn, SwitchOut, LastDied, Yield, Exit,
           Spawn, GReady, Queue, Wake, WakeM, WakeBind, WakeNew
  <1>2. Alive' = Alive
    <2>1. CASE Execute(m) \/ GReady(m)
      <3>1. frame[m].at \in Handing
        BY <2>1 DEF Execute, GReady, At, Handing
      <3>2. frame[m].g \in G /\ Active(frame[m].g)
        BY <3>1, HoldsNow
      <3>3. \E s \in {"G_RUNNING", "G_RUNNABLE"} : status' = [status EXCEPT ![frame[m].g] = s]
        BY <2>1 DEF Execute, GReady
      <3> QED
        BY <3>2, <3>3, AliveSame DEF Active
    <2>2. CASE Yield(m) \/ Exit(m)
      <3>1. frame[m].at \in {"yield", "exit"}
        BY <2>2 DEF Yield, Exit, At
      <3>2. current_g[m] \in G
        BY <3>1, HasG DEF GSide, GCode
      <3>3. Active(current_g[m])
        BY <3>1, <3>2, RunsNow
      <3>4. \E s \in {"G_DEAD", "G_RUNNABLE"} : status' = [status EXCEPT ![current_g[m]] = s]
        BY <2>2 DEF Yield, Exit
      <3> QED
        BY <3>2, <3>3, <3>4, AliveSame DEF Active
    <2>3. CASE status' = status
      BY <2>3 DEF Alive
    <2> QED
      BY <2>1, <2>2, <2>3, Zenon
         DEF Step, LoopTop, NoP, Park, Unparked, FindLocal, FindGlobal, PollReady, PollDone, Steal,
           NoWork, PollBlockingDone, GiveUp, SwitchIn, SwitchOut, LastDied,
           Spawn, Queue, Wake, WakeM, WakeBind, WakeNew, gVars
  <1>3. At(MainM, "exited")' => live = 0
    <2>1. CASE NoP(m) \/ NoWork(m)
      <3>1. CASE live <= 0
        BY <3>1, LiveType
      <3>2. CASE ~(live <= 0)
        <4>1. \E at \in {"park", "poll_blocking", "give_up"} : Moved(m, Frame(at))
          <5>1. CASE NoP(m)
            BY <3>2, <5>1, SimpleMoves
          <5>2. CASE NoWork(m)
            BY <3>2, <5>2, NoWorkMoves
          <5> QED
            BY <2>1, <5>1, <5>2
        <4>2. \A at : Frame(at).at = at
          BY DEF Frame
        <4> QED
          BY <1>0, <4>1, <4>2, MainStays DEF Counted
      <3> QED
        BY <3>1, <3>2
    <2>2. CASE ~(NoP(m) \/ NoWork(m) \/ WakeNew(m))
      BY <1>0, <2>2, StepStays, MainStays DEF Counted
    <2>3. CASE WakeNew(m)
      <3>1. frame[m].at \in Calls
        BY <2>3 DEF WakeNew, At, Calls
      <3>2. Caller(m).at \in Callers
        BY <1>0, <3>1, CallerFrame DEF FrameTypes, FrameOK
      <3>3. Caller(m).at # "exited" /\ Frame("loop").at # "exited"
        BY <3>2 DEF Callers, Frame
      <3>4. \A x \in M : frame'[x].at = "exited" => frame[x].at = "exited"
        BY <2>3, <3>3, WakeNewMoves DEF Moved
      <3> QED
        BY <1>0, <3>4, SchedulerAssumption DEF Counted, At
    <2> QED
      BY <2>1, <2>2, <2>3
  <1> QED
    BY <1>1, <1>2, <1>3, CountedSame

LEMMA ReturnedCounted ==
  ASSUME NEW m, Before(m), Returned(m)
  PROVE  Counted'
  <1> DEFINE g == frame[m].g
  <1>0. /\ m \in M /\ FieldTypes /\ FrameTypes /\ Counted /\ IsFiniteSet(Alive)
        /\ live = Cardinality(Alive)
    BY DEF Before, Always, WhileOk, Counted
  <1>1. g \in G
    BY <1>0 DEF Returned, At, FrameTypes, FrameOK
  <1>2. \E f : Moved(m, f) /\ f.at # "exited"
    <2>1. Step(m) /\ ~NoP(m) /\ ~NoWork(m) /\ ~WakeNew(m)
      BY DEF Step, Returned, NoP, NoWork, WakeNew, At
    <2> QED
      BY <2>1, StepStays
  <1>3. At(MainM, "exited")' => live = 0
    BY <1>0, <1>2, MainStays DEF Counted
  <1>4. CASE status[g] = "G_DEAD"
    <2>1. status' = [status EXCEPT ![g] = "FREED"] /\ live' = live - 1
      BY <1>4 DEF Returned
    <2> HIDE DEF g
    <2>2. Alive' = Alive \ {g} /\ g \in Alive
      BY <1>0, <1>1, <1>4, <2>1 DEF Alive, FieldTypes, OtherTypes
    <2>3. /\ IsFiniteSet(Alive \ {g}) /\ Cardinality(Alive \ {g}) = Cardinality(Alive) - 1
          /\ Cardinality(Alive) \in Nat /\ Cardinality(Alive) # 0
      BY <1>0, <2>2, FS_RemoveElement, FS_CardinalityType, FS_EmptySet
    <2> QED
      BY <1>0, <1>3, <2>1, <2>2, <2>3 DEF Counted
  <1>5. CASE status[g] # "G_DEAD"
    <2>1. status' = status /\ live' = live
      BY <1>0, <1>1, <1>5 DEF Returned, FieldTypes, OtherTypes
    <2>2. Alive' = Alive
      BY <2>1 DEF Alive
    <2> QED
      BY <1>3, <2>1, <2>2, CountedSame
  <1> QED
    BY <1>4, <1>5

\* Where the steps a program chooses lead to.
LEMMA UserMoves ==
  ASSUME NEW m, Before(m), User(m) \/ Preempt(m)
  PROVE  \E f : /\ Moved(m, f)
              /\ f.at \in {"user", "yield", "switch", "exit", "spawn", "ready", "loop"}
  <1>0. m \in M /\ frame \in [M -> FrameSet] /\ FrameTypes
    BY DEF Before, Always, FrameTypes
  <1>1. CASE OpenOrClose(m)
    <2>1. Moved(m, frame[m]) /\ frame[m].at = "user"
      BY <1>0, <1>1 DEF OpenOrClose, mVars, Moved, FrameTypes, InUser, At
    <2> QED
      BY <2>1
  <1>2. CASE ~OpenOrClose(m)
    <2>1. \E f : Moved(m, f)
      BY <1>2, SimpleMoves, BeginSpawnMoves, BeginReadyMoves DEF User
    <2>2. frame'[m].at \in {"yield", "switch", "exit", "spawn", "ready", "loop"}
      <3>1. CASE BeginYield(m) \/ Preempt(m) \/ BeginExit(m)
        BY <1>0, <3>1 DEF BeginYield, Preempt, BeginExit, Set, Frame
      <3>2. CASE Block(m) \/ WaitIo(m) \/ RunScheduler(m)
        BY <1>0, <3>2 DEF Block, WaitIo, RunScheduler, Goto, Frame
      <3>3. ASSUME NEW g \in G, BeginSpawn(m, g) \/ BeginReady(m, g)
            PROVE  frame'[m].at \in {"spawn", "ready"}
        BY <1>0, <3>3 DEF BeginSpawn, BeginReady, Set, Frame
      <3> QED
        BY <1>2, <3>1, <3>2, <3>3 DEF User
    <2> QED
      BY <2>1, <2>2 DEF Moved
  <1> QED
    BY <1>1, <1>2

LEMMA UserCounted ==
  ASSUME NEW m, Before(m), User(m) \/ Preempt(m)
  PROVE  Counted'
  <1>0. /\ m \in M /\ FieldTypes /\ FrameTypes /\ Counted /\ IsFiniteSet(Alive)
        /\ live = Cardinality(Alive)
    BY DEF Before, Always, WhileOk, Counted
  <1>1. At(MainM, "exited")' => At(MainM, "exited") /\ m # MainM /\ live = 0
    BY <1>0, UserMoves, MainStays DEF Counted
  <1>2. CASE Block(m) \/ WaitIo(m)
    <2>1. frame[m].at = "user" /\ status' = [status EXCEPT ![current_g[m]] = "G_WAITING"]
            /\ live' = live
      BY <1>2 DEF Block, WaitIo, InUser, At
    <2>2. current_g[m] \in G
      BY <2>1, HasG DEF GSide, GCode
    <2>3. Active(current_g[m])
      BY <2>1, <2>2, RunsNow
    <2>4. Alive' = Alive
      BY <1>0, <2>1, <2>2, <2>3 DEF Alive, Active, FieldTypes, OtherTypes
    <2> QED
      BY <1>1, <2>1, <2>4, CountedSame
  <1>3. ASSUME NEW g \in G, BeginSpawn(m, g) PROVE Counted'
    <2>1. /\ status[g] = "G_IDLE" /\ status' = [status EXCEPT ![g] = "G_RUNNABLE"]
          /\ live' = live + 1 /\ frame[m].at \in {"user", "main"}
      BY <1>3 DEF BeginSpawn, InUser, At
    <2>2. Alive' = Alive \cup {g} /\ g \notin Alive
      BY <1>0, <2>1 DEF Alive, FieldTypes, OtherTypes
    <2>3. IsFiniteSet(Alive \cup {g}) /\ Cardinality(Alive \cup {g}) = Cardinality(Alive) + 1
      BY <1>0, <2>2, FS_AddElement
    <2>4. ~At(MainM, "exited")'
      <3>1. CASE frame[m].at = "user"
        <4>1. current_g[m] \in G
          BY <3>1, HasG DEF GSide, GCode
        <4>2. Active(current_g[m])
          BY <3>1, <4>1, RunsNow
        <4>3. live > 0
          BY <4>1, <4>2, HeldLives
        <4> QED
          BY <1>1, <4>3
      <3>2. CASE frame[m].at = "main"
        <4>1. m = MainM
          BY <3>2 DEF Before, Always, Shape, ShapeOf, ShapeAt
        <4> QED
          BY <1>1, <4>1
      <3> QED
        BY <2>1, <3>1, <3>2
    <2> QED
      BY <1>0, <2>1, <2>2, <2>3, <2>4 DEF Counted
  <1>4. CASE status' = status /\ live' = live
    <2>1. Alive' = Alive
      BY <1>4 DEF Alive
    <2> QED
      BY <1>1, <1>4, <2>1, CountedSame
  <1> QED
    BY <1>2, <1>3, <1>4
       DEF User, BeginYield, OpenOrClose, BeginExit, RunScheduler, BeginReady, Preempt, gVars

LEMMA NextCounted ==
  ASSUME SchedInv, Next, fate' = "ok"
  PROVE  Counted'
  <1>0. Always /\ fate = "ok" /\ WhileOk
    BY DEF SchedInv, Next
  <1>1. ASSUME NEW m \in M, Step(m) \/ User(m) \/ Preempt(m) \/ PreemptSwitch(m)
        PROVE  Counted'
    <2>0. Before(m)
      BY <1>0, <1>1 DEF Before
    <2>1. CASE Step(m)
      BY <2>0, <2>1, StepCounted, ReturnedCounted
    <2>2. CASE User(m) \/ Preempt(m)
      BY <2>0, <2>2, UserCounted
    <2>3. CASE PreemptSwitch(m)
      BY <2>3 DEF PreemptSwitch
    <2> QED
      BY <1>1, <2>1, <2>2, <2>3
  <1>2. ASSUME NEW g \in G, IoEvent(g) PROVE Counted'
    <2>1. live' = live /\ status' = status /\ frame' = frame
      BY <1>2 DEF IoEvent, gVars, mVars
    <2>2. Alive' = Alive
      BY <2>1 DEF Alive
    <2> QED
      BY <1>0, <2>1, <2>2 DEF WhileOk, Counted, At
  <1> QED
    BY <1>1, <1>2 DEF Next

-----------------------------------------------------------------------------
(* Work is found *)

Passing == {"find_global", "steal", "poll", "poll_blocking", "give_up"}

\* An M that has a P and has passed no queue covers them all.
LEMMA KeepsCover ==
  ASSUME NEW m, Before(m), current_p'[m] = current_p[m],
         frame[m].at \notin NoProc \cup {"loop", "parked"},
         \/ frame'[m].at \notin Passing
         \/ frame'[m].at \in {"poll", "poll_blocking"} /\ frame'[m].woken
  PROVE  Covered'
  <1>1. current_p'[m] # NULL
    BY HasP, NullIsNone
  <1>2. \A q \in Queues : Covers(m, q)'
    BY <1>1 DEF Covers, HasPassed, Passing
  <1> QED
    BY <1>2 DEF Covered, Before

\* A step that leaves the queues alone, and what m has not passed.
LEMMA CoverKept ==
  ASSUME NEW m, Before(m), NEW f, Moved(m, f), local' = local, global' = global,
         \A x \in M : x # m => current_p'[x] = current_p[x],
         \A q \in Queues : NumPs <= 2 /\ List(q) # <<>> /\ Covers(m, q)
                             => current_p'[m] # NULL /\ ~HasPassed(f, current_p'[m], q)
  PROVE  Covered'
  <1>0. m \in M /\ Covered
    BY DEF Before, WhileOk
  <1>1. SUFFICES ASSUME NumPs <= 2, NEW q \in Queues, List(q)' # <<>>
                 PROVE  \E x \in M : Covers(x, q)'
    BY DEF Covered, NumPs
  <1>2. List(q)' = List(q)
    BY ListsSame
  <1>3. PICK x \in M : Covers(x, q)
    BY <1>0, <1>1, <1>2 DEF Covered
  <1>4. CASE x = m
    <2>1. current_p'[m] # NULL /\ ~HasPassed(f, current_p'[m], q)
      BY <1>1, <1>2, <1>3, <1>4
    <2>2. frame'[m] = f
      BY DEF Moved
    <2> QED
      BY <1>0, <2>1, <2>2 DEF Covers
  <1>5. CASE x # m
    BY <1>3, <1>5 DEF Covers, Moved
  <1> QED
    BY <1>4, <1>5

LEMMA LoopCovered ==
  ASSUME NEW m, Before(m),
         \/ LoopTop(m) \/ NoP(m) \/ Park(m) \/ Unparked(m)
  PROVE  Covered'
  <1>0. m \in M /\ FieldTypes /\ frame \in [M -> FrameSet]
    BY DEF Before, Always, FrameTypes
  <1>1. CASE NoP(m) \/ Park(m) \/ Unparked(m)
    <2>1. frame[m].at \in {"no_p", "park", "parked"} /\ current_p' = current_p
          /\ local' = local /\ global' = global
      BY <1>1 DEF NoP, Park, Unparked, At, pVars
    <2>2. PICK at \in {"exited", "park", "parked", "loop"} : Moved(m, Frame(at))
      BY <1>1, SimpleMoves
    <2>3. \A own, q : ~HasPassed(Frame(at), own, q)
      BY <2>2 DEF HasPassed, Frame
    <2> QED
      BY <2>1, <2>2, <2>3, CoverKept DEF Covers
  <1>2. CASE LoopTop(m) /\ frame'[m] = Frame("find_local")
    <2>1. current_p'[m] # NULL
      <3>1. CASE current_p[m] # NULL /\ keepP
        BY <3>1 DEF keepP
      <3>2. CASE AcquireP(m)
        BY <1>0, <3>2, AcquireTypes, NullIsNone DEF AcquireP, FieldTypes, ProcTypes
      <3>3. CASE Goto(m, "no_p")
        BY <1>0, <1>2, <3>3 DEF Goto, Frame
      <3> QED
        BY <1>2, <3>1, <3>2, <3>3 DEF LoopTop
    <2>2. \A q \in Queues : Covers(m, q)'
      BY <1>2, <2>1 DEF Covers, HasPassed, Frame
    <2> QED
      BY <1>0, <2>2 DEF Covered
  <1>3. CASE LoopTop(m) /\ current_p[m] = NULL /\ keepP /\ Moved(m, Frame("no_p"))
    <2>1. local' = local /\ global' = global /\ current_p' = current_p
      BY <1>3 DEF LoopTop, keepP
    <2> QED
      BY <1>3, <2>1, CoverKept DEF Covers
  <1> QED
    BY <1>1, <1>2, <1>3, LoopTopMoves DEF Moved

LEMMA FindCovered ==
  ASSUME NEW m, Before(m), FindLocal(m) \/ FindGlobal(m) \/ PollReady(m) \/ PollDone(m)
  PROVE  Covered'
  <1>0. m \in M /\ FieldTypes /\ FrameTypes /\ frame[m] \in FrameSet
    BY DEF Before, Always, FrameTypes
  <1>1. /\ frame[m].at \in {"find_local", "find_global", "poll", "poll_blocking"}
        /\ current_p' = current_p
    BY DEF FindLocal, FindGlobal, PollReady, PollDone, At, pVars
  <1>2. frame[m].at \notin NoProc \cup {"loop", "parked"}
    BY <1>1 DEF NoProc
  <1>3. ASSUME NEW f, Moved(m, f), f.at \notin Passing PROVE Covered'
    BY <1>1, <1>2, <1>3, KeepsCover DEF Moved
  <1>4. \A g : [Frame("execute") EXCEPT !.g = g].at \notin Passing
    BY DEF Frame, Passing
  <1>5. CASE FindLocal(m)
    <2>1. PICK p \in P : p = current_p[m]
      BY <1>5, FindLocalMoves
    <2>2. CASE Moved(m, [Frame("execute") EXCEPT !.g = Last(local[p])])
      BY <1>3, <1>4, <2>2
    <2>3. CASE /\ local[p] = <<>> /\ local' = local
               /\ Moved(m, [frame[m] EXCEPT !.at = "find_global"])
      <3> DEFINE f == [frame[m] EXCEPT !.at = "find_global"]
      <3>1. f.at = "find_global" /\ global' = global /\ Moved(m, f)
        BY <1>0, <1>5, <2>3 DEF FrameSet, FindLocal
      <3> HIDE DEF f
      <3>2. p # NULL /\ List(p) = <<>>
        BY <2>3, NullIsNone DEF List
      <3>3. \A q \in Queues : List(q) # <<>> => ~HasPassed(f, p, q)
        BY <3>1, <3>2 DEF HasPassed
      <3> QED
        BY <1>1, <2>1, <2>3, <3>1, <3>2, <3>3, CoverKept
    <2> QED
      BY <1>5, <2>1, <2>2, <2>3, FindLocalMoves
  <1>6. CASE FindGlobal(m)
    <2>0. frame[m].at = "find_global" /\ local' = local
      BY <1>6 DEF FindGlobal, At, pVars
    <2>1. CASE Moved(m, [Frame("execute") EXCEPT !.g = Head(global)])
      BY <1>3, <1>4, <2>1
    <2>2. ASSUME NEW f, global = <<>>, global' = global, Moved(m, f),
                 \/ f.at = "steal" /\ f.left = P \ {current_p[m]}
                 \/ f.at = "poll"
          PROVE  Covered'
      <3>1. List(NULL) = <<>>
        BY <2>2 DEF List
      <3>2. ASSUME NEW q \in Queues, List(q) # <<>>, Covers(m, q)
            PROVE  ~HasPassed(f, current_p[m], q) /\ current_p[m] # NULL
        <4>1. q # NULL /\ q # current_p[m] /\ q \in P
          BY <2>0, <3>1, <3>2 DEF Covers, HasPassed, Queues
        <4> QED
          BY <2>2, <3>2, <4>1 DEF HasPassed, Covers
      <3> QED
        BY <1>1, <2>0, <2>2, <3>2, CoverKept
    <2>3. \A S : /\ [Frame("steal") EXCEPT !.left = S].at = "steal"
                 /\ [Frame("steal") EXCEPT !.left = S].left = S
      BY DEF Frame
    <2>4. Frame("poll").at = "poll"
      BY DEF Frame
    <2> QED
      BY <1>6, <2>1, <2>2, <2>3, <2>4, FindGlobalMoves
  <1>7. CASE PollReady(m)
    <2>1. \A g, t : [Frame("ready") EXCEPT !.g = g, !.then = t].at \notin Passing
      BY DEF Frame, Passing
    <2> QED
      BY <1>3, <1>7, <2>1, PollReadyMoves
  <1>8. CASE PollDone(m)
    <2>0. frame[m].at = "poll" /\ local' = local /\ global' = global
      BY <1>8 DEF PollDone, At, pVars
    <2>1. CASE Moved(m, [Frame("find_local") EXCEPT !.woken = TRUE])
      <3>1. [Frame("find_local") EXCEPT !.woken = TRUE].at \notin Passing
        BY DEF Frame, Passing
      <3> QED
        BY <1>3, <2>1, <3>1
    <2>2. ASSUME ~frame[m].woken, NEW f, Moved(m, f), f.at = "steal", f.left = P \ {current_p[m]}
          PROVE  Covered'
      <3>1. ASSUME NEW q \in Queues, Covers(m, q)
            PROVE  ~HasPassed(f, current_p[m], q) /\ current_p[m] # NULL
        <4>1. q # NULL /\ q # current_p[m] /\ q \in P
          BY <2>0, <2>2, <3>1 DEF Covers, HasPassed, Queues
        <4> QED
          BY <2>2, <3>1, <4>1 DEF HasPassed, Covers
      <3> QED
        BY <1>1, <2>0, <2>2, <3>1, CoverKept
    <2>3. \A S : /\ [Frame("steal") EXCEPT !.left = S].at = "steal"
                 /\ [Frame("steal") EXCEPT !.left = S].left = S
      BY DEF Frame
    <2> QED
      BY <1>8, <2>1, <2>2, <2>3, PollDoneMoves
  <1> QED
    BY <1>5, <1>6, <1>7, <1>8

\* Stealing passes empty queues only, with one thief; with no work left an M has
\* passed them all.
LEMMA StealCovered ==
  ASSUME NEW m, Before(m), Steal(m) \/ NoWork(m)
  PROVE  Covered'
  <1>0. /\ m \in M /\ FieldTypes /\ FrameTypes /\ frame[m] \in FrameSet /\ frame[m].at = "steal"
        /\ IsFiniteSet(P) /\ NumPs \in Nat
    BY SchedulerAssumption, FS_CardinalityType
       DEF Before, Always, FrameTypes, Steal, NoWork, At, NumPs
  <1>1. frame[m].at \notin NoProc \cup {"loop", "parked"}
    BY <1>0 DEF NoProc
  <1>2. CASE Steal(m)
    <2>0. current_p' = current_p /\ global' = global
      BY <1>2 DEF Steal
    <2>1. PICK p \in P :
           \/ Moved(m, [Frame("execute") EXCEPT !.g = Head(local[p])])
           \/ /\ local[p] = <<>> \/ NumPs > 2
              /\ local' = local
              /\ Moved(m, [frame[m] EXCEPT !.left = @ \ {p}])
      BY <1>2, StealMoves
    <2>2. CASE Moved(m, [Frame("execute") EXCEPT !.g = Head(local[p])])
      <3>1. [Frame("execute") EXCEPT !.g = Head(local[p])].at \notin Passing
        BY DEF Frame, Passing
      <3>2. frame'[m].at \notin Passing
        BY <2>2, <3>1 DEF Moved
      <3> QED
        BY <1>1, <2>0, <3>2, KeepsCover
    <2>3. CASE /\ local[p] = <<>> \/ NumPs > 2
               /\ local' = local
               /\ Moved(m, [frame[m] EXCEPT !.left = @ \ {p}])
      <3> DEFINE f == [frame[m] EXCEPT !.left = @ \ {p}]
      <3>1. f.at = "steal" /\ f.left = frame[m].left \ {p} /\ Moved(m, f)
        BY <1>0, <2>3 DEF FrameSet
      <3> HIDE DEF f
      <3>2. NumPs <= 2 => List(p) = <<>>
        BY <1>0, <2>3, NullIsNone DEF List
      <3>3. \A q \in Queues : NumPs <= 2 /\ List(q) # <<>> /\ Covers(m, q)
                                => ~HasPassed(f, current_p[m], q) /\ current_p[m] # NULL
        BY <1>0, <3>1, <3>2 DEF HasPassed, Covers
      <3> QED
        BY <2>0, <2>3, <3>1, <3>3, CoverKept
    <2> QED
      BY <2>1, <2>2, <2>3
  <1>3. CASE NoWork(m)
    <2>1. /\ local' = local /\ global' = global /\ frame[m].left = {}
          /\ current_p[m] \in P
      BY <1>1, <1>3, HasP DEF NoWork
    <2>2. \A q \in Queues : ~Covers(m, q)
      BY <1>0, <2>1 DEF Covers, HasPassed
    <2>3. \A x \in M : x # m => current_p'[x] = current_p[x]
      BY <1>0, <1>3 DEF NoWork, ReleaseP, keepP, FieldTypes, ProcTypes
    <2> QED
      BY <1>3, <2>1, <2>2, <2>3, CoverKept, NoWorkMoves
  <1> QED
    BY <1>2, <1>3

LEMMA GiveUpCovered ==
  ASSUME NEW m, Before(m), PollBlockingDone(m) \/ GiveUp(m)
  PROVE  Covered'
  <1>0. m \in M /\ FieldTypes /\ FrameTypes
    BY DEF Before, Always, FrameTypes
  <1>1. local' = local /\ global' = global
    BY DEF PollBlockingDone, GiveUp, pVars
  <1>2. CASE PollBlockingDone(m) /\ frame[m].woken
    <2>1. frame[m].at = "poll_blocking" /\ current_p' = current_p
      BY <1>2 DEF PollBlockingDone, At
    <2>2. Moved(m, Frame("loop")) /\ Frame("loop").at = "loop"
      BY <1>2, SimpleMoves DEF Frame
    <2>3. frame'[m].at \notin Passing
      BY <2>2 DEF Moved, Passing
    <2> QED
      BY <2>1, <2>3, KeepsCover DEF NoProc
  <1>3. CASE (PollBlockingDone(m) /\ ~frame[m].woken) \/ GiveUp(m)
    <2>1. \A q \in Queues : ~Covers(m, q)
      BY <1>3 DEF Covers, HasPassed, PollBlockingDone, GiveUp, At
    <2>2. \A x \in M : x # m => current_p'[x] = current_p[x]
      BY <1>0, <1>3 DEF PollBlockingDone, GiveUp, ReleaseP, keepP, FieldTypes, ProcTypes
    <2>3. \E f : Moved(m, f)
      BY SimpleMoves, GiveUpMoves
    <2> QED
      BY <1>1, <2>1, <2>2, <2>3, CoverKept
  <1> QED
    BY <1>2, <1>3

LEMMA RunCovered ==
  ASSUME NEW m, Before(m),
         \/ Execute(m) \/ SwitchIn(m) \/ SwitchOut(m) \/ Returned(m) \/ LastDied(m) \/ Yield(m)
         \/ Exit(m) \/ Spawn(m) \/ GReady(m) \/ Queue(m)
  PROVE  Covered'
  <1>0. m \in M /\ frame \in [M -> FrameSet] /\ FrameTypes /\ frame[m] \in FrameSet
    BY DEF Before, Always, FrameTypes
  <1>1. frame[m].at \in {"execute", "switch_in", "switch", "returned", "last_died", "yield", "exit",
                         "spawn", "ready", "queue"}
    BY DEF Execute, SwitchIn, SwitchOut, Returned, LastDied, Yield, Exit, Spawn, GReady, Queue, At
  <1>2. frame[m].at \notin NoProc \cup {"loop", "parked"}
    BY <1>1 DEF NoProc
  <1>3. current_p' = current_p
    BY DEF Execute, SwitchIn, SwitchOut, Returned, LastDied, Yield, Exit, Spawn, GReady, Queue
  <1>4. frame'[m].at \notin Passing
    <2>1. CASE Execute(m)
      BY <1>0, <2>1 DEF Execute, Goto, Frame, Passing
    <2>2. CASE SwitchOut(m)
      BY <1>0, <2>2 DEF SwitchOut, Set, Frame, Passing
    <2>3. CASE GReady(m)
      BY <1>0, <2>3 DEF GReady, Set, FrameSet, Passing
    <2>4. CASE Queue(m)
      BY <1>0, <2>4 DEF Queue, Set, Frame, Passing
    <2>5. CASE SwitchIn(m)
      <3>1. current_g[m] \in G /\ frame'[m] = resume[current_g[m]]
        BY <2>5, SwitchInMoves DEF Moved
      <3> QED
        BY <3>1 DEF Before, Always, Shape, ResumeShape, GSide, GCode, Calls, Passing
    <2>6. CASE Spawn(m)
      <3>1. frame[m].then \in {"user", "main"}
        BY <1>0, <2>6 DEF FrameTypes, FrameOK, Spawn, At
      <3> QED
        BY <1>0, <2>6, <3>1 DEF Spawn, Set, Frame, Passing
    <2>7. CASE LastDied(m) \/ Yield(m) \/ Exit(m)
      <3>1. Goto(m, "loop") \/ Goto(m, "switch")
        BY <2>7 DEF LastDied, Yield, Exit
      <3> QED
        BY <1>0, <3>1 DEF Goto, Frame, Passing
    <2>8. CASE Returned(m)
      BY <1>0, <2>8 DEF Returned, Goto, Frame, Passing
    <2> QED
      BY <2>1, <2>2, <2>3, <2>4, <2>5, <2>6, <2>7, <2>8
  <1> QED
    BY <1>2, <1>3, <1>4, KeepsCover

\* run_wake_m gives its P to another M.
LEMMA WakeCovered ==
  ASSUME NEW m, Before(m), Wake(m) \/ WakeM(m) \/ WakeBind(m) \/ WakeNew(m)
  PROVE  Covered'
  <1>0. m \in M /\ frame \in [M -> FrameSet] /\ FrameTypes /\ FieldTypes /\ frame[m] \in FrameSet
    BY DEF Before, Always, FrameTypes
  <1>1. frame[m].at \in {"wake", "wake_m", "wake_bind", "wake_new"}
    BY DEF Wake, WakeM, WakeBind, WakeNew, At
  <1>2. frame[m].at \notin NoProc \cup {"loop", "parked"} /\ frame[m].at \in Calls
    BY <1>1 DEF NoProc, Calls
  <1>3. current_p'[m] = current_p[m]
    <2>1. CASE Wake(m) \/ WakeM(m)
      BY <2>1 DEF Wake, WakeM
    <2>2. CASE keepP
      BY <2>2 DEF keepP
    <2>3. CASE WakeBind(m) /\ AcquireP(frame[m].w)
      <3>1. frame[m].w \in M /\ parked[frame[m].w]
        BY <1>0, <2>3, WakeBindMoves DEF Before, Always, Known
      <3>2. frame[m].w # m
        BY <1>1, <3>1 DEF Before, Always, Shape, ShapeOf, ShapeAt
      <3> QED
        BY <1>0, <2>3, <3>1, <3>2 DEF AcquireP, FieldTypes, ProcTypes
    <2>4. CASE \E x \in M : x # m /\ AcquireP(x)
      BY <1>0, <2>4 DEF AcquireP, FieldTypes, ProcTypes
    <2> QED
      BY <2>1, <2>2, <2>3, <2>4, WakeNewMoves DEF WakeBind
  <1>4. /\ Caller(m).at \in {"user", "main", "poll", "poll_blocking"}
        /\ Caller(m).at \in {"poll", "poll_blocking"} => Caller(m).woken
    <2>1. frame[m].then \in Callers
      BY <1>0, <1>2 DEF FrameTypes, FrameOK
    <2> QED
      BY <1>0, <1>2, <2>1, CallerFrame DEF Callers
  <1>5. \/ frame'[m] = Caller(m)
        \/ frame'[m].at \in {"wake_m", "wake_bind", "wake_new"}
    <2>1. CASE Wake(m) \/ WakeM(m)
      <3>1. \/ Set(m, Caller(m))
            \/ \E at \in {"wake_m", "wake_new"} : Set(m, [frame[m] EXCEPT !.at = at])
            \/ \E w : Set(m, [frame[m] EXCEPT !.at = "wake_bind", !.w = w])
        BY <2>1 DEF Wake, WakeM, Back
      <3> QED
        BY <1>0, <3>1 DEF Set, FrameSet
    <2>2. CASE WakeBind(m)
      BY <2>2, WakeBindMoves DEF Moved
    <2>3. CASE WakeNew(m)
      BY <2>3, WakeNewMoves DEF Moved
    <2> QED
      BY <2>1, <2>2, <2>3
  <1>6. \/ frame'[m].at \notin Passing
        \/ frame'[m].at \in {"poll", "poll_blocking"} /\ frame'[m].woken
    BY <1>4, <1>5 DEF Passing
  <1> QED
    BY <1>2, <1>3, <1>6, KeepsCover

LEMMA UserCovered ==
  ASSUME NEW m, Before(m), User(m) \/ Preempt(m)
  PROVE  Covered'
  <1>1. frame[m].at \notin NoProc \cup {"loop", "parked"}
    <2>1. CASE User(m)
      <3>1. frame[m].at \in {"user", "main"}
        BY <2>1, Zenon
           DEF User, BeginYield, Block, WaitIo, OpenOrClose, BeginExit, RunScheduler, BeginSpawn,
               BeginReady, InUser, At
      <3> QED
        BY <3>1 DEF NoProc
    <2>2. CASE Preempt(m)
      <3>1. current_g[m] # NULL
        BY <2>2 DEF Preempt, Preemptible
      <3> QED
        BY <3>1 DEF Before, Always, Shape, ShapeOf, ShapeAt, GSide, GCode, Calls, NoProc
    <2> QED
      BY <2>1, <2>2
  <1>2. current_p'[m] = current_p[m]
    BY UserProcs DEF keepP
  <1>3. frame'[m].at \notin Passing
    BY UserMoves DEF Moved, Passing
  <1> QED
    BY <1>1, <1>2, <1>3, KeepsCover

LEMMA NextCovered ==
  ASSUME SchedInv, Next, fate' = "ok"
  PROVE  Covered'
  <1>0. Always /\ fate = "ok" /\ WhileOk
    BY DEF SchedInv, Next
  <1>1. ASSUME NEW m \in M, Step(m) \/ User(m) \/ Preempt(m) \/ PreemptSwitch(m)
        PROVE  Covered'
    <2>0. Before(m)
      BY <1>0, <1>1 DEF Before
    <2>1. CASE LoopTop(m) \/ NoP(m) \/ Park(m) \/ Unparked(m)
      BY <2>0, <2>1, LoopCovered
    <2>2. CASE FindLocal(m) \/ FindGlobal(m) \/ PollReady(m) \/ PollDone(m)
      BY <2>0, <2>2, FindCovered
    <2>3. CASE Steal(m) \/ NoWork(m) \/ PollBlockingDone(m) \/ GiveUp(m)
      BY <2>0, <2>3, StealCovered, GiveUpCovered
    <2>4. CASE \/ Execute(m) \/ SwitchIn(m) \/ SwitchOut(m) \/ Returned(m) \/ LastDied(m)
               \/ Yield(m) \/ Exit(m) \/ Spawn(m) \/ GReady(m) \/ Queue(m)
      BY <2>0, <2>4, RunCovered
    <2>5. CASE Wake(m) \/ WakeM(m) \/ WakeBind(m) \/ WakeNew(m)
      BY <2>0, <2>5, WakeCovered
    <2>6. CASE User(m) \/ Preempt(m)
      BY <2>0, <2>6, UserCovered
    <2>7. CASE PreemptSwitch(m)
      BY <2>7 DEF PreemptSwitch
    <2> QED
      BY <1>1, <2>1, <2>2, <2>3, <2>4, <2>5, <2>6, <2>7 DEF Step
  <1>2. ASSUME NEW g \in G, IoEvent(g) PROVE Covered'
    <2>1. /\ local' = local /\ global' = global /\ frame' = frame /\ current_p' = current_p
      BY <1>2 DEF IoEvent, pVars, mVars
    <2>2. \A q \in Queues : List(q)' = List(q)
      BY <2>1, ListsSame
    <2>3. \A q \in Queues, x \in M : Covers(x, q) => Covers(x, q)'
      BY <2>1 DEF Covers
    <2> QED
      BY <1>0, <2>2, <2>3 DEF WhileOk, Covered, NumPs
  <1> QED
    BY <1>1, <1>2 DEF Next

-----------------------------------------------------------------------------
(* With one P *)

LEMMA LoneP ==
  ASSUME NumPs = 1 PROVE P = {MainP}
  <1>1. IsFiniteSet(P) /\ Cardinality(P) = 1 /\ MainP \in P
    BY SchedulerAssumption DEF NumPs
  <1>2. \E x : P = {x}
    BY <1>1, FS_Singleton
  <1> QED
    BY <1>1, <1>2

\* One M has it, the others are on their way to it or asleep, and none is idle.
LEMMA LoneHolder ==
  ASSUME NEW m, Before(m), NumPs = 1, current_p[m] \in P
  PROVE  /\ \A x \in M : x # m => frame[x].at \in NoProc \cup {"loop", "parked"}
         /\ idle_p = <<>>
  <1>0. P = {MainP} /\ m \in M /\ Owned /\ FieldTypes /\ Shape /\ current_p[m] = MainP
    BY LoneP DEF Before, Always
  <1>1. bound_m[MainP] = m
    BY <1>0 DEF Owned
  <1>2. ASSUME NEW x \in M, x # m PROVE frame[x].at \in NoProc \cup {"loop", "parked"}
    <2>1. current_p[x] # MainP
      BY <1>0, <1>1, <1>2 DEF Owned
    <2>2. current_p[x] = NULL
      BY <1>0, <2>1 DEF FieldTypes, ProcTypes
    <2> QED
      BY <1>0, <2>2 DEF Shape, ShapeOf, ShapeAt
  <1>3. ASSUME idle_p # <<>> PROVE FALSE
    <2>1. Head(idle_p) \in P /\ Head(idle_p) \in ToSet(idle_p)
      BY <1>0, <1>3, HeadTaken DEF FieldTypes, ProcTypes
    <2> QED
      BY <1>0, <1>1, <2>1, NullIsNone DEF Owned
  <1> QED
    BY <1>2, <1>3

\* What Lone says of a position.
LoneAt(m, f, n, l, r) ==
  /\ InMain(f) /\ m = MainM => ~n
  /\ InPoll(f) \/ f.at = "give_up" => l > 0
  /\ f.at = "give_up" => ~r
  /\ f.at = "last_died" => l = 0

LEMMA OwnLone ==
  ASSUME NEW m, Before(m), NumPs = 1
  PROVE  /\ LoneAt(m, frame[m], notified, live, registered) /\ (notified => live = 0)
         /\ \A g \in G : resume[g] = Frame("user")
  BY DEF Before, WhileOk, Lone, LoneAt, At

LEMMA FarFrom ==
  ASSUME NEW f, f.at \in NoProc \cup {"loop", "parked", "find_local"}
  PROVE  ~InMain(f) /\ ~InPoll(f) /\ f.at # "give_up" /\ f.at # "last_died"
  BY DEF InMain, InPoll, NoProc, Calls

LEMMA LoneMoves ==
  ASSUME NEW m, Before(m), NumPs = 1, NEW f, Moved(m, f), current_p[m] \in P,
         \A g \in G : resume'[g] = Frame("user"), io' # {} => registered',
         notified' => live' = 0, LoneAt(m, f, notified', live', registered')
  PROVE  Lone'
  <1>0. m \in M /\ MainM \in M
    BY SchedulerAssumption DEF Before
  <1>1. ASSUME NEW x \in M
        PROVE  LoneAt(x, frame'[x], notified', live', registered')
    <2>1. CASE x = m
      BY <2>1 DEF Moved
    <2>2. CASE x # m
      <3>1. frame'[x].at \in NoProc \cup {"loop", "parked", "find_local"}
        BY <2>2, LoneHolder DEF Moved
      <3> QED
        BY <3>1, FarFrom DEF LoneAt
    <2> QED
      BY <2>1, <2>2
  <1>2. InMain(frame[MainM])' => ~notified'
    BY <1>0, <1>1 DEF LoneAt, InMain
  <1>3. \A x \in M : /\ InPoll(frame[x])' \/ At(x, "give_up")' => live' > 0
                     /\ At(x, "give_up")' => ~registered'
                     /\ At(x, "last_died")' => live' = 0
    BY <1>1 DEF LoneAt, At, InPoll
  <1> QED
    BY <1>2, <1>3 DEF Lone, NumPs

\* What every step keeps.
LEMMA NextRegistered ==
  ASSUME NEW m, Before(m), Step(m) \/ User(m) \/ Preempt(m)
  PROVE  io' # {} => registered'
  <1>0. io # {} => registered
    BY DEF Before, WhileOk, Lone
  <1>1. CASE Step(m)
    <2>1. CASE PollReady(m)
      BY <1>0, <2>1 DEF PollReady
    <2>2. CASE \/ LoopTop(m) \/ NoP(m) \/ Park(m) \/ Unparked(m) \/ FindLocal(m)
               \/ FindGlobal(m) \/ PollDone(m) \/ Steal(m) \/ NoWork(m)
               \/ PollBlockingDone(m) \/ GiveUp(m) \/ LastDied(m) \/ Wake(m)
      BY <1>0, <2>2
         DEF LoopTop, NoP, Park, Unparked, FindLocal, FindGlobal, PollDone, Steal, NoWork,
             PollBlockingDone, GiveUp, LastDied, Wake, ioVars
    <2>3. CASE \/ Execute(m) \/ SwitchIn(m) \/ SwitchOut(m) \/ Returned(m) \/ Yield(m)
               \/ Exit(m) \/ Spawn(m) \/ GReady(m) \/ Queue(m) \/ WakeM(m) \/ WakeBind(m)
               \/ WakeNew(m)
      BY <1>0, <2>3
         DEF Execute, SwitchIn, SwitchOut, Returned, Yield, Exit, Spawn, GReady, Queue, WakeM,
             WakeBind, WakeNew, ioVars
    <2> QED
      BY <1>1, <2>1, <2>2, <2>3 DEF Step
  <1>2. CASE WaitIo(m) \/ OpenOrClose(m)
    BY <1>0, <1>2 DEF WaitIo, OpenOrClose
  <1>3. CASE (User(m) /\ ~WaitIo(m) /\ ~OpenOrClose(m)) \/ Preempt(m)
    <2>1. CASE BeginYield(m) \/ Block(m) \/ BeginExit(m) \/ RunScheduler(m) \/ Preempt(m)
      BY <1>0, <2>1 DEF BeginYield, Block, BeginExit, RunScheduler, Preempt, ioVars
    <2>2. ASSUME NEW g \in G, BeginSpawn(m, g) \/ BeginReady(m, g)
          PROVE  io' # {} => registered'
      BY <1>0, <2>2 DEF BeginSpawn, BeginReady, ioVars
    <2> QED
      BY <1>3, <2>1, <2>2 DEF User
  <1> QED
    BY <1>1, <1>2, <1>3

LEMMA NextPlain ==
  ASSUME NEW m, Before(m), NumPs = 1, Step(m) \/ User(m) \/ Preempt(m)
  PROVE  \A g \in G : resume'[g] = Frame("user")
  <1>0. /\ \A g \in G : resume[g] = Frame("user")
        /\ resume \in [G -> FrameSet]
    BY OwnLone DEF Before, Always, FrameTypes
  <1>1. \/ resume' = resume
        \/ resume' = [resume EXCEPT ![current_g[m]] = Frame("user")]
    <2>1. CASE Step(m)
      BY <2>1, StepResume DEF SwitchIn
    <2>2. CASE User(m)
      <3>1. CASE BeginYield(m) \/ Block(m) \/ WaitIo(m)
        BY <3>1 DEF BeginYield, Block, WaitIo
      <3>2. CASE OpenOrClose(m) \/ BeginExit(m) \/ RunScheduler(m)
        BY <3>2 DEF OpenOrClose, BeginExit, RunScheduler, gVars
      <3>3. ASSUME NEW g \in G, BeginSpawn(m, g) \/ BeginReady(m, g) PROVE resume' = resume
        BY <3>3 DEF BeginSpawn, BeginReady, gVars
      <3> QED
        BY <2>2, <3>1, <3>2, <3>3 DEF User
    <2>3. CASE Preempt(m)
      BY <2>3 DEF Preempt, Preemptible
    <2> QED
      BY <2>1, <2>2, <2>3
  <1> QED
    BY <1>0, <1>1

\* Without a P an M is far from all that Lone speaks of.
LEMMA LoopLone ==
  ASSUME NEW m, Before(m), LoopTop(m) \/ NoP(m) \/ Park(m) \/ Unparked(m)
  PROVE  Lone'
  <1>0. m \in M /\ Lone /\ MainM \in M
    BY SchedulerAssumption DEF Before, WhileOk
  <1>1. /\ notified' = notified /\ live' = live /\ registered' = registered /\ io' = io
        /\ resume' = resume
    BY DEF LoopTop, NoP, Park, Unparked, gVars, ioVars
  <1>2. PICK at \in NoProc \cup {"loop", "parked", "find_local"} : Moved(m, Frame(at))
    <2>1. CASE LoopTop(m)
      BY <2>1, LoopTopMoves DEF NoProc
    <2>2. CASE NoP(m) \/ Park(m) \/ Unparked(m)
      <3>1. \E at \in {"exited", "park", "parked", "loop"} : Moved(m, Frame(at))
        BY <2>2, SimpleMoves
      <3> QED
        BY <3>1 DEF NoProc
    <2> QED
      BY <2>1, <2>2
  <1>3. Frame(at).at = at
    BY DEF Frame
  <1>4. ~InMain(frame'[m]) /\ ~InPoll(frame'[m])
          /\ frame'[m].at # "give_up" /\ frame'[m].at # "last_died"
    BY <1>2, <1>3, FarFrom DEF Moved
  <1>5. \A x \in M : x # m => frame'[x] = frame[x]
    BY <1>2 DEF Moved
  <1>6. InMain(frame[MainM])' => InMain(frame[MainM])
    BY <1>0, <1>4, <1>5 DEF InMain
  <1>7. \A x \in M : /\ InPoll(frame[x])' => InPoll(frame[x])
                     /\ At(x, "give_up")' => At(x, "give_up")
                     /\ At(x, "last_died")' => At(x, "last_died")
    BY <1>4, <1>5 DEF InPoll, At
  <1> QED
    BY <1>0, <1>1, <1>6, <1>7 DEF Lone, NumPs

\* A step that leaves the G count and the flags alone and begins nothing.
LEMMA QuietLone ==
  ASSUME NEW m, Before(m), NumPs = 1, Step(m) \/ User(m), current_p[m] \in P,
         NEW f, Moved(m, f), notified' => notified, live' = live,
         InMain(f) => InMain(frame[m]), InPoll(f) => InPoll(frame[m]),
         f.at \notin {"give_up", "last_died"}
  PROVE  Lone'
  <1>1. /\ LoneAt(m, frame[m], notified, live, registered) /\ (notified => live = 0)
        /\ \A g \in G : resume'[g] = Frame("user")
        /\ io' # {} => registered'
    BY OwnLone, NextPlain, NextRegistered
  <1>2. LoneAt(m, f, notified', live', registered')
    BY <1>1 DEF LoneAt
  <1> QED
    BY <1>1, <1>2, LoneMoves

LEMMA FindLone ==
  ASSUME NEW m, Before(m), NumPs = 1,
         FindLocal(m) \/ FindGlobal(m) \/ PollReady(m) \/ PollDone(m) \/ Steal(m)
  PROVE  Lone'
  <1>0. m \in M /\ frame \in [M -> FrameSet] /\ frame[m] \in FrameSet
    BY DEF Before, Always, FrameTypes
  <1>1. /\ live' = live /\ (notified' => notified) /\ Step(m)
        /\ frame[m].at \in {"find_local", "find_global", "poll", "poll_blocking", "steal"}
    <2>1. CASE FindLocal(m) \/ FindGlobal(m) \/ Steal(m)
      BY <2>1 DEF Step, FindLocal, FindGlobal, Steal, At, ioVars
    <2>2. CASE PollReady(m)
      BY <2>2 DEF Step, PollReady, At
    <2>3. CASE PollDone(m)
      BY <2>3 DEF Step, PollDone, At
    <2> QED
      BY <2>1, <2>2, <2>3
  <1>2. current_p[m] \in P
    BY <1>1, HasP DEF NoProc
  <1>3. CASE ~PollReady(m)
    <2>1. PICK f : Moved(m, f)
      BY <1>1, <1>3, FindLocalMoves, FindGlobalMoves, PollDoneMoves, StealMoves
    <2>2. frame'[m].at \in {"execute", "find_local", "find_global", "poll", "steal"}
      <3>1. CASE FindLocal(m)
        BY <1>0, <3>1 DEF FindLocal, Set, Frame, FrameSet
      <3>2. CASE FindGlobal(m)
        BY <1>0, <3>2 DEF FindGlobal, Goto, Set, Frame
      <3>3. CASE PollDone(m)
        BY <1>0, <3>3 DEF PollDone, Set, Frame
      <3>4. CASE Steal(m)
        <4>1. PICK p : \/ Set(m, [Frame("execute") EXCEPT !.g = Head(local[p])])
                       \/ Set(m, [frame[m] EXCEPT !.left = @ \ {p}])
          BY <3>4 DEF Steal
        <4> QED
          BY <1>0, <3>4, <4>1 DEF Steal, At, Set, Frame, FrameSet
      <3> QED
        BY <1>3, <3>1, <3>2, <3>3, <3>4
    <2>3. frame'[m] = f
      BY <2>1 DEF Moved
    <2>4. ~InMain(f) /\ ~InPoll(f) /\ f.at \notin {"give_up", "last_died"}
      BY <2>2, <2>3 DEF InMain, InPoll, Calls
    <2> QED
      BY <1>1, <1>2, <2>1, <2>4, QuietLone
  <1>4. CASE PollReady(m)
    <2>1. PICK f, g : f = [Frame("ready") EXCEPT !.g = g, !.then = frame[m].at] /\ Moved(m, f)
      BY <1>4, PollReadyMoves
    <2>2. f.at = "ready" /\ f.then = frame[m].at
      BY <2>1 DEF Frame
    <2>3. frame[m].at \in {"poll", "poll_blocking"}
      BY <1>4 DEF PollReady, At
    <2>4. ~InMain(f) /\ (InPoll(f) => InPoll(frame[m])) /\ f.at \notin {"give_up", "last_died"}
      BY <2>2, <2>3 DEF InMain, InPoll, Calls
    <2> QED
      BY <1>1, <1>2, <2>1, <2>4, QuietLone
  <1> QED
    BY <1>3, <1>4

\* Into the blocking poll and out of it: with a G alive there was no wakeup.
LEMMA PollLone ==
  ASSUME NEW m, Before(m), NumPs = 1, fate' = "ok",
         NoWork(m) \/ PollBlockingDone(m) \/ GiveUp(m)
  PROVE  Lone'
  <1>0. /\ m \in M /\ frame \in [M -> FrameSet] /\ live \in Nat
        /\ LoneAt(m, frame[m], notified, live, registered) /\ (notified => live = 0)
    BY OwnLone, LiveType DEF Before, Always, FrameTypes
  <1>1. /\ live' = live /\ registered' = registered /\ Step(m) /\ (notified' => notified)
        /\ frame[m].at \in {"poll_blocking", "steal", "give_up"}
    BY DEF Step, NoWork, PollBlockingDone, GiveUp, At, ioVars
  <1>2. current_p[m] \in P
    BY <1>1, HasP DEF NoProc
  <1>3. (io' # {} => registered') /\ \A g \in G : resume'[g] = Frame("user")
    BY <1>1, NextRegistered, NextPlain
  <1>4. ASSUME NEW f, Moved(m, f), LoneAt(m, f, notified', live', registered')
        PROVE  Lone'
    BY <1>0, <1>1, <1>2, <1>3, <1>4, LoneMoves
  <1>5. CASE NoWork(m)
    <2>1. PICK at \in {"exited", "poll_blocking", "give_up"} :
            /\ Moved(m, Frame(at))
            /\ at # "exited" => live > 0
            /\ at = "give_up" => ~registered
      BY <1>0, <1>5, NoWorkMoves
    <2>2. Frame(at).at = at
      BY DEF Frame
    <2>3. LoneAt(m, Frame(at), notified', live', registered')
      BY <1>1, <2>1, <2>2 DEF LoneAt, InMain, InPoll, Calls
    <2> QED
      BY <1>4, <2>1, <2>3
  <1>6. CASE PollBlockingDone(m)
    <2>1. live > 0
      BY <1>0, <1>6 DEF PollBlockingDone, At, LoneAt, InPoll
    <2>2. frame[m].woken
      BY <1>0, <1>6, <2>1 DEF PollBlockingDone
    <2>3. Moved(m, Frame("loop")) /\ Frame("loop").at = "loop"
      BY <1>6, <2>2, SimpleMoves DEF Frame
    <2>4. LoneAt(m, Frame("loop"), notified', live', registered')
      BY <2>3 DEF LoneAt, InMain, InPoll, Calls
    <2> QED
      BY <1>4, <2>3, <2>4
  <1>7. CASE GiveUp(m)
    BY <1>7 DEF GiveUp
  <1> QED
    BY <1>5, <1>6, <1>7

\* A G runs, is readied, or comes back.
LEMMA RunLone ==
  ASSUME NEW m, Before(m), NumPs = 1,
         \/ Execute(m) \/ SwitchIn(m) \/ SwitchOut(m) \/ Yield(m) \/ Exit(m) \/ Spawn(m)
         \/ GReady(m) \/ Queue(m)
  PROVE  Lone'
  <1>0. m \in M /\ frame \in [M -> FrameSet] /\ FrameTypes /\ frame[m] \in FrameSet
    BY DEF Before, Always, FrameTypes
  <1>1. /\ live' = live /\ notified' = notified /\ Step(m)
        /\ frame[m].at \in {"execute", "switch_in", "switch", "yield", "exit", "spawn", "ready",
                            "queue"}
    BY DEF Step, Execute, SwitchIn, SwitchOut, Yield, Exit, Spawn, GReady, Queue, At, ioVars
  <1>2. current_p[m] \in P
    BY <1>1, HasP DEF NoProc
  <1>3. PICK f : Moved(m, f)
    BY ExecuteMoves, SwitchInMoves, SwitchOutMoves, SpawnMoves, GReadyMoves, QueueMoves,
       SimpleMoves
  <1>4. frame'[m] = f
    BY <1>3 DEF Moved
  <1>5. CASE Execute(m) \/ SwitchIn(m) \/ SwitchOut(m) \/ Yield(m) \/ Exit(m)
    <2>1. frame'[m].at \in {"switch_in", "user", "returned", "switch"}
      <3>1. CASE SwitchIn(m)
        <4>1. current_g[m] \in G /\ frame'[m] = resume[current_g[m]]
          BY <3>1, SwitchInMoves DEF Moved
        <4>2. frame'[m] = Frame("user")
          BY <4>1, OwnLone
        <4> QED
          BY <4>2 DEF Frame
      <3>2. CASE SwitchOut(m)
        BY <1>0, <3>2 DEF SwitchOut, Set, Frame
      <3>3. CASE Execute(m) \/ Yield(m) \/ Exit(m)
        <4>1. Goto(m, "switch_in") \/ Goto(m, "switch")
          BY <3>3 DEF Execute, Yield, Exit
        <4> QED
          BY <1>0, <4>1 DEF Goto, Frame
      <3> QED
        BY <1>5, <3>1, <3>2, <3>3
    <2>2. ~InMain(f) /\ ~InPoll(f) /\ f.at \notin {"give_up", "last_died"}
      BY <1>4, <2>1 DEF InMain, InPoll, Calls
    <2> QED
      BY <1>1, <1>2, <1>3, <2>2, QuietLone
  <1>6. CASE Spawn(m)
    <2>1. frame[m].at = "spawn" /\ frame[m].then \in {"user", "main"}
      BY <1>0, <1>6 DEF FrameTypes, FrameOK, Spawn, At
    <2>2. \/ frame'[m].at = "wake" /\ frame'[m].then = frame[m].then
          \/ frame'[m].at = frame[m].then
      BY <1>0, <1>6 DEF Spawn, Set, Frame
    <2>3. /\ InMain(f) => InMain(frame[m])
          /\ ~InPoll(f) /\ f.at \notin {"give_up", "last_died"}
      BY <1>4, <2>1, <2>2 DEF InMain, InPoll, Calls
    <2> QED
      BY <1>1, <1>2, <1>3, <2>3, QuietLone
  <1>7. CASE GReady(m) \/ Queue(m)
    <2>1. frame[m].at \in Calls
      BY <1>7 DEF GReady, Queue, At, Calls
    <2>2. frame'[m].at \in {"queue", "wake"} /\ frame'[m].then = frame[m].then
      <3>1. CASE GReady(m)
        BY <1>0, <3>1 DEF GReady, Set, FrameSet
      <3>2. CASE Queue(m)
        BY <1>0, <3>2 DEF Queue, Set, Frame
      <3> QED
        BY <1>7, <3>1, <3>2
    <2>3. /\ InMain(f) => InMain(frame[m])
          /\ InPoll(f) => InPoll(frame[m])
          /\ f.at \notin {"give_up", "last_died"}
      BY <1>4, <2>1, <2>2 DEF InMain, InPoll, Calls
    <2> QED
      BY <1>1, <1>2, <1>3, <2>3, QuietLone
  <1> QED
    BY <1>5, <1>6, <1>7

\* The poller is woken for good when the last G has died.
LEMMA ReturnedLone ==
  ASSUME NEW m, Before(m), NumPs = 1, Returned(m) \/ LastDied(m)
  PROVE  Lone'
  <1>0. /\ m \in M /\ frame \in [M -> FrameSet] /\ live \in Nat
        /\ LoneAt(m, frame[m], notified, live, registered) /\ (notified => live = 0)
    BY OwnLone, LiveType DEF Before, Always, FrameTypes
  <1>1. Step(m) /\ registered' = registered /\ frame[m].at \in {"returned", "last_died"}
    BY DEF Step, Returned, LastDied, At, ioVars
  <1>2. current_p[m] \in P
    BY <1>1, HasP DEF NoProc
  <1>3. (io' # {} => registered') /\ \A g \in G : resume'[g] = Frame("user")
    BY <1>1, NextRegistered, NextPlain
  <1>4. CASE Returned(m)
    <2>1. live' \in Nat
      BY <1>4, ReturnedCounted, FS_CardinalityType DEF Counted
    <2>2. notified' = notified /\ (live' = live \/ live' = live - 1)
      BY <1>4 DEF Returned, ioVars
    <2>3. PICK at \in {"last_died", "loop"} :
            Moved(m, Frame(at)) /\ (at = "last_died" => live' <= 0)
      BY <1>4, SimpleMoves DEF Returned
    <2>4. Frame(at).at = at
      BY DEF Frame
    <2>5. (notified' => live' = 0) /\ (at = "last_died" => live' = 0)
      BY <1>0, <2>1, <2>2, <2>3
    <2>6. LoneAt(m, Frame(at), notified', live', registered')
      BY <2>3, <2>4, <2>5 DEF LoneAt, InMain, InPoll, Calls
    <2> QED
      BY <1>2, <1>3, <2>3, <2>5, <2>6, LoneMoves
  <1>5. CASE LastDied(m)
    <2>1. live' = live /\ live = 0
      BY <1>0, <1>5 DEF LastDied, At, LoneAt
    <2>2. Moved(m, Frame("loop")) /\ Frame("loop").at = "loop"
      BY <1>5, SimpleMoves DEF Frame
    <2>3. LoneAt(m, Frame("loop"), notified', live', registered')
      BY <2>2 DEF LoneAt, InMain, InPoll, Calls
    <2> QED
      BY <1>2, <1>3, <2>1, <2>2, <2>3, LoneMoves
  <1> QED
    BY <1>4, <1>5

\* There is no idle P to hand over.
LEMMA WakeLone ==
  ASSUME NEW m, Before(m), NumPs = 1, Wake(m) \/ WakeM(m) \/ WakeBind(m) \/ WakeNew(m)
  PROVE  Lone'
  <1>0. m \in M /\ frame \in [M -> FrameSet] /\ FrameTypes /\ frame[m] \in FrameSet
    BY DEF Before, Always, FrameTypes
  <1>1. live' = live /\ Step(m) /\ frame[m].at \in {"wake", "wake_m", "wake_bind", "wake_new"}
    BY DEF Step, Wake, WakeM, WakeBind, WakeNew, At
  <1>2. current_p[m] \in P /\ frame[m].at \in Calls
    BY <1>1, HasP DEF NoProc, Calls
  <1>3. idle_p = <<>>
    BY <1>2, LoneHolder
  <1>4. notified' = notified
    BY <1>3 DEF Wake, WakeM, WakeBind, WakeNew, ioVars
  <1>5. frame[m].then \in Callers /\ Caller(m).at = frame[m].then
    BY <1>0, <1>2, CallerFrame DEF FrameTypes, FrameOK
  <1>6. PICK f : /\ Moved(m, f)
                 /\ f = Caller(m) \/ (f.at \in {"wake_bind", "wake_new"} /\ f.then = frame[m].then)
    <2>1. CASE Wake(m) \/ WakeBind(m)
      BY <1>3, <2>1, WakeMoves, WakeBindMoves
    <2>2. CASE WakeNew(m)
      BY <1>3, <2>2, WakeNewMoves DEF AcquireP
    <2>3. CASE WakeM(m)
      <3>1. \E f : Moved(m, f)
        BY <2>3, WakeMMoves
      <3>2. frame'[m].at \in {"wake_bind", "wake_new"} /\ frame'[m].then = frame[m].then
        BY <1>0, <2>3 DEF WakeM, Set, FrameSet
      <3> QED
        BY <3>1, <3>2 DEF Moved
    <2> QED
      BY <2>1, <2>2, <2>3
  <1>7. /\ InMain(f) => InMain(frame[m])
        /\ InPoll(f) => InPoll(frame[m])
        /\ f.at \notin {"give_up", "last_died"}
    <2>1. CASE f = Caller(m)
      BY <1>2, <1>5, <2>1 DEF InMain, InPoll, Callers, Calls
    <2>2. CASE f.at \in {"wake_bind", "wake_new"} /\ f.then = frame[m].then
      BY <1>2, <2>2 DEF InMain, InPoll, Calls
    <2> QED
      BY <1>6, <2>1, <2>2
  <1> QED
    BY <1>1, <1>2, <1>4, <1>6, <1>7, QuietLone

LEMMA UserLone ==
  ASSUME NEW m, Before(m), NumPs = 1, User(m) \/ Preempt(m)
  PROVE  Lone'
  <1>0. /\ m \in M /\ frame \in [M -> FrameSet] /\ MainM \in M
        /\ LoneAt(m, frame[m], notified, live, registered) /\ (notified => live = 0)
    BY OwnLone, SchedulerAssumption DEF Before, Always, FrameTypes
  <1>1. ~Preempt(m)
    BY DEF Preempt, Preemptible
  <1>2. User(m) /\ notified' = notified /\ frame[m].at \in {"user", "main"}
    <2>1. User(m)
      BY <1>1
    <2>2. CASE BeginYield(m) \/ Block(m) \/ BeginExit(m) \/ RunScheduler(m)
      BY <2>1, <2>2 DEF BeginYield, Block, BeginExit, RunScheduler, InUser, At, ioVars
    <2>3. CASE WaitIo(m) \/ OpenOrClose(m)
      BY <2>1, <2>3 DEF WaitIo, OpenOrClose, InUser, At
    <2>4. ASSUME NEW g \in G, BeginSpawn(m, g) \/ BeginReady(m, g)
          PROVE  notified' = notified /\ frame[m].at \in {"user", "main"}
      BY <2>4 DEF BeginSpawn, BeginReady, InUser, At, ioVars
    <2> QED
      BY <2>1, <2>2, <2>3, <2>4 DEF User
  <1>3. current_p[m] \in P
    BY <1>2, HasP DEF NoProc
  <1>4. CASE \A g \in G : ~BeginSpawn(m, g) /\ ~BeginReady(m, g)
    <2>1. live' = live
      BY <1>2, <1>4
         DEF User, BeginYield, Block, WaitIo, OpenOrClose, BeginExit, RunScheduler
    <2>2. PICK f : /\ Moved(m, f)
                   /\ f.at \in {"user", "yield", "switch", "exit", "spawn", "ready", "loop"}
      BY <1>2, UserMoves
    <2>3. frame'[m].at \in {"user", "yield", "switch", "exit", "loop"}
      <3>1. CASE BeginYield(m) \/ BeginExit(m)
        BY <1>0, <3>1 DEF BeginYield, BeginExit, Set, Frame
      <3>2. CASE Block(m) \/ WaitIo(m) \/ RunScheduler(m)
        BY <1>0, <3>2 DEF Block, WaitIo, RunScheduler, Goto, Frame
      <3>3. CASE OpenOrClose(m)
        BY <3>3 DEF OpenOrClose, mVars, InUser, At
      <3> QED
        BY <1>2, <1>4, <3>1, <3>2, <3>3 DEF User
    <2>4. ~InMain(f) /\ ~InPoll(f) /\ f.at \notin {"give_up", "last_died"}
      BY <2>2, <2>3 DEF Moved, InMain, InPoll, Calls
    <2> QED
      BY <1>2, <1>3, <2>1, <2>2, <2>4, QuietLone
  <1>5. ASSUME NEW g \in G, BeginReady(m, g) PROVE Lone'
    <2>1. PICK f : f = [Frame("ready") EXCEPT !.g = g, !.then = "user"] /\ Moved(m, f)
      BY <1>5, BeginReadyMoves
    <2>2. f.at = "ready" /\ f.then = "user" /\ live' = live
      BY <1>5, <2>1 DEF Frame, BeginReady
    <2>3. ~InMain(f) /\ ~InPoll(f) /\ f.at \notin {"give_up", "last_died"}
      BY <2>2 DEF InMain, InPoll, Calls
    <2> QED
      BY <1>2, <1>3, <2>1, <2>2, <2>3, QuietLone
  <1>6. ASSUME NEW g \in G, BeginSpawn(m, g) PROVE Lone'
    <2>1. PICK f : /\ f = [Frame("spawn") EXCEPT !.g = g, !.self = m, !.then = frame[m].at]
                   /\ Moved(m, f)
      BY <1>6, BeginSpawnMoves
    <2>2. f.at = "spawn" /\ f.then \in {"user", "main"}
      BY <1>2, <2>1 DEF Frame
    <2>3. ~notified
      <3>1. CASE frame[m].at = "user"
        <4>1. current_g[m] \in G
          BY <3>1, HasG DEF GSide, GCode
        <4>2. Active(current_g[m])
          BY <3>1, <4>1, RunsNow
        <4> QED
          BY <1>0, <4>1, <4>2, HeldLives
      <3>2. CASE frame[m].at = "main"
        <4>1. m = MainM
          BY <3>2 DEF Before, Always, Shape, ShapeOf, ShapeAt
        <4> QED
          BY <1>0, <3>2, <4>1 DEF LoneAt, InMain
      <3> QED
        BY <1>2, <3>1, <3>2
    <2>4. LoneAt(m, f, notified', live', registered')
      BY <1>2, <2>2, <2>3 DEF LoneAt, InPoll, Calls
    <2>5. (io' # {} => registered') /\ \A h \in G : resume'[h] = Frame("user")
      BY <1>2, NextRegistered, NextPlain
    <2> QED
      BY <1>2, <1>3, <2>1, <2>3, <2>4, <2>5, LoneMoves
  <1> QED
    BY <1>4, <1>5, <1>6

LEMMA NextLone ==
  ASSUME SchedInv, Next, fate' = "ok"
  PROVE  Lone'
  <1>0. Always /\ fate = "ok" /\ WhileOk
    BY DEF SchedInv, Next
  <1>1. ASSUME NEW m \in M, Step(m) \/ User(m) \/ Preempt(m) \/ PreemptSwitch(m)
        PROVE  Lone'
    <2>0. Before(m) /\ ~PreemptSwitch(m)
      BY <1>0, <1>1 DEF Before, PreemptSwitch
    <2>1. CASE NumPs # 1
      BY <1>1, <2>0, <2>1, NextRegistered DEF Lone, NumPs
    <2>2. CASE NumPs = 1
      <3>1. CASE User(m) \/ Preempt(m)
        BY <2>0, <2>2, <3>1, UserLone
      <3>2. CASE Step(m)
        BY <2>0, <2>2, <3>2, LoopLone, FindLone, PollLone, RunLone, ReturnedLone, WakeLone
           DEF Step
      <3> QED
        BY <1>1, <2>0, <3>1, <3>2
    <2> QED
      BY <2>1, <2>2
  <1>2. ASSUME NEW g \in G, IoEvent(g) PROVE Lone'
    <2>1. /\ io' = io /\ registered' = registered /\ resume' = resume /\ notified' = notified
          /\ live' = live /\ frame' = frame
      BY <1>2 DEF IoEvent, gVars, mVars
    <2> QED
      BY <1>0, <2>1 DEF WhileOk, Lone, NumPs, InMain, InPoll, At
  <1> QED
    BY <1>1, <1>2 DEF Next

-----------------------------------------------------------------------------
(* The report of a deadlock *)

\* With one P, when its M gives up, every G that is left waits.
LEMMA GiveUpJustified ==
  ASSUME NEW m, Before(m), GiveUp(m)
  PROVE  AbortJustified'
  <1>0. /\ m \in M /\ Owned /\ FieldTypes /\ Shape /\ InOnePlace /\ Covered /\ Lone
        /\ frame[m].at = "give_up"
    BY DEF Before, Always, WhileOk, GiveUp, At
  <1>1. status' = status /\ io' = io /\ live' = live
    BY DEF GiveUp, gVars, ioVars
  <1>2. CASE NumPs > 1
    <2>1. fate' = "ok"
      BY <1>2 DEF GiveUp, Before
    <2> QED
      BY <2>1 DEF AbortJustified
  <1>3. CASE ~(NumPs > 1)
    <2>1. NumPs = 1 /\ P = {MainP}
      <3>1. IsFiniteSet(P) /\ MainP \in P
        BY SchedulerAssumption
      <3>2. NumPs \in Nat /\ NumPs # 0
        BY <3>1, FS_CardinalityType, FS_EmptySet DEF NumPs
      <3>3. NumPs = 1
        BY <1>3, <3>2
      <3> QED
        BY <3>3, LoneP
    <2>2. current_p[m] \in P
      BY <1>0, HasP DEF NoProc
    <2>3. \A x \in M : x # m => frame[x].at \in NoProc \cup {"loop", "parked"}
      BY <2>1, <2>2, LoneHolder
    <2>4. ASSUME NEW x \in M, current_p[x] # NULL PROVE x = m
      BY <1>0, <2>1, <2>2, <2>4 DEF Owned, FieldTypes, ProcTypes
    <2>5. ASSUME NEW g \in G, status[g] \in {"G_RUNNABLE", "G_RUNNING"} PROVE FALSE
      <3>0. PlaceOf(g) /\ Active(g) /\ g # NULL
        BY <1>0, <2>5, NullIsNone DEF InOnePlace, Active
      <3>1. Lists(g) = {}
        <4>1. SUFFICES ASSUME NEW q \in Queues, g \in ToSet(List(q)) PROVE FALSE
          BY DEF Lists
        <4>2. List(q) # <<>>
          BY <4>1 DEF ToSet
        <4>3. PICK x \in M : Covers(x, q)
          BY <1>0, <2>1, <4>2 DEF Covered
        <4>4. x = m
          BY <2>4, <4>3 DEF Covers
        <4> QED
          BY <1>0, <4>3, <4>4 DEF Covers, HasPassed
      <3>2. Holders(g) = {}
        <4>1. \A x \in M : frame[x].at \notin Handing
          BY <1>0, <2>3 DEF Handing, NoProc
        <4> QED
          BY <3>0, <4>1 DEF Holders, InHand
      <3>3. Keepers(g) = {}
        <4>1. \A x \in G : resume[x] = Frame("user")
          BY <1>0, <2>1 DEF Lone
        <4> QED
          BY <3>0, <4>1, UserInHand DEF Keepers
      <3>4. WaitsIn(g) = {}
        BY <1>0, <2>5 DEF InOnePlace, WaitsIn
      <3>5. Runners(g) = {}
        <4>1. \A x \in M : ~GSide(frame[x])
          BY <1>0, <2>3 DEF GSide, GCode, Calls, NoProc
        <4>2. \A x \in M : current_g[x] = NULL
          BY <1>0, <4>1 DEF Shape, ShapeOf, ShapeAt
        <4> QED
          BY <3>0, <4>2 DEF Runners, InRun
      <3> QED
        BY <3>0, <3>1, <3>2, <3>3, <3>4, <3>5 DEF PlaceOf, Placed, One
    <2>6. io = {} /\ live > 0
      BY <1>0, <2>1 DEF Lone, At
    <2> QED
      BY <1>1, <2>5, <2>6 DEF AbortJustified
  <1> QED
    BY <1>2, <1>3

LEMMA NextAbort ==
  ASSUME SchedInv, Next
  PROVE  AbortJustified'
  <1>0. Always /\ fate = "ok" /\ WhileOk
    BY DEF SchedInv, Next
  <1>1. ASSUME NEW m \in M, Step(m), ~GiveUp(m) PROVE fate' # "deadlocked"
    <2>0. CASE LoopTop(m) \/ NoP(m) \/ Park(m) \/ Unparked(m) \/ NoWork(m)
      BY <1>0, <2>0 DEF LoopTop, NoP, Park, Unparked, NoWork
    <2>1. CASE \/ FindLocal(m) \/ FindGlobal(m) \/ PollReady(m) \/ PollDone(m) \/ Steal(m)
               \/ PollBlockingDone(m)
      BY <1>0, <2>1 DEF FindLocal, FindGlobal, PollReady, PollDone, Steal, PollBlockingDone
    <2>2. CASE \/ Execute(m) \/ SwitchOut(m) \/ LastDied(m) \/ GReady(m)
               \/ Queue(m) \/ Wake(m) \/ WakeM(m) \/ WakeBind(m) \/ WakeNew(m)
      BY <1>0, <2>2 DEF Execute, SwitchOut, LastDied, GReady, Queue, Wake, WakeM, WakeBind, WakeNew
    <2>3. CASE SwitchIn(m) \/ Returned(m) \/ Yield(m) \/ Exit(m) \/ Spawn(m)
      BY <1>0, <2>3 DEF SwitchIn, Returned, Yield, Exit, Spawn
    <2> QED
      BY <1>1, <2>0, <2>1, <2>2, <2>3 DEF Step
  <1>2. ASSUME NEW m \in M, User(m) \/ Preempt(m) \/ PreemptSwitch(m) PROVE fate' # "deadlocked"
    <2>1. CASE \/ BeginYield(m) \/ Block(m) \/ WaitIo(m) \/ OpenOrClose(m) \/ BeginExit(m)
               \/ RunScheduler(m) \/ Preempt(m) \/ PreemptSwitch(m)
      BY <1>0, <2>1
         DEF BeginYield, Block, WaitIo, OpenOrClose, BeginExit, RunScheduler, Preempt,
             PreemptSwitch
    <2>2. ASSUME NEW g \in G, BeginSpawn(m, g) \/ BeginReady(m, g) PROVE fate' = "ok"
      BY <1>0, <2>2 DEF BeginSpawn, BeginReady
    <2> QED
      BY <1>2, <2>1, <2>2 DEF User
  <1>3. ASSUME NEW g \in G, IoEvent(g) PROVE fate' # "deadlocked"
    BY <1>0, <1>3 DEF IoEvent
  <1>4. ASSUME NEW m \in M, GiveUp(m) PROVE AbortJustified'
    <2>1. Before(m)
      BY <1>0 DEF Before
    <2> QED
      BY <1>4, <2>1, GiveUpJustified
  <1>5. fate' # "deadlocked" => AbortJustified'
    BY DEF AbortJustified
  <1> QED
    BY <1>1, <1>2, <1>3, <1>4, <1>5 DEF Next

-----------------------------------------------------------------------------
(* The invariant *)

LEMMA IdleAtFirst ==
  ASSUME Init
  PROVE  /\ idle_p \in Seq(P) /\ Distinct(idle_p) /\ ToSet(idle_p) = P \ {MainP}
  <1> DEFINE S == P \ {MainP}
             n == Cardinality(S)
  <1>1. IsFiniteSet(S) /\ n \in Nat
    <2>1. IsFiniteSet(P)
      BY SchedulerAssumption
    <2>2. IsFiniteSet(S)
      BY <2>1, FS_RemoveElement
    <2> QED
      BY <2>2, FS_CardinalityType
  <1>2. idle_p \in [1 .. n -> S] /\ \A i, j \in 1 .. n : i # j => idle_p[i] # idle_p[j]
    BY DEF Init, SetToSeqs
  <1> HIDE DEF n, S
  <1>3. Distinct(idle_p)
    BY <1>2 DEF Distinct
  <1>4. idle_p \in Seq(P)
    <2>1. idle_p \in Seq(S)
      BY <1>1, <1>2, SeqDef
    <2> QED
      BY <2>1, SeqMonotonic DEF S
  <1>5. ToSet(idle_p) = S
    <2>0. IsFiniteSet(1 .. n) /\ Cardinality(1 .. n) = n
      BY <1>1, FS_Interval
    <2>1. idle_p \in Injection(1 .. n, S)
      BY <1>2 DEF Injection, IsInjective
    <2>2. idle_p \in Surjection(1 .. n, S)
      BY <1>1, <2>0, <2>1, FS_Injection DEF n
    <2> QED
      BY <1>2, <2>2 DEF ToSet, Surjection
  <1> QED
    BY <1>3, <1>4, <1>5 DEF S

LEMMA InitAlways ==
  ASSUME Init PROVE Always
  <1>0. NULL \notin M /\ NULL \notin G /\ NULL \notin P
    BY NullIsNone
  <1>1. FieldTypes
    <2>1. ListTypes
      BY SchedulerAssumption DEF Init, ListTypes
    <2>2. ProcTypes
      BY SchedulerAssumption, IdleAtFirst DEF Init, ProcTypes
    <2>3. OtherTypes
      <3>1. /\ status \in
                 [G -> {"G_IDLE", "G_RUNNABLE", "G_RUNNING", "G_WAITING", "G_DEAD", "FREED"}]
            /\ last_p \in [G -> P \cup {NULL}] /\ current_g \in [M -> G \cup {NULL}]
            /\ preempt \in [G -> BOOLEAN] /\ preempt_safe \in [G -> BOOLEAN]
            /\ saved \in [G -> BOOLEAN] /\ parked \in [M -> BOOLEAN]
        BY DEF Init
      <3>2. /\ idle_m \in Seq(M) /\ waiting \subseteq G /\ io \subseteq IoG
            /\ ready_io \subseteq io /\ registered \in BOOLEAN /\ notified \in BOOLEAN
        BY EmptySeq DEF Init
      <3> QED
        BY <3>1, <3>2 DEF OtherTypes
    <2> QED
      BY <2>1, <2>2, <2>3 DEF FieldTypes
  <1>2. FrameTypes
    <2>1. \A at \in {"main", "unborn", "user"} : FrameOK(Frame(at))
      BY PlainFrame DEF Places, Handing, Calls, GCode, NoProc
    <2> QED
      BY <2>1 DEF Init, FrameTypes, FrameOK
  <1>3. Shape
    <2>1. \A at : Frame(at).at = at
      BY DEF Frame
    <2> QED
      BY <1>0, <2>1, SchedulerAssumption
         DEF Init, Shape, ShapeOf, ShapeAt, ResumeShape, GSide, GCode, Calls, NoProc
  <1>4. Owned
    <2>1. /\ p_status = [p \in P |-> IF p = MainP THEN "P_RUNNING" ELSE "P_IDLE"]
          /\ bound_m = [p \in P |-> IF p = MainP THEN MainM ELSE NULL]
          /\ current_p = [m \in M |-> IF m = MainM THEN MainP ELSE NULL]
          /\ MainM \in M /\ MainP \in P
      BY SchedulerAssumption DEF Init
    <2> QED
      BY <1>0, <2>1, IdleAtFirst DEF Owned
  <1>5. Known
    <2>1. \A at : Frame(at).w = NULL
      BY DEF Frame
    <2>2. /\ \A x \in M : frame[x].w = NULL /\ ~parked[x]
          /\ \A g \in G : resume[g].w = NULL
      BY <2>1 DEF Init
    <2>3. ToSet(idle_m) = {} /\ Distinct(idle_m)
      BY DEF Init, ToSet, Distinct
    <2> QED
      BY <1>0, <2>2, <2>3 DEF Known
  <1> QED
    BY <1>1, <1>2, <1>3, <1>4, <1>5 DEF Always

LEMMA InitInv ==
  ASSUME Init PROVE SchedInv
  <1>0. NULL \notin M /\ NULL \notin G /\ NULL \notin P /\ IsFiniteSet(P) /\ MainP \in P
    BY NullIsNone, SchedulerAssumption
  <1>1. SingleRun
    BY DEF Init, SingleRun, Single
  <1>2. InOnePlace
    <2>1. \A q \in Queues : List(q) = <<>>
      BY DEF Init, Queues, List
    <2>2. ASSUME NEW g \in G PROVE PlaceOf(g)
      <3>1. Lists(g) = {}
        BY <2>1 DEF Lists, ToSet
      <3>2. Holders(g) = {}
        BY <1>0 DEF Init, Holders, InHand, Handing, Frame
      <3>3. Keepers(g) = {}
        BY <1>0 DEF Init, Keepers, InHand, Handing, Frame
      <3>4. WaitsIn(g) = {}
        BY DEF Init, WaitsIn
      <3>5. Runners(g) = {}
        BY <1>0 DEF Init, Runners, InRun
      <3>6. ~Active(g)
        BY DEF Init, Active
      <3> QED
        BY <3>1, <3>2, <3>3, <3>4, <3>5, <3>6 DEF PlaceOf, Placed
    <2>3. \A q \in Queues : Distinct(List(q))
      BY <2>1 DEF Distinct
    <2> QED
      BY <2>2, <2>3 DEF InOnePlace, Init
  <1>3. Counted
    <2>1. Alive = {}
      BY DEF Init, Alive
    <2> QED
      BY <2>1, FS_EmptySet DEF Counted, Init
  <1>4. Covered
    <2>1. \A q \in Queues : List(q) = <<>>
      BY DEF Init, Queues, List
    <2> QED
      BY <2>1 DEF Covered
  <1>5. Lone
    <2>1. \A at : Frame(at).at = at
      BY DEF Frame
    <2>2. \A m \in M : frame[m].at \in {"main", "unborn"}
      BY <2>1 DEF Init
    <2> QED
      BY <2>2 DEF Init, Lone, InPoll, Calls, At
  <1>6. AbortJustified
    BY DEF Init, AbortJustified
  <1> QED
    BY <1>1, <1>2, <1>3, <1>4, <1>5, <1>6, InitAlways DEF SchedInv, WhileOk

LEMMA NextInv ==
  ASSUME SchedInv, [Next]_vars
  PROVE  SchedInv'
  <1>1. CASE Next
    <2>1. Always'
      BY <1>1, NextAlways
    <2>2. ASSUME fate' = "ok" PROVE WhileOk'
      <3>1. FieldTypes'
        BY <2>1 DEF Always
      <3> QED
        BY <1>1, <2>2, <3>1, NextSingleRun, NextInOnePlace, NextCounted, NextCovered, NextLone
           DEF WhileOk
    <2> QED
      BY <1>1, <2>1, <2>2, NextAbort DEF SchedInv
  <1>2. CASE UNCHANGED vars
    <2>1. /\ UNCHANGED <<status, last_p, preempt, preempt_safe, saved, resume, local, p_status>>
          /\ UNCHANGED <<bound_m, idle_p, current_g, current_p, parked, frame, idle_m, global>>
          /\ UNCHANGED <<live, waiting, registered, io, ready_io, notified, fate>>
      BY <1>2 DEF vars, gVars, preemptVars, pVars, mVars, ioVars
    <2>2. Always => Always'
      <3>1. FieldTypes' = FieldTypes
        BY <2>1 DEF FieldTypes, ListTypes, ProcTypes, OtherTypes
      <3>2. FrameTypes' = FrameTypes
        BY <2>1 DEF FrameTypes
      <3>3. Shape' = Shape
        BY <2>1 DEF Shape, ShapeOf, ResumeShape
      <3>4. Owned' = Owned /\ Known' = Known
        BY <2>1 DEF Owned, Known
      <3> QED
        BY <3>1, <3>2, <3>3, <3>4 DEF Always
    <2>3. SingleRun => SingleRun'
      BY <2>1 DEF SingleRun, Single, On
    <2>4. InOnePlace => InOnePlace'
      <3>1. \A q : List(q)' = List(q)
        BY <2>1 DEF List
      <3>2. \A g \in G : PlaceOf(g)' = PlaceOf(g)
        BY <2>1, <3>1 DEF PlaceOf, Active, Lists, Holders, Keepers, WaitsIn, Runners
      <3> QED
        BY <2>1, <3>1, <3>2 DEF InOnePlace
    <2>5. Counted => Counted'
      BY <2>1 DEF Counted, Alive, At
    <2>6. Covered => Covered'
      <3>1. \A q : List(q)' = List(q)
        BY <2>1 DEF List
      <3>2. \A x \in M : \A q : Covers(x, q)' = Covers(x, q)
        BY <2>1 DEF Covers
      <3> QED
        BY <3>1, <3>2 DEF Covered, NumPs
    <2>7. Lone => Lone'
      BY <2>1 DEF Lone, At, NumPs
    <2>8. AbortJustified => AbortJustified'
      BY <2>1 DEF AbortJustified
    <2> QED
      BY <2>1, <2>2, <2>3, <2>4, <2>5, <2>6, <2>7, <2>8 DEF SchedInv, WhileOk
  <1> QED
    BY <1>1, <1>2

LEMMA Invariant == Spec => []SchedInv
  BY InitInv, NextInv, PTL DEF Spec

-----------------------------------------------------------------------------
(* The properties *)

LEMMA SizeOne ==
  ASSUME NEW S
  PROVE  One(S) => Cardinality(S) = 1
  BY FS_Singleton DEF One

LEMMA SizeNone == Cardinality({}) = 0
  BY FS_EmptySet

LEMMA CountSet ==
  ASSUME NEW s, NEW x, Distinct(s)
  PROVE  Count(s, x) = IF x \in ToSet(s) THEN 1 ELSE 0
  <1>1. CASE x \in ToSet(s)
    <2>1. PICK i \in DOMAIN s : s[i] = x
      BY <1>1 DEF ToSet
    <2>2. {j \in DOMAIN s : s[j] = x} = {i}
      BY <2>1 DEF Distinct
    <2> QED
      BY <1>1, <2>2, SizeOne DEF Count, One
  <1>2. CASE x \notin ToSet(s)
    <2>1. {j \in DOMAIN s : s[j] = x} = {}
      BY <1>2 DEF ToSet
    <2> QED
      BY <1>2, <2>1, SizeNone DEF Count
  <1> QED
    BY <1>1, <1>2

\* The fields have their types, and where the code uses the current G or the
\* current P of its M there is one.
THEOREM TypesHold == Spec => []TypeOK
  <1>1. SchedInv => TypeOK
    <2>1. SUFFICES ASSUME Always PROVE TypeOK
      BY DEF SchedInv
    <2>2. ASSUME NEW m \in M
          PROVE  /\ frame[m].at \in {"user", "yield", "exit", "switch", "switch_in"}
                      => current_g[m] \in G
                 /\ frame[m].at \in {"find_local", "find_global", "poll", "poll_blocking", "steal",
                                     "execute", "give_up", "switch_in", "user"}
                      => current_p[m] \in P
      <3>1. /\ GSide(frame[m]) => current_g[m] # NULL
            /\ frame[m].at \notin NoProc \cup {"loop", "parked"} => current_p[m] # NULL
        BY <2>1 DEF Always, Shape, ShapeOf, ShapeAt
      <3>2. current_g[m] \in G \cup {NULL} /\ current_p[m] \in P \cup {NULL}
        BY <2>1 DEF Always, FieldTypes, ProcTypes, OtherTypes
      <3> QED
        BY <3>1, <3>2 DEF GSide, GCode, NoProc
    <2> QED
      BY <2>1, <2>2 DEF Always, FieldTypes, ListTypes, ProcTypes, OtherTypes, TypeOK
  <1> QED
    BY <1>1, Invariant, PTL

\* Every P is idle, once, or held by the one M its bound_m names, whichever M
\* run_acquire_idle_p, run_release_p and run_wake_m give it to or take it from.
THEOREM PsAreOwned == Spec => []POwnership
  <1>1. SchedInv => POwnership
    <2>1. SUFFICES ASSUME Owned, FieldTypes, NEW p \in P
                   PROVE  LET holders == {m \in M : current_p[m] = p}
                          IN  /\ Count(idle_p, p) + Cardinality(holders) = 1
                              /\ IF bound_m[p] = NULL
                                 THEN holders = {} /\ p_status[p] = "P_IDLE"
                                 ELSE holders = {bound_m[p]} /\ p_status[p] = "P_RUNNING"
      BY DEF SchedInv, Always, POwnership
    <2> DEFINE holders == {m \in M : current_p[m] = p}
    <2>2. Count(idle_p, p) = IF bound_m[p] = NULL THEN 1 ELSE 0
      BY <2>1, CountSet DEF Owned
    <2>3. p_status[p] = IF bound_m[p] = NULL THEN "P_IDLE" ELSE "P_RUNNING"
      BY <2>1 DEF Owned, FieldTypes, ProcTypes
    <2>4. CASE bound_m[p] = NULL
      <3>1. holders = {}
        BY <2>1, <2>4, NullIsNone DEF Owned
      <3> QED
        BY <2>2, <2>3, <2>4, <3>1, SizeNone
    <2>5. CASE bound_m[p] # NULL
      <3>1. bound_m[p] \in M
        BY <2>1, <2>5 DEF FieldTypes, ProcTypes
      <3>2. holders = {bound_m[p]}
        BY <2>1, <3>1 DEF Owned
      <3>3. Cardinality(holders) = 1
        BY <3>2, SizeOne DEF One
      <3> QED
        BY <2>2, <2>3, <2>5, <3>2, <3>3
    <2> QED
      BY <2>4, <2>5
  <1> QED
    BY <1>1, Invariant, PTL

\* An M that sleeps in run_park_m is known to one party that will wake it: the
\* idle list, or one run_wake_m, even one that was preempted with it in hand.
THEOREM ParkedMsAreKnown == Spec => []ParkedMIsKnown
  <1>1. SchedInv => ParkedMIsKnown
    <2>1. SUFFICES ASSUME Known, FieldTypes, NEW m \in M
                   PROVE  Count(idle_m, m) + Cardinality({x \in M : frame[x].w = m})
                            + Cardinality({g \in G : resume[g].w = m})
                            = IF parked[m] THEN 1 ELSE 0
      BY DEF SchedInv, Always, ParkedMIsKnown
    <2> DEFINE W == {x \in M : frame[x].w = m}
               R == {g \in G : resume[g].w = m}
    <2>2. Count(idle_m, m) = IF m \in ToSet(idle_m) THEN 1 ELSE 0
      BY <2>1, CountSet DEF Known
    <2>3. /\ W = {} \/ One(W)
          /\ R = {} \/ One(R)
      <3>1. ASSUME NEW x \in W PROVE W = {x}
        BY <2>1, <3>1, NullIsNone DEF Known
      <3>2. ASSUME NEW g \in R PROVE R = {g}
        BY <2>1, <3>2, NullIsNone DEF Known
      <3> QED
        BY <3>1, <3>2 DEF One
    <2>4. /\ parked[m] <=> m \in ToSet(idle_m) \/ W # {} \/ R # {}
          /\ m \in ToSet(idle_m) => W = {} /\ R = {}
          /\ W # {} => R = {}
      BY <2>1, NullIsNone DEF Known
    <2> HIDE DEF W, R
    <2>5. /\ Cardinality(W) = IF W = {} THEN 0 ELSE 1
          /\ Cardinality(R) = IF R = {} THEN 0 ELSE 1
      BY <2>3, SizeOne, SizeNone
    <2>6. Count(idle_m, m) + Cardinality(W) + Cardinality(R) = IF parked[m] THEN 1 ELSE 0
      BY <2>2, <2>4, <2>5
    <2> QED
      BY <2>6 DEF W, R
  <1> QED
    BY <1>1, Invariant, PTL

\* What Placed counts.
LEMMA PlacesCounted ==
  ASSUME Always, InOnePlace, NEW g \in G
  PROVE  /\ Queued(g) = IF Lists(g) = {} THEN 0 ELSE 1
         /\ Hands(g) = Cardinality(Holders(g)) + Cardinality(Keepers(g))
         /\ Waits(g) = Cardinality(WaitsIn(g))
         /\ Runs(g) = Cardinality(Runners(g))
  <1>0. /\ FieldTypes /\ FrameTypes /\ Shape /\ g # NULL
        /\ PlaceOf(g) /\ \A q \in Queues : Distinct(List(q))
    BY NullIsNone DEF Always, InOnePlace
  <1>1. Queued(g) = IF Lists(g) = {} THEN 0 ELSE 1
    <2> DEFINE Slots == {slot \in P \X (1 .. LocalSize) :
                           slot[2] \in DOMAIN local[slot[1]] /\ local[slot[1]][slot[2]] = g}
    <2>0. Queued(g) = Count(global, g) + Cardinality(Slots)
      BY DEF Queued
    <2>1. Count(global, g) = IF g \in ToSet(List(NULL)) THEN 1 ELSE 0
      BY <1>0, CountSet DEF List, Queues
    <2>2. Lists(g) = {} \/ One(Lists(g))
      BY <1>0 DEF PlaceOf, Placed
    <2>3. ASSUME NEW p \in P, g \in ToSet(local[p]) PROVE p \in Lists(g)
      BY <2>3, NullIsNone DEF Lists, Queues, List
    <2>4. ASSUME g \in ToSet(List(NULL)) PROVE NULL \in Lists(g)
      BY <2>4 DEF Lists, Queues
    <2>5. ASSUME NEW s \in Slots PROVE s[1] \in P /\ s[1] \in Lists(g)
      BY <2>3, <2>5 DEF ToSet
    <2>6. CASE Lists(g) = {}
      <3>1. Slots = {} /\ g \notin ToSet(List(NULL))
        BY <2>4, <2>5, <2>6
      <3>2. Cardinality(Slots) = 0
        BY <3>1, SizeNone
      <3> HIDE DEF Slots
      <3> QED
        BY <2>0, <2>1, <2>6, <3>1, <3>2
    <2>7. CASE Lists(g) = {NULL}
      <3>1. Slots = {}
        BY <2>5, <2>7, NullIsNone
      <3>2. g \in ToSet(List(NULL))
        BY <2>7 DEF Lists
      <3>3. Cardinality(Slots) = 0
        BY <3>1, SizeNone
      <3> HIDE DEF Slots
      <3> QED
        BY <2>0, <2>1, <2>7, <3>2, <3>3
    <2>8. ASSUME NEW p \in P, Lists(g) = {p} PROVE Queued(g) = 1
      <3>1. g \notin ToSet(List(NULL))
        BY <2>4, <2>8, NullIsNone
      <3>2. g \in ToSet(local[p]) /\ Distinct(local[p])
        BY <1>0, <2>8, NullIsNone DEF Lists, List, Queues
      <3>3. PICK i \in DOMAIN local[p] : local[p][i] = g
        BY <3>2 DEF ToSet
      <3>4. i \in 1 .. LocalSize
        <4>1. local[p] \in Seq(G) /\ Len(local[p]) <= LocalSize /\ LocalSize \in Nat
          BY <1>0, SchedulerAssumption DEF FieldTypes, ListTypes
        <4> QED
          BY <3>3, <4>1
      <3>5. <<p, i>> \in Slots
        BY <3>3, <3>4
      <3>6. ASSUME NEW s \in Slots PROVE s = <<p, i>>
        <4>1. s[1] = p
          BY <2>5, <2>8
        <4>2. s[2] = i
          BY <3>2, <3>3, <4>1 DEF Distinct
        <4> QED
          BY <4>1, <4>2
      <3>7. One(Slots)
        BY <3>5, <3>6 DEF One
      <3> QED
        BY <2>0, <2>1, <2>8, <3>1, <3>7, SizeOne
    <2> QED
      BY <2>2, <2>6, <2>7, <2>8 DEF One, Lists, Queues
  <1>2. Hands(g) = Cardinality(Holders(g)) + Cardinality(Keepers(g))
    <2>1. {m \in M : frame[m].at \in {"execute", "ready", "queue", "spawn"} /\ frame[m].g = g}
            = Holders(g)
      BY <1>0 DEF Holders, InHand, Handing
    <2>2. {x \in G : resume[x].at \in {"ready", "queue", "spawn"} /\ resume[x].g = g} = Keepers(g)
      <3>1. \A x \in G : resume[x].at # "execute"
        BY <1>0 DEF Shape, ResumeShape, GSide, GCode, Calls
      <3> QED
        BY <1>0, <3>1 DEF Keepers, InHand, Handing
    <2> QED
      BY <2>1, <2>2 DEF Hands
  <1>3. Waits(g) = Cardinality(WaitsIn(g))
    <2>1. WaitsIn(g) = {} \/ One(WaitsIn(g))
      BY <1>0 DEF PlaceOf, Placed
    <2>2. /\ "waiting" \in WaitsIn(g) <=> g \in waiting
          /\ "io" \in WaitsIn(g) <=> g \in io
          /\ WaitsIn(g) \subseteq {"waiting", "io"}
      BY DEF WaitsIn
    <2>3. CASE WaitsIn(g) = {}
      BY <2>2, <2>3, SizeNone DEF Waits
    <2>4. CASE One(WaitsIn(g))
      <3>1. (g \in waiting /\ g \notin io) \/ (g \notin waiting /\ g \in io)
        BY <2>2, <2>4 DEF One
      <3> QED
        BY <2>4, <3>1, SizeOne DEF Waits
    <2> QED
      BY <2>1, <2>3, <2>4
  <1>4. Runs(g) = Cardinality(Runners(g))
    <2>1. {m \in M : current_g[m] = g /\ frame[m].at \notin {"switch", "returned"}} = Runners(g)
      BY <1>0 DEF Runners, InRun
    <2> QED
      BY <2>1 DEF Runs
  <1> QED
    BY <1>1, <1>2, <1>3, <1>4

\* A G that was spawned and has not exited is in one run queue, in the hands of
\* one M or of one preempted G, in one wait queue or on one M, through every
\* push, pop, steal, wakeup, switch and preemption.
THEOREM GsAreInOnePlace == Spec => []GInOnePlace
  <1>1. SchedInv => GInOnePlace
    <2>1. SUFFICES ASSUME Always, InOnePlace, NEW g \in G
                   PROVE  Queued(g) + Hands(g) + Waits(g) + Runs(g) =
                            IF status[g] \in {"G_RUNNABLE", "G_RUNNING", "G_WAITING"} THEN 1 ELSE 0
      BY DEF SchedInv, WhileOk, GInOnePlace
    <2>2. /\ Queued(g) = IF Lists(g) = {} THEN 0 ELSE 1
          /\ Hands(g) = Cardinality(Holders(g)) + Cardinality(Keepers(g))
          /\ Waits(g) = Cardinality(WaitsIn(g))
          /\ Runs(g) = Cardinality(Runners(g))
      BY <2>1, PlacesCounted
    <2>3. Placed(Active(g), Lists(g), Holders(g), Keepers(g), WaitsIn(g), Runners(g))
      BY <2>1 DEF InOnePlace, PlaceOf
    <2>4. /\ Cardinality(Holders(g)) = IF Holders(g) = {} THEN 0 ELSE 1
          /\ Cardinality(Keepers(g)) = IF Keepers(g) = {} THEN 0 ELSE 1
          /\ Cardinality(WaitsIn(g)) = IF WaitsIn(g) = {} THEN 0 ELSE 1
          /\ Cardinality(Runners(g)) = IF Runners(g) = {} THEN 0 ELSE 1
      BY <2>3, SizeOne, SizeNone DEF Placed
    <2>5. /\ Active(g) <=> status[g] \in {"G_RUNNABLE", "G_RUNNING", "G_WAITING"}
          /\ \A S : One(S) => S # {}
      BY DEF Active, One
    <2> QED
      BY <2>2, <2>3, <2>4, <2>5 DEF Placed
  <1> QED
    BY <1>1, Invariant, PTL

\* live_g_count counts the Gs spawned and not yet freed, and run_scheduler_run
\* returns with none left.
THEOREM LiveIsExact == Spec => []LiveExact
  <1>1. SchedInv => LiveExact
    BY DEF SchedInv, WhileOk, Counted, Alive, LiveExact
  <1> QED
    BY <1>1, Invariant, PTL

\* With one or two Ps an M that gives up its P leaves no work behind: while no M
\* holds a P or is on its way to one, the run queues are empty.  (With more a
\* thief may pass a queue by when another takes its head.)
THEOREM WorkIsNotStranded ==
  ASSUME NumPs <= 2
  PROVE  Spec => []NoStrandedWork
  <1>1. SchedInv => NoStrandedWork
    <2>1. SUFFICES ASSUME Always, InOnePlace, Covered,
                          \A m \in M : parked[m] \/ frame[m].at \in {"unborn", "exited"},
                          NEW g \in G
                   PROVE  Queued(g) = 0
      BY DEF SchedInv, WhileOk, NoStrandedWork
    <2>2. ASSUME NEW m \in M PROVE current_p[m] = NULL
      <3>1. /\ frame[m].at \in NoProc => current_p[m] = NULL
            /\ parked[m] => current_p[m] = NULL
        BY <2>1 DEF Always, Shape, ShapeOf, ShapeAt
      <3> QED
        BY <2>1, <3>1 DEF NoProc
    <2>3. \A q \in Queues : List(q) = <<>>
      BY <2>1, <2>2 DEF Covered, Covers
    <2>4. Lists(g) = {}
      BY <2>3 DEF Lists, ToSet
    <2> QED
      BY <2>1, <2>4, PlacesCounted
  <1> QED
    BY <1>1, Invariant, PTL

\* "All green threads are deadlocked" is printed only when every G left waits
\* and no fd is open that could wake one.
THEOREM AbortsAreJustified == Spec => []AbortJustified
  <1>1. SchedInv => AbortJustified
    BY DEF SchedInv
  <1> QED
    BY <1>1, Invariant, PTL

=============================================================================
