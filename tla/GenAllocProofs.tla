--------------------------- MODULE GenAllocProofs ---------------------------
(***************************************************************************)
(* Type correctness of GenAlloc, and that a stale reference never passes   *)
(* its check and a recycled block has room, for any number of threads and  *)
(* blocks, any size classes, and programs that free what they like.  For   *)
(* programs that free a pointer once: what they own passes its check, and  *)
(* every block is in one place.  (src/runtime/run_alloc.c.)                *)
(***************************************************************************)
EXTENDS GenAlloc, FiniteSetTheorems, SequenceTheorems, WellFoundedInduction, TLAPS

\* A set of sizes has a smallest one.
LEMMA LeastOfSet ==
  ASSUME NEW T, T \subseteq Nat, T # {}
  PROVE  \E x \in T : \A y \in T : x <= y
  <1> DEFINE R == OpToRel(<, Nat)
  <1>1. IsWellFoundedOn(R, Nat)
    BY NatLessThanWellFounded
  <1>2. \A x, y \in Nat : y < x => <<y, x>> \in R
    BY DEF OpToRel
  <1> HIDE DEF R
  <1>3. \E x \in T : \A y \in T : ~(<<y, x>> \in R)
    BY <1>1, WFMin
  <1>4. \E x \in T : \A y \in T : ~(y < x)
    BY <1>2, <1>3
  <1> QED
    BY <1>4

\* run_size_class names a list that exists.
LEMMA SizeClassType ==
  ASSUME NEW n \in Nat
  PROVE  SizeClass(n) \in Class \cup {Large}
  <1> DEFINE T == {c \in Class : n <= c}
  <1>1. CASE \E c \in Class : n <= c
    <2>1. T \subseteq Nat /\ T # {}
      BY <1>1, GenAllocAssumption
    <2> HIDE DEF T
    <2>2. PICK x \in T : \A y \in T : x <= y
      BY <2>1, LeastOfSet
    <2>3. \E c \in Class : n <= c /\ \A d \in Class : n <= d => c <= d
      BY <2>2 DEF T
    <2> QED
      BY <1>1, <2>3 DEF SizeClass
  <1>2. CASE ~ \E c \in Class : n <= c
    BY <1>2 DEF SizeClass
  <1> QED
    BY <1>1, <1>2

\* Taking an element out of a list: the ones behind it move up.
LEMMA RemoveAtProperties ==
  ASSUME NEW S, NEW q \in Seq(S), NEW k \in DOMAIN q
  PROVE  /\ RemoveAt(q, k) \in Seq(S)
         /\ Len(RemoveAt(q, k)) = Len(q) - 1
         /\ \A j \in 1..(Len(q) - 1) : RemoveAt(q, k)[j] = IF j < k THEN q[j] ELSE q[j + 1]
  <1> DEFINE a == SubSeq(q, 1, k - 1)
             b == SubSeq(q, k + 1, Len(q))
  <1>0. k \in 1..Len(q)
    BY LenProperties
  <1>1. a \in Seq(S) /\ Len(a) = k - 1 /\ \A j \in 1..(k - 1) : a[j] = q[j]
    BY <1>0, SubSeqProperties
  <1>2. b \in Seq(S) /\ Len(b) = Len(q) - k /\ \A j \in 1..(Len(q) - k) : b[j] = q[k + j]
    BY <1>0, SubSeqProperties
  <1> HIDE DEF a, b
  <1>3. /\ a \o b \in Seq(S) /\ Len(a \o b) = Len(q) - 1
        /\ \A j \in 1..(Len(q) - 1) : (a \o b)[j] = IF j < k THEN q[j] ELSE q[j + 1]
    <2>1. /\ a \o b \in Seq(S) /\ Len(a \o b) = Len(a) + Len(b)
          /\ \A i \in 1..(Len(a) + Len(b)) :
               (a \o b)[i] = IF i <= Len(a) THEN a[i] ELSE b[i - Len(a)]
      BY <1>1, <1>2, ConcatProperties
    <2>2. k \in Nat /\ Len(q) \in Nat /\ Len(a) + Len(b) = Len(q) - 1
      BY <1>0, <1>1, <1>2
    <2>3. ASSUME NEW j \in 1..(Len(q) - 1)
          PROVE  (a \o b)[j] = IF j < k THEN q[j] ELSE q[j + 1]
      <3>1. CASE j < k
        <4>1. (a \o b)[j] = a[j] /\ a[j] = q[j]
          BY <1>1, <2>1, <2>2, <3>1
        <4> QED
          BY <3>1, <4>1
      <3>2. CASE ~(j < k)
        <4>1. /\ j \in 1..(Len(a) + Len(b)) /\ ~(j <= Len(a))
              /\ j - Len(a) \in 1..(Len(q) - k) /\ k + (j - Len(a)) = j + 1
          <5>1. Len(a) = k - 1 /\ k \in Nat /\ Len(q) \in Nat /\ j \in Nat /\ 1 <= j
                  /\ j <= Len(q) - 1
            BY <1>1, <2>2
          <5>2. j \in 1..(Len(a) + Len(b))
            BY <2>2
          <5>3. ~(j <= Len(a))
            BY <3>2, <5>1
          <5>4. j - Len(a) = j - (k - 1) /\ k + (j - Len(a)) = j + 1
            BY <5>1
          <5>5. j - (k - 1) \in 1..(Len(q) - k)
            BY <3>2, <5>1
          <5> QED
            BY <5>2, <5>3, <5>4, <5>5
        <4>2. (a \o b)[j] = b[j - Len(a)]
          BY <2>1, <4>1
        <4>3. b[j - Len(a)] = q[j + 1]
          BY <1>2, <4>1
        <4> QED
          BY <3>2, <4>2, <4>3
      <3>3. QED
        BY <3>1, <3>2
    <2>4. QED
      BY <2>1, <2>2, <2>3
  <1>4. RemoveAt(q, k) = a \o b
    BY DEF RemoveAt, a, b
  <1>5. QED
    BY <1>3, <1>4

-----------------------------------------------------------------------------
(* Types *)

\* What a call has in its hands came from malloc.
HandMalloced == \A t \in Thread : hand[t] # NULL => hand[t] \in malloced

TypeInv == TypeOK /\ HandMalloced

LEMMA InitTypeInv == Init => TypeInv
  <1> SUFFICES ASSUME Init PROVE TypeInv
    OBVIOUS
  <1>1. free_list \in [Class \cup {Large} -> Seq(malloced)]
    BY EmptySeq DEF Init
  <1>2. want \in [Thread -> [size : Nat, strict : BOOLEAN]]
    BY DEF Init, NoRequest
  <1>3. /\ pc \in [Thread -> {"idle", "pop", "malloc", "stamp", "mark", "push"}]
        /\ hand \in [Thread -> Block \cup {NULL}]
        /\ \A t \in Thread : pc[t] = "idle" /\ hand[t] = NULL
    BY DEF Init
  <1>4. /\ epoch \in Nat \ {0}
        /\ gen \in [Block -> Nat \cup {FREED}]
        /\ size \in [Block -> Nat] /\ capacity \in [Block -> Nat]
        /\ malloced \subseteq Block
    BY DEF Init
  <1>5. /\ owned \subseteq malloced \X Nat /\ freed \subseteq malloced \X Nat
        /\ refs \subseteq malloced \X (Nat \cup {FREED})
        /\ freed_twice \in BOOLEAN /\ aborted \in BOOLEAN
    BY DEF Init
  <1> QED
    BY <1>1, <1>2, <1>3, <1>4, <1>5 DEF TypeInv, TypeOK, HandMalloced

\* What the two ways to allocate have in common.
LEMMA StampType ==
  ASSUME TypeInv, NEW t \in Thread, NEW b \in malloced', Stamp(t, b),
         malloced \subseteq malloced', malloced' \subseteq Block,
         capacity' \in [Block -> Nat], pc[t] \in {"stamp", "malloc"}
  PROVE  TypeInv'
  <1> USE DEF TypeInv, TypeOK
  <1>1. epoch' \in Nat \ {0} /\ gen' \in [Block -> Nat \cup {FREED}] /\ size' \in [Block -> Nat]
    BY DEF Stamp
  <1>2. free_list' \in [Class \cup {Large} -> Seq(malloced')]
    <2>1. \A c \in Class \cup {Large} : free_list[c] \in Seq(malloced')
      BY SeqMonotonic
    <2> QED
      BY <2>1 DEF Stamp
  <1>3. want' \in [Thread -> [size : Nat, strict : BOOLEAN]]
    BY DEF Stamp, NoRequest
  <1>4. /\ pc' \in [Thread -> {"idle", "pop", "malloc", "stamp", "mark", "push"}]
        /\ hand' \in [Thread -> Block \cup {NULL}]
        /\ \A u \in Thread : pc'[u] \in {"stamp", "mark", "push"} <=> hand'[u] # NULL
    BY DEF Stamp
  <1>5. owned' \subseteq malloced' \X Nat /\ freed' \subseteq malloced' \X Nat
        /\ refs' \subseteq malloced' \X (Nat \cup {FREED})
    BY DEF Stamp
  <1>6. HandMalloced'
    BY DEF Stamp, HandMalloced
  <1>7. freed_twice' \in BOOLEAN /\ aborted' \in BOOLEAN
    BY DEF Stamp
  <1> QED
    BY <1>1, <1>2, <1>3, <1>4, <1>5, <1>6, <1>7

LEMMA NextTypeInv == TypeInv /\ [Next]_vars => TypeInv'
  <1> SUFFICES ASSUME TypeInv, [Next]_vars PROVE TypeInv'
    OBVIOUS
  <1> USE DEF TypeInv, HandMalloced
  <1>1. ASSUME NEW t \in Thread, NEW n \in Size, NEW strict \in BOOLEAN, AllocBegin(t, n, strict)
        PROVE  TypeInv'
    <2>1. want' \in [Thread -> [size : Nat, strict : BOOLEAN]]
      BY <1>1, GenAllocAssumption DEF AllocBegin, TypeOK
    <2>2. \A u \in Thread : pc'[u] \in {"stamp", "mark", "push"} <=> hand'[u] # NULL
      BY <1>1 DEF AllocBegin, TypeOK
    <2> QED
      BY <1>1, <2>1, <2>2 DEF AllocBegin, TypeOK, memVars, progVars
  <1>2. ASSUME NEW t \in Thread, AllocPop(t)
        PROVE  TypeInv'
    <2> DEFINE c == SizeClass(want[t].size)
    <2>1. c \in Class \cup {Large}
      BY SizeClassType DEF TypeOK
    <2> HIDE DEF c
    <2>2. free_list[c] \in Seq(malloced)
      BY <2>1 DEF TypeOK
    <2>3. ASSUME NEW i \in DOMAIN free_list[c],
                 free_list' = [free_list EXCEPT ![c] = RemoveAt(@, i)],
                 hand' = [hand EXCEPT ![t] = free_list[c][i]],
                 pc' = [pc EXCEPT ![t] = "stamp"]
          PROVE  TypeInv'
      <3>1. free_list[c][i] \in malloced /\ RemoveAt(free_list[c], i) \in Seq(malloced)
        BY <2>2, ElementOfSeq, RemoveAtProperties, LenProperties
      <3>2. free_list' \in [Class \cup {Large} -> Seq(malloced)]
        BY <2>3, <3>1 DEF TypeOK
      <3>3. /\ hand' \in [Thread -> Block \cup {NULL}]
            /\ free_list[c][i] # NULL
            /\ \A u \in Thread : hand'[u] # NULL => hand'[u] \in malloced
        BY <2>3, <3>1, GenAllocAssumption DEF TypeOK
      <3>4. /\ pc' \in [Thread -> {"idle", "pop", "malloc", "stamp", "mark", "push"}]
            /\ \A u \in Thread : pc'[u] \in {"stamp", "mark", "push"} <=> hand'[u] # NULL
        BY <2>3, <3>3 DEF TypeOK
      <3> QED
        BY <1>2, <3>2, <3>3, <3>4 DEF AllocPop, TypeOK, progVars
    <2>4. ASSUME pc' = [pc EXCEPT ![t] = "malloc"], UNCHANGED <<free_list, hand>>
          PROVE  TypeInv'
      <3>1. /\ pc' \in [Thread -> {"idle", "pop", "malloc", "stamp", "mark", "push"}]
            /\ \A u \in Thread : pc'[u] \in {"stamp", "mark", "push"} <=> hand'[u] # NULL
        BY <1>2, <2>4 DEF AllocPop, TypeOK
      <3> QED
        BY <1>2, <2>4, <3>1 DEF AllocPop, TypeOK, progVars
    <2> QED
      BY <1>2, <2>3, <2>4 DEF AllocPop, c
  <1>3. ASSUME NEW t \in Thread, AllocRecycled(t)
        PROVE  TypeInv'
    <2>1. hand[t] \in malloced' /\ malloced' = malloced /\ capacity' = capacity
      BY <1>3 DEF AllocRecycled, TypeOK
    <2>2. /\ pc[t] \in {"stamp", "malloc"} /\ Stamp(t, hand[t])
          /\ malloced \subseteq malloced' /\ malloced' \subseteq Block
          /\ capacity' \in [Block -> Nat]
      BY <1>3, <2>1 DEF AllocRecycled, TypeOK
    <2> QED
      BY <2>1, <2>2, StampType
  <1>4. ASSUME NEW t \in Thread, AllocFresh(t)
        PROVE  TypeInv'
    <2> DEFINE room == IF SizeClass(want[t].size) = Large THEN want[t].size
                                                          ELSE SizeClass(want[t].size)
    <2>1. room \in Nat
      BY SizeClassType, GenAllocAssumption DEF TypeOK
    <2>2. PICK b \in Block \ malloced :
                 /\ capacity' = [capacity EXCEPT ![b] = room]
                 /\ malloced' = malloced \cup {b}
                 /\ Stamp(t, b)
      BY <1>4 DEF AllocFresh
    <2> HIDE DEF room
    <2>3. /\ pc[t] \in {"stamp", "malloc"} /\ b \in malloced'
          /\ malloced \subseteq malloced' /\ malloced' \subseteq Block
          /\ capacity' \in [Block -> Nat]
      BY <1>4, <2>1, <2>2 DEF AllocFresh, TypeOK
    <2> QED
      BY <2>2, <2>3, StampType
  <1>5. ASSUME Abort PROVE TypeInv'
    BY <1>5 DEF Abort, TypeOK, memVars, progVars
  <1>6. ASSUME NEW t \in Thread, NEW o \in owned \cup freed, FreeCheck(t, o)
        PROVE  TypeInv'
    <2>1. CASE gen[o[1]] = FREED
      BY <1>5, <1>6, <2>1 DEF FreeCheck
    <2>2. CASE gen[o[1]] # FREED
      <3>1. o[1] \in malloced /\ o[1] \in Block /\ o[1] # NULL /\ o \in malloced \X Nat
        BY GenAllocAssumption DEF TypeOK
      <3>2. /\ pc' = [pc EXCEPT ![t] = "mark"] /\ hand' = [hand EXCEPT ![t] = o[1]]
            /\ owned' = owned \ {o} /\ freed' = freed \cup {o}
            /\ freed_twice' = (freed_twice \/ o \in freed)
            /\ UNCHANGED <<epoch, memVars, want, refs, aborted>>
        BY <1>6, <2>2 DEF FreeCheck
      <3>3. /\ pc' \in [Thread -> {"idle", "pop", "malloc", "stamp", "mark", "push"}]
            /\ hand' \in [Thread -> Block \cup {NULL}]
            /\ \A u \in Thread : pc'[u] \in {"stamp", "mark", "push"} <=> hand'[u] # NULL
            /\ \A u \in Thread : hand'[u] # NULL => hand'[u] \in malloced
        BY <3>1, <3>2 DEF TypeOK
      <3>4. freed_twice' \in BOOLEAN
        BY <3>2 DEF TypeOK
      <3> QED
        BY <3>1, <3>2, <3>3, <3>4 DEF TypeOK, memVars
    <2> QED
      BY <2>1, <2>2
  <1>7. ASSUME NEW t \in Thread, FreeMark(t)
        PROVE  TypeInv'
    <2>1. gen' \in [Block -> Nat \cup {FREED}]
      BY <1>7 DEF FreeMark, TypeOK
    <2>2. /\ pc' \in [Thread -> {"idle", "pop", "malloc", "stamp", "mark", "push"}]
          /\ \A u \in Thread : pc'[u] \in {"stamp", "mark", "push"} <=> hand'[u] # NULL
      BY <1>7 DEF FreeMark, TypeOK
    <2> QED
      BY <1>7, <2>1, <2>2 DEF FreeMark, TypeOK, progVars
  <1>8. ASSUME NEW t \in Thread, FreePush(t)
        PROVE  TypeInv'
    <2> DEFINE c == SizeClass(capacity[hand[t]])
    <2>1. hand[t] \in malloced /\ hand[t] \in Block
      BY <1>8 DEF FreePush, TypeOK
    <2>2. c \in Class \cup {Large}
      BY <2>1, SizeClassType DEF TypeOK
    <2> HIDE DEF c
    <2>3. <<hand[t]>> \o free_list[c] \in Seq(malloced)
      <3>1. <<hand[t]>> \in Seq(malloced) /\ free_list[c] \in Seq(malloced)
        BY <2>1, <2>2 DEF TypeOK
      <3> QED
        BY <3>1, ConcatProperties
    <2>4. free_list' \in [Class \cup {Large} -> Seq(malloced)]
      BY <1>8, <2>3 DEF FreePush, TypeOK, c
    <2>5. /\ pc' \in [Thread -> {"idle", "pop", "malloc", "stamp", "mark", "push"}]
          /\ hand' \in [Thread -> Block \cup {NULL}]
          /\ \A u \in Thread : pc'[u] \in {"stamp", "mark", "push"} <=> hand'[u] # NULL
          /\ \A u \in Thread : hand'[u] # NULL => hand'[u] \in malloced
      BY <1>8 DEF FreePush, TypeOK
    <2> QED
      BY <1>8, <2>4, <2>5 DEF FreePush, TypeOK, progVars
  <1>9. ASSUME NEW o \in owned, RefCreate(o)
        PROVE  TypeInv'
    <2>1. <<o[1], gen[o[1]]>> \in malloced \X (Nat \cup {FREED})
      BY DEF TypeOK
    <2> QED
      BY <1>9, <2>1 DEF RefCreate, TypeOK, memVars
  <1>10. CASE UNCHANGED vars
    BY <1>10 DEF vars, TypeOK, memVars, progVars
  <1> QED
    BY <1>1, <1>2, <1>3, <1>4, <1>5, <1>6, <1>7, <1>8, <1>9, <1>10
    DEF Next, OutOfMemory, DerefFails

\* The fields of the headers, lists and calls hold values of their types.
THEOREM TypeCorrect == Spec => []TypeOK
  <1>1. TypeInv => TypeOK
    BY DEF TypeInv
  <1> QED
    BY <1>1, InitTypeInv, NextTypeInv, PTL DEF Spec

-----------------------------------------------------------------------------
(* Stale references *)

\* The lifetimes that were stamped lie below the epoch, and none is both the
\* program's and freed.
LifetimesApart ==
  /\ \A o \in owned \cup freed : o[2] < epoch
  /\ owned \cap freed = {}

\* A block that is not marked carries the generation of a lifetime the program
\* owns, unless a run_gen_free is about to mark it.
UnmarkedIsOwned ==
  \A b \in malloced :
    gen[b] # FREED => \/ <<b, gen[b]>> \in owned
                     \/ \E t \in Thread : pc[t] = "mark" /\ hand[t] = b

StaleInv == TypeInv /\ LifetimesApart /\ UnmarkedIsOwned

LEMMA StampKeepsApart ==
  ASSUME StaleInv, NEW t \in Thread, NEW b \in Block, Stamp(t, b),
         malloced' \subseteq malloced \cup {b}, pc[t] # "mark"
  PROVE  LifetimesApart' /\ UnmarkedIsOwned'
  <1> USE DEF StaleInv, TypeInv, TypeOK
  <1>1. LifetimesApart'
    <2>1. \A o \in owned \cup freed : o[2] \in Nat /\ o[2] < epoch
      BY DEF LifetimesApart
    <2>2. owned' = owned \cup {<<b, epoch>>} /\ freed' = freed /\ epoch' = epoch + 1
      BY DEF Stamp
    <2>3. <<b, epoch>>[2] = epoch /\ <<b, epoch>> \notin freed
      BY <2>1
    <2> QED
      BY <2>1, <2>2, <2>3 DEF LifetimesApart
  <1>2. UnmarkedIsOwned'
    <2> SUFFICES ASSUME NEW x \in malloced', gen'[x] # FREED
                 PROVE  \/ <<x, gen'[x]>> \in owned'
                        \/ \E u \in Thread : pc'[u] = "mark" /\ hand'[u] = x
      BY DEF UnmarkedIsOwned
    <2>1. CASE x = b
      BY <2>1 DEF Stamp
    <2>2. CASE x # b
      <3>1. x \in malloced /\ gen'[x] = gen[x] /\ owned \subseteq owned'
        BY <2>2 DEF Stamp
      <3>2. \A u \in Thread : pc[u] = "mark" => pc'[u] = "mark" /\ hand'[u] = hand[u]
        BY DEF Stamp
      <3> QED
        BY <3>1, <3>2 DEF UnmarkedIsOwned
    <2> QED
      BY <2>1, <2>2
  <1> QED
    BY <1>1, <1>2

LEMMA NextStaleInv == StaleInv /\ [Next]_vars => StaleInv'
  <1> SUFFICES ASSUME StaleInv, [Next]_vars PROVE LifetimesApart' /\ UnmarkedIsOwned'
    BY NextTypeInv DEF StaleInv
  <1> USE DEF StaleInv, TypeInv
  <1>1. ASSUME UNCHANGED <<owned, freed, epoch, gen, malloced>>,
               \A u \in Thread : pc[u] = "mark" => pc'[u] = "mark" /\ hand'[u] = hand[u]
        PROVE  LifetimesApart' /\ UnmarkedIsOwned'
    BY <1>1 DEF LifetimesApart, UnmarkedIsOwned
  <1>2. ASSUME NEW t \in Thread, NEW n \in Size, NEW strict \in BOOLEAN, AllocBegin(t, n, strict)
        PROVE  LifetimesApart' /\ UnmarkedIsOwned'
    BY <1>1, <1>2 DEF AllocBegin, memVars, progVars, TypeOK
  <1>3. ASSUME NEW t \in Thread, AllocPop(t)
        PROVE  LifetimesApart' /\ UnmarkedIsOwned'
    <2>1. \A u \in Thread : pc[u] = "mark" => pc'[u] = "mark" /\ hand'[u] = hand[u]
      BY <1>3 DEF AllocPop, TypeOK
    <2> QED
      BY <1>1, <1>3, <2>1 DEF AllocPop, progVars
  <1>4. ASSUME NEW t \in Thread, AllocRecycled(t)
        PROVE  LifetimesApart' /\ UnmarkedIsOwned'
    <2>1. hand[t] \in Block /\ malloced' = malloced
      BY <1>4 DEF AllocRecycled, TypeOK, HandMalloced
    <2> QED
      BY <1>4, <2>1, StampKeepsApart DEF AllocRecycled
  <1>5. ASSUME NEW t \in Thread, AllocFresh(t)
        PROVE  LifetimesApart' /\ UnmarkedIsOwned'
    <2>1. PICK b \in Block \ malloced : malloced' = malloced \cup {b} /\ Stamp(t, b)
      BY <1>5 DEF AllocFresh
    <2> QED
      BY <1>5, <2>1, StampKeepsApart DEF AllocFresh
  <1>6. ASSUME Abort PROVE LifetimesApart' /\ UnmarkedIsOwned'
    BY <1>1, <1>6 DEF Abort, memVars, progVars
  <1>7. ASSUME NEW t \in Thread, NEW o \in owned \cup freed, FreeCheck(t, o)
        PROVE  LifetimesApart' /\ UnmarkedIsOwned'
    <2>1. CASE gen[o[1]] = FREED
      BY <1>6, <1>7, <2>1 DEF FreeCheck
    <2>2. CASE gen[o[1]] # FREED
      <3>1. /\ pc[t] = "idle"
            /\ pc' = [pc EXCEPT ![t] = "mark"] /\ hand' = [hand EXCEPT ![t] = o[1]]
            /\ owned' = owned \ {o} /\ freed' = freed \cup {o}
            /\ UNCHANGED <<epoch, gen, malloced>>
        BY <1>7, <2>2 DEF FreeCheck, memVars
      <3>2. LifetimesApart'
        BY <3>1 DEF LifetimesApart
      <3>3. \A u \in Thread : pc[u] = "mark" => pc'[u] = "mark" /\ hand'[u] = hand[u]
        BY <3>1 DEF TypeOK
      <3>4. pc'[t] = "mark" /\ hand'[t] = o[1]
        BY <3>1 DEF TypeOK
      <3>5. ASSUME NEW x \in malloced, x # o[1], <<x, gen[x]>> \in owned
            PROVE  <<x, gen[x]>> \in owned'
        BY <3>1, <3>5
      <3> QED
        BY <3>1, <3>2, <3>3, <3>4, <3>5 DEF UnmarkedIsOwned
    <2> QED
      BY <2>1, <2>2
  <1>8. ASSUME NEW t \in Thread, FreeMark(t)
        PROVE  LifetimesApart' /\ UnmarkedIsOwned'
    <2>1. LifetimesApart'
      BY <1>8 DEF FreeMark, LifetimesApart, progVars
    <2> SUFFICES ASSUME NEW x \in malloced, gen'[x] # FREED
                 PROVE  \/ <<x, gen'[x]>> \in owned'
                        \/ \E u \in Thread : pc'[u] = "mark" /\ hand'[u] = x
      BY <1>8, <2>1 DEF FreeMark, UnmarkedIsOwned
    <2>2. hand[t] \in Block /\ x \in Block
      BY <1>8 DEF FreeMark, TypeOK, HandMalloced
    <2>3. x # hand[t] /\ gen'[x] = gen[x] /\ owned' = owned
      BY <1>8, <2>2 DEF FreeMark, TypeOK, progVars
    <2>4. \A u \in Thread : pc[u] = "mark" /\ hand[u] = x => pc'[u] = "mark" /\ hand'[u] = x
      BY <1>8, <2>3 DEF FreeMark, TypeOK
    <2> QED
      BY <2>3, <2>4 DEF UnmarkedIsOwned
  <1>9. ASSUME NEW t \in Thread, FreePush(t)
        PROVE  LifetimesApart' /\ UnmarkedIsOwned'
    <2>1. \A u \in Thread : pc[u] = "mark" => pc'[u] = "mark" /\ hand'[u] = hand[u]
      BY <1>9 DEF FreePush, TypeOK
    <2> QED
      BY <1>1, <1>9, <2>1 DEF FreePush, progVars
  <1>10. ASSUME NEW o \in owned, RefCreate(o)
         PROVE  LifetimesApart' /\ UnmarkedIsOwned'
    BY <1>1, <1>10 DEF RefCreate, memVars
  <1>11. CASE UNCHANGED vars
    BY <1>1, <1>11 DEF vars, memVars, progVars
  <1> QED
    BY <1>2, <1>3, <1>4, <1>5, <1>6, <1>7, <1>8, <1>9, <1>10, <1>11
    DEF Next, OutOfMemory, DerefFails

\* "Stale references always fail": a reference passes its check only while the
\* lifetime it was created in is the program's and was never freed, or while a
\* free of its block is on the way to the mark.  It holds whatever the program
\* frees, once or again.
THEOREM StaleRefsFailAlways == Spec => []StaleRefsFail
  <1>1. Init => StaleInv
    <2>1. Init => LifetimesApart /\ UnmarkedIsOwned
      BY DEF Init, LifetimesApart, UnmarkedIsOwned
    <2> QED
      BY <2>1, InitTypeInv DEF StaleInv
  <1>2. StaleInv => StaleRefsFail
    <2> SUFFICES ASSUME StaleInv, NEW r \in refs, Passes(r)
                 PROVE  \/ r \in owned \ freed
                        \/ \E t \in Thread : pc[t] = "mark" /\ hand[t] = r[1]
      BY DEF StaleRefsFail
    <2>1. r[1] \in malloced /\ r = <<r[1], gen[r[1]]>> /\ gen[r[1]] # FREED
      BY DEF StaleInv, TypeInv, TypeOK, Passes
    <2>2. \/ r \in owned
          \/ \E t \in Thread : pc[t] = "mark" /\ hand[t] = r[1]
      BY <2>1 DEF StaleInv, UnmarkedIsOwned
    <2> QED
      BY <2>2 DEF StaleInv, LifetimesApart
  <1> QED
    BY <1>1, <1>2, NextStaleInv, PTL DEF Spec
-----------------------------------------------------------------------------
(* One place for every block *)

\* Lists in which no element is twice, and their elements.
EachOnce(L, F) ==
  \A c, d \in L : \A i \in DOMAIN F[c], j \in DOMAIN F[d] : F[c][i] = F[d][j] => c = d /\ i = j
InSome(L, F, b) == \E c \in L : \E i \in DOMAIN F[c] : F[c][i] = b

\* Only the list at c differs; its i-th element x was taken from it.
OthersAlike(L, F, G, c) == \A d \in L \ {c} : G[d] = F[d]
TakenOut(F, G, c, i, x) == i \in DOMAIN F[c] /\ F[c][i] = x /\ G[c] = RemoveAt(F[c], i)

\* Taking an element from one of such lists takes it from all of them.
LEMMA TakeOut ==
  ASSUME NEW S, NEW L, NEW F \in [L -> Seq(S)], NEW G \in [L -> Seq(S)],
         NEW c \in L, NEW i, NEW x, TakenOut(F, G, c, i, x), OthersAlike(L, F, G, c), EachOnce(L, F)
  PROVE  EachOnce(L, G) /\ \A b : InSome(L, G, b) <=> InSome(L, F, b) /\ b # x
  <1> USE DEF OthersAlike, TakenOut
  <1> DEFINE n == Len(F[c])
             old(d, j) == IF d = c /\ ~(j < i) THEN j + 1 ELSE j
  <1>1. n \in Nat /\ DOMAIN F[c] = 1 .. n /\ i \in 1 .. n
    BY LenProperties
  <1>2. /\ DOMAIN G[c] = 1 .. n - 1
        /\ \A j \in 1 .. n - 1 : G[c][j] = IF j < i THEN F[c][j] ELSE F[c][j + 1]
    <2>1. /\ RemoveAt(F[c], i) \in Seq(S)
          /\ Len(RemoveAt(F[c], i)) = n - 1
          /\ \A j \in 1 .. n - 1 : RemoveAt(F[c], i)[j] = IF j < i THEN F[c][j] ELSE F[c][j + 1]
      BY RemoveAtProperties
    <2> QED
      BY <2>1, LenProperties
  <1>3. \A d \in L : \A j \in DOMAIN F[d] : j \in Nat \ {0}
    <2> TAKE d \in L
    <2>1. Len(F[d]) \in Nat /\ DOMAIN F[d] = 1 .. Len(F[d])
      BY LenProperties
    <2> QED
      BY <2>1
  <1> HIDE DEF n
  <1>4. ASSUME NEW d \in L, NEW j \in DOMAIN G[d]
        PROVE  /\ old(d, j) \in DOMAIN F[d] /\ F[d][old(d, j)] = G[d][j]
               /\ ~(d = c /\ old(d, j) = i) /\ j \in Int
    <2>1. CASE d = c
      <3>1. j \in 1 .. n - 1
        BY <1>2, <2>1
      <3>2. j + 1 \in 1 .. n /\ j \in 1 .. n /\ j \in Int
        BY <1>1, <3>1
      <3>3. CASE j < i
        BY <1>1, <1>2, <2>1, <3>1, <3>2, <3>3
      <3>4. CASE ~(j < i)
        BY <1>1, <1>2, <2>1, <3>1, <3>2, <3>4
      <3> QED
        BY <3>3, <3>4
    <2>2. CASE d # c
      BY <1>3, <2>2
    <2> QED
      BY <2>1, <2>2
  <1>5. EachOnce(L, G)
    <2> SUFFICES ASSUME NEW d \in L, NEW e \in L, NEW j \in DOMAIN G[d], NEW k \in DOMAIN G[e],
                        G[d][j] = G[e][k]
                 PROVE  d = e /\ j = k
      BY DEF EachOnce
    <2>1. /\ old(d, j) \in DOMAIN F[d] /\ F[d][old(d, j)] = G[d][j] /\ j \in Int
          /\ old(e, k) \in DOMAIN F[e] /\ F[e][old(e, k)] = G[e][k] /\ k \in Int
      BY <1>4
    <2> HIDE DEF old
    <2>2. d = e /\ old(d, j) = old(e, k)
      BY <2>1 DEF EachOnce
    <2> QED
      BY <1>1, <2>1, <2>2 DEF old
  <1>6. ASSUME NEW b, InSome(L, G, b)
        PROVE  InSome(L, F, b) /\ b # x
    <2>0. PICK d \in L : \E j \in DOMAIN G[d] : G[d][j] = b
      BY <1>6 DEF InSome
    <2>1. PICK j \in DOMAIN G[d] : G[d][j] = b
      BY <2>0
    <2>2. /\ old(d, j) \in DOMAIN F[d] /\ F[d][old(d, j)] = b
          /\ ~(d = c /\ old(d, j) = i)
      BY <1>4, <2>1
    <2> HIDE DEF old
    <2> QED
      BY <2>2 DEF InSome, EachOnce
  <1>7. ASSUME NEW b, InSome(L, F, b), b # x
        PROVE  InSome(L, G, b)
    <2>0. PICK d \in L : \E j \in DOMAIN F[d] : F[d][j] = b
      BY <1>7 DEF InSome
    <2>1. PICK j \in DOMAIN F[d] : F[d][j] = b
      BY <2>0
    <2>2. CASE d # c
      BY <2>1, <2>2 DEF InSome
    <2>3. CASE d = c
      <3>1. j \in 1 .. n /\ j # i
        BY <1>1, <1>7, <2>1, <2>3
      <3>2. CASE j < i
        <4>1. j \in 1 .. n - 1
          BY <1>1, <3>1, <3>2
        <4> QED
          BY <1>2, <2>1, <2>3, <3>2, <4>1 DEF InSome
      <3>3. CASE ~(j < i)
        <4>1. j - 1 \in 1 .. n - 1 /\ ~(j - 1 < i) /\ (j - 1) + 1 = j
          BY <1>1, <3>1, <3>3
        <4>2. G[c][j - 1] = b
          BY <1>2, <2>1, <2>3, <4>1
        <4> QED
          BY <1>2, <4>1, <4>2 DEF InSome
      <3> QED
        BY <3>2, <3>3
    <2> QED
      BY <2>2, <2>3
  <1> QED
    BY <1>5, <1>6, <1>7

\* Putting an element that is on none of them at the head of one of such lists.
LEMMA PutIn ==
  ASSUME NEW S, NEW L, NEW F \in [L -> Seq(S)], NEW G \in [L -> Seq(S)],
         NEW c \in L, NEW x \in S, ~InSome(L, F, x),
         G[c] = <<x>> \o F[c], OthersAlike(L, F, G, c), EachOnce(L, F)
  PROVE  EachOnce(L, G) /\ \A b : InSome(L, G, b) <=> InSome(L, F, b) \/ b = x
  <1> USE DEF OthersAlike
  <1> DEFINE n == Len(F[c])
  <1>1. n \in Nat /\ DOMAIN F[c] = 1 .. n
    BY LenProperties
  <1>2. /\ DOMAIN G[c] = 1 .. n + 1 /\ G[c][1] = x
        /\ \A j \in 1 .. n : G[c][j + 1] = F[c][j]
    <2>1. /\ <<x>> \in Seq(S) /\ Len(<<x>>) = 1 /\ <<x>>[1] = x
      OBVIOUS
    <2>2. /\ Len(<<x>> \o F[c]) = 1 + n
          /\ \A j \in 1 .. 1 + n : (<<x>> \o F[c])[j] = IF j <= 1 THEN <<x>>[j] ELSE F[c][j - 1]
      BY <2>1, ConcatProperties
    <2>3. G[c] \in Seq(S) /\ Len(G[c]) = 1 + n
      BY <2>2
    <2>4. DOMAIN G[c] = 1 .. n + 1
      BY <1>1, <2>3, LenProperties
    <2> HIDE DEF n
    <2>5. \A j \in 1 .. n : j + 1 \in 1 .. 1 + n /\ ~(j + 1 <= 1) /\ (j + 1) - 1 = j
      BY <1>1
    <2>6. 1 \in 1 .. 1 + n
      BY <1>1
    <2> QED
      BY <2>1, <2>2, <2>4, <2>5, <2>6
  <1> HIDE DEF n
  <1>3. ASSUME NEW k \in DOMAIN G[c]
        PROVE  \/ k = 1
               \/ k # 1 /\ k - 1 \in DOMAIN F[c] /\ G[c][k] = F[c][k - 1] /\ k - 1 + 1 = k
    <2>1. k = 1 \/ (k - 1 \in 1 .. n /\ (k - 1) + 1 = k /\ k # 1)
      BY <1>1, <1>2
    <2> QED
      BY <1>1, <1>2, <2>1
  <1>4. \A d \in L : \A j \in DOMAIN F[d] : F[d][j] # x
    BY DEF InSome
  <1>5. EachOnce(L, G)
    <2> SUFFICES ASSUME NEW d \in L, NEW e \in L, NEW j \in DOMAIN G[d], NEW k \in DOMAIN G[e],
                        G[d][j] = G[e][k]
                 PROVE  d = e /\ j = k
      BY DEF EachOnce
    <2>1. CASE d # c /\ e # c
      BY <2>1 DEF EachOnce
    <2>2. CASE d = c /\ e # c
      <3>1. k \in DOMAIN F[e] /\ G[e][k] = F[e][k]
        BY <2>2
      <3>2. CASE j = 1
        BY <1>2, <1>4, <2>2, <3>1, <3>2
      <3>3. CASE j # 1
        <4>1. j - 1 \in DOMAIN F[c] /\ F[c][j - 1] = F[e][k]
          BY <1>3, <2>2, <3>1, <3>3
        <4>2. c = e
          BY <3>1, <4>1 DEF EachOnce
        <4> QED
          BY <2>2, <4>2
      <3> QED
        BY <3>2, <3>3
    <2>3. CASE d # c /\ e = c
      <3>1. j \in DOMAIN F[d] /\ G[d][j] = F[d][j]
        BY <2>3
      <3>2. CASE k = 1
        BY <1>2, <1>4, <2>3, <3>1, <3>2
      <3>3. CASE k # 1
        <4>1. k - 1 \in DOMAIN F[c] /\ F[d][j] = F[c][k - 1]
          BY <1>3, <2>3, <3>1, <3>3
        <4>2. d = c
          BY <3>1, <4>1 DEF EachOnce
        <4> QED
          BY <2>3, <4>2
      <3> QED
        BY <3>2, <3>3
    <2>4. CASE d = c /\ e = c
      <3>1. CASE j = 1 /\ k = 1
        BY <2>4, <3>1
      <3>2. CASE j = 1 /\ k # 1
        BY <1>2, <1>3, <1>4, <2>4, <3>2
      <3>3. CASE j # 1 /\ k = 1
        BY <1>2, <1>3, <1>4, <2>4, <3>3
      <3>4. CASE j # 1 /\ k # 1
        <4>1. /\ j - 1 \in DOMAIN F[c] /\ k - 1 \in DOMAIN F[c]
              /\ F[c][j - 1] = F[c][k - 1]
              /\ j - 1 + 1 = j /\ k - 1 + 1 = k
          BY <1>3, <2>4, <3>4
        <4>2. j - 1 = k - 1
          BY <4>1 DEF EachOnce
        <4> QED
          BY <2>4, <4>1, <4>2
      <3> QED
        BY <3>1, <3>2, <3>3, <3>4
    <2> QED
      BY <2>1, <2>2, <2>3, <2>4
  <1>6. ASSUME NEW b, InSome(L, G, b)
        PROVE  InSome(L, F, b) \/ b = x
    <2>0. PICK d \in L : \E j \in DOMAIN G[d] : G[d][j] = b
      BY <1>6 DEF InSome
    <2>1. PICK j \in DOMAIN G[d] : G[d][j] = b
      BY <2>0
    <2>2. CASE d # c
      BY <2>1, <2>2 DEF InSome
    <2>3. CASE d = c
      BY <1>2, <1>3, <2>1, <2>3 DEF InSome
    <2> QED
      BY <2>2, <2>3
  <1>7. ASSUME NEW b, InSome(L, F, b)
        PROVE  InSome(L, G, b)
    <2>0. PICK d \in L : \E j \in DOMAIN F[d] : F[d][j] = b
      BY <1>7 DEF InSome
    <2>1. PICK j \in DOMAIN F[d] : F[d][j] = b
      BY <2>0
    <2>2. CASE d # c
      BY <2>1, <2>2 DEF InSome
    <2>3. CASE d = c
      <3>1. j \in 1 .. n /\ j + 1 \in 1 .. n + 1
        BY <1>1, <2>1, <2>3
      <3> QED
        BY <1>2, <2>1, <2>3, <3>1 DEF InSome
    <2> QED
      BY <2>2, <2>3
  <1>8. InSome(L, G, x)
    <2>1. 1 \in 1 .. n + 1
      BY <1>1
    <2> QED
      BY <1>2, <2>1 DEF InSome
  <1> QED
    BY <1>5, <1>6, <1>7, <1>8

\* The three places.
Lists == Class \cup {Large}
InHands(b) == \E t \in Thread : hand[t] = b
IsOwned(b) == \E o \in owned : o[1] = b
OnList(b) == InSome(Lists, free_list, b)

HeldOnce == \A t, u \in Thread : hand[t] # NULL /\ hand[t] = hand[u] => t = u
OwnedOnce == \A o, p \in owned : o[1] = p[1] => o = p
ListedOnce == EachOnce(Lists, free_list)

\* A block is in one of the places, and in one only.
Placed ==
  \A b \in malloced : /\ InHands(b) \/ IsOwned(b) \/ OnList(b)
                      /\ ~(InHands(b) /\ IsOwned(b))
                      /\ ~(InHands(b) /\ OnList(b))
                      /\ ~(IsOwned(b) /\ OnList(b))

PlaceInv ==
  TypeInv /\ HeldOnce /\ OwnedOnce /\ ListedOnce /\ Placed /\ LiveRefsPass

LEMMA BlocksAreReal ==
  ASSUME TypeInv
  PROVE  /\ \A b \in malloced : b \in Block /\ b # NULL
         /\ \A o \in owned : o[1] \in malloced /\ o[2] \in Nat /\ o = <<o[1], o[2]>>
         /\ free_list \in [Lists -> Seq(malloced)]
         /\ \A b : OnList(b) => b \in malloced
  <1>1. \A b \in malloced : b \in Block /\ b # NULL
    BY GenAllocAssumption DEF TypeInv, TypeOK
  <1>2. \A o \in owned : o[1] \in malloced /\ o[2] \in Nat /\ o = <<o[1], o[2]>>
    BY DEF TypeInv, TypeOK
  <1>3. free_list \in [Lists -> Seq(malloced)]
    BY DEF TypeInv, TypeOK, Lists
  <1>4. ASSUME NEW c \in Lists, NEW i \in DOMAIN free_list[c]
        PROVE  free_list[c][i] \in malloced
    BY <1>3, ElementOfSeq, LenProperties
  <1> QED
    BY <1>1, <1>2, <1>3, <1>4 DEF OnList, InSome

\* A step that leaves the blocks where they are.
LEMMA StillPlaced ==
  ASSUME PlaceInv, UNCHANGED <<gen, hand, owned, free_list, malloced>>
  PROVE  HeldOnce' /\ OwnedOnce' /\ ListedOnce' /\ Placed' /\ LiveRefsPass'
  BY DEF PlaceInv, HeldOnce, OwnedOnce, ListedOnce, Placed, LiveRefsPass, InHands, IsOwned, OnList,
         EachOnce, InSome

\* A block that no one else has becomes the program's.
LEMMA StampPlaces ==
  ASSUME PlaceInv, NEW t \in Thread, NEW b \in Block, Stamp(t, b),
         ~IsOwned(b), ~OnList(b), hand[t] \in {b, NULL},
         \A u \in Thread : hand[u] = b => u = t, malloced' = malloced \cup {b}
  PROVE  HeldOnce' /\ OwnedOnce' /\ ListedOnce' /\ Placed' /\ LiveRefsPass'
  <1> USE DEF PlaceInv
  <1>1. /\ owned' = owned \cup {<<b, epoch>>}
        /\ hand' = [hand EXCEPT ![t] = NULL]
        /\ gen' = [gen EXCEPT ![b] = epoch]
        /\ free_list' = free_list
    BY DEF Stamp
  <1>2. b # NULL /\ epoch \in Nat \ {0} /\ hand \in [Thread -> Block \cup {NULL}]
        /\ gen \in [Block -> Nat \cup {FREED}]
    BY GenAllocAssumption DEF TypeInv, TypeOK
  <1>3. \A o \in owned : o[1] # b
    BY DEF IsOwned
  <1>4. hand'[t] = NULL /\ \A u \in Thread \ {t} : hand'[u] = hand[u] /\ hand[u] # b
    BY <1>1, <1>2
  <1>5. HeldOnce'
    BY <1>4 DEF HeldOnce
  <1>6. OwnedOnce'
    BY <1>1, <1>3 DEF OwnedOnce
  <1>7. ListedOnce'
    BY <1>1 DEF ListedOnce, EachOnce
  <1>8. Placed'
    <2> SUFFICES ASSUME NEW x \in malloced'
                 PROVE  /\ InHands(x)' \/ IsOwned(x)' \/ OnList(x)'
                        /\ ~(InHands(x)' /\ IsOwned(x)')
                        /\ ~(InHands(x)' /\ OnList(x)')
                        /\ ~(IsOwned(x)' /\ OnList(x)')
      BY DEF Placed
    <2>1. x # NULL
      BY <1>2, BlocksAreReal
    <2>2. InHands(x)' <=> InHands(x) /\ x # b
      BY <1>4, <2>1 DEF InHands
    <2>3. IsOwned(x)' <=> IsOwned(x) \/ x = b
      <3>1. <<b, epoch>>[1] = b /\ \A o : o \in owned' <=> o \in owned \/ o = <<b, epoch>>
        BY <1>1
      <3> QED
        BY <3>1 DEF IsOwned
    <2>4. OnList(x)' <=> OnList(x)
      BY <1>1 DEF OnList, InSome
    <2>5. CASE x = b
      BY <2>2, <2>3, <2>4, <2>5
    <2>6. CASE x # b
      <3>1. x \in malloced
        BY <2>6
      <3> QED
        BY <2>2, <2>3, <2>4, <2>6, <3>1 DEF Placed
    <2> QED
      BY <2>5, <2>6
  <1>9. LiveRefsPass'
    <2> SUFFICES ASSUME NEW o \in owned'
                 PROVE  gen'[o[1]] = o[2] /\ o[2] # 0
      BY DEF LiveRefsPass
    <2>1. CASE o = <<b, epoch>>
      BY <1>1, <1>2, <2>1
    <2>2. CASE o \in owned
      BY <1>1, <1>2, <1>3, <2>2, BlocksAreReal DEF LiveRefsPass
    <2> QED
      BY <1>1, <2>1, <2>2
  <1> QED
    BY <1>5, <1>6, <1>7, <1>8, <1>9

LEMMA NextPlaceInv ==
  ASSUME ~FreeAgain, PlaceInv, [Next]_vars
  PROVE  PlaceInv'
  <1> DEFINE Kept == HeldOnce' /\ OwnedOnce' /\ ListedOnce' /\ Placed' /\ LiveRefsPass'
  <1> SUFFICES Kept
    BY NextTypeInv DEF PlaceInv
  <1> USE DEF PlaceInv
  <1>1. /\ \A b \in malloced : b \in Block /\ b # NULL
        /\ \A o \in owned : o[1] \in malloced /\ o[2] \in Nat /\ o = <<o[1], o[2]>>
        /\ free_list \in [Lists -> Seq(malloced)]
        /\ \A b : OnList(b) => b \in malloced
    BY BlocksAreReal
  <1>2. ASSUME NEW t \in Thread, NEW n \in Size, NEW strict \in BOOLEAN, AllocBegin(t, n, strict)
        PROVE  Kept
    BY <1>2, StillPlaced DEF AllocBegin, memVars, progVars
  <1>3. ASSUME NEW t \in Thread, AllocPop(t)
        PROVE  Kept
    <2> DEFINE c == SizeClass(want[t].size)
    <2>1. c \in Lists
      BY SizeClassType DEF TypeInv, TypeOK, Lists
    <2> HIDE DEF c
    <2>2. ASSUME UNCHANGED <<free_list, hand>>
          PROVE  Kept
      BY <1>3, <2>2, StillPlaced DEF AllocPop, progVars
    <2>3. ASSUME NEW i \in DOMAIN free_list[c],
                 free_list' = [free_list EXCEPT ![c] = RemoveAt(@, i)],
                 hand' = [hand EXCEPT ![t] = free_list[c][i]]
          PROVE  Kept
      <3> DEFINE x == free_list[c][i]
      <3>1. /\ pc[t] = "pop" /\ hand \in [Thread -> Block \cup {NULL}] /\ hand[t] = NULL
            /\ UNCHANGED <<gen, owned, malloced>>
        BY <1>3 DEF AllocPop, TypeInv, TypeOK, progVars
      <3>2. OnList(x)
        BY <2>1 DEF OnList, InSome
      <3>3. x \in malloced /\ ~InHands(x) /\ ~IsOwned(x)
        BY <1>1, <3>2 DEF Placed
      <3>4. hand' = [hand EXCEPT ![t] = x]
        BY <2>3
      <3>5. /\ free_list' \in [Lists -> Seq(malloced)]
            /\ free_list'[c] = RemoveAt(free_list[c], i)
            /\ \A d \in Lists \ {c} : free_list'[d] = free_list[d]
        <4>1. free_list[c] \in Seq(malloced)
          BY <1>1, <2>1
        <4>2. RemoveAt(free_list[c], i) \in Seq(malloced)
          BY <4>1, RemoveAtProperties
        <4> QED
          BY <1>1, <2>1, <2>3, <4>2
      <3>6. /\ EachOnce(Lists, free_list')
            /\ \A b : InSome(Lists, free_list', b) <=> InSome(Lists, free_list, b) /\ b # x
        <4> DEFINE G == free_list'
        <4>1. /\ G \in [Lists -> Seq(malloced)]
              /\ G[c] = RemoveAt(free_list[c], i)
              /\ OthersAlike(Lists, free_list, G, c)
          BY <3>5 DEF OthersAlike
        <4> HIDE DEF G
        <4>2. /\ EachOnce(Lists, G)
              /\ \A b : InSome(Lists, G, b) <=> InSome(Lists, free_list, b) /\ b # x
          <5>1. EachOnce(Lists, free_list) /\ TakenOut(free_list, G, c, i, x)
            BY <4>1 DEF ListedOnce, TakenOut
          <5> HIDE DEF x
          <5> QED
            BY <1>1, <2>1, <4>1, <5>1, TakeOut
        <4> QED
          BY <4>2 DEF G
      <3> HIDE DEF x
      <3>7. ListedOnce' /\ \A b : OnList(b)' <=> OnList(b) /\ b # x
        BY <3>6 DEF ListedOnce, OnList, Lists, EachOnce, InSome
      <3>8. \A b \in malloced : InHands(b)' <=> InHands(b) \/ b = x
        BY <1>1, <3>1, <3>4 DEF InHands
      <3>9. HeldOnce'
        BY <3>1, <3>3, <3>4 DEF HeldOnce, InHands
      <3>10. OwnedOnce' /\ LiveRefsPass'
        BY <3>1 DEF OwnedOnce, LiveRefsPass
      <3>11. \A b : IsOwned(b)' <=> IsOwned(b)
        BY <3>1 DEF IsOwned
      <3>12. Placed'
        BY <3>1, <3>2, <3>3, <3>7, <3>8, <3>11 DEF Placed
      <3> QED
        BY <3>7, <3>9, <3>10, <3>12
    <2> QED
      BY <1>3, <2>2, <2>3 DEF AllocPop, c
  <1>4. ASSUME NEW t \in Thread, AllocRecycled(t)
        PROVE  Kept
    <2>1. hand[t] \in malloced /\ hand[t] # NULL /\ malloced' = malloced /\ Stamp(t, hand[t])
      BY <1>4 DEF AllocRecycled, TypeInv, TypeOK, HandMalloced
    <2>2. InHands(hand[t])
      BY DEF InHands
    <2>3. ~IsOwned(hand[t]) /\ ~OnList(hand[t])
      BY <2>1, <2>2 DEF Placed
    <2>4. \A u \in Thread : hand[u] = hand[t] => u = t
      BY <2>1 DEF HeldOnce
    <2>5. hand[t] \in Block /\ malloced' = malloced \cup {hand[t]}
      BY <1>1, <2>1
    <2> QED
      BY <2>1, <2>3, <2>4, <2>5, StampPlaces
  <1>5. ASSUME NEW t \in Thread, AllocFresh(t)
        PROVE  Kept
    <2>1. PICK b \in Block \ malloced : malloced' = malloced \cup {b} /\ Stamp(t, b)
      BY <1>5 DEF AllocFresh
    <2>2. hand[t] = NULL /\ b # NULL
      BY <1>5, GenAllocAssumption DEF AllocFresh, TypeInv, TypeOK
    <2>3. ~IsOwned(b) /\ ~OnList(b)
      BY <1>1, <2>1 DEF IsOwned
    <2>4. \A u \in Thread : hand[u] # b
      BY <2>1, <2>2 DEF TypeInv, HandMalloced
    <2> QED
      BY <2>1, <2>2, <2>3, <2>4, StampPlaces
  <1>6. ASSUME Abort PROVE Kept
    BY <1>6, StillPlaced DEF Abort, memVars, progVars
  <1>7. ASSUME NEW t \in Thread, NEW o \in owned \cup freed, FreeCheck(t, o)
        PROVE  Kept
    <2>1. CASE gen[o[1]] = FREED
      BY <1>6, <1>7, <2>1 DEF FreeCheck
    <2>2. CASE gen[o[1]] # FREED
      <3> DEFINE x == o[1]
      <3>1. /\ o \in owned /\ pc[t] = "idle"
            /\ hand' = [hand EXCEPT ![t] = x] /\ owned' = owned \ {o}
            /\ UNCHANGED <<gen, malloced, free_list>>
        BY <1>7, <2>2 DEF FreeCheck, memVars
      <3>2. hand \in [Thread -> Block \cup {NULL}] /\ hand[t] = NULL
        BY <3>1 DEF TypeInv, TypeOK
      <3>3. x \in malloced /\ IsOwned(x) /\ ~InHands(x) /\ ~OnList(x)
        BY <1>1, <3>1 DEF Placed, IsOwned
      <3>4. \A p \in owned : p # o => p[1] # x
        BY <3>1 DEF OwnedOnce
      <3> HIDE DEF x
      <3>5. \A b : IsOwned(b)' <=> IsOwned(b) /\ b # x
        BY <3>1, <3>4 DEF IsOwned, x
      <3>6. \A b \in malloced : InHands(b)' <=> InHands(b) \/ b = x
        BY <1>1, <3>1, <3>2 DEF InHands
      <3>7. ListedOnce' /\ \A b : OnList(b)' <=> OnList(b)
        BY <3>1 DEF ListedOnce, EachOnce, OnList, InSome
      <3>8. HeldOnce'
        BY <3>1, <3>2, <3>3 DEF HeldOnce, InHands
      <3>9. OwnedOnce' /\ LiveRefsPass'
        BY <3>1 DEF OwnedOnce, LiveRefsPass
      <3>10. Placed'
        BY <3>1, <3>3, <3>5, <3>6, <3>7 DEF Placed
      <3> QED
        BY <3>7, <3>8, <3>9, <3>10
    <2> QED
      BY <2>1, <2>2
  <1>8. ASSUME NEW t \in Thread, FreeMark(t)
        PROVE  Kept
    <2>1. /\ gen' = [gen EXCEPT ![hand[t]] = FREED]
          /\ UNCHANGED <<hand, owned, free_list, malloced>>
      BY <1>8 DEF FreeMark, progVars
    <2>2. HeldOnce' /\ OwnedOnce' /\ ListedOnce' /\ Placed'
      BY <2>1 DEF HeldOnce, OwnedOnce, ListedOnce, Placed, InHands, IsOwned, OnList, EachOnce,
                  InSome
    <2>3. LiveRefsPass'
      <3> SUFFICES ASSUME NEW o \in owned PROVE gen'[o[1]] = o[2] /\ o[2] # 0
        BY <2>1 DEF LiveRefsPass
      <3>1. o[1] \in malloced /\ o[1] \in Block /\ IsOwned(o[1])
        BY <1>1 DEF IsOwned
      <3>2. o[1] # hand[t]
        BY <3>1 DEF Placed, InHands
      <3>3. gen'[o[1]] = gen[o[1]]
        BY <2>1, <3>1, <3>2 DEF TypeInv, TypeOK
      <3> QED
        BY <3>3 DEF LiveRefsPass
    <2> QED
      BY <2>2, <2>3
  <1>9. ASSUME NEW t \in Thread, FreePush(t)
        PROVE  Kept
    <2> DEFINE x == hand[t]
               c == SizeClass(capacity[x])
    <2>1. /\ pc[t] = "push"
          /\ free_list' = [free_list EXCEPT ![c] = <<x>> \o @]
          /\ hand' = [hand EXCEPT ![t] = NULL]
          /\ UNCHANGED <<gen, malloced, owned>>
      BY <1>9 DEF FreePush, progVars
    <2>2. /\ hand \in [Thread -> Block \cup {NULL}] /\ x # NULL /\ x \in malloced /\ x \in Block
          /\ capacity[x] \in Nat
      BY <1>9 DEF FreePush, TypeInv, TypeOK, HandMalloced
    <2>3. c \in Lists
      BY <2>2, SizeClassType DEF Lists
    <2>4. InHands(x)
      BY DEF InHands
    <2>5. ~IsOwned(x) /\ ~OnList(x)
      BY <2>2, <2>4 DEF Placed
    <2>6. \A u \in Thread : u # t => hand[u] # x
      BY <2>2 DEF HeldOnce
    <2> HIDE DEF x, c
    <2>7. /\ free_list' \in [Lists -> Seq(malloced)]
          /\ free_list'[c] = <<x>> \o free_list[c]
          /\ \A d \in Lists \ {c} : free_list'[d] = free_list[d]
      <3>1. <<x>> \in Seq(malloced) /\ free_list[c] \in Seq(malloced)
        BY <1>1, <2>2, <2>3
      <3>2. <<x>> \o free_list[c] \in Seq(malloced)
        BY <3>1, ConcatProperties
      <3> QED
        BY <1>1, <2>1, <2>3, <3>2
    <2>8. /\ EachOnce(Lists, free_list')
          /\ \A b : InSome(Lists, free_list', b) <=> InSome(Lists, free_list, b) \/ b = x
      <3> DEFINE G == free_list'
      <3>1. /\ G \in [Lists -> Seq(malloced)]
            /\ G[c] = <<x>> \o free_list[c]
            /\ OthersAlike(Lists, free_list, G, c)
        BY <2>7 DEF OthersAlike
      <3> HIDE DEF G
      <3>2. /\ EachOnce(Lists, G)
            /\ \A b : InSome(Lists, G, b) <=> InSome(Lists, free_list, b) \/ b = x
        <4>1. EachOnce(Lists, free_list) /\ ~InSome(Lists, free_list, x)
          BY <2>5 DEF ListedOnce, OnList
        <4> QED
          BY <1>1, <2>2, <2>3, <3>1, <4>1, PutIn
      <3> QED
        BY <3>2 DEF G
    <2>9. ListedOnce' /\ \A b : OnList(b)' <=> OnList(b) \/ b = x
      BY <2>8 DEF ListedOnce, OnList, Lists, EachOnce, InSome
    <2>10. hand'[t] = NULL /\ \A u \in Thread \ {t} : hand'[u] = hand[u] /\ hand[u] # x
      BY <2>1, <2>2, <2>6
    <2>11. hand[t] = x
      BY DEF x
    <2>12. \A b \in malloced : InHands(b)' <=> InHands(b) /\ b # x
      BY <1>1, <2>10, <2>11 DEF InHands
    <2>13. HeldOnce'
      BY <2>10 DEF HeldOnce
    <2>14. OwnedOnce' /\ LiveRefsPass'
      BY <2>1 DEF OwnedOnce, LiveRefsPass
    <2>15. \A b : IsOwned(b)' <=> IsOwned(b)
      BY <2>1 DEF IsOwned
    <2>16. Placed'
      BY <2>1, <2>4, <2>5, <2>9, <2>12, <2>15 DEF Placed
    <2> QED
      BY <2>9, <2>13, <2>14, <2>16
  <1>10. ASSUME NEW o \in owned, RefCreate(o)
         PROVE  Kept
    BY <1>10, StillPlaced DEF RefCreate, memVars
  <1>11. CASE UNCHANGED vars
    BY <1>11, StillPlaced DEF vars, memVars, progVars
  <1> HIDE DEF Kept
  <1> QED
    BY <1>2, <1>3, <1>4, <1>5, <1>6, <1>7, <1>8, <1>9, <1>10, <1>11
    DEF Next, OutOfMemory, DerefFails

LEMMA InitPlaceInv == Init => PlaceInv
  <1> SUFFICES ASSUME Init PROVE HeldOnce /\ OwnedOnce /\ ListedOnce /\ Placed /\ LiveRefsPass
    BY InitTypeInv DEF PlaceInv
  <1>1. \A c \in Lists : free_list[c] = <<>>
    BY DEF Init, Lists
  <1>2. ListedOnce
    BY <1>1, EmptySeq DEF ListedOnce, EachOnce
  <1> QED
    BY <1>2 DEF Init, HeldOnce, OwnedOnce, Placed, LiveRefsPass

\* "Every live allocation gets a unique generation", which its block keeps while
\* the program has not freed it: provided that programs free a pointer once, a
\* reference to what the program owns passes its check, whatever the other
\* threads allocate, recycle and free.
THEOREM LiveRefsPassAlways ==
  ASSUME ~FreeAgain
  PROVE  Spec => []LiveRefsPass
  <1>1. PlaceInv /\ [Next]_vars => PlaceInv'
    BY NextPlaceInv
  <1>2. PlaceInv => LiveRefsPass
    BY DEF PlaceInv
  <1> QED
    BY <1>1, <1>2, InitPlaceInv, PTL DEF Spec

\* run_gen_alloc_aligned and run_gen_free neither leak a block nor give it to
\* two callers: provided that programs free a pointer once, every block from
\* malloc is one lifetime of the program's, in the hands of one call, or on one
\* free list, once.
THEOREM BlockInOnePlaceAlways ==
  ASSUME ~FreeAgain
  PROVE  Spec => []BlockInOnePlace
  <1>1. PlaceInv /\ [Next]_vars => PlaceInv'
    BY NextPlaceInv
  <1>2. PlaceInv => BlockInOnePlace
    <2> SUFFICES ASSUME PlaceInv, NEW b \in malloced
                 PROVE  Cardinality({o \in owned : o[1] = b})
                          + Cardinality({t \in Thread : hand[t] = b})
                          + Cardinality(Listed(b)) = 1
      BY DEF BlockInOnePlace
    <2>1. /\ InHands(b) \/ IsOwned(b) \/ OnList(b)
          /\ ~(InHands(b) /\ IsOwned(b))
          /\ ~(InHands(b) /\ OnList(b))
          /\ ~(IsOwned(b) /\ OnList(b))
          /\ b # NULL
      BY BlocksAreReal DEF PlaceInv, Placed
    <2>2. Cardinality({o \in owned : o[1] = b}) = IF IsOwned(b) THEN 1 ELSE 0
      <3>1. CASE IsOwned(b)
        <4>1. PICK o \in owned : o[1] = b
          BY <3>1 DEF IsOwned
        <4>2. {p \in owned : p[1] = b} = {o}
          BY <4>1 DEF PlaceInv, OwnedOnce
        <4> QED
          BY <3>1, <4>2, FS_Singleton
      <3>2. CASE ~IsOwned(b)
        <4>1. {o \in owned : o[1] = b} = {}
          BY <3>2 DEF IsOwned
        <4> QED
          BY <3>2, <4>1, FS_EmptySet
      <3> QED
        BY <3>1, <3>2
    <2>3. Cardinality({t \in Thread : hand[t] = b}) = IF InHands(b) THEN 1 ELSE 0
      <3>1. CASE InHands(b)
        <4>1. PICK t \in Thread : hand[t] = b
          BY <3>1 DEF InHands
        <4>2. {u \in Thread : hand[u] = b} = {t}
          BY <2>1, <4>1 DEF PlaceInv, HeldOnce
        <4> QED
          BY <3>1, <4>2, FS_Singleton
      <3>2. CASE ~InHands(b)
        <4>1. {t \in Thread : hand[t] = b} = {}
          BY <3>2 DEF InHands
        <4> QED
          BY <3>2, <4>1, FS_EmptySet
      <3> QED
        BY <3>1, <3>2
    <2>4. Cardinality(Listed(b)) = IF OnList(b) THEN 1 ELSE 0
      <3>1. \A p : p \in Listed(b) <=> \E c \in Lists : \E i \in DOMAIN free_list[c] :
                                           free_list[c][i] = b /\ p = <<c, i>>
        BY DEF Listed, Lists
      <3>2. CASE OnList(b)
        <4>1. PICK c \in Lists : \E i \in DOMAIN free_list[c] : free_list[c][i] = b
          BY <3>2 DEF OnList, InSome
        <4>2. PICK i \in DOMAIN free_list[c] : free_list[c][i] = b
          BY <4>1
        <4>3. \A d \in Lists : \A j \in DOMAIN free_list[d] :
                free_list[d][j] = b => d = c /\ j = i
          BY <4>2 DEF PlaceInv, ListedOnce, EachOnce
        <4>4. <<c, i>> \in Listed(b) /\ \A p \in Listed(b) : p = <<c, i>>
          BY <3>1, <4>2, <4>3
        <4>5. Listed(b) = {<<c, i>>}
          BY <4>4
        <4> QED
          BY <3>2, <4>5, FS_Singleton
      <3>3. CASE ~OnList(b)
        <4>1. Listed(b) = {}
          BY <3>1, <3>3 DEF OnList, InSome
        <4> QED
          BY <3>3, <4>1, FS_EmptySet
      <3> QED
        BY <3>2, <3>3
    <2> QED
      BY <2>1, <2>2, <2>3, <2>4
  <1> QED
    BY <1>1, <1>2, InitPlaceInv, PTL DEF Spec

-----------------------------------------------------------------------------
(* Sizes *)

\* run_size_class finds room for the size in a class, and gives a class its own size.
LEMMA SizeClassFits ==
  ASSUME NEW n \in Nat
  PROVE  /\ SizeClass(n) # Large => SizeClass(n) \in Class /\ n <= SizeClass(n)
         /\ SizeClass(n) = Large => \A c \in Class : c < n
         /\ n \in Class => SizeClass(n) = n
  <1> DEFINE T == {c \in Class : n <= c}
  <1>1. Class \subseteq Nat \ {0} /\ Large = 0
    BY GenAllocAssumption DEF Large
  <1>2. CASE \E c \in Class : n <= c
    <2>1. T \subseteq Nat /\ T # {}
      BY <1>1, <1>2
    <2> HIDE DEF T
    <2>2. PICK x \in T : \A y \in T : x <= y
      BY <2>1, LeastOfSet
    <2>3. \E c \in Class : n <= c /\ \A d \in Class : n <= d => c <= d
      BY <2>2 DEF T
    <2>4. /\ SizeClass(n) \in Class /\ n <= SizeClass(n)
          /\ \A d \in Class : n <= d => SizeClass(n) <= d
      BY <1>2, <2>3 DEF SizeClass
    <2>5. SizeClass(n) # Large
      BY <1>1, <2>4
    <2>6. ASSUME n \in Class PROVE SizeClass(n) = n
      <3> DEFINE m == SizeClass(n)
      <3>1. m \in Nat /\ n <= m
        BY <1>1, <2>4
      <3>2. n <= n
        OBVIOUS
      <3>3. m <= n
        BY <2>4, <2>6, <3>2, Zenon
      <3> HIDE DEF m
      <3>4. m = n
        BY <3>1, <3>3
      <3> QED
        BY <3>4 DEF m
    <2> QED
      BY <2>4, <2>5, <2>6
  <1>3. CASE ~ \E c \in Class : n <= c
    <2>1. SizeClass(n) = Large
      BY <1>3 DEF SizeClass
    <2>2. \A c \in Class : c < n
      BY <1>1, <1>3
    <2>3. n \notin Class
      BY <2>2
    <2> QED
      BY <2>1, <2>2, <2>3
  <1> QED
    BY <1>2, <1>3

\* A list has no more elements than it had, but for one that was put in.
LEMMA ElementsKept ==
  ASSUME NEW S, NEW s \in Seq(S)
  PROVE  /\ \A i \in DOMAIN s : \A k \in DOMAIN RemoveAt(s, i) :
              \E j \in DOMAIN s : RemoveAt(s, i)[k] = s[j]
         /\ \A x \in S : \A k \in DOMAIN (<<x>> \o s) :
              (<<x>> \o s)[k] = x \/ \E j \in DOMAIN s : (<<x>> \o s)[k] = s[j]
  <1>1. Len(s) \in Nat /\ DOMAIN s = 1 .. Len(s)
    BY LenProperties
  <1>2. ASSUME NEW i \in DOMAIN s, NEW k \in DOMAIN RemoveAt(s, i)
        PROVE  \E j \in DOMAIN s : RemoveAt(s, i)[k] = s[j]
    <2> DEFINE r == RemoveAt(s, i)
    <2>1. /\ r \in Seq(S) /\ Len(r) = Len(s) - 1
          /\ \A j \in 1 .. Len(s) - 1 : r[j] = IF j < i THEN s[j] ELSE s[j + 1]
      BY RemoveAtProperties
    <2> HIDE DEF r
    <2>2. k \in 1 .. Len(s) - 1
      BY <2>1, LenProperties DEF r
    <2>3. k \in 1 .. Len(s) /\ k + 1 \in 1 .. Len(s)
      BY <1>1, <2>2
    <2>4. r[k] = s[k] \/ r[k] = s[k + 1]
      BY <2>1, <2>2
    <2> QED
      BY <1>1, <2>3, <2>4 DEF r
  <1>3. ASSUME NEW x \in S, NEW k \in DOMAIN (<<x>> \o s)
        PROVE  (<<x>> \o s)[k] = x \/ \E j \in DOMAIN s : (<<x>> \o s)[k] = s[j]
    <2> DEFINE r == <<x>> \o s
    <2>1. <<x>> \in Seq(S) /\ Len(<<x>>) = 1 /\ <<x>>[1] = x
      OBVIOUS
    <2>2. /\ r \in Seq(S) /\ Len(r) = 1 + Len(s)
          /\ \A j \in 1 .. 1 + Len(s) : r[j] = IF j <= 1 THEN <<x>>[j] ELSE s[j - 1]
      BY <2>1, ConcatProperties
    <2> HIDE DEF r
    <2>3. k \in 1 .. 1 + Len(s)
      BY <2>2, LenProperties DEF r
    <2>4. k = 1 \/ (~(k <= 1) /\ k - 1 \in 1 .. Len(s))
      BY <1>1, <2>3
    <2>5. CASE k = 1
      <3>1. r[k] = x
        BY <2>1, <2>2, <2>3, <2>5
      <3> QED
        BY <3>1 DEF r
    <2>6. CASE ~(k <= 1) /\ k - 1 \in 1 .. Len(s)
      <3>1. r[k] = s[k - 1]
        BY <2>2, <2>3, <2>6
      <3> QED
        BY <1>1, <2>6, <3>1 DEF r
    <2> QED
      BY <2>4, <2>5, <2>6
  <1> QED
    BY <1>2, <1>3

\* The list for blocks of capacity n is the one at c.
AtHome(c, n) == IF c = Large THEN \A d \in Class : d < n ELSE n = c

OwnedHaveRoom == \A o \in owned : size[o[1]] <= capacity[o[1]]
ListedAtHome ==
  \A c \in Lists : \A i \in DOMAIN free_list[c] : AtHome(c, capacity[free_list[c][i]])

\* A block was made for a class or is larger than all of them, and what a call
\* has taken from a list has room for its request.
Rounded == \A b \in malloced : capacity[b] \in Class \/ \A c \in Class : c < capacity[b]
RoomInHand == \A t \in Thread : pc[t] = "stamp" => want[t].size <= capacity[hand[t]]

FitsInv == TypeInv /\ OwnedHaveRoom /\ ListedAtHome /\ Rounded /\ RoomInHand

\* A step that changes no header and no list, and moves no call to the stamp.
LEMMA StillFits ==
  ASSUME FitsInv, UNCHANGED <<size, capacity, malloced, free_list>>, owned' \subseteq owned,
         \A u \in Thread : pc'[u] = "stamp" => /\ pc[u] = "stamp"
                                               /\ hand'[u] = hand[u] /\ want'[u] = want[u]
  PROVE  OwnedHaveRoom' /\ ListedAtHome' /\ Rounded' /\ RoomInHand'
  <1> USE DEF FitsInv
  <1>1. OwnedHaveRoom'
    BY DEF OwnedHaveRoom
  <1>2. ListedAtHome'
    BY DEF ListedAtHome, Lists, AtHome
  <1>3. Rounded'
    BY DEF Rounded
  <1>4. RoomInHand'
    BY DEF RoomInHand
  <1> QED
    BY <1>1, <1>2, <1>3, <1>4

\* The header of a block that has room is stamped.
LEMMA StampFits ==
  ASSUME FitsInv, NEW t \in Thread, NEW b \in Block, Stamp(t, b),
         capacity' \in [Block -> Nat], want[t].size <= capacity'[b],
         \A x \in malloced : capacity'[x] = capacity[x],
         malloced' = malloced \cup {b},
         capacity'[b] \in Class \/ \A c \in Class : c < capacity'[b]
  PROVE  OwnedHaveRoom' /\ ListedAtHome' /\ Rounded' /\ RoomInHand'
  <1> USE DEF FitsInv
  <1>1. /\ owned' = owned \cup {<<b, epoch>>}
        /\ size' = [size EXCEPT ![b] = want[t].size] /\ size \in [Block -> Nat]
        /\ free_list' = free_list
        /\ pc' = [pc EXCEPT ![t] = "idle"]
        /\ hand' = [hand EXCEPT ![t] = NULL] /\ want' = [want EXCEPT ![t] = NoRequest]
    BY DEF Stamp, TypeInv, TypeOK
  <1>2. /\ \A x \in malloced : x \in Block /\ x # NULL
        /\ \A o \in owned : o[1] \in malloced
        /\ free_list \in [Lists -> Seq(malloced)]
    BY BlocksAreReal
  <1>3. OwnedHaveRoom'
    <2> SUFFICES ASSUME NEW o \in owned' PROVE size'[o[1]] <= capacity'[o[1]]
      BY DEF OwnedHaveRoom
    <2>1. CASE o[1] = b
      <3>1. size'[b] = want[t].size
        BY <1>1
      <3> QED
        BY <2>1, <3>1
    <2>2. CASE o[1] # b
      <3>1. o \in owned
        BY <1>1, <2>2
      <3>2. size'[o[1]] = size[o[1]] /\ capacity'[o[1]] = capacity[o[1]]
        BY <1>1, <1>2, <2>2, <3>1
      <3> QED
        BY <3>1, <3>2 DEF OwnedHaveRoom
    <2> QED
      BY <2>1, <2>2
  <1>4. ListedAtHome'
    <2> SUFFICES ASSUME NEW c \in Lists, NEW i \in DOMAIN free_list[c]
                 PROVE  AtHome(c, capacity'[free_list[c][i]])
      BY <1>1 DEF ListedAtHome, Lists, AtHome
    <2>1. free_list[c][i] \in malloced
      BY <1>2, ElementOfSeq, LenProperties
    <2> QED
      BY <2>1 DEF ListedAtHome
  <1>5. Rounded'
    BY DEF Rounded
  <1>6. RoomInHand'
    <2> SUFFICES ASSUME NEW u \in Thread, pc'[u] = "stamp"
                 PROVE  want'[u].size <= capacity'[hand'[u]]
      BY DEF RoomInHand
    <2>1. u # t /\ pc[u] = "stamp" /\ hand'[u] = hand[u] /\ want'[u] = want[u]
      BY <1>1 DEF TypeInv, TypeOK
    <2>2. hand[u] \in malloced
      BY <2>1 DEF TypeInv, TypeOK, HandMalloced
    <2> QED
      BY <2>1, <2>2 DEF RoomInHand
  <1> QED
    BY <1>3, <1>4, <1>5, <1>6

LEMMA NextFitsInv ==
  ASSUME FitsInv, [Next]_vars
  PROVE  FitsInv'
  <1> DEFINE Kept == OwnedHaveRoom' /\ ListedAtHome' /\ Rounded' /\ RoomInHand'
  <1> SUFFICES Kept
    BY NextTypeInv DEF FitsInv
  <1> USE DEF FitsInv
  <1>1. /\ \A b \in malloced : b \in Block /\ b # NULL
        /\ \A o \in owned : o[1] \in malloced
        /\ free_list \in [Lists -> Seq(malloced)]
        /\ pc \in [Thread -> {"idle", "pop", "malloc", "stamp", "mark", "push"}]
        /\ capacity \in [Block -> Nat]
        /\ \A t \in Thread : want[t].size \in Nat
    BY BlocksAreReal DEF TypeInv, TypeOK
  <1>2. ASSUME NEW t \in Thread, NEW n \in Size, NEW strict \in BOOLEAN, AllocBegin(t, n, strict)
        PROVE  Kept
    <2>1. \A u \in Thread : pc'[u] = "stamp" => /\ pc[u] = "stamp"
                                                /\ hand'[u] = hand[u] /\ want'[u] = want[u]
      BY <1>1, <1>2 DEF AllocBegin, TypeInv, TypeOK
    <2> QED
      BY <1>2, <2>1, StillFits DEF AllocBegin, memVars, progVars
  <1>3. ASSUME NEW t \in Thread, AllocPop(t)
        PROVE  Kept
    <2> DEFINE n == want[t].size
               c == SizeClass(n)
    <2>1. c \in Lists /\ n \in Nat
      BY <1>1, SizeClassType DEF Lists
    <2>2. UNCHANGED <<size, capacity, malloced, want, owned>>
      BY <1>3 DEF AllocPop, progVars
    <2>3. ASSUME pc' = [pc EXCEPT ![t] = "malloc"], UNCHANGED <<free_list, hand>>
          PROVE  Kept
      <3>1. \A u \in Thread : pc'[u] = "stamp" => pc[u] = "stamp"
        BY <1>1, <2>3
      <3> QED
        BY <2>2, <2>3, <3>1, StillFits
    <2>4. ASSUME NEW i \in DOMAIN free_list[c], Found(t, i),
                 free_list' = [free_list EXCEPT ![c] = RemoveAt(@, i)],
                 hand' = [hand EXCEPT ![t] = free_list[c][i]],
                 pc' = [pc EXCEPT ![t] = "stamp"]
          PROVE  Kept
      <3> DEFINE x == free_list[c][i]
      <3>1. Serves(t, x)
        BY <2>4 DEF Found
      <3>2. c = Large => n <= capacity[x]
        <4>1. x \in Block
          BY <1>1, <2>1, ElementOfSeq, LenProperties
        <4> QED
          BY <1>1, <2>1, <3>1, <4>1 DEF Serves
      <3>3. c # Large => n <= c /\ capacity[x] = c
        BY <2>1, SizeClassFits DEF ListedAtHome, AtHome
      <3>4. n <= capacity[x]
        BY <3>2, <3>3
      <3> HIDE DEF c, n, x
      <3>5. OwnedHaveRoom' /\ Rounded'
        BY <2>2 DEF OwnedHaveRoom, Rounded
      <3>6. ListedAtHome'
        <4> SUFFICES ASSUME NEW d \in Lists, NEW k \in DOMAIN free_list'[d]
                     PROVE  AtHome(d, capacity[free_list'[d][k]])
          BY <2>2 DEF ListedAtHome, Lists, AtHome
        <4>1. CASE d = c
          <5>1. free_list[c] \in Seq(malloced) /\ free_list'[c] = RemoveAt(free_list[c], i)
            BY <1>1, <2>1, <2>4
          <5>2. \E j \in DOMAIN free_list[c] : RemoveAt(free_list[c], i)[k] = free_list[c][j]
            BY <4>1, <5>1, ElementsKept
          <5> QED
            BY <2>1, <4>1, <5>1, <5>2 DEF ListedAtHome
        <4>2. CASE d # c
          BY <1>1, <2>4, <4>2 DEF ListedAtHome
        <4> QED
          BY <4>1, <4>2
      <3>7. RoomInHand'
        <4> SUFFICES ASSUME NEW u \in Thread, pc'[u] = "stamp"
                     PROVE  want[u].size <= capacity[hand'[u]]
          BY <2>2 DEF RoomInHand
        <4>1. CASE u = t
          <5>1. hand'[t] = x
            BY <2>4 DEF TypeInv, TypeOK, x
          <5> QED
            BY <3>4, <4>1, <5>1 DEF n
        <4>2. CASE u # t
          <5>1. pc[u] = "stamp" /\ hand'[u] = hand[u]
            BY <2>4, <4>2 DEF TypeInv, TypeOK
          <5> QED
            BY <5>1 DEF RoomInHand
        <4> QED
          BY <4>1, <4>2
      <3> QED
        BY <3>5, <3>6, <3>7
    <2> HIDE DEF Kept
    <2> QED
      BY <1>3, <2>3, <2>4 DEF AllocPop
  <1>4. ASSUME NEW t \in Thread, AllocRecycled(t)
        PROVE  Kept
    <2>1. hand[t] \in malloced /\ Stamp(t, hand[t]) /\ malloced' = malloced
          /\ capacity' = capacity /\ pc[t] = "stamp"
      BY <1>4 DEF AllocRecycled, TypeInv, TypeOK, HandMalloced
    <2>2. /\ hand[t] \in Block /\ malloced' = malloced \cup {hand[t]}
          /\ capacity' \in [Block -> Nat] /\ want[t].size <= capacity'[hand[t]]
          /\ \A x \in malloced : capacity'[x] = capacity[x]
      BY <1>1, <2>1 DEF RoomInHand
    <2>3. capacity'[hand[t]] \in Class \/ \A c \in Class : c < capacity'[hand[t]]
      BY <2>1 DEF Rounded
    <2> QED
      BY <2>1, <2>2, <2>3, StampFits
  <1>5. ASSUME NEW t \in Thread, AllocFresh(t)
        PROVE  Kept
    <2> DEFINE n == want[t].size
               c == SizeClass(n)
               room == IF c = Large THEN n ELSE c
    <2>1. n \in Nat /\ c \in Class \cup {Large} /\ Class \subseteq Nat
      BY <1>1, SizeClassType, GenAllocAssumption
    <2>2. room \in Nat /\ n <= room /\ (room \in Class \/ \A d \in Class : d < room)
      <3>1. CASE c = Large
        <4>1. room = n /\ \A d \in Class : d < n
          BY <2>1, <3>1, SizeClassFits
        <4> HIDE DEF room, n
        <4> QED
          BY <2>1, <4>1
      <3>2. CASE c # Large
        <4>1. room = c /\ c \in Class /\ n <= c
          BY <2>1, <3>2, SizeClassFits
        <4> HIDE DEF room, c, n
        <4> QED
          BY <2>1, <4>1
      <3> QED
        BY <3>1, <3>2
    <2>3. PICK b \in Block \ malloced :
                 /\ capacity' = [capacity EXCEPT ![b] = room]
                 /\ malloced' = malloced \cup {b}
                 /\ Stamp(t, b)
      BY <1>5 DEF AllocFresh
    <2> HIDE DEF room, c
    <2>4. /\ capacity' \in [Block -> Nat] /\ capacity'[b] = room
          /\ \A x \in malloced : capacity'[x] = capacity[x]
      BY <1>1, <2>2, <2>3
    <2> QED
      BY <2>2, <2>3, <2>4, StampFits
  <1>6. ASSUME Abort PROVE Kept
    BY <1>6, StillFits DEF Abort, memVars, progVars
  <1>7. ASSUME NEW t \in Thread, NEW o \in owned \cup freed, FreeCheck(t, o)
        PROVE  Kept
    <2>1. CASE gen[o[1]] = FREED
      BY <1>6, <1>7, <2>1 DEF FreeCheck
    <2>2. CASE gen[o[1]] # FREED
      <3>1. /\ pc' = [pc EXCEPT ![t] = "mark"] /\ hand' = [hand EXCEPT ![t] = o[1]]
            /\ owned' = owned \ {o} /\ UNCHANGED <<memVars, want>>
        BY <1>7, <2>2 DEF FreeCheck
      <3>2. \A u \in Thread : pc'[u] = "stamp" => /\ pc[u] = "stamp"
                                                  /\ hand'[u] = hand[u] /\ want'[u] = want[u]
        BY <1>1, <3>1 DEF TypeInv, TypeOK
      <3> QED
        BY <3>1, <3>2, StillFits DEF memVars
    <2> QED
      BY <2>1, <2>2
  <1>8. ASSUME NEW t \in Thread, FreeMark(t)
        PROVE  Kept
    <2>1. \A u \in Thread : pc'[u] = "stamp" => pc[u] = "stamp"
      BY <1>1, <1>8 DEF FreeMark
    <2> QED
      BY <1>8, <2>1, StillFits DEF FreeMark, progVars
  <1>9. ASSUME NEW t \in Thread, FreePush(t)
        PROVE  Kept
    <2> DEFINE x == hand[t]
               n == capacity[x]
               c == SizeClass(n)
    <2>1. /\ free_list' = [free_list EXCEPT ![c] = <<x>> \o @]
          /\ pc' = [pc EXCEPT ![t] = "idle"] /\ hand' = [hand EXCEPT ![t] = NULL]
          /\ UNCHANGED <<size, capacity, malloced, owned, want>>
      BY <1>9 DEF FreePush, progVars
    <2>2. x \in malloced /\ x \in Block /\ n \in Nat
      BY <1>9 DEF FreePush, TypeInv, TypeOK, HandMalloced
    <2>3. c \in Lists
      BY <2>2, SizeClassType DEF Lists
    <2>4. AtHome(c, n)
      <3>1. n \in Class \/ \A d \in Class : d < n
        BY <2>2 DEF Rounded
      <3>2. Class \subseteq Nat
        BY GenAllocAssumption
      <3>3. CASE c = Large
        BY <2>2, <3>3, SizeClassFits DEF AtHome
      <3>4. CASE c # Large
        <4>1. c \in Class /\ n <= c /\ (n \in Class => c = n)
          BY <2>2, <3>4, SizeClassFits
        <4> HIDE DEF c, n, x
        <4>2. ~(c < n)
          BY <2>2, <3>2, <4>1
        <4> QED
          BY <3>1, <3>4, <4>1, <4>2 DEF AtHome
      <3> QED
        BY <3>3, <3>4
    <2> HIDE DEF c
    <2>5. OwnedHaveRoom' /\ Rounded'
      BY <2>1 DEF OwnedHaveRoom, Rounded
    <2>6. ListedAtHome'
      <3> SUFFICES ASSUME NEW d \in Lists, NEW k \in DOMAIN free_list'[d]
                   PROVE  AtHome(d, capacity[free_list'[d][k]])
        BY <2>1 DEF ListedAtHome, Lists, AtHome
      <3>1. CASE d = c
        <4>1. free_list[c] \in Seq(malloced) /\ free_list'[c] = <<x>> \o free_list[c]
          BY <1>1, <2>1, <2>3
        <4>2. \/ free_list'[c][k] = x
              \/ \E j \in DOMAIN free_list[c] : free_list'[c][k] = free_list[c][j]
          BY <2>2, <3>1, <4>1, ElementsKept
        <4> QED
          BY <2>3, <2>4, <3>1, <4>2 DEF ListedAtHome
      <3>2. CASE d # c
        BY <1>1, <2>1, <3>2 DEF ListedAtHome
      <3> QED
        BY <3>1, <3>2
    <2>7. RoomInHand'
      <3> SUFFICES ASSUME NEW u \in Thread, pc'[u] = "stamp"
                   PROVE  want[u].size <= capacity[hand'[u]]
        BY <2>1 DEF RoomInHand
      <3>1. u # t /\ pc[u] = "stamp" /\ hand'[u] = hand[u]
        BY <2>1 DEF TypeInv, TypeOK
      <3> QED
        BY <3>1 DEF RoomInHand
    <2> QED
      BY <2>5, <2>6, <2>7
  <1>10. ASSUME NEW o \in owned, RefCreate(o)
         PROVE  Kept
    BY <1>10, StillFits DEF RefCreate, memVars
  <1>11. CASE UNCHANGED vars
    BY <1>11, StillFits DEF vars, memVars, progVars
  <1> HIDE DEF Kept
  <1> QED
    BY <1>2, <1>3, <1>4, <1>5, <1>6, <1>7, <1>8, <1>9, <1>10, <1>11
    DEF Next, OutOfMemory, DerefFails

\* What is recycled has room for the request, and a block goes back to the list
\* of its class: for any size classes, and whatever the program frees, once or
\* again.
THEOREM RecycledFitsAlways == Spec => []RecycledFits
  <1>1. Init => FitsInv
    <2> SUFFICES ASSUME Init PROVE OwnedHaveRoom /\ ListedAtHome /\ Rounded /\ RoomInHand
      BY InitTypeInv DEF FitsInv
    <2>1. \A c \in Lists : free_list[c] = <<>>
      BY DEF Init, Lists
    <2>2. ListedAtHome
      BY <2>1, EmptySeq DEF ListedAtHome
    <2> QED
      BY <2>2 DEF Init, OwnedHaveRoom, Rounded, RoomInHand
  <1>2. FitsInv /\ [Next]_vars => FitsInv'
    BY NextFitsInv
  <1>3. FitsInv => RecycledFits
    <2> SUFFICES ASSUME FitsInv PROVE RecycledFits
      OBVIOUS
    <2>1. \A o \in owned : size[o[1]] <= capacity[o[1]]
      BY DEF FitsInv, OwnedHaveRoom
    <2>2. \A c \in Class : \A i \in DOMAIN free_list[c] : capacity[free_list[c][i]] = c
      BY GenAllocAssumption DEF FitsInv, ListedAtHome, Lists, AtHome, Large
    <2>3. \A i \in DOMAIN free_list[Large] : \A c \in Class : c < capacity[free_list[Large][i]]
      BY DEF FitsInv, ListedAtHome, Lists, AtHome
    <2>4. ASSUME NEW i \in DOMAIN free_list[Large], NEW c \in Class
          PROVE  capacity[free_list[Large][i]] > c
      BY <2>3
    <2> QED
      BY <2>1, <2>2, <2>4 DEF RecycledFits
  <1> QED
    BY <1>1, <1>2, <1>3, PTL DEF Spec
=============================================================================
