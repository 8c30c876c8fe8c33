------------------------------ MODULE GenAlloc ------------------------------
(***************************************************************************)
(* The generational allocator of src/runtime/run_alloc.c.  A block carries *)
(* a generation; freeing marks it, recycling gives it a fresh one, and a   *)
(* reference passes its check while the generation it has captured is the  *)
(* block's.  Threads interleave between the atomic accesses of the         *)
(* generation and the critical sections of the free lists.                 *)
(*                                                                         *)
(* A lifetime is a pair of a block and the generation stamped on it; owned *)
(* and freed record, for the properties, what the program has done with    *)
(* the pointers.  run_gen_checks_enabled stays TRUE, and 2^64 generations  *)
(* are not used up.                                                        *)
(***************************************************************************)
EXTENDS Integers, Sequences, FiniteSets, SequencesExt

CONSTANTS Thread, Block, NULL,
          Strict,     \* blocks whose address meets a strict alignment
          Class,      \* block sizes of the size classes
          Size,       \* sizes programs ask for
          FreeAgain,  \* whether programs free a pointer they have freed before
          MaxEpoch    \* bound on run_gen_epoch

FREED == -1      \* RUN_GEN_FREED: no generation of a lifetime
Large == 0       \* the index of run_large_free_list
NoRequest == [size |-> 0, strict |-> FALSE]

ASSUME GenAllocAssumption ==
  /\ Strict \subseteq Block /\ NULL \notin Block
  /\ Class \subseteq Nat \ {0} /\ Size \subseteq Nat \ {0}
  /\ FreeAgain \in BOOLEAN /\ MaxEpoch \in Nat

VARIABLES
  epoch,               \* run_gen_epoch
  gen, size, capacity, \* of each block: its header
  malloced,            \* the blocks the system allocator has handed out
  free_list,           \* run_free_lists and run_large_free_list, head first
  pc, hand, want,      \* of each thread: where it is, its block, its request
  owned,               \* lifetimes returned to the program and not passed to run_gen_free
  freed,               \* lifetimes passed to run_gen_free
  refs,                \* the references that were created
  freed_twice,         \* a second run_gen_free of a lifetime has gone through
  aborted              \* abort() was called

memVars == <<gen, size, capacity, malloced, free_list>>
progVars == <<owned, freed, refs, freed_twice>>
vars == <<epoch, memVars, pc, hand, want, progVars, aborted>>

Init ==
  /\ epoch = 1
  /\ gen = [b \in Block |-> 0]
  /\ size = [b \in Block |-> 0] /\ capacity = [b \in Block |-> 0]
  /\ malloced = {}
  /\ free_list = [c \in Class \cup {Large} |-> <<>>]
  /\ pc = [t \in Thread |-> "idle"] /\ hand = [t \in Thread |-> NULL]
  /\ want = [t \in Thread |-> NoRequest]
  /\ owned = {} /\ freed = {} /\ refs = {} /\ freed_twice = FALSE
  /\ aborted = FALSE

\* run_size_class: the smallest class that holds n, or the large list.
SizeClass(n) ==
  IF \E c \in Class : n <= c
  THEN CHOOSE c \in Class : n <= c /\ \A d \in Class : n <= d => c <= d
  ELSE Large

Abort ==
  /\ aborted' = TRUE
  /\ UNCHANGED <<epoch, memVars, pc, hand, want, progVars>>

-----------------------------------------------------------------------------
(* run_gen_alloc_aligned *)

\* run_freelist_pop: the head of the class's list if it is aligned, or the first
\* large block that is aligned and has room.
Serves(t, b) ==
  /\ want[t].strict => b \in Strict
  /\ SizeClass(want[t].size) = Large => capacity[b] >= want[t].size

Found(t, i) ==
  LET list == free_list[SizeClass(want[t].size)]
  IN  /\ i \in DOMAIN list /\ Serves(t, list[i])
      /\ SizeClass(want[t].size) # Large => i = 1
      /\ \A j \in 1 .. i - 1 : ~Serves(t, list[j])

AllocBegin(t, n, strict) ==
  /\ pc[t] = "idle" /\ ~aborted /\ epoch < MaxEpoch
  /\ want' = [want EXCEPT ![t] = [size |-> n, strict |-> strict]]
  /\ pc' = [pc EXCEPT ![t] = "pop"]
  /\ UNCHANGED <<epoch, memVars, hand, progVars, aborted>>

\* Mutant: the block stays on its list.
AllocPopKeepsIt(t) ==
  LET c == SizeClass(want[t].size)
  IN  /\ pc[t] = "pop" /\ ~aborted
      /\ \/ \E i \in DOMAIN free_list[c] :
              /\ Found(t, i)
              /\ hand' = [hand EXCEPT ![t] = free_list[c][i]]
              /\ pc' = [pc EXCEPT ![t] = "stamp"]
         \/ /\ \A i \in DOMAIN free_list[c] : ~Found(t, i)
            /\ pc' = [pc EXCEPT ![t] = "malloc"]
            /\ UNCHANGED hand
      /\ UNCHANGED <<epoch, memVars, want, progVars, aborted>>

AllocPop(t) ==
  LET c == SizeClass(want[t].size)
  IN  /\ pc[t] = "pop" /\ ~aborted
      /\ \/ \E i \in DOMAIN free_list[c] :
              /\ Found(t, i)
              /\ free_list' = [free_list EXCEPT ![c] = RemoveAt(@, i)]
              /\ hand' = [hand EXCEPT ![t] = free_list[c][i]]
              /\ pc' = [pc EXCEPT ![t] = "stamp"]
         \/ /\ \A i \in DOMAIN free_list[c] : ~Found(t, i)
            /\ pc' = [pc EXCEPT ![t] = "malloc"]
            /\ UNCHANGED <<free_list, hand>>
      /\ UNCHANGED <<epoch, gen, size, capacity, malloced, want, progVars, aborted>>

\* A generation for b, and back to the program.
Stamp(t, b) ==
  /\ gen' = [gen EXCEPT ![b] = epoch]
  /\ epoch' = epoch + 1
  /\ size' = [size EXCEPT ![b] = want[t].size]
  /\ owned' = owned \cup {<<b, epoch>>}
  /\ pc' = [pc EXCEPT ![t] = "idle"] /\ hand' = [hand EXCEPT ![t] = NULL]
  /\ want' = [want EXCEPT ![t] = NoRequest]
  /\ UNCHANGED <<free_list, freed, refs, freed_twice, aborted>>

\* Mutant: a recycled block keeps the mark of the freed one.
AllocRecycledUnstamped(t) ==
  /\ pc[t] = "stamp" /\ ~aborted
  /\ epoch' = epoch + 1
  /\ owned' = owned \cup {<<hand[t], epoch>>}
  /\ pc' = [pc EXCEPT ![t] = "idle"] /\ hand' = [hand EXCEPT ![t] = NULL]
  /\ want' = [want EXCEPT ![t] = NoRequest]
  /\ UNCHANGED <<memVars, freed, refs, freed_twice, aborted>>

AllocRecycled(t) ==
  /\ pc[t] = "stamp" /\ ~aborted
  /\ Stamp(t, hand[t])
  /\ UNCHANGED <<capacity, malloced>>

\* Mutant: a class block gets the size that was asked for.
AllocFreshUnrounded(t) ==
  /\ pc[t] = "malloc" /\ ~aborted
  /\ \E b \in Block \ malloced :
       /\ want[t].strict => b \in Strict
       /\ capacity' = [capacity EXCEPT ![b] = want[t].size]
       /\ malloced' = malloced \cup {b}
       /\ Stamp(t, b)

AllocFresh(t) ==
  LET c == SizeClass(want[t].size)
  IN  /\ pc[t] = "malloc" /\ ~aborted
      /\ \E b \in Block \ malloced :
           /\ want[t].strict => b \in Strict
           /\ capacity' = [capacity EXCEPT ![b] = IF c = Large THEN want[t].size ELSE c]
           /\ malloced' = malloced \cup {b}
           /\ Stamp(t, b)

OutOfMemory(t) ==
  /\ pc[t] = "malloc" /\ ~aborted
  /\ \A b \in Block \ malloced : want[t].strict /\ b \notin Strict
  /\ Abort

-----------------------------------------------------------------------------
(* run_gen_free *)

\* The program frees the pointer it got with lifetime o; the function knows the
\* pointer only.
FreeCheck(t, o) ==
  /\ pc[t] = "idle" /\ ~aborted
  /\ o \in owned \/ (FreeAgain /\ o \in freed)
  /\ IF gen[o[1]] = FREED
     THEN Abort
     ELSE /\ pc' = [pc EXCEPT ![t] = "mark"] /\ hand' = [hand EXCEPT ![t] = o[1]]
          /\ owned' = owned \ {o} /\ freed' = freed \cup {o}
          /\ freed_twice' = (freed_twice \/ o \in freed)
          /\ UNCHANGED <<epoch, memVars, want, refs, aborted>>

\* Mutant: the block goes on a list without the mark.
FreeMarkForgotten(t) ==
  /\ pc[t] = "mark" /\ ~aborted
  /\ pc' = [pc EXCEPT ![t] = "push"]
  /\ UNCHANGED <<epoch, memVars, hand, want, progVars, aborted>>

FreeMark(t) ==
  /\ pc[t] = "mark" /\ ~aborted
  /\ gen' = [gen EXCEPT ![hand[t]] = FREED]
  /\ pc' = [pc EXCEPT ![t] = "push"]
  /\ UNCHANGED <<epoch, size, capacity, malloced, free_list, hand, want, progVars, aborted>>

FreePush(t) ==
  /\ pc[t] = "push" /\ ~aborted
  /\ free_list' = [free_list EXCEPT ![SizeClass(capacity[hand[t]])] = <<hand[t]>> \o @]
  /\ pc' = [pc EXCEPT ![t] = "idle"] /\ hand' = [hand EXCEPT ![t] = NULL]
  /\ UNCHANGED <<epoch, gen, size, capacity, malloced, want, progVars, aborted>>

-----------------------------------------------------------------------------
(* References *)

\* run_gen_ref_create captures the generation the block has now.
RefCreate(o) ==
  /\ o \in owned /\ ~aborted
  /\ refs' = refs \cup {<<o[1], gen[o[1]]>>}
  /\ UNCHANGED <<epoch, memVars, pc, hand, want, owned, freed, freed_twice, aborted>>

\* run_gen_check
Passes(r) == gen[r[1]] # FREED /\ gen[r[1]] = r[2]

\* run_gen_ref_deref of a reference that fails its check; one that passes
\* changes nothing.
DerefFails(r) == r \in refs /\ ~aborted /\ ~Passes(r) /\ Abort

Next ==
  \/ \E t \in Thread :
       \/ \E n \in Size, strict \in BOOLEAN : AllocBegin(t, n, strict)
       \/ AllocPop(t) \/ AllocRecycled(t) \/ AllocFresh(t) \/ OutOfMemory(t)
       \/ \E o \in owned \cup freed : FreeCheck(t, o)
       \/ FreeMark(t) \/ FreePush(t)
  \/ \E o \in owned : RefCreate(o)
  \/ \E r \in refs : DerefFails(r)

Spec == Init /\ [][Next]_vars

-----------------------------------------------------------------------------
(* Properties *)

\* The fields hold values of their types.
TypeOK ==
  /\ epoch \in Nat \ {0}
  /\ gen \in [Block -> Nat \cup {FREED}]
  /\ size \in [Block -> Nat] /\ capacity \in [Block -> Nat]
  /\ malloced \subseteq Block
  /\ free_list \in [Class \cup {Large} -> Seq(malloced)]
  /\ pc \in [Thread -> {"idle", "pop", "malloc", "stamp", "mark", "push"}]
  /\ hand \in [Thread -> Block \cup {NULL}]
  /\ \A t \in Thread : pc[t] \in {"stamp", "mark", "push"} <=> hand[t] # NULL
  /\ want \in [Thread -> [size : Nat, strict : BOOLEAN]]
  /\ owned \subseteq malloced \X Nat /\ freed \subseteq malloced \X Nat
  /\ refs \subseteq malloced \X (Nat \cup {FREED})
  /\ freed_twice \in BOOLEAN /\ aborted \in BOOLEAN

\* "Stale references always fail their checks, even after the address is
\* recycled": a reference passes only while the lifetime it was created in is
\* the program's and has never been freed, or while a run_gen_free of the block
\* has not reached its mark.
StaleRefsFail ==
  \A r \in refs :
    Passes(r) => \/ r \in owned \ freed
                 \/ \E t \in Thread : pc[t] = "mark" /\ hand[t] = r[1]

\* "Every live allocation gets a unique generation", never the 0 that marks an
\* unchecked reference: the references of what the program owns pass.
LiveRefsPass ==
  \A o \in owned : gen[o[1]] = o[2] /\ o[2] # 0

\* The places on the free lists where b is.
Listed(b) ==
  UNION {{c} \X {i \in DOMAIN free_list[c] : free_list[c][i] = b} : c \in Class \cup {Large}}

\* Every block obtained from malloc is in one place: one lifetime of the
\* program's, the hands of one call, or one free list, once.  No two allocations
\* share a block and none is leaked, whatever calls run at the same time.
BlockInOnePlace ==
  \A b \in malloced :
    Cardinality({o \in owned : o[1] = b}) + Cardinality({t \in Thread : hand[t] = b})
      + Cardinality(Listed(b)) = 1

\* What is recycled has room for the request, and "a class block's capacity is
\* exactly its class size, so it goes back to the same class".
RecycledFits ==
  /\ \A o \in owned : size[o[1]] <= capacity[o[1]]
  /\ \A c \in Class : \A i \in DOMAIN free_list[c] : capacity[free_list[c][i]] = c
  /\ \A i \in DOMAIN free_list[Large] : \A c \in Class : capacity[free_list[Large][i]] > c

\* "Marks the generation as freed and detects double-free": no second
\* run_gen_free of the same allocation goes through.
DoubleFreeDetected == ~freed_twice
=============================================================================
