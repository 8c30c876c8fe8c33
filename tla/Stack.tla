--------------------------------- MODULE Stack ---------------------------------
(***************************************************************************)
(* The growable stacks of run_scheduler.c.  A G's stack is a reserved      *)
(* range of which the top is committed.  It grows, by doubling, when a     *)
(* function's prologue asks for headroom or when the G touches a page that *)
(* is not committed and the SIGSEGV handler finds whose stack it is; the   *)
(* scheduling loop halves it when a G that is switched out has used little *)
(* of it.                                                                  *)
(*                                                                         *)
(* Addresses are depths below the top of the stack: sp is how much of the  *)
(* stack is in use, and page k holds the depths above Page * (k - 1) up to *)
(* Page * k.  The kernel's page protection is external.  Scheduler has the *)
(* queues; here a G that is not running may be resumed by any M.           *)
(***************************************************************************)
EXTENDS Integers

CONSTANTS G, M, NULL,
          AltStack,     \* the Ms with an alternate signal stack
          Page,         \* run_vmem_page_size
          Initial,      \* RUN_GROWABLE_INITIAL
          Size,         \* run_stack_max_size
          Headroom,     \* RUN_STACK_CHECK_HEADROOM
          Frame,        \* bound: how much a call may add to the stack
          Sigurg,       \* whether SIGURG interrupts Gs
          SignalFrame   \* the kernel's frame for SIGURG, and those of run_async_preempt

THRESHOLD == 4
HYSTERESIS == 2

ASSUME StackAssumption ==
  /\ NULL \notin G \cup M /\ AltStack \subseteq M /\ Sigurg \in BOOLEAN
  /\ SignalFrame \in Nat
  /\ Page \in Nat \ {0} /\ Initial \in Nat \ {0} /\ Frame \in 1 .. Page /\ Headroom \in Nat
  /\ Size \in Nat /\ Size % Page = 0
  /\ Size >= 2 * Page /\ Size >= Initial /\ (Initial % Page = 0 \/ Page % Initial = 0)

VARIABLES
  committed,        \* stack_committed of each G
  watermark,        \* stack_watermark of each G
  writable,         \* of each G, the pages the kernel lets it write
  sp,               \* how deep each G's live frames reach
  pushed,           \* how much deeper SIGURG has taken the stack of a G it switched out
  want,             \* the depth the G is about to write at
  frame,            \* the depth of the innermost function with a prologue check
  pc,               \* of each G: in its own code, or where in the growth of its stack
  cause,            \* what the growth is for: "check" or "fault"
  grown,            \* the locals of the growth: the count it has read and the new one
  on,               \* the M that runs the G, or NULL
  look,             \* of each M, the G its loop has switched from and not looked at yet
  fate              \* "ok", or what went wrong: the model stops there

frames == <<sp, pushed, want, frame>>
growth == <<pc, cause, grown>>
vars == <<committed, watermark, writable, frames, growth, on, look, fate>>

AlignUp(n) == ((n + Page - 1) \div Page) * Page
PageOf(depth) == (depth + Page - 1) \div Page
Pages(from, to) == PageOf(from) + 1 .. PageOf(to)     \* those between two depths
AtLeast(a, b) == IF a < b THEN b ELSE a

\* run_stack_alloc
Fresh == AtLeast(Initial, Page)

NoCheck == -Headroom     \* no function with a check has run
NoGrowth == [old |-> 0, new |-> 0]

Init ==
  /\ committed = [g \in G |-> Fresh] /\ watermark = [g \in G |-> 0]
  /\ writable = [g \in G |-> Pages(0, Fresh)]
  /\ sp = [g \in G |-> 0] /\ pushed = [g \in G |-> 0] /\ want = [g \in G |-> 0]
  /\ frame = [g \in G |-> NoCheck]
  /\ pc = [g \in G |-> "run"] /\ cause = [g \in G |-> "check"]
  /\ grown = [g \in G |-> NoGrowth]
  /\ on = [g \in G |-> NULL] /\ look = [m \in M |-> NULL] /\ fate = "ok"

\* How deep the context of a G that is switched out is.
Saved(g) == sp[g] + pushed[g]

Running(g, at) == on[g] # NULL /\ pc[g] = at
Goto(g, at) == pc' = [pc EXCEPT ![g] = at]

-----------------------------------------------------------------------------
(* The G's own code *)

\* A call of a function with a prologue check, or of one without, for which the
\* innermost check has committed Headroom.
Call(g, d, checked) ==
  /\ Running(g, "run")
  /\ checked \/ sp[g] + d <= frame[g] + Headroom
  /\ want' = [want EXCEPT ![g] = sp[g] + d]
  /\ frame' = IF checked THEN [frame EXCEPT ![g] = sp[g] + d] ELSE frame
  /\ Goto(g, "touch")
  /\ UNCHANGED <<committed, watermark, writable, sp, pushed, cause, grown, on, look, fate>>

\* The G's first function leaves by Exit.
Return(g, d) ==
  /\ Running(g, "run") /\ d < sp[g]
  /\ sp' = [sp EXCEPT ![g] = @ - d]
  /\ frame' = IF sp'[g] < frame[g] THEN [frame EXCEPT ![g] = sp'[g]] ELSE frame
  /\ UNCHANGED <<committed, watermark, writable, pushed, want, growth, on, look, fate>>

\* The write succeeds, or it faults.  Below the reserved range there is no
\* guard: what lies there is another mapping, which is written, or none.
Touch(g) ==
  /\ Running(g, "touch")
  /\ \/ /\ PageOf(want[g]) \in writable[g]
        /\ sp' = [sp EXCEPT ![g] = want[g]]
        /\ Goto(g, IF want[g] = frame[g] THEN "check" ELSE "run")
        /\ UNCHANGED fate
     \/ /\ PageOf(want[g]) \notin writable[g]
        /\ Goto(g, "fault") /\ UNCHANGED <<sp, fate>>
     \/ /\ want[g] > Size /\ fate' = "overrun"
        /\ UNCHANGED <<sp, pc>>
  /\ UNCHANGED <<committed, watermark, writable, pushed, want, frame, cause, grown, on, look>>

-----------------------------------------------------------------------------
(* run_stack_check, run_stack_growth_handler and run_stack_grow_to_sp *)

Recorded(g, depth) == [watermark EXCEPT ![g] = AtLeast(@, depth)]

\* The count is doubled until it suffices or does not fit.  (A power of two is a
\* number all of whose divisors but 1 are even.)
PowersOfTwo == {n \in 1 .. Size : \A d \in 2 .. n : n % d = 0 => d % 2 = 0}
Doubled(c, needed, new) ==
  \E n \in PowersOfTwo :
    /\ new = c * n /\ (new >= needed \/ new >= Size)
    /\ \A l \in PowersOfTwo : l < n => c * l < needed /\ c * l < Size

\* The count is read once, for the decision, the new count and the range.
GrowTo(g, depth, for, back) ==
  LET needed == AlignUp(depth + Page)
  IN  /\ \/ /\ needed <= committed[g] /\ Goto(g, back)
            /\ UNCHANGED <<cause, grown, fate>>
         \/ /\ needed > committed[g] /\ cause' = [cause EXCEPT ![g] = for]
            /\ \E new \in 0 .. 2 * Size :
                 /\ Doubled(committed[g], needed, new)
                 /\ \/ /\ new >= needed /\ new <= Size
                       /\ grown' = [grown EXCEPT ![g] = [old |-> committed[g], new |-> new]]
                       /\ Goto(g, "protect") /\ UNCHANGED fate
                    \/ /\ new < needed \/ new > Size
                       /\ fate' = "overflow" /\ UNCHANGED <<pc, grown>>
      /\ UNCHANGED <<committed, writable, frames, on, look>>

\* Mutant: the range is not clamped to the reservation.
TargetUnclamped(g) == sp[g] + Headroom

\* The page above the end of the range is the deepest a check asks for.
Target(g) == IF sp[g] + Headroom <= Size - Page THEN sp[g] + Headroom ELSE Size - Page

Check(g) ==
  /\ Running(g, "check")
  /\ watermark' = Recorded(g, sp[g])
  /\ GrowTo(g, Target(g), "check", "run")

\* An M without an alternate signal stack cannot run the handler.  An address that
\* is in no G's stack is left to the default action.
Fault(g) ==
  /\ Running(g, "fault") /\ UNCHANGED watermark
  /\ \/ on[g] \in AltStack /\ want[g] <= Size /\ GrowTo(g, want[g], "fault", "touch")
     \/ /\ on[g] \notin AltStack \/ want[g] > Size
        /\ fate' = "crashed"
        /\ UNCHANGED <<committed, writable, frames, growth, on, look>>

\* Mutant: the range ends a page too early.
ProtectShort(g) ==
  /\ Running(g, "protect") /\ Goto(g, "store")
  /\ writable' = [writable EXCEPT ![g] = @ \cup Pages(grown[g].old, grown[g].new - Page)]
  /\ UNCHANGED <<committed, watermark, frames, cause, grown, on, look, fate>>

Protect(g) ==
  /\ Running(g, "protect") /\ Goto(g, "store")
  /\ writable' = [writable EXCEPT ![g] = @ \cup Pages(grown[g].old, grown[g].new)]
  /\ UNCHANGED <<committed, watermark, frames, cause, grown, on, look, fate>>

Store(g) ==
  /\ Running(g, "store") /\ Goto(g, IF cause[g] = "fault" THEN "touch" ELSE "run")
  /\ committed' = [committed EXCEPT ![g] = grown[g].new]
  /\ grown' = [grown EXCEPT ![g] = NoGrowth]
  /\ UNCHANGED <<watermark, writable, frames, cause, on, look, fate>>

-----------------------------------------------------------------------------
(* Switches, and what run_schedule_loop does after one *)

SwitchOut(g, at) ==
  /\ on' = [on EXCEPT ![g] = NULL] /\ look' = [look EXCEPT ![on[g]] = g]
  /\ Goto(g, at)

Yield(g) ==
  /\ Running(g, "run") /\ SwitchOut(g, "run")
  /\ UNCHANGED <<committed, watermark, writable, frames, cause, grown, fate>>

Exit(g) ==
  /\ Running(g, "run") /\ SwitchOut(g, "dead")
  /\ UNCHANGED <<committed, watermark, writable, frames, cause, grown, fate>>

\* SIGURG interrupts a G before or after it moves its stack pointer, and switches it
\* out.  Its frames go where the G's do (SA_ONSTACK is not set): the kernel faults
\* in no page for its own, and what it raises instead is no fault in a G's stack.  A
\* G that is in the SIGSEGV handler is on the signal stack of its M.
Preempt(g) ==
  /\ Sigurg /\ on[g] # NULL
  /\ \/ /\ pc[g] = "fault" \/ (pc[g] \in {"protect", "store"} /\ cause[g] = "fault")
        /\ fate' = "handler preempted" /\ UNCHANGED <<pushed, pc, on, look>>
     \/ /\ ~(pc[g] = "fault" \/ (pc[g] \in {"protect", "store"} /\ cause[g] = "fault"))
        /\ \E depth \in IF pc[g] = "touch" THEN {sp[g], want[g]} ELSE {sp[g]} :
             \/ /\ PageOf(depth + SignalFrame) \in writable[g]
                /\ pushed' = [pushed EXCEPT ![g] = depth + SignalFrame - sp[g]]
                /\ SwitchOut(g, pc[g]) /\ UNCHANGED fate
             \/ /\ PageOf(depth + SignalFrame) \notin writable[g]
                /\ fate' = "no room for SIGURG" /\ UNCHANGED <<pushed, pc, on, look>>
  /\ UNCHANGED <<committed, watermark, writable, sp, want, frame, cause, grown>>

\* An M that is about to look at the G may be half way through by now: then the two
\* race for its fields and its pages.
Resume(m, g) ==
  /\ on[g] = NULL /\ pc[g] # "dead" /\ look[m] = NULL
  /\ \A h \in G : on[h] # m
  /\ on' = [on EXCEPT ![g] = m]
  /\ pushed' = [pushed EXCEPT ![g] = 0]
  /\ \/ UNCHANGED fate
     \/ (\E n \in M : look[n] = g) /\ fate' = "raced"
  /\ UNCHANGED <<committed, watermark, writable, sp, want, frame, growth, look>>

\* Mutant: the depth of the switch is not recorded.
UsedUnrecorded(g) == AtLeast(AlignUp(watermark[g]), Initial)

\* What the G has needed since the last look, up to this switch.
Used(g) == AtLeast(AlignUp(AtLeast(watermark[g], Saved(g))), Initial)

\* Mutant: stack_committed is not lowered.
ReleaseOnly(g, target) ==
  /\ writable' = [writable EXCEPT ![g] = @ \ Pages(target, committed[g])]
  /\ UNCHANGED committed

Release(g, target) ==
  /\ writable' = [writable EXCEPT ![g] = @ \ Pages(target, committed[g])]
  /\ committed' = [committed EXCEPT ![g] = target]

\* run_stack_maybe_shrink.  The G may have been interrupted in the growth of its
\* stack, which will go on with the count it has read.  (Half of the stack is
\* twice what it uses wherever the first test lets it be.)
Shrink(g) ==
  LET half == committed[g] \div 2
      twice == Used(g) * HYSTERESIS
      target == AtLeast(IF half < twice THEN AlignUp(twice) ELSE half, Initial)
  IN  \/ /\ committed[g] > Initial /\ Used(g) * THRESHOLD <= committed[g]
         /\ target < committed[g] /\ Release(g, target)
         /\ watermark' = [watermark EXCEPT ![g] = Saved(g)]
         /\ fate' = IF pc[g] \in {"protect", "store"} THEN "stale growth" ELSE fate
      \/ /\ committed[g] > Initial /\ Used(g) * THRESHOLD > committed[g]
         /\ watermark' = [watermark EXCEPT ![g] = Saved(g)]
         /\ UNCHANGED <<committed, writable, fate>>
      \/ /\ committed[g] <= Initial
         /\ watermark' = Recorded(g, Saved(g))
         /\ UNCHANGED <<committed, writable, fate>>

\* The loop looks at the G it has switched from: it records the depth, and tests
\* whether the G is dead, not whether another M runs it by now.
Look(m) ==
  LET g == look[m]
  IN  /\ g # NULL /\ look' = [look EXCEPT ![m] = NULL]
      /\ \/ /\ on[g] = NULL /\ pc[g] # "dead" /\ Shrink(g)
            /\ UNCHANGED <<frames, growth>>
         \/ /\ pc[g] = "dead"    \* run_g_free; the next G of this name is allocated
            /\ committed' = [committed EXCEPT ![g] = Fresh]
            /\ watermark' = [watermark EXCEPT ![g] = 0]
            /\ writable' = [writable EXCEPT ![g] = Pages(0, Fresh)]
            /\ sp' = [sp EXCEPT ![g] = 0] /\ pushed' = [pushed EXCEPT ![g] = 0]
            /\ want' = [want EXCEPT ![g] = 0] /\ frame' = [frame EXCEPT ![g] = NoCheck]
            /\ Goto(g, "run") /\ UNCHANGED <<cause, grown, fate>>
         \/ /\ on[g] # NULL /\ fate' = "raced"
            /\ UNCHANGED <<committed, watermark, writable, frames, growth>>
      /\ UNCHANGED on

-----------------------------------------------------------------------------
Continues(g) == Touch(g) \/ Check(g) \/ Fault(g) \/ Protect(g) \/ Store(g)
Program(g) ==
  \/ \E d \in 1 .. Frame : \/ \E checked \in BOOLEAN : Call(g, d, checked)
                           \/ Return(g, d)
  \/ Yield(g) \/ Exit(g)

Next ==
  /\ fate = "ok"
  /\ \/ \E g \in G : Program(g) \/ Continues(g) \/ Preempt(g)
     \/ \E m \in M : Look(m) \/ \E g \in G : Resume(m, g)

Spec == Init /\ [][Next]_vars

\* Threads go on, SIGURG leaves time for a step, and a G that was switched out is
\* resumed.
FairSpec ==
  /\ Spec
  /\ \A g \in G : /\ SF_vars(fate = "ok" /\ Continues(g))
                  /\ SF_vars(fate = "ok" /\ \E m \in M : Resume(m, g))
  /\ \A m \in M : WF_vars(fate = "ok" /\ Look(m))

-----------------------------------------------------------------------------
(* Properties *)

\* The fields hold values of their types.
StackTypeOK ==
  /\ committed \in [G -> 1 .. Size] /\ watermark \in [G -> 0 .. Size]
  /\ writable \in [G -> SUBSET Pages(0, Size)]
  /\ sp \in [G -> 0 .. Size] /\ pushed \in [G -> 0 .. Frame + SignalFrame]
  /\ want \in [G -> 0 .. Size + Frame] /\ frame \in [G -> NoCheck .. Size + Frame]
  /\ pc \in [G -> {"run", "touch", "fault", "check", "protect", "store", "dead"}]
  /\ cause \in [G -> {"check", "fault"}]
  /\ grown \in [G -> [old : 0 .. Size, new : 0 .. Size]]
  /\ on \in [G -> M \cup {NULL}] /\ look \in [M -> G \cup {NULL}]
  /\ fate \in {"ok", "crashed", "overrun", "overflow", "raced", "stale growth",
               "handler preempted", "no room for SIGURG"}

\* stack_committed is what the kernel has: but for a growth that is under way,
\* the G can write the committed part of its stack and faults below it.
CommittedIsReal ==
  fate = "ok" =>
    \A g \in G : writable[g] = Pages(0, IF pc[g] = "store" THEN AtLeast(committed[g], grown[g].new)
                                        ELSE committed[g])

\* No page that holds a live frame is taken away, one of a preemption included, in
\* whatever order the G deepens, returns and is switched out.
LiveFramesKept ==
  fate \in {"ok", "overflow"} => \A g \in G : Pages(0, Saved(g)) \subseteq writable[g]

\* "If the stack has reached RUN_STACK_MAX, it reports a stack overflow error"
\* (scheduler.md:379): only then.
OverflowMeansFull ==
  fate = "overflow" =>
    \E g \in G : pc[g] = "fault" /\ want[g] > Size - Page

\* "It commits the next page and resumes execution" (scheduler.md:379): a G that
\* touches its stack gets on.
TouchSucceeds ==
  \A g \in G : (pc[g] = "touch" /\ on[g] # NULL) ~> (pc[g] \in {"run", "check"} \/ fate # "ok")

\* "calls that never run the check themselves (libc: printf, snprintf, ...) have
\* stack to use" (run_scheduler.c:36): they do not fault.
HeadroomServes ==
  \A g \in G : (pc[g] = "touch" /\ want[g] # frame[g] /\ want[g] <= Size - Page) =>
    PageOf(want[g]) \in writable[g]

\* A stack that has been used up is noticed.
OverrunIsCaught == fate # "overrun"

\* A growth is not interrupted by a switch that changes what it has read.
GrowthIsAtomic == fate # "stale growth"

\* The loop shrinks the stack of no G that another M runs.
LookIsAlone == fate # "raced"

\* SIGURG finds room for its frames, whatever the G was doing.
SigurgHasRoom == fate # "no room for SIGURG"
=============================================================================
