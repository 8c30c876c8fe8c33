------------------------------ MODULE StackProofs ------------------------------
(***************************************************************************)
(* The committed part of a growable stack, for every page size, initial    *)
(* commit, headroom and maximum, and any number of Gs and Ms.              *)
(***************************************************************************)
EXTENDS Stack, WellFoundedInduction, TLAPS

-----------------------------------------------------------------------------
(* Pages *)

LEMMA Quotient ==
  ASSUME NEW n \in Nat
  PROVE  /\ n \div Page \in Nat /\ Page * (n \div Page) <= n
         /\ n < Page * (n \div Page) + Page
  BY StackAssumption

LEMMA PageMonotone ==
  ASSUME NEW a \in Nat, NEW b \in Nat, a <= b
  PROVE  PageOf(a) \in Nat /\ PageOf(b) \in Nat /\ PageOf(a) <= PageOf(b)
  <1> DEFINE x == a + Page - 1
             y == b + Page - 1
             p == x \div Page
             q == y \div Page
  <1>1. x \in Nat /\ y \in Nat /\ x <= y /\ Page \in Nat \ {0}
    BY StackAssumption
  <1>2. p \in Nat /\ q \in Nat /\ Page * p <= x /\ y < Page * q + Page
    BY <1>1, Quotient
  <1> HIDE DEF x, y, p, q
  <1>3. p <= q
    <2>1. SUFFICES ASSUME q + 1 <= p PROVE FALSE
      BY <1>2
    <2>2. Page * (q + 1) <= Page * p
      BY <1>1, <1>2, <2>1
    <2>3. Page * (q + 1) = Page * q + Page
      BY <1>1, <1>2
    <2> QED
      BY <1>1, <1>2, <2>2, <2>3
  <1> QED
    BY <1>2, <1>3 DEF PageOf, x, y, p, q

LEMMA NoPages == PageOf(0) = 0
  <1>1. Page - 1 \in Nat /\ Page - 1 < Page /\ Page \in Nat
    BY StackAssumption
  <1>2. (Page - 1) \div Page = 0
    <2> DEFINE p == (Page - 1) \div Page
    <2>1. p \in Nat /\ Page * p <= Page - 1
      BY <1>1, Quotient
    <2> HIDE DEF p
    <2>2. ~(p >= 1)
      BY <1>1, <2>1
    <2> QED
      BY <2>1, <2>2 DEF p
  <1> QED
    BY <1>1, <1>2 DEF PageOf

LEMMA AlignsUp ==
  ASSUME NEW n \in Nat PROVE AlignUp(n) \in Nat /\ AlignUp(n) >= n
  <1> DEFINE x == n + Page - 1
             p == x \div Page
  <1>1. x \in Nat /\ Page \in Nat \ {0}
    BY StackAssumption
  <1>2. p \in Nat /\ x < Page * p + Page
    BY <1>1, Quotient
  <1> HIDE DEF p
  <1>3. Page * p \in Nat /\ Page * p >= n /\ p * Page = Page * p
    BY <1>1, <1>2
  <1> QED
    BY <1>3 DEF AlignUp, p

\* The pages down to a depth, and those between two depths.
LEMMA PagesMeet ==
  ASSUME NEW a \in Nat, NEW b \in Nat, a <= b
  PROVE  /\ Pages(0, a) \cup Pages(a, b) = Pages(0, b)
         /\ Pages(0, b) \ Pages(a, b) = Pages(0, a)
         /\ Pages(0, a) \subseteq Pages(0, b)
  <1>1. PageOf(a) \in Nat /\ PageOf(b) \in Nat /\ PageOf(a) <= PageOf(b) /\ PageOf(0) = 0
    BY PageMonotone, NoPages
  <1> QED
    BY <1>1 DEF Pages

\* A G whose write has found its page has found all pages above it.
LEMMA PagesAbove ==
  ASSUME NEW a \in Nat, NEW b \in Nat, PageOf(a) \in Pages(0, b)
  PROVE  Pages(0, a) \subseteq Pages(0, b)
  <1>1. PageOf(a) \in Nat /\ PageOf(b) \in Nat /\ PageOf(0) = 0
    BY PageMonotone, NoPages
  <1> QED
    BY <1>1 DEF Pages

LEMMA AtLeastBoth ==
  ASSUME NEW a \in Nat, NEW b \in Nat
  PROVE  AtLeast(a, b) \in Nat /\ AtLeast(a, b) >= a /\ AtLeast(a, b) >= b
  BY DEF AtLeast

LEMMA LessIsAtMost ==
  ASSUME NEW a \in Nat, NEW b \in Nat, a < b PROVE a <= b
  OBVIOUS

-----------------------------------------------------------------------------
(* Powers of two *)

Pow == {n \in Nat \ {0} : \A d \in 2 .. n : n % d = 0 => d % 2 = 0}

\* Induction over the naturals, as a statement about sets.
LEMMA Least ==
  ASSUME NEW S \in SUBSET Nat, S # {}
  PROVE  \E m \in S : \A n \in S : m <= n
  <1> DEFINE R == {p \in Nat \X Nat : p[1] < p[2]}
  <1>1. IsWellFoundedOn(R, Nat)
    BY NatLessThanWellFounded DEF OpToRel
  <1> HIDE DEF R
  <1>2. PICK m \in S : \A n \in S : <<n, m>> \notin R
    BY <1>1, WFMin
  <1>3. \A n \in S : ~(n < m)
    BY <1>2 DEF R
  <1> QED
    BY <1>2, <1>3

\* A remainder of 0 is a multiple, and the other way round.
LEMMA Divided ==
  ASSUME NEW n \in Nat, NEW d \in Nat \ {0}, n % d = 0
  PROVE  n \div d \in Nat /\ n = d * (n \div d)
  OBVIOUS

LEMMA Multiple ==
  ASSUME NEW q \in Nat, NEW d \in Nat \ {0}
  PROVE  (d * q) % d = 0
  <1> DEFINE r == (d * q) % d
             p == (d * q) \div d
  <1>1. r \in 0 .. d - 1 /\ p \in Nat /\ d * q = d * p + r
    OBVIOUS
  <1> HIDE DEF r, p
  <1>2. q < p + 1
    <2>1. SUFFICES ASSUME q >= p + 1 PROVE FALSE
      BY <1>1
    <2>2. d * q >= d * (p + 1) /\ d * (p + 1) = d * p + d
      BY <1>1, <2>1
    <2> QED
      BY <1>1, <2>2
  <1>3. q >= p
    <2>1. SUFFICES ASSUME q + 1 <= p PROVE FALSE
      BY <1>1
    <2>2. d * (q + 1) <= d * p /\ d * (q + 1) = d * q + d
      BY <1>1, <2>1
    <2> QED
      BY <1>1, <2>2
  <1>4. q = p
    BY <1>1, <1>2, <1>3
  <1>5. r = 0
    BY <1>1, <1>4
  <1> QED
    BY <1>5 DEF r


\* A power of two other than 1 is twice a power of two.
LEMMA Halved ==
  ASSUME NEW n \in Pow, n # 1
  PROVE  \E h \in Pow : n = 2 * h
  <1>1. n \in Nat /\ n >= 2
    BY DEF Pow
  <1>2. n % n = 0
    <2>1. (n * 1) % n = 0
      BY <1>1, Multiple
    <2> QED
      BY <1>1, <2>1
  <1>3. PICK h \in Nat : n = 2 * h
    <2>1. n % 2 = 0
      BY <1>1, <1>2 DEF Pow
    <2> QED
      BY <1>1, <2>1, Divided
  <1>4. ASSUME NEW d \in 2 .. h, h % d = 0 PROVE d % 2 = 0
    <2>1. PICK q \in Nat : h = d * q
      BY <1>4, Divided
    <2>2. n = d * (2 * q) /\ d \in 2 .. n
      BY <1>3, <2>1
    <2>3. n % d = 0
      BY <2>1, <2>2, Multiple
    <2> QED
      BY <2>2, <2>3 DEF Pow
  <1>5. h \in Nat \ {0}
    BY <1>1, <1>3
  <1>6. h \in Pow
    BY <1>4, <1>5 DEF Pow
  <1> QED
    BY <1>3, <1>6

LEMMA Twice ==
  ASSUME NEW h \in Pow PROVE 2 * h \in Pow
  <1>1. h \in Nat /\ h >= 1
    BY DEF Pow
  <1>2. ASSUME NEW d \in 2 .. 2 * h, (2 * h) % d = 0 PROVE d % 2 = 0
    <2>1. SUFFICES ASSUME d % 2 # 0 PROVE FALSE
      OBVIOUS
    <2>2. PICK e \in Nat : d = 2 * e + 1
      <3> DEFINE e == d \div 2
      <3>1. e \in Nat /\ d = 2 * e + 1
        BY <1>1, <2>1
      <3> QED
        BY <3>1
    <2>3. PICK q \in Nat : 2 * h = d * q
      BY <1>1, <1>2, Divided
    <2>4. q = 2 * (h - e * q)
      BY <1>1, <2>2, <2>3
    <2>5. h - e * q \in Nat
      BY <1>1, <2>2, <2>3, <2>4
    <2> DEFINE p == h - e * q
    <2> HIDE DEF p
    <2>6. p \in Nat /\ q = 2 * p
      BY <2>4, <2>5 DEF p
    <2>7. h = d * p
      BY <1>1, <2>3, <2>6
    <2>8. h % d = 0
      BY <2>6, <2>7, Multiple
    <2>9. d <= h
      <3>1. p >= 1
        BY <1>1, <2>6, <2>7
      <3> QED
        BY <2>6, <2>7, <3>1
    <2> QED
      BY <1>1, <2>1, <2>8, <2>9 DEF Pow
  <1> QED
    BY <1>1, <1>2 DEF Pow

\* Induction over the powers of two.
LEMMA PowInduction ==
  ASSUME NEW S, 1 \in S, \A h \in Pow : h \in S => 2 * h \in S
  PROVE  Pow \subseteq S
  <1>1. SUFFICES ASSUME Pow \ S # {} PROVE FALSE
    OBVIOUS
  <1>2. PICK m \in Pow \ S : \A n \in Pow \ S : m <= n
    BY <1>1, Least DEF Pow
  <1>3. PICK h \in Pow : m = 2 * h
    BY <1>2, Halved
  <1>4. h \in Nat /\ h >= 1 /\ h < m
    BY <1>3 DEF Pow
  <1>5. h \in S
    BY <1>2, <1>3, <1>4
  <1> QED
    BY <1>2, <1>3, <1>5

LEMMA One == 1 \in Pow
  BY DEF Pow

\* The product of two is one, and the smaller of two divides the larger, by one.
LEMMA Product ==
  ASSUME NEW a \in Pow, NEW b \in Pow PROVE a * b \in Pow
  <1> DEFINE S == {n \in Nat : a * n \in Pow}
  <1>1. a \in Nat /\ a * 1 = a /\ Pow \subseteq Nat
    BY DEF Pow
  <1>2. 1 \in S
    BY <1>1
  <1>3. ASSUME NEW h \in Pow, h \in S PROVE 2 * h \in S
    <2>1. 2 * (a * h) \in Pow
      BY <1>3, Twice
    <2>2. 2 * (a * h) = a * (2 * h) /\ 2 * h \in Nat
      BY <1>1, <1>3
    <2> QED
      BY <2>1, <2>2
  <1> HIDE DEF S
  <1>4. b \in S
    BY <1>2, <1>3, PowInduction
  <1> QED
    BY <1>4 DEF S

LEMMA Comparable ==
  ASSUME NEW a \in Pow, NEW b \in Pow, a <= b PROVE \E q \in Pow : b = a * q
  <1> DEFINE S == {n \in Nat : \A c \in Pow : \/ \E q \in Pow : n = c * q
                                            \/ \E q \in Pow : c = n * q}
  <1>1. Pow \subseteq Nat \ {0}
    BY DEF Pow
  <1>2. 1 \in S
    <2>1. \A c \in Pow : c = 1 * c
      BY <1>1
    <2> QED
      BY <2>1
  <1>3. ASSUME NEW h \in Pow, h \in S PROVE 2 * h \in S
    <2>1. SUFFICES ASSUME NEW c \in Pow
                   PROVE  (\E q \in Pow : 2 * h = c * q) \/ (\E q \in Pow : c = (2 * h) * q)
      BY <1>1
    <2>2. CASE \E q \in Pow : h = c * q
      <3>1. PICK q \in Pow : h = c * q
        BY <2>2
      <3>2. 2 * h = c * (2 * q) /\ 2 * q \in Pow
        BY <1>1, <3>1, Twice
      <3> QED
        BY <3>2
    <2>3. CASE \E q \in Pow : c = h * q
      <3>1. PICK q \in Pow : c = h * q
        BY <2>3
      <3>2. CASE q = 1
        <4>1. 2 * h = c * 2 /\ 2 = 2 * 1
          BY <1>1, <3>1, <3>2
        <4> QED
          BY <4>1, One, Twice
      <3>3. CASE q # 1
        <4>1. PICK r \in Pow : q = 2 * r
          BY <3>3, Halved
        <4>2. c = (2 * h) * r
          BY <1>1, <3>1, <4>1
        <4> QED
          BY <4>2
      <3> QED
        BY <3>2, <3>3
    <2> QED
      BY <1>3, <2>2, <2>3
  <1> HIDE DEF S
  <1>4. b \in S
    BY <1>2, <1>3, PowInduction
  <1>5. (\E q \in Pow : b = a * q) \/ (\E q \in Pow : a = b * q)
    BY <1>4 DEF S
  <1>6. ASSUME NEW q \in Pow, a = b * q PROVE b = a * 1
    <2>1. q >= 1 /\ a >= 1 /\ b >= 1 /\ q \in Nat /\ a \in Nat /\ b \in Nat
      BY <1>1
    <2>2. b * q >= b
      BY <2>1
    <2> QED
      BY <1>6, <2>1, <2>2
  <1> QED
    BY <1>5, <1>6, One

-----------------------------------------------------------------------------
(* The committed part *)

PC == {"run", "touch", "fault", "check", "protect", "store", "dead"}

Types ==
  /\ committed \in [G -> Nat] /\ watermark \in [G -> Nat]
  /\ writable \in [G -> SUBSET Int]
  /\ sp \in [G -> Nat] /\ pushed \in [G -> Nat] /\ want \in [G -> Nat]
  /\ \A g \in G : sp[g] <= want[g]
  /\ pc \in [G -> PC] /\ grown \in [G -> [old : Nat, new : Nat]]

\* A growth starts from the present count and goes beyond it.
Growing ==
  \A g \in G : pc[g] \in {"protect", "store"} =>
    grown[g].old = committed[g] /\ committed[g] <= grown[g].new

\* The pages the kernel lets g write, and the frames of g, which are in them.
RealOf(g) == writable[g] = Pages(0, IF pc[g] = "store" THEN grown[g].new ELSE committed[g])
LiveOf(g) == Pages(0, Saved(g)) \subseteq writable[g]

StackInv == Types /\ (fate = "ok" => Growing /\ \A g \in G : RealOf(g) /\ LiveOf(g))
                  /\ LiveFramesKept

LEMMA InvImplies == StackInv => CommittedIsReal
  <1>1. SUFFICES ASSUME StackInv, fate = "ok", NEW g \in G
                 PROVE  writable[g] = Pages(0, IF pc[g] = "store"
                                              THEN AtLeast(committed[g], grown[g].new)
                                              ELSE committed[g])
    BY DEF CommittedIsReal
  <1>2. committed[g] \in Nat /\ grown[g].new \in Nat
    BY <1>1 DEF StackInv, Types
  <1>3. pc[g] = "store" => AtLeast(committed[g], grown[g].new) = grown[g].new
    BY <1>1, <1>2 DEF StackInv, Growing, AtLeast
  <1> QED
    BY <1>1, <1>3 DEF StackInv, RealOf

LEMMA SavedNat ==
  ASSUME Types, NEW g \in G PROVE Saved(g) \in Nat
  BY DEF Types, Saved

\* What is left to show of a step once the types are: of the Gs other than g
\* nothing changes.
LEMMA OneChanges ==
  ASSUME StackInv, fate = "ok", Types', NEW g \in G,
         \A h \in G \ {g} : /\ UNCHANGED <<committed[h], writable[h], sp[h], pushed[h]>>
                            /\ UNCHANGED <<grown[h], pc[h]>>,
         pc'[g] \in {"protect", "store"} =>
           grown'[g].old = committed'[g] /\ committed'[g] <= grown'[g].new,
         RealOf(g)', LiveOf(g)'
  PROVE  StackInv'
  <1>1. Growing'
    BY DEF StackInv, Growing
  <1>2. \A h \in G : RealOf(h)' /\ LiveOf(h)'
    BY DEF StackInv, RealOf, LiveOf, Saved
  <1> QED
    BY <1>1, <1>2 DEF StackInv, LiveFramesKept, LiveOf

LEMMA InvInit == Init => StackInv
  <1> SUFFICES ASSUME Init PROVE StackInv
    OBVIOUS
  <1>1. Fresh \in Nat
    BY StackAssumption, AtLeastBoth DEF Fresh
  <1>2. Types
    <2>1. Pages(0, Fresh) \subseteq Int
      BY DEF Pages
    <2> QED
      BY <1>1, <2>1 DEF Init, Types, PC, NoGrowth
  <1>3. \A g \in G : /\ pc[g] = "run" /\ Saved(g) = 0 /\ committed[g] = Fresh
                    /\ writable[g] = Pages(0, Fresh)
    <2>1. \A g \in G : sp[g] = 0 /\ pushed[g] = 0
      BY DEF Init
    <2>3. 0 + 0 = 0
      OBVIOUS
    <2>2. \A g \in G : pc[g] = "run" /\ committed[g] = Fresh /\ writable[g] = Pages(0, Fresh)
      BY DEF Init
    <2> QED
      BY <2>1, <2>2, <2>3, Zenon DEF Saved
  <1>4. Pages(0, 0) = {}
    BY NoPages DEF Pages
  <1> QED
    BY <1>2, <1>3, <1>4 DEF StackInv, Growing, RealOf, LiveOf, LiveFramesKept

\* The steps that neither change the stack nor write deeper.
LEMMA Unmoved ==
  ASSUME StackInv, fate = "ok", Types', UNCHANGED <<committed, writable, grown>>,
         \A h \in G : sp'[h] <= sp[h] /\ pushed'[h] <= pushed[h],
         \A h \in G : pc[h] \in {"protect", "store"} => pc'[h] = pc[h],
         \A h \in G : pc'[h] \in {"protect", "store"} => pc'[h] = pc[h]
  PROVE  StackInv'
  <1>0. Growing /\ \A h \in G : RealOf(h) /\ LiveOf(h)
    BY DEF StackInv
  <1>1. Growing'
    BY <1>0 DEF Growing
  <1>2. ASSUME NEW h \in G PROVE RealOf(h)'
    <2>1. pc'[h] = "store" <=> pc[h] = "store"
      OBVIOUS
    <2>2. writable[h] = Pages(0, IF pc[h] = "store" THEN grown[h].new ELSE committed[h])
      BY <1>0 DEF RealOf
    <2>3. (IF pc'[h] = "store" THEN grown'[h].new ELSE committed'[h])
          = (IF pc[h] = "store" THEN grown[h].new ELSE committed[h])
      BY <2>1
    <2> QED
      BY <2>2, <2>3 DEF RealOf
  <1>3. ASSUME NEW h \in G PROVE LiveOf(h)'
    <2>1. Saved(h) \in Nat /\ Saved(h)' \in Nat /\ Saved(h)' <= Saved(h)
      BY DEF StackInv, Types, Saved
    <2>2. Pages(0, Saved(h)') \subseteq Pages(0, Saved(h))
      BY <2>1, PagesMeet
    <2> QED
      BY <1>0, <2>2 DEF LiveOf, Pages
  <1> QED
    BY <1>1, <1>2, <1>3 DEF StackInv, LiveFramesKept, LiveOf

LEMMA CallKeeps ==
  ASSUME StackInv, fate = "ok", NEW g \in G, NEW d \in 1 .. Frame, NEW checked \in BOOLEAN,
         Call(g, d, checked)
  PROVE  StackInv'
  <1>1. d \in Nat
    BY StackAssumption
  <1>2. Types'
    BY <1>1 DEF Call, StackInv, Types, Goto, PC
  <1> QED
    BY <1>2, Unmoved DEF Call, StackInv, Types, Goto, Running

LEMMA ReturnKeeps ==
  ASSUME StackInv, fate = "ok", NEW g \in G, NEW d \in 1 .. Frame, Return(g, d)
  PROVE  StackInv'
  <1>1. d \in Nat /\ sp[g] \in Nat /\ d < sp[g] /\ sp' = [sp EXCEPT ![g] = sp[g] - d]
    BY StackAssumption DEF Return, StackInv, Types
  <1>2. /\ sp' \in [G -> Nat] /\ \A h \in G : sp'[h] <= sp[h]
        /\ UNCHANGED <<pushed, want>>
    BY <1>1 DEF Return, StackInv, Types
  <1>3. Types'
    BY <1>2 DEF Return, StackInv, Types, growth
  <1> QED
    BY <1>2, <1>3, Unmoved DEF Return, StackInv, Types, growth

LEMMA TouchKeeps ==
  ASSUME StackInv, fate = "ok", NEW g \in G, Touch(g), pushed[g] = 0 PROVE StackInv'
  <1>1. Types'
    <2>1. sp' \in [G -> Nat] /\ \A h \in G : sp'[h] <= want[h]
      <3>1. sp \in [G -> Nat] /\ want \in [G -> Nat] /\ \A h \in G : sp[h] <= want[h]
        BY DEF StackInv, Types
      <3>2. UNCHANGED sp \/ sp' = [sp EXCEPT ![g] = want[g]]
        BY DEF Touch
      <3>3. want[g] <= want[g]
        BY <3>1
      <3> QED
        BY <3>1, <3>2, <3>3
    <2> QED
      BY <2>1 DEF Touch, StackInv, Types, Goto, PC
  <1>2. CASE sp' = [sp EXCEPT ![g] = want[g]]
    <2>1. CASE sp' # sp
      <3>1. /\ PageOf(want[g]) \in writable[g] /\ pc[g] = "touch" /\ pc'[g] \in {"check", "run"}
            /\ \A h \in G \ {g} : sp'[h] = sp[h] /\ pc'[h] = pc[h]
            /\ Saved(g)' = want[g] /\ want[g] \in Nat /\ committed[g] \in Nat
        BY <1>2, <2>1 DEF Touch, StackInv, Types, Goto, Running, Saved
      <3>2. writable[g] = Pages(0, committed[g])
        BY <3>1 DEF StackInv, RealOf
      <3>3. Pages(0, want[g]) \subseteq Pages(0, committed[g])
        BY <3>1, <3>2, PagesAbove
      <3> QED
        BY <1>1, <3>1, <3>2, <3>3, OneChanges DEF Touch, RealOf, LiveOf
    <2> QED
      BY <1>1, <2>1, Unmoved DEF Touch, StackInv, Types, Goto, Running
  <1>3. CASE UNCHANGED sp
    BY <1>1, <1>3, Unmoved DEF Touch, StackInv, Types, Goto, Running
  <1> QED
    BY <1>2, <1>3 DEF Touch

\* Nothing of the stack changes, or a growth begins.
LEMMA GrowToKeeps ==
  ASSUME StackInv, fate = "ok", NEW g \in G, NEW depth \in Nat, NEW for, NEW back \in PC,
         pc[g] \notin {"protect", "store"}, back \notin {"protect", "store"},
         watermark' \in [G -> Nat], GrowTo(g, depth, for, back)
  PROVE  StackInv'
  <1> DEFINE needed == AlignUp(depth + Page)
  <1>1. needed \in Nat /\ committed[g] \in Nat
    BY StackAssumption, AlignsUp DEF StackInv, Types
  <1>2. UNCHANGED <<committed, writable, sp, pushed, want>>
    BY DEF GrowTo, frames
  <1>3. CASE needed <= committed[g]
    <2>1. UNCHANGED grown /\ pc' = [pc EXCEPT ![g] = back]
      BY <1>1, <1>3 DEF GrowTo, Goto
    <2>2. Types'
      BY <1>2, <2>1 DEF StackInv, Types
    <2> QED
      BY <1>2, <2>1, <2>2, Unmoved DEF StackInv, Types
  <1>4. CASE needed > committed[g]
    <2>1. PICK new \in 0 .. 2 * Size :
            \/ /\ new >= needed
               /\ grown' = [grown EXCEPT ![g] = [old |-> committed[g], new |-> new]]
               /\ pc' = [pc EXCEPT ![g] = "protect"]
            \/ fate' = "overflow" /\ UNCHANGED <<pc, grown>>
      BY <1>1, <1>4 DEF GrowTo, Goto
    <2>2. new \in Nat
      BY StackAssumption
    <2>3. CASE fate' = "overflow" /\ UNCHANGED <<pc, grown>>
      <3>1. Types'
        BY <1>2, <2>3 DEF StackInv, Types
      <3> QED
        BY <1>2, <2>3, <3>1, Unmoved DEF StackInv, Types
    <2>4. CASE /\ new >= needed
               /\ grown' = [grown EXCEPT ![g] = [old |-> committed[g], new |-> new]]
               /\ pc' = [pc EXCEPT ![g] = "protect"]
      <3>1. Types'
        BY <1>1, <1>2, <2>2, <2>4 DEF StackInv, Types, PC
      <3>2. /\ pc'[g] = "protect" /\ grown'[g] = [old |-> committed[g], new |-> new]
            /\ committed[g] <= new
            /\ \A h \in G \ {g} : grown'[h] = grown[h] /\ pc'[h] = pc[h]
        BY <1>1, <1>4, <2>2, <2>4 DEF StackInv, Types
      <3>3. RealOf(g) /\ LiveOf(g)
        BY DEF StackInv
      <3>4. RealOf(g)' /\ LiveOf(g)'
        BY <1>2, <3>2, <3>3 DEF RealOf, LiveOf, Saved
      <3> QED
        BY <1>2, <3>1, <3>2, <3>4, OneChanges
    <2> QED
      BY <2>1, <2>3, <2>4
  <1> QED
    BY <1>1, <1>3, <1>4

LEMMA CheckKeeps ==
  ASSUME StackInv, fate = "ok", NEW g \in G, Check(g) PROVE StackInv'
  <1>1. sp[g] \in Nat /\ watermark[g] \in Nat /\ watermark \in [G -> Nat]
    BY DEF StackInv, Types
  <1>2. Target(g) \in Nat
    BY <1>1, StackAssumption DEF Target
  <1>3. watermark' \in [G -> Nat]
    <2>1. AtLeast(watermark[g], sp[g]) \in Nat
      BY <1>1, AtLeastBoth
    <2> QED
      BY <1>1, <2>1 DEF Check, Recorded
  <1>4. GrowTo(g, Target(g), "check", "run") /\ pc[g] = "check"
    BY DEF Check, Running
  <1> QED
    BY <1>2, <1>3, <1>4, GrowToKeeps DEF PC

LEMMA FaultKeeps ==
  ASSUME StackInv, fate = "ok", NEW g \in G, Fault(g) PROVE StackInv'
  <1>1. want[g] \in Nat /\ pc[g] = "fault" /\ watermark' \in [G -> Nat]
    BY DEF Fault, Running, StackInv, Types
  <1>2. CASE GrowTo(g, want[g], "fault", "touch")
    BY <1>1, <1>2, GrowToKeeps DEF PC
  <1>3. CASE UNCHANGED <<committed, writable, frames, growth>>
    <2>1. UNCHANGED <<committed, writable, sp, pushed, want, pc, grown>>
      BY <1>3 DEF frames, growth
    <2>2. Types'
      BY <1>1, <2>1 DEF StackInv, Types
    <2> QED
      BY <2>1, <2>2, Unmoved DEF StackInv, Types
  <1> QED
    BY <1>2, <1>3 DEF Fault

LEMMA ProtectKeeps ==
  ASSUME StackInv, fate = "ok", NEW g \in G, Protect(g) PROVE StackInv'
  <1>1. /\ UNCHANGED <<committed, watermark, sp, pushed, want, grown>>
        /\ pc[g] = "protect" /\ pc' = [pc EXCEPT ![g] = "store"]
        /\ writable' = [writable EXCEPT ![g] = writable[g] \cup Pages(grown[g].old, grown[g].new)]
    BY DEF Protect, Goto, Running, frames
  <1>2. Types'
    <2>1. Pages(grown[g].old, grown[g].new) \subseteq Int
      BY DEF Pages
    <2> QED
      BY <1>1, <2>1 DEF StackInv, Types, PC
  <1>3. /\ grown[g].old = committed[g] /\ committed[g] <= grown[g].new
        /\ committed[g] \in Nat /\ grown[g].new \in Nat
    BY <1>1 DEF StackInv, Types, Growing
  <1>4. RealOf(g) /\ LiveOf(g)
    BY DEF StackInv
  <1>5. /\ pc'[g] = "store" /\ writable'[g] = writable[g] \cup Pages(committed[g], grown[g].new)
        /\ \A h \in G \ {g} : writable'[h] = writable[h] /\ pc'[h] = pc[h]
    BY <1>1, <1>3 DEF StackInv, Types
  <1>6. writable[g] = Pages(0, committed[g])
    BY <1>1, <1>4 DEF RealOf
  <1>7. writable'[g] = Pages(0, grown[g].new)
    BY <1>3, <1>5, <1>6, PagesMeet
  <1>8. RealOf(g)' /\ LiveOf(g)'
    BY <1>1, <1>4, <1>5, <1>7 DEF RealOf, LiveOf, Saved
  <1> QED
    BY <1>1, <1>2, <1>3, <1>5, <1>8, OneChanges

LEMMA StoreKeeps ==
  ASSUME StackInv, fate = "ok", NEW g \in G, Store(g) PROVE StackInv'
  <1>1. /\ UNCHANGED <<watermark, writable, sp, pushed, want>> /\ pc[g] = "store"
        /\ pc' = [pc EXCEPT ![g] = IF cause[g] = "fault" THEN "touch" ELSE "run"]
        /\ committed' = [committed EXCEPT ![g] = grown[g].new]
        /\ grown' = [grown EXCEPT ![g] = NoGrowth]
    BY DEF Store, Goto, Running, frames
  <1>2. /\ committed[g] <= grown[g].new /\ committed[g] \in Nat /\ grown[g].new \in Nat
    BY <1>1 DEF StackInv, Types, Growing
  <1>3. Types'
    BY <1>1, <1>2 DEF StackInv, Types, PC, NoGrowth
  <1>4. /\ pc'[g] \in {"touch", "run"} /\ committed'[g] = grown[g].new
        /\ \A h \in G \ {g} : /\ committed'[h] = committed[h] /\ grown'[h] = grown[h]
                              /\ pc'[h] = pc[h]
    BY <1>1 DEF StackInv, Types
  <1>5. RealOf(g) /\ LiveOf(g)
    BY DEF StackInv
  <1>6. RealOf(g)' /\ LiveOf(g)'
    BY <1>1, <1>4, <1>5 DEF RealOf, LiveOf, Saved
  <1> QED
    BY <1>1, <1>3, <1>4, <1>6, OneChanges

\* A switch leaves the stack as it is.
LEMMA SwitchKeeps ==
  ASSUME StackInv, fate = "ok", NEW g \in G,
         UNCHANGED <<committed, watermark, writable, frames, grown>>,
         UNCHANGED pc \/ (pc[g] = "run" /\ \E at \in {"run", "dead"} : Goto(g, at))
  PROVE  StackInv'
  <1>1. UNCHANGED <<committed, watermark, writable, sp, pushed, want, grown>>
    BY DEF frames
  <1>2. pc' \in [G -> PC] /\ \A h \in G : pc'[h] # pc[h] => pc[h] = "run" /\ pc'[h] = "dead"
    BY DEF StackInv, Types, Goto, PC
  <1>3. Types'
    BY <1>1, <1>2 DEF StackInv, Types
  <1> QED
    BY <1>1, <1>2, <1>3, Unmoved DEF StackInv, Types

\* The frames of a preemption are pages the G can write, and those above are too.
LEMMA PreemptKeeps ==
  ASSUME StackInv, fate = "ok", NEW g \in G, Preempt(g) PROVE StackInv'
  <1>1. UNCHANGED <<committed, watermark, writable, sp, want, grown>>
    BY DEF Preempt
  <1>2. CASE UNCHANGED <<pushed, pc>>
    <2>1. Types'
      BY <1>1, <1>2 DEF StackInv, Types
    <2> QED
      BY <1>1, <1>2, <2>1, Unmoved DEF StackInv, Types
  <1>3. ASSUME NEW depth \in {sp[g], want[g]}, PageOf(depth + SignalFrame) \in writable[g],
               NEW n, n = depth + SignalFrame - sp[g], pushed' = [pushed EXCEPT ![g] = n],
               SwitchOut(g, pc[g])
        PROVE  StackInv'
    <2> DEFINE deep == depth + SignalFrame
               end == IF pc[g] = "store" THEN grown[g].new ELSE committed[g]
    <2>1. deep \in Nat /\ end \in Nat /\ sp[g] \in Nat /\ sp[g] <= deep
      BY StackAssumption DEF StackInv, Types
    <2>2. UNCHANGED pc
      BY <1>3 DEF SwitchOut, Goto, StackInv, Types
    <2>3. /\ pushed' \in [G -> Nat] /\ pushed'[g] = deep - sp[g]
          /\ \A h \in G \ {g} : pushed'[h] = pushed[h]
      <3>1. n = deep - sp[g]
        <4>1. n = depth + (SignalFrame - sp[g])
          BY <1>3, Zenon
        <4>2. depth \in Nat /\ SignalFrame \in Nat
          BY StackAssumption DEF StackInv, Types
        <4> QED
          BY <2>1, <4>1, <4>2
      <3>2. pushed \in [G -> Nat]
        BY DEF StackInv, Types
      <3>3. n \in Nat
        <4> HIDE DEF deep
        <4> QED
          BY <2>1, <3>1
      <3>4. pushed' \in [G -> Nat] /\ pushed'[g] = n /\ \A h \in G \ {g} : pushed'[h] = pushed[h]
        BY <1>3, <3>2, <3>3
      <3> QED
        BY <3>1, <3>4, Zenon
    <2>4. Saved(g)' = deep
      BY <1>1, <2>1, <2>3 DEF Saved
    <2>5. RealOf(g)
      BY DEF StackInv
    <2>6. writable[g] = Pages(0, end)
      BY <2>5 DEF RealOf
    <2> HIDE DEF deep, end
    <2>7. Pages(0, deep) \subseteq writable[g]
      BY <1>3, <2>1, <2>6, PagesAbove DEF deep
    <2>8. RealOf(g)' /\ LiveOf(g)'
      BY <1>1, <2>2, <2>4, <2>5, <2>7 DEF RealOf, LiveOf
    <2>9. Types'
      BY <1>1, <2>2, <2>3 DEF StackInv, Types
    <2>10. pc[g] \in {"protect", "store"} =>
             grown[g].old = committed[g] /\ committed[g] <= grown[g].new
      BY DEF StackInv, Growing
    <2> QED
      BY <1>1, <2>2, <2>3, <2>8, <2>9, <2>10, OneChanges
  <1> QED
    BY <1>2, <1>3 DEF Preempt

\* A G that is resumed has left the frames of its preemption.
LEMMA ResumeKeeps ==
  ASSUME StackInv, fate = "ok", NEW m \in M, NEW g \in G, Resume(m, g) PROVE StackInv'
  <1>1. /\ UNCHANGED <<committed, watermark, writable, sp, want, pc, grown>>
        /\ pushed' = [pushed EXCEPT ![g] = 0]
    BY DEF Resume, growth
  <1>2. pushed' \in [G -> Nat] /\ \A h \in G : pushed'[h] <= pushed[h]
    BY <1>1 DEF StackInv, Types
  <1>3. Types'
    BY <1>1, <1>2 DEF StackInv, Types
  <1> QED
    BY <1>1, <1>2, <1>3, Unmoved DEF StackInv, Types

-----------------------------------------------------------------------------
(* The loop's look at a G *)

\* A stack is not made smaller than what is in use.
LEMMA EnoughIsLeft ==
  ASSUME StackInv, NEW g \in G, NEW target,
         target = LET half == committed[g] \div 2
                      twice == Used(g) * HYSTERESIS
                  IN  AtLeast(IF half < twice THEN AlignUp(twice) ELSE half, Initial)
  PROVE  target \in Nat /\ Saved(g) <= target
  <1> DEFINE c == committed[g]
             u == Used(g)
             half == c \div 2
             twice == u * HYSTERESIS
             some == IF half < twice THEN AlignUp(twice) ELSE half
             d == Saved(g)
  <1>1. c \in Nat /\ d \in Nat /\ watermark[g] \in Nat /\ Initial \in Nat
    BY StackAssumption DEF StackInv, Types, Saved
  <1>2. u \in Nat /\ u >= d
    <2> DEFINE deep == AtLeast(watermark[g], d)
    <2>1. deep \in Nat /\ deep >= d
      BY <1>1, AtLeastBoth
    <2> HIDE DEF deep
    <2>2. AlignUp(deep) \in Nat /\ AlignUp(deep) >= deep
      BY <2>1, AlignsUp
    <2>3. /\ AtLeast(AlignUp(deep), Initial) \in Nat
          /\ AtLeast(AlignUp(deep), Initial) >= AlignUp(deep)
      BY <1>1, <2>2, AtLeastBoth
    <2>4. u = AtLeast(AlignUp(deep), Initial)
      BY DEF Used, deep
    <2> QED
      BY <1>1, <2>1, <2>2, <2>3, <2>4
  <1>3. half \in Nat
    BY <1>1
  <1> HIDE DEF c, u, half, d
  <1>4. twice \in Nat /\ twice >= d
    BY <1>1, <1>2 DEF HYSTERESIS
  <1> HIDE DEF twice
  <1>5. AlignUp(twice) \in Nat /\ AlignUp(twice) >= twice
    BY <1>4, AlignsUp
  <1>6. some \in Nat /\ some >= d
    BY <1>1, <1>3, <1>4, <1>5
  <1> HIDE DEF some
  <1>7. AtLeast(some, Initial) \in Nat /\ AtLeast(some, Initial) >= some
    BY <1>1, <1>6, AtLeastBoth
  <1>8. target = AtLeast(some, Initial)
    BY DEF some, half, twice, u, c
  <1> QED
    BY <1>1, <1>6, <1>7, <1>8 DEF d

LEMMA ReleaseKeeps ==
  ASSUME StackInv, fate = "ok", NEW g \in G, NEW target \in Nat,
         Saved(g) <= target, target <= committed[g], Release(g, target),
         watermark' \in [G -> Nat], UNCHANGED <<frames, growth>>,
         pc[g] \in {"protect", "store"} => fate' = "stale growth"
  PROVE  StackInv'
  <1>1. /\ UNCHANGED <<sp, pushed, want, pc, grown>>
        /\ writable' = [writable EXCEPT ![g] = writable[g] \ Pages(target, committed[g])]
        /\ committed' = [committed EXCEPT ![g] = target]
    BY DEF Release, frames, growth
  <1>2. Types'
    BY <1>1 DEF StackInv, Types
  <1>3. CASE pc[g] \in {"protect", "store"}
    BY <1>2, <1>3 DEF StackInv, LiveFramesKept
  <1>4. CASE pc[g] \notin {"protect", "store"}
    <2>1. committed[g] \in Nat /\ Saved(g) \in Nat
      BY SavedNat DEF StackInv, Types
    <2>2. /\ committed'[g] = target /\ writable'[g] = writable[g] \ Pages(target, committed[g])
          /\ \A h \in G \ {g} : committed'[h] = committed[h] /\ writable'[h] = writable[h]
      BY <1>1 DEF StackInv, Types
    <2>3. writable[g] = Pages(0, committed[g])
      BY <1>4 DEF StackInv, RealOf
    <2>4. writable'[g] = Pages(0, target)
      <3>1. Pages(0, committed[g]) \ Pages(target, committed[g]) = Pages(0, target)
        BY <2>1, PagesMeet
      <3> QED
        BY <2>2, <2>3, <3>1
    <2>5. Pages(0, Saved(g)) \subseteq Pages(0, target)
      BY <2>1, PagesMeet
    <2>6. RealOf(g)' /\ LiveOf(g)'
      BY <1>1, <1>4, <2>2, <2>4, <2>5 DEF RealOf, LiveOf, Saved
    <2> QED
      BY <1>1, <1>2, <1>4, <2>2, <2>6, OneChanges
  <1> QED
    BY <1>3, <1>4

LEMMA ShrinkKeeps ==
  ASSUME StackInv, fate = "ok", NEW g \in G, Shrink(g), UNCHANGED <<frames, growth>>
  PROVE  StackInv'
  <1> DEFINE half == committed[g] \div 2
             twice == Used(g) * HYSTERESIS
             target == AtLeast(IF half < twice THEN AlignUp(twice) ELSE half, Initial)
  <1>1. target \in Nat /\ Saved(g) <= target
    BY EnoughIsLeft
  <1>2. watermark[g] \in Nat /\ Saved(g) \in Nat
    BY DEF StackInv, Types, Saved
  <1>3. watermark' \in [G -> Nat]
    <2>1. AtLeast(watermark[g], Saved(g)) \in Nat
      BY <1>2, AtLeastBoth
    <2> QED
      BY <1>2, <2>1 DEF Shrink, Recorded, StackInv, Types
  <1>4. CASE UNCHANGED <<committed, writable>>
    <2>1. UNCHANGED <<sp, pushed, want, pc, grown>>
      BY DEF frames, growth
    <2>2. Types'
      BY <1>3, <1>4, <2>1 DEF StackInv, Types
    <2> QED
      BY <1>4, <2>1, <2>2, Unmoved DEF StackInv, Types
  <1>5. CASE /\ target < committed[g] /\ Release(g, target)
             /\ fate' = IF pc[g] \in {"protect", "store"} THEN "stale growth" ELSE fate
    <2> HIDE DEF target
    <2>1. committed[g] \in Nat
      BY DEF StackInv, Types
    <2>2. target < committed[g]
      BY <1>5, Zenon
    <2>3. target <= committed[g]
      BY <1>1, <2>1, <2>2, LessIsAtMost, Zenon
    <2> QED
      BY <1>1, <1>3, <1>5, <2>3, ReleaseKeeps
  <1> QED
    BY <1>4, <1>5 DEF Shrink

LEMMA LookKeeps ==
  ASSUME StackInv, fate = "ok", NEW m \in M, Look(m), NEW g \in G, g = look[m]
  PROVE  StackInv'
  <1>1. CASE Shrink(g) /\ UNCHANGED <<frames, growth>>
    BY <1>1, ShrinkKeeps
  <1>2. CASE /\ fate' = "raced"
             /\ UNCHANGED <<committed, watermark, writable, frames, growth>>
    <2>1. Types'
      BY <1>2 DEF StackInv, Types, frames, growth
    <2> QED
      BY <1>2, <2>1 DEF StackInv, LiveFramesKept
  <1>3. CASE /\ committed' = [committed EXCEPT ![g] = Fresh]
             /\ watermark' = [watermark EXCEPT ![g] = 0]
             /\ writable' = [writable EXCEPT ![g] = Pages(0, Fresh)]
             /\ sp' = [sp EXCEPT ![g] = 0] /\ pushed' = [pushed EXCEPT ![g] = 0]
             /\ want' = [want EXCEPT ![g] = 0]
             /\ Goto(g, "run") /\ UNCHANGED grown
    <2>1. Fresh \in Nat
      BY StackAssumption, AtLeastBoth DEF Fresh
    <2>2. Pages(0, Fresh) \subseteq Int
      BY DEF Pages
    <2>3. Types'
      BY <1>3, <2>1, <2>2 DEF StackInv, Types, Goto, PC
    <2>4. /\ committed'[g] = Fresh /\ writable'[g] = Pages(0, Fresh) /\ Saved(g)' = 0
          /\ pc'[g] = "run"
          /\ \A h \in G \ {g} : /\ UNCHANGED <<committed[h], writable[h], sp[h], pushed[h]>>
                                /\ UNCHANGED <<grown[h], pc[h]>>
      BY <1>3 DEF StackInv, Types, Goto, Saved
    <2>5. Pages(0, 0) = {}
      BY NoPages DEF Pages
    <2>6. RealOf(g)' /\ LiveOf(g)'
      BY <2>4, <2>5 DEF RealOf, LiveOf
    <2> QED
      BY <2>3, <2>4, <2>6, OneChanges
  <1> QED
    BY <1>1, <1>2, <1>3 DEF Look

-----------------------------------------------------------------------------
\* The loop looks at Gs, and a G that runs is in no preemption.
Looked ==
  /\ look \in [M -> G \cup {NULL}] /\ on \in [G -> M \cup {NULL}]
  /\ \A g \in G : on[g] # NULL => pushed[g] = 0

LEMMA LookedKept == StackInv /\ Looked /\ [Next]_vars => Looked'
  <1> SUFFICES ASSUME StackInv, Looked, [Next]_vars PROVE Looked'
    OBVIOUS
  <1>0. pushed \in [G -> Nat]
    BY DEF StackInv, Types
  <1>1. CASE UNCHANGED <<on, look, pushed>>
    BY <1>1 DEF Looked
  <1>2. ASSUME NEW g \in G, NEW at, on[g] # NULL, SwitchOut(g, at),
               \A h \in G \ {g} : pushed'[h] = pushed[h]
        PROVE  Looked'
    BY <1>2 DEF Looked, SwitchOut
  <1>3. ASSUME NEW m \in M, NEW g \in G, Resume(m, g) PROVE Looked'
    BY <1>0, <1>3 DEF Looked, Resume
  <1>4. ASSUME NEW m \in M, Look(m) PROVE Looked'
    <2>1. look' \in [M -> G \cup {NULL}] /\ UNCHANGED on
      BY <1>4 DEF Looked, Look
    <2>2. UNCHANGED pushed \/ (look[m] \in G /\ pushed' = [pushed EXCEPT ![look[m]] = 0])
      BY <1>4 DEF Looked, Look, frames
    <2> QED
      BY <1>0, <2>1, <2>2 DEF Looked
  <1>5. ASSUME NEW g \in G, Yield(g) \/ Exit(g) PROVE Looked'
    BY <1>2, <1>5 DEF Yield, Exit, Running, frames
  <1>6. ASSUME NEW g \in G, Preempt(g) PROVE Looked'
    <2>1. CASE UNCHANGED <<on, look, pushed>>
      BY <1>1, <2>1
    <2>2. ASSUME NEW n, pushed' = [pushed EXCEPT ![g] = n], SwitchOut(g, pc[g]), on[g] # NULL
          PROVE  Looked'
      BY <1>0, <1>2, <2>2
    <2> QED
      BY <1>6, <2>1, <2>2 DEF Preempt
  <1>7. ASSUME NEW g \in G, Touch(g) \/ Check(g) \/ Fault(g) \/ Protect(g) \/ Store(g)
        PROVE  UNCHANGED <<on, look, pushed>>
    BY <1>7 DEF Touch, Check, Fault, GrowTo, Protect, Store, frames
  <1>8. ASSUME NEW g \in G, NEW d, (\E checked \in BOOLEAN : Call(g, d, checked)) \/ Return(g, d)
        PROVE  UNCHANGED <<on, look, pushed>>
    BY <1>8 DEF Call, Return
  <1>9. CASE UNCHANGED vars
    BY <1>1, <1>9 DEF vars, frames
  <1> QED
    BY <1>1, <1>3, <1>4, <1>5, <1>6, <1>7, <1>8, <1>9 DEF Next, Program, Continues

LEMMA InvNext == StackInv /\ Looked /\ [Next]_vars => StackInv'
  <1> SUFFICES ASSUME StackInv, Looked, [Next]_vars PROVE StackInv'
    OBVIOUS
  <1>1. CASE UNCHANGED vars
    BY <1>1
       DEF vars, frames, growth, StackInv, Types, Growing, RealOf, LiveOf, LiveFramesKept, Saved
  <1>2. CASE Next
    <2>1. fate = "ok"
      BY <1>2 DEF Next
    <2>2. ASSUME NEW g \in G, NEW d \in 1 .. Frame,
                 (\E checked \in BOOLEAN : Call(g, d, checked)) \/ Return(g, d)
          PROVE  StackInv'
      BY <2>1, <2>2, CallKeeps, ReturnKeeps
    <2>3. ASSUME NEW g \in G, Yield(g) \/ Exit(g) PROVE StackInv'
      <3>1. UNCHANGED <<committed, watermark, writable, frames, grown>>
        BY <2>3 DEF Yield, Exit
      <3>2. pc[g] = "run" /\ \E at \in {"run", "dead"} : Goto(g, at)
        BY <2>3 DEF Yield, Exit, SwitchOut, Running
      <3> QED
        BY <2>1, <3>1, <3>2, SwitchKeeps
    <2>4. ASSUME NEW g \in G, Continues(g) PROVE StackInv'
      <3>1. Touch(g) => pushed[g] = 0
        BY DEF Touch, Running, Looked
      <3> QED
        BY <2>1, <2>4, <3>1, TouchKeeps, CheckKeeps, FaultKeeps, ProtectKeeps, StoreKeeps
           DEF Continues
    <2>5. ASSUME NEW m \in M, Look(m) PROVE StackInv'
      <3>1. look[m] \in G
        BY <2>5 DEF Look, Looked
      <3> QED
        BY <2>1, <2>5, <3>1, LookKeeps
    <2> QED
      BY <1>2, <2>1, <2>2, <2>3, <2>4, <2>5, PreemptKeeps, ResumeKeeps DEF Next, Program
  <1> QED
    BY <1>1, <1>2

LEMMA StackInvariant == Spec => [](StackInv /\ Looked)
  <1>1. Init => StackInv /\ Looked
    BY InvInit DEF Init, Looked
  <1>2. StackInv /\ Looked /\ [Next]_vars => (StackInv /\ Looked)'
    BY InvNext, LookedKept
  <1> QED
    BY <1>1, <1>2, PTL DEF Spec

\* stack_committed agrees with the kernel's protection of the pages whenever no
\* growth is half done: run_stack_grow_to_sp and run_stack_maybe_shrink move both.
THEOREM CommittedIsRealAlways == Spec => []CommittedIsReal
  BY StackInvariant, InvImplies, PTL

\* Whatever a G calls, touches and leaves, and whenever the loop shrinks its stack,
\* the pages of its live frames stay with it.
THEOREM LiveFramesKeptAlways == Spec => []LiveFramesKept
  <1>1. StackInv => LiveFramesKept
    BY DEF StackInv
  <1> QED
    BY <1>1, StackInvariant, PTL

-----------------------------------------------------------------------------
(* When a stack is full *)

\* The committed sizes that halving and doubling reach from the initial commit.
Sizes == {Initial * p : p \in Pow}

\* The fresh stack and the maximum are among them.
SizesMeet == \E m, n \in PowersOfTwo : Fresh = Initial * m /\ Size = Initial * n

ByDoubling ==
  fate = "ok" =>
    \A g \in G : /\ committed[g] \in Sizes
                 /\ pc[g] \in {"protect", "store"} => grown[g].new \in Sizes

FullInv == ByDoubling /\ OverflowMeansFull

LEMMA PowersArePow ==
  /\ PowersOfTwo \subseteq Pow /\ \A n \in Pow : n <= Size => n \in PowersOfTwo
  <1>1. Size \in Nat
    BY StackAssumption
  <1> QED
    BY <1>1 DEF PowersOfTwo, Pow

\* Doubling keeps to the sizes, and finds one that fits whenever there is one.
LEMMA DoublingFinds ==
  ASSUME SizesMeet, NEW c \in Sizes, NEW needed \in Nat, c < needed,
         NEW new \in Nat, Doubled(c, needed, new)
  PROVE  new \in Sizes /\ (needed <= Size => needed <= new /\ new <= Size)
  <1>1. PICK k \in PowersOfTwo :
          /\ new = c * k /\ (new >= needed \/ new >= Size)
          /\ \A l \in PowersOfTwo : l < k => c * l < needed /\ c * l < Size
    BY DEF Doubled
  <1>2. PICK p \in Pow : c = Initial * p
    BY DEF Sizes
  <1>3. PICK n \in Pow : Size = Initial * n
    BY PowersArePow DEF SizesMeet
  <1>4. /\ Initial \in Nat \ {0} /\ Size \in Nat /\ p \in Nat \ {0} /\ n \in Nat \ {0}
        /\ k \in Pow /\ k \in Nat \ {0} /\ c \in Nat \ {0}
    <2>1. k \in Pow /\ Initial \in Nat \ {0} /\ Size \in Nat
      BY PowersArePow, StackAssumption
    <2>2. p \in Nat \ {0} /\ n \in Nat \ {0} /\ k \in Nat \ {0}
      BY <2>1 DEF Pow
    <2>3. Initial * p \in Nat \ {0}
      BY <2>1, <2>2
    <2> QED
      BY <1>2, <2>1, <2>2, <2>3
  <1>5. new \in Sizes
    <2>1. new = Initial * (p * k)
      BY <1>1, <1>2, <1>4
    <2> QED
      BY <1>4, <2>1, Product DEF Sizes
  <1>6. ASSUME needed <= Size PROVE new <= Size
    <2>1. p <= n
      <3>1. SUFFICES ASSUME n < p PROVE FALSE
        BY <1>4
      <3>2. Initial * n <= Initial * p
        BY <1>4, <3>1
      <3> QED
        BY <1>2, <1>3, <1>4, <1>6, <3>2
    <2>2. PICK q \in Pow : n = p * q
      BY <2>1, Comparable
    <2>3. q \in Nat \ {0}
      BY DEF Pow
    <2>4. Size = c * q
      BY <1>2, <1>3, <1>4, <2>2, <2>3
    <2>5. q <= Size
      BY <1>4, <2>3, <2>4
    <2>6. ~(q < k)
      BY <1>1, <1>4, <2>3, <2>4, <2>5, PowersArePow
    <2>7. c * k <= c * q
      BY <1>4, <2>3, <2>6
    <2> QED
      BY <1>1, <2>4, <2>7
  <1>7. ASSUME needed <= Size PROVE needed <= new
    <2>1. new \in Nat
      OBVIOUS
    <2> QED
      BY <1>1, <1>4, <1>7, <2>1
  <1> QED
    BY <1>5, <1>6, <1>7

\* A depth with a page to spare needs no more than the maximum.
LEMMA NeededFits ==
  ASSUME NEW depth \in Nat, depth <= Size - Page PROVE AlignUp(depth + Page) <= Size
  <1>1. /\ Page \in Nat \ {0} /\ Size \in Nat /\ Size % Page = 0
        /\ depth + Page \in Nat /\ depth + Page <= Size
    BY StackAssumption
  <1>2. PageOf(depth + Page) \in Nat /\ PageOf(Size) \in Nat /\ PageOf(depth + Page) <= PageOf(Size)
    BY <1>1, PageMonotone
  <1>3. PICK q \in Nat : Size = Page * q
    BY <1>1, Divided
  <1>4. PageOf(Size) <= q
    <2> DEFINE r == PageOf(Size)
    <2>0. r \in Nat
      BY <1>2
    <2>1. Page * r <= Page * q + Page - 1
      BY <1>1, <1>3, Quotient DEF PageOf
    <2>2. SUFFICES ASSUME q + 1 <= r PROVE FALSE
      BY <1>2, <1>3
    <2> HIDE DEF r
    <2>3. Page * (q + 1) <= Page * r /\ Page * (q + 1) = Page * q + Page
      BY <1>1, <2>0, <2>2
    <2> QED
      BY <1>1, <2>0, <2>1, <2>3
  <1>5. PageOf(depth + Page) <= q
    BY <1>2, <1>4
  <1>6. PageOf(depth + Page) * Page <= Page * q
    BY <1>1, <1>2, <1>5
  <1> QED
    BY <1>3, <1>6 DEF AlignUp, PageOf

\* Shrinking halves.
LEMMA ShrinkHalves ==
  ASSUME Types, NEW g \in G, committed[g] \in Sizes, committed[g] > Initial,
         Used(g) * THRESHOLD <= committed[g], NEW target,
         target = LET half == committed[g] \div 2
                      twice == Used(g) * HYSTERESIS
                  IN  AtLeast(IF half < twice THEN AlignUp(twice) ELSE half, Initial)
  PROVE  target \in Sizes
  <1> DEFINE u == Used(g)
  <1>1. PICK p \in Pow : committed[g] = Initial * p
    BY DEF Sizes
  <1>2. Initial \in Nat \ {0} /\ p \in Nat
    BY StackAssumption DEF Pow
  <1>3. p # 1
    BY <1>1, <1>2
  <1>4. PICK h \in Pow : p = 2 * h
    BY <1>3, Halved
  <1>5. h \in Nat \ {0}
    BY DEF Pow
  <1>6. committed[g] = 2 * (Initial * h)
    BY <1>1, <1>2, <1>4, <1>5
  <1>7. Initial * h \in Nat /\ Initial <= Initial * h
    BY <1>2, <1>5
  <1> DEFINE b == Initial * h
  <1>8. b \in Nat /\ committed[g] = 2 * b /\ Initial <= b
    BY <1>6, <1>7
  <1>9. u \in Nat
    <2>1. watermark[g] \in Nat /\ Saved(g) \in Nat
      BY DEF Types, Saved
    <2>2. AtLeast(watermark[g], Saved(g)) \in Nat
      BY <2>1, AtLeastBoth
    <2>3. AlignUp(AtLeast(watermark[g], Saved(g))) \in Nat
      BY <2>2, AlignsUp
    <2> QED
      BY <1>2, <2>3, AtLeastBoth DEF Used
  <1> HIDE DEF b, u
  <1>10. committed[g] \div 2 = b
    BY <1>8
  <1>11. ~(b < u * HYSTERESIS)
    <2>1. u * 4 <= 2 * b
      BY <1>8 DEF THRESHOLD, u
    <2> QED
      BY <1>8, <1>9, <2>1 DEF HYSTERESIS
  <1>12. target = AtLeast(b, Initial)
    BY <1>10, <1>11 DEF u
  <1>13. target = b
    BY <1>2, <1>8, <1>12 DEF AtLeast
  <1> QED
    BY <1>13 DEF b, Sizes

\* The steps that change no size.
LEMMA SizesKept ==
  ASSUME ByDoubling, fate = "ok", fate' # "overflow", UNCHANGED <<committed, grown>>,
         \A h \in G : pc'[h] \in {"protect", "store"} => pc[h] \in {"protect", "store"}
  PROVE  FullInv'
  BY DEF FullInv, ByDoubling, OverflowMeansFull

\* A growth begins, or an overflow is reported, which is a fault's and below the
\* last page.
LEMMA GrowToFull ==
  ASSUME SizesMeet, StackInv, FullInv, fate = "ok", NEW g \in G, NEW depth \in Nat, NEW for,
         NEW back \in {"run", "touch"}, GrowTo(g, depth, for, back),
         depth <= Size - Page \/ (pc[g] = "fault" /\ depth = want[g])
  PROVE  FullInv'
  <1> DEFINE needed == AlignUp(depth + Page)
             c == committed[g]
  <1>1. /\ UNCHANGED <<committed, want>> /\ c \in Sizes /\ c \in Nat /\ needed \in Nat
        /\ Page \in Nat /\ Size \in Nat
    <2>1. depth + Page \in Nat
      BY StackAssumption
    <2> QED
      BY <2>1, AlignsUp, StackAssumption
         DEF GrowTo, frames, FullInv, ByDoubling, StackInv, Types
  <1> HIDE DEF needed, c
  <1>2. CASE Goto(g, back) /\ UNCHANGED <<grown, fate>>
    <2>1. \A h \in G : pc'[h] \in {"protect", "store"} => pc[h] \in {"protect", "store"}
      BY <1>2 DEF Goto, StackInv, Types
    <2> QED
      BY <1>1, <1>2, <2>1, SizesKept DEF FullInv
  <1>3. ASSUME needed > c, NEW new \in 0 .. 2 * Size, Doubled(c, needed, new),
               new >= needed, grown' = [grown EXCEPT ![g] = [old |-> c, new |-> new]],
               Goto(g, "protect"), UNCHANGED fate
        PROVE  FullInv'
    <2>1. new \in Sizes
      BY <1>1, <1>3, DoublingFinds
    <2>2. grown'[g].new = new /\ \A h \in G \ {g} : grown'[h] = grown[h] /\ pc'[h] = pc[h]
      BY <1>3 DEF Goto, StackInv, Types
    <2> QED
      BY <1>1, <1>3, <2>1, <2>2 DEF FullInv, ByDoubling, OverflowMeansFull
  <1>4. ASSUME needed > c, NEW new \in 0 .. 2 * Size, Doubled(c, needed, new),
               new < needed \/ new > Size, fate' = "overflow", UNCHANGED <<pc, grown>>
        PROVE  FullInv'
    <2>1. ~(needed <= Size)
      BY <1>1, <1>4, DoublingFinds
    <2>2. ~(depth <= Size - Page)
      BY <2>1, NeededFits DEF needed
    <2>3. pc[g] = "fault" /\ want[g] > Size - Page
      BY <1>1, <2>2
    <2> QED
      BY <1>1, <1>4, <2>3 DEF FullInv, ByDoubling, OverflowMeansFull
  <1> QED
    BY <1>2, <1>3, <1>4 DEF GrowTo, needed, c

LEMMA ShrinkFull ==
  ASSUME StackInv, FullInv, fate = "ok", NEW g \in G, Shrink(g), UNCHANGED growth
  PROVE  FullInv'
  <1> DEFINE half == committed[g] \div 2
             twice == Used(g) * HYSTERESIS
             target == AtLeast(IF half < twice THEN AlignUp(twice) ELSE half, Initial)
  <1>1. UNCHANGED <<pc, grown>> /\ committed \in [G -> Nat] /\ committed[g] \in Sizes
    BY DEF growth, FullInv, ByDoubling, StackInv, Types
  <1>2. fate' # "overflow"
    BY DEF Shrink
  <1>3. CASE UNCHANGED committed
    BY <1>1, <1>2, <1>3, SizesKept DEF FullInv
  <1>4. CASE /\ committed[g] > Initial /\ Used(g) * THRESHOLD <= committed[g]
             /\ Release(g, target)
    <2>1. target \in Sizes
      BY <1>1, <1>4, ShrinkHalves DEF StackInv
    <2>2. committed'[g] = target /\ \A h \in G \ {g} : committed'[h] = committed[h]
      BY <1>1, <1>4 DEF Release
    <2> HIDE DEF target
    <2>3. \A h \in G : committed'[h] \in Sizes
      BY <2>1, <2>2 DEF FullInv, ByDoubling
    <2> QED
      BY <1>1, <1>2, <2>3 DEF FullInv, ByDoubling, OverflowMeansFull
  <1> QED
    BY <1>3, <1>4 DEF Shrink

LEMMA LookFull ==
  ASSUME SizesMeet, StackInv, FullInv, fate = "ok", NEW m \in M, Look(m), NEW g \in G,
         g = look[m]
  PROVE  FullInv'
  <1>1. CASE Shrink(g) /\ UNCHANGED growth
    BY <1>1, ShrinkFull
  <1>2. CASE fate' = "raced" /\ UNCHANGED <<committed, growth>>
    BY <1>2, SizesKept DEF growth, FullInv
  <1>3. CASE committed' = [committed EXCEPT ![g] = Fresh] /\ Goto(g, "run")
             /\ UNCHANGED <<grown, fate>>
    <2>1. Fresh \in Sizes
      BY PowersArePow DEF SizesMeet, Sizes
    <2>2. /\ committed'[g] = Fresh /\ pc'[g] = "run"
          /\ \A h \in G \ {g} : committed'[h] = committed[h] /\ pc'[h] = pc[h]
      BY <1>3 DEF StackInv, Types, Goto
    <2> QED
      BY <1>3, <2>1, <2>2 DEF FullInv, ByDoubling, OverflowMeansFull
  <1> QED
    BY <1>1, <1>2, <1>3 DEF Look

LEMMA FullNext ==
  ASSUME SizesMeet, StackInv, Looked, FullInv, [Next]_vars PROVE FullInv'
  <1>1. CASE UNCHANGED vars
    BY <1>1 DEF vars, frames, growth, FullInv, ByDoubling, OverflowMeansFull
  <1>2. CASE Next
    <2>1. fate = "ok" /\ ByDoubling
      BY <1>2 DEF Next, FullInv
    <2>2. ASSUME NEW g \in G, NEW d \in 1 .. Frame,
                 (\E checked \in BOOLEAN : Call(g, d, checked)) \/ Return(g, d)
          PROVE  FullInv'
      BY <2>1, <2>2, SizesKept DEF Call, Return, Goto, growth, StackInv, Types
    <2>3. ASSUME NEW g \in G, Yield(g) \/ Exit(g) \/ Preempt(g) PROVE FullInv'
      <3>1. UNCHANGED <<committed, grown>> /\ fate' # "overflow"
        BY <2>1, <2>3 DEF Yield, Exit, Preempt
      <3>2. UNCHANGED pc \/ \E at \in {"run", "dead"} : Goto(g, at)
        <4>1. CASE Yield(g) \/ Exit(g)
          BY <4>1 DEF Yield, Exit, SwitchOut
        <4>2. CASE Preempt(g)
          BY <4>2 DEF Preempt, SwitchOut, Goto, StackInv, Types
        <4> QED
          BY <2>3, <4>1, <4>2
      <3>3. \A h \in G : pc'[h] \in {"protect", "store"} => pc[h] \in {"protect", "store"}
        BY <3>2 DEF Goto, StackInv, Types
      <3> QED
        BY <2>1, <3>1, <3>3, SizesKept
    <2>4. ASSUME NEW g \in G, Touch(g) \/ Protect(g) PROVE FullInv'
      <3>1. UNCHANGED <<committed, grown>> /\ fate' # "overflow"
        BY <2>1, <2>4 DEF Touch, Protect
      <3>2. \A h \in G : pc'[h] \in {"protect", "store"} => pc[h] \in {"protect", "store"}
        BY <2>4 DEF Touch, Protect, Running, Goto, StackInv, Types
      <3> QED
        BY <2>1, <3>1, <3>2, SizesKept
    <2>5. ASSUME NEW g \in G, Check(g) PROVE FullInv'
      <3>1. sp[g] \in Nat
        BY DEF StackInv, Types
      <3>2. Target(g) \in Nat /\ Target(g) <= Size - Page
        BY <3>1, StackAssumption DEF Target
      <3> QED
        BY <2>1, <2>5, <3>2, GrowToFull DEF Check
    <2>6. ASSUME NEW g \in G, Fault(g) PROVE FullInv'
      <3>1. want[g] \in Nat /\ pc[g] = "fault"
        BY <2>6 DEF Fault, Running, StackInv, Types
      <3>2. CASE GrowTo(g, want[g], "fault", "touch")
        BY <2>1, <3>1, <3>2, GrowToFull
      <3>3. CASE fate' = "crashed" /\ UNCHANGED <<committed, growth>>
        BY <2>1, <3>3, SizesKept DEF growth
      <3> QED
        BY <2>6, <3>2, <3>3 DEF Fault
    <2>7. ASSUME NEW g \in G, Store(g) PROVE FullInv'
      <3>1. /\ pc[g] = "store" /\ committed'[g] = grown[g].new /\ pc'[g] \in {"touch", "run"}
            /\ \A h \in G \ {g} : /\ committed'[h] = committed[h] /\ grown'[h] = grown[h]
                                  /\ pc'[h] = pc[h]
            /\ UNCHANGED fate
        BY <2>7 DEF Store, Running, Goto, StackInv, Types
      <3> QED
        BY <2>1, <3>1 DEF FullInv, ByDoubling, OverflowMeansFull
    <2>8. ASSUME NEW m \in M, Look(m) PROVE FullInv'
      <3>1. look[m] \in G
        BY <2>8 DEF Look, Looked
      <3> QED
        BY <2>1, <2>8, <3>1, LookFull
    <2>9. ASSUME NEW m \in M, NEW g \in G, Resume(m, g) PROVE FullInv'
      BY <2>1, <2>9, SizesKept DEF Resume, growth
    <2> QED
      BY <1>2, <2>2, <2>3, <2>4, <2>5, <2>6, <2>7, <2>8, <2>9 DEF Next, Program, Continues
  <1> QED
    BY <1>1, <1>2

\* Where doubling the fresh stack meets run_stack_max_size, an overflow is reported
\* only to a G that has faulted in the last page: no call of run_stack_check
\* overflows, and run_stack_grow_to_sp finds a size for every other depth, however
\* often run_stack_maybe_shrink has halved the stack before.
THEOREM OverflowMeansFullAlways == SizesMeet => (Spec => []OverflowMeansFull)
  <1>1. SizesMeet /\ Init => FullInv
    <2>1. SizesMeet => Fresh \in Sizes
      BY PowersArePow DEF SizesMeet, Sizes
    <2> QED
      BY <2>1 DEF Init, FullInv, ByDoubling, OverflowMeansFull
  <1>2. SizesMeet /\ StackInv /\ Looked /\ FullInv /\ [Next]_vars => FullInv'
    BY FullNext
  <1>3. FullInv => OverflowMeansFull
    BY DEF FullInv
  <1>4. SUFFICES ASSUME SizesMeet PROVE Spec => []OverflowMeansFull
    OBVIOUS
  <1>5. (Init => FullInv) /\ (StackInv /\ Looked /\ FullInv /\ [Next]_vars => FullInv')
    BY <1>1, <1>2, <1>4
  <1> QED
    BY <1>3, <1>5, StackInvariant, PTL DEF Spec
=============================================================================
