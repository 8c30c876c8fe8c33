---------------------------- MODULE ChannelProofs ----------------------------
(***************************************************************************)
(* Proofs about Channel for every set of green threads, threads and values *)
(* and every buffer capacity: its invariants, and that it implements       *)
(* FifoChannel.                                                            *)
(***************************************************************************)
EXTENDS Channel, Integers, SequencesExt, SequenceTheorems, TLAPS

-----------------------------------------------------------------------------
(* Lists without repetition: what run_g_queue_push, run_g_queue_pop and the *)
(* splicing of two queues do to the set of green threads a queue holds.     *)

\* Appending adds the element to the set a list holds; a list without
\* repetition stays so when the element is new (run_g_queue_push).
LEMMA AppendList ==
  ASSUME NEW S, NEW s \in Seq(S), NEW e \in S
  PROVE  /\ Append(s, e) \in Seq(S)
         /\ ToSet(Append(s, e)) = ToSet(s) \cup {e}
         /\ IsInjective(s) /\ e \notin ToSet(s) => IsInjective(Append(s, e))
  <1>1. /\ Append(s, e) \in Seq(S)
        /\ DOMAIN Append(s, e) = 1 .. Len(s) + 1
        /\ DOMAIN s = 1 .. Len(s) /\ Len(s) \in Nat
        /\ \A i \in 1 .. Len(s) : Append(s, e)[i] = s[i]
        /\ Append(s, e)[Len(s) + 1] = e
    BY AppendProperties, LenProperties
  <1>2. \A i \in 1 .. Len(s) + 1 : i \in 1 .. Len(s) \/ i = Len(s) + 1
    BY <1>1
  <1>3. ToSet(Append(s, e)) = ToSet(s) \cup {e}
    <2>1. ASSUME NEW x \in ToSet(Append(s, e))
          PROVE  x \in ToSet(s) \cup {e}
      <3>1. PICK i \in 1 .. Len(s) + 1 : x = Append(s, e)[i]
        BY <2>1, <1>1 DEF ToSet
      <3> QED
        BY <3>1, <1>1, <1>2 DEF ToSet
    <2>2. ASSUME NEW x \in ToSet(s)
          PROVE  x \in ToSet(Append(s, e))
      <3>1. PICK i \in 1 .. Len(s) : x = s[i]
        BY <2>2, <1>1 DEF ToSet
      <3>2. i \in DOMAIN Append(s, e) /\ Append(s, e)[i] = x
        BY <3>1, <1>1
      <3> QED
        BY <3>2 DEF ToSet
    <2>3. e \in ToSet(Append(s, e))
      <3>1. Len(s) + 1 \in DOMAIN Append(s, e)
        BY <1>1
      <3> QED
        BY <3>1, <1>1 DEF ToSet
    <2> QED
      BY <2>1, <2>2, <2>3
  <1>4. ASSUME IsInjective(s), e \notin ToSet(s)
        PROVE  IsInjective(Append(s, e))
    <2>1. \A i \in 1 .. Len(s) : s[i] # e
      BY <1>1, <1>4 DEF ToSet
    <2> QED
      BY <2>1, <1>1, <1>2, <1>4 DEF IsInjective
  <1> QED
    BY <1>1, <1>3, <1>4

\* Removing the head removes one element from the set a list without
\* repetition holds (run_g_queue_pop).
LEMMA TailList ==
  ASSUME NEW S, NEW s \in Seq(S), s # <<>>
  PROVE  /\ Head(s) \in S /\ Tail(s) \in Seq(S)
         /\ Head(s) \in ToSet(s)
         /\ ToSet(s) = ToSet(Tail(s)) \cup {Head(s)}
         /\ IsInjective(s) => /\ Head(s) \notin ToSet(Tail(s))
                              /\ IsInjective(Tail(s))
  <1>1. /\ Head(s) \in S /\ Tail(s) \in Seq(S)
        /\ Head(s) = s[1] /\ Len(s) \in Nat /\ Len(s) >= 1
        /\ DOMAIN s = 1 .. Len(s)
        /\ DOMAIN Tail(s) = 1 .. Len(s) - 1
        /\ \A i \in 1 .. Len(s) - 1 : Tail(s)[i] = s[i + 1]
    BY HeadTailProperties, LenProperties, EmptySeq
  <1>2. Head(s) \in ToSet(s)
    <2>1. 1 \in DOMAIN s
      BY <1>1
    <2> QED
      BY <2>1, <1>1 DEF ToSet
  <1>3. ASSUME NEW x \in ToSet(s), x # Head(s)
        PROVE  x \in ToSet(Tail(s))
    <2>1. PICK i \in 1 .. Len(s) : x = s[i]
      BY <1>3, <1>1 DEF ToSet
    <2>2. i - 1 \in 1 .. Len(s) - 1 /\ Tail(s)[i - 1] = x
      BY <2>1, <1>1, <1>3
    <2> QED
      BY <2>2, <1>1 DEF ToSet
  <1>4. ASSUME NEW x \in ToSet(Tail(s))
        PROVE  x \in ToSet(s)
    <2>1. PICK i \in 1 .. Len(s) - 1 : x = Tail(s)[i]
      BY <1>4, <1>1 DEF ToSet
    <2>2. i + 1 \in DOMAIN s /\ s[i + 1] = x
      BY <2>1, <1>1
    <2> QED
      BY <2>2 DEF ToSet
  <1>5. ASSUME IsInjective(s)
        PROVE  Head(s) \notin ToSet(Tail(s)) /\ IsInjective(Tail(s))
    <2>1. \A i \in 1 .. Len(s) - 1 : i + 1 \in DOMAIN s /\ 1 \in DOMAIN s /\ i + 1 # 1
      BY <1>1
    <2>2. Head(s) \notin ToSet(Tail(s))
      <3>1. SUFFICES ASSUME Head(s) \in ToSet(Tail(s)) PROVE FALSE
        OBVIOUS
      <3>2. PICK i \in 1 .. Len(s) - 1 : Head(s) = Tail(s)[i]
        BY <3>1, <1>1 DEF ToSet
      <3> QED
        BY <3>2, <2>1, <1>1, <1>5 DEF IsInjective
    <2>3. IsInjective(Tail(s))
      <3>1. SUFFICES ASSUME NEW a \in 1 .. Len(s) - 1, NEW b \in 1 .. Len(s) - 1,
                            Tail(s)[a] = Tail(s)[b]
                     PROVE  a = b
        BY <1>1 DEF IsInjective
      <3>2. s[a + 1] = s[b + 1]
        BY <3>1, <1>1
      <3>3. a + 1 = b + 1
        BY <3>2, <2>1, <1>5 DEF IsInjective
      <3> QED
        BY <3>3
    <2> QED
      BY <2>2, <2>3
  <1> QED
    BY <1>1, <1>2, <1>3, <1>4, <1>5

\* Concatenating two disjoint lists joins the sets they hold (the wake list of
\* run_chan_close).
LEMMA ConcatList ==
  ASSUME NEW S, NEW s \in Seq(S), NEW t \in Seq(S)
  PROVE  /\ s \o t \in Seq(S)
         /\ ToSet(s \o t) = ToSet(s) \cup ToSet(t)
         /\ IsInjective(s) /\ IsInjective(t) /\ ToSet(s) \cap ToSet(t) = {}
              => IsInjective(s \o t)
  <1>1. /\ s \o t \in Seq(S)
        /\ Len(s) \in Nat /\ Len(t) \in Nat
        /\ DOMAIN s = 1 .. Len(s) /\ DOMAIN t = 1 .. Len(t)
        /\ DOMAIN (s \o t) = 1 .. Len(s) + Len(t)
        /\ \A i \in 1 .. Len(s) + Len(t) :
             (s \o t)[i] = IF i <= Len(s) THEN s[i] ELSE t[i - Len(s)]
    BY ConcatProperties, LenProperties
  <1>2. ASSUME NEW x \in ToSet(s)
        PROVE  x \in ToSet(s \o t)
    <2>1. PICK i \in 1 .. Len(s) : x = s[i]
      BY <1>2, <1>1 DEF ToSet
    <2>2. i \in DOMAIN (s \o t) /\ (s \o t)[i] = x
      BY <2>1, <1>1
    <2> QED
      BY <2>2 DEF ToSet
  <1>3. ASSUME NEW x \in ToSet(t)
        PROVE  x \in ToSet(s \o t)
    <2>1. PICK i \in 1 .. Len(t) : x = t[i]
      BY <1>3, <1>1 DEF ToSet
    <2>2. i + Len(s) \in DOMAIN (s \o t) /\ (s \o t)[i + Len(s)] = x
      BY <2>1, <1>1
    <2> QED
      BY <2>2 DEF ToSet
  <1>4. ASSUME NEW x \in ToSet(s \o t)
        PROVE  x \in ToSet(s) \cup ToSet(t)
    <2>1. PICK i \in 1 .. Len(s) + Len(t) : x = (s \o t)[i]
      BY <1>4, <1>1 DEF ToSet
    <2>2. CASE i <= Len(s)
      BY <2>1, <2>2, <1>1 DEF ToSet
    <2>3. CASE ~(i <= Len(s))
      <3>1. i - Len(s) \in DOMAIN t /\ t[i - Len(s)] = x
        BY <2>1, <2>3, <1>1
      <3> QED
        BY <3>1 DEF ToSet
    <2> QED
      BY <2>2, <2>3
  <1>5. ASSUME IsInjective(s), IsInjective(t), ToSet(s) \cap ToSet(t) = {}
        PROVE  IsInjective(s \o t)
    <2>1. SUFFICES ASSUME NEW a \in 1 .. Len(s) + Len(t), NEW b \in 1 .. Len(s) + Len(t),
                          (s \o t)[a] = (s \o t)[b]
                   PROVE  a = b
      BY <1>1 DEF IsInjective
    <2>2. \A i \in DOMAIN s, j \in DOMAIN t : s[i] # t[j]
      BY <1>5 DEF ToSet
    <2>3. CASE a <= Len(s) /\ b <= Len(s)
      BY <2>1, <2>3, <1>1, <1>5 DEF IsInjective
    <2>4. CASE a <= Len(s) /\ ~(b <= Len(s))
      <3>1. a \in DOMAIN s /\ b - Len(s) \in DOMAIN t
        BY <2>4, <1>1
      <3> QED
        BY <3>1, <2>1, <2>2, <2>4, <1>1
    <2>5. CASE ~(a <= Len(s)) /\ b <= Len(s)
      <3>1. b \in DOMAIN s /\ a - Len(s) \in DOMAIN t
        BY <2>5, <1>1
      <3> QED
        BY <3>1, <2>1, <2>2, <2>5, <1>1
    <2>6. CASE ~(a <= Len(s)) /\ ~(b <= Len(s))
      <3>1. a - Len(s) \in DOMAIN t /\ b - Len(s) \in DOMAIN t
        BY <2>6, <1>1
      <3>2. t[a - Len(s)] = t[b - Len(s)]
        BY <2>1, <2>6, <1>1
      <3>3. a - Len(s) = b - Len(s)
        BY <3>1, <3>2, <1>5 DEF IsInjective
      <3> QED
        BY <3>3, <1>1
    <2> QED
      BY <2>3, <2>4, <2>5, <2>6
  <1> QED
    BY <1>1, <1>2, <1>3, <1>4, <1>5

\* A one-element list.
LEMMA SingletonList ==
  ASSUME NEW S, NEW e \in S
  PROVE  /\ <<e>> \in Seq(S) /\ <<e>> # <<>>
         /\ ToSet(<<e>>) = {e} /\ IsInjective(<<e>>)
         /\ ToSet(<<>>) = {} /\ IsInjective(<<>>)
  BY DEF ToSet, IsInjective

-----------------------------------------------------------------------------
(* The ring *)

\* One turn around a ring of n slots.
LEMMA ModOnce ==
  ASSUME NEW n \in Nat \ {0}, NEW a \in Nat, a < 2 * n
  PROVE  a % n = IF a < n THEN a ELSE a - n
  OBVIOUS

LEMMA ModSum ==
  ASSUME NEW n \in Nat \ {0}, NEW r \in 0 .. n - 1, NEW l \in 0 .. n
  PROVE  (r + l) % n = IF r + l < n THEN r + l ELSE r + l - n
  <1> DEFINE a == r + l
  <1>1. a \in Nat /\ a < 2 * n
    OBVIOUS
  <1> HIDE DEF a
  <1>2. a % n = IF a < n THEN a ELSE a - n
    BY <1>1, ModOnce
  <1> QED
    BY <1>2 DEF a

LEMMA ModNone ==
  ASSUME NEW n \in Nat \ {0}, NEW a \in 0 .. n - 1
  PROVE  a % n = a
  OBVIOUS

\* One value more behind l values that start at slot r.
LEMMA RingWrite ==
  ASSUME NEW n \in Nat \ {0}, NEW r \in 0 .. n - 1, NEW l \in 0 .. n, l < n
  PROVE  (((r + l) % n) + 1) % n = (r + (l + 1)) % n
  <1>1. (r + l) % n = IF r + l < n THEN r + l ELSE r + l - n
    BY ModSum
  <1>2. (r + (l + 1)) % n = IF r + (l + 1) < n THEN r + (l + 1) ELSE r + (l + 1) - n
    <2> DEFINE k == l + 1
    <2>1. k \in 0 .. n
      OBVIOUS
    <2> HIDE DEF k
    <2>2. (r + k) % n = IF r + k < n THEN r + k ELSE r + k - n
      BY <2>1, ModSum
    <2> QED
      BY <2>2 DEF k
  <1>3. CASE r + l < n
    <2>1. ((r + l) % n) + 1 = r + (l + 1)
      BY <1>1, <1>3
    <2> QED
      BY <2>1
  <1>4. CASE ~(r + l < n)
    <2>1. ((r + l) % n) + 1 = r + (l + 1) - n /\ r + (l + 1) - n \in 0 .. n - 1
      BY <1>1, <1>4
    <2>2. (r + (l + 1) - n) % n = r + (l + 1) - n
      BY <2>1, ModNone
    <2>3. (r + (l + 1)) % n = r + (l + 1) - n
      BY <1>2, <1>4
    <2> QED
      BY <2>1, <2>2, <2>3
  <1> QED
    BY <1>3, <1>4

\* One value fewer: the next read position moves, the write position stays.
LEMMA RingRead ==
  ASSUME NEW n \in Nat \ {0}, NEW r \in 0 .. n - 1, NEW l \in 1 .. n
  PROVE  (r + l) % n = (((r + 1) % n) + (l - 1)) % n
  <1>1. (r + 1) % n = IF r + 1 < n THEN r + 1 ELSE 0
    <2>1. (r + 1) % n = IF r + 1 < n THEN r + 1 ELSE r + 1 - n
      BY 1 \in 0 .. n, ModSum
    <2> QED
      BY <2>1
  <1>2. (r + l) % n = IF r + l < n THEN r + l ELSE r + l - n
    BY l \in 0 .. n, ModSum
  <1>3. CASE r + 1 < n
    <2>1. ((r + 1) % n) + (l - 1) = r + l
      BY <1>1, <1>3
    <2> QED
      BY <2>1
  <1>4. CASE ~(r + 1 < n)
    <2>1. ((r + 1) % n) + (l - 1) = l - 1 /\ l - 1 \in 0 .. n - 1
      BY <1>1, <1>4
    <2>2. (l - 1) % n = l - 1
      BY <2>1, ModNone
    <2>3. (r + l) % n = l - 1
      BY <1>2, <1>4
    <2> QED
      BY <2>1, <2>2, <2>3
  <1> QED
    BY <1>3, <1>4

\* Both positions of a full ring move together.
LEMMA RingTurn ==
  ASSUME NEW n \in Nat \ {0}, NEW r \in 0 .. n - 1, NEW l \in 0 .. n
  PROVE  (((r + l) % n) + 1) % n = (((r + 1) % n) + l) % n
  <1>1. CASE l = 0
    <2>1. r % n = r
      BY ModOnce
    <2> DEFINE m == (r + 1) % n
    <2>2. m \in 0 .. n - 1
      OBVIOUS
    <2>3. (r + l) % n = r /\ m + l = m
      BY <1>1, <2>1, <2>2
    <2> HIDE DEF m
    <2>4. m % n = m
      BY <2>2, ModNone
    <2> QED
      BY <2>3, <2>4 DEF m
  <1>2. CASE l # 0
    <2>1. (r + l) % n = (((r + 1) % n) + (l - 1)) % n
      BY <1>2, RingRead
    <2> DEFINE m == (r + 1) % n
    <2>2. m \in 0 .. n - 1 /\ l - 1 \in 0 .. n /\ l - 1 < n /\ (l - 1) + 1 = l
      BY <1>2
    <2> HIDE DEF m
    <2>3. (((m + (l - 1)) % n) + 1) % n = (m + ((l - 1) + 1)) % n
      BY <2>2, RingWrite
    <2> QED
      BY <2>1, <2>2, <2>3 DEF m
  <1> QED
    BY <1>1, <1>2

-----------------------------------------------------------------------------
(* Types *)

LEMMA LeaveToWakeType ==
  ASSUME TypeOK, NEW c \in Caller, NEW gs \in Seq(G), LeaveToWake(c, gs)
  PROVE  /\ pc' \in [Caller -> {"user", "waking", "blocked"}]
         /\ wake_list' \in [Caller -> Seq(G)]
  BY DEF LeaveToWake, TypeOK

LEMMA ParkType ==
  ASSUME TypeOK, NEW g \in G, Park(g)
  PROVE  /\ pc' \in [Caller -> {"user", "waking", "blocked"}]
         /\ status' \in [G -> {"G_RUNNING", "G_RUNNABLE", "G_WAITING"}]
         /\ chan_panic' \in [G -> BOOLEAN]
  BY DEF Park, TypeOK, Caller

\* The fields keep their types whatever the callers do: in particular the
\* buffer is never indexed outside its bounds.
THEOREM TypeCorrect == Spec => []TypeOK
  <1>1. ASSUME Init PROVE TypeOK
    <2>1. buffer_cap \in Nat /\ <<>> \in Seq(G)
      BY <1>1, ChannelAssumption, EmptySeq DEF Init
    <2>2. /\ chan_panic \in [G -> BOOLEAN]
          /\ closed \in BOOLEAN /\ aborted \in BOOLEAN
      BY <1>1 DEF Init
    <2>3. /\ buffer_cap \in Caps
          /\ buffer \in [0 .. buffer_cap - 1 -> Val \cup {Zero}]
          /\ buffer_len \in 0 .. buffer_cap
          /\ send_idx \in 0 .. buffer_cap /\ recv_idx \in 0 .. buffer_cap
          /\ buffer_cap > 0 => send_idx < buffer_cap /\ recv_idx < buffer_cap
      BY <1>1, <2>1 DEF Init
    <2>4. /\ send_q \in Seq(G) /\ recv_q \in Seq(G)
          /\ status \in [G -> {"G_RUNNING", "G_RUNNABLE", "G_WAITING"}]
          /\ outgoing \in [G -> Val \cup {Zero}]
          /\ received \in [Caller -> Val \cup {Zero}]
      BY <1>1, <2>1 DEF Init
    <2>5. /\ pc \in [Caller -> {"user", "waking", "blocked"}]
          /\ wake_list \in [Caller -> Seq(G)]
      BY <1>1, <2>1 DEF Init
    <2> QED
      BY <2>2, <2>3, <2>4, <2>5 DEF TypeOK
  <1>2. ASSUME TypeOK, [Next]_vars
        PROVE  TypeOK'
    <2> USE ChannelAssumption
    <2>0. buffer_cap \in Nat
      BY <1>2 DEF TypeOK
    <2>1. ASSUME Abort PROVE TypeOK'
      BY <1>2, <2>1 DEF TypeOK, Abort, chanVars
    <2>2. ASSUME NEW c \in Caller, NEW v \in Val, SendToReceiver(c, v) PROVE TypeOK'
      <3>1. Head(recv_q) \in G /\ Tail(recv_q) \in Seq(G) /\ <<Head(recv_q)>> \in Seq(G)
        BY <1>2, <2>2, TailList, SingletonList DEF SendToReceiver, TypeOK
      <3>2. LeaveToWake(c, <<Head(recv_q)>>)
        BY <2>2 DEF SendToReceiver
      <3> QED
        BY <1>2, <2>2, <3>1, <3>2, LeaveToWakeType DEF SendToReceiver, TypeOK, chanVars, Caller
    <2>3. ASSUME NEW c \in Caller, NEW v \in Val, SendToBuffer(c, v) PROVE TypeOK'
      BY <1>2, <2>0, <2>3 DEF SendToBuffer, TypeOK
    <2>4. ASSUME NEW g \in G, NEW v \in Val, SendBlock(g, v) PROVE TypeOK'
      <3>1. Append(send_q, g) \in Seq(G)
        BY <1>2, AppendList DEF TypeOK
      <3> QED
        BY <1>2, <2>4, <3>1, ParkType DEF SendBlock, TypeOK, chanVars
    <2>5. ASSUME NEW c \in Caller, RecvRotate(c) PROVE TypeOK'
      <3>1. Head(send_q) \in G /\ Tail(send_q) \in Seq(G) /\ <<Head(send_q)>> \in Seq(G)
        BY <1>2, <2>5, TailList, SingletonList DEF RecvRotate, TypeOK
      <3>2. LeaveToWake(c, <<Head(send_q)>>)
        BY <2>5 DEF RecvRotate
      <3>3. recv_idx \in 0 .. buffer_cap - 1 /\ send_idx \in 0 .. buffer_cap - 1
        BY <1>2, <2>0, <2>5 DEF RecvRotate, TypeOK
      <3>4. (recv_idx + 1) % buffer_cap \in 0 .. buffer_cap - 1
        BY <2>0, <2>5, <3>3 DEF RecvRotate
      <3>5. (send_idx + 1) % buffer_cap \in 0 .. buffer_cap - 1
        BY <2>0, <2>5, <3>3 DEF RecvRotate
      <3>6. /\ buffer' \in [0 .. buffer_cap - 1 -> Val \cup {Zero}]
            /\ received' \in [Caller -> Val \cup {Zero}]
        BY <1>2, <2>5, <3>1, <3>3 DEF RecvRotate, TypeOK
      <3>7. /\ pc' \in [Caller -> {"user", "waking", "blocked"}]
            /\ wake_list' \in [Caller -> Seq(G)]
        BY <1>2, <3>1, <3>2, LeaveToWakeType
      <3> QED
        BY <1>2, <2>0, <2>5, <3>1, <3>4, <3>5, <3>6, <3>7 DEF RecvRotate, TypeOK
    <2>6. ASSUME NEW c \in Caller, RecvFromSender(c) PROVE TypeOK'
      <3>1. Head(send_q) \in G /\ Tail(send_q) \in Seq(G) /\ <<Head(send_q)>> \in Seq(G)
        BY <1>2, <2>6, TailList, SingletonList DEF RecvFromSender, TypeOK
      <3>2. LeaveToWake(c, <<Head(send_q)>>)
        BY <2>6 DEF RecvFromSender
      <3> QED
        BY <1>2, <2>6, <3>1, <3>2, LeaveToWakeType DEF RecvFromSender, TypeOK, chanVars
    <2>7. ASSUME NEW c \in Caller, RecvFromBuffer(c) PROVE TypeOK'
      <3>1. recv_idx \in 0 .. buffer_cap - 1 /\ buffer_len - 1 \in 0 .. buffer_cap
        BY <1>2, <2>0, <2>7 DEF RecvFromBuffer, TypeOK
      <3> QED
        BY <1>2, <2>0, <2>7, <3>1 DEF RecvFromBuffer, TypeOK
    <2>8. ASSUME NEW c \in Caller, RecvClosed(c) PROVE TypeOK'
      BY <1>2, <2>8 DEF RecvClosed, TypeOK, chanVars
    <2>9. ASSUME NEW g \in G, RecvBlock(g) PROVE TypeOK'
      <3>1. Append(recv_q, g) \in Seq(G)
        BY <1>2, AppendList DEF TypeOK
      <3> QED
        BY <1>2, <2>9, <3>1, ParkType DEF RecvBlock, TypeOK, chanVars
    <2>10. ASSUME NEW c \in Caller, Close(c) PROVE TypeOK'
      <3>1. recv_q \o send_q \in Seq(G) /\ <<>> \in Seq(G)
        BY <1>2, ConcatList, EmptySeq DEF TypeOK
      <3>2. LeaveToWake(c, recv_q \o send_q)
        BY <2>10 DEF Close
      <3>3. chan_panic' \in [G -> BOOLEAN] /\ received' \in [Caller -> Val \cup {Zero}]
        BY <1>2, <2>10 DEF Close, TypeOK
      <3> QED
        BY <1>2, <2>10, <3>1, <3>2, <3>3, LeaveToWakeType DEF Close, TypeOK
    <2>11. ASSUME NEW c \in Caller, GReady(c) PROVE TypeOK'
      <3>1. Head(wake_list[c]) \in G /\ Tail(wake_list[c]) \in Seq(G)
        BY <1>2, <2>11, TailList DEF TypeOK, GReady
      <3> QED
        BY <1>2, <2>11, <3>1, LeaveToWakeType DEF GReady, TypeOK, chanVars
    <2>12. ASSUME NEW g \in G, Resume(g) PROVE TypeOK'
      BY <1>2, <2>12 DEF Resume, TypeOK, chanVars, Caller
    <2>13. ASSUME UNCHANGED vars PROVE TypeOK'
      BY <1>2, <2>13 DEF vars, TypeOK
    <2> QED
      BY <1>2, <2>1, <2>2, <2>3, <2>4, <2>5, <2>6, <2>7, <2>8, <2>9, <2>10, <2>11, <2>12, <2>13
         DEF Next, Send, Recv, SendClosed, SendOnThread, RecvOnThread, CloseClosed
  <1> QED
    BY <1>1, <1>2, PTL DEF Spec

-----------------------------------------------------------------------------
(* Who waits, and for what *)

\* Receivers wait only for an empty open channel and senders only behind a full
\* one, whatever the capacity: the shortcuts of the two handlers are sound.
THEOREM WaitersJustifiedAlways == Spec => []WaitersJustified
  <1>1. Init => WaitersJustified
    BY DEF Init, WaitersJustified
  <1>2. ASSUME TypeOK, WaitersJustified, [Next]_vars
        PROVE  WaitersJustified'
    <2> USE <1>2, ChannelAssumption DEF TypeOK, WaitersJustified
    <2>0. buffer_cap \in Nat
      OBVIOUS
    <2>1. ASSUME Abort PROVE WaitersJustified'
      BY <2>1 DEF Abort, chanVars
    <2>2. ASSUME NEW c \in Caller, NEW v \in Val, SendToReceiver(c, v) PROVE WaitersJustified'
      BY <2>2 DEF SendToReceiver, chanVars
    <2>3. ASSUME NEW c \in Caller, NEW v \in Val, SendToBuffer(c, v) PROVE WaitersJustified'
      BY <2>0, <2>3 DEF SendToBuffer
    <2>4. ASSUME NEW g \in G, NEW v \in Val, SendBlock(g, v) PROVE WaitersJustified'
      BY <2>0, <2>4 DEF SendBlock, SendMustBlock, chanVars
    <2>5. ASSUME NEW c \in Caller, RecvRotate(c) PROVE WaitersJustified'
      BY <2>5 DEF RecvRotate
    <2>6. ASSUME NEW c \in Caller, RecvFromSender(c) PROVE WaitersJustified'
      BY <2>6 DEF RecvFromSender, chanVars
    <2>7. ASSUME NEW c \in Caller, RecvFromBuffer(c) PROVE WaitersJustified'
      BY <2>0, <2>7 DEF RecvFromBuffer
    <2>8. ASSUME NEW c \in Caller, RecvClosed(c) PROVE WaitersJustified'
      BY <2>8 DEF RecvClosed, chanVars
    <2>9. ASSUME NEW g \in G, RecvBlock(g) PROVE WaitersJustified'
      BY <2>9 DEF RecvBlock, NothingToRecv, chanVars
    <2>10. ASSUME NEW c \in Caller, Close(c) PROVE WaitersJustified'
      BY <2>10 DEF Close
    <2>11. ASSUME NEW c \in Caller, GReady(c) PROVE WaitersJustified'
      BY <2>11 DEF GReady, chanVars
    <2>12. ASSUME NEW g \in G, Resume(g) PROVE WaitersJustified'
      BY <2>12 DEF Resume, chanVars
    <2>13. ASSUME UNCHANGED vars PROVE WaitersJustified'
      BY <2>13 DEF vars
    <2> QED
      BY <2>1, <2>2, <2>3, <2>4, <2>5, <2>6, <2>7, <2>8, <2>9, <2>10, <2>11, <2>12, <2>13
         DEF Next, Send, Recv, SendClosed, SendOnThread, RecvOnThread, CloseClosed
  <1> QED
    BY <1>1, <1>2, TypeCorrect, PTL DEF Spec

\* The write index stays buffer_len slots ahead of the read index around the
\* ring of any capacity.
THEOREM RingAlignedAlways == Spec => []RingAligned
  <1>1. ASSUME Init PROVE RingAligned
    <2>1. buffer_cap \in Nat
      BY <1>1, ChannelAssumption DEF Init
    <2> QED
      BY <1>1, <2>1 DEF Init, RingAligned
  <1>2. ASSUME TypeOK, RingAligned, [Next]_vars
        PROVE  RingAligned'
    <2>0. buffer_cap' = buffer_cap
      BY <1>2 DEF Next, Send, Recv, SendClosed, SendToReceiver, SendToBuffer, SendBlock,
             SendOnThread, RecvRotate, RecvFromSender, RecvFromBuffer, RecvClosed, RecvBlock,
             RecvOnThread, CloseClosed, Close, GReady, Resume, Abort, vars, chanVars
    <2> SUFFICES ASSUME buffer_cap # 0
                 PROVE  RingAligned'
      BY <2>0 DEF RingAligned
    <2>1. /\ buffer_cap \in Nat \ {0} /\ buffer_len \in 0 .. buffer_cap
          /\ recv_idx \in 0 .. buffer_cap - 1
          /\ send_idx = (recv_idx + buffer_len) % buffer_cap
      BY <1>2, ChannelAssumption DEF TypeOK, RingAligned
    <2>2. ASSUME NEW c \in Caller, NEW v \in Val, SendToBuffer(c, v) PROVE RingAligned'
      <3>1. (send_idx + 1) % buffer_cap = (recv_idx + (buffer_len + 1)) % buffer_cap
        BY <2>1, <2>2, RingWrite DEF SendToBuffer
      <3> QED
        BY <2>0, <2>2, <3>1 DEF SendToBuffer, RingAligned
    <2>3. ASSUME NEW c \in Caller, RecvRotate(c) PROVE RingAligned'
      <3>1. (send_idx + 1) % buffer_cap
              = (((recv_idx + 1) % buffer_cap) + buffer_len) % buffer_cap
        BY <2>1, RingTurn
      <3> QED
        BY <2>0, <2>3, <3>1 DEF RecvRotate, RingAligned
    <2>4. ASSUME NEW c \in Caller, RecvFromBuffer(c) PROVE RingAligned'
      <3>1. send_idx = (((recv_idx + 1) % buffer_cap) + (buffer_len - 1)) % buffer_cap
        BY <2>1, <2>4, RingRead DEF RecvFromBuffer
      <3> QED
        BY <2>0, <2>4, <3>1 DEF RecvFromBuffer, RingAligned
    <2>5. CASE UNCHANGED <<buffer_len, send_idx, recv_idx>>
      BY <1>2, <2>0, <2>5 DEF RingAligned
    <2> QED
      BY <1>2, <2>2, <2>3, <2>4, <2>5
         DEF Next, Send, Recv, SendClosed, SendToReceiver, SendBlock, SendOnThread,
             RecvFromSender, RecvClosed, RecvBlock, RecvOnThread, CloseClosed, Close, GReady,
             Resume, Abort, vars, chanVars
  <1> QED
    BY <1>1, <1>2, TypeCorrect, PTL DEF Spec

-----------------------------------------------------------------------------
(* No waiter is lost or readied twice *)

LEMMA ListedBy ==
  ASSUME NEW g
  PROVE  g \in Listed <=> \/ g \in ToSet(send_q) \/ g \in ToSet(recv_q)
                          \/ \E c \in Caller : g \in ToSet(wake_list[c])
  BY DEF Listed

\* A caller in user code is in no list, and has nobody left to wake.
LEMMA UserIsFree ==
  ASSUME WaiterAccounting, NEW c \in Caller, MayCall(c)
  PROVE  /\ wake_list[c] = <<>>
         /\ c \in G => c \notin Listed /\ status[c] # "G_WAITING"
  BY DEF MayCall, WaiterAccounting

\* An operation that hands members of the wait queues over to the caller's wake
\* list moves them and does nothing else.
LEMMA HandOver ==
  ASSUME TypeOK, WaiterAccounting, NEW c \in Caller, MayCall(c),
         NEW gs \in Seq(G), IsInjective(gs), LeaveToWake(c, gs), status' = status,
         IsInjective(send_q'), IsInjective(recv_q'),
         ToSet(send_q) \cup ToSet(recv_q) = ToSet(send_q') \cup ToSet(recv_q') \cup ToSet(gs),
         ToSet(send_q') \cap ToSet(recv_q') = {},
         ToSet(gs) \cap (ToSet(send_q') \cup ToSet(recv_q')) = {}
  PROVE  WaiterAccounting'
  <1>1. wake_list[c] = <<>> /\ ToSet(wake_list[c]) = {}
    BY UserIsFree, SingletonList
  <1>2. /\ wake_list'[c] = gs
        /\ \A d \in Caller : d # c => wake_list'[d] = wake_list[d] /\ pc'[d] = pc[d]
        /\ gs # <<>> => pc'[c] = "waking"
    BY DEF LeaveToWake, TypeOK
  <1>3. \A g \in G : g \in Listed' <=> g \in Listed
    <2> TAKE g \in G
    <2>1. g \in Listed' <=> \/ g \in ToSet(send_q') \/ g \in ToSet(recv_q')
                             \/ \E d \in Caller : g \in ToSet(wake_list'[d])
      BY DEF Listed
    <2> QED
      BY <1>1, <1>2, <2>1, ListedBy
  <1>4. \A g \in G : status'[g] = "G_WAITING" <=> g \in Listed'
    BY <1>3 DEF WaiterAccounting
  <1>5. \A g \in G : status'[g] # "G_RUNNING" => pc'[g] = "blocked"
    BY <1>2 DEF WaiterAccounting, MayCall, Caller
  <1>6. \A d \in Caller : /\ wake_list'[d] # <<>> => pc'[d] = "waking"
                          /\ IsInjective(wake_list'[d])
    BY <1>2 DEF WaiterAccounting
  <1>7. \A d \in Caller : ToSet(wake_list'[d]) \cap (ToSet(send_q') \cup ToSet(recv_q')) = {}
    BY <1>2 DEF WaiterAccounting
  <1>8. \A d, e \in Caller : d # e => ToSet(wake_list'[d]) \cap ToSet(wake_list'[e]) = {}
    BY <1>2 DEF WaiterAccounting
  <1> QED
    BY <1>4, <1>5, <1>6, <1>7, <1>8 DEF WaiterAccounting

\* A caller that queues itself was in no list before.
LEMMA QueueUp ==
  ASSUME TypeOK, WaiterAccounting, NEW g \in G, MayCall(g), Park(g), wake_list' = wake_list,
         \/ send_q' = Append(send_q, g) /\ recv_q' = recv_q
         \/ recv_q' = Append(recv_q, g) /\ send_q' = send_q
  PROVE  WaiterAccounting'
  <1>1. g \in Caller /\ wake_list[g] = <<>> /\ g \notin Listed
    BY UserIsFree DEF Caller
  <1>2. /\ g \notin ToSet(send_q) /\ g \notin ToSet(recv_q)
        /\ \A d \in Caller : g \notin ToSet(wake_list[d])
    BY <1>1, ListedBy
  <1>3. /\ \/ ToSet(send_q') = ToSet(send_q) \cup {g} /\ recv_q' = recv_q
           \/ ToSet(recv_q') = ToSet(recv_q) \cup {g} /\ send_q' = send_q
        /\ IsInjective(send_q') /\ IsInjective(recv_q')
    <2>1. /\ send_q \in Seq(G) /\ recv_q \in Seq(G)
          /\ IsInjective(send_q) /\ IsInjective(recv_q)
      BY DEF TypeOK, WaiterAccounting
    <2>2. CASE send_q' = Append(send_q, g) /\ recv_q' = recv_q
      BY <1>2, <2>1, <2>2, AppendList
    <2>3. CASE recv_q' = Append(recv_q, g) /\ send_q' = send_q
      BY <1>2, <2>1, <2>3, AppendList
    <2> QED
      BY <2>2, <2>3
  <1>4. /\ status' = [status EXCEPT ![g] = "G_WAITING"] /\ pc' = [pc EXCEPT ![g] = "blocked"]
        /\ status \in [G -> {"G_RUNNING", "G_RUNNABLE", "G_WAITING"}]
        /\ pc \in [Caller -> {"user", "waking", "blocked"}]
    BY DEF Park, TypeOK
  <1>5. \A h \in G : h \in Listed' <=> h \in Listed \/ h = g
    <2> TAKE h \in G
    <2>1. h \in Listed' <=> \/ h \in ToSet(send_q') \/ h \in ToSet(recv_q')
                             \/ \E d \in Caller : h \in ToSet(wake_list[d])
      BY DEF Listed
    <2> QED
      BY <1>3, <2>1, ListedBy
  <1>6. \A h \in G : status'[h] = "G_WAITING" <=> h \in Listed'
    BY <1>4, <1>5 DEF WaiterAccounting
  <1>7. /\ \A h \in G : status'[h] # "G_RUNNING" => pc'[h] = "blocked"
        /\ \A d \in Caller : wake_list'[d] # <<>> => pc'[d] = "waking"
    BY <1>1, <1>4 DEF WaiterAccounting, Caller
  <1>8. /\ ToSet(send_q') \cap ToSet(recv_q') = {}
        /\ \A d \in Caller : ToSet(wake_list[d]) \cap (ToSet(send_q') \cup ToSet(recv_q')) = {}
    BY <1>2, <1>3 DEF WaiterAccounting
  <1> QED
    BY <1>3, <1>6, <1>7, <1>8 DEF WaiterAccounting

\* run_g_ready takes the G it readies off the list.
LEMMA ReadyOne ==
  ASSUME TypeOK, WaiterAccounting, NEW c \in Caller, GReady(c)
  PROVE  WaiterAccounting'
  <1> DEFINE h == Head(wake_list[c])
  <1>1. /\ h \in G /\ Tail(wake_list[c]) \in Seq(G)
        /\ ToSet(wake_list[c]) = ToSet(Tail(wake_list[c])) \cup {h}
        /\ h \notin ToSet(Tail(wake_list[c])) /\ IsInjective(Tail(wake_list[c]))
    BY TailList DEF GReady, TypeOK, WaiterAccounting
  <1>2. /\ wake_list' = [wake_list EXCEPT ![c] = Tail(wake_list[c])]
        /\ pc' = [pc EXCEPT ![c] = IF Tail(wake_list[c]) = <<>> THEN "user" ELSE "waking"]
        /\ status' = [status EXCEPT ![h] = "G_RUNNABLE"]
        /\ send_q' = send_q /\ recv_q' = recv_q
        /\ wake_list \in [Caller -> Seq(G)]
        /\ status \in [G -> {"G_RUNNING", "G_RUNNABLE", "G_WAITING"}]
        /\ pc \in [Caller -> {"user", "waking", "blocked"}]
        /\ pc[c] = "waking"
    BY DEF GReady, LeaveToWake, TypeOK, WaiterAccounting
  <1> HIDE DEF h
  <1>3. /\ h \notin ToSet(send_q) /\ h \notin ToSet(recv_q)
        /\ \A d \in Caller : h \in ToSet(wake_list[d]) => d = c
        /\ status[h] = "G_WAITING" /\ pc[h] = "blocked"
    <2>1. h \in ToSet(wake_list[c]) /\ h \in Listed
      BY <1>1, ListedBy
    <2> QED
      BY <1>1, <2>1 DEF WaiterAccounting
  <1>4. \A d \in Caller : wake_list'[d] = IF d = c THEN Tail(wake_list[c]) ELSE wake_list[d]
    BY <1>2
  <1>5. \A g \in G : g \in Listed' <=> g \in Listed /\ g # h
    <2> TAKE g \in G
    <2>1. g \in Listed' <=> \/ g \in ToSet(send_q) \/ g \in ToSet(recv_q)
                             \/ \E d \in Caller : g \in ToSet(wake_list'[d])
      BY <1>2 DEF Listed
    <2>2. \A d \in Caller : g \in ToSet(wake_list'[d]) <=> g \in ToSet(wake_list[d]) /\ g # h
      BY <1>1, <1>3, <1>4
    <2> QED
      BY <1>3, <2>1, <2>2, ListedBy
  <1>6. \A g \in G : status'[g] = "G_WAITING" <=> g \in Listed'
    BY <1>1, <1>2, <1>5 DEF WaiterAccounting
  <1>7. /\ \A g \in G : status'[g] # "G_RUNNING" => pc'[g] = "blocked"
        /\ \A d \in Caller : wake_list'[d] # <<>> => pc'[d] = "waking"
    BY <1>2, <1>3, <1>4 DEF WaiterAccounting, Caller
  <1>8. \A d \in Caller : /\ IsInjective(wake_list'[d])
                          /\ ToSet(wake_list'[d]) \subseteq ToSet(wake_list[d])
    BY <1>1, <1>4 DEF WaiterAccounting
  <1>9. /\ \A d \in Caller : ToSet(wake_list'[d]) \cap (ToSet(send_q) \cup ToSet(recv_q)) = {}
        /\ \A d, e \in Caller : d # e => ToSet(wake_list'[d]) \cap ToSet(wake_list'[e]) = {}
    BY <1>8 DEF WaiterAccounting
  <1> QED
    BY <1>2, <1>6, <1>7, <1>8, <1>9 DEF WaiterAccounting

\* A G put to sleep by a channel operation is in exactly one list until it is
\* readied, however the operations of any number of callers interleave.
THEOREM WaiterAccountingAlways == Spec => []WaiterAccounting
  <1>1. ASSUME Init PROVE WaiterAccounting
    <2>1. ToSet(<<>>) = {} /\ IsInjective(<<>>)
      BY DEF ToSet, IsInjective
    <2>2. send_q = <<>> /\ recv_q = <<>> /\ \A c \in Caller : wake_list[c] = <<>>
      BY <1>1 DEF Init
    <2>3. Listed = {}
      BY <2>1, <2>2 DEF Listed
    <2> QED
      BY <1>1, <2>1, <2>2, <2>3 DEF Init, WaiterAccounting
  <1>2. ASSUME TypeOK, WaiterAccounting, [Next]_vars
        PROVE  WaiterAccounting'
    <2> USE <1>2
    <2>1. ASSUME UNCHANGED <<status, pc, wake_list, send_q, recv_q>> PROVE WaiterAccounting'
      BY <2>1 DEF WaiterAccounting, Listed
    <2>2. ASSUME NEW c \in Caller, NEW v \in Val, SendToReceiver(c, v) PROVE WaiterAccounting'
      <3> DEFINE h == Head(recv_q)
      <3>1. /\ h \in G /\ ToSet(recv_q) = ToSet(Tail(recv_q)) \cup {h}
            /\ h \notin ToSet(Tail(recv_q)) /\ IsInjective(Tail(recv_q))
            /\ recv_q' = Tail(recv_q) /\ send_q' = send_q /\ status' = status
            /\ MayCall(c) /\ LeaveToWake(c, <<h>>)
        BY <2>2, TailList DEF SendToReceiver, TypeOK, WaiterAccounting
      <3> HIDE DEF h
      <3>2. /\ <<h>> \in Seq(G) /\ IsInjective(<<h>>) /\ ToSet(<<h>>) = {h}
        BY <3>1, SingletonList
      <3>3. ToSet(send_q) \cap ToSet(recv_q) = {} /\ IsInjective(send_q)
        BY DEF WaiterAccounting
      <3> QED
        BY <3>1, <3>2, <3>3, HandOver
    <2>3. ASSUME NEW c \in Caller, RecvRotate(c) \/ RecvFromSender(c) PROVE WaiterAccounting'
      <3> DEFINE h == Head(send_q)
      <3>1. /\ h \in G /\ ToSet(send_q) = ToSet(Tail(send_q)) \cup {h}
            /\ h \notin ToSet(Tail(send_q)) /\ IsInjective(Tail(send_q))
            /\ send_q' = Tail(send_q) /\ recv_q' = recv_q /\ status' = status
            /\ MayCall(c) /\ LeaveToWake(c, <<h>>)
        BY <2>3, TailList DEF RecvRotate, RecvFromSender, TypeOK, WaiterAccounting
      <3> HIDE DEF h
      <3>2. /\ <<h>> \in Seq(G) /\ IsInjective(<<h>>) /\ ToSet(<<h>>) = {h}
        BY <3>1, SingletonList
      <3>3. ToSet(send_q) \cap ToSet(recv_q) = {} /\ IsInjective(recv_q)
        BY DEF WaiterAccounting
      <3> QED
        BY <3>1, <3>2, <3>3, HandOver
    <2>4. ASSUME NEW c \in Caller, Close(c) PROVE WaiterAccounting'
      <3> DEFINE gs == recv_q \o send_q
      <3>1. /\ gs \in Seq(G) /\ IsInjective(gs) /\ ToSet(gs) = ToSet(recv_q) \cup ToSet(send_q)
        BY ConcatList DEF TypeOK, WaiterAccounting
      <3>2. /\ recv_q' = <<>> /\ send_q' = <<>> /\ status' = status
            /\ MayCall(c) /\ LeaveToWake(c, gs)
        BY <2>4 DEF Close
      <3>3. ToSet(<<>>) = {} /\ IsInjective(<<>>)
        BY DEF ToSet, IsInjective
      <3> HIDE DEF gs
      <3> QED
        BY <3>1, <3>2, <3>3, HandOver
    <2>5. ASSUME NEW g \in G, NEW v \in Val, SendBlock(g, v) PROVE WaiterAccounting'
      BY <2>5, QueueUp DEF SendBlock, SendMustBlock
    <2>6. ASSUME NEW g \in G, RecvBlock(g) PROVE WaiterAccounting'
      BY <2>6, QueueUp DEF RecvBlock, NothingToRecv
    <2>7. ASSUME NEW c \in Caller, GReady(c) PROVE WaiterAccounting'
      BY <2>7, ReadyOne
    <2>8. ASSUME NEW g \in G, Resume(g) PROVE WaiterAccounting'
      <3>1. g \in Caller /\ wake_list[g] = <<>>
        BY <2>8 DEF Resume, WaiterAccounting, Caller
      <3>2. /\ \A h \in G : status'[h] = IF h = g THEN "G_RUNNING" ELSE status[h]
            /\ \A c \in Caller : c # g => pc'[c] = pc[c]
            /\ status[g] = "G_RUNNABLE"
            /\ UNCHANGED <<send_q, recv_q, wake_list>>
        BY <2>8 DEF Resume, TypeOK
      <3>3. Listed' = Listed
        BY <3>2 DEF Listed
      <3>4. \A h \in G : status'[h] = "G_WAITING" <=> h \in Listed'
        BY <3>2, <3>3 DEF WaiterAccounting
      <3>5. /\ \A h \in G : status'[h] # "G_RUNNING" => pc'[h] = "blocked"
            /\ \A c \in Caller : wake_list'[c] # <<>> => pc'[c] = "waking"
        BY <3>1, <3>2 DEF WaiterAccounting, Caller
      <3> QED
        BY <3>2, <3>4, <3>5 DEF WaiterAccounting
    <2>9. ASSUME NEW c \in Caller, NEW v \in Val, SendToBuffer(c, v) PROVE WaiterAccounting'
      BY <2>1, <2>9 DEF SendToBuffer
    <2>10. ASSUME NEW c \in Caller, RecvFromBuffer(c) \/ RecvClosed(c) PROVE WaiterAccounting'
      BY <2>1, <2>10 DEF RecvFromBuffer, RecvClosed
    <2>11. ASSUME Abort PROVE WaiterAccounting'
      BY <2>1, <2>11 DEF Abort
    <2>12. ASSUME UNCHANGED vars PROVE WaiterAccounting'
      BY <2>1, <2>12 DEF vars
    <2> QED
      BY <2>2, <2>3, <2>4, <2>5, <2>6, <2>7, <2>8, <2>9, <2>10, <2>11, <2>12
         DEF Next, Send, Recv, SendClosed, SendOnThread, RecvOnThread, CloseClosed
  <1> QED
    BY <1>1, <1>2, TypeCorrect, PTL DEF Spec

-----------------------------------------------------------------------------
(* Channel implements FifoChannel: the refinement reads the ring from the   *)
(* read position on and puts the values of the waiting senders behind it;   *)
(* the proof rests on the invariants above.                                 *)

V == Val \cup {Zero}

\* A sender is told to panic only once the channel is closed, and does nothing
\* until it has panicked.
PanicIsPending == \A g \in G : chan_panic[g] => closed /\ pc[g] = "blocked"

THEOREM PanicIsPendingAlways == Spec => []PanicIsPending
  <1>1. Init => PanicIsPending
    BY DEF Init, PanicIsPending
  <1>2. ASSUME TypeOK, WaiterAccounting, PanicIsPending, [Next]_vars
        PROVE  PanicIsPending'
    <2> USE <1>2
    <2>1. ASSUME NEW c \in Caller, NEW gs, LeaveToWake(c, gs), pc[c] # "blocked",
                 closed' = closed, chan_panic' = chan_panic
          PROVE  PanicIsPending'
      BY <2>1 DEF LeaveToWake, PanicIsPending, TypeOK, Caller
    <2>2. ASSUME NEW g \in G, Park(g), closed' = closed PROVE PanicIsPending'
      BY <2>2 DEF Park, PanicIsPending, TypeOK, Caller
    <2>3. ASSUME UNCHANGED <<closed, pc, chan_panic>> PROVE PanicIsPending'
      BY <2>3 DEF PanicIsPending
    <2>4. ASSUME NEW c \in Caller, NEW v \in Val, SendToReceiver(c, v) PROVE PanicIsPending'
      BY <2>1, <2>4 DEF SendToReceiver, MayCall, chanVars
    <2>5. ASSUME NEW c \in Caller, NEW v \in Val, SendToBuffer(c, v) PROVE PanicIsPending'
      BY <2>3, <2>5 DEF SendToBuffer
    <2>6. ASSUME NEW g \in G, NEW v \in Val, SendBlock(g, v) PROVE PanicIsPending'
      BY <2>2, <2>6 DEF SendBlock, chanVars
    <2>7. ASSUME NEW c \in Caller, RecvRotate(c) PROVE PanicIsPending'
      BY <2>1, <2>7 DEF RecvRotate, MayCall
    <2>8. ASSUME NEW c \in Caller, RecvFromSender(c) PROVE PanicIsPending'
      BY <2>1, <2>8 DEF RecvFromSender, MayCall, chanVars
    <2>9. ASSUME NEW c \in Caller, RecvFromBuffer(c) \/ RecvClosed(c) PROVE PanicIsPending'
      BY <2>3, <2>9 DEF RecvFromBuffer, RecvClosed, chanVars
    <2>10. ASSUME NEW g \in G, RecvBlock(g) PROVE PanicIsPending'
      BY <2>2, <2>10 DEF RecvBlock, chanVars
    <2>11. ASSUME NEW c \in Caller, Close(c) PROVE PanicIsPending'
      <3>1. ASSUME NEW g \in ToSet(send_q), g \in G PROVE pc[g] = "blocked"
        BY <3>1, ListedBy DEF WaiterAccounting
      <3>2. \A g \in G : chan_panic'[g] => g \in ToSet(send_q) \/ chan_panic[g]
        BY <2>11 DEF Close
      <3>3. pc[c] = "user" /\ ~closed /\ closed' /\ \A g \in G : g # c => pc'[g] = pc[g]
        BY <2>11 DEF Close, MayCall, LeaveToWake, TypeOK, Caller
      <3> QED
        BY <3>1, <3>2, <3>3 DEF PanicIsPending
    <2>12. ASSUME NEW c \in Caller, GReady(c) PROVE PanicIsPending'
      <3>1. pc[c] = "waking"
        BY <2>12 DEF GReady, WaiterAccounting
      <3> QED
        BY <2>1, <2>12, <3>1 DEF GReady, chanVars
    <2>13. ASSUME NEW g \in G, Resume(g) PROVE PanicIsPending'
      BY <2>13 DEF Resume, PanicIsPending, TypeOK, Caller, chanVars
    <2>14. ASSUME Abort PROVE PanicIsPending'
      BY <2>3, <2>14 DEF Abort, chanVars
    <2>15. ASSUME UNCHANGED vars PROVE PanicIsPending'
      BY <2>3, <2>15 DEF vars
    <2> QED
      BY <2>4, <2>5, <2>6, <2>7, <2>8, <2>9, <2>10, <2>11, <2>12, <2>13, <2>14, <2>15
         DEF Next, Send, Recv, SendClosed, SendOnThread, RecvOnThread, CloseClosed
  <1> QED
    BY <1>1, <1>2, TypeCorrect, WaiterAccountingAlways, PTL DEF Spec

-----------------------------------------------------------------------------
(* The values a channel holds *)

\* The values behind one another in a ring and those of the waiting senders.
Values(cap, ring, l, r, q, out) ==
  [i \in 1 .. l + Len(q) |-> IF i <= l THEN ring[(r + i - 1) % cap] ELSE out[q[i - l]]]

\* What the fields of a channel are, and what their values are then.
Shaped(cap, ring, l, r, q, out) ==
  /\ cap \in Nat /\ ring \in [0 .. cap - 1 -> V]
  /\ l \in 0 .. cap /\ r \in 0 .. cap /\ (cap > 0 => r < cap)
  /\ q \in Seq(G) /\ out \in [G -> V]

AreValues(s, cap, ring, l, r, q, out) ==
  /\ s \in Seq(V) /\ Len(s) = l + Len(q)
  /\ \A i \in 1 .. l + Len(q) :
       s[i] = IF i <= l THEN ring[(r + i - 1) % cap] ELSE out[q[i - l]]

\* A slot written, a sender queued, the read position moved on, a sender taken.
Written(new, ring, w, v) == new = [ring EXCEPT ![w] = v]

Queued(longer, q, g) == longer = Append(q, g)

Follows(next, r, cap) == next = (r + 1) % cap

IsEnd(w, r, l, cap) == w = (r + l) % cap

Empty(q) == q = <<>>

\* The oldest slot gets the value of the first sender that waits; what it held
\* was the oldest value.
Rotated(new, ring, r, q, out) == new = [ring EXCEPT ![r] = out[Head(q)]]

TakesHead(old, new, ring, r) == old # <<>> /\ Head(old) = ring[r] /\ new = Tail(old)

Taken(rest, q) == rest = Tail(q)

LEMMA ValuesProperties ==
  ASSUME NEW cap, NEW ring, NEW l, NEW r, NEW q, NEW out, Shaped(cap, ring, l, r, q, out)
  PROVE  AreValues(Values(cap, ring, l, r, q, out), cap, ring, l, r, q, out)
  <1> USE DEF Shaped
  <1> DEFINE s == Values(cap, ring, l, r, q, out)
             n == l + Len(q)
  <1>1. Len(q) \in Nat /\ n \in Nat /\ \A i \in 1 .. Len(q) : q[i] \in G
    BY LenProperties, ElementOfSeq
  <1>2. ASSUME NEW i \in 1 .. n
        PROVE  (IF i <= l THEN ring[(r + i - 1) % cap] ELSE out[q[i - l]]) \in V
    <2>1. CASE i <= l
      <3>1. cap \in Nat \ {0} /\ r + i - 1 \in Nat
        BY <1>1, <2>1
      <3>2. (r + i - 1) % cap \in 0 .. cap - 1
        BY <3>1
      <3> QED
        BY <2>1, <3>2
    <2>2. CASE ~(i <= l)
      <3>1. i - l \in 1 .. Len(q)
        BY <1>1, <2>2
      <3> QED
        BY <1>1, <2>2, <3>1
    <2> QED
      BY <2>1, <2>2
  <1>3. s \in [1 .. n -> V] /\ \A i \in 1 .. n :
          s[i] = IF i <= l THEN ring[(r + i - 1) % cap] ELSE out[q[i - l]]
    BY <1>2 DEF Values
  <1> HIDE DEF s
  <1>4. s \in Seq(V)
    BY <1>1, <1>3, SeqDef
  <1>5. Len(s) = n
    BY <1>1, <1>3, <1>4, LenProperties
  <1> QED
    BY <1>3, <1>4, <1>5 DEF s, AreValues

\* Two positions of a ring less than a turn apart are different slots.
LEMMA SlotsDiffer ==
  ASSUME NEW n \in Nat \ {0}, NEW r \in 0 .. n - 1, NEW i \in 0 .. n - 1, NEW j \in 0 .. n - 1,
         i # j
  PROVE  (r + i) % n # (r + j) % n
  <1>1. (r + i) % n = IF r + i < n THEN r + i ELSE r + i - n
    BY i \in 0 .. n, ModSum
  <1>2. (r + j) % n = IF r + j < n THEN r + j ELSE r + j - n
    BY j \in 0 .. n, ModSum
  <1> QED
    BY <1>1, <1>2

\* The next slot's positions, counted from the slot after r, are one later
\* counted from r.
LEMMA NextSlot ==
  ASSUME NEW n \in Nat \ {0}, NEW r \in 0 .. n - 1
  PROVE  /\ (r + 1) % n \in 0 .. n - 1
         /\ \A i \in 1 .. n : (((r + 1) % n) + i - 1) % n = (r + i) % n
  <1>1. (r + 1) % n \in 0 .. n - 1
    OBVIOUS
  <1>2. ASSUME NEW i \in 1 .. n
        PROVE  (((r + 1) % n) + i - 1) % n = (r + i) % n
    <2>1. (r + i) % n = (((r + 1) % n) + (i - 1)) % n
      BY RingRead
    <2>2. ((r + 1) % n) + (i - 1) = ((r + 1) % n) + i - 1
      BY <1>1
    <2> QED
      BY <2>1, <2>2
  <1> QED
    BY <1>1, <1>2

\* A write into the slot behind the last value appends it (run_chan_send).
LEMMA WriteAppends ==
  ASSUME NEW cap, NEW ring, NEW l, NEW r, NEW q, NEW out, Shaped(cap, ring, l, r, q, out),
         l < cap, Empty(q), NEW v \in V,
         NEW w, IsEnd(w, r, l, cap), NEW new, Written(new, ring, w, v)
  PROVE  Values(cap, new, l + 1, r, q, out) = Append(Values(cap, ring, l, r, q, out), v)
  <1> DEFINE s == Values(cap, ring, l, r, q, out)
             t == Values(cap, new, l + 1, r, q, out)
  <1>0. /\ cap \in Nat \ {0} /\ ring \in [0 .. cap - 1 -> V] /\ l \in 0 .. cap - 1
        /\ r \in 0 .. cap - 1
    BY DEF Shaped
  <1>1. /\ w \in 0 .. cap - 1 /\ new[w] = v /\ new \in [0 .. cap - 1 -> V]
        /\ \A j \in 0 .. cap - 1 : j # w => new[j] = ring[j]
    BY <1>0 DEF IsEnd, Written
  <1>2. /\ Len(q) = 0 /\ Shaped(cap, ring, l, r, q, out)
        /\ Shaped(cap, new, l + 1, r, q, out)
    BY <1>0, <1>1, EmptySeq DEF Shaped, Empty
  <1>3. /\ s \in Seq(V) /\ Len(s) = l
        /\ \A i \in 1 .. l : s[i] = ring[(r + i - 1) % cap]
    <2>1. AreValues(s, cap, ring, l, r, q, out)
      BY <1>2, ValuesProperties
    <2> HIDE DEF s
    <2> QED
      BY <2>1, <1>0, <1>2 DEF AreValues
  <1>4. /\ t \in Seq(V) /\ Len(t) = l + 1
        /\ \A i \in 1 .. l + 1 : t[i] = new[(r + i - 1) % cap]
    <2>1. AreValues(t, cap, new, l + 1, r, q, out)
      BY <1>2, ValuesProperties
    <2> HIDE DEF t
    <2> QED
      BY <2>1, <1>0, <1>2 DEF AreValues
  <1> HIDE DEF s, t
  <1>5. /\ Append(s, v) \in Seq(V) /\ Len(Append(s, v)) = l + 1
        /\ \A i \in 1 .. l : Append(s, v)[i] = s[i]
        /\ Append(s, v)[l + 1] = v
    BY <1>0, <1>3, AppendProperties
  <1>6. ASSUME NEW i \in 1 .. l + 1
        PROVE  t[i] = Append(s, v)[i]
    <2>1. CASE i = l + 1
      <3>1. r + i - 1 = r + l
        BY <1>0, <2>1
      <3>2. w = (r + l) % cap
        BY DEF IsEnd
      <3>3. t[i] = new[w] /\ Append(s, v)[i] = v
        BY <1>0, <1>4, <1>5, <2>1, <3>1, <3>2
      <3> QED
        BY <1>1, <3>3
    <2>2. CASE i # l + 1
      <3>1. i - 1 \in 0 .. cap - 1 /\ i - 1 # l /\ r + i - 1 = r + (i - 1) /\ i \in 1 .. l
        BY <1>0, <2>2
      <3>2. (r + (i - 1)) % cap # (r + l) % cap
        BY <1>0, <3>1, SlotsDiffer
      <3>3. (r + i - 1) % cap # w /\ (r + i - 1) % cap \in 0 .. cap - 1
        BY <1>0, <3>1, <3>2 DEF IsEnd
      <3>4. t[i] = new[(r + i - 1) % cap] /\ Append(s, v)[i] = ring[(r + i - 1) % cap]
        BY <1>3, <1>4, <1>5, <3>1
      <3> QED
        BY <1>1, <3>3, <3>4
    <2> QED
      BY <2>1, <2>2
  <1>7. t = Append(s, v)
    BY <1>4, <1>5, <1>6, SeqEqual
  <1> QED
    BY <1>7 DEF s, t

\* A sender that queues itself puts its value behind all others.
LEMMA QueueAppends ==
  ASSUME NEW cap, NEW ring, NEW l, NEW r, NEW q, NEW out, Shaped(cap, ring, l, r, q, out),
         NEW g \in G, g \notin ToSet(q), NEW v \in V,
         NEW longer, Queued(longer, q, g), NEW new, Written(new, out, g, v)
  PROVE  Values(cap, ring, l, r, longer, new) = Append(Values(cap, ring, l, r, q, out), v)
  <1> DEFINE s == Values(cap, ring, l, r, q, out)
             t == Values(cap, ring, l, r, longer, new)
  <1>0. q \in Seq(G) /\ out \in [G -> V] /\ l \in Nat
    BY DEF Shaped
  <1>1. /\ Len(q) \in Nat /\ \A i \in 1 .. Len(q) : q[i] \in G /\ q[i] # g
    BY <1>0, LenProperties, ElementOfSeq DEF ToSet
  <1>2. /\ longer \in Seq(G) /\ Len(longer) = Len(q) + 1
        /\ \A i \in 1 .. Len(q) : longer[i] = q[i]
        /\ longer[Len(q) + 1] = g
    BY <1>0, AppendProperties DEF Queued
  <1>3. new \in [G -> V] /\ new[g] = v /\ \A h \in G : h # g => new[h] = out[h]
    BY <1>0 DEF Written
  <1>4. AreValues(s, cap, ring, l, r, q, out)
    BY ValuesProperties
  <1>5. AreValues(t, cap, ring, l, r, longer, new)
    <2>1. Shaped(cap, ring, l, r, longer, new)
      BY <1>2, <1>3 DEF Shaped
    <2> QED
      BY <2>1, ValuesProperties
  <1> HIDE DEF s, t
  <1> DEFINE n == l + Len(q)
  <1>6. /\ s \in Seq(V) /\ Len(s) = n /\ t \in Seq(V) /\ Len(t) = n + 1 /\ n \in Nat
        /\ \A i \in 1 .. n :
             s[i] = IF i <= l THEN ring[(r + i - 1) % cap] ELSE out[q[i - l]]
        /\ \A i \in 1 .. n + 1 :
             t[i] = IF i <= l THEN ring[(r + i - 1) % cap] ELSE new[longer[i - l]]
    BY <1>0, <1>1, <1>2, <1>4, <1>5 DEF AreValues
  <1>7. /\ Append(s, v) \in Seq(V) /\ Len(Append(s, v)) = n + 1
        /\ \A i \in 1 .. n : Append(s, v)[i] = s[i]
        /\ Append(s, v)[n + 1] = v
    BY <1>6, AppendProperties
  <1>8. ASSUME NEW i \in 1 .. n + 1
        PROVE  t[i] = Append(s, v)[i]
    <2>1. CASE i <= l
      <3>1. i \in 1 .. n /\ i \in 1 .. n + 1
        BY <1>0, <1>1, <2>1
      <3>2. s[i] = ring[(r + i - 1) % cap] /\ t[i] = ring[(r + i - 1) % cap]
        BY <1>6, <2>1, <3>1, Zenon
      <3> QED
        BY <1>7, <3>1, <3>2, Zenon
    <2>2. CASE ~(i <= l) /\ i <= n
      <3>1. i - l \in 1 .. Len(q)
        BY <1>0, <1>1, <2>2
      <3>2. new[longer[i - l]] = out[q[i - l]]
        BY <1>1, <1>2, <1>3, <3>1
      <3>3. i \in 1 .. n
        BY <1>6, <2>2
      <3> QED
        BY <1>6, <1>7, <2>2, <3>2, <3>3
    <2>3. CASE i = n + 1
      <3>1. i - l = Len(q) + 1 /\ ~(i <= l)
        BY <1>0, <1>1, <2>3
      <3>2. t[i] = v
        BY <1>2, <1>3, <1>6, <3>1
      <3> QED
        BY <1>7, <2>3, <3>2
    <2> QED
      BY <1>6, <2>1, <2>2, <2>3
  <1>9. t = Append(s, v)
    BY <1>6, <1>7, <1>8, SeqEqual
  <1> QED
    BY <1>9 DEF s, t

\* A value taken from the ring was the oldest; without waiting senders the
\* others move up (run_chan_recv).
LEMMA ReadTakesHead ==
  ASSUME NEW cap, NEW ring, NEW l, NEW r, NEW q, NEW out, Shaped(cap, ring, l, r, q, out),
         l > 0, q = <<>>
  PROVE  /\ Values(cap, ring, l, r, q, out) # <<>>
         /\ Head(Values(cap, ring, l, r, q, out)) = ring[r]
         /\ Values(cap, ring, l - 1, (r + 1) % cap, q, out) = Tail(Values(cap, ring, l, r, q, out))
  <1> DEFINE s == Values(cap, ring, l, r, q, out)
             r2 == (r + 1) % cap
             t == Values(cap, ring, l - 1, r2, q, out)
  <1>1. /\ cap \in Nat \ {0} /\ l \in 1 .. cap /\ r \in 0 .. cap - 1 /\ Len(q) = 0
        /\ ring \in [0 .. cap - 1 -> V]
    BY EmptySeq DEF Shaped
  <1>2. r2 \in 0 .. cap - 1 /\ \A i \in 1 .. cap : (r2 + i - 1) % cap = (r + i) % cap
    BY <1>1, NextSlot, Zenon
  <1> HIDE DEF r2
  <1>3. Shaped(cap, ring, l - 1, r2, q, out)
    BY <1>1, <1>2 DEF Shaped
  <1>4. AreValues(s, cap, ring, l, r, q, out) /\ AreValues(t, cap, ring, l - 1, r2, q, out)
    BY <1>3, ValuesProperties
  <1> HIDE DEF s, t
  <1>5. /\ s \in Seq(V) /\ Len(s) = l /\ t \in Seq(V) /\ Len(t) = l - 1
        /\ \A i \in 1 .. l : s[i] = ring[(r + i - 1) % cap]
        /\ \A i \in 1 .. l - 1 : t[i] = ring[(r2 + i - 1) % cap]
    BY <1>1, <1>4 DEF AreValues
  <1>6. s # <<>>
    BY <1>1, <1>5, EmptySeq
  <1>7. /\ Tail(s) \in Seq(V) /\ Len(Tail(s)) = l - 1 /\ Head(s) = s[1]
        /\ \A i \in 1 .. l - 1 : Tail(s)[i] = s[i + 1]
    BY <1>5, <1>6, HeadTailProperties
  <1>8. s[1] = ring[r]
    <2>1. r + 1 - 1 = r /\ r % cap = r
      BY <1>1, ModNone
    <2> QED
      BY <1>1, <1>5, <2>1
  <1>9. ASSUME NEW i \in 1 .. l - 1
        PROVE  t[i] = Tail(s)[i]
    <2>1. i \in 1 .. cap /\ i + 1 \in 1 .. l /\ r + (i + 1) - 1 = r + i
      BY <1>1
    <2>2. s[i + 1] = ring[(r + i) % cap]
      BY <1>5, <2>1
    <2> QED
      BY <1>2, <1>5, <1>7, <2>1, <2>2
  <1>10. t = Tail(s)
    BY <1>5, <1>7, <1>9, SeqEqual
  <1> QED
    BY <1>6, <1>7, <1>8, <1>10 DEF s, t, r2

\* The slot behind a full turn is the first one.
LEMMA FullTurn ==
  ASSUME NEW n \in Nat \ {0}, NEW r \in 0 .. n - 1
  PROVE  (r + n) % n = r
  <1>1. (r + n) % n = IF r + n < n THEN r + n ELSE r + n - n
    BY n \in 0 .. n, ModSum
  <1> QED
    BY <1>1

\* A receive from a full ring lets the first waiting sender's value into the
\* slot it has freed.
LEMMA TurnTakesHead ==
  ASSUME NEW cap, NEW ring, NEW r, NEW q, NEW out, Shaped(cap, ring, cap, r, q, out),
         cap # 0, ~Empty(q),
         NEW new, Rotated(new, ring, r, q, out),
         NEW r2, Follows(r2, r, cap), NEW rest, Taken(rest, q)
  PROVE  TakesHead(Values(cap, ring, cap, r, q, out), Values(cap, new, cap, r2, rest, out),
                   ring, r)
  <1> DEFINE s == Values(cap, ring, cap, r, q, out)
             t == Values(cap, new, cap, r2, rest, out)
             n == cap + Len(q)
  <1>1. /\ cap \in Nat \ {0} /\ r \in 0 .. cap - 1 /\ q \in Seq(G)
        /\ ring \in [0 .. cap - 1 -> V] /\ out \in [G -> V]
    BY DEF Shaped, Empty
  <1>2. r2 \in 0 .. cap - 1 /\ \A i \in 1 .. cap : (r2 + i - 1) % cap = (r + i) % cap
    BY <1>1, NextSlot DEF Follows
  <1>3. (r2 + cap - 1) % cap = r
    <2>1. (r + cap) % cap = r /\ cap \in 1 .. cap
      BY <1>1, FullTurn
    <2> QED
      BY <1>2, <2>1
  <1>4. /\ rest \in Seq(G) /\ Len(q) \in Nat \ {0} /\ Len(rest) = Len(q) - 1
        /\ Head(q) = q[1] /\ Head(q) \in G
        /\ \A i \in 1 .. Len(q) - 1 : rest[i] = q[i + 1]
    BY <1>1, HeadTailProperties, EmptySeq DEF Taken, Empty
  <1>5. /\ new \in [0 .. cap - 1 -> V] /\ new[r] = out[q[1]]
        /\ \A j \in 0 .. cap - 1 : j # r => new[j] = ring[j]
    BY <1>1, <1>4 DEF Rotated
  <1>6. Shaped(cap, new, cap, r2, rest, out)
    BY <1>1, <1>2, <1>4, <1>5 DEF Shaped
  <1>7. AreValues(s, cap, ring, cap, r, q, out) /\ AreValues(t, cap, new, cap, r2, rest, out)
    BY <1>6, ValuesProperties
  <1> HIDE DEF s, t
  <1>8. /\ n \in Nat /\ n > cap /\ s \in Seq(V) /\ Len(s) = n /\ t \in Seq(V) /\ Len(t) = n - 1
        /\ \A i \in 1 .. n : s[i] = IF i <= cap THEN ring[(r + i - 1) % cap] ELSE out[q[i - cap]]
        /\ \A i \in 1 .. n - 1 :
             t[i] = IF i <= cap THEN new[(r2 + i - 1) % cap] ELSE out[rest[i - cap]]
    BY <1>1, <1>4, <1>7 DEF AreValues
  <1>0. n - cap = Len(q)
    BY <1>1, <1>4
  <1> HIDE DEF n
  <1>9. s # <<>>
    BY <1>8, EmptySeq
  <1>10. /\ Tail(s) \in Seq(V) /\ Len(Tail(s)) = n - 1 /\ Head(s) = s[1]
         /\ \A i \in 1 .. n - 1 : Tail(s)[i] = s[i + 1]
    BY <1>8, <1>9, HeadTailProperties
  <1>11. s[1] = ring[r]
    <2>1. r + 1 - 1 = r /\ r % cap = r /\ 1 <= cap /\ 1 \in 1 .. n
      BY <1>1, <1>8, ModNone
    <2> QED
      BY <1>8, <2>1
  <1>12. ASSUME NEW i \in 1 .. n - 1
         PROVE  t[i] = Tail(s)[i]
    <2>1. Tail(s)[i] = s[i + 1] /\ i + 1 \in 1 .. n
      BY <1>8, <1>10
    <2>2. CASE i < cap
      <3>1. i \in 1 .. cap - 1 /\ i + 1 <= cap /\ r + (i + 1) - 1 = r + i
        BY <1>1, <2>2
      <3>2. (r + i) % cap # r /\ (r + i) % cap \in 0 .. cap - 1
        <4>1. (r + i) % cap = IF r + i < cap THEN r + i ELSE r + i - cap
          BY <1>1, <3>1, i \in 0 .. cap, ModSum
        <4> QED
          BY <1>1, <3>1, <4>1
      <3>3. t[i] = new[(r + i) % cap]
        <4>1. i <= cap /\ i \in 1 .. n - 1 /\ i \in 1 .. cap
          BY <1>1, <1>8, <3>1
        <4>2. (r2 + i - 1) % cap = (r + i) % cap
          BY <1>2, <4>1
        <4> QED
          BY <1>8, <4>1, <4>2
      <3>4. s[i + 1] = ring[(r + i) % cap]
        BY <1>8, <2>1, <3>1
      <3> QED
        BY <1>5, <2>1, <3>2, <3>3, <3>4
    <2>3. CASE i = cap
      <3>1. (r2 + i - 1) % cap = r /\ i <= cap
        BY <1>1, <1>3, <2>3
      <3>2. t[i] = out[q[1]]
        BY <1>5, <1>8, <2>3, <3>1
      <3>3. ~(i + 1 <= cap) /\ (i + 1) - cap = 1
        BY <1>1, <2>3
      <3> QED
        BY <1>8, <2>1, <3>2, <3>3
    <2>4. CASE i > cap
      <3>1. i - cap \in 1 .. Len(q) - 1 /\ ~(i <= cap) /\ ~(i + 1 <= cap)
            /\ (i + 1) - cap = (i - cap) + 1
        BY <1>0, <1>1, <1>4, <1>8, <2>4
      <3>2. t[i] = out[rest[i - cap]]
        BY <1>8, <3>1
      <3>3. s[i + 1] = out[q[(i - cap) + 1]]
        BY <1>8, <2>1, <3>1
      <3>4. rest[i - cap] = q[(i - cap) + 1]
        BY <1>4, <3>1
      <3> QED
        BY <2>1, <3>2, <3>3, <3>4
    <2>5. i < cap \/ i = cap \/ i > cap
      BY <1>1, <1>8
    <2> QED
      BY <2>2, <2>3, <2>4, <2>5
  <1>13. t = Tail(s)
    BY <1>8, <1>10, <1>12, SeqEqual
  <1> QED
    BY <1>9, <1>10, <1>11, <1>13 DEF s, t, TakesHead

\* Without a buffer the first waiting sender's value is the oldest.
LEMMA HandOffTakesHead ==
  ASSUME NEW ring, NEW r, NEW q, NEW out, Shaped(0, ring, 0, r, q, out), q # <<>>
  PROVE  /\ Values(0, ring, 0, r, q, out) # <<>>
         /\ Head(Values(0, ring, 0, r, q, out)) = out[Head(q)]
         /\ Values(0, ring, 0, r, Tail(q), out) = Tail(Values(0, ring, 0, r, q, out))
  <1> DEFINE s == Values(0, ring, 0, r, q, out)
             rest == Tail(q)
             t == Values(0, ring, 0, r, rest, out)
  <1>1. q \in Seq(G)
    BY DEF Shaped
  <1>2. /\ rest \in Seq(G) /\ Len(q) \in Nat \ {0} /\ Len(rest) = Len(q) - 1
        /\ Head(q) = q[1]
        /\ \A i \in 1 .. Len(q) - 1 : rest[i] = q[i + 1]
    BY <1>1, HeadTailProperties, EmptySeq
  <1> HIDE DEF rest
  <1>3. Shaped(0, ring, 0, r, rest, out)
    BY <1>2 DEF Shaped
  <1>4. AreValues(s, 0, ring, 0, r, q, out) /\ AreValues(t, 0, ring, 0, r, rest, out)
    BY <1>3, ValuesProperties
  <1> HIDE DEF s, t
  <1>5. /\ s \in Seq(V) /\ Len(s) = Len(q) /\ t \in Seq(V) /\ Len(t) = Len(q) - 1
        /\ \A i \in 1 .. Len(q) : s[i] = out[q[i]]
        /\ \A i \in 1 .. Len(q) - 1 : t[i] = out[rest[i]]
    BY <1>2, <1>4 DEF AreValues
  <1>6. s # <<>>
    BY <1>2, <1>5, EmptySeq
  <1>7. /\ Tail(s) \in Seq(V) /\ Len(Tail(s)) = Len(q) - 1 /\ Head(s) = s[1]
        /\ \A i \in 1 .. Len(q) - 1 : Tail(s)[i] = s[i + 1]
    BY <1>5, <1>6, HeadTailProperties
  <1>8. ASSUME NEW i \in 1 .. Len(q) - 1
        PROVE  t[i] = Tail(s)[i]
    <2>1. i + 1 \in 1 .. Len(q)
      BY <1>2
    <2>2. s[i + 1] = out[q[i + 1]] /\ t[i] = out[rest[i]]
      BY <1>5, <2>1, Zenon
    <2>3. Tail(s)[i] = s[i + 1] /\ rest[i] = q[i + 1]
      BY <1>2, <1>7
    <2> QED
      BY <2>2, <2>3, Zenon
  <1>9. t = Tail(s)
    BY <1>5, <1>7, <1>8, SeqEqual
  <1> QED
    BY <1>2, <1>5, <1>6, <1>7, <1>9 DEF s, t, rest

\* A close drops the values of the waiting senders and no others.
LEMMA CloseDropsWaiting ==
  ASSUME NEW cap, NEW ring, NEW l, NEW r, NEW q, NEW out, Shaped(cap, ring, l, r, q, out)
  PROVE  Values(cap, ring, l, r, <<>>, out)
           = SubSeq(Values(cap, ring, l, r, q, out), 1,
                    Len(Values(cap, ring, l, r, q, out)) - Len(q))
  <1> DEFINE s == Values(cap, ring, l, r, q, out)
  <1>1. PICK none \in Seq(G) : none = <<>> /\ Len(none) = 0
    BY EmptySeq
  <1> DEFINE t == Values(cap, ring, l, r, none, out)
  <1>2. Shaped(cap, ring, l, r, none, out) /\ Len(q) \in Nat /\ l \in Nat
    BY <1>1, LenProperties DEF Shaped
  <1>3. AreValues(s, cap, ring, l, r, q, out) /\ AreValues(t, cap, ring, l, r, none, out)
    BY <1>2, ValuesProperties
  <1> HIDE DEF s, t
  <1>4. /\ s \in Seq(V) /\ Len(s) = l + Len(q) /\ t \in Seq(V) /\ Len(t) = l
        /\ \A i \in 1 .. l : s[i] \in V /\ s[i] = t[i]
    <2>1. s \in Seq(V) /\ Len(s) = l + Len(q) /\ t \in Seq(V) /\ Len(t) = l
      BY <1>1, <1>2, <1>3 DEF AreValues
    <2>2. ASSUME NEW i \in 1 .. l
          PROVE  s[i] \in V /\ s[i] = t[i]
      <3>1. i <= l /\ i \in 1 .. l + Len(q) /\ i \in 1 .. l + Len(none) /\ i \in 1 .. Len(s)
        BY <1>1, <1>2, <2>1
      <3>2. s[i] = ring[(r + i - 1) % cap] /\ t[i] = ring[(r + i - 1) % cap]
        BY <1>3, <3>1, Zenon DEF AreValues
      <3>3. s[i] \in V
        BY <2>1, <3>1, ElementOfSeq
      <3> QED
        BY <3>2, <3>3, Zenon
    <2> QED
      BY <2>1, <2>2
  <1>5. /\ SubSeq(s, 1, l) \in Seq(V) /\ Len(SubSeq(s, 1, l)) = l
        /\ \A i \in 1 .. l : SubSeq(s, 1, l)[i] = s[i]
    <2>1. 1 \in Int /\ l \in Int
      BY <1>2
    <2>2. /\ SubSeq(s, 1, l) \in Seq(V)
          /\ Len(SubSeq(s, 1, l)) = IF 1 <= l THEN l - 1 + 1 ELSE 0
          /\ \A i \in 1 .. l - 1 + 1 : SubSeq(s, 1, l)[i] = s[1 + i - 1]
      BY <1>4, <2>1, SubSeqProperties
    <2> QED
      BY <1>2, <2>2
  <1>6. t = SubSeq(s, 1, l)
    BY <1>4, <1>5, SeqEqual
  <1>7. Len(s) - Len(q) = l
    BY <1>2, <1>4
  <1> QED
    BY <1>1, <1>6, <1>7 DEF s, t

-----------------------------------------------------------------------------
(* The steps *)

ChannelInv ==
  TypeOK /\ WaitersJustified /\ RingAligned /\ WaiterAccounting /\ PanicIsPending

LEMMA HeldIs ==
  /\ Held = Values(buffer_cap, buffer, buffer_len, recv_idx, send_q, outgoing)
  /\ Held' = Values(buffer_cap', buffer', buffer_len', recv_idx', send_q', outgoing')
  BY DEF Held, Values

LEMMA ShapeNow ==
  ASSUME TypeOK
  PROVE  Shaped(buffer_cap, buffer, buffer_len, recv_idx, send_q, outgoing)
  <1>1. buffer_cap \in Nat
    BY ChannelAssumption DEF TypeOK
  <1> QED
    BY <1>1 DEF TypeOK, Shaped, V

\* A caller that may call an operation is one that FifoChannel lets act.
LEMMA CallerActs ==
  ASSUME ChannelInv, NEW c \in Caller, MayCall(c)
  PROVE  Fifo!Acts(c)
  <1>1. ~aborted /\ pc[c] = "user"
    BY DEF MayCall
  <1>2. c \notin {g \in G : chan_panic[g]}
    BY <1>1 DEF ChannelInv, PanicIsPending
  <1>3. c \notin ToSet(send_q) /\ c \notin ToSet(recv_q)
    <2>1. CASE c \in G
      <3>1. c \notin Listed
        BY <2>1, UserIsFree DEF ChannelInv
      <3> QED
        BY <3>1, ListedBy
    <2>2. CASE c \notin G
      <3>1. /\ \A i \in DOMAIN send_q : send_q[i] \in G
            /\ \A i \in DOMAIN recv_q : recv_q[i] \in G
        BY LenProperties, ElementOfSeq DEF ChannelInv, TypeOK
      <3> QED
        BY <2>2, <3>1 DEF ToSet
    <2> QED
      BY <2>1, <2>2
  <1>4. /\ \A i \in DOMAIN send_q : send_q[i] # c
        /\ \A i \in DOMAIN recv_q : recv_q[i] # c
    BY <1>3 DEF ToSet
  <1> QED
    BY <1>1, <1>2, <1>4 DEF Fifo!Acts

\* How many values a channel holds.
LEMMA HeldLength ==
  ASSUME ChannelInv
  PROVE  /\ Held \in Seq(V) /\ Len(Held) = buffer_len + Len(send_q)
         /\ Held = <<>> <=> buffer_len = 0 /\ send_q = <<>>
  <1>1. AreValues(Held, buffer_cap, buffer, buffer_len, recv_idx, send_q, outgoing)
    BY HeldIs, ShapeNow, ValuesProperties DEF ChannelInv
  <1>2. buffer_len \in Nat /\ Len(send_q) \in Nat /\ (send_q = <<>> <=> Len(send_q) = 0)
    BY ChannelAssumption, LenProperties, EmptySeq DEF ChannelInv, TypeOK
  <1>3. Held \in Seq(V) /\ Len(Held) = buffer_len + Len(send_q)
    BY <1>1 DEF AreValues
  <1>4. Held = <<>> <=> Len(Held) = 0
    <2>1. Held # <<>> => Len(Held) \in Nat \ {0}
      BY <1>3, EmptySeq, Zenon
    <2>2. Held = <<>> => Len(Held) = 0
      BY EmptySeq, Zenon
    <2> QED
      BY <2>1, <2>2
  <1>5. Len(Held) = 0 <=> buffer_len = 0 /\ Len(send_q) = 0
    <2> DEFINE total == Len(Held)
               waiting == Len(send_q)
    <2>1. buffer_len \in Nat /\ waiting \in Nat /\ total = buffer_len + waiting
      BY <1>2, <1>3
    <2> HIDE DEF total, waiting
    <2>2. total = 0 <=> buffer_len = 0 /\ waiting = 0
      BY <2>1
    <2> QED
      BY <2>2 DEF total, waiting
  <1>6. Held = <<>> <=> buffer_len = 0 /\ send_q = <<>>
    BY <1>2, <1>4, <1>5, Zenon
  <1> QED
    BY <1>3, <1>6, Zenon

LEMMA DeliverStep ==
  ASSUME ChannelInv, NEW c \in Caller, NEW v \in Val, SendToReceiver(c, v)
  PROVE  Fifo!Deliver(c, v)
  <1>1. Fifo!Acts(c)
    BY CallerActs DEF SendToReceiver
  <1>2. Held' = Held
    BY HeldIs DEF SendToReceiver, chanVars
  <1> QED
    BY <1>1, <1>2 DEF SendToReceiver, chanVars, Fifo!Deliver

LEMMA PutStep ==
  ASSUME ChannelInv, NEW c \in Caller, NEW v \in Val, SendToBuffer(c, v)
  PROVE  Fifo!Put(c, v)
  <1>1. Fifo!Acts(c)
    BY CallerActs DEF SendToBuffer
  <1>2. /\ recv_q = <<>> /\ ~closed /\ buffer_len < buffer_cap
        /\ buffer' = [buffer EXCEPT ![send_idx] = v] /\ buffer_len' = buffer_len + 1
        /\ UNCHANGED <<buffer_cap, recv_idx, send_q, recv_q, closed, chan_panic, outgoing,
                       received, aborted>>
    BY DEF SendToBuffer
  <1>3. /\ buffer_cap \in Nat \ {0} /\ buffer \in [0 .. buffer_cap - 1 -> V]
        /\ buffer_len \in 0 .. buffer_cap - 1 /\ recv_idx \in 0 .. buffer_cap - 1
        /\ send_q \in Seq(G) /\ outgoing \in [G -> V] /\ v \in V
        /\ send_idx = (recv_idx + buffer_len) % buffer_cap
    BY <1>2, ChannelAssumption DEF ChannelInv, TypeOK, RingAligned, V
  <1>4. send_q = <<>>
    BY <1>2, <1>3 DEF ChannelInv, WaitersJustified
  <1>5. Shaped(buffer_cap, buffer, buffer_len, recv_idx, send_q, outgoing) /\ v \in V
    BY ShapeNow DEF ChannelInv, V
  <1>6. Held' = Append(Held, v)
    <2>1. /\ Written(buffer', buffer, send_idx, v) /\ buffer_len < buffer_cap
          /\ IsEnd(send_idx, recv_idx, buffer_len, buffer_cap) /\ Empty(send_q)
      BY <1>2, <1>3, <1>4 DEF Written, IsEnd, Empty
    <2>2. Values(buffer_cap, buffer', buffer_len + 1, recv_idx, send_q, outgoing)
            = Append(Values(buffer_cap, buffer, buffer_len, recv_idx, send_q, outgoing), v)
      BY <1>5, <2>1, WriteAppends
    <2> QED
      BY <1>2, <2>2, HeldIs
  <1>7. Len(Held) < buffer_cap
    BY <1>2, <1>3, <1>4, HeldLength, EmptySeq
  <1> QED
    BY <1>1, <1>2, <1>6, <1>7 DEF Fifo!Put

LEMMA PutBehindStep ==
  ASSUME ChannelInv, NEW g \in G, NEW v \in Val, SendBlock(g, v)
  PROVE  Fifo!Put(g, v)
  <1>1. Fifo!Acts(g)
    BY CallerActs DEF SendBlock, SendMustBlock, Caller
  <1>2. /\ recv_q = <<>> /\ ~closed /\ ~(buffer_len < buffer_cap)
        /\ outgoing' = [outgoing EXCEPT ![g] = v] /\ send_q' = Append(send_q, g)
        /\ chan_panic' = [chan_panic EXCEPT ![g] = FALSE]
        /\ UNCHANGED <<chanVars, recv_q, received, aborted>>
    BY DEF SendBlock, SendMustBlock, Park
  <1>3. g \notin ToSet(send_q)
    BY UserIsFree, ListedBy DEF SendBlock, SendMustBlock, ChannelInv, Caller
  <1>4. Shaped(buffer_cap, buffer, buffer_len, recv_idx, send_q, outgoing) /\ v \in V
    BY ShapeNow DEF ChannelInv, V
  <1>5. Values(buffer_cap, buffer, buffer_len, recv_idx, send_q', outgoing')
          = Append(Values(buffer_cap, buffer, buffer_len, recv_idx, send_q, outgoing), v)
    <2>1. Queued(send_q', send_q, g) /\ Written(outgoing', outgoing, g, v)
      BY <1>2 DEF Queued, Written
    <2> QED
      BY <1>3, <1>4, <2>1, QueueAppends
  <1>6. Held' = Append(Held, v)
    BY <1>2, <1>5, HeldIs DEF chanVars
  <1>7. ~(Len(Held) < buffer_cap)
    <2>1. buffer_len \in Nat /\ Len(send_q) \in Nat /\ buffer_cap \in Nat
      BY ChannelAssumption, LenProperties DEF ChannelInv, TypeOK
    <2> QED
      BY <1>2, <2>1, HeldLength
  <1>8. {h \in G : chan_panic[h]}' = {h \in G : chan_panic[h]}
    BY <1>2 DEF ChannelInv, PanicIsPending, TypeOK
  <1> QED
    BY <1>1, <1>2, <1>6, <1>7, <1>8 DEF Fifo!Put, chanVars

LEMMA GetTurnStep ==
  ASSUME ChannelInv, NEW c \in Caller, RecvRotate(c)
  PROVE  Fifo!Get(c)
  <1>1. Fifo!Acts(c)
    BY CallerActs DEF RecvRotate
  <1>2. /\ send_q # <<>> /\ buffer_cap > 0 /\ received' = [received EXCEPT ![c] = buffer[recv_idx]]
        /\ buffer' = [buffer EXCEPT ![send_idx] = outgoing[Head(send_q)]]
        /\ recv_idx' = (recv_idx + 1) % buffer_cap /\ send_q' = Tail(send_q)
        /\ UNCHANGED <<buffer_cap, buffer_len, recv_q, closed, chan_panic, outgoing, aborted>>
    BY DEF RecvRotate
  <1>3. buffer_len = buffer_cap
    BY <1>2 DEF ChannelInv, WaitersJustified
  <1>4. Shaped(buffer_cap, buffer, buffer_cap, recv_idx, send_q, outgoing)
    BY <1>3, ShapeNow DEF ChannelInv
  <1>5. send_idx = recv_idx
    <2>1. buffer_cap > 0
      BY <1>2
    <2>2. buffer_cap \in Nat \ {0} /\ recv_idx \in 0 .. buffer_cap - 1
      BY <1>4, <2>1 DEF Shaped
    <2>3. send_idx = (recv_idx + buffer_len) % buffer_cap
      BY <2>1 DEF ChannelInv, RingAligned
    <2> QED
      BY <1>3, <2>2, <2>3, FullTurn
  <1>6. /\ buffer' = [buffer EXCEPT ![recv_idx] = outgoing[Head(send_q)]]
        /\ recv_idx' = (recv_idx + 1) % buffer_cap /\ send_q' = Tail(send_q)
    BY <1>2, <1>5
  <1>7. /\ Held = Values(buffer_cap, buffer, buffer_cap, recv_idx, send_q, outgoing)
        /\ Held' = Values(buffer_cap, buffer', buffer_cap, recv_idx', send_q', outgoing)
    BY <1>2, <1>3, HeldIs
  <1>8. /\ Held # <<>> /\ Head(Held) = buffer[recv_idx] /\ Held' = Tail(Held)
    <2>1. /\ Rotated(buffer', buffer, recv_idx, send_q, outgoing)
          /\ Follows(recv_idx', recv_idx, buffer_cap) /\ Taken(send_q', send_q)
          /\ ~Empty(send_q)
      BY <1>2, <1>6 DEF Rotated, Follows, Taken, Empty
    <2>2. buffer_cap # 0
      BY <1>2, <1>4 DEF Shaped
    <2> DEFINE old == Values(buffer_cap, buffer, buffer_cap, recv_idx, send_q, outgoing)
               new == Values(buffer_cap, buffer', buffer_cap, recv_idx', send_q', outgoing)
    <2>3. TakesHead(old, new, buffer, recv_idx)
      BY <1>4, <2>1, <2>2, TurnTakesHead
    <2> HIDE DEF old, new
    <2>4. Held = old /\ Held' = new
      BY <1>7 DEF old, new
    <2> QED
      BY <2>3, <2>4 DEF TakesHead
  <1> QED
    BY <1>1, <1>2, <1>8 DEF Fifo!Get

LEMMA GetHandOffStep ==
  ASSUME ChannelInv, NEW c \in Caller, RecvFromSender(c)
  PROVE  Fifo!Get(c)
  <1>1. Fifo!Acts(c)
    BY CallerActs DEF RecvFromSender
  <1>2. /\ send_q # <<>> /\ ~(buffer_cap > 0 /\ buffer_len > 0)
        /\ received' = [received EXCEPT ![c] = outgoing[Head(send_q)]]
        /\ send_q' = Tail(send_q)
        /\ UNCHANGED <<chanVars, recv_q, chan_panic, outgoing, aborted>>
    BY DEF RecvFromSender
  <1>3. buffer_len = 0 /\ buffer_cap = 0
    BY <1>2, ChannelAssumption DEF ChannelInv, WaitersJustified, TypeOK
  <1>4. Shaped(0, buffer, 0, recv_idx, send_q, outgoing)
    BY <1>3, ShapeNow DEF ChannelInv
  <1>5. /\ Held # <<>> /\ Head(Held) = outgoing[Head(send_q)] /\ Held' = Tail(Held)
    BY <1>2, <1>3, <1>4, HeldIs, HandOffTakesHead DEF chanVars
  <1> QED
    BY <1>1, <1>2, <1>5 DEF Fifo!Get, chanVars

LEMMA GetStep ==
  ASSUME ChannelInv, NEW c \in Caller, RecvFromBuffer(c)
  PROVE  Fifo!Get(c)
  <1>1. Fifo!Acts(c)
    BY CallerActs DEF RecvFromBuffer
  <1>2. /\ send_q = <<>> /\ buffer_len > 0 /\ received' = [received EXCEPT ![c] = buffer[recv_idx]]
        /\ recv_idx' = (recv_idx + 1) % buffer_cap /\ buffer_len' = buffer_len - 1
        /\ UNCHANGED <<buffer_cap, buffer, send_q, recv_q, closed, chan_panic, outgoing, aborted>>
    BY DEF RecvFromBuffer
  <1>3. Shaped(buffer_cap, buffer, buffer_len, recv_idx, send_q, outgoing)
    BY ShapeNow DEF ChannelInv
  <1>4. /\ Held # <<>> /\ Head(Held) = buffer[recv_idx] /\ Held' = Tail(Held)
    BY <1>2, <1>3, HeldIs, ReadTakesHead
  <1> QED
    BY <1>1, <1>2, <1>4 DEF Fifo!Get

LEMMA GetZeroStep ==
  ASSUME ChannelInv, NEW c \in Caller, RecvClosed(c)
  PROVE  Fifo!GetZero(c)
  <1>1. Fifo!Acts(c)
    BY CallerActs DEF RecvClosed, NothingToRecv
  <1>2. Held' = Held /\ Held = <<>>
    BY HeldIs, HeldLength DEF RecvClosed, NothingToRecv, chanVars
  <1> QED
    BY <1>1, <1>2 DEF RecvClosed, chanVars, Fifo!GetZero

LEMMA WaitStep ==
  ASSUME ChannelInv, NEW g \in G, RecvBlock(g)
  PROVE  Fifo!Wait(g)
  <1>1. Fifo!Acts(g)
    BY CallerActs DEF RecvBlock, NothingToRecv, Caller
  <1>2. Held' = Held /\ Held = <<>>
    BY HeldIs, HeldLength DEF RecvBlock, NothingToRecv, chanVars
  <1>3. {h \in G : chan_panic[h]}' = {h \in G : chan_panic[h]}
    BY DEF RecvBlock, Park, ChannelInv, PanicIsPending, TypeOK
  <1> QED
    BY <1>1, <1>2, <1>3 DEF RecvBlock, chanVars, Fifo!Wait

LEMMA ShutStep ==
  ASSUME ChannelInv, NEW c \in Caller, Close(c)
  PROVE  Fifo!Shut(c)
  <1>1. Fifo!Acts(c)
    BY CallerActs DEF Close
  <1>2. /\ ~closed /\ closed' = TRUE /\ send_q' = <<>> /\ recv_q' = <<>>
        /\ received' = [x \in Caller |-> IF x \in ToSet(recv_q) THEN Zero ELSE received[x]]
        /\ UNCHANGED <<buffer_cap, buffer, buffer_len, recv_idx, outgoing, aborted>>
    BY DEF Close
  <1>3. received' = [x \in Caller |->
                       IF \E i \in DOMAIN recv_q : recv_q[i] = x THEN Zero ELSE received[x]]
    <2>1. \A x : x \in ToSet(recv_q) <=> \E i \in DOMAIN recv_q : recv_q[i] = x
      BY DEF ToSet
    <2> QED
      BY <1>2, <2>1
  <1>4. {g \in G : chan_panic[g]}' = {send_q[i] : i \in DOMAIN send_q}
    <2>1. chan_panic' = [g \in G |-> CASE g \in ToSet(send_q) -> TRUE
                                       [] g \in ToSet(recv_q) -> FALSE
                                       [] OTHER -> chan_panic[g]]
      BY DEF Close
    <2>2. \A g \in G : ~chan_panic[g]
      BY <1>2 DEF ChannelInv, PanicIsPending
    <2>3. \A g \in G : chan_panic'[g] <=> g \in ToSet(send_q)
      <3>1. ToSet(send_q) \cap ToSet(recv_q) = {}
        BY DEF ChannelInv, WaiterAccounting
      <3> QED
        BY <2>1, <2>2, <3>1, Zenon
    <2>4. ToSet(send_q) \subseteq G
      BY LenProperties, ElementOfSeq DEF ChannelInv, TypeOK, ToSet
    <2> QED
      BY <2>3, <2>4 DEF ToSet
  <1>5. Held' = SubSeq(Held, 1, Len(Held) - Len(send_q))
    BY <1>2, HeldIs, ShapeNow, CloseDropsWaiting DEF ChannelInv
  <1> QED
    BY <1>1, <1>2, <1>3, <1>4, <1>5 DEF Fifo!Shut

\* A channel of the runtime is a FIFO channel: its steps are those of
\* FifoChannel, and the steps that wake and resume Gs change nothing in it.
THEOREM FifoImplemented == Spec => ImplementsFifo
  <1>1. ASSUME Init PROVE Fifo!Init
    <2>1. Held = <<>>
      BY <1>1, EmptySeq DEF Init, Held
    <2> QED
      BY <1>1, <2>1 DEF Init, Fifo!Init
  <1>2. ASSUME ChannelInv, [Next]_vars
        PROVE  [Fifo!Next]_(Fifo!vars)
    <2> USE <1>2
    <2>1. ASSUME NEW c \in Caller, Send(c) \/ Recv(c) \/ Close(c)
          PROVE  Fifo!Next \/ Abort
      <3>1. CASE SendClosed(c)
        BY <3>1 DEF SendClosed
      <3>2. ASSUME NEW v \in Val, SendToReceiver(c, v) PROVE Fifo!Next
        BY <3>2, DeliverStep DEF Fifo!Next
      <3>3. ASSUME NEW v \in Val, SendToBuffer(c, v) PROVE Fifo!Next
        BY <3>3, PutStep DEF Fifo!Next
      <3>4. CASE RecvRotate(c)
        BY <3>4, GetTurnStep DEF Fifo!Next
      <3>5. CASE RecvFromSender(c)
        BY <3>5, GetHandOffStep DEF Fifo!Next
      <3>6. CASE RecvFromBuffer(c)
        BY <3>6, GetStep DEF Fifo!Next
      <3>7. CASE RecvClosed(c)
        BY <3>7, GetZeroStep DEF Fifo!Next
      <3>8. CASE Close(c)
        BY <3>8, ShutStep DEF Fifo!Next
      <3> QED
        BY <2>1, <3>1, <3>2, <3>3, <3>4, <3>5, <3>6, <3>7, <3>8 DEF Send, Recv
    <2>2. ASSUME NEW g \in G, NEW v \in Val, SendBlock(g, v) PROVE Fifo!Next
      BY <2>2, PutBehindStep DEF Fifo!Next, Caller
    <2>3. ASSUME NEW g \in G, RecvBlock(g) PROVE Fifo!Next
      BY <2>3, WaitStep DEF Fifo!Next, Caller
    <2>4. ASSUME Abort, ~aborted PROVE Fifo!Next
      <3>1. Held' = Held
        BY <2>4, HeldIs DEF Abort, chanVars
      <3>2. Fifo!Panic
        BY <2>4, <3>1 DEF Abort, chanVars, Fifo!Panic
      <3> QED
        BY <3>2 DEF Fifo!Next
    <2>5. ASSUME NEW c \in Caller, GReady(c) PROVE UNCHANGED Fifo!vars
      BY <2>5, HeldIs DEF GReady, chanVars, Fifo!vars
    <2>6. ASSUME NEW g \in G, Resume(g) PROVE [Fifo!Next]_(Fifo!vars)
      <3>1. /\ ~aborted /\ aborted' = chan_panic[g] /\ Held' = Held
            /\ chan_panic' = [chan_panic EXCEPT ![g] = FALSE]
            /\ UNCHANGED <<chanVars, send_q, recv_q, received>>
        BY <2>6, HeldIs DEF Resume, chanVars
      <3>2. chan_panic \in [G -> BOOLEAN]
        BY DEF ChannelInv, TypeOK
      <3>3. CASE chan_panic[g]
        <4>1. {h \in G : chan_panic[h]}' \in SUBSET {h \in G : chan_panic[h]}
          BY <3>1, <3>2
        <4>2. Fifo!Panic
          BY <3>1, <3>3, <4>1 DEF chanVars, Fifo!Panic
        <4> QED
          BY <4>2 DEF Fifo!Next
      <3>4. CASE ~chan_panic[g]
        <4>1. {h \in G : chan_panic[h]}' = {h \in G : chan_panic[h]}
          BY <3>1, <3>2, <3>4
        <4>2. aborted' = aborted
          BY <3>1, <3>4 DEF ChannelInv, TypeOK
        <4>3. UNCHANGED Fifo!vars
          BY <3>1, <4>1, <4>2 DEF chanVars, Fifo!vars
        <4> QED
          BY <4>3
      <3> QED
        BY <3>3, <3>4
    <2>7. ASSUME UNCHANGED vars PROVE UNCHANGED Fifo!vars
      BY <2>7, HeldIs DEF vars, Fifo!vars
    <2>8. ASSUME Next PROVE [Fifo!Next]_(Fifo!vars)
      <3>1. Abort => ~aborted
        BY <2>8 DEF Abort, Next, Send, Recv, SendClosed, SendToReceiver, SendToBuffer, SendBlock,
               SendMustBlock, SendOnThread, RecvRotate, RecvFromSender, RecvFromBuffer, RecvClosed,
               RecvBlock, NothingToRecv, RecvOnThread, CloseClosed, Close, GReady, Resume, MayCall
      <3>2. Abort => Fifo!Next
        BY <2>4, <3>1
      <3> QED
        BY <2>1, <2>2, <2>3, <2>5, <2>6, <2>8, <3>2
           DEF Next, SendOnThread, RecvOnThread, CloseClosed
    <2> QED
      BY <2>7, <2>8
  <1> QED
    BY <1>1, <1>2, TypeCorrect, WaitersJustifiedAlways, RingAlignedAlways, WaiterAccountingAlways,
       PanicIsPendingAlways, PTL DEF Spec, ChannelInv, ImplementsFifo, Fifo!Spec
=============================================================================
