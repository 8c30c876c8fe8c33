---------------------------- MODULE ContainerProofs ----------------------------
(***************************************************************************)
(* The runtime's two containers.                                           *)
(*                                                                         *)
(* The hash map (run_map.c), for any keys, any hash function and any size  *)
(* of the first table: every entry can be found, every key has one entry,  *)
(* the table is never full, and the map implements Dictionary.             *)
(*                                                                         *)
(* The local run queue (run_scheduler.c), for any green threads, thieves   *)
(* and sizes, while only its owner pushes: no green thread is lost or      *)
(* taken twice, a pop misses nothing but at index 0, and the queue         *)
(* implements WorkDeque.                                                   *)
(***************************************************************************)
EXTENDS RobinMap, LocalQueue, FiniteSetTheorems, SequenceTheorems, TLAPS

-----------------------------------------------------------------------------
(* Hash map: the inductive invariant *)

\* Every distance is shorter than the table.
Near == \A j \in Slot : Occupied(j) => bucket[j].psl < capacity

\* The entry in hand has come along a path of its own, and is not behind the
\* entry that has its key.
Inserting ==
  mpc = "set" =>
    /\ insert_data.key \in Key /\ insert_data.val \in Val
    /\ insert_data.psl < capacity
    /\ idx = At(insert_data.key, insert_data.psl)
    /\ Path(insert_data.key, insert_data.psl)
    /\ \A j \in Slot : bucket[j].key = insert_data.key => insert_data.psl <= bucket[j].psl
    /\ count * 100 < capacity * 75

\* A search has not passed the entry it looks for.
Searching ==
  mpc \in {"get", "delete"} =>
    /\ key \in Key
    /\ psl < capacity
    /\ idx = At(key, psl)
    /\ \A q \in 0 .. psl - 1 : Occupied(At(key, q))
    /\ \A j \in Slot : bucket[j].key = key => psl <= bucket[j].psl

\* A deletion leaves one gap.
Shifting == mpc = "shift" => idx \in Slot /\ ~Occupied(idx)

\* A resize moves each key once, into a table of twice the size.
Resizing ==
  /\ mpc \notin {"set", "rehash"} => old_cap = 0
  /\ mpc = "rehash" => old_cap > 0 /\ count <= i
  /\ mpc = "set" /\ old_cap > 0 => count < i
  /\ old_cap > 0 =>
       /\ capacity = 2 * old_cap
       /\ key \in Key /\ val \in Val
       /\ \A j, l \in 0 .. old_cap - 1 :
            old[j].key # NULL /\ old[j].key = old[l].key => j = l
       /\ \A j \in i .. old_cap - 1 :
            old[j].key # NULL =>
              /\ \A l \in Slot : bucket[l].key # old[j].key
              /\ mpc = "set" => insert_data.key # old[j].key

MapInv ==
  MapTypeOK /\ Reachable /\ CountedOnce /\ Near /\ Inserting /\ Searching /\ Shifting /\ Resizing

-----------------------------------------------------------------------------
(* Places in the table *)

LEMMA HomeInSlot ==
  ASSUME MapTypeOK, NEW k \in Key
  PROVE  Home(k) \in Slot
  <1>1. Hash[k] \in Nat /\ capacity \in Nat /\ capacity > 0
    BY MapAssumption DEF MapTypeOK
  <1> QED
    BY <1>1 DEF Home, Slot

LEMMA AtInSlot ==
  ASSUME MapTypeOK, NEW k \in Key
  PROVE  /\ At(k, 0) = Home(k)
         /\ \A q \in 0 .. capacity - 1 : At(k, q) \in Slot
         /\ \A q \in 0 .. capacity - 2 : After(At(k, q)) = At(k, q + 1)
  BY HomeInSlot DEF At, After, Slot, MapTypeOK

LEMMA AtOnce ==
  ASSUME MapTypeOK, NEW k \in Key
  PROVE  /\ \A q, r \in 0 .. capacity - 1 : At(k, q) = At(k, r) => q = r
         /\ \A j \in Slot : \E q \in 0 .. capacity - 1 : At(k, q) = j
  <1>1. Home(k) \in Slot /\ capacity \in Nat
    BY HomeInSlot DEF MapTypeOK
  <1>2. \A q, r \in 0 .. capacity - 1 : At(k, q) = At(k, r) => q = r
    BY <1>1 DEF At, Slot
  <1>3. ASSUME NEW j \in Slot PROVE \E q \in 0 .. capacity - 1 : At(k, q) = j
    <2>1. CASE j >= Home(k)
      <3>1. j - Home(k) \in 0 .. capacity - 1 /\ At(k, j - Home(k)) = j
        BY <1>1, <2>1 DEF At, Slot
      <3> QED
        BY <3>1
    <2>2. CASE j < Home(k)
      <3>1. /\ j - Home(k) + capacity \in 0 .. capacity - 1
            /\ At(k, j - Home(k) + capacity) = j
        BY <1>1, <2>2 DEF At, Slot
      <3> QED
        BY <3>1
    <2> QED
      BY <1>1, <2>1, <2>2 DEF Slot
  <1> QED
    BY <1>2, <1>3

\* A table that counts fewer entries than buckets has an empty bucket.
LEMMA SomeEmpty ==
  ASSUME MapTypeOK, count = Cardinality({j \in Slot : Occupied(j)}), count < capacity
  PROVE  \E j \in Slot : ~Occupied(j)
  <1> DEFINE O == {j \in Slot : Occupied(j)}
  <1>1. IsFiniteSet(Slot) /\ Cardinality(Slot) = capacity
    BY FS_Interval DEF Slot, MapTypeOK
  <1>2. count = Cardinality(O) /\ capacity \in Nat
    BY DEF MapTypeOK
  <1>3. O # Slot
    <2> HIDE DEF O
    <2> QED
      BY <1>1, <1>2
  <1> QED
    BY <1>3
LEMMA FiniteSlots ==
  ASSUME MapInv
  PROVE  /\ IsFiniteSet({j \in Slot : Occupied(j)})
         /\ count = Cardinality({j \in Slot : Occupied(j)})
  <1>1. IsFiniteSet(Slot) /\ {j \in Slot : Occupied(j)} \in SUBSET Slot
    BY FS_Interval DEF Slot, MapInv, MapTypeOK
  <1>2. IsFiniteSet({j \in Slot : Occupied(j)})
    BY <1>1, FS_Subset
  <1> QED
    BY <1>2 DEF MapInv, CountedOnce

-----------------------------------------------------------------------------
(* Types *)

LEMMA MapInitInv == MapInit => MapInv
  <1> SUFFICES ASSUME MapInit PROVE MapInv
    OBVIOUS
  <1>1. /\ Slot = 0 .. InitialCap - 1
        /\ \A j \in Slot : bucket[j] = NoEntry
        /\ \A j \in Slot : ~Occupied(j)
    BY DEF MapInit, Slot, Occupied, NoEntry
  <1>2. MapTypeOK
    BY <1>1, MapAssumption DEF MapInit, MapTypeOK, Entry, NoEntry, Slot
  <1>3. Reachable /\ Near
    BY <1>1 DEF Reachable, Near
  <1>4. CountedOnce
    <2>1. {j \in Slot : Occupied(j)} = {}
      BY <1>1
    <2>2. Cardinality({j \in Slot : Occupied(j)}) = 0
      BY <2>1, FS_EmptySet
    <2> QED
      BY <1>1, <2>2, MapAssumption DEF CountedOnce, MapInit
  <1>5. Inserting /\ Searching /\ Shifting /\ Resizing
    BY DEF MapInit, Inserting, Searching, Shifting, Resizing
  <1> QED
    BY <1>2, <1>3, <1>4, <1>5 DEF MapInv

\* Entries of the table and the entry in hand, and where the loops are.
Real == [key : Key, val : Val, psl : Nat]

LEMMA Entries ==
  ASSUME MapTypeOK
  PROVE  /\ NoEntry \in Entry /\ Real \subseteq Entry
         /\ \A e \in Entry : e.key # NULL => e \in Real
         /\ \A e \in Entry : e.key = NULL => e = NoEntry
         /\ \A j \in Slot : bucket[j] \in Entry /\ (Occupied(j) => bucket[j] \in Real)
         /\ \A e \in Real : e.key \in Key /\ e.val \in Val /\ e.psl \in Nat /\ e.key # NULL
  BY MapAssumption DEF MapTypeOK, Entry, NoEntry, Real, Occupied

LEMMA Cursor ==
  ASSUME MapInv
  PROVE  /\ mpc = "set" => idx \in Slot /\ insert_data \in Real /\ insert_data.key # NULL
         /\ mpc \in {"get", "delete"} => idx \in Slot
         /\ mpc = "shift" => idx \in Slot
         /\ \A j \in Slot : After(j) \in Slot
  <1>1. MapTypeOK
    BY DEF MapInv
  <1>2. insert_data \in Entry
    BY DEF MapTypeOK, MapInv
  <1>3. ASSUME mpc = "set"
        PROVE  insert_data.key \in Key /\ insert_data.psl \in 0 .. capacity - 1
               /\ idx = At(insert_data.key, insert_data.psl) /\ insert_data \in Real
    <2>1. insert_data.key \in Key
      BY <1>3 DEF MapInv, Inserting
    <2>2. insert_data \in Real
      BY <1>1, <1>2, <2>1, MapAssumption, Entries
    <2> QED
      BY <1>1, <1>3, <2>1, <2>2 DEF MapInv, Inserting, Real, MapTypeOK
  <1>4. ASSUME mpc \in {"get", "delete"}
        PROVE  key \in Key /\ psl \in 0 .. capacity - 1 /\ idx = At(key, psl)
    BY <1>1, <1>4 DEF MapInv, Searching, MapTypeOK
  <1>5. mpc = "shift" => idx \in Slot
    BY DEF MapInv, Shifting
  <1>6. \A j \in Slot : After(j) \in Slot
    BY <1>1 DEF After, Slot, MapTypeOK
  <1> QED
    BY <1>1, <1>3, <1>4, <1>5, <1>6, AtInSlot, Entries

\* Every step leaves the variables in their types.
LEMMA NextType == MapInv /\ [MapNext]_mapVars => MapTypeOK'
  <1> SUFFICES ASSUME MapInv, [MapNext]_mapVars PROVE MapTypeOK'
    OBVIOUS
  <1> USE MapAssumption
  <1>t. MapTypeOK
    BY DEF MapInv
  <1>0. NoEntry \in Entry
    BY DEF Entry
  <1>n. \A j \in Slot : j \in Nat
    BY DEF Slot
  <1>e. \A e \in Real : e \in Entry /\ e.key \in Key /\ e.val \in Val /\ e.psl \in Nat
    BY <1>t, Entries
  <1>h. \A k \in Key : Home(k) \in Nat
    BY <1>t, HomeInSlot DEF Slot
  <1>1. ASSUME NEW k \in Key, NEW v \in Val, Set(k, v) PROVE MapTypeOK'
    <2>1. CASE Overloaded
      BY <1>t, <1>0, <1>1, <2>1 DEF Set, MapTypeOK, Slot, Resizing, MapInv
    <2>2. CASE ~Overloaded
      BY <1>t, <1>h, <1>1, <2>2 DEF Set, Insert, MapTypeOK, table, resize, Slot, Entry
    <2> QED
      BY <2>1, <2>2
  <1>2. CASE Rehash
    <2>1. CASE i < old_cap
      <3>1. /\ i' \in 0 .. old_cap /\ old_cap' = old_cap /\ old' = old
            /\ UNCHANGED <<table, key, val, psl, answer>>
        BY <1>t, <1>2, <2>1 DEF Rehash, MapTypeOK
      <3>2. old[i] \in Entry
        BY <1>t, <2>1 DEF MapTypeOK
      <3>3. old[i].key # NULL => old[i].key \in Key /\ old[i].val \in Val
        BY <1>t, <3>2, Entries DEF Real
      <3>4. /\ mpc' \in {"rehash", "nested", "set"} /\ idx' \in Nat /\ insert_data' \in Entry
        BY <1>t, <1>h, <1>2, <2>1, <3>3 DEF Rehash, Insert, MapTypeOK, Entry
      <3> QED
        BY <1>t, <3>1, <3>4 DEF MapTypeOK, table, Slot
    <2>2. CASE ~(i < old_cap)
      BY <1>t, <1>0, <1>h, <1>2, <2>2
      DEF Rehash, Insert, MapTypeOK, table, Slot, Entry, MapInv, Resizing
    <2> QED
      BY <2>1, <2>2
  <1>3. CASE SetEmpty
    <2>1. bucket' \in [Slot -> Entry]
      BY <1>t, <1>e, <1>3, Cursor DEF SetEmpty, MapTypeOK
    <2> QED
      BY <1>t, <1>0, <1>3, <2>1 DEF SetEmpty, SetReturn, Return, MapTypeOK, resize, Slot
  <1>4. CASE SetUpdate
    <2>1. [bucket[idx] EXCEPT !.val = insert_data.val] \in Real
      BY <1>t, <1>4, Cursor, Entries DEF SetUpdate, Real
    <2>2. bucket' \in [Slot -> Entry]
      BY <1>t, <1>e, <1>4, <2>1, Cursor DEF SetUpdate, MapTypeOK
    <2> QED
      BY <1>t, <1>0, <1>4, <2>2 DEF SetUpdate, SetReturn, Return, MapTypeOK, resize, Slot
  <1>5. CASE SetNext
    <2>1. /\ [bucket[idx] EXCEPT !.psl = @ + 1] \in Real
          /\ [insert_data EXCEPT !.psl = @ + 1] \in Real
      BY <1>t, <1>5, Cursor, Entries DEF SetNext, Real
    <2>2. bucket' \in [Slot -> Entry] /\ insert_data' \in Entry
      BY <1>t, <1>e, <1>5, <2>1, Cursor DEF SetNext, MapTypeOK
    <2>3. idx' \in Nat
      BY <1>5, <1>n, Cursor DEF SetNext
    <2> QED
      BY <1>t, <1>5, <2>2, <2>3 DEF SetNext, MapTypeOK, resize, Slot
  <1>6. ASSUME NEW k \in Key, NEW loop \in {"get", "delete"}, Search(k, loop) PROVE MapTypeOK'
    BY <1>t, <1>h, <1>6 DEF Search, Answer, MapTypeOK, table, resize, Slot
  <1>7. CASE Miss
    BY <1>t, <1>0, <1>7 DEF Miss, Answer, Return, MapTypeOK, table, resize, Slot
  <1>8. CASE SearchNext
    BY <1>t, <1>8 DEF SearchNext, MapTypeOK, table, resize, Slot, After
  <1>9. CASE GetHit
    <2>1. answer' \in [key : Key \cup {NULL}, result : Val \cup {NULL}]
      BY <1>t, <1>e, <1>9, Cursor, Entries DEF GetHit, Hits, Misses, Answer, MapTypeOK
    <2> QED
      BY <1>t, <1>0, <1>9, <2>1 DEF GetHit, Return, MapTypeOK, table, resize, Slot
  <1>10. CASE DeleteHit
    <2>1. answer' \in [key : Key \cup {NULL}, result : Val \cup {NULL}]
      BY <1>t, <1>e, <1>10, Cursor, Entries DEF DeleteHit, Hits, Misses, Answer, MapTypeOK
    <2>2. count' \in Nat
      <3>1. \E j \in Slot : Occupied(j)
        BY <1>10, Cursor DEF DeleteHit, Hits, Misses
      <3>2. {j \in Slot : Occupied(j)} # {}
        BY <3>1
      <3>5. IsFiniteSet(Slot)
        BY <1>t, FS_Interval DEF Slot, MapTypeOK
      <3>3. Cardinality({j \in Slot : Occupied(j)}) # 0
        BY <3>2, <3>5, FS_EmptySet, FS_Subset
      <3>4. count # 0
        BY <3>3 DEF MapInv, CountedOnce
      <3> QED
        BY <1>t, <1>10, <3>4 DEF DeleteHit, MapTypeOK
    <2> QED
      BY <1>t, <1>0, <1>10, <2>1, <2>2 DEF DeleteHit, MapTypeOK, resize, Slot
  <1>11. CASE Shift
    <2>1. CASE Occupied(After(idx)) /\ bucket[After(idx)].psl > 0
      <3>1. [bucket[After(idx)] EXCEPT !.psl = @ - 1] \in Real
        BY <1>t, <1>11, <2>1, Cursor, Entries DEF Shift, Real
      <3>2. bucket' \in [Slot -> Entry]
        BY <1>t, <1>0, <1>e, <1>11, <2>1, <3>1, Cursor DEF Shift, MapTypeOK
      <3>3. idx' \in Nat
        BY <1>11, <2>1, <1>n, Cursor DEF Shift
      <3> QED
        BY <1>t, <1>11, <2>1, <3>2, <3>3 DEF Shift, MapTypeOK, resize, Slot
    <2>2. CASE ~(Occupied(After(idx)) /\ bucket[After(idx)].psl > 0)
      BY <1>t, <1>0, <1>11, <2>2 DEF Shift, Return, MapTypeOK, resize, Slot
    <2> QED
      BY <2>1, <2>2
  <1>12. CASE UNCHANGED mapVars
    BY <1>t, <1>12 DEF mapVars, table, resize, MapTypeOK, Slot
  <1> QED
    BY <1>1, <1>2, <1>3, <1>4, <1>5, <1>6, <1>7, <1>8, <1>9, <1>10, <1>11, <1>12 DEF MapNext

-----------------------------------------------------------------------------
(* What a search and an insertion know *)

\* A row of occupied buckets from a key's home is shorter than the table.
LEMMA RoomAhead ==
  ASSUME MapInv, NEW k \in Key, NEW p \in 0 .. capacity - 1,
         \A q \in 0 .. p : Occupied(At(k, q))
  PROVE  p + 1 \in 0 .. capacity - 1 /\ After(At(k, p)) = At(k, p + 1)
  <1>1. MapTypeOK /\ capacity \in Nat
    BY DEF MapInv, MapTypeOK
  <1>2. PICK j \in Slot : ~Occupied(j)
    BY <1>1, SomeEmpty DEF MapInv, CountedOnce
  <1>3. p # capacity - 1
    BY <1>1, <1>2, AtOnce
  <1> QED
    BY <1>1, <1>3, AtInSlot

\* Two neighbours are not the same bucket, and have different neighbours.
LEMMA AfterOnce ==
  ASSUME MapTypeOK, NEW j \in Slot, NEW l \in Slot
  PROVE  After(j) # j /\ (After(j) = After(l) => j = l)
  BY DEF After, Slot, MapTypeOK

\* The entry that is p away from its home is behind the one at p - 1.
LEMMA OneBefore ==
  ASSUME MapTypeOK, NEW k \in Key, NEW p \in 1 .. capacity - 1, NEW l \in Slot,
         After(l) = At(k, p)
  PROVE  l = At(k, p - 1)
  <1>1. p - 1 \in 0 .. capacity - 2 /\ p - 1 \in 0 .. capacity - 1 /\ (p - 1) + 1 = p
    BY DEF MapTypeOK
  <1>2. At(k, p - 1) \in Slot /\ After(At(k, p - 1)) = At(k, p)
    BY <1>1, AtInSlot
  <1> QED
    BY <1>2, AfterOnce

\* A place where a key that is in the table cannot be further on: the bucket p from
\* the key's home is empty, or nearer to its home, or holds another key.
LEMMA NotFurther ==
  ASSUME MapInv, mpc # "shift", NEW k \in Key, NEW p \in 0 .. capacity - 1,
         NEW j \in Slot, bucket[j].key = k, p <= bucket[j].psl
  PROVE  /\ Occupied(At(k, p)) /\ bucket[At(k, p)].psl >= p
         /\ bucket[j].psl = p => j = At(k, p)
         /\ bucket[j].psl # p => p + 1 <= bucket[j].psl
  <1>1. MapTypeOK
    BY DEF MapInv
  <1>2. Occupied(j) /\ bucket[j] \in Real
    BY <1>1, Entries, MapAssumption DEF Occupied
  <1>3. j = At(k, bucket[j].psl) /\ Path(k, bucket[j].psl) /\ bucket[j].psl \in Nat
    BY <1>2 DEF MapInv, Reachable, Real
  <1>4. CASE bucket[j].psl = p
    BY <1>2, <1>3, <1>4
  <1>5. CASE bucket[j].psl # p
    <2>1. p \in 0 .. bucket[j].psl - 1
      BY <1>3, <1>5
    <2> QED
      BY <1>3, <1>5, <2>1 DEF Path
  <1> QED
    BY <1>4, <1>5

\* The key of the entry in hand is not in the table, where it could be put.
LEMMA NotInTable ==
  ASSUME MapInv, mpc = "set",
         ~Occupied(idx) \/ (bucket[idx].key # insert_data.key /\ bucket[idx].psl < insert_data.psl)
  PROVE  \A j \in Slot : bucket[j].key # insert_data.key
  <1> SUFFICES ASSUME NEW j \in Slot, bucket[j].key = insert_data.key
               PROVE  FALSE
    OBVIOUS
  <1>1. /\ insert_data.key \in Key /\ insert_data.psl \in 0 .. capacity - 1
        /\ idx = At(insert_data.key, insert_data.psl)
        /\ insert_data.psl <= bucket[j].psl
        /\ idx \in Slot
    BY Cursor DEF MapInv, Inserting, Real, MapTypeOK
  <1>2. /\ Occupied(idx) /\ bucket[idx].psl >= insert_data.psl
    BY <1>1, NotFurther
  <1>3. bucket[idx] \in Real
    BY <1>1, <1>2, Entries DEF MapInv
  <1> QED
    BY <1>1, <1>2, <1>3 DEF Real

\* The early end of a search is right: the key is not in the table.
LEMMA MissRight ==
  ASSUME MapInv, mpc \in {"get", "delete"}, Misses
  PROVE  \A j \in Slot : bucket[j].key # key
  <1> SUFFICES ASSUME NEW j \in Slot, bucket[j].key = key
               PROVE  FALSE
    OBVIOUS
  <1>1. /\ key \in Key /\ psl \in 0 .. capacity - 1 /\ idx = At(key, psl)
        /\ psl <= bucket[j].psl /\ idx \in Slot
    BY Cursor DEF MapInv, Searching, MapTypeOK
  <1>2. Occupied(idx) /\ bucket[idx].psl >= psl
    BY <1>1, NotFurther
  <1>3. bucket[idx] \in Real
    BY <1>1, <1>2, Entries DEF MapInv
  <1> QED
    BY <1>1, <1>2, <1>3 DEF Real, Misses

-----------------------------------------------------------------------------
(* Steps that leave the table alone *)

LEMMA TableKept ==
  ASSUME MapInv, UNCHANGED table, mpc # "shift", mpc' # "nested"
  PROVE  Reachable' /\ CountedOnce' /\ Near'
  <1>1. /\ Slot' = Slot /\ bucket' = bucket /\ capacity' = capacity /\ count' = count
        /\ \A k, q : At(k, q)' = At(k, q)
        /\ \A j : Occupied(j)' <=> Occupied(j)
    BY DEF table, Slot, At, Home, Occupied
  <1>2. Reachable'
    BY <1>1 DEF MapInv, Reachable, Path
  <1>3. CountedOnce' /\ Near'
    BY <1>1 DEF MapInv, CountedOnce, Near
  <1> QED
    BY <1>2, <1>3

LEMMA SearchKeeps ==
  ASSUME MapInv, NEW k \in Key, NEW loop \in {"get", "delete"}, Search(k, loop)
  PROVE  Inserting' /\ Searching' /\ Shifting' /\ Resizing' /\ Reachable' /\ CountedOnce' /\ Near'
  <1>1. /\ Slot' = Slot /\ bucket' = bucket /\ capacity' = capacity
        /\ \A z, q : At(z, q)' = At(z, q)
        /\ UNCHANGED table
        /\ mpc = "idle" /\ mpc' \in {"idle", loop}
    BY DEF Search, table, Slot, At, Home
  <1>2. Reachable' /\ CountedOnce' /\ Near'
    BY <1>1, TableKept
  <1>3. Searching'
    <2> SUFFICES ASSUME mpc' \in {"get", "delete"} PROVE Searching'
      BY DEF Searching
    <2>1. key' = k /\ idx' = Home(k) /\ psl' = 0
      BY <1>1 DEF Search
    <2>2. Home(k) = At(k, 0) /\ capacity > 0
      BY AtInSlot DEF MapInv, MapTypeOK
    <2>3. \A j \in Slot : bucket[j].key = k => 0 <= bucket[j].psl
      BY Entries, MapAssumption DEF MapInv, Occupied, Real
    <2> QED
      BY <1>1, <2>1, <2>2, <2>3 DEF Searching
  <1>4. Inserting' /\ Shifting' /\ Resizing'
    BY <1>1 DEF Search, resize, Inserting, Shifting, MapInv, Resizing
  <1> QED
    BY <1>2, <1>3, <1>4

LEMMA SearchNextKeeps ==
  ASSUME MapInv, SearchNext
  PROVE  Inserting' /\ Searching' /\ Shifting' /\ Resizing' /\ Reachable' /\ CountedOnce' /\ Near'
  <1>1. /\ Slot' = Slot /\ bucket' = bucket /\ capacity' = capacity
        /\ \A k, q : At(k, q)' = At(k, q)
        /\ \A j : Occupied(j)' <=> Occupied(j)
        /\ UNCHANGED table
        /\ mpc \in {"get", "delete"} /\ mpc' = mpc
        /\ key' = key /\ idx' = After(idx) /\ psl' = psl + 1
    BY DEF SearchNext, table, Slot, At, Home, Occupied
  <1>2. Reachable' /\ CountedOnce' /\ Near'
    BY <1>1, TableKept
  <1>3. /\ key \in Key /\ psl \in 0 .. capacity - 1 /\ psl \in Nat /\ idx = At(key, psl)
        /\ \A q \in 0 .. psl - 1 : Occupied(At(key, q))
        /\ Occupied(idx) /\ bucket[idx].key # key
    BY <1>1 DEF MapInv, Searching, MapTypeOK, SearchNext, Hits, Misses
  <1>4. \A q \in 0 .. psl : Occupied(At(key, q))
    BY <1>3
  <1>5. psl + 1 \in 0 .. capacity - 1 /\ After(idx) = At(key, psl + 1)
    BY <1>3, <1>4, RoomAhead
  <1>6. \A j \in Slot : bucket[j].key = key => psl + 1 <= bucket[j].psl
    <2> SUFFICES ASSUME NEW j \in Slot, bucket[j].key = key PROVE psl + 1 <= bucket[j].psl
      OBVIOUS
    <2>1. psl <= bucket[j].psl
      BY <1>1 DEF MapInv, Searching
    <2> QED
      BY <1>1, <1>3, <2>1, NotFurther
  <1>7. Searching'
    <2>1. PICK k \in Key, p \in 0 .. capacity - 1 : k = key /\ p = psl + 1
      BY <1>3, <1>5
    <2>2. key' = k /\ psl' = p /\ p < capacity' /\ idx' = At(k, p)
      BY <1>1, <1>3, <1>5, <2>1 DEF MapInv, MapTypeOK
    <2>3. \A q \in 0 .. p - 1 : Occupied(At(k, q))
      BY <1>3, <1>4, <2>1
    <2>4. \A j \in Slot' : bucket'[j].key = k => p <= bucket'[j].psl
      BY <1>1, <1>6, <2>1
    <2>5. idx' = At(key, psl)' /\ \A q \in 0 .. p - 1 : Occupied(At(key, q))'
      BY <1>1, <2>2, <2>3 DEF At, Home, Occupied
    <2> QED
      BY <2>2, <2>4, <2>5 DEF Searching
  <1>8. Inserting' /\ Shifting' /\ Resizing'
    BY <1>1 DEF SearchNext, resize, Inserting, Shifting, MapInv, Resizing
  <1> QED
    BY <1>2, <1>7, <1>8

LEMMA AnswerKeeps ==
  ASSUME MapInv, Miss \/ GetHit
  PROVE  Inserting' /\ Searching' /\ Shifting' /\ Resizing' /\ Reachable' /\ CountedOnce' /\ Near'
  <1>1. UNCHANGED <<table, resize>> /\ mpc \in {"get", "delete"} /\ mpc' = "idle"
    BY DEF Miss, GetHit, Return
  <1>2. Reachable' /\ CountedOnce' /\ Near'
    BY <1>1, TableKept
  <1> QED
    BY <1>1, <1>2 DEF resize, Inserting, Searching, Shifting, MapInv, Resizing

-----------------------------------------------------------------------------
(* Insertions and growth *)

\* An entry in its place, with its key and distance for any state.
Placed(j, k, p) ==
  bucket[j].key = k /\ bucket[j].psl = p /\ j = At(k, p) /\ Path(k, p)

LEMMA PlacedNow ==
  ASSUME MapInv, NEW j \in Slot, Occupied(j)
  PROVE  \E k \in Key, p \in 0 .. capacity - 1 : Placed(j, k, p)
  <1>1. bucket[j] \in Real /\ bucket[j].psl < capacity /\ capacity \in Nat
    BY Entries DEF MapInv, Near, MapTypeOK
  <1>2. bucket[j].key \in Key /\ bucket[j].psl \in 0 .. capacity - 1
    BY <1>1 DEF Real
  <1> QED
    BY <1>2 DEF Placed, MapInv, Reachable

LEMMA PlacedNext ==
  ASSUME Slot' = Slot, capacity' = capacity, capacity \in Nat,
         \A j \in Slot : Occupied(j)' =>
           \E k \in Key, p \in 0 .. capacity - 1 : Placed(j, k, p)'
  PROVE  Reachable' /\ Near'
  <1> SUFFICES ASSUME NEW j \in Slot, Occupied(j)'
               PROVE  /\ j = At(bucket[j].key, bucket[j].psl)'
                      /\ Path(bucket[j].key, bucket[j].psl)'
                      /\ bucket'[j].psl < capacity
    BY DEF Reachable, Near
  <1>1. PICK k \in Key, p \in 0 .. capacity - 1 : Placed(j, k, p)'
    OBVIOUS
  <1>2. bucket'[j].key = k /\ bucket'[j].psl = p /\ p < capacity
    BY <1>1 DEF Placed
  <1>3. j = At(bucket[j].key, bucket[j].psl)'
    BY <1>1, <1>2 DEF Placed, At, Home
  <1>4. Path(bucket[j].key, bucket[j].psl)'
    BY <1>1, <1>2 DEF Placed, Path, At, Home, Occupied
  <1> QED
    BY <1>2, <1>3, <1>4

LEMMA SetKeeps ==
  ASSUME MapInv, NEW k \in Key, NEW v \in Val, Set(k, v), MapTypeOK'
  PROVE  Inserting' /\ Searching' /\ Shifting' /\ Resizing' /\ Reachable' /\ CountedOnce' /\ Near'
  <1>1. MapTypeOK /\ mpc = "idle" /\ old_cap = 0
    BY DEF MapInv, Set, Resizing
  <1>2. CASE Overloaded
    <2>1. /\ capacity' = capacity * 2 /\ bucket' = [j \in 0 .. capacity * 2 - 1 |-> NoEntry]
          /\ count' = 0 /\ old_cap' = capacity /\ old' = bucket /\ i' = 0
          /\ mpc' = "rehash" /\ key' = k /\ val' = v
      BY <1>2 DEF Set
    <2>2. \A j \in Slot' : ~Occupied(j)' /\ bucket'[j].key = NULL
      BY <1>1, <2>1 DEF Slot, Occupied, NoEntry, MapTypeOK
    <2>3. CountedOnce'
      <3>1. {j \in Slot : Occupied(j)}' = {}
        BY <2>2
      <3>2. Cardinality({j \in Slot : Occupied(j)}') = 0
        BY <3>1, FS_EmptySet
      <3> QED
        BY <1>1, <2>1, <2>2, <3>2 DEF CountedOnce, MapTypeOK
    <2>4. Resizing'
      <3>1. \A j, l \in 0 .. capacity - 1 :
              bucket[j].key # NULL /\ bucket[j].key = bucket[l].key => j = l
        BY DEF MapInv, CountedOnce, Slot, Occupied
      <3>2. capacity' = 2 * old_cap' /\ old_cap' > 0
        BY <1>1, <2>1 DEF MapTypeOK
      <3> QED
        BY <1>1, <2>1, <2>2, <3>1, <3>2 DEF Resizing
    <2> QED
      BY <2>1, <2>2, <2>3, <2>4 DEF Inserting, Searching, Shifting, Reachable, Near
  <1>3. CASE ~Overloaded
    <2>1. /\ Slot' = Slot /\ bucket' = bucket /\ capacity' = capacity /\ count' = count
          /\ UNCHANGED <<table, resize>> /\ old_cap' = 0
          /\ mpc' = "set" /\ idx' = Home(k) /\ insert_data' = [key |-> k, val |-> v, psl |-> 0]
      BY <1>1, <1>3 DEF Set, Insert, table, resize, Slot
    <2>2. Reachable' /\ CountedOnce' /\ Near'
      BY <1>1, <2>1, TableKept
    <2>3. Inserting'
      <3>1. At(k, 0)' = Home(k) /\ capacity > 0
        BY <1>1, <2>1, AtInSlot DEF At, Home, MapTypeOK
      <3>2. \A j \in Slot : bucket[j].key = k => 0 <= bucket[j].psl
        BY <1>1, Entries, MapAssumption DEF Occupied, Real
      <3>3. insert_data'.key = k /\ insert_data'.val = v /\ insert_data'.psl = 0
        BY <2>1
      <3>4. Path(insert_data.key, insert_data.psl)'
        BY <3>3 DEF Path
      <3>5. idx' = At(insert_data.key, insert_data.psl)'
        BY <2>1, <3>1, <3>3
      <3>6. count * 100 < capacity * 75
        BY <1>1, <1>3 DEF Overloaded, MapTypeOK
      <3> QED
        BY <2>1, <3>1, <3>2, <3>3, <3>4, <3>5, <3>6 DEF Inserting
    <2>4. Searching' /\ Shifting' /\ Resizing'
      BY <2>1 DEF Searching, Shifting, Resizing
    <2> QED
      BY <2>2, <2>3, <2>4
  <1> QED
    BY <1>2, <1>3

LEMMA RehashKeeps ==
  ASSUME MapInv, Rehash, MapTypeOK'
  PROVE  Inserting' /\ Searching' /\ Shifting' /\ Resizing' /\ Reachable' /\ CountedOnce' /\ Near'
  <1>1. /\ MapTypeOK /\ mpc = "rehash" /\ old_cap > 0 /\ count <= i
        /\ capacity = 2 * old_cap /\ key \in Key /\ val \in Val
        /\ i \in 0 .. old_cap /\ old_cap \in Nat /\ count \in Nat
    BY DEF MapInv, Rehash, Resizing, MapTypeOK
  <1>2. ~Overloaded /\ count * 100 < capacity * 75
    BY <1>1 DEF Overloaded
  <1>3. /\ Slot' = Slot /\ bucket' = bucket /\ capacity' = capacity /\ count' = count
        /\ UNCHANGED <<table, key, val, psl, answer>>
        /\ mpc' \in {"rehash", "set"}
    BY <1>1, <1>2 DEF Rehash, Insert, table, Slot
  <1>4. Reachable' /\ CountedOnce' /\ Near'
    BY <1>1, <1>3, TableKept
  <1>5. ASSUME NEW k \in Key, NEW v \in Val, Insert(k, v)
        PROVE  Inserting'
    <2>1. At(k, 0)' = Home(k) /\ capacity > 0
      BY <1>1, <1>3, AtInSlot DEF At, Home, MapTypeOK
    <2>2. \A j \in Slot : bucket[j].key = k => 0 <= bucket[j].psl
      BY <1>1, Entries, MapAssumption DEF Occupied, Real
    <2>3. insert_data'.key = k /\ insert_data'.val = v /\ insert_data'.psl = 0 /\ idx' = Home(k)
      BY <1>5 DEF Insert
    <2>4. Path(insert_data.key, insert_data.psl)'
      BY <2>3 DEF Path
    <2>5. idx' = At(insert_data.key, insert_data.psl)'
      BY <2>1, <2>3
    <2> QED
      BY <1>2, <1>3, <2>1, <2>2, <2>3, <2>4, <2>5 DEF Inserting
  <1>6. CASE i < old_cap /\ old[i].key = NULL
    <2>1. /\ mpc' = "rehash" /\ i' = i + 1 /\ old_cap' = old_cap /\ old' = old
      BY <1>1, <1>6 DEF Rehash
    <2>2. Resizing'
      BY <1>1, <1>3, <2>1 DEF MapInv, Resizing
    <2> QED
      BY <1>4, <2>1, <2>2 DEF Inserting, Searching, Shifting
  <1>7. CASE i < old_cap /\ old[i].key # NULL
    <2>1. /\ Insert(old[i].key, old[i].val) /\ mpc' = "set"
          /\ i' = i + 1 /\ old_cap' = old_cap /\ old' = old
          /\ insert_data'.key = old[i].key
      BY <1>1, <1>2, <1>7 DEF Rehash, Insert
    <2>2. i \in 0 .. old_cap - 1 /\ old[i] \in Entry
      BY <1>1, <1>7 DEF MapTypeOK
    <2>3. old[i].key \in Key /\ old[i].val \in Val
      BY <1>1, <1>7, <2>2, Entries DEF Real
    <2>4. Inserting'
      BY <1>5, <2>1, <2>3
    <2>5. Resizing'
      BY <1>1, <1>3, <1>7, <2>1, <2>2 DEF MapInv, Resizing
    <2> QED
      BY <1>4, <2>1, <2>4, <2>5 DEF Searching, Shifting
  <1>8. CASE ~(i < old_cap)
    <2>1. Insert(key, val) /\ mpc' = "set" /\ old_cap' = 0
      BY <1>8 DEF Rehash, Insert
    <2>2. Inserting'
      BY <1>1, <1>5, <2>1
    <2> QED
      BY <1>4, <2>1, <2>2 DEF Searching, Shifting, Resizing
  <1> QED
    BY <1>6, <1>7, <1>8

LEMMA SetEmptyKeeps ==
  ASSUME MapInv, SetEmpty
  PROVE  Inserting' /\ Searching' /\ Shifting' /\ Resizing' /\ Reachable' /\ CountedOnce' /\ Near'
  <1> DEFINE e == insert_data
  <1>1. /\ MapTypeOK /\ mpc = "set" /\ ~Occupied(idx) /\ idx \in Slot
        /\ e \in Real /\ e.key \in Key /\ e.key # NULL
        /\ e.psl < capacity /\ idx = At(e.key, e.psl) /\ Path(e.key, e.psl)
        /\ count * 100 < capacity * 75
        /\ bucket \in [Slot -> Entry] /\ capacity \in Nat /\ count \in Nat /\ capacity >= 4
    BY Cursor DEF MapInv, SetEmpty, Inserting, MapTypeOK
  <1>2. /\ Slot' = Slot /\ capacity' = capacity /\ count' = count + 1
        /\ bucket' = [bucket EXCEPT ![idx] = e]
        /\ UNCHANGED <<old_cap, old, i>>
        /\ mpc' = IF old_cap = 0 THEN "idle" ELSE "rehash"
        /\ old_cap > 0 => key' = key /\ val' = val
        /\ \A k, q : At(k, q)' = At(k, q)
    BY DEF SetEmpty, SetReturn, Return, resize, Slot, At, Home, MapInv, MapTypeOK
  <1>3. /\ bucket'[idx] = e
        /\ \A j \in Slot : j # idx => bucket'[j] = bucket[j]
        /\ \A j \in Slot : Occupied(j)' <=> Occupied(j) \/ j = idx
    BY <1>1, <1>2 DEF Occupied
  <1>4. \A j \in Slot : bucket[j].key # e.key
    BY <1>1, NotInTable
  <1>5. ASSUME NEW k \in Key, NEW p \in 0 .. capacity, Path(k, p) PROVE Path(k, p)'
    <2> SUFFICES ASSUME NEW q \in 0 .. p - 1
                 PROVE  Occupied(At(k, q))' /\ bucket'[At(k, q)].psl >= q
      BY <1>2 DEF Path
    <2>1. At(k, q) \in Slot
      BY <1>1, <1>5, AtInSlot
    <2>2. Occupied(At(k, q)) /\ bucket[At(k, q)].psl >= q
      BY <1>1, <1>5 DEF Path
    <2>3. At(k, q) # idx
      BY <1>1, <2>2
    <2>4. bucket'[At(k, q)] = bucket[At(k, q)]
      BY <1>3, <2>1, <2>3
    <2> QED
      BY <1>2, <2>2, <2>4 DEF Occupied
  <1>6. Reachable' /\ Near'
    <2> SUFFICES ASSUME NEW j \in Slot, Occupied(j)'
                 PROVE  \E k \in Key, p \in 0 .. capacity - 1 : Placed(j, k, p)'
      BY <1>1, <1>2, PlacedNext
    <2>1. CASE j = idx
      <3>1. PICK k \in Key, p \in 0 .. capacity - 1 : k = e.key /\ p = e.psl
        BY <1>1 DEF Real
      <3>2. Path(k, p)'
        BY <1>1, <1>5, <3>1
      <3> QED
        BY <1>1, <1>2, <1>3, <2>1, <3>1, <3>2 DEF Placed
    <2>2. CASE j # idx
      <3>1. Occupied(j) /\ bucket'[j] = bucket[j]
        BY <1>3, <2>2
      <3>2. PICK k \in Key, p \in 0 .. capacity - 1 : Placed(j, k, p)
        BY <3>1, PlacedNow
      <3>3. Path(k, p)'
        BY <1>1, <1>5, <3>2 DEF Placed
      <3> QED
        BY <1>2, <3>1, <3>2, <3>3 DEF Placed
    <2> QED
      BY <2>1, <2>2
  <1>7. CountedOnce'
    <2> DEFINE O == {j \in Slot : Occupied(j)}
    <2>1. O' = O \cup {idx} /\ idx \notin O
      BY <1>1, <1>2, <1>3
    <2>2. IsFiniteSet(O) /\ count = Cardinality(O)
      BY FiniteSlots
    <2>3. Cardinality(O') = count + 1
      <3> HIDE DEF O
      <3> QED
        BY <2>1, <2>2, FS_AddElement
    <2>4. count + 1 < capacity
      BY <1>1
    <2>5. \A j, l \in Slot : Occupied(j)' /\ bucket'[j].key = bucket'[l].key => j = l
      BY <1>1, <1>3, <1>4 DEF MapInv, CountedOnce
    <2> QED
      BY <1>2, <2>3, <2>4, <2>5 DEF CountedOnce
  <1>8. Resizing'
    <2>1. CASE old_cap = 0
      BY <1>1, <1>2, <2>1 DEF MapInv, Resizing, MapTypeOK
    <2>2. CASE old_cap > 0
      <3>1. /\ capacity' = 2 * old_cap' /\ key' \in Key /\ val' \in Val
            /\ \A j, l \in 0 .. old_cap - 1 :
                 old[j].key # NULL /\ old[j].key = old[l].key => j = l
            /\ mpc' = "rehash" /\ count' <= i'
        BY <1>1, <1>2, <2>2 DEF MapInv, Resizing, MapTypeOK
      <3>2. ASSUME NEW j \in i .. old_cap - 1, old[j].key # NULL, NEW l \in Slot
            PROVE  bucket'[l].key # old[j].key
        BY <1>1, <1>3, <2>2, <3>2 DEF MapInv, Resizing
      <3> QED
        BY <1>2, <2>2, <3>1, <3>2 DEF Resizing
    <2> QED
      BY <1>1, <2>1, <2>2 DEF MapInv, MapTypeOK
  <1> QED
    BY <1>2, <1>6, <1>7, <1>8 DEF Inserting, Searching, Shifting

LEMMA SetUpdateKeeps ==
  ASSUME MapInv, SetUpdate
  PROVE  Inserting' /\ Searching' /\ Shifting' /\ Resizing' /\ Reachable' /\ CountedOnce' /\ Near'
  <1>1. /\ MapTypeOK /\ mpc = "set" /\ idx \in Slot /\ Occupied(idx)
        /\ bucket \in [Slot -> Entry] /\ capacity \in Nat /\ count \in Nat
        /\ bucket[idx] \in Real
    BY Cursor, Entries DEF MapInv, SetUpdate, MapTypeOK
  <1>2. /\ Slot' = Slot /\ capacity' = capacity /\ count' = count
        /\ bucket' = [bucket EXCEPT ![idx].val = insert_data.val]
        /\ UNCHANGED <<old_cap, old, i>>
        /\ mpc' = IF old_cap = 0 THEN "idle" ELSE "rehash"
        /\ old_cap > 0 => key' = key /\ val' = val
        /\ \A k, q : At(k, q)' = At(k, q)
    BY DEF SetUpdate, SetReturn, Return, resize, Slot, At, Home, MapInv, MapTypeOK
  <1>3. \A j \in Slot : bucket'[j].key = bucket[j].key /\ bucket'[j].psl = bucket[j].psl
    BY <1>1, <1>2 DEF Real
  <1>4. \A j \in Slot : Occupied(j)' <=> Occupied(j)
    BY <1>3 DEF Occupied
  <1>5. Reachable' /\ Near'
    <2> SUFFICES ASSUME NEW j \in Slot, Occupied(j)'
                 PROVE  \E k \in Key, p \in 0 .. capacity - 1 : Placed(j, k, p)'
      BY <1>1, <1>2, PlacedNext
    <2>1. PICK k \in Key, p \in 0 .. capacity - 1 : Placed(j, k, p)
      BY <1>4, PlacedNow
    <2>2. ASSUME NEW q \in 0 .. p - 1 PROVE Occupied(At(k, q))' /\ bucket'[At(k, q)].psl >= q
      <3>1. At(k, q) \in Slot
        BY <1>1, AtInSlot
      <3>2. Occupied(At(k, q)) /\ bucket[At(k, q)].psl >= q
        BY <1>1, <2>1 DEF Placed, Path
      <3> QED
        BY <1>2, <1>3, <3>1, <3>2 DEF Occupied
    <2> QED
      BY <1>2, <1>3, <2>1, <2>2 DEF Placed, Path
  <1>6. CountedOnce'
    <2>1. {j \in Slot : Occupied(j)}' = {j \in Slot : Occupied(j)}
      BY <1>2, <1>4
    <2>2. \A j, l \in Slot : Occupied(j)' /\ bucket'[j].key = bucket'[l].key => j = l
      BY <1>3, <1>4 DEF MapInv, CountedOnce
    <2>3. count' = Cardinality({j \in Slot : Occupied(j)}')
      BY <1>2, <2>1 DEF MapInv, CountedOnce
    <2> QED
      BY <1>2, <2>2, <2>3 DEF MapInv, CountedOnce
  <1>7. Resizing'
    BY <1>1, <1>2, <1>3 DEF MapInv, Resizing, MapTypeOK
  <1> QED
    BY <1>2, <1>5, <1>6, <1>7 DEF Inserting, Searching, Shifting

LEMMA SetNextKeeps ==
  ASSUME MapInv, SetNext
  PROVE  Inserting' /\ Searching' /\ Shifting' /\ Resizing' /\ Reachable' /\ CountedOnce' /\ Near'
  <1> DEFINE e == insert_data  b == bucket[idx]
  <1>1. /\ MapTypeOK /\ mpc = "set" /\ mpc' = "set" /\ idx \in Slot /\ Occupied(idx)
        /\ b.key # e.key /\ e \in Real /\ b \in Real
        /\ bucket \in [Slot -> Entry] /\ capacity \in Nat /\ count \in Nat
        /\ idx' = After(idx)
    BY Cursor, Entries DEF MapInv, SetNext, MapTypeOK
  <1>2. /\ Slot' = Slot /\ capacity' = capacity /\ count' = count
        /\ UNCHANGED <<old_cap, old, i, key, val>>
        /\ \A k, q : At(k, q)' = At(k, q)
    BY DEF SetNext, resize, Slot, At, Home
  <1>3. PICK k \in Key, p \in 0 .. capacity - 1 :
          /\ k = e.key /\ p = e.psl /\ idx = At(k, p) /\ Path(k, p)
    BY <1>1 DEF MapInv, Inserting, Real
  <1>4. PICK bk \in Key, bp \in 0 .. capacity - 1 : Placed(idx, bk, bp)
    BY <1>1, PlacedNow
  <1>5. b.key = bk /\ b.psl = bp /\ idx = At(bk, bp) /\ Path(bk, bp)
    BY <1>4 DEF Placed
  <1>p. /\ \A q \in 0 .. p - 1 : Occupied(At(k, q)) /\ bucket[At(k, q)].psl >= q
        /\ \A q \in 0 .. bp - 1 : Occupied(At(bk, q)) /\ bucket[At(bk, q)].psl >= q
    BY <1>1, <1>3, <1>5 DEF Path
  <1>6. p + 1 \in 0 .. capacity - 1 /\ After(idx) = At(k, p + 1)
    <2>1. \A q \in 0 .. p : Occupied(At(k, q))
      BY <1>1, <1>3, <1>p
    <2> QED
      BY <1>3, <2>1, RoomAhead
  <1>7. bp + 1 \in 0 .. capacity - 1 /\ After(idx) = At(bk, bp + 1)
    <2>1. \A q \in 0 .. bp : Occupied(At(bk, q))
      BY <1>1, <1>5 DEF Path
    <2> QED
      BY <1>5, <2>1, RoomAhead
  <1>8. CASE bp < p
    <2>1. /\ bucket' = [bucket EXCEPT ![idx] = e]
          /\ insert_data' = [b EXCEPT !.psl = @ + 1]
      BY <1>1, <1>3, <1>5, <1>8 DEF SetNext
    <2>2. /\ bucket'[idx] = e /\ insert_data'.key = bk /\ insert_data'.psl = bp + 1
          /\ insert_data'.val \in Val
          /\ \A j \in Slot : j # idx => bucket'[j] = bucket[j]
      BY <1>1, <1>5, <2>1 DEF Real
    <2>3. \A j \in Slot : /\ Occupied(j)' <=> Occupied(j)
                          /\ bucket[j].psl \in Nat /\ bucket'[j].psl \in Nat
                          /\ bucket'[j].psl >= bucket[j].psl
      <3>1. e.key # NULL
        BY <1>1, Entries
      <3>2. \A j \in Slot : bucket[j].psl \in Nat
        BY <1>1 DEF Entry, NoEntry
      <3> QED
        BY <1>1, <1>3, <1>5, <1>8, <2>2, <3>1, <3>2 DEF Occupied
    <2>4. \A j \in Slot : bucket[j].key # e.key
      BY <1>1, <1>3, <1>5, <1>8, NotInTable
    <2>5. ASSUME NEW z \in Key, NEW r \in 0 .. capacity, Path(z, r)
          PROVE  \A q \in 0 .. r - 1 : Occupied(At(z, q))' /\ bucket'[At(z, q)].psl >= q
      <3> SUFFICES ASSUME NEW q \in 0 .. r - 1
                   PROVE  Occupied(At(z, q))' /\ bucket'[At(z, q)].psl >= q
        OBVIOUS
      <3>1. PICK l \in Slot : l = At(z, q)
        BY <1>1, <2>5, AtInSlot
      <3>2. Occupied(l) /\ bucket[l].psl >= q
        BY <1>1, <2>5, <3>1 DEF Path
      <3>3. bucket'[l].psl >= bucket[l].psl /\ Occupied(l)'
        BY <2>3, <3>2
      <3>4. bucket[l].psl \in Nat /\ bucket'[l].psl \in Nat /\ q \in Int
        BY <2>3
      <3>5. bucket'[l].psl >= q
        BY <3>2, <3>3, <3>4
      <3> QED
        BY <1>2, <3>1, <3>3, <3>5 DEF Occupied
    <2>6. Reachable' /\ Near'
      <3> SUFFICES ASSUME NEW j \in Slot, Occupied(j)'
                   PROVE  \E z \in Key, r \in 0 .. capacity - 1 : Placed(j, z, r)'
        BY <1>1, <1>2, PlacedNext
      <3>1. CASE j = idx
        <4>1. \A q \in 0 .. p - 1 : Occupied(At(k, q))' /\ bucket'[At(k, q)].psl >= q
          BY <1>1, <1>3, <2>5
        <4>2. Path(k, p)'
          BY <1>2, <4>1 DEF Path
        <4> QED
          BY <1>2, <1>3, <2>2, <3>1, <4>2 DEF Placed
      <3>2. CASE j # idx
        <4>1. PICK z \in Key, r \in 0 .. capacity - 1 : Placed(j, z, r)
          BY <2>3, PlacedNow
        <4>2. \A q \in 0 .. r - 1 : Occupied(At(z, q))' /\ bucket'[At(z, q)].psl >= q
          BY <1>1, <2>5, <4>1 DEF Placed
        <4>3. Path(z, r)'
          BY <1>2, <4>2 DEF Path
        <4> QED
          BY <1>2, <2>2, <3>2, <4>1, <4>3 DEF Placed
      <3> QED
        BY <3>1, <3>2
    <2>7. CountedOnce'
      <3>1. {j \in Slot : Occupied(j)}' = {j \in Slot : Occupied(j)}
        BY <1>2, <2>3
      <3>2. count' = Cardinality({j \in Slot : Occupied(j)}')
        BY <1>2, <3>1 DEF MapInv, CountedOnce
      <3>3. \A j, l \in Slot : Occupied(j)' /\ bucket'[j].key = bucket'[l].key => j = l
        BY <1>1, <2>2, <2>3, <2>4 DEF MapInv, CountedOnce
      <3> QED
        BY <1>1, <1>2, <3>2, <3>3 DEF MapInv, CountedOnce
    <2>8. Inserting'
      <3>1. idx' = At(insert_data.key, insert_data.psl)'
        <4>1. idx' = At(bk, bp + 1)'
          BY <1>1, <1>2, <1>7 DEF At, Home
        <4> QED
          BY <2>2, <4>1 DEF At, Home
      <3>2. Path(insert_data.key, insert_data.psl)'
        <4>1. \A q \in 0 .. bp : Occupied(At(bk, q))' /\ bucket'[At(bk, q)].psl >= q
          <5>1. \A q \in 0 .. bp - 1 : Occupied(At(bk, q))' /\ bucket'[At(bk, q)].psl >= q
            BY <1>1, <1>5, <2>5
          <5>2. Occupied(At(bk, bp))' /\ bucket'[At(bk, bp)].psl >= bp
            BY <1>1, <1>2, <1>3, <1>5, <1>8, <2>2, <2>3 DEF Occupied
          <5> QED
            BY <5>1, <5>2
        <4>2. insert_data'.psl - 1 = bp
          BY <2>2
        <4> QED
          BY <1>2, <2>2, <4>1, <4>2 DEF Path, At, Home, Occupied
      <3>3. \A j \in Slot : bucket'[j].key # bk
        BY <1>1, <1>5, <2>2 DEF MapInv, CountedOnce
      <3>4. count * 100 < capacity * 75
        BY <1>1 DEF MapInv, Inserting
      <3>5. insert_data'.psl < capacity
        BY <1>1, <1>7, <2>2
      <3> QED
        BY <1>2, <2>2, <3>1, <3>2, <3>3, <3>4, <3>5 DEF Inserting
    <2>9. Resizing'
      <3>1. /\ \A j \in i .. old_cap - 1 : old_cap > 0 /\ old[j].key # NULL =>
                 bk # old[j].key /\ \A l \in Slot : bucket'[l].key # old[j].key
        BY <1>1, <1>5, <2>2 DEF MapInv, Resizing
      <3> QED
        BY <1>1, <1>2, <2>2, <3>1 DEF MapInv, Resizing
    <2> QED
      BY <1>1, <2>6, <2>7, <2>8, <2>9 DEF Searching, Shifting
  <1>9. CASE ~(bp < p)
    <2>1. UNCHANGED table /\ insert_data' = [e EXCEPT !.psl = @ + 1]
      BY <1>1, <1>2, <1>3, <1>5, <1>9 DEF SetNext, table
    <2>2. /\ insert_data'.key = k /\ insert_data'.psl = p + 1 /\ insert_data'.val \in Val
          /\ bucket' = bucket
      BY <1>1, <1>3, <2>1 DEF Real, table
    <2>3. Reachable' /\ CountedOnce' /\ Near'
      BY <1>1, <2>1, TableKept
    <2>4. Inserting'
      <3>1. idx' = At(insert_data.key, insert_data.psl)'
        <4>1. idx' = At(k, p + 1)'
          BY <1>1, <1>2, <1>6 DEF At, Home
        <4> QED
          BY <2>2, <4>1 DEF At, Home
      <3>2. Path(insert_data.key, insert_data.psl)'
        <4>1. \A q \in 0 .. p : Occupied(At(k, q)) /\ bucket[At(k, q)].psl >= q
          <5>1. Occupied(At(k, p)) /\ bucket[At(k, p)].psl >= p
            BY <1>1, <1>3, <1>5, <1>9
          <5> QED
            BY <1>p, <5>1
        <4>2. insert_data'.psl - 1 = p
          BY <2>2
        <4> QED
          BY <1>2, <2>2, <4>1, <4>2 DEF Path, At, Home, Occupied
      <3>3. \A j \in Slot : bucket[j].key = k => p + 1 <= bucket[j].psl
        <4> SUFFICES ASSUME NEW j \in Slot, bucket[j].key = k PROVE p + 1 <= bucket[j].psl
          OBVIOUS
        <4>1. p <= bucket[j].psl
          BY <1>1, <1>3 DEF MapInv, Inserting
        <4> QED
          BY <1>1, <1>3, <4>1, NotFurther
      <3>4. count * 100 < capacity * 75
        BY <1>1 DEF MapInv, Inserting
      <3>5. insert_data'.psl < capacity
        BY <1>1, <1>6, <2>2
      <3> QED
        BY <1>2, <2>2, <3>1, <3>2, <3>3, <3>4, <3>5 DEF Inserting
    <2>5. Resizing'
      BY <1>1, <1>2, <1>3, <2>2 DEF MapInv, Resizing
    <2> QED
      BY <1>1, <2>3, <2>4, <2>5 DEF Searching, Shifting
  <1> QED
    BY <1>8, <1>9

-----------------------------------------------------------------------------
(* Deletions *)

LEMMA DeleteHitKeeps ==
  ASSUME MapInv, DeleteHit
  PROVE  Inserting' /\ Searching' /\ Shifting' /\ Resizing' /\ Reachable' /\ CountedOnce' /\ Near'
  <1>1. /\ MapTypeOK /\ mpc = "delete" /\ mpc' = "shift" /\ idx \in Slot /\ Occupied(idx)
        /\ bucket \in [Slot -> Entry] /\ capacity \in Nat /\ count \in Nat
    BY Cursor DEF MapInv, DeleteHit, Hits, Misses, MapTypeOK
  <1>2. /\ Slot' = Slot /\ capacity' = capacity /\ count' = count - 1 /\ idx' = idx
        /\ bucket' = [bucket EXCEPT ![idx] = NoEntry]
        /\ \A k, q : At(k, q)' = At(k, q)
    BY DEF DeleteHit, Slot, At, Home
  <1>3. /\ bucket'[idx] = NoEntry
        /\ \A j \in Slot : j # idx => bucket'[j] = bucket[j]
        /\ \A j \in Slot : Occupied(j)' <=> Occupied(j) /\ j # idx
    BY <1>1, <1>2 DEF Occupied, NoEntry
  <1>4. Reachable' /\ Near'
    <2> SUFFICES ASSUME NEW j \in Slot, Occupied(j)'
                 PROVE  \E k \in Key, p \in 0 .. capacity - 1 : Placed(j, k, p)'
      BY <1>1, <1>2, PlacedNext
    <2>1. PICK k \in Key, p \in 0 .. capacity - 1 : Placed(j, k, p)
      BY <1>3, PlacedNow
    <2>2. ASSUME NEW q \in 0 .. p - 1, At(k, q) # idx
          PROVE  Occupied(At(k, q))' /\ bucket'[At(k, q)].psl >= q
      <3>1. PICK l \in Slot : l = At(k, q)
        BY <1>1, AtInSlot
      <3>2. Occupied(l) /\ bucket[l].psl >= q
        BY <1>1, <2>1, <3>1 DEF Placed, Path
      <3>3. bucket'[l] = bucket[l] /\ Occupied(l)'
        BY <1>3, <2>2, <3>1, <3>2
      <3> QED
        BY <1>2, <3>1, <3>2, <3>3 DEF Occupied
    <2>3. Path(k, p)'
      BY <1>1, <1>2, <2>2 DEF Path
    <2> QED
      BY <1>2, <1>3, <2>1, <2>3 DEF Placed
  <1>5. CountedOnce'
    <2> DEFINE O == {j \in Slot : Occupied(j)}
    <2>1. O' = O \ {idx} /\ idx \in O
      BY <1>1, <1>2, <1>3
    <2>2. IsFiniteSet(O) /\ count = Cardinality(O)
      BY FiniteSlots
    <2>3. Cardinality(O') = count - 1
      <3> HIDE DEF O
      <3> QED
        BY <2>1, <2>2, FS_RemoveElement
    <2>4. count - 1 < capacity
      BY <1>1 DEF MapInv, CountedOnce
    <2>5. \A j, l \in Slot : Occupied(j)' /\ bucket'[j].key = bucket'[l].key => j = l
      BY <1>1, <1>3 DEF MapInv, CountedOnce, Occupied, NoEntry
    <2> QED
      BY <1>1, <1>2, <2>3, <2>4, <2>5 DEF CountedOnce
  <1>6. Resizing'
    BY <1>1 DEF DeleteHit, resize, MapInv, Resizing
  <1>7. Shifting'
    BY <1>1, <1>2, <1>3 DEF Shifting
  <1> QED
    BY <1>1, <1>4, <1>5, <1>6, <1>7 DEF Inserting, Searching

\* A bucket behind the gap that is taken and away from its home closes the gap's path:
\* what passes the gap passes that bucket, too.
LEMMA PastGap ==
  ASSUME MapInv, mpc = "shift", NEW j \in Slot, NEW k \in Key, NEW p \in 0 .. capacity - 1,
         Occupied(j), Placed(j, k, p), NEW q \in 0 .. p - 1, At(k, q) = idx
  PROVE  /\ At(k, q + 1) = After(idx) /\ Occupied(After(idx))
         /\ bucket[After(idx)].psl >= q + 1
  <1>1. MapTypeOK /\ idx \in Slot /\ capacity \in Nat
    BY DEF MapInv, Shifting, MapTypeOK
  <1>2. q \in 0 .. capacity - 2 /\ After(At(k, q)) = At(k, q + 1)
    BY <1>1, AtInSlot
  <1>3. After(idx) # idx
    BY <1>1, AfterOnce
  <1>4. CASE q + 1 = p
    BY <1>2, <1>4 DEF Placed
  <1>5. CASE q + 1 # p
    <2>1. q + 1 \in 0 .. p - 1
      BY <1>5
    <2> QED
      BY <1>2, <1>3, <2>1 DEF Placed, Path
  <1> QED
    BY <1>4, <1>5

LEMMA ShiftKeeps ==
  ASSUME MapInv, Shift
  PROVE  Inserting' /\ Searching' /\ Shifting' /\ Resizing' /\ Reachable' /\ CountedOnce' /\ Near'
  <1> DEFINE nxt == After(idx)
  <1>1. /\ MapTypeOK /\ mpc = "shift" /\ idx \in Slot /\ ~Occupied(idx) /\ nxt \in Slot /\ nxt # idx
        /\ bucket \in [Slot -> Entry] /\ capacity \in Nat /\ count \in Nat
    BY Cursor, AfterOnce DEF MapInv, Shift, MapTypeOK, Shifting
  <1>2. /\ Slot' = Slot /\ capacity' = capacity /\ count' = count
        /\ UNCHANGED resize
        /\ \A k, q : At(k, q)' = At(k, q)
    BY DEF Shift, Slot, At, Home
  <1>3. CASE Occupied(nxt) /\ bucket[nxt].psl > 0
    <2>1. /\ bucket' = [bucket EXCEPT ![idx] = [bucket[nxt] EXCEPT !.psl = @ - 1],
                                      ![nxt] = NoEntry]
          /\ idx' = nxt /\ mpc' = "shift"
      BY <1>1, <1>3 DEF Shift
    <2>2. PICK nk \in Key, np \in 0 .. capacity - 1 : Placed(nxt, nk, np)
      BY <1>1, <1>3, PlacedNow
    <2>3. /\ bucket'[nxt] = NoEntry
          /\ bucket'[idx].key = nk /\ bucket'[idx].psl = np - 1
          /\ bucket[nxt].key = nk /\ bucket[nxt].psl = np
          /\ \A j \in Slot \ {idx, nxt} : bucket'[j] = bucket[j]
      <3>1. bucket[nxt] \in Real
        BY <1>1, <1>3, Entries
      <3> QED
        BY <1>1, <2>1, <2>2, <3>1 DEF Placed, Real
    <2>4. \A j \in Slot : Occupied(j)' <=> (Occupied(j) /\ j # nxt) \/ j = idx
      BY <1>1, <2>3, MapAssumption DEF Occupied, NoEntry
    <2>5. np \in 1 .. capacity - 1 /\ idx = At(nk, np - 1) /\ nxt = At(nk, np)
      <3>1. np \in 1 .. capacity - 1 /\ nxt = At(nk, np)
        BY <1>1, <1>3, <2>2, <2>3 DEF Placed
      <3> QED
        BY <1>1, <3>1, OneBefore
    <2>6. Reachable' /\ Near'
      <3> SUFFICES ASSUME NEW j \in Slot, Occupied(j)'
                   PROVE  \E k \in Key, p \in 0 .. capacity - 1 : Placed(j, k, p)'
        BY <1>1, <1>2, PlacedNext
      <3>1. CASE j = idx
        <4>1. ASSUME NEW q \in 0 .. np - 2
              PROVE  Occupied(At(nk, q))' /\ bucket'[At(nk, q)].psl >= q
          <5>1. q \in 0 .. np - 1 /\ q \in 0 .. capacity - 1 /\ np - 1 \in 0 .. capacity - 1
                /\ q # np - 1 /\ q # np
            BY <1>1, <2>5
          <5>2. PICK l \in Slot : l = At(nk, q)
            BY <1>1, <5>1, AtInSlot
          <5>3. l # idx /\ l # nxt
            BY <1>1, <2>5, <5>1, <5>2, AtOnce
          <5>4. Occupied(l) /\ bucket[l].psl >= q
            BY <2>2, <5>1, <5>2, <5>3 DEF Placed, Path
          <5>5. bucket'[l] = bucket[l] /\ Occupied(l)'
            BY <2>3, <2>4, <5>3, <5>4
          <5> QED
            BY <1>2, <5>2, <5>4, <5>5 DEF Occupied
        <4>2. PICK p \in 0 .. capacity - 1 : p = np - 1
          BY <1>1, <2>5
        <4>3. \A q \in 0 .. p - 1 : Occupied(At(nk, q))' /\ bucket'[At(nk, q)].psl >= q
          BY <4>1, <4>2
        <4>4. Path(nk, p)'
          BY <1>2, <4>3 DEF Path
        <4> QED
          BY <1>2, <2>3, <2>5, <3>1, <4>2, <4>4 DEF Placed
      <3>2. CASE j # idx
        <4>1. Occupied(j) /\ j # nxt /\ bucket'[j] = bucket[j]
          BY <2>3, <2>4, <3>2
        <4>2. PICK k \in Key, p \in 0 .. capacity - 1 : Placed(j, k, p)
          BY <4>1, PlacedNow
        <4>3. ASSUME NEW q \in 0 .. p - 1, At(k, q) # nxt
              PROVE  Occupied(At(k, q))' /\ bucket'[At(k, q)].psl >= q
          <5>1. PICK l \in Slot : l = At(k, q)
            BY <1>1, AtInSlot
          <5>2. CASE l = idx
            <6>1. np >= q + 1
              BY <1>1, <2>3, <4>1, <4>2, <5>1, <5>2, PastGap
            <6>2. Occupied(l)' /\ bucket'[l].psl = np - 1
              BY <2>3, <2>4, <5>2
            <6>3. np - 1 >= q
              BY <1>1, <6>1
            <6> QED
              BY <1>2, <5>1, <6>2, <6>3 DEF Occupied
          <5>3. CASE l # idx
            <6>1. Occupied(l) /\ bucket[l].psl >= q
              BY <4>2, <5>1, <5>3 DEF Placed, Path
            <6>2. bucket'[l] = bucket[l] /\ Occupied(l)'
              BY <2>3, <2>4, <4>3, <5>1, <5>3, <6>1
            <6> QED
              BY <1>2, <5>1, <6>1, <6>2 DEF Occupied
          <5> QED
            BY <5>2, <5>3
        <4>4. Path(k, p)'
          BY <1>2, <2>1, <4>3 DEF Path
        <4> QED
          BY <1>2, <4>1, <4>2, <4>4 DEF Placed
      <3> QED
        BY <3>1, <3>2
    <2>7. CountedOnce'
      <3> DEFINE O == {j \in Slot : Occupied(j)}
      <3>1. O' = (O \ {nxt}) \cup {idx} /\ nxt \in O /\ idx \notin O
        BY <1>1, <1>2, <1>3, <2>4
      <3>2. IsFiniteSet(O) /\ count = Cardinality(O)
        BY FiniteSlots
      <3>3. Cardinality(O') = count
        <4> HIDE DEF O
        <4>1. IsFiniteSet(O \ {nxt}) /\ Cardinality(O \ {nxt}) = count - 1
          BY <3>1, <3>2, FS_RemoveElement
        <4>2. Cardinality((O \ {nxt}) \cup {idx}) = (count - 1) + 1
          BY <3>1, <4>1, FS_AddElement
        <4> QED
          BY <1>1, <3>1, <4>2
      <3>4. \A j, l \in Slot : Occupied(j)' /\ bucket'[j].key = bucket'[l].key => j = l
        <4>1. \A j \in Slot \ {idx, nxt} : bucket[j].key # nk
          BY <1>1, <1>3, <2>3 DEF MapInv, CountedOnce
        <4> QED
          BY <1>1, <1>3, <2>3, <2>4, <4>1, MapAssumption DEF MapInv, CountedOnce, Occupied, NoEntry
      <3> QED
        BY <1>2, <2>1, <3>3, <3>4 DEF CountedOnce, MapInv
    <2>8. Shifting'
      BY <1>1, <1>2, <2>1, <2>4 DEF Shifting
    <2>9. Resizing'
      BY <1>1, <1>2, <2>1 DEF resize, MapInv, Resizing
    <2> QED
      BY <2>1, <2>6, <2>7, <2>8, <2>9 DEF Inserting, Searching
  <1>4. CASE ~(Occupied(nxt) /\ bucket[nxt].psl > 0)
    <2>1. bucket' = bucket /\ mpc' = "idle"
      BY <1>1, <1>4 DEF Shift, Return
    <2>2. \A j : Occupied(j)' <=> Occupied(j)
      BY <2>1 DEF Occupied
    <2>3. Reachable' /\ Near'
      <3> SUFFICES ASSUME NEW j \in Slot, Occupied(j)'
                   PROVE  \E k \in Key, p \in 0 .. capacity - 1 : Placed(j, k, p)'
        BY <1>1, <1>2, PlacedNext
      <3>1. PICK k \in Key, p \in 0 .. capacity - 1 : Placed(j, k, p)
        BY <2>2, PlacedNow
      <3>2. ASSUME NEW q \in 0 .. p - 1
            PROVE  Occupied(At(k, q)) /\ bucket[At(k, q)].psl >= q
        <4>1. At(k, q) # idx
          <5> SUFFICES ASSUME At(k, q) = idx PROVE FALSE
            OBVIOUS
          <5>1. Occupied(nxt) /\ bucket[nxt].psl >= q + 1
            BY <1>1, <2>2, <3>1, PastGap
          <5>2. bucket[nxt].psl \in Nat
            BY <1>1, <5>1, Entries DEF Real
          <5> QED
            BY <1>4, <5>1, <5>2
        <4> QED
          BY <3>1, <4>1 DEF Placed, Path
      <3>3. Path(k, p)'
        BY <1>2, <2>1, <3>2 DEF Path, Occupied
      <3> QED
        BY <1>2, <2>1, <3>1, <3>3 DEF Placed
    <2>4. CountedOnce'
      BY <1>2, <2>1, <2>2 DEF MapInv, CountedOnce
    <2>5. Resizing'
      BY <1>1, <1>2, <2>1 DEF resize, MapInv, Resizing
    <2> QED
      BY <2>1, <2>3, <2>4, <2>5 DEF Inserting, Searching, Shifting
  <1> QED
    BY <1>3, <1>4

-----------------------------------------------------------------------------
(* The theorems *)

LEMMA NextMapInv == MapInv /\ [MapNext]_mapVars => MapInv'
  <1> SUFFICES ASSUME MapInv, [MapNext]_mapVars PROVE MapInv'
    OBVIOUS
  <1>t. MapTypeOK'
    BY NextType
  <1> DEFINE Rest == Inserting /\ Searching /\ Shifting /\ Resizing
                     /\ Reachable /\ CountedOnce /\ Near
  <1> SUFFICES Rest'
    BY <1>t DEF MapInv
  <1>1. ASSUME NEW k \in Key, NEW v \in Val, Set(k, v) PROVE Rest'
    BY <1>t, <1>1, SetKeeps
  <1>2. CASE Rehash
    BY <1>t, <1>2, RehashKeeps
  <1>3. CASE SetEmpty
    BY <1>3, SetEmptyKeeps
  <1>4. CASE SetUpdate
    BY <1>4, SetUpdateKeeps
  <1>5. CASE SetNext
    BY <1>5, SetNextKeeps
  <1>6. ASSUME NEW k \in Key, NEW loop \in {"get", "delete"}, Search(k, loop) PROVE Rest'
    BY <1>6, SearchKeeps
  <1>7. CASE Miss \/ GetHit
    BY <1>7, AnswerKeeps
  <1>8. CASE SearchNext
    BY <1>8, SearchNextKeeps
  <1>9. CASE DeleteHit
    BY <1>9, DeleteHitKeeps
  <1>10. CASE Shift
    BY <1>10, ShiftKeeps
  <1>11. CASE UNCHANGED mapVars
    <2>1. /\ UNCHANGED <<capacity, bucket, count, old_cap, old, i>>
          /\ UNCHANGED <<mpc, key, val, idx, psl, insert_data>>
      BY <1>11 DEF mapVars, table, resize
    <2>2. \A j : Occupied(j)' <=> Occupied(j)
      BY <2>1 DEF Occupied
    <2>3. (Reachable' <=> Reachable) /\ (Near' <=> Near) /\ (CountedOnce' <=> CountedOnce)
      BY <2>1 DEF Reachable, Near, CountedOnce, Path, At, Home, Slot, Occupied
    <2>4. (Inserting' <=> Inserting) /\ (Searching' <=> Searching)
      BY <2>1 DEF Inserting, Searching, Path, At, Home, Slot, Occupied
    <2>5. (Shifting' <=> Shifting) /\ (Resizing' <=> Resizing)
      BY <2>1 DEF Shifting, Resizing, Slot, Occupied
    <2> QED
      BY <2>3, <2>4, <2>5 DEF MapInv
  <1> QED
    BY <1>1, <1>2, <1>3, <1>4, <1>5, <1>6, <1>7, <1>8, <1>9, <1>10, <1>11 DEF MapNext

THEOREM MapInvariant == MapSpec => []MapInv
  <1>1. MapInit => MapInv
    BY MapInitInv
  <1>2. MapInv /\ [MapNext]_mapVars => MapInv'
    BY NextMapInv
  <1> QED
    BY <1>1, <1>2, PTL DEF MapSpec

\* The map's variables hold values of their types.
THEOREM MapTypeCorrect == MapSpec => []MapTypeOK
  <1>1. MapInv => MapTypeOK
    BY DEF MapInv
  <1> QED
    BY <1>1, MapInvariant, PTL

\* run_map_get and run_map_delete stop early only when the key is not there: every
\* entry is reached by the search for its key.
THEOREM EntriesReachable == MapSpec => []Reachable
  <1>1. MapInv => Reachable
    BY DEF MapInv
  <1> QED
    BY <1>1, MapInvariant, PTL

\* The count is exact, keys are unique, the table is never full and a resize never
\* resizes.
THEOREM EntriesCountedOnce == MapSpec => []CountedOnce
  <1>1. MapInv => CountedOnce
    BY DEF MapInv
  <1> QED
    BY <1>1, MapInvariant, PTL

-----------------------------------------------------------------------------
(* The refinement *)

\* What the map holds for a key: the entry in hand, or that of the table, or that of
\* the old table.
ContentsRule ==
  MapInv =>
    /\ Contents \in [Key -> Val \cup {NULL}]
    /\ \A k \in Key :
         /\ mpc = "set" /\ insert_data.key = k => Contents[k] = insert_data.val
         /\ ~(mpc = "set" /\ insert_data.key = k) =>
              /\ \A j \in Slot : bucket[j].key = k => Contents[k] = bucket[j].val
              /\ (\A j \in Slot : bucket[j].key # k) =>
                   /\ \A l \in i .. old_cap - 1 : old[l].key = k => Contents[k] = old[l].val
                   /\ (\A l \in i .. old_cap - 1 : old[l].key # k) => Contents[k] = NULL

LEMMA ContentsAreSo == ContentsRule
  <1> SUFFICES ASSUME MapInv
               PROVE  \A k \in Key :
                        /\ Contents[k] \in Val \cup {NULL}
                        /\ mpc = "set" /\ insert_data.key = k => Contents[k] = insert_data.val
                        /\ ~(mpc = "set" /\ insert_data.key = k) =>
                             /\ \A j \in Slot : bucket[j].key = k => Contents[k] = bucket[j].val
                             /\ (\A j \in Slot : bucket[j].key # k) =>
                                  /\ \A l \in i .. old_cap - 1 :
                                       old[l].key = k => Contents[k] = old[l].val
                                  /\ (\A l \in i .. old_cap - 1 : old[l].key # k)
                                       => Contents[k] = NULL
    BY DEF ContentsRule, Contents
  <1> TAKE k \in Key
  <1>1. MapTypeOK /\ k # NULL /\ old \in [0 .. old_cap - 1 -> Entry] /\ i \in Nat /\ old_cap \in Nat
    BY MapAssumption DEF MapInv, MapTypeOK
  <1>2. CASE mpc = "set" /\ insert_data.key = k
    BY <1>2 DEF MapInv, Inserting, Contents
  <1>3. CASE ~(mpc = "set" /\ insert_data.key = k) /\ \E j \in Slot : bucket[j].key = k
    <2>1. PICK j \in Slot : bucket[j].key = k
      BY <1>3
    <2>2. \A l \in Slot : bucket[l].key = k => l = j
      BY <1>1, <2>1 DEF MapInv, CountedOnce, Occupied
    <2>3. (CHOOSE l \in Slot : bucket[l].key = k) = j
      BY <2>1, <2>2
    <2>4. Contents[k] = bucket[j].val
      BY <1>3, <2>3 DEF Contents
    <2>5. bucket[j].val \in Val
      BY <1>1, <2>1, Entries DEF Occupied, Real
    <2> QED
      BY <1>3, <2>1, <2>2, <2>4, <2>5
  <1>4. CASE /\ ~(mpc = "set" /\ insert_data.key = k) /\ \A j \in Slot : bucket[j].key # k
             /\ \E l \in i .. old_cap - 1 : old[l].key = k
    <2>1. PICK l \in i .. old_cap - 1 : old[l].key = k
      BY <1>4
    <2>2. l \in 0 .. old_cap - 1 /\ old_cap > 0
      BY <1>1
    <2>3. \A z \in i .. old_cap - 1 : old[z].key = k => z = l
      BY <1>1, <2>1, <2>2 DEF MapInv, Resizing
    <2>4. (CHOOSE z \in i .. old_cap - 1 : old[z].key = k) = l
      BY <2>1, <2>3
    <2>5. Contents[k] = old[l].val
      BY <1>4, <2>4 DEF Contents
    <2>6. old[l] \in Entry
      BY <1>1, <2>2
    <2>7. old[l].val \in Val
      BY <1>1, <2>1, <2>6, Entries DEF Real
    <2> QED
      BY <1>4, <2>1, <2>3, <2>5, <2>7
  <1>5. CASE /\ ~(mpc = "set" /\ insert_data.key = k) /\ \A j \in Slot : bucket[j].key # k
             /\ \A l \in i .. old_cap - 1 : old[l].key # k
    BY <1>5 DEF Contents
  <1> QED
    BY <1>2, <1>3, <1>4, <1>5

\* A search of an empty map is right to end at once.
LEMMA NoneInEmpty ==
  ASSUME MapInv, count = 0
  PROVE  \A j \in Slot : bucket[j].key = NULL
  <1>1. {j \in Slot : Occupied(j)} = {}
    BY FiniteSlots, FS_EmptySet
  <1> QED
    BY <1>1 DEF Occupied

\* Every step of the map is a step of the dictionary, or none.
LEMMA NextRefines ==
  MapInv /\ MapInv' /\ ContentsRule' /\ [MapNext]_mapVars
    => [Abstract!Next]_<<Contents, answer>>
  <1> SUFFICES ASSUME MapInv, MapInv', ContentsRule', [MapNext]_mapVars
               PROVE  Abstract!Next \/ (Contents' = Contents /\ answer' = answer)
    OBVIOUS
  <1>t. MapTypeOK /\ \A k \in Key : k # NULL
    BY MapAssumption DEF MapInv
  <1>a. /\ Contents \in [Key -> Val \cup {NULL}] /\ Contents' \in [Key -> Val \cup {NULL}]
    BY ContentsAreSo DEF ContentsRule
  <1>r. \A k \in Key :
          /\ mpc = "set" /\ insert_data.key = k => Contents[k] = insert_data.val
          /\ ~(mpc = "set" /\ insert_data.key = k) =>
               /\ \A j \in Slot : bucket[j].key = k => Contents[k] = bucket[j].val
               /\ (\A j \in Slot : bucket[j].key # k) =>
                    /\ \A l \in i .. old_cap - 1 : old[l].key = k => Contents[k] = old[l].val
                    /\ (\A l \in i .. old_cap - 1 : old[l].key # k) => Contents[k] = NULL
    BY ContentsAreSo DEF ContentsRule
  <1>n. \A k \in Key :
          /\ mpc' = "set" /\ insert_data'.key = k => Contents'[k] = insert_data'.val
          /\ ~(mpc' = "set" /\ insert_data'.key = k) =>
               /\ \A j \in Slot' : bucket'[j].key = k => Contents'[k] = bucket'[j].val
               /\ (\A j \in Slot' : bucket'[j].key # k) =>
                    /\ \A l \in i' .. old_cap' - 1 : old'[l].key = k => Contents'[k] = old'[l].val
                    /\ (\A l \in i' .. old_cap' - 1 : old'[l].key # k) => Contents'[k] = NULL
    BY DEF ContentsRule
  <1>s. ASSUME \A k \in Key : Contents'[k] = Contents[k]
        PROVE  Contents' = Contents
    BY <1>a, <1>s
  <1>p. ASSUME NEW k \in Key, NEW v \in Val, Contents'[k] = v, answer' = answer,
               \A z \in Key : z # k => Contents'[z] = Contents[z]
        PROVE  Abstract!Next
    <2>1. Contents' = [Contents EXCEPT ![k] = v]
      BY <1>a, <1>p
    <2> QED
      BY <1>p, <2>1 DEF Abstract!Next, Abstract!Put
  <1>l. ASSUME NEW k \in Key, answer' = [key |-> k, result |-> Contents[k]], Contents' = Contents
        PROVE  Abstract!Next
    BY <1>l DEF Abstract!Next, Abstract!Lookup
  <1>1. ASSUME NEW k \in Key, NEW v \in Val, Set(k, v)
        PROVE  Abstract!Next \/ (Contents' = Contents /\ answer' = answer)
    <2>0. mpc = "idle" /\ old_cap = 0 /\ i \in Nat
      BY <1>1 DEF Set, MapInv, Resizing, MapTypeOK
    <2>1. CASE Overloaded
      <3>1. /\ old' = bucket /\ i' = 0 /\ old_cap' = capacity /\ mpc' = "rehash"
            /\ \A j \in Slot' : bucket'[j].key = NULL
            /\ answer' = answer
        BY <1>1, <2>1 DEF Set, Slot, NoEntry
      <3>2. \A z \in Key : Contents'[z] = Contents[z]
        BY <1>t, <1>r, <1>n, <2>0, <3>1 DEF Slot
      <3> QED
        BY <1>s, <3>1, <3>2
    <2>2. CASE ~Overloaded
      <3>1. /\ UNCHANGED <<capacity, bucket, old_cap, old, i>> /\ mpc' = "set"
            /\ insert_data'.key = k /\ insert_data'.val = v /\ answer' = answer
        BY <1>1, <2>2 DEF Set, Insert, table, resize
      <3>2. \A z \in Key : z # k => Contents'[z] = Contents[z]
        BY <1>r, <1>n, <2>0, <3>1 DEF Slot
      <3> QED
        BY <1>n, <1>p, <3>1, <3>2
    <2> QED
      BY <2>1, <2>2
  <1>2. CASE Rehash
    <2>0. /\ mpc = "rehash" /\ old_cap > 0 /\ key \in Key /\ val \in Val
          /\ i \in Nat /\ old_cap \in Nat
          /\ UNCHANGED <<capacity, bucket, answer>> /\ Slot' = Slot /\ mpc' # "nested"
      BY <1>2 DEF Rehash, MapInv, Resizing, MapTypeOK, table, Slot, CountedOnce
    <2>1. CASE i < old_cap /\ old[i].key = NULL
      <3>1. mpc' = "rehash" /\ i' = i + 1 /\ old_cap' = old_cap /\ old' = old
        BY <1>2, <2>1 DEF Rehash
      <3>2. \A z \in Key : Contents'[z] = Contents[z]
        BY <1>t, <1>r, <1>n, <2>0, <2>1, <3>1
      <3> QED
        BY <1>s, <2>0, <3>2
    <2>2. CASE i < old_cap /\ old[i].key # NULL
      <3>1. /\ mpc' = "set" /\ insert_data'.key = old[i].key /\ insert_data'.val = old[i].val
            /\ i' = i + 1 /\ old_cap' = old_cap /\ old' = old
        BY <1>2, <2>0, <2>2 DEF Rehash, Insert
      <3>2. i \in i .. old_cap - 1 /\ \A l \in Slot : bucket[l].key # old[i].key
        BY <2>0, <2>2 DEF MapInv, Resizing
      <3>3. \A z \in Key : Contents'[z] = Contents[z]
        <4> TAKE z \in Key
        <4>1. CASE z = old[i].key
          BY <1>r, <1>n, <2>0, <3>1, <3>2, <4>1
        <4>2. CASE z # old[i].key
          <5>1. \A l \in i .. old_cap - 1 : old[l].key = z => l \in i + 1 .. old_cap - 1
            BY <2>0, <4>2
          <5> QED
            BY <1>r, <1>n, <2>0, <3>1, <4>2, <5>1
        <4> QED
          BY <4>1, <4>2
      <3> QED
        BY <1>s, <2>0, <3>3
    <2>3. CASE ~(i < old_cap)
      <3>1. /\ mpc' = "set" /\ insert_data'.key = key /\ insert_data'.val = val
            /\ old_cap' = 0 /\ i' = 0
        BY <1>2, <2>0, <2>3 DEF Rehash, Insert
      <3>2. \A z \in Key : z # key => Contents'[z] = Contents[z]
        BY <1>r, <1>n, <2>0, <2>3, <3>1
      <3> QED
        BY <1>n, <1>p, <2>0, <3>1, <3>2
    <2> QED
      BY <2>0, <2>1, <2>2, <2>3
  <1>3. CASE SetEmpty
    <2>1. /\ idx \in Slot /\ ~Occupied(idx) /\ mpc = "set" /\ mpc' # "set"
          /\ UNCHANGED <<old_cap, old, i, answer>> /\ Slot' = Slot
          /\ bucket' = [bucket EXCEPT ![idx] = insert_data]
      BY <1>3, Cursor DEF SetEmpty, SetReturn, Return, resize, Slot
    <2>2. /\ bucket'[idx] = insert_data
          /\ \A j \in Slot : j # idx => bucket'[j] = bucket[j]
      BY <1>t, <2>1 DEF MapTypeOK
    <2>3. \A j \in Slot : bucket[j].key # insert_data.key
      BY <2>1, NotInTable
    <2>4. \A z \in Key : Contents'[z] = Contents[z]
      <3> TAKE z \in Key
      <3>1. CASE z = insert_data.key
        BY <1>r, <1>n, <2>1, <2>2, <3>1
      <3>2. CASE z # insert_data.key
        BY <1>t, <1>r, <1>n, <2>1, <2>2, <3>2 DEF Occupied
      <3> QED
        BY <3>1, <3>2
    <2> QED
      BY <1>s, <2>1, <2>4
  <1>4. CASE SetUpdate
    <2>1. /\ idx \in Slot /\ bucket[idx].key = insert_data.key /\ mpc = "set" /\ mpc' # "set"
          /\ UNCHANGED <<old_cap, old, i, answer>> /\ Slot' = Slot
          /\ bucket' = [bucket EXCEPT ![idx].val = insert_data.val] /\ Occupied(idx)
      BY <1>4, Cursor DEF SetUpdate, SetReturn, Return, resize, Slot
    <2>2. /\ bucket'[idx].val = insert_data.val /\ bucket'[idx].key = insert_data.key
          /\ \A j \in Slot : j # idx => bucket'[j] = bucket[j]
      BY <1>t, <2>1, Entries DEF MapTypeOK, Real
    <2>3. \A z \in Key : Contents'[z] = Contents[z]
      <3> TAKE z \in Key
      <3>1. CASE z = insert_data.key
        BY <1>r, <1>n, <2>1, <2>2, <3>1
      <3>2. CASE z # insert_data.key
        BY <1>r, <1>n, <2>1, <2>2, <3>2
      <3> QED
        BY <3>1, <3>2
    <2> QED
      BY <1>s, <2>1, <2>3
  <1>5. CASE SetNext
    <2>1. /\ idx \in Slot /\ bucket[idx].key # insert_data.key /\ mpc = "set" /\ mpc' = "set"
          /\ UNCHANGED <<old_cap, old, i, answer>> /\ Slot' = Slot /\ Occupied(idx)
          /\ insert_data \in Real /\ bucket[idx] \in Real
      BY <1>t, <1>5, Cursor, Entries DEF SetNext, resize, Slot
    <2>2. CASE bucket[idx].psl < insert_data.psl
      <3>1. /\ bucket'[idx] = insert_data
            /\ insert_data'.key = bucket[idx].key /\ insert_data'.val = bucket[idx].val
            /\ \A j \in Slot : j # idx => bucket'[j] = bucket[j]
        BY <1>t, <1>5, <2>1, <2>2 DEF SetNext, MapTypeOK, Real
      <3>2. \A j \in Slot : bucket[j].key # insert_data.key
        BY <2>1, <2>2, NotInTable
      <3>3. \A z \in Key : Contents'[z] = Contents[z]
        <4> TAKE z \in Key
        <4>1. CASE z = insert_data.key
          BY <1>r, <1>n, <2>1, <3>1, <4>1
        <4>2. CASE z = bucket[idx].key
          BY <1>r, <1>n, <2>1, <3>1, <4>2
        <4>3. CASE z # insert_data.key /\ z # bucket[idx].key
          BY <1>r, <1>n, <2>1, <3>1, <4>3
        <4> QED
          BY <4>1, <4>2, <4>3
      <3> QED
        BY <1>s, <2>1, <3>3
    <2>3. CASE ~(bucket[idx].psl < insert_data.psl)
      <3>1. /\ bucket' = bucket
            /\ insert_data'.key = insert_data.key /\ insert_data'.val = insert_data.val
        BY <1>5, <2>1, <2>3 DEF SetNext, Real
      <3>2. \A z \in Key : Contents'[z] = Contents[z]
        BY <1>r, <1>n, <2>1, <3>1
      <3> QED
        BY <1>s, <2>1, <3>2
    <2> QED
      BY <2>2, <2>3
  <1>6. ASSUME NEW k \in Key, NEW loop \in {"get", "delete"}, Search(k, loop)
        PROVE  Abstract!Next \/ (Contents' = Contents /\ answer' = answer)
    <2>1. /\ UNCHANGED <<bucket, old_cap, old, i>> /\ Slot' = Slot
          /\ mpc = "idle" /\ mpc' # "set" /\ old_cap = 0 /\ i \in Nat
      BY <1>6 DEF Search, table, resize, Slot, MapInv, Resizing, MapTypeOK
    <2>2. \A z \in Key : Contents'[z] = Contents[z]
      BY <1>r, <1>n, <2>1
    <2>3. CASE count = 0
      <3>1. Contents[k] = NULL
        BY <1>t, <1>r, <2>1, <2>3, NoneInEmpty
      <3>2. answer' = [key |-> k, result |-> Contents[k]]
        BY <1>6, <2>3, <3>1 DEF Search, Answer
      <3> QED
        BY <1>l, <1>s, <2>2, <3>2
    <2>4. CASE count # 0
      BY <1>6, <1>s, <2>2, <2>4 DEF Search
    <2> QED
      BY <2>3, <2>4
  <1>7. CASE Miss \/ GetHit
    <2>1. /\ UNCHANGED <<bucket, old_cap, old, i>> /\ Slot' = Slot /\ key \in Key
          /\ mpc \in {"get", "delete"} /\ mpc' # "set" /\ old_cap = 0 /\ i \in Nat /\ idx \in Slot
      <3>1. /\ UNCHANGED <<bucket, old_cap, old, i>> /\ Slot' = Slot
            /\ mpc \in {"get", "delete"} /\ mpc' = "idle"
        BY <1>7 DEF Miss, GetHit, Return, table, resize, Slot
      <3>2. key \in Key /\ old_cap = 0 /\ i \in Nat
        BY <3>1 DEF MapInv, Resizing, MapTypeOK, Searching
      <3> QED
        BY <3>1, <3>2, Cursor
    <2>2. \A z \in Key : Contents'[z] = Contents[z]
      BY <1>r, <1>n, <2>1
    <2>3. answer' = [key |-> key, result |-> Contents[key]]
      <3>1. CASE Miss
        <4>1. \A j \in Slot : bucket[j].key # key
          BY <2>1, <3>1, MissRight DEF Miss
        <4>2. Contents[key] = NULL
          BY <1>r, <2>1, <4>1
        <4> QED
          BY <3>1, <4>2 DEF Miss, Answer
      <3>2. CASE GetHit
        <4>1. Contents[key] = bucket[idx].val
          BY <1>r, <2>1, <3>2 DEF GetHit, Hits
        <4> QED
          BY <3>2, <4>1 DEF GetHit, Answer
      <3> QED
        BY <1>7, <3>1, <3>2
    <2>4. PICK k \in Key : k = key
      BY <2>1
    <2> QED
      BY <1>l, <1>s, <2>2, <2>3, <2>4
  <1>8. CASE SearchNext
    <2>1. UNCHANGED <<bucket, old_cap, old, i, mpc, insert_data, answer>> /\ Slot' = Slot
      BY <1>8 DEF SearchNext, table, resize, Slot
    <2>2. \A z \in Key : Contents'[z] = Contents[z]
      BY <1>r, <1>n, <2>1
    <2> QED
      BY <1>s, <2>1, <2>2
  <1>9. CASE DeleteHit
    <2>1. /\ UNCHANGED <<old_cap, old, i>> /\ Slot' = Slot /\ key \in Key
          /\ mpc = "delete" /\ mpc' = "shift" /\ old_cap = 0 /\ i \in Nat /\ idx \in Slot
          /\ bucket' = [bucket EXCEPT ![idx] = NoEntry] /\ bucket[idx].key = key
          /\ answer' = [key |-> key, result |-> bucket[idx].val]
      BY <1>9, Cursor
      DEF DeleteHit, Hits, Answer, resize, Slot, MapInv, Resizing, MapTypeOK, Searching
    <2>2. /\ bucket'[idx].key = NULL
          /\ \A j \in Slot : j # idx => bucket'[j] = bucket[j]
      BY <1>t, <2>1 DEF MapTypeOK, NoEntry
    <2>3. \A j \in Slot : j # idx => bucket[j].key # key
      BY <1>t, <2>1 DEF MapInv, CountedOnce, Occupied
    <2>4. PICK k \in Key : k = key
      BY <2>1
    <2>5. Contents[k] = bucket[idx].val
      BY <1>r, <2>1, <2>4
    <2>6. Contents'[k] = NULL
      BY <1>t, <1>n, <2>1, <2>2, <2>3, <2>4
    <2>7. \A z \in Key : z # k => Contents'[z] = Contents[z]
      BY <1>t, <1>r, <1>n, <2>1, <2>2, <2>4
    <2>8. Contents' = [Contents EXCEPT ![k] = NULL]
      BY <1>a, <2>6, <2>7
    <2> QED
      BY <2>1, <2>4, <2>5, <2>8 DEF Abstract!Next, Abstract!Remove
  <1>10. CASE Shift
    <2>1. /\ UNCHANGED <<old_cap, old, i, answer>> /\ Slot' = Slot
          /\ mpc = "shift" /\ mpc' # "set" /\ old_cap = 0 /\ i \in Nat /\ idx \in Slot
          /\ ~Occupied(idx) /\ After(idx) \in Slot /\ After(idx) # idx
      BY <1>t, <1>10, Cursor, AfterOnce
      DEF Shift, Return, resize, Slot, MapInv, Resizing, MapTypeOK, Shifting
    <2>2. \A z \in Key : Contents'[z] = Contents[z]
      <3>1. CASE Occupied(After(idx)) /\ bucket[After(idx)].psl > 0
        <4>1. bucket[After(idx)] \in Real
          BY <1>t, <2>1, <3>1, Entries
        <4>2. /\ bucket'[After(idx)].key = NULL
              /\ bucket'[idx].key = bucket[After(idx)].key
              /\ bucket'[idx].val = bucket[After(idx)].val
              /\ \A j \in Slot : j # idx /\ j # After(idx) => bucket'[j] = bucket[j]
          BY <1>t, <1>10, <2>1, <3>1, <4>1 DEF Shift, MapTypeOK, NoEntry, Real
        <4> TAKE z \in Key
        <4>3. CASE z = bucket[After(idx)].key
          BY <1>r, <1>n, <2>1, <4>2, <4>3
        <4>4. CASE z # bucket[After(idx)].key
          BY <1>t, <1>r, <1>n, <2>1, <4>2, <4>4 DEF Occupied
        <4> QED
          BY <4>3, <4>4
      <3>2. CASE ~(Occupied(After(idx)) /\ bucket[After(idx)].psl > 0)
        BY <1>10, <1>r, <1>n, <2>1, <3>2 DEF Shift
      <3> QED
        BY <3>1, <3>2
    <2> QED
      BY <1>s, <2>1, <2>2
  <1>11. CASE UNCHANGED mapVars
    <2>1. UNCHANGED <<bucket, old_cap, old, i, mpc, insert_data, answer>> /\ Slot' = Slot
      BY <1>11 DEF mapVars, table, resize, Slot
    <2>2. \A z \in Key : Contents'[z] = Contents[z]
      BY <1>r, <1>n, <2>1
    <2> QED
      BY <1>s, <2>1, <2>2
  <1> QED
    BY <1>1, <1>2, <1>3, <1>4, <1>5, <1>6, <1>7, <1>8, <1>9, <1>10, <1>11 DEF MapNext

\* The map is a dictionary: whatever is displaced, moved back or inserted again, a
\* lookup returns the value that was set last, and none after a deletion.
THEOREM MapRefinesDictionary == MapSpec => ImplementsDictionary
  <1>1. MapInit => Abstract!Init
    <2> SUFFICES ASSUME MapInit PROVE Abstract!Init
      OBVIOUS
    <2>1. MapInv /\ mpc = "idle" /\ old_cap = 0 /\ i = 0
          /\ \A j \in Slot : bucket[j].key = NULL
      BY MapInitInv DEF MapInit, Slot, NoEntry
    <2>2. \A k \in Key : Contents[k] = NULL
      BY <2>1, ContentsAreSo, MapAssumption DEF ContentsRule
    <2>3. Contents = [k \in Key |-> NULL]
      BY <2>1, <2>2, ContentsAreSo DEF ContentsRule
    <2> QED
      BY <2>3 DEF Abstract!Init, MapInit
  <1>2. ContentsRule
    BY ContentsAreSo
  <1>3. MapInv /\ MapInv' /\ ContentsRule' /\ [MapNext]_mapVars
          => [Abstract!Next]_<<Contents, answer>>
    BY NextRefines
  <1> QED
    BY <1>1, <1>2, <1>3, MapInvariant, PTL DEF MapSpec, ImplementsDictionary, Abstract!Spec

-----------------------------------------------------------------------------
(* Local run queue: indices that wrap *)

Index == 0 .. Width - 1

LEMMA Sizes ==
  /\ Size \in Nat \ {0} /\ Width \in Nat \ {0} /\ Width >= 4 * Size
  /\ Width \div 2 \in Nat /\ 2 * Size <= Width \div 2 /\ Width \div 2 < Width
  BY LocalQueueAssumption

LEMMA AddIs ==
  ASSUME NEW r \in Index, NEW n \in 0 .. Width
  PROVE  Add(r, n) = (IF r + n < Width THEN r + n ELSE r + n - Width) /\ Add(r, n) \in Index
  <1> DEFINE a == r + n
  <1>1. a \in Nat /\ a < 2 * Width
    BY Sizes DEF Index
  <1> HIDE DEF a
  <1>2. a % Width = IF a < Width THEN a ELSE a - Width
    BY <1>1, Sizes
  <1> QED
    BY <1>2, Sizes DEF a, Add, Index

LEMMA SubIs ==
  ASSUME NEW a \in Index, NEW b \in Index
  PROVE  Sub(a, b) = (IF a >= b THEN a - b ELSE a + Width - b) /\ Sub(a, b) \in Index
  <1> DEFINE d == a + Width - b
  <1>1. d \in Nat /\ d < 2 * Width
    BY Sizes DEF Index
  <1> HIDE DEF d
  <1>2. d % Width = IF d < Width THEN d ELSE d - Width
    BY <1>1, Sizes
  <1> QED
    BY <1>2, Sizes DEF d, Sub, Index

\* The distance from b grows by one when a moves and falls by one when b moves.
LEMMA Forward ==
  ASSUME NEW a \in Index, NEW b \in Index
  PROVE  /\ Add(a, 1) \in Index
         /\ Sub(a, b) = 0 <=> a = b
         /\ Sub(a, b) < Width - 1 => Sub(Add(a, 1), b) = Sub(a, b) + 1
         /\ Sub(a, b) > 0 => Sub(a, Add(b, 1)) = Sub(a, b) - 1
         /\ Sub(Add(a, 1), b) = IF Sub(a, b) = Width - 1 THEN 0 ELSE Sub(a, b) + 1
  <1>1. 1 \in 0 .. Width
    BY Sizes
  <1>2. /\ Add(a, 1) = IF a + 1 < Width THEN a + 1 ELSE a + 1 - Width
        /\ Add(b, 1) = IF b + 1 < Width THEN b + 1 ELSE b + 1 - Width
        /\ Add(a, 1) \in Index /\ Add(b, 1) \in Index
    BY <1>1, AddIs
  <1>3. /\ Sub(a, b) = IF a >= b THEN a - b ELSE a + Width - b
        /\ Sub(Add(a, 1), b) = IF Add(a, 1) >= b THEN Add(a, 1) - b ELSE Add(a, 1) + Width - b
        /\ Sub(a, Add(b, 1)) = IF a >= Add(b, 1) THEN a - Add(b, 1) ELSE a + Width - Add(b, 1)
    BY <1>2, SubIs
  <1> QED
    BY <1>2, <1>3, Sizes DEF Index

\* Whether a member is below a tail that has been lowered, and whether it is the last.
LEMMA Lowered ==
  ASSUME NEW a \in Index, NEW b \in Index, Sub(Add(a, 1), b) <= Size
  PROVE  /\ Negative(Sub(a, b)) <=> Sub(Add(a, 1), b) = 0
         /\ a = b <=> Sub(Add(a, 1), b) = 1
         /\ ~Negative(Sub(a, b)) => Sub(a, b) = Sub(Add(a, 1), b) - 1
  <1>1. Sub(Add(a, 1), b) = IF Sub(a, b) = Width - 1 THEN 0 ELSE Sub(a, b) + 1
    BY Forward
  <1>2. Sub(a, b) \in Index /\ (Sub(a, b) = 0 <=> a = b)
    BY SubIs, Forward
  <1> QED
    BY <1>1, <1>2, Sizes DEF Negative, Index

LEMMA AddOnce ==
  ASSUME NEW r \in Index, NEW n \in 0 .. Size
  PROVE  Add(Add(r, 1), n) = Add(r, n + 1) /\ Add(r, 0) = r
  <1>1. 1 \in 0 .. Width /\ n \in 0 .. Width /\ n + 1 \in 0 .. Width /\ 0 \in 0 .. Width
    BY Sizes
  <1>2. /\ Add(r, 1) = IF r + 1 < Width THEN r + 1 ELSE r + 1 - Width
        /\ Add(r, 1) \in Index
    BY <1>1, AddIs
  <1>3. Add(r, n + 1) = IF r + (n + 1) < Width THEN r + (n + 1) ELSE r + (n + 1) - Width
    BY <1>1, AddIs
  <1>4. Add(r, 0) = IF r + 0 < Width THEN r + 0 ELSE r + 0 - Width
    BY <1>1, AddIs
  <1>5. Add(Add(r, 1), n) = IF Add(r, 1) + n < Width THEN Add(r, 1) + n
                                                     ELSE Add(r, 1) + n - Width
    BY <1>1, <1>2, AddIs
  <1> QED
    BY <1>1, <1>2, <1>3, <1>4, <1>5, Sizes DEF Index

LEMMA AddSub ==
  ASSUME NEW a \in Index, NEW b \in Index
  PROVE  Add(b, Sub(a, b)) = a
  <1>1. /\ Sub(a, b) = IF a >= b THEN a - b ELSE a + Width - b
        /\ Sub(a, b) \in Index /\ Sub(a, b) \in 0 .. Width
    BY SubIs, Sizes DEF Index
  <1>2. Add(b, Sub(a, b)) = IF b + Sub(a, b) < Width THEN b + Sub(a, b) ELSE b + Sub(a, b) - Width
    BY <1>1, AddIs
  <1> QED
    BY <1>1, <1>2, Sizes DEF Index

LEMMA NotTimes ==
  ASSUME NEW s \in Nat \ {0}, NEW z \in Int, -s < s * z, s * z < s
  PROVE  s * z = 0
  <1>1. CASE z >= 1
    <2>1. s * z >= s * 1
      BY <1>1
    <2> QED
      BY <2>1
  <1>2. CASE z <= -1
    <2>1. s * z <= s * (-1) /\ s * (-1) = -s
      BY <1>2
    <2> QED
      BY <2>1
  <1>3. CASE z = 0
    BY <1>3
  <1> QED
    BY <1>1, <1>2, <1>3

\* The members of a deque that is no longer than the buffer are in slots of their own: the
\* slots go round with the indices because Width is a multiple of Size.
LEMMA SlotsApart ==
  ASSUME NEW r \in Index, NEW k \in 0 .. Size - 1, NEW n \in 0 .. Size - 1,
         Add(r, k) % Size = Add(r, n) % Size
  PROVE  k = n
  <1>1. k \in 0 .. Width /\ n \in 0 .. Width
    BY Sizes
  <1>2. /\ Add(r, k) = IF r + k < Width THEN r + k ELSE r + k - Width
        /\ Add(r, n) = IF r + n < Width THEN r + n ELSE r + n - Width
        /\ Add(r, k) \in Nat /\ Add(r, n) \in Nat
    BY <1>1, AddIs DEF Index
  <1> DEFINE q == Width \div Size
             a == Add(r, k) \div Size
             b == Add(r, n) \div Size
             u == Add(r, n) % Size
  <1>3. q \in Nat /\ Width = Size * q
    BY LocalQueueAssumption
  <1>4. a \in Nat /\ b \in Nat /\ u \in Nat
        /\ Add(r, k) = Size * a + u /\ Add(r, n) = Size * b + u
    BY <1>2, Sizes
  <1> HIDE DEF q, a, b, u
  <1>5. Size * (a - b) = Size * a - Size * b /\ Size * (a - b + q) = Size * a - Size * b + Size * q
        /\ Size * (a - b - q) = Size * a - Size * b - Size * q
    BY <1>3, <1>4, Sizes
  <1>6. k - n \in {Size * (a - b), Size * (a - b + q), Size * (a - b - q)}
    BY <1>2, <1>3, <1>4, <1>5, Sizes DEF Index
  <1>7. PICK z \in Int : k - n = Size * z
    <2>1. a - b \in Int /\ a - b + q \in Int /\ a - b - q \in Int
      BY <1>3, <1>4
    <2> QED
      BY <1>6, <2>1
  <1>8. k - n = 0
    <2>1. -Size < k - n /\ k - n < Size
      BY Sizes
    <2> QED
      BY <1>7, <2>1, Sizes, NotTimes
  <1> QED
    BY <1>8
-----------------------------------------------------------------------------
(* The members as a sequence *)

\* n members in the slots of b, from index r on.
Run(b, r, n) == [k \in 1 .. n |-> b[Add(r, k - 1) % Size]]

LEMMA SlotIs ==
  ASSUME NEW r \in Index
  PROVE  r % Size \in 0 .. Size - 1
  BY Sizes DEF Index

LEMMA RunAt ==
  ASSUME NEW b, NEW r, NEW n
  PROVE  /\ Run(b, r, n) = [k \in 1 .. n |-> Run(b, r, n)[k]]
         /\ \A k \in 1 .. n : Run(b, r, n)[k] = b[Add(r, k - 1) % Size]
  BY DEF Run

LEMMA RunIs ==
  ASSUME NEW b, NEW r, NEW n \in Nat, \A k \in 1 .. n : Run(b, r, n)[k] \in G
  PROVE  /\ Run(b, r, n) \in Seq(G) /\ Len(Run(b, r, n)) = n
         /\ \A k \in 1 .. n : Run(b, r, n)[k] = b[Add(r, k - 1) % Size]
  <1> DEFINE s == Run(b, r, n)
  <1>1. DOMAIN s = 1 .. n /\ s = [k \in 1 .. n |-> s[k]]
        /\ \A k \in 1 .. n : s[k] = b[Add(r, k - 1) % Size]
    BY DEF Run
  <1> HIDE DEF s
  <1>2. s \in [1 .. n -> G]
    <2>1. \A k \in 1 .. n : s[k] \in G
      BY DEF s
    <2> QED
      BY <1>1, <2>1
  <1>3. s \in Seq(G)
    BY <1>2, SeqDef
  <1>4. Len(s) = n
    BY <1>1, <1>3, LenProperties
  <1> QED
    BY <1>1, <1>3, <1>4 DEF s

\* A member written behind the last is appended.
LEMMA RunAppends ==
  ASSUME NEW b, NEW r \in Index, NEW n \in 0 .. Size - 1,
         \A k \in 1 .. n : Run(b, r, n)[k] \in G, b[Add(r, n) % Size] \in G
  PROVE  Run(b, r, n + 1) = Append(Run(b, r, n), b[Add(r, n) % Size])
  <1> DEFINE s == Run(b, r, n)
             x == b[Add(r, n) % Size]
             q == Run(b, r, n + 1)
  <1>1. s \in Seq(G) /\ Len(s) = n /\ \A k \in 1 .. n : s[k] = b[Add(r, k - 1) % Size]
    BY RunIs
  <1>2. \A k \in 1 .. n + 1 : q[k] = b[Add(r, k - 1) % Size]
    BY DEF Run
  <1>3. \A k \in 1 .. n + 1 : q[k] = IF k <= n THEN s[k] ELSE x
    <2>1. (n + 1) - 1 = n
      OBVIOUS
    <2>2. q[n + 1] = x
      BY <1>2, <2>1
    <2>3. ASSUME NEW k \in 1 .. n + 1, k <= n PROVE q[k] = s[k]
      BY <1>1, <1>2, <2>3
    <2>4. ASSUME NEW k \in 1 .. n + 1, ~(k <= n) PROVE k = n + 1
      BY <2>4
    <2> HIDE DEF q, s, x
    <2> QED
      BY <2>2, <2>3, <2>4
  <1>4. \A k \in 1 .. n + 1 : q[k] \in G
    <2> HIDE DEF q
    <2>1. \A k \in 1 .. n : s[k] \in G
      OBVIOUS
    <2>2. x \in G
      OBVIOUS
    <2> HIDE DEF s, x
    <2> QED
      BY <1>3, <2>1, <2>2
  <1>5. q \in Seq(G) /\ Len(q) = n + 1
    BY <1>4, n + 1 \in Nat, RunIs
  <1>6. x \in G
    OBVIOUS
  <1> HIDE DEF s, x, q
  <1>7. /\ Append(s, x) \in Seq(G) /\ Len(Append(s, x)) = n + 1
        /\ \A k \in 1 .. n : Append(s, x)[k] = s[k]
        /\ Append(s, x)[n + 1] = x
    BY <1>1, <1>6, AppendProperties
  <1>8. \A k \in 1 .. Len(q) : q[k] = Append(s, x)[k]
    BY <1>3, <1>5, <1>7
  <1>9. q = Append(s, x)
    BY <1>5, <1>7, <1>8, SeqEqual
  <1> QED
    BY <1>9 DEF s, x, q

\* A write behind the last member leaves the members alone.
LEMMA RunWritten ==
  ASSUME NEW b, NEW c, NEW r \in Index, NEW n \in 0 .. Size - 1,
         \A k \in 0 .. Size - 1 : k # Add(r, n) % Size => c[k] = b[k]
  PROVE  Run(c, r, n) = Run(b, r, n)
  <1>1. ASSUME NEW k \in 1 .. n PROVE c[Add(r, k - 1) % Size] = b[Add(r, k - 1) % Size]
    <2>1. k - 1 \in 0 .. Size - 1 /\ k - 1 # n /\ k - 1 \in 0 .. Width
      BY Sizes
    <2>2. Add(r, k - 1) % Size # Add(r, n) % Size
      BY <2>1, SlotsApart
    <2>3. Add(r, k - 1) % Size \in 0 .. Size - 1
      BY <2>1, AddIs, SlotIs
    <2> QED
      BY <2>2, <2>3
  <1>2. \A k \in 1 .. n : c[Add(r, k - 1) % Size] = b[Add(r, k - 1) % Size]
    BY <1>1
  <1> QED
    BY <1>2, Zenon DEF Run

\* The oldest member leaves.
LEMMA RunTail ==
  ASSUME NEW b, NEW r \in Index, NEW n \in 1 .. Size, \A k \in 1 .. n : Run(b, r, n)[k] \in G
  PROVE  /\ Run(b, r, n) # <<>>
         /\ Run(b, Add(r, 1), n - 1) = Tail(Run(b, r, n))
         /\ Head(Run(b, r, n)) = b[r % Size]
  <1> DEFINE s == Run(b, r, n)
             q == Run(b, Add(r, 1), n - 1)
  <1>1. s \in Seq(G) /\ Len(s) = n /\ \A k \in 1 .. n : s[k] = b[Add(r, k - 1) % Size]
    BY RunIs
  <1>2. \A k \in 1 .. n - 1 : q[k] = b[Add(Add(r, 1), k - 1) % Size]
    BY DEF Run
  <1>3. ASSUME NEW k \in 1 .. n - 1 PROVE q[k] = s[k + 1]
    <2>1. k - 1 \in 0 .. Size /\ (k - 1) + 1 = (k + 1) - 1 /\ k + 1 \in 1 .. n
      BY Sizes
    <2>2. Add(Add(r, 1), k - 1) = Add(r, (k - 1) + 1)
      BY <2>1, AddOnce
    <2>3. Add(Add(r, 1), k - 1) = Add(r, (k + 1) - 1)
      BY <2>1, <2>2
    <2>4. s[k + 1] = b[Add(r, (k + 1) - 1) % Size]
      <3> HIDE DEF s, q
      <3> QED
        BY <1>1, <2>1
    <2>5. q[k] = b[Add(Add(r, 1), k - 1) % Size]
      BY <1>2
    <2> QED
      BY <2>3, <2>4, <2>5
  <1>4. \A k \in 1 .. n - 1 : q[k] \in G
    <2>1. \A k \in 1 .. n - 1 : k + 1 \in 1 .. n
      OBVIOUS
    <2>2. \A k \in 1 .. n : s[k] \in G
      OBVIOUS
    <2> HIDE DEF s, q
    <2> QED
      BY <1>3, <2>1, <2>2
  <1>5. q \in Seq(G) /\ Len(q) = n - 1
    BY <1>4, n - 1 \in Nat, RunIs
  <1>6. s[1] = b[r % Size]
    <2>1. 1 \in 1 .. n /\ 1 - 1 = 0 /\ 0 \in 0 .. Size
      BY Sizes
    <2>2. s[1] = b[Add(r, 1 - 1) % Size]
      BY <1>1, <2>1
    <2>3. Add(r, 0) = r
      BY <2>1, AddOnce
    <2> QED
      BY <2>1, <2>2, <2>3
  <1> HIDE DEF s, q
  <1>7. s # <<>>
    BY <1>1, EmptySeq
  <1>8. /\ Tail(s) \in Seq(G) /\ Len(Tail(s)) = n - 1
        /\ \A k \in 1 .. Len(Tail(s)) : Tail(s)[k] = s[k + 1]
    BY <1>1, <1>7, HeadTailProperties
  <1>9. \A k \in 1 .. Len(q) : q[k] = Tail(s)[k]
    BY <1>3, <1>5, <1>8
  <1>10. q = Tail(s)
    BY <1>5, <1>8, <1>9, SeqEqual
  <1>11. Head(s) = s[1]
    BY <1>1, <1>7
  <1> QED
    BY <1>6, <1>7, <1>10, <1>11 DEF s, q

\* The newest member leaves.
LEMMA RunFront ==
  ASSUME NEW b, NEW r \in Index, NEW n \in 1 .. Size, \A k \in 1 .. n : Run(b, r, n)[k] \in G
  PROVE  /\ Run(b, r, n) # <<>>
         /\ Run(b, r, n - 1) = SubSeq(Run(b, r, n), 1, Len(Run(b, r, n)) - 1)
         /\ Run(b, r, n)[Len(Run(b, r, n))] = b[Add(r, n - 1) % Size]
  <1> DEFINE s == Run(b, r, n)
             q == Run(b, r, n - 1)
  <1>1. s \in Seq(G) /\ Len(s) = n /\ \A k \in 1 .. n : s[k] = b[Add(r, k - 1) % Size]
    BY RunIs
  <1>2. \A k \in 1 .. n - 1 : q[k] = b[Add(r, k - 1) % Size]
    BY DEF Run
  <1>3. \A k \in 1 .. n : s[k] \in G
    OBVIOUS
  <1>4. \A k \in 1 .. n - 1 : k \in 1 .. n /\ q[k] = s[k]
    <2>1. \A k \in 1 .. n - 1 : k \in 1 .. n
      OBVIOUS
    <2> HIDE DEF s, q
    <2> QED
      BY <1>1, <1>2, <2>1
  <1>5. \A k \in 1 .. n - 1 : q[k] \in G
    <2> HIDE DEF s, q
    <2> QED
      BY <1>3, <1>4
  <1>6. q \in Seq(G) /\ Len(q) = n - 1
    BY <1>5, n - 1 \in Nat, RunIs
  <1> HIDE DEF s, q
  <1>7. s # <<>>
    BY <1>1, EmptySeq
  <1>8. /\ SubSeq(s, 1, n - 1) \in Seq(G)
        /\ Len(SubSeq(s, 1, n - 1)) = n - 1
        /\ \A k \in 1 .. n - 1 : SubSeq(s, 1, n - 1)[k] = s[k]
    <2>1. \A k \in 1 .. n - 1 : s[k] \in G
      BY <1>3, <1>4
    <2>2. 1 \in Int /\ n - 1 \in Int
      OBVIOUS
    <2>3. /\ SubSeq(s, 1, n - 1) \in Seq(G)
          /\ Len(SubSeq(s, 1, n - 1)) = IF 1 <= n - 1 THEN (n - 1) - 1 + 1 ELSE 0
          /\ \A k \in 1 .. (n - 1) - 1 + 1 : SubSeq(s, 1, n - 1)[k] = s[1 + k - 1]
      BY <2>1, <2>2, SubSeqProperties
    <2>4. \A k \in 1 .. n - 1 : 1 + k - 1 = k /\ k \in 1 .. (n - 1) - 1 + 1
      OBVIOUS
    <2>5. (IF 1 <= n - 1 THEN (n - 1) - 1 + 1 ELSE 0) = n - 1
      OBVIOUS
    <2> QED
      BY <2>3, <2>4, <2>5
  <1>9. q = SubSeq(s, 1, n - 1)
    <2>1. \A k \in 1 .. Len(q) : q[k] = SubSeq(s, 1, n - 1)[k]
      BY <1>4, <1>6, <1>8
    <2> QED
      BY <1>6, <1>8, <2>1, SeqEqual
  <1>10. s[n] = b[Add(r, n - 1) % Size]
    BY <1>1
  <1> QED
    BY <1>1, <1>7, <1>9, <1>10 DEF s, q

-----------------------------------------------------------------------------
(* A deque and the green threads that are out of it *)

\* No green thread is in it twice, or both in and out, or lost.
Sound(q, o) ==
  /\ q \in Seq(G)
  /\ \A k \in 1 .. Len(q) : q[k] \notin o
  /\ \A k, n \in 1 .. Len(q) : q[k] = q[n] => k = n
  /\ \A x \in G \ o : \E k \in 1 .. Len(q) : q[k] = x

LEMMA PutSound ==
  ASSUME NEW q, NEW o, NEW x \in G, Sound(q, o), x \in o
  PROVE  Sound(Append(q, x), o \ {x})
  <1> DEFINE s == Append(q, x)
             l == Len(q)
  <1>1. /\ l \in Nat /\ s \in Seq(G) /\ Len(s) = l + 1
        /\ \A k \in 1 .. l : s[k] = q[k]
        /\ s[l + 1] = x
    BY AppendProperties, LenProperties DEF Sound
  <1>2. /\ \A k \in 1 .. l : q[k] \notin o
        /\ \A k, n \in 1 .. l : q[k] = q[n] => k = n
        /\ \A y \in G \ o : \E k \in 1 .. l : q[k] = y
    BY DEF Sound
  <1> HIDE DEF s, l
  <1>3. \A k \in 1 .. l + 1 : k \in 1 .. l \/ k = l + 1
    BY <1>1
  <1>4. \A k \in 1 .. l : k \in 1 .. l + 1 /\ k # l + 1
    BY <1>1
  <1>5. l + 1 \in 1 .. l + 1
    BY <1>1
  <1>6. \A k \in 1 .. l + 1 : s[k] \notin o \ {x}
    BY <1>1, <1>2, <1>3
  <1>7. \A k, n \in 1 .. l + 1 : s[k] = s[n] => k = n
    BY <1>1, <1>2, <1>3
  <1>8. \A y \in G \ (o \ {x}) : \E k \in 1 .. l + 1 : s[k] = y
    BY <1>1, <1>2, <1>4, <1>5
  <1>9. Sound(s, o \ {x})
    BY <1>1, <1>6, <1>7, <1>8 DEF Sound
  <1> QED
    BY <1>9 DEF s

LEMMA TakeNewestSound ==
  ASSUME NEW q, NEW o, Sound(q, o), q # <<>>
  PROVE  Sound(SubSeq(q, 1, Len(q) - 1), o \cup {q[Len(q)]})
  <1> DEFINE l == Len(q)
             s == SubSeq(q, 1, l - 1)
             x == q[l]
  <1>1. /\ l \in Nat \ {0} /\ q \in Seq(G) /\ \A k \in 1 .. l : q[k] \in G
    BY EmptySeq, ElementOfSeq DEF Sound
  <1>2. /\ \A k \in 1 .. l : q[k] \notin o
        /\ \A k, n \in 1 .. l : q[k] = q[n] => k = n
        /\ \A y \in G \ o : \E k \in 1 .. l : q[k] = y
    BY DEF Sound
  <1> HIDE DEF l
  <1>3. \A k \in 1 .. l - 1 : k \in 1 .. l /\ k # l /\ k \in 1 .. (l - 1) - 1 + 1 /\ 1 + k - 1 = k
    BY <1>1
  <1>4. /\ s \in Seq(G) /\ Len(s) = l - 1
        /\ \A k \in 1 .. l - 1 : s[k] = q[k]
    <2>1. \A k \in 1 .. l - 1 : q[k] \in G
      BY <1>1, <1>3
    <2>2. 1 \in Int /\ l - 1 \in Int
      BY <1>1
    <2>3. /\ s \in Seq(G)
          /\ Len(s) = IF 1 <= l - 1 THEN (l - 1) - 1 + 1 ELSE 0
          /\ \A k \in 1 .. (l - 1) - 1 + 1 : s[k] = q[1 + k - 1]
      BY <2>1, <2>2, SubSeqProperties
    <2>4. (IF 1 <= l - 1 THEN (l - 1) - 1 + 1 ELSE 0) = l - 1
      BY <1>1
    <2> HIDE DEF s
    <2> QED
      BY <1>3, <2>3, <2>4
  <1>5. \A k \in 1 .. l : k = l \/ k \in 1 .. l - 1
    BY <1>1
  <1>6. l \in 1 .. l
    BY <1>1
  <1> HIDE DEF s
  <1>7. \A k \in 1 .. l - 1 : s[k] \notin o \cup {x}
    BY <1>2, <1>3, <1>4, <1>6
  <1>8. \A k, n \in 1 .. l - 1 : s[k] = s[n] => k = n
    BY <1>2, <1>3, <1>4
  <1>9. \A y \in G \ (o \cup {x}) : \E k \in 1 .. l - 1 : s[k] = y
    BY <1>2, <1>4, <1>5
  <1>10. Sound(s, o \cup {x})
    BY <1>4, <1>7, <1>8, <1>9 DEF Sound
  <1> QED
    BY <1>10 DEF s, l

LEMMA TakeOldestSound ==
  ASSUME NEW q, NEW o, Sound(q, o), q # <<>>
  PROVE  Sound(Tail(q), o \cup {Head(q)})
  <1> DEFINE l == Len(q)
             s == Tail(q)
             x == q[1]
  <1>1. /\ l \in Nat \ {0} /\ q \in Seq(G)
    BY EmptySeq DEF Sound
  <1>2. /\ \A k \in 1 .. l : q[k] \notin o
        /\ \A k, n \in 1 .. l : q[k] = q[n] => k = n
        /\ \A y \in G \ o : \E k \in 1 .. l : q[k] = y
    BY DEF Sound
  <1>3. /\ s \in Seq(G) /\ Len(s) = l - 1
        /\ \A k \in 1 .. l - 1 : s[k] = q[k + 1]
    BY <1>1, HeadTailProperties
  <1>4. Head(q) = x
    BY <1>1
  <1> HIDE DEF s, l
  <1>5. \A k \in 1 .. l : k = 1 \/ (k - 1 \in 1 .. l - 1 /\ (k - 1) + 1 = k)
    BY <1>1
  <1>6. \A k \in 1 .. l - 1 : k + 1 \in 1 .. l /\ k + 1 # 1
    BY <1>1
  <1>7. 1 \in 1 .. l
    BY <1>1
  <1>8. \A k \in 1 .. l - 1 : s[k] \notin o \cup {x}
    BY <1>2, <1>3, <1>6, <1>7
  <1>9. \A k, n \in 1 .. l - 1 : s[k] = s[n] => k = n
    BY <1>2, <1>3, <1>6
  <1>10. ASSUME NEW y \in G \ (o \cup {x}) PROVE \E k \in 1 .. l - 1 : s[k] = y
    <2>1. PICK k \in 1 .. l : q[k] = y
      BY <1>2
    <2>2. k - 1 \in 1 .. l - 1 /\ (k - 1) + 1 = k
      BY <1>5, <2>1
    <2>3. s[k - 1] = y
      BY <1>3, <2>1, <2>2
    <2> QED
      BY <2>2, <2>3
  <1>11. Sound(s, o \cup {x})
    BY <1>3, <1>8, <1>9, <1>10 DEF Sound
  <1> QED
    BY <1>4, <1>11 DEF s
-----------------------------------------------------------------------------
(* The inductive invariant *)

Members == Sub(Tail_, head)
Pushing == pc[Owner] \in {"push_check", "push_write", "push_publish"}
Popping == pc[Owner] \in {"pop_check", "pop_cas", "pop_restore"}

\* A push that is under way and not published.
Pending == IF Pushing THEN 1 ELSE 0

Out == parked \cup UNION {Carried(m) : m \in M}

OwnerPc == {"idle", "push_check", "push_write", "push_publish",
            "pop_reserve", "pop_check", "pop_cas", "pop_restore"}
ThiefPc == {"idle", "steal_tail", "steal_read", "steal_cas"}

\* Only the owner pushes, and only thieves steal.
Alone ==
  /\ Foreign = {}
  /\ pc \in [M -> OwnerPc \cup ThiefPc]
  /\ pc[Owner] \in OwnerPc /\ \A m \in Thief : pc[m] \in ThiefPc

\* What the owner has read still holds: nobody else moves the tail, and the slot
\* behind it is nobody else's.
OwnerKnows ==
  /\ Pushing => t[Owner] = tail /\ g[Owner] \in G \ parked
  /\ pc[Owner] \in {"push_write", "push_publish"} => Members < Size
  /\ pc[Owner] = "push_publish" => buf[tail % Size] = g[Owner]
  /\ pc[Owner] = "pop_reserve" => tail # 0 /\ t[Owner] = tail - 1
  /\ pc[Owner] \in {"idle", "pop_reserve", "pop_check"} => g[Owner] = NoG
  /\ Popping => t[Owner] = tail
  /\ pc[Owner] = "pop_cas" => /\ h[Owner] = tail /\ g[Owner] = buf[tail % Size]
                              /\ head = tail \/ Members = 0
  /\ pc[Owner] = "pop_restore" => Members = 0

\* The head has moved no further past what a thief has read than Gs were pushed, so
\* that it has not come round: where the two are equal, what the thief has read of
\* the slot still holds.
ThiefKnows(m) ==
  /\ pc[m] # "idle" => Sub(head, h[m]) + Members + Pending <= pushes
  /\ pc[m] \in {"steal_read", "steal_cas"} /\ h[m] = head => Members # 0
  /\ pc[m] = "steal_cas" /\ h[m] = head => g[m] = buf[head % Size]

Claims == Members + Pending <= pushes /\ \A m \in Thief : ThiefKnows(m)

\* A pop that finds nothing has found an empty deque or the tail at index 0.
Missed == popped = "miss" => ~Pushing /\ (Members = 0 \/ (tail = 0 /\ pc[Owner] = "idle"))

DequeInv == TypeOK /\ Alone /\ OwnerKnows /\ Claims /\ Sound(Content, Out) /\ Missed

Steps == [Deque!Next]_(Deque!vars)

LEMMA Ms ==
  ASSUME Alone
  PROVE  M = {Owner} \cup Thief /\ Owner \notin Thief /\ NoG \notin G
         /\ Owner \in M /\ (\A m \in Thief : m \in M /\ m # Owner)
  BY LocalQueueAssumption DEF Alone, M, Pusher

LEMMA MembersAre ==
  ASSUME TypeOK
  PROVE  /\ head \in Index /\ tail \in Index /\ Tail_ \in Index /\ Members \in 0 .. Size
         /\ Add(tail, 1) \in Index
         /\ Content = Run(buf, head, Members)
  <1>1. head \in Index /\ tail \in Index
    BY DEF TypeOK, Index
  <1>2. Tail_ \in Index /\ Add(tail, 1) \in Index
    BY <1>1, Forward DEF Tail_
  <1>3. Members \in Index /\ Members <= Size
    BY <1>1, <1>2, SubIs DEF Members, TypeOK
  <1> QED
    BY <1>1, <1>2, <1>3, Sizes DEF Content, Members, Run, Index

LEMMA ContentIs ==
  ASSUME TypeOK, Sound(Content, Out)
  PROVE  /\ Len(Content) = Members
         /\ \A k \in 1 .. Members : Run(buf, head, Members)[k] \in G
  <1>1. DOMAIN Content = 1 .. Members /\ Members \in Nat
    BY MembersAre DEF Content, Members
  <1>2. Content \in Seq(G)
    BY DEF Sound
  <1>3. Len(Content) \in Nat /\ DOMAIN Content = 1 .. Len(Content)
        /\ \A k \in 1 .. Len(Content) : Content[k] \in G
    BY <1>2, LenProperties, ElementOfSeq
  <1>4. Len(Content) = Members
    BY <1>1, <1>3
  <1> QED
    BY <1>3, <1>4, MembersAre

\* Only the owner carries a green thread.
LEMMA OutIs ==
  ASSUME Alone
  PROVE  Out = parked \cup Carried(Owner)
  <1>1. \A m \in Thief : Carried(m) = {}
    BY DEF Alone, ThiefPc, Carried
  <1>2. UNION {Carried(m) : m \in M} = Carried(Owner)
    BY <1>1, Ms
  <1> QED
    BY <1>2 DEF Out

LEMMA OutNext ==
  ASSUME Alone'
  PROVE  Out' = parked' \cup Carried(Owner)'
  <1>1. \A m \in Thief : Carried(m)' = {}
    BY DEF Alone, ThiefPc, Carried
  <1>2. M = {Owner} \cup Thief
    BY DEF Alone, M, Pusher
  <1>3. UNION {Carried(m)' : m \in M} = Carried(Owner)'
    BY <1>1, <1>2
  <1> QED
    BY <1>3 DEF Out

\* A step that leaves the members and who is out alone.
LEMMA Stutters ==
  ASSUME DequeInv, Content' = Content, Out' = Out
  PROVE  Sound(Content, Out)' /\ Steps
  BY DEF DequeInv, Sound, Steps, Deque!vars, Out

LEMMA Unmoved ==
  ASSUME head' = head, Tail_' = Tail_
  PROVE  Members' = Members /\ (buf' = buf => Content' = Content)
  BY DEF Members, Content

LEMMA Smaller ==
  \A a, b, c, d, j, k \in Nat : a + b + c <= d + j + k /\ d + j <= c => a + b <= k
  OBVIOUS

LEMMA SmallerBy ==
  \A a, b, c, d, j, k, z \in Nat : a + b + c <= d + j + k /\ z + d + j <= c => z + a + b <= k
  OBVIOUS

\* What thieves know does not depend on the owner's locals.
LEMMA ClaimsKept ==
  ASSUME DequeInv, head' = head, pushes' \in Nat,
         Members' \in Nat, Pending' \in Nat,
         Members' + Pending' + pushes <= Members + Pending + pushes',
         Members # 0 => Members' # 0 /\ buf'[head % Size] = buf[head % Size],
         \A m \in Thief : pc'[m] = pc[m] /\ h'[m] = h[m] /\ g'[m] = g[m]
  PROVE  Claims'
  <1>1. /\ Members \in Nat /\ Pending \in Nat /\ pushes \in Nat
        /\ Members + Pending <= pushes
    BY MembersAre DEF DequeInv, Claims, Pending, TypeOK
  <1>2. Members' + Pending' <= pushes'
    BY <1>1, Smaller
  <1>3. ASSUME NEW m \in Thief PROVE ThiefKnows(m)'
    <2>1. /\ pc[m] # "idle" => Sub(head, h[m]) + Members + Pending <= pushes
          /\ pc[m] \in {"steal_read", "steal_cas"} /\ h[m] = head => Members # 0
          /\ pc[m] = "steal_cas" /\ h[m] = head => g[m] = buf[head % Size]
      BY DEF DequeInv, Claims, ThiefKnows
    <2>2. Sub(head, h[m]) \in Nat
      <3>1. h[m] \in Index
        BY Ms DEF DequeInv, TypeOK, Index
      <3>2. head \in Index
        BY MembersAre DEF DequeInv
      <3>3. Sub(head, h[m]) \in Index
        BY <3>1, <3>2, SubIs
      <3> QED
        BY <3>3 DEF Index
    <2>3. ASSUME pc[m] # "idle" PROVE Sub(head, h[m]) + Members' + Pending' <= pushes'
      <3> DEFINE z == Sub(head, h[m])
      <3>1. z \in Nat /\ z + Members + Pending <= pushes
        BY <2>1, <2>2, <2>3
      <3> HIDE DEF z
      <3>2. z + Members' + Pending' <= pushes'
        BY <1>1, <3>1, SmallerBy
      <3> QED
        BY <3>2 DEF z
    <2>4. Sub(head', h'[m]) = Sub(head, h[m])
      BY DEF Sub
    <2> QED
      BY <2>1, <2>3, <2>4 DEF ThiefKnows
  <1> QED
    BY <1>2, <1>3 DEF Claims

\* The oldest member is taken: nobody who has read the head before will find it again.
LEMMA ClaimsMoved ==
  ASSUME DequeInv, head' = Add(head, 1), Members # 0, Members' = Members - 1,
         Pending' = Pending, UNCHANGED <<buf, pushes>>,
         \A m \in Thief : pc'[m] = "idle" \/ (pc'[m] = pc[m] /\ h'[m] = h[m])
  PROVE  Claims'
  <1>1. /\ Members \in 0 .. Size /\ Pending \in Nat /\ pushes \in 0 .. MaxPush
        /\ Members + Pending <= pushes /\ head \in Index
    BY MembersAre DEF DequeInv, Claims, Pending, TypeOK
  <1>2. Members' + Pending' <= pushes'
    BY <1>1
  <1>3. ASSUME NEW m \in Thief, pc'[m] # "idle" PROVE ThiefKnows(m)'
    <2>1. pc'[m] = pc[m] /\ h'[m] = h[m]
      BY <1>3
    <2>2. Sub(head, h[m]) + Members + Pending <= pushes
      BY <1>3, <2>1 DEF DequeInv, Claims, ThiefKnows
    <2>3. h[m] \in Index
      BY Ms DEF DequeInv, TypeOK, Index
    <2>4. Sub(head, h[m]) \in Nat
      BY <1>1, <2>3, SubIs DEF Index
    <2>5. Sub(head, h[m]) < Width - 1
      BY <1>1, <2>2, <2>4, LocalQueueAssumption
    <2>6. Sub(Add(head, 1), h[m]) = Sub(head, h[m]) + 1
      BY <1>1, <2>3, <2>5, Forward
    <2>7. Add(head, 1) # h[m]
      <3>1. Add(head, 1) \in Index /\ (Sub(Add(head, 1), h[m]) = 0 <=> Add(head, 1) = h[m])
        BY <1>1, <2>3, Forward
      <3> QED
        BY <2>4, <2>6, <3>1
    <2>8. Sub(head', h'[m]) = Sub(head, h[m]) + 1
      BY <2>1, <2>6
    <2>9. Sub(head', h'[m]) + Members' + Pending' <= pushes'
      BY <1>1, <2>2, <2>4, <2>8
    <2> QED
      BY <2>1, <2>7, <2>9 DEF ThiefKnows
  <1>4. ASSUME NEW m \in Thief, pc'[m] = "idle" PROVE ThiefKnows(m)'
    BY <1>4 DEF ThiefKnows
  <1> QED
    BY <1>2, <1>3, <1>4 DEF Claims
-----------------------------------------------------------------------------
(* The owner pushes *)

LEMMA OwnerGoes ==
  ASSUME DequeInv, NEW s \in OwnerPc, pc' = [pc EXCEPT ![Owner] = s]
  PROVE  Alone' /\ pc'[Owner] = s /\ \A m \in Thief : pc'[m] = pc[m]
  <1>1. Alone
    BY DEF DequeInv
  <1>2. /\ pc' \in [M -> OwnerPc \cup ThiefPc] /\ pc'[Owner] = s
        /\ \A m \in Thief : pc'[m] = pc[m]
    BY <1>1, Ms DEF Alone
  <1> QED
    BY <1>1, <1>2 DEF Alone

LEMMA OwnerEnds ==
  ASSUME DequeInv, Finish(Owner)
  PROVE  /\ Alone' /\ pc'[Owner] = "idle" /\ g'[Owner] = NoG
         /\ \A m \in Thief : pc'[m] = pc[m] /\ h'[m] = h[m] /\ g'[m] = g[m]
         /\ t' \in [M -> 0 .. Width - 1] /\ h' \in [M -> 0 .. Width - 1]
         /\ g' \in [M -> G \cup {NoG}]
  <1>1. "idle" \in OwnerPc /\ pc' = [pc EXCEPT ![Owner] = "idle"]
    BY DEF OwnerPc, Finish
  <1>2. Alone' /\ pc'[Owner] = "idle" /\ \A m \in Thief : pc'[m] = pc[m]
    BY <1>1, OwnerGoes
  <1>3. 0 \in 0 .. Width - 1
    BY Sizes
  <1>4. TypeOK /\ Alone
    BY DEF DequeInv
  <1> QED
    BY <1>2, <1>3, <1>4, Ms DEF Finish, TypeOK

LEMMA PushLoadKeeps ==
  ASSUME DequeInv, NEW x \in G, PushLoad(Owner, x)
  PROVE  DequeInv' /\ Steps
  <1>1. TypeOK /\ Alone /\ OwnerKnows /\ Claims /\ pc[Owner] = "idle" /\ Owner \in M
    BY Ms DEF DequeInv, PushLoad, Go
  <1>2. "push_check" \in OwnerPc /\ pc' = [pc EXCEPT ![Owner] = "push_check"]
    BY DEF OwnerPc, PushLoad, Go
  <1>3. Alone' /\ pc'[Owner] = "push_check" /\ \A m \in Thief : pc'[m] = pc[m]
    BY <1>2, OwnerGoes
  <1>4. /\ UNCHANGED <<head, tail, buf, h>>
        /\ x \in parked /\ parked' = parked \ {x} /\ pushes < MaxPush /\ pushes' = pushes + 1
        /\ g' = [g EXCEPT ![Owner] = x] /\ t' = [t EXCEPT ![Owner] = tail]
        /\ popped' = "none"
    BY DEF PushLoad
  <1>5. g'[Owner] = x /\ t'[Owner] = tail /\ \A m \in Thief : g'[m] = g[m]
    BY <1>1, <1>4, Ms DEF TypeOK
  <1>6. Tail_' = Tail_
    BY <1>1, <1>3, <1>4 DEF Tail_
  <1>7. Members' = Members /\ Content' = Content
    BY <1>4, <1>6, Unmoved
  <1>8. Members \in 0 .. Size /\ Members <= Size
    BY <1>1, MembersAre
  <1>9. TypeOK'
    <2>1. pushes' \in 0 .. MaxPush
      BY <1>1, <1>4, LocalQueueAssumption DEF TypeOK
    <2>2. (Sub(Tail_, head) <= Size)'
      BY <1>7, <1>8 DEF Members
    <2> QED
      BY <1>1, <1>4, <2>1, <2>2 DEF TypeOK
  <1>10. OwnerKnows'
    BY <1>3, <1>4, <1>5 DEF OwnerKnows, Pushing, Popping
  <1>11. Claims'
    <2>1. Pending' = 1 /\ Pending = 0 /\ pushes \in Nat /\ pushes' \in Nat /\ Members \in Nat
      BY <1>1, <1>3, <1>8, <1>9 DEF Pending, Pushing, TypeOK
    <2>2. Members' + Pending' + pushes <= Members + Pending + pushes'
      BY <1>4, <1>7, <2>1
    <2> QED
      BY <1>3, <1>4, <1>5, <1>7, <2>1, <2>2, ClaimsKept
  <1>12. Out' = Out
    <2>1. Carried(Owner) = {}
      BY <1>1 DEF Carried
    <2>2. Carried(Owner)' = {x}
      BY <1>1, <1>3, <1>5, Ms DEF Carried
    <2> QED
      BY <1>1, <1>3, <1>4, <2>1, <2>2, OutIs, OutNext
  <1>13. Missed'
    BY <1>4 DEF Missed
  <1> QED
    BY <1>3, <1>7, <1>9, <1>10, <1>11, <1>12, <1>13, Stutters DEF DequeInv

LEMMA PushFullKeeps ==
  ASSUME DequeInv, PushFull(Owner)
  PROVE  DequeInv' /\ Steps
  <1>1. TypeOK /\ Alone /\ OwnerKnows /\ pc[Owner] = "push_check" /\ Finish(Owner)
    BY DEF DequeInv, PushFull
  <1>2. /\ Alone' /\ pc'[Owner] = "idle" /\ g'[Owner] = NoG
        /\ \A m \in Thief : pc'[m] = pc[m] /\ h'[m] = h[m] /\ g'[m] = g[m]
        /\ t' \in [M -> 0 .. Width - 1] /\ h' \in [M -> 0 .. Width - 1]
        /\ g' \in [M -> G \cup {NoG}]
    BY <1>1, OwnerEnds
  <1>3. /\ UNCHANGED <<head, tail, buf, popped, pushes>>
        /\ parked' = parked \cup {g[Owner]}
    BY DEF PushFull
  <1>4. g[Owner] \in G \ parked
    BY <1>1 DEF OwnerKnows, Pushing
  <1>5. Tail_' = Tail_
    BY <1>1, <1>2, <1>3 DEF Tail_
  <1>6. Members' = Members /\ Content' = Content /\ Members \in 0 .. Size
    BY <1>1, <1>3, <1>5, Unmoved, MembersAre
  <1>7. TypeOK'
    <2>1. (Sub(Tail_, head) <= Size)'
      BY <1>6, Sizes DEF Members
    <2> QED
      BY <1>1, <1>2, <1>3, <1>4, <2>1 DEF TypeOK
  <1>8. OwnerKnows'
    BY <1>2 DEF OwnerKnows, Pushing, Popping
  <1>9. Claims'
    <2>1. Pending' = 0 /\ Pending = 1 /\ pushes \in Nat /\ pushes' \in Nat /\ Members \in Nat
      BY <1>1, <1>2, <1>6, <1>7 DEF Pending, Pushing, TypeOK
    <2>2. Members' + Pending' + pushes <= Members + Pending + pushes'
      BY <1>3, <1>6, <2>1
    <2> QED
      BY <1>2, <1>3, <1>6, <2>1, <2>2, ClaimsKept
  <1>10. Out' = Out
    <2>1. Carried(Owner) = {g[Owner]}
      BY <1>1, <1>4, Ms DEF Carried
    <2>2. Carried(Owner)' = {}
      BY <1>2 DEF Carried
    <2> QED
      BY <1>1, <1>2, <1>3, <2>1, <2>2, OutIs, OutNext
  <1>11. Missed'
    BY <1>1, <1>3 DEF DequeInv, Missed, Pushing
  <1> QED
    BY <1>2, <1>6, <1>7, <1>8, <1>9, <1>10, <1>11, Stutters DEF DequeInv

LEMMA PushCheckKeeps ==
  ASSUME DequeInv, PushCheck(Owner)
  PROVE  DequeInv' /\ Steps
  <1>1. TypeOK /\ Alone /\ OwnerKnows /\ pc[Owner] = "push_check"
    BY DEF DequeInv, PushCheck, Go
  <1>2. "push_write" \in OwnerPc /\ pc' = [pc EXCEPT ![Owner] = "push_write"]
    BY DEF OwnerPc, PushCheck, Go
  <1>3. Alone' /\ pc'[Owner] = "push_write" /\ \A m \in Thief : pc'[m] = pc[m]
    BY <1>2, OwnerGoes
  <1>4. Sub(t[Owner], head) < Size /\ UNCHANGED <<head, tail, buf, t, h, g, parked, popped, pushes>>
    BY DEF PushCheck
  <1>5. Tail_' = Tail_ /\ Tail_ = tail
    BY <1>1, <1>3, <1>4 DEF Tail_
  <1>6. Members' = Members /\ Content' = Content /\ Members \in 0 .. Size
    BY <1>1, <1>4, <1>5, Unmoved, MembersAre
  <1>7. t[Owner] = tail /\ g[Owner] \in G \ parked
    BY <1>1 DEF OwnerKnows, Pushing
  <1>8. Members < Size
    BY <1>4, <1>5, <1>7 DEF Members
  <1>9. TypeOK'
    <2>1. (Sub(Tail_, head) <= Size)'
      BY <1>6, Sizes DEF Members
    <2> QED
      BY <1>1, <1>4, <2>1 DEF TypeOK
  <1>10. OwnerKnows'
    BY <1>3, <1>4, <1>6, <1>7, <1>8 DEF OwnerKnows, Pushing, Popping
  <1>11. Claims'
    <2>1. Pending' = 1 /\ Pending = 1 /\ pushes \in Nat /\ pushes' \in Nat /\ Members \in Nat
      BY <1>1, <1>3, <1>6, <1>9 DEF Pending, Pushing, TypeOK
    <2>2. Members' + Pending' + pushes <= Members + Pending + pushes'
      BY <1>4, <1>6, <2>1
    <2> QED
      BY <1>3, <1>4, <1>6, <2>1, <2>2, ClaimsKept
  <1>12. Out' = Out
    <2>1. Carried(Owner)' = Carried(Owner)
      BY <1>1, <1>3, <1>4 DEF Carried
    <2> QED
      BY <1>1, <1>3, <1>4, <2>1, OutIs, OutNext
  <1>13. Missed'
    BY <1>1, <1>4 DEF DequeInv, Missed, Pushing
  <1> QED
    BY <1>3, <1>6, <1>9, <1>10, <1>11, <1>12, <1>13, Stutters DEF DequeInv

LEMMA PushWriteKeeps ==
  ASSUME DequeInv, PushWrite(Owner)
  PROVE  DequeInv' /\ Steps
  <1>1. TypeOK /\ Alone /\ OwnerKnows /\ pc[Owner] = "push_write"
    BY DEF DequeInv, PushWrite, Go
  <1>2. "push_publish" \in OwnerPc /\ pc' = [pc EXCEPT ![Owner] = "push_publish"]
    BY DEF OwnerPc, PushWrite, Go
  <1>3. Alone' /\ pc'[Owner] = "push_publish" /\ \A m \in Thief : pc'[m] = pc[m]
    BY <1>2, OwnerGoes
  <1>4. /\ buf' = [buf EXCEPT ![t[Owner] % Size] = g[Owner]]
        /\ UNCHANGED <<head, tail, t, h, g, parked, popped, pushes>>
    BY DEF PushWrite
  <1>5. Tail_' = Tail_ /\ Tail_ = tail
    BY <1>1, <1>3, <1>4 DEF Tail_
  <1>6. t[Owner] = tail /\ g[Owner] \in G \ parked /\ Members < Size
    BY <1>1 DEF OwnerKnows, Pushing
  <1>7. /\ Members' = Members /\ Members \in 0 .. Size - 1
        /\ head \in Index /\ tail \in Index
    BY <1>1, <1>4, <1>5, <1>6, Unmoved, MembersAre, Sizes
  <1>8. Add(head, Members) = tail
    BY <1>5, <1>7, AddSub DEF Members
  <1>9. Content' = Content
    <2>1. Run(buf', head, Members) = Run(buf, head, Members)
      <3>1. buf' = [buf EXCEPT ![Add(head, Members) % Size] = g[Owner]]
        BY <1>4, <1>6, <1>8
      <3>2. \A k \in 0 .. Size - 1 : k # Add(head, Members) % Size => buf'[k] = buf[k]
        BY <1>1, <3>1 DEF TypeOK
      <3> QED
        BY <1>7, <3>2, RunWritten
    <2>2. Content' = Run(buf', head, Members)
      BY <1>4, <1>7 DEF Content, Run, Members
    <2> QED
      BY <1>1, <2>1, <2>2, MembersAre
  <1>10. tail % Size \in 0 .. Size - 1 /\ buf'[tail % Size] = g[Owner]
    BY <1>1, <1>4, <1>6, <1>7, SlotIs DEF TypeOK
  <1>11. Members # 0 => buf'[head % Size] = buf[head % Size]
    <2>1. ASSUME Members # 0 PROVE head % Size # tail % Size
      <3>1. Add(head, 0) = head
        BY <1>7, AddOnce, Sizes
      <3>2. 0 \in 0 .. Size - 1 /\ Members \in 0 .. Size - 1
        BY <1>7, Sizes
      <3> QED
        BY <1>7, <1>8, <2>1, <3>1, <3>2, SlotsApart
    <2>2. head % Size \in 0 .. Size - 1
      BY <1>7, SlotIs
    <2> QED
      BY <1>1, <1>4, <1>6, <2>1, <2>2 DEF TypeOK
  <1>12. TypeOK'
    <2>1. (Sub(Tail_, head) <= Size)'
      BY <1>7, Sizes DEF Members
    <2>2. buf' \in [0 .. Size - 1 -> G \cup {NoG}]
      BY <1>1, <1>4, <1>6 DEF TypeOK
    <2> QED
      BY <1>1, <1>4, <2>1, <2>2 DEF TypeOK
  <1>13. OwnerKnows'
    BY <1>3, <1>4, <1>6, <1>7, <1>10 DEF OwnerKnows, Pushing, Popping
  <1>14. Claims'
    <2>1. Pending' = 1 /\ Pending = 1 /\ pushes \in Nat /\ pushes' \in Nat /\ Members \in Nat
      BY <1>1, <1>3, <1>7, <1>12 DEF Pending, Pushing, TypeOK
    <2>2. Members' + Pending' + pushes <= Members + Pending + pushes'
      BY <1>4, <1>7, <2>1
    <2> QED
      BY <1>3, <1>4, <1>7, <1>11, <2>1, <2>2, ClaimsKept
  <1>15. Out' = Out
    <2>1. Carried(Owner)' = Carried(Owner)
      BY <1>1, <1>3, <1>4 DEF Carried
    <2> QED
      BY <1>1, <1>3, <1>4, <2>1, OutIs, OutNext
  <1>16. Missed'
    BY <1>1, <1>4 DEF DequeInv, Missed, Pushing
  <1> QED
    BY <1>3, <1>9, <1>12, <1>13, <1>14, <1>15, <1>16, Stutters DEF DequeInv

LEMMA PushPublishKeeps ==
  ASSUME DequeInv, PushPublish(Owner)
  PROVE  DequeInv' /\ Steps
  <1>1. TypeOK /\ Alone /\ OwnerKnows /\ Sound(Content, Out)
        /\ pc[Owner] = "push_publish" /\ Finish(Owner)
    BY DEF DequeInv, PushPublish
  <1>2. /\ Alone' /\ pc'[Owner] = "idle" /\ g'[Owner] = NoG
        /\ \A m \in Thief : pc'[m] = pc[m] /\ h'[m] = h[m] /\ g'[m] = g[m]
        /\ t' \in [M -> 0 .. Width - 1] /\ h' \in [M -> 0 .. Width - 1]
        /\ g' \in [M -> G \cup {NoG}]
    BY <1>1, OwnerEnds
  <1>3. tail' = Add(t[Owner], 1) /\ UNCHANGED <<head, buf, parked, popped, pushes>>
    BY DEF PushPublish
  <1> DEFINE x == g[Owner]
  <1>4. /\ t[Owner] = tail /\ x \in G \ parked /\ Members < Size
        /\ buf[tail % Size] = x
    BY <1>1 DEF OwnerKnows, Pushing
  <1> HIDE DEF x
  <1>5. Tail_' = Add(tail, 1) /\ Tail_ = tail
    BY <1>1, <1>2, <1>3, <1>4 DEF Tail_
  <1>6. /\ Members \in 0 .. Size - 1 /\ head \in Index /\ tail \in Index
    BY <1>1, <1>4, MembersAre, Sizes
  <1>7. Members' = Members + 1
    <2>1. Members = Sub(tail, head) /\ Members' = Sub(Add(tail, 1), head)
      BY <1>3, <1>5 DEF Members
    <2>2. Sub(tail, head) < Width - 1
      BY <1>6, <2>1, Sizes
    <2> QED
      BY <1>6, <2>1, <2>2, Forward
  <1>8. Add(head, Members) = tail
    BY <1>5, <1>6, AddSub DEF Members
  <1>9. Content' = Append(Content, x) /\ Len(Content) < Size
    <2>1. Len(Content) = Members /\ \A k \in 1 .. Members : Run(buf, head, Members)[k] \in G
      BY <1>1, ContentIs
    <2>2. Run(buf, head, Members + 1) = Append(Run(buf, head, Members), x)
      BY <1>4, <1>6, <1>8, <2>1, RunAppends
    <2>3. Content' = Run(buf, head, Members + 1)
      BY <1>3, <1>7 DEF Content, Run, Members
    <2> QED
      BY <1>1, <1>4, <2>1, <2>2, <2>3, MembersAre
  <1>10. Out' = Out \ {x} /\ x \in Out
    <2>1. Carried(Owner) = {x}
      BY <1>1, <1>4, Ms DEF Carried, x
    <2>2. Carried(Owner)' = {}
      BY <1>2 DEF Carried
    <2> QED
      BY <1>1, <1>2, <1>3, <1>4, <2>1, <2>2, OutIs, OutNext
  <1>11. Steps
    <2>1. Deque!Put(x)
      BY <1>9, <1>10 DEF Deque!Put, Out
    <2> QED
      BY <1>4, <2>1 DEF Steps, Deque!Next
  <1>12. Sound(Content, Out)'
    <2>1. Sound(Append(Content, x), Out \ {x})
      BY <1>1, <1>4, <1>10, PutSound
    <2> QED
      BY <1>9, <1>10, <2>1 DEF Sound
  <1>13. TypeOK'
    <2>1. (Sub(Tail_, head) <= Size)'
      BY <1>6, <1>7, Sizes DEF Members
    <2>2. tail' \in 0 .. Width - 1
      BY <1>3, <1>4, <1>6, Forward DEF Index
    <2> QED
      BY <1>1, <1>2, <1>3, <2>1, <2>2 DEF TypeOK
  <1>14. OwnerKnows'
    BY <1>2 DEF OwnerKnows, Pushing, Popping
  <1>15. Claims'
    <2>1. Pending' = 0 /\ Pending = 1 /\ pushes \in Nat /\ pushes' \in Nat /\ Members \in Nat
      BY <1>1, <1>2, <1>6, <1>13 DEF Pending, Pushing, TypeOK
    <2>2. Members' + Pending' + pushes <= Members + Pending + pushes' /\ Members' # 0
      BY <1>3, <1>7, <2>1
    <2>3. Members' \in Nat
      BY <1>7, <2>1
    <2> QED
      BY <1>2, <1>3, <2>1, <2>2, <2>3, ClaimsKept
  <1>16. Missed'
    <2>1. popped # "miss"
      BY <1>1 DEF DequeInv, Missed, Pushing
    <2> QED
      BY <1>3, <2>1 DEF Missed
  <1> QED
    BY <1>2, <1>11, <1>12, <1>13, <1>14, <1>15, <1>16 DEF DequeInv
-----------------------------------------------------------------------------
(* The owner pops *)

\* A step of a pop that takes nothing and leaves the members where they are.
LEMMA PopStays ==
  ASSUME DequeInv, ~Pushing, ~Pushing', UNCHANGED <<head, buf, pushes>>, Tail_' = Tail_,
         \A m \in Thief : pc'[m] = pc[m] /\ h'[m] = h[m] /\ g'[m] = g[m]
  PROVE  /\ Claims' /\ Members' = Members /\ Content' = Content
         /\ Members \in 0 .. Size /\ (Sub(Tail_, head) <= Size)'
  <1>1. TypeOK
    BY DEF DequeInv
  <1>2. Members' = Members /\ Content' = Content /\ Members \in 0 .. Size
    BY <1>1, Unmoved, MembersAre
  <1>3. (Sub(Tail_, head) <= Size)'
    BY <1>2, Sizes DEF Members
  <1>4. Pending = 0 /\ Pending' = 0 /\ pushes \in Nat /\ pushes' \in Nat /\ Members \in Nat
    BY <1>1, <1>2 DEF Pending, TypeOK
  <1>5. Members' + Pending' + pushes <= Members + Pending + pushes'
    BY <1>2, <1>4
  <1> QED
    BY <1>2, <1>3, <1>4, <1>5, ClaimsKept

LEMMA PopZeroKeeps ==
  ASSUME DequeInv, PopZero(Owner)
  PROVE  DequeInv' /\ Steps
  <1>1. TypeOK /\ Alone /\ OwnerKnows /\ pc[Owner] = "idle" /\ tail = 0
        /\ UNCHANGED <<head, tail, buf, pc, t, h, g, parked, pushes>> /\ popped' = "miss"
    BY DEF DequeInv, PopZero
  <1>2. ~Pushing /\ ~Pushing' /\ Tail_' = Tail_ /\ Alone'
    BY <1>1 DEF Pushing, Tail_, Alone
  <1>3. Claims' /\ Members' = Members /\ Content' = Content /\ (Sub(Tail_, head) <= Size)'
    BY <1>1, <1>2, PopStays
  <1>4. TypeOK'
    BY <1>1, <1>3 DEF TypeOK
  <1>5. OwnerKnows'
    BY <1>1 DEF OwnerKnows, Pushing, Popping
  <1>6. Out' = Out
    BY <1>1 DEF Out, Carried
  <1>7. Missed'
    BY <1>1, <1>2 DEF Missed
  <1> QED
    BY <1>2, <1>3, <1>4, <1>5, <1>6, <1>7, Stutters DEF DequeInv

LEMMA PopLoadKeeps ==
  ASSUME DequeInv, PopLoad(Owner)
  PROVE  DequeInv' /\ Steps
  <1>1. TypeOK /\ Alone /\ OwnerKnows /\ pc[Owner] = "idle" /\ tail # 0
        /\ UNCHANGED <<head, tail, buf, h, g, parked, pushes>> /\ popped' = "none"
        /\ t' = [t EXCEPT ![Owner] = tail - 1]
    BY DEF DequeInv, PopLoad, Go
  <1>2. "pop_reserve" \in OwnerPc /\ pc' = [pc EXCEPT ![Owner] = "pop_reserve"]
    BY DEF OwnerPc, PopLoad, Go
  <1>3. Alone' /\ pc'[Owner] = "pop_reserve" /\ \A m \in Thief : pc'[m] = pc[m]
    BY <1>2, OwnerGoes
  <1>4. ~Pushing /\ ~Pushing' /\ Tail_' = Tail_
    BY <1>1, <1>3 DEF Pushing, Tail_
  <1>5. Claims' /\ Members' = Members /\ Content' = Content /\ (Sub(Tail_, head) <= Size)'
    BY <1>1, <1>3, <1>4, PopStays
  <1>6. tail - 1 \in 0 .. Width - 1
    BY <1>1, Sizes DEF TypeOK
  <1>7. TypeOK'
    BY <1>1, <1>5, <1>6 DEF TypeOK
  <1>8. t'[Owner] = tail - 1
    BY <1>1, Ms DEF TypeOK
  <1>9. OwnerKnows'
    BY <1>1, <1>3, <1>8 DEF OwnerKnows, Pushing, Popping
  <1>10. Out' = Out
    <2>1. Carried(Owner) = {} /\ Carried(Owner)' = {}
      BY <1>1, <1>3 DEF Carried
    <2> QED
      BY <1>1, <1>3, <2>1, OutIs, OutNext
  <1>11. Missed'
    BY <1>1 DEF Missed
  <1> QED
    BY <1>3, <1>5, <1>7, <1>9, <1>10, <1>11, Stutters DEF DequeInv

\* The tail is lowered, and the member behind it claimed.
LEMMA PopReserveKeeps ==
  ASSUME DequeInv, PopReserve(Owner)
  PROVE  DequeInv' /\ Steps
  <1>1. TypeOK /\ Alone /\ OwnerKnows /\ pc[Owner] = "pop_reserve"
        /\ UNCHANGED <<head, buf, t, h, g, parked, popped, pushes>> /\ tail' = t[Owner]
    BY DEF DequeInv, PopReserve, Go
  <1>2. "pop_check" \in OwnerPc /\ pc' = [pc EXCEPT ![Owner] = "pop_check"]
    BY DEF OwnerPc, PopReserve, Go
  <1>3. Alone' /\ pc'[Owner] = "pop_check" /\ \A m \in Thief : pc'[m] = pc[m]
    BY <1>2, OwnerGoes
  <1>4. tail # 0 /\ t[Owner] = tail - 1 /\ tail \in Index
    BY <1>1, MembersAre DEF OwnerKnows
  <1>5. Add(tail - 1, 1) = tail /\ tail - 1 \in Index
    <2>1. tail - 1 \in Index /\ 1 \in 0 .. Width
      BY <1>4, Sizes DEF Index
    <2>2. Add(tail - 1, 1) = IF (tail - 1) + 1 < Width THEN (tail - 1) + 1
                                                      ELSE (tail - 1) + 1 - Width
      BY <2>1, AddIs
    <2> QED
      BY <1>4, <2>1, <2>2, Sizes DEF Index
  <1>6. ~Pushing /\ ~Pushing' /\ Tail_' = Tail_
    BY <1>1, <1>3, <1>4, <1>5 DEF Pushing, Tail_
  <1>7. Claims' /\ Members' = Members /\ Content' = Content /\ (Sub(Tail_, head) <= Size)'
    BY <1>1, <1>3, <1>6, PopStays
  <1>8. TypeOK'
    BY <1>1, <1>4, <1>5, <1>7 DEF TypeOK, Index
  <1>9. OwnerKnows'
    BY <1>1, <1>3 DEF OwnerKnows, Pushing, Popping
  <1>10. Out' = Out
    <2>1. Carried(Owner) = {} /\ Carried(Owner)' = {}
      BY <1>1, <1>3 DEF Carried
    <2> QED
      BY <1>1, <1>3, <2>1, OutIs, OutNext
  <1>11. Missed'
    BY <1>1, <1>6, <1>7 DEF Missed, DequeInv
  <1> QED
    BY <1>3, <1>7, <1>8, <1>9, <1>10, <1>11, Stutters DEF DequeInv

\* What the comparison of the lowered tail with the head says of the members.
LEMMA PopSees ==
  ASSUME DequeInv, Popping
  PROVE  /\ Tail_ = Add(tail, 1) /\ t[Owner] = tail
         /\ Negative(Sub(tail, head)) <=> Members = 0
         /\ tail = head <=> Members = 1
         /\ ~Negative(Sub(tail, head)) => Sub(tail, head) = Members - 1
  <1>1. TypeOK /\ OwnerKnows
    BY DEF DequeInv
  <1>2. Tail_ = Add(tail, 1) /\ t[Owner] = tail
    BY <1>1 DEF OwnerKnows, Popping, Tail_
  <1>3. Members = Sub(Add(tail, 1), head)
    BY <1>2 DEF Members
  <1>4. tail \in Index /\ head \in Index /\ Sub(Add(tail, 1), head) <= Size
    BY <1>1, <1>3, MembersAre, Sizes
  <1> QED
    BY <1>2, <1>3, <1>4, Lowered

LEMMA PopEmptyKeeps ==
  ASSUME DequeInv, PopEmpty(Owner)
  PROVE  DequeInv' /\ Steps
  <1>1. TypeOK /\ Alone /\ OwnerKnows /\ pc[Owner] = "pop_check"
        /\ UNCHANGED <<head, tail, buf, t, h, g, parked, pushes>> /\ popped' = "miss"
        /\ Negative(Sub(t[Owner], head))
    BY DEF DequeInv, PopEmpty, Go
  <1>2. "pop_restore" \in OwnerPc /\ pc' = [pc EXCEPT ![Owner] = "pop_restore"]
    BY DEF OwnerPc, PopEmpty, Go
  <1>3. Alone' /\ pc'[Owner] = "pop_restore" /\ \A m \in Thief : pc'[m] = pc[m]
    BY <1>2, OwnerGoes
  <1>4. ~Pushing /\ ~Pushing' /\ Tail_' = Tail_ /\ Popping
    BY <1>1, <1>3 DEF Pushing, Tail_, Popping
  <1>5. Claims' /\ Members' = Members /\ Content' = Content /\ (Sub(Tail_, head) <= Size)'
    BY <1>1, <1>3, <1>4, PopStays
  <1>6. Members = 0 /\ t[Owner] = tail
    BY <1>1, <1>4, PopSees
  <1>7. TypeOK'
    BY <1>1, <1>5 DEF TypeOK
  <1>8. OwnerKnows'
    BY <1>1, <1>3, <1>5, <1>6 DEF OwnerKnows, Pushing, Popping
  <1>9. Out' = Out
    <2>1. Carried(Owner) = {}
      BY <1>1 DEF Carried
    <2>2. g[Owner] = NoG
      BY <1>1 DEF OwnerKnows
    <2>3. Carried(Owner)' = {}
      BY <1>1, <1>3, <2>2 DEF Carried
    <2> QED
      BY <1>1, <1>3, <2>1, <2>3, OutIs, OutNext
  <1>10. Missed'
    BY <1>4, <1>5, <1>6 DEF Missed
  <1> QED
    BY <1>3, <1>5, <1>7, <1>8, <1>9, <1>10, Stutters DEF DequeInv
\* The newest of several members is the owner's.
LEMMA PopTakeKeeps ==
  ASSUME DequeInv, PopTake(Owner)
  PROVE  DequeInv' /\ Steps
  <1>1. TypeOK /\ Alone /\ OwnerKnows /\ Sound(Content, Out)
        /\ pc[Owner] = "pop_check" /\ Finish(Owner)
    BY DEF DequeInv, PopTake
  <1>2. /\ Alone' /\ pc'[Owner] = "idle" /\ g'[Owner] = NoG
        /\ \A m \in Thief : pc'[m] = pc[m] /\ h'[m] = h[m] /\ g'[m] = g[m]
        /\ t' \in [M -> 0 .. Width - 1] /\ h' \in [M -> 0 .. Width - 1]
        /\ g' \in [M -> G \cup {NoG}]
    BY <1>1, OwnerEnds
  <1>3. /\ UNCHANGED <<head, tail, buf, pushes>> /\ popped' = "hit"
        /\ parked' = parked \cup {buf[t[Owner] % Size]}
        /\ ~Negative(Sub(t[Owner], head)) /\ t[Owner] # head
    BY DEF PopTake
  <1>4. Popping /\ ~Pushing /\ ~Pushing'
    BY <1>1, <1>2 DEF Popping, Pushing
  <1>5. /\ t[Owner] = tail /\ Members # 0 /\ Members # 1 /\ Sub(tail, head) = Members - 1
    BY <1>3, <1>4, PopSees
  <1>6. Members \in 1 .. Size /\ head \in Index /\ tail \in Index
    BY <1>1, <1>5, MembersAre, Sizes
  <1>7. Members' = Members - 1
    BY <1>2, <1>3, <1>5 DEF Members, Tail_
  <1>8. Add(head, Members - 1) = tail
    BY <1>5, <1>6, AddSub
  <1> DEFINE x == buf[tail % Size]
  <1> HIDE DEF x
  <1>9. /\ Content # <<>> /\ Content' = SubSeq(Content, 1, Len(Content) - 1)
        /\ Content[Len(Content)] = x
    <2>1. \A k \in 1 .. Members : Run(buf, head, Members)[k] \in G
      BY <1>1, ContentIs
    <2>2. /\ Run(buf, head, Members) # <<>>
          /\ Run(buf, head, Members - 1)
               = SubSeq(Run(buf, head, Members), 1, Len(Run(buf, head, Members)) - 1)
          /\ Run(buf, head, Members)[Len(Run(buf, head, Members))] = x
      BY <1>6, <1>8, <2>1, RunFront DEF x
    <2>3. Content' = Run(buf, head, Members - 1)
      BY <1>3, <1>7 DEF Content, Run, Members
    <2> QED
      BY <1>1, <2>2, <2>3, MembersAre
  <1>10. x \in G
    <2>1. Len(Content) = Members /\ Content \in Seq(G)
      BY <1>1, ContentIs DEF Sound
    <2> QED
      BY <1>6, <1>9, <2>1, ElementOfSeq
  <1>11. Out' = Out \cup {x}
    <2>1. Carried(Owner) = {} /\ Carried(Owner)' = {}
      BY <1>1, <1>2 DEF Carried
    <2>2. parked' = parked \cup {x}
      BY <1>3, <1>5 DEF x
    <2> QED
      BY <1>1, <1>2, <2>1, <2>2, OutIs, OutNext
  <1>12. Steps
    <2>1. Deque!TakeNewest
      BY <1>9, <1>11 DEF Deque!TakeNewest, Out
    <2> QED
      BY <2>1 DEF Steps, Deque!Next
  <1>13. Sound(Content, Out)'
    <2>1. Sound(SubSeq(Content, 1, Len(Content) - 1), Out \cup {Content[Len(Content)]})
      BY <1>1, <1>9, TakeNewestSound
    <2> QED
      BY <1>9, <1>11, <2>1 DEF Sound
  <1>14. TypeOK'
    <2>1. (Sub(Tail_, head) <= Size)'
      BY <1>6, <1>7, Sizes DEF Members
    <2>2. parked' \subseteq G
      BY <1>1, <1>3, <1>5, <1>10 DEF TypeOK, x
    <2> QED
      BY <1>1, <1>2, <1>3, <2>1, <2>2 DEF TypeOK
  <1>15. OwnerKnows'
    BY <1>2 DEF OwnerKnows, Pushing, Popping
  <1>16. Claims'
    <2>1. Pending' = 0 /\ Pending = 0 /\ pushes \in Nat /\ pushes' \in Nat /\ Members \in Nat
      BY <1>1, <1>4, <1>6, <1>14 DEF Pending, TypeOK
    <2>2. Members' + Pending' + pushes <= Members + Pending + pushes' /\ Members' # 0
          /\ Members' \in Nat
      BY <1>3, <1>5, <1>6, <1>7, <2>1
    <2> QED
      BY <1>2, <1>3, <2>1, <2>2, ClaimsKept
  <1>17. Missed'
    BY <1>3 DEF Missed
  <1> QED
    BY <1>2, <1>12, <1>13, <1>14, <1>15, <1>16, <1>17 DEF DequeInv

LEMMA PopLastKeeps ==
  ASSUME DequeInv, PopLast(Owner)
  PROVE  DequeInv' /\ Steps
  <1>1. TypeOK /\ Alone /\ OwnerKnows /\ pc[Owner] = "pop_check"
        /\ UNCHANGED <<head, tail, buf, t, parked, popped, pushes>>
        /\ t[Owner] = head
        /\ h' = [h EXCEPT ![Owner] = head]
        /\ g' = [g EXCEPT ![Owner] = buf[t[Owner] % Size]]
    BY DEF DequeInv, PopLast, Go
  <1>2. "pop_cas" \in OwnerPc /\ pc' = [pc EXCEPT ![Owner] = "pop_cas"]
    BY DEF OwnerPc, PopLast, Go
  <1>3. Alone' /\ pc'[Owner] = "pop_cas" /\ \A m \in Thief : pc'[m] = pc[m]
    BY <1>2, OwnerGoes
  <1>4. ~Pushing /\ ~Pushing' /\ Tail_' = Tail_ /\ Popping
    BY <1>1, <1>3 DEF Pushing, Tail_, Popping
  <1>5. t[Owner] = tail /\ tail = head
    BY <1>1, <1>4, PopSees
  <1>6. buf[tail % Size] \in G \cup {NoG}
    BY <1>1, MembersAre, SlotIs DEF TypeOK
  <1>7. /\ h'[Owner] = tail /\ g'[Owner] = buf[tail % Size]
        /\ \A m \in Thief : h'[m] = h[m] /\ g'[m] = g[m]
    BY <1>1, <1>5, Ms DEF TypeOK
  <1>8. Claims' /\ Members' = Members /\ Content' = Content /\ (Sub(Tail_, head) <= Size)'
    BY <1>1, <1>3, <1>4, <1>7, PopStays
  <1>9. TypeOK'
    BY <1>1, <1>5, <1>6, <1>8 DEF TypeOK
  <1>10. OwnerKnows'
    BY <1>1, <1>3, <1>5, <1>7 DEF OwnerKnows, Pushing, Popping
  <1>11. Out' = Out
    <2>1. Carried(Owner) = {} /\ Carried(Owner)' = {}
      BY <1>1, <1>3 DEF Carried
    <2> QED
      BY <1>1, <1>3, <2>1, OutIs, OutNext
  <1>12. Missed'
    BY <1>1, <1>4, <1>8 DEF Missed, DequeInv
  <1> QED
    BY <1>3, <1>8, <1>9, <1>10, <1>11, <1>12, Stutters DEF DequeInv

\* The last member goes to the owner or has gone to a thief.
LEMMA PopCasWins ==
  ASSUME DequeInv, PopCas(Owner), head = h[Owner]
  PROVE  DequeInv' /\ Steps
  <1>1. TypeOK /\ Alone /\ OwnerKnows /\ Sound(Content, Out) /\ pc[Owner] = "pop_cas"
        /\ UNCHANGED <<tail, buf, t, h, g, parked, pushes>>
        /\ head' = Add(h[Owner], 1) /\ popped' = "hit"
    BY DEF DequeInv, PopCas, Go
  <1>2. "pop_restore" \in OwnerPc /\ pc' = [pc EXCEPT ![Owner] = "pop_restore"]
    BY DEF OwnerPc, PopCas, Go
  <1>3. Alone' /\ pc'[Owner] = "pop_restore" /\ \A m \in Thief : pc'[m] = pc[m]
    BY <1>2, OwnerGoes
  <1>4. ~Pushing /\ ~Pushing' /\ Tail_' = Tail_ /\ Popping
    BY <1>1, <1>3 DEF Pushing, Tail_, Popping
  <1>5. h[Owner] = tail /\ g[Owner] = buf[tail % Size]
    BY <1>1 DEF OwnerKnows
  <1>6. t[Owner] = tail /\ Tail_ = Add(tail, 1) /\ Members = 1
    BY <1>4, <1>5, PopSees
  <1>7. head \in Index /\ tail \in Index /\ Add(tail, 1) \in Index
    BY <1>1, MembersAre
  <1>8. Members' = 0
    <2>1. Members' = Sub(Add(tail, 1), Add(tail, 1))
      BY <1>1, <1>4, <1>5, <1>6 DEF Members
    <2> QED
      BY <1>7, <2>1, Forward
  <1> DEFINE x == g[Owner]
  <1>9. Content # <<>> /\ Content' = Tail(Content) /\ Head(Content) = x
    <2>1. \A k \in 1 .. Members : Run(buf, head, Members)[k] \in G
      BY <1>1, ContentIs
    <2>2. Members \in 1 .. Size /\ Members - 1 = 0
      BY <1>6, Sizes
    <2>3. /\ Run(buf, head, Members) # <<>>
          /\ Run(buf, Add(head, 1), Members - 1) = Tail(Run(buf, head, Members))
          /\ Head(Run(buf, head, Members)) = buf[head % Size]
      BY <1>7, <2>1, <2>2, RunTail
    <2>4. Content' = Run(buf, Add(head, 1), Members - 1)
      BY <1>1, <1>8, <2>2 DEF Content, Run, Members
    <2> QED
      BY <1>1, <1>5, <2>3, <2>4, MembersAre
  <1>10. x \in G
    BY <1>1, <1>9, HeadTailProperties DEF Sound
  <1> HIDE DEF x
  <1>11. Out' = Out \cup {x}
    <2>1. Carried(Owner) = {}
      BY <1>1 DEF Carried
    <2>2. Carried(Owner)' = {x}
      BY <1>1, <1>3, <1>10, Ms DEF Carried, x
    <2> QED
      BY <1>1, <1>3, <2>1, <2>2, OutIs, OutNext
  <1>12. Steps
    <2>1. Deque!TakeOldest
      BY <1>9, <1>11 DEF Deque!TakeOldest, Out
    <2> QED
      BY <2>1 DEF Steps, Deque!Next
  <1>13. Sound(Content, Out)'
    <2>1. Sound(Tail(Content), Out \cup {Head(Content)})
      BY <1>1, <1>9, TakeOldestSound
    <2> QED
      BY <1>9, <1>11, <2>1 DEF Sound
  <1>14. TypeOK'
    <2>1. (Sub(Tail_, head) <= Size)'
      BY <1>8, Sizes DEF Members
    <2>2. head' \in 0 .. Width - 1
      BY <1>1, <1>5, <1>7 DEF Index
    <2> QED
      BY <1>1, <2>1, <2>2 DEF TypeOK
  <1>15. OwnerKnows'
    BY <1>1, <1>3, <1>6, <1>8 DEF OwnerKnows, Pushing, Popping
  <1>16. Claims'
    <2>1. Pending' = Pending
      BY <1>4 DEF Pending
    <2>2. head' = Add(head, 1)
      BY <1>1
    <2>3. Members # 0 /\ Members' = Members - 1
      BY <1>6, <1>8
    <2>4. \A m \in Thief : pc'[m] = pc[m] /\ h'[m] = h[m] /\ g'[m] = g[m]
      BY <1>1, <1>3
    <2> QED
      BY <1>1, <2>1, <2>2, <2>3, <2>4, ClaimsMoved
  <1>17. Missed'
    BY <1>1 DEF Missed
  <1> QED
    BY <1>3, <1>12, <1>13, <1>14, <1>15, <1>16, <1>17 DEF DequeInv

LEMMA PopCasLoses ==
  ASSUME DequeInv, PopCas(Owner), head # h[Owner]
  PROVE  DequeInv' /\ Steps
  <1>1. TypeOK /\ Alone /\ OwnerKnows /\ pc[Owner] = "pop_cas"
        /\ UNCHANGED <<head, tail, buf, t, h, parked, pushes>> /\ popped' = "miss"
        /\ g' = [g EXCEPT ![Owner] = NoG]
    BY DEF DequeInv, PopCas, Go
  <1>2. "pop_restore" \in OwnerPc /\ pc' = [pc EXCEPT ![Owner] = "pop_restore"]
    BY DEF OwnerPc, PopCas, Go
  <1>3. Alone' /\ pc'[Owner] = "pop_restore" /\ \A m \in Thief : pc'[m] = pc[m]
    BY <1>2, OwnerGoes
  <1>4. ~Pushing /\ ~Pushing' /\ Tail_' = Tail_ /\ Popping
    BY <1>1, <1>3 DEF Pushing, Tail_, Popping
  <1>5. Members = 0 /\ t[Owner] = tail
    BY <1>1, <1>4 DEF OwnerKnows
  <1>6. g'[Owner] = NoG /\ \A m \in Thief : g'[m] = g[m]
    BY <1>1, Ms DEF TypeOK
  <1>7. Claims' /\ Members' = Members /\ Content' = Content /\ (Sub(Tail_, head) <= Size)'
    BY <1>1, <1>3, <1>4, <1>6, PopStays
  <1>8. TypeOK'
    BY <1>1, <1>7 DEF TypeOK
  <1>9. OwnerKnows'
    BY <1>1, <1>3, <1>5, <1>7 DEF OwnerKnows, Pushing, Popping
  <1>10. Out' = Out
    <2>1. Carried(Owner) = {}
      BY <1>1 DEF Carried
    <2>2. Carried(Owner)' = {}
      BY <1>6 DEF Carried
    <2> QED
      BY <1>1, <1>3, <2>1, <2>2, OutIs, OutNext
  <1>11. Missed'
    BY <1>4, <1>5, <1>7 DEF Missed
  <1> QED
    BY <1>3, <1>7, <1>8, <1>9, <1>10, <1>11, Stutters DEF DequeInv

LEMMA PopRestoreKeeps ==
  ASSUME DequeInv, PopRestore(Owner)
  PROVE  DequeInv' /\ Steps
  <1>1. TypeOK /\ Alone /\ OwnerKnows /\ pc[Owner] = "pop_restore" /\ Finish(Owner)
        /\ UNCHANGED <<head, buf, popped, pushes>> /\ tail' = Add(t[Owner], 1)
        /\ parked' = parked \cup ({g[Owner]} \ {NoG})
    BY DEF DequeInv, PopRestore
  <1>2. /\ Alone' /\ pc'[Owner] = "idle" /\ g'[Owner] = NoG
        /\ \A m \in Thief : pc'[m] = pc[m] /\ h'[m] = h[m] /\ g'[m] = g[m]
        /\ t' \in [M -> 0 .. Width - 1] /\ h' \in [M -> 0 .. Width - 1]
        /\ g' \in [M -> G \cup {NoG}]
    BY <1>1, OwnerEnds
  <1>3. ~Pushing /\ ~Pushing' /\ Popping
    BY <1>1, <1>2 DEF Pushing, Popping
  <1>4. t[Owner] = tail /\ Tail_ = Add(tail, 1) /\ Members = 0
    BY <1>1, <1>3, PopSees DEF OwnerKnows
  <1>5. Tail_' = Tail_
    BY <1>1, <1>2, <1>4 DEF Tail_
  <1>6. Claims' /\ Members' = Members /\ Content' = Content /\ (Sub(Tail_, head) <= Size)'
    BY <1>1, <1>2, <1>3, <1>5, PopStays
  <1>7. TypeOK'
    <2>1. tail' \in 0 .. Width - 1
      BY <1>1, <1>4, MembersAre DEF Index
    <2>2. parked' \subseteq G
      BY <1>1, Ms DEF TypeOK
    <2> QED
      BY <1>1, <1>2, <1>6, <2>1, <2>2 DEF TypeOK
  <1>8. OwnerKnows'
    BY <1>2 DEF OwnerKnows, Pushing, Popping
  <1>9. Out' = Out
    <2>1. Carried(Owner) = {g[Owner]} \ {NoG}
      BY <1>1 DEF Carried
    <2>2. Carried(Owner)' = {}
      BY <1>2 DEF Carried
    <2> QED
      BY <1>1, <1>2, <2>1, <2>2, OutIs, OutNext
  <1>10. Missed'
    BY <1>3, <1>4, <1>6 DEF Missed
  <1> QED
    BY <1>2, <1>6, <1>7, <1>8, <1>9, <1>10, Stutters DEF DequeInv
-----------------------------------------------------------------------------
(* A thief steals *)

LEMMA ThiefGoes ==
  ASSUME DequeInv, NEW m \in Thief, NEW s \in ThiefPc, pc' = [pc EXCEPT ![m] = s]
  PROVE  /\ Alone' /\ pc'[m] = s /\ pc'[Owner] = pc[Owner]
         /\ \A n \in Thief \ {m} : pc'[n] = pc[n]
  <1>1. Alone
    BY DEF DequeInv
  <1>2. /\ pc' \in [M -> OwnerPc \cup ThiefPc] /\ pc'[m] = s /\ pc'[Owner] = pc[Owner]
        /\ \A n \in Thief \ {m} : pc'[n] = pc[n]
    BY <1>1, Ms DEF Alone
  <1> QED
    BY <1>1, <1>2 DEF Alone

LEMMA ThiefEnds ==
  ASSUME DequeInv, NEW m \in Thief, Finish(m)
  PROVE  /\ Alone' /\ pc'[m] = "idle" /\ pc'[Owner] = pc[Owner]
         /\ \A n \in Thief \ {m} : pc'[n] = pc[n] /\ h'[n] = h[n] /\ g'[n] = g[n]
         /\ t'[Owner] = t[Owner] /\ h'[Owner] = h[Owner] /\ g'[Owner] = g[Owner]
         /\ t' \in [M -> 0 .. Width - 1] /\ h' \in [M -> 0 .. Width - 1]
         /\ g' \in [M -> G \cup {NoG}]
  <1>1. "idle" \in ThiefPc /\ pc' = [pc EXCEPT ![m] = "idle"]
    BY DEF ThiefPc, Finish
  <1>2. /\ Alone' /\ pc'[m] = "idle" /\ pc'[Owner] = pc[Owner]
        /\ \A n \in Thief \ {m} : pc'[n] = pc[n]
    BY <1>1, ThiefGoes
  <1>3. 0 \in 0 .. Width - 1
    BY Sizes
  <1>4. TypeOK /\ Alone
    BY DEF DequeInv
  <1> QED
    BY <1>2, <1>3, <1>4, Ms DEF Finish, TypeOK

\* A step of a thief that takes nothing changes nothing but what that thief knows.
LEMMA ThiefStays ==
  ASSUME DequeInv, NEW m \in Thief, Alone', UNCHANGED <<head, tail, buf, parked, popped, pushes>>,
         pc'[Owner] = pc[Owner], t'[Owner] = t[Owner], h'[Owner] = h[Owner], g'[Owner] = g[Owner],
         t' \in [M -> 0 .. Width - 1], h' \in [M -> 0 .. Width - 1], g' \in [M -> G \cup {NoG}],
         \A n \in Thief \ {m} : pc'[n] = pc[n] /\ h'[n] = h[n] /\ g'[n] = g[n],
         Members' = Members /\ Pending' = Pending => ThiefKnows(m)'
  PROVE  DequeInv' /\ Steps
  <1>1. TypeOK /\ Alone /\ OwnerKnows /\ Claims /\ Missed
    BY DEF DequeInv
  <1>2. Tail_' = Tail_ /\ (Pushing' <=> Pushing) /\ (Popping' <=> Popping)
    BY DEF Tail_, Pushing, Popping
  <1>3. Members' = Members /\ Content' = Content /\ Pending' = Pending /\ Members \in 0 .. Size
    BY <1>1, <1>2, Unmoved, MembersAre DEF Pending
  <1>4. TypeOK'
    <2>1. (Sub(Tail_, head) <= Size)'
      BY <1>3, Sizes DEF Members
    <2> QED
      BY <1>1, <2>1 DEF TypeOK
  <1>5. OwnerKnows'
    BY <1>1, <1>2, <1>3 DEF OwnerKnows
  <1>6. Claims'
    <2>1. ASSUME NEW n \in Thief \ {m} PROVE ThiefKnows(n)'
      <3>1. ThiefKnows(n) /\ pc'[n] = pc[n] /\ h'[n] = h[n] /\ g'[n] = g[n]
        BY <1>1 DEF Claims
      <3> QED
        BY <1>3, <3>1 DEF ThiefKnows
    <2>2. ThiefKnows(m)'
      BY <1>3
    <2>3. Members' + Pending' <= pushes'
      BY <1>1, <1>3 DEF Claims
    <2> QED
      BY <2>1, <2>2, <2>3 DEF Claims
  <1>7. Out' = Out
    <2>1. Carried(Owner)' = Carried(Owner)
      BY DEF Carried
    <2> QED
      BY <1>1, <2>1, OutIs, OutNext
  <1>8. Missed'
    BY <1>1, <1>2, <1>3 DEF Missed
  <1> QED
    BY <1>3, <1>4, <1>5, <1>6, <1>7, <1>8, Stutters DEF DequeInv

\* A steal that ends with nothing.
LEMMA ThiefGivesUp ==
  ASSUME DequeInv, NEW m \in Thief, Finish(m), UNCHANGED <<head, tail, buf, parked, popped, pushes>>
  PROVE  DequeInv' /\ Steps
  <1>1. /\ Alone' /\ pc'[m] = "idle" /\ pc'[Owner] = pc[Owner]
        /\ \A n \in Thief \ {m} : pc'[n] = pc[n] /\ h'[n] = h[n] /\ g'[n] = g[n]
        /\ t'[Owner] = t[Owner] /\ h'[Owner] = h[Owner] /\ g'[Owner] = g[Owner]
        /\ t' \in [M -> 0 .. Width - 1] /\ h' \in [M -> 0 .. Width - 1]
        /\ g' \in [M -> G \cup {NoG}]
    BY ThiefEnds
  <1>2. ThiefKnows(m)'
    BY <1>1 DEF ThiefKnows
  <1> QED
    BY <1>1, <1>2, ThiefStays

LEMMA StealHeadKeeps ==
  ASSUME DequeInv, NEW m \in Thief, StealHead(m)
  PROVE  DequeInv' /\ Steps
  <1>1. TypeOK /\ Alone /\ Claims
        /\ UNCHANGED <<head, tail, buf, t, g, parked, popped, pushes>>
        /\ h' = [h EXCEPT ![m] = head]
    BY DEF DequeInv, StealHead
  <1>2. "steal_tail" \in ThiefPc /\ pc' = [pc EXCEPT ![m] = "steal_tail"]
    BY DEF ThiefPc, StealHead, Go
  <1>3. /\ Alone' /\ pc'[m] = "steal_tail" /\ pc'[Owner] = pc[Owner]
        /\ \A n \in Thief \ {m} : pc'[n] = pc[n]
    BY <1>2, ThiefGoes
  <1>4. /\ h'[m] = head /\ h'[Owner] = h[Owner] /\ \A n \in Thief \ {m} : h'[n] = h[n]
        /\ h' \in [M -> 0 .. Width - 1]
    BY <1>1, Ms DEF TypeOK
  <1>5. ASSUME Members' = Members, Pending' = Pending PROVE ThiefKnows(m)'
    <2>1. Members \in Nat /\ Pending \in Nat /\ Members + Pending <= pushes
      BY <1>1, MembersAre DEF Claims, Pending
    <2>2. Sub(head', h'[m]) = 0
      <3>1. head \in Index
        BY <1>1, MembersAre
      <3>2. Sub(head, head) = 0
        BY <3>1, Forward
      <3> QED
        BY <1>1, <1>4, <3>2
    <2>3. Sub(head', h'[m]) + Members' + Pending' <= pushes'
      BY <1>1, <1>5, <2>1, <2>2
    <2> QED
      BY <1>3, <2>3 DEF ThiefKnows
  <1>6. t' \in [M -> 0 .. Width - 1] /\ g' \in [M -> G \cup {NoG}]
    BY <1>1 DEF TypeOK
  <1> QED
    BY <1>1, <1>3, <1>4, <1>5, <1>6, ThiefStays

\* A thief that has seen the head and then a tail beyond it has seen a member.
LEMMA StealTailKeeps ==
  ASSUME DequeInv, NEW m \in Thief, StealTail(m)
  PROVE  DequeInv' /\ Steps
  <1>1. TypeOK /\ Alone /\ Claims /\ pc[m] = "steal_tail"
        /\ UNCHANGED <<head, tail, buf, t, h, g, parked, popped, pushes>>
        /\ ~NoneToSteal(m)
    BY DEF DequeInv, StealTail, Go
  <1>2. "steal_read" \in ThiefPc /\ pc' = [pc EXCEPT ![m] = "steal_read"]
    BY DEF ThiefPc, StealTail, Go
  <1>3. /\ Alone' /\ pc'[m] = "steal_read" /\ pc'[Owner] = pc[Owner]
        /\ \A n \in Thief \ {m} : pc'[n] = pc[n]
    BY <1>2, ThiefGoes
  <1>4. h[m] = head => Members # 0
    <2>1. CASE Popping
      BY <1>1, <2>1, PopSees DEF NoneToSteal
    <2>2. CASE ~Popping
      <3>1. Members = Sub(tail, head)
        BY <2>2 DEF Members, Tail_, Popping
      <3> QED
        BY <1>1, <3>1 DEF NoneToSteal
    <2> QED
      BY <2>1, <2>2
  <1>5. ASSUME Members' = Members, Pending' = Pending PROVE ThiefKnows(m)'
    <2>1. Sub(head, h[m]) + Members + Pending <= pushes
      BY <1>1 DEF Claims, ThiefKnows
    <2> QED
      BY <1>1, <1>3, <1>4, <1>5, <2>1 DEF ThiefKnows
  <1>6. /\ t' \in [M -> 0 .. Width - 1] /\ h' \in [M -> 0 .. Width - 1]
        /\ g' \in [M -> G \cup {NoG}]
    BY <1>1 DEF TypeOK
  <1> QED
    BY <1>1, <1>3, <1>5, <1>6, ThiefStays

LEMMA StealReadKeeps ==
  ASSUME DequeInv, NEW m \in Thief, StealRead(m)
  PROVE  DequeInv' /\ Steps
  <1>1. TypeOK /\ Alone /\ Claims /\ pc[m] = "steal_read"
        /\ UNCHANGED <<head, tail, buf, t, h, parked, popped, pushes>>
        /\ g' = [g EXCEPT ![m] = buf[h[m] % Size]]
    BY DEF DequeInv, StealRead, Go
  <1>2. "steal_cas" \in ThiefPc /\ pc' = [pc EXCEPT ![m] = "steal_cas"]
    BY DEF ThiefPc, StealRead, Go
  <1>3. /\ Alone' /\ pc'[m] = "steal_cas" /\ pc'[Owner] = pc[Owner]
        /\ \A n \in Thief \ {m} : pc'[n] = pc[n]
    BY <1>2, ThiefGoes
  <1>4. buf[h[m] % Size] \in G \cup {NoG}
    <2>1. h[m] \in Index
      BY <1>1, Ms DEF TypeOK, Index
    <2> QED
      BY <1>1, <2>1, SlotIs DEF TypeOK
  <1>5. /\ g'[m] = buf[h[m] % Size] /\ g'[Owner] = g[Owner]
        /\ \A n \in Thief \ {m} : g'[n] = g[n]
        /\ g' \in [M -> G \cup {NoG}]
    BY <1>1, <1>4, Ms DEF TypeOK
  <1>6. ASSUME Members' = Members, Pending' = Pending PROVE ThiefKnows(m)'
    <2>1. /\ Sub(head, h[m]) + Members + Pending <= pushes
          /\ h[m] = head => Members # 0
      BY <1>1 DEF Claims, ThiefKnows
    <2> QED
      BY <1>1, <1>3, <1>5, <1>6, <2>1 DEF ThiefKnows
  <1>7. t' \in [M -> 0 .. Width - 1] /\ h' \in [M -> 0 .. Width - 1]
    BY <1>1 DEF TypeOK
  <1> QED
    BY <1>1, <1>3, <1>5, <1>6, <1>7, ThiefStays

\* The compare succeeds only for the thief that holds the oldest member.
LEMMA StealWinKeeps ==
  ASSUME DequeInv, NEW m \in Thief, StealWin(m)
  PROVE  DequeInv' /\ Steps
  <1>1. TypeOK /\ Alone /\ OwnerKnows /\ Claims /\ Sound(Content, Out) /\ Missed
        /\ pc[m] = "steal_cas" /\ Finish(m)
        /\ UNCHANGED <<tail, buf, popped, pushes>>
        /\ head = h[m] /\ head' = Add(h[m], 1) /\ parked' = parked \cup {g[m]}
    BY DEF DequeInv, StealWin
  <1>2. /\ Alone' /\ pc'[m] = "idle" /\ pc'[Owner] = pc[Owner]
        /\ \A n \in Thief \ {m} : pc'[n] = pc[n] /\ h'[n] = h[n] /\ g'[n] = g[n]
        /\ t'[Owner] = t[Owner] /\ h'[Owner] = h[Owner] /\ g'[Owner] = g[Owner]
        /\ t' \in [M -> 0 .. Width - 1] /\ h' \in [M -> 0 .. Width - 1]
        /\ g' \in [M -> G \cup {NoG}]
    BY <1>1, ThiefEnds
  <1> DEFINE x == g[m]
  <1>3. Members # 0 /\ x = buf[head % Size]
    BY <1>1 DEF Claims, ThiefKnows
  <1> HIDE DEF x
  <1>4. Tail_' = Tail_ /\ Tail_ \in Index /\ head \in Index /\ Add(head, 1) \in Index
        /\ Members \in 1 .. Size
    <2>1. Tail_' = Tail_
      BY <1>1, <1>2 DEF Tail_
    <2>2. Members \in 0 .. Size /\ head \in Index /\ Tail_ \in Index
      BY <1>1, MembersAre
    <2> QED
      BY <1>3, <2>1, <2>2, Forward, Sizes
  <1>5. Members' = Members - 1
    <2>1. Members = Sub(Tail_, head) /\ Members' = Sub(Tail_, Add(head, 1))
      BY <1>1, <1>4 DEF Members
    <2> QED
      BY <1>4, <2>1, Forward
  <1>6. Content # <<>> /\ Content' = Tail(Content) /\ Head(Content) = x
    <2>1. \A k \in 1 .. Members : Run(buf, head, Members)[k] \in G
      BY <1>1, ContentIs
    <2>2. /\ Run(buf, head, Members) # <<>>
          /\ Run(buf, Add(head, 1), Members - 1) = Tail(Run(buf, head, Members))
          /\ Head(Run(buf, head, Members)) = buf[head % Size]
      BY <1>4, <2>1, RunTail
    <2>3. Content' = Run(buf, Add(head, 1), Members - 1)
      BY <1>1, <1>5 DEF Content, Run, Members
    <2> QED
      BY <1>1, <1>3, <2>2, <2>3, MembersAre
  <1>7. x \in G
    BY <1>1, <1>6, HeadTailProperties DEF Sound
  <1>8. x \notin Out
    <2>1. Len(Content) = Members /\ 1 \in 1 .. Members
      BY <1>1, <1>4, ContentIs
    <2>2. Content[1] = x
      BY <1>1, <1>6 DEF Sound
    <2> QED
      BY <1>1, <2>1, <2>2 DEF Sound
  <1>9. Out' = Out \cup {x}
    <2>1. Carried(Owner)' = Carried(Owner)
      BY <1>2 DEF Carried
    <2>2. parked' = parked \cup {x}
      BY <1>1 DEF x
    <2> QED
      BY <1>1, <1>2, <2>1, <2>2, OutIs, OutNext
  <1>10. Steps
    <2>1. Deque!TakeOldest
      BY <1>6, <1>9 DEF Deque!TakeOldest, Out
    <2> QED
      BY <2>1 DEF Steps, Deque!Next
  <1>11. Sound(Content, Out)'
    <2>1. Sound(Tail(Content), Out \cup {Head(Content)})
      BY <1>1, <1>6, TakeOldestSound
    <2> QED
      BY <1>6, <1>9, <2>1 DEF Sound
  <1>12. TypeOK'
    <2>1. (Sub(Tail_, head) <= Size)'
      BY <1>4, <1>5, Sizes DEF Members
    <2>2. head' \in 0 .. Width - 1
      BY <1>1, <1>4 DEF Index
    <2>3. parked' \subseteq G
      BY <1>1, <1>7 DEF TypeOK, x
    <2> QED
      BY <1>1, <1>2, <2>1, <2>2, <2>3 DEF TypeOK
  <1>13. (Pushing' <=> Pushing) /\ (Popping' <=> Popping) /\ Pending' = Pending
    BY <1>2 DEF Pushing, Popping, Pending
  <1>14. OwnerKnows'
    <2>1. Pushing => g[Owner] # x
      <3>1. ASSUME Pushing PROVE g[Owner] \in Carried(Owner)
        BY <1>1, <3>1, Ms DEF OwnerKnows, Carried, Pushing
      <3>2. Carried(Owner) \subseteq Out
        BY <1>1, OutIs
      <3> QED
        BY <1>8, <3>1, <3>2
    <2>2. Pushing' => t'[Owner] = tail' /\ g'[Owner] \in G \ parked'
      BY <1>1, <1>2, <1>13, <2>1 DEF OwnerKnows, x
    <2>3. pc[Owner] \in {"push_write", "push_publish"} => Members' < Size
      BY <1>4, <1>5, Sizes
    <2>4. pc[Owner] = "pop_cas" => Members' = 0
      <3>1. ASSUME pc[Owner] = "pop_cas" PROVE Members = 1
        <4>1. Popping /\ head = tail
          BY <1>1, <1>3, <3>1 DEF Popping, OwnerKnows
        <4> QED
          BY <4>1, PopSees
      <3> QED
        BY <1>5, <3>1
    <2>5. pc[Owner] # "pop_restore"
      BY <1>1, <1>3 DEF OwnerKnows
    <2> QED
      BY <1>1, <1>2, <1>13, <2>2, <2>3, <2>4, <2>5 DEF OwnerKnows
  <1>15. Claims'
    BY <1>1, <1>2, <1>3, <1>5, <1>13, ClaimsMoved
  <1>16. Missed'
    BY <1>1, <1>2, <1>3, <1>13 DEF Missed
  <1> QED
    BY <1>2, <1>10, <1>11, <1>12, <1>14, <1>15, <1>16 DEF DequeInv

-----------------------------------------------------------------------------
(* The theorems *)

LEMMA DequeInvInit ==
  ASSUME Foreign = {}, Init
  PROVE  DequeInv /\ Deque!Init
  <1>1. /\ head \in 0 .. Width - 1 /\ tail = head /\ head \in Index
        /\ \A m \in M : pc[m] = "idle"
        /\ parked = G /\ pushes = 0 /\ popped = "none"
    BY LocalQueueAssumption DEF Init, Index
  <1>2. Owner \in M /\ Thief \subseteq M /\ M = {Owner} \cup Thief
    BY DEF M, Pusher
  <1>3. Alone
    <2>1. "idle" \in OwnerPc /\ "idle" \in ThiefPc
      BY DEF OwnerPc, ThiefPc
    <2> QED
      BY <1>1, <1>2, <2>1 DEF Alone, Init
  <1>4. Tail_ = head /\ Members = 0 /\ Pending = 0 /\ ~Pushing /\ ~Popping
    <2>1. Tail_ = head /\ Pending = 0 /\ ~Pushing /\ ~Popping
      BY <1>1, <1>2 DEF Tail_, Pending, Pushing, Popping
    <2>2. Sub(head, head) = 0
      BY <1>1, Forward
    <2> QED
      BY <2>1, <2>2 DEF Members
  <1>5. TypeOK
    <2>1. Sub(Tail_, head) <= Size /\ 0 \in 0 .. MaxPush /\ 0 \in 0 .. Width - 1
      BY <1>4, Sizes, LocalQueueAssumption DEF Members
    <2> QED
      BY <1>1, <2>1 DEF TypeOK, Init
  <1>6. OwnerKnows /\ Claims /\ Missed
    <2>1. \A m \in Thief : ThiefKnows(m)
      BY <1>1, <1>2 DEF ThiefKnows
    <2>2. g[Owner] = NoG
      BY <1>2 DEF Init
    <2> QED
      BY <1>1, <1>2, <1>4, <2>1, <2>2 DEF OwnerKnows, Claims, Missed
  <1>7. Content = <<>>
    BY <1>4 DEF Content, Members
  <1>8. Out = G
    <2>1. Carried(Owner) = {}
      BY <1>1, <1>2 DEF Carried
    <2> QED
      BY <1>1, <1>3, <2>1, OutIs
  <1>9. Sound(Content, Out)
    <2>1. Content \in Seq(G) /\ Len(Content) = 0
      BY <1>7, EmptySeq
    <2> QED
      BY <1>8, <2>1 DEF Sound
  <1>10. Deque!Init
    BY <1>7, <1>8 DEF Deque!Init, Out
  <1> QED
    BY <1>3, <1>5, <1>6, <1>9, <1>10 DEF DequeInv

LEMMA DequeInvNext ==
  ASSUME DequeInv, [Next]_vars
  PROVE  DequeInv' /\ Steps
  <1>1. Pusher = {Owner}
    BY DEF DequeInv, Alone, Pusher
  <1>2. CASE Push(Owner)
    BY <1>2, PushLoadKeeps, PushFullKeeps, PushCheckKeeps, PushWriteKeeps, PushPublishKeeps
       DEF Push
  <1>3. CASE Pop(Owner)
    BY <1>3, PopZeroKeeps, PopLoadKeeps, PopReserveKeeps, PopEmptyKeeps, PopTakeKeeps,
       PopLastKeeps, PopCasWins, PopCasLoses, PopRestoreKeeps
       DEF Pop
  <1>4. ASSUME NEW m \in Thief, Steal(m) PROVE DequeInv' /\ Steps
    <2>1. CASE StealHead(m)
      BY <2>1, StealHeadKeeps
    <2>2. CASE StealNone(m)
      BY <2>2, ThiefGivesUp DEF StealNone
    <2>3. CASE StealTail(m)
      BY <2>3, StealTailKeeps
    <2>4. CASE StealRead(m)
      BY <2>4, StealReadKeeps
    <2>5. CASE StealWin(m)
      BY <2>5, StealWinKeeps
    <2>6. CASE StealLose(m)
      BY <2>6, ThiefGivesUp DEF StealLose
    <2> QED
      BY <1>4, <2>1, <2>2, <2>3, <2>4, <2>5, <2>6 DEF Steal
  <1>5. CASE UNCHANGED vars
    <2>1. UNCHANGED <<head, tail, buf, pc, t, h, g, parked, popped, pushes>>
      BY <1>5 DEF vars
    <2>2. Members' = Members /\ Content' = Content /\ Out' = Out
          /\ (Pushing' <=> Pushing) /\ (Popping' <=> Popping) /\ Pending' = Pending
      BY <2>1 DEF Members, Content, Out, Carried, Tail_, Pushing, Popping, Pending
    <2>3. TypeOK' /\ Alone'
      BY <2>1 DEF DequeInv, TypeOK, Alone, Tail_
    <2>4. OwnerKnows' /\ Missed'
      BY <2>1, <2>2 DEF DequeInv, OwnerKnows, Missed
    <2>5. Claims'
      BY <2>1, <2>2 DEF DequeInv, Claims, ThiefKnows
    <2> QED
      BY <2>2, <2>3, <2>4, <2>5, Stutters DEF DequeInv
  <1> QED
    BY <1>1, <1>2, <1>3, <1>4, <1>5 DEF Next

\* From Init and by induction over the steps.
LEMMA DequeInvariant ==
  ASSUME Foreign = {} PROVE Spec => []DequeInv
  <1>1. Init => DequeInv
    BY DequeInvInit
  <1>2. DequeInv /\ [Next]_vars => DequeInv'
    BY DequeInvNext
  <1> QED
    BY <1>1, <1>2, PTL DEF Spec

\* While only the owner pushes, the queue's fields and every M's locals keep their
\* types, and head and tail are never further apart than the buffer has slots.
THEOREM DequeTypeCorrect ==
  ASSUME Foreign = {} PROVE Spec => []TypeOK
  <1>1. DequeInv => TypeOK
    BY DEF DequeInv
  <1> QED
    BY <1>1, DequeInvariant, PTL

\* DequeInv says where each green thread is; the counts follow.
LEMMA QueuedOnce ==
  ASSUME DequeInv
  PROVE  RunnableIsQueued
  <1>1. TypeOK /\ Alone /\ Sound(Content, Out)
    BY DEF DequeInv
  <1> DEFINE D == DOMAIN Content
  <1>2. D = 1 .. Len(Content)
    BY <1>1, LenProperties DEF Sound
  <1>3. /\ \A k \in D : Content[k] \notin Out
        /\ \A k, n \in D : Content[k] = Content[n] => k = n
        /\ \A x \in G \ Out : \E k \in D : Content[k] = x
    BY <1>1, <1>2 DEF Sound
  <1>4. /\ \A m \in Thief : Carried(m) = {}
        /\ Out = parked \cup Carried(Owner) /\ M = {Owner} \cup Thief
    BY <1>1, OutIs, Ms DEF Alone, ThiefPc, Carried
  <1> HIDE DEF D
  <1>5. ASSUME NEW x \in G \ parked
        PROVE  Cardinality({k \in D : Content[k] = x})
                 + Cardinality({m \in M : x \in Carried(m)}) = 1
    <2> DEFINE Q == {k \in D : Content[k] = x}
               C == {m \in M : x \in Carried(m)}
    <2>1. CASE x \in Carried(Owner)
      <3>1. Q = {} /\ C = {Owner}
        BY <1>3, <1>4, <2>1
      <3> HIDE DEF Q, C
      <3>2. Cardinality(Q) = 0 /\ Cardinality(C) = 1
        BY <3>1, FS_EmptySet, FS_Singleton
      <3>3. Cardinality(Q) + Cardinality(C) = 1
        BY <3>2
      <3> QED
        BY <3>3 DEF Q, C
    <2>2. CASE x \notin Carried(Owner)
      <3>1. PICK k \in D : Content[k] = x
        BY <1>3, <1>4, <2>2
      <3>2. Q = {k} /\ C = {}
        BY <1>3, <1>4, <2>2, <3>1
      <3> HIDE DEF Q, C
      <3>3. Cardinality(Q) = 1 /\ Cardinality(C) = 0
        BY <3>2, FS_EmptySet, FS_Singleton
      <3>4. Cardinality(Q) + Cardinality(C) = 1
        BY <3>3
      <3> QED
        BY <3>4 DEF Q, C
    <2> QED
      BY <2>1, <2>2
  <1>6. \A x \in parked : \A k \in D : Content[k] # x
    BY <1>3, <1>4
  <1> QED
    BY <1>5, <1>6 DEF RunnableIsQueued, D

\* While only the owner pushes, each green thread that was made runnable is in the
\* queue once or in the hands of one call of run_local_queue_push or _pop, whatever
\* the number of thieves and however their loads and compares interleave.
THEOREM QueuedOnceAlways ==
  ASSUME Foreign = {} PROVE Spec => []RunnableIsQueued
  BY DequeInvariant, QueuedOnce, PTL

\* While only the owner pushes, run_local_queue_pop returns NULL only when the queue
\* is empty or its tail stands at index 0.
THEOREM PopMissJustifiedAlways ==
  ASSUME Foreign = {} PROVE Spec => []PopMissJustified
  <1>1. DequeInv => PopMissJustified
    <2>1. ASSUME DequeInv, Members = 0 PROVE Content = <<>>
      BY <2>1 DEF Content, Members
    <2> QED
      BY <2>1 DEF DequeInv, Missed, PopMissJustified
  <1> QED
    BY <1>1, DequeInvariant, PTL

\* While only the owner pushes, the queue implements a deque with atomic operations: a
\* push takes effect where it publishes the tail, a pop of one of several members at
\* its comparison with the head, and a pop of the last member or a steal where its
\* compare-and-swap moves the head.
THEOREM DequeImplemented ==
  ASSUME Foreign = {} PROVE Spec => ImplementsDeque
  <1>1. Init => Deque!Init
    BY DequeInvInit
  <1>2. DequeInv /\ [Next]_vars => [Deque!Next]_(Deque!vars)
    BY DequeInvNext DEF Steps
  <1> QED
    BY <1>1, <1>2, DequeInvariant, PTL DEF Spec, ImplementsDeque, Deque!Spec

=============================================================================
