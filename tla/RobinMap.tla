-------------------------------- MODULE RobinMap --------------------------------
(***************************************************************************)
(* The hash map of run_map.c: open addressing with Robin Hood hashing.  An *)
(* insertion takes the place of an entry that is nearer to its home bucket *)
(* and goes on with that entry; a lookup stops at an entry that is nearer  *)
(* to its home than the key it looks for would be; a deletion moves the    *)
(* entries behind the gap back by one; a table that is three quarters full *)
(* is inserted, entry by entry, into one of twice the size.                *)
(*                                                                         *)
(* One step is one pass of a probe loop.  An entry is its key and value;   *)
(* the hash cached in a bucket is Hash of its key, and equal keys have     *)
(* equal hashes, so the two tests of a probe are one.                      *)
(***************************************************************************)
EXTENDS Integers, FiniteSets

CONSTANTS Key, Val, NULL,
          Hash,        \* run_map_hash
          InitialCap   \* RUN_MAP_INITIAL_CAP

ASSUME MapAssumption ==
  /\ NULL \notin Val /\ NULL \notin Key
  /\ Hash \in [Key -> Nat]
  /\ InitialCap \in Nat /\ InitialCap >= 4

VARIABLES
  capacity, bucket, count,
  old_cap, old, i,      \* run_map_resize: the table it empties, and where it is
  mpc,                  \* the loop the map is in
  key, val,             \* arguments of the call
  idx, psl,             \* where a lookup or deletion is
  insert_data,          \* insert_data and insert_psl of the insertion
  answer                \* what the last lookup or deletion returned

table == <<capacity, bucket, count>>
resize == <<old_cap, old, i>>
mapVars == <<table, resize, mpc, key, val, idx, psl, insert_data, answer>>

Slot == 0 .. capacity - 1
NoEntry == [key |-> NULL, val |-> NULL, psl |-> 0]
Occupied(j) == bucket[j].key # NULL

Home(k) == Hash[k] % capacity
After(j) == IF j + 1 = capacity THEN 0 ELSE j + 1

MapInit ==
  /\ capacity = InitialCap /\ bucket = [j \in 0 .. InitialCap - 1 |-> NoEntry] /\ count = 0
  /\ old_cap = 0 /\ old = [j \in {} |-> NoEntry] /\ i = 0
  /\ mpc = "idle" /\ key = NULL /\ val = NULL /\ idx = 0 /\ psl = 0
  /\ insert_data = NoEntry
  /\ answer = [key |-> NULL, result |-> NULL]

-----------------------------------------------------------------------------
(* run_map_set and run_map_resize *)

Overloaded == count * 100 >= capacity * 75

\* The search for a place for an entry begins at its home bucket.
Insert(k, v) ==
  /\ mpc' = "set" /\ idx' = Home(k)
  /\ insert_data' = [key |-> k, val |-> v, psl |-> 0]

\* Mutant: a table grows only once it is full.
SetFull(k, v) ==
  /\ mpc = "idle" /\ key' = k /\ val' = v
  /\ IF count >= capacity
     THEN /\ capacity' = capacity * 2
          /\ bucket' = [j \in 0 .. capacity * 2 - 1 |-> NoEntry]
          /\ count' = 0
          /\ old_cap' = capacity /\ old' = bucket /\ i' = 0
          /\ mpc' = "rehash"
          /\ UNCHANGED <<idx, insert_data>>
     ELSE Insert(k, v) /\ UNCHANGED <<table, resize>>
  /\ UNCHANGED <<psl, answer>>

\* The load is tested before the key is looked for.
Set(k, v) ==
  /\ mpc = "idle" /\ key' = k /\ val' = v
  /\ IF Overloaded
     THEN /\ capacity' = capacity * 2
          /\ bucket' = [j \in 0 .. capacity * 2 - 1 |-> NoEntry]
          /\ count' = 0
          /\ old_cap' = capacity /\ old' = bucket /\ i' = 0
          /\ mpc' = "rehash"
          /\ UNCHANGED <<idx, insert_data>>
     ELSE Insert(k, v) /\ UNCHANGED <<table, resize>>
  /\ UNCHANGED <<psl, answer>>

\* Mutant: the old table's last bucket is left out.
RehashShort ==
  /\ mpc = "rehash"
  /\ IF i < old_cap - 1
     THEN /\ i' = i + 1
          /\ IF old[i].key = NULL THEN UNCHANGED <<mpc, idx, insert_data>>
             ELSE IF Overloaded THEN mpc' = "nested" /\ UNCHANGED <<idx, insert_data>>
             ELSE Insert(old[i].key, old[i].val)
          /\ UNCHANGED <<old_cap, old>>
     ELSE /\ old_cap' = 0 /\ old' = [j \in {} |-> NoEntry] /\ i' = 0
          /\ Insert(key, val)
  /\ UNCHANGED <<table, key, val, psl, answer>>

\* Mutant: an empty bucket is not passed.
RehashStuck ==
  /\ mpc = "rehash"
  /\ IF i < old_cap
     THEN /\ i' = IF old[i].key = NULL THEN i ELSE i + 1
          /\ IF old[i].key = NULL THEN UNCHANGED <<mpc, idx, insert_data>>
             ELSE IF Overloaded THEN mpc' = "nested" /\ UNCHANGED <<idx, insert_data>>
             ELSE Insert(old[i].key, old[i].val)
          /\ UNCHANGED <<old_cap, old>>
     ELSE /\ old_cap' = 0 /\ old' = [j \in {} |-> NoEntry] /\ i' = 0
          /\ Insert(key, val)
  /\ UNCHANGED <<table, key, val, psl, answer>>

\* Each old entry goes through run_map_set, with its test of the load; then the
\* insertion that made the table grow goes on.
Rehash ==
  /\ mpc = "rehash"
  /\ IF i < old_cap
     THEN /\ i' = i + 1
          /\ IF old[i].key = NULL THEN UNCHANGED <<mpc, idx, insert_data>>
             ELSE IF Overloaded THEN mpc' = "nested" /\ UNCHANGED <<idx, insert_data>>
             ELSE Insert(old[i].key, old[i].val)
          /\ UNCHANGED <<old_cap, old>>
     ELSE /\ old_cap' = 0 /\ old' = [j \in {} |-> NoEntry] /\ i' = 0
          /\ Insert(key, val)
  /\ UNCHANGED <<table, key, val, psl, answer>>

\* A call's variables go with it.
Return ==
  /\ mpc' = "idle" /\ key' = NULL /\ val' = NULL
  /\ idx' = 0 /\ psl' = 0 /\ insert_data' = NoEntry

SetReturn ==
  IF old_cap = 0 THEN Return
  ELSE mpc' = "rehash" /\ idx' = 0 /\ insert_data' = NoEntry /\ UNCHANGED <<key, val, psl>>

\* An empty bucket takes the entry.
SetEmpty ==
  /\ mpc = "set" /\ ~Occupied(idx)
  /\ bucket' = [bucket EXCEPT ![idx] = insert_data]
  /\ count' = count + 1
  /\ SetReturn
  /\ UNCHANGED <<capacity, resize, answer>>

\* The key is there: its value is overwritten.
SetUpdate ==
  /\ mpc = "set" /\ Occupied(idx) /\ bucket[idx].key = insert_data.key
  /\ bucket' = [bucket EXCEPT ![idx].val = insert_data.val]
  /\ SetReturn
  /\ UNCHANGED <<capacity, count, resize, answer>>

\* Mutant: the entry that was displaced goes on with the other's distance.
SetNextSamePsl ==
  /\ mpc = "set" /\ Occupied(idx) /\ bucket[idx].key # insert_data.key
  /\ IF bucket[idx].psl < insert_data.psl
     THEN /\ bucket' = [bucket EXCEPT ![idx] = insert_data]
          /\ insert_data' = [bucket[idx] EXCEPT !.psl = insert_data.psl + 1]
     ELSE insert_data' = [insert_data EXCEPT !.psl = @ + 1] /\ UNCHANGED bucket
  /\ idx' = After(idx)
  /\ UNCHANGED <<capacity, count, resize, mpc, key, val, psl, answer>>

\* An entry nearer to its home gives way and is carried on.
SetNext ==
  /\ mpc = "set" /\ Occupied(idx) /\ bucket[idx].key # insert_data.key
  /\ IF bucket[idx].psl < insert_data.psl
     THEN /\ bucket' = [bucket EXCEPT ![idx] = insert_data]
          /\ insert_data' = [bucket[idx] EXCEPT !.psl = @ + 1]
     ELSE insert_data' = [insert_data EXCEPT !.psl = @ + 1] /\ UNCHANGED bucket
  /\ idx' = After(idx)
  /\ UNCHANGED <<capacity, count, resize, mpc, key, val, psl, answer>>

-----------------------------------------------------------------------------
(* run_map_get and run_map_delete *)

Answer(k, r) == answer' = [key |-> k, result |-> r]

\* Both begin alike; an empty map answers at once.
Search(k, loop) ==
  /\ mpc = "idle"
  /\ IF count = 0
     THEN Answer(k, NULL) /\ UNCHANGED <<mpc, key, idx, psl>>
     ELSE mpc' = loop /\ key' = k /\ idx' = Home(k) /\ psl' = 0 /\ UNCHANGED answer
  /\ UNCHANGED <<table, resize, val, insert_data>>

Misses == ~Occupied(idx) \/ bucket[idx].psl < psl
Hits == ~Misses /\ bucket[idx].key = key

Miss ==
  /\ mpc \in {"get", "delete"} /\ Misses
  /\ Answer(key, NULL)
  /\ Return
  /\ UNCHANGED <<table, resize>>

SearchNext ==
  /\ mpc \in {"get", "delete"} /\ ~Misses /\ ~Hits
  /\ idx' = After(idx) /\ psl' = psl + 1
  /\ UNCHANGED <<table, resize, mpc, key, val, insert_data, answer>>

GetHit ==
  /\ mpc = "get" /\ Hits
  /\ Answer(key, bucket[idx].val)
  /\ Return
  /\ UNCHANGED <<table, resize>>

DeleteHit ==
  /\ mpc = "delete" /\ Hits
  /\ Answer(key, bucket[idx].val)
  /\ bucket' = [bucket EXCEPT ![idx] = NoEntry]
  /\ count' = count - 1
  /\ mpc' = "shift"
  /\ UNCHANGED <<capacity, resize, key, val, idx, psl, insert_data>>

\* The entry behind the gap moves into it, unless it is in its home bucket.
Shift ==
  /\ mpc = "shift"
  /\ IF Occupied(After(idx)) /\ bucket[After(idx)].psl > 0
     THEN /\ bucket' = [bucket EXCEPT ![idx] = [bucket[After(idx)] EXCEPT !.psl = @ - 1],
                                      ![After(idx)] = NoEntry]
          /\ idx' = After(idx)
          /\ UNCHANGED <<mpc, key, val, psl, insert_data>>
     ELSE Return /\ UNCHANGED bucket
  /\ UNCHANGED <<capacity, count, resize, answer>>

MapNext ==
  \/ \E k \in Key : Search(k, "get") \/ Search(k, "delete") \/ \E v \in Val : Set(k, v)
  \/ Rehash \/ SetEmpty \/ SetUpdate \/ SetNext
  \/ Miss \/ SearchNext \/ GetHit \/ DeleteHit \/ Shift

MapSpec == MapInit /\ [][MapNext]_mapVars
\* A call returns.
FairMapSpec ==
  MapSpec /\ WF_mapVars(Rehash \/ SetEmpty \/ SetUpdate \/ SetNext
                        \/ Miss \/ SearchNext \/ GetHit \/ DeleteHit \/ Shift)

-----------------------------------------------------------------------------
(* Properties *)

Entry == [key : Key, val : Val, psl : Nat] \cup {NoEntry}

\* The variables hold values of their types; a table is never empty.
MapTypeOK ==
  /\ capacity \in Nat /\ capacity >= 4
  /\ bucket \in [Slot -> Entry]
  /\ count \in Nat
  /\ old_cap \in Nat /\ old \in [0 .. old_cap - 1 -> Entry] /\ i \in 0 .. old_cap
  /\ mpc \in {"idle", "set", "rehash", "nested", "get", "delete", "shift"}
  /\ key \in Key \cup {NULL} /\ val \in Val \cup {NULL}
  /\ idx \in Nat /\ psl \in Nat
  /\ insert_data \in Entry
  /\ answer \in [key : Key \cup {NULL}, result : Val \cup {NULL}]

\* The bucket q places after a key's home.
At(k, q) == IF Home(k) + q < capacity THEN Home(k) + q ELSE Home(k) + q - capacity

\* The buckets a search for k passes on its way to distance p do not stop it.
\* The gap of a deletion that is under way is closed before the next search.
Path(k, p) ==
  \A q \in 0 .. p - 1 :
    \/ Occupied(At(k, q)) /\ bucket[At(k, q)].psl >= q
    \/ mpc = "shift" /\ At(k, q) = idx

\* "Robin Hood early termination": every entry, wherever insertions, deletions and
\* growth have moved it, is as far from its home as its bucket says, and a search
\* for its key reaches it.
Reachable ==
  \A j \in Slot :
    Occupied(j) =>
      /\ j = At(bucket[j].key, bucket[j].psl)
      /\ Path(bucket[j].key, bucket[j].psl)

\* run_map_len is the number of entries, each key has one, and a bucket is left
\* empty, without which a search for a missing key could go round for ever; "guarded
\* by load factor": the insertions of a resize never resize.
CountedOnce ==
  /\ count = Cardinality({j \in Slot : Occupied(j)}) /\ count < capacity
  /\ \A j, l \in Slot : Occupied(j) /\ bucket[j].key = bucket[l].key => j = l
  /\ mpc # "nested"

\* The contents of the map: the entry in hand counts before the table, and the
\* part of the old table that a resize has not come to counts as well.
Contents ==
  [k \in Key |->
    IF mpc = "set" /\ insert_data.key = k THEN insert_data.val
    ELSE IF \E j \in Slot : bucket[j].key = k
    THEN bucket[CHOOSE j \in Slot : bucket[j].key = k].val
    ELSE IF \E j \in i .. old_cap - 1 : old[j].key = k
    THEN old[CHOOSE j \in i .. old_cap - 1 : old[j].key = k].val
    ELSE NULL]

\* The map is a dictionary: entries that are displaced, moved back or inserted again
\* keep their values, a lookup returns the value set last, and none after a deletion.
Abstract == INSTANCE Dictionary WITH contents <- Contents
ImplementsDictionary == Abstract!Spec

\* Every call returns: no probe goes round the table for ever.
CallReturns == (mpc # "idle") ~> (mpc = "idle")
=============================================================================
