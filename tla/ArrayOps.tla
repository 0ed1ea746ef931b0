------------------------------ MODULE ArrayOps ------------------------------
(***************************************************************************)
(* The functions of kvstore_array.c as operators on the array_t record.    *)
(* They are used by the state machine of the engine (ArrayEngine) and by   *)
(* the composed server (KVStore), which also runs them during replay.      *)
(*                                                                         *)
(* A key or a value is an abstract string; NULL is the null pointer, and   *)
(* Uninit the content of malloc'ed memory nobody has written: the table is *)
(* allocated with malloc and never cleared.  A call returns the record     *)
(* [arr, res]; res = Crash stands for a strcmp or strncpy on NULL.         *)
(***************************************************************************)
EXTENDS Pointers, FiniteSetsExt

CONSTANTS
  Uninit,          \* what a table entry holds before its first write
  KVS_ARRAY_SIZE   \* number of entries of the table

ASSUME ArraySizeAssumption == KVS_ARRAY_SIZE \in Nat \ {0}

Slot == 0 .. KVS_ARRAY_SIZE - 1

Item(k, v) == [key |-> k, value |-> v]

kvstore_array_create ==
  [array_table |-> [i \in Slot |-> Item(Uninit, Uninit)], array_idx |-> 0]

\* The entries the for loops of all four functions can visit.
Scanned(arr) == 0 .. arr.array_idx - 1

KeyAt(arr, i) == arr.array_table[i].key

\* Visited entries whose key is one of K; the loops stop at the first one.
Stops(arr, K) == {i \in Scanned(arr) : KeyAt(arr, i) \in K}

Holes(arr) == Stops(arr, {NULL})

\* Entries that hold a key, whether or not a loop still reaches them.
Occupied(arr) == {i \in Slot : KeyAt(arr, i) \notin {NULL, Uninit}}

StoredKeys(arr) == {KeyAt(arr, i) : i \in Occupied(arr)}

Returns(arr, r) == [arr |-> arr, res |-> r]

Put(arr, i, item) ==
  [array_table |-> [arr.array_table EXCEPT ![i] = item], array_idx |-> arr.array_idx]

Moved(arr, d) ==
  [array_table |-> arr.array_table, array_idx |-> arr.array_idx + d]

-----------------------------------------------------------------------------
(* Plausible slips in kvs_array_set: the reused hole is not counted; a     *)
(* full table gives up its last entry; the allocations are not checked.    *)

kvs_array_set_HoleNotCounted(arr, key, value, mem) ==
  IF key = NULL \/ value = NULL \/ arr.array_idx = KVS_ARRAY_SIZE \/ ~mem
  THEN Returns(arr, -1)
  ELSE IF Holes(arr) # {}
       THEN Returns(Put(arr, Min(Holes(arr)), Item(key, value)), 0)
       ELSE Returns(Moved(Put(arr, arr.array_idx, Item(key, value)), 1), 0)

Placed(arr, key, value) ==
  LET i == IF Holes(arr) # {} THEN Min(Holes(arr)) ELSE arr.array_idx
  IN  Returns(Moved(Put(arr, i, Item(key, value)), 1), 0)

kvs_array_set_Evicts(arr, key, value, mem) ==
  IF key = NULL \/ value = NULL \/ ~mem THEN Returns(arr, -1)
  ELSE Placed(IF arr.array_idx = KVS_ARRAY_SIZE THEN Moved(arr, -1) ELSE arr, key, value)

kvs_array_set_Unchecked(arr, key, value, mem) ==
  IF key = NULL \/ value = NULL \/ arr.array_idx = KVS_ARRAY_SIZE THEN Returns(arr, -1)
  ELSE IF mem THEN Placed(arr, key, value) ELSE Returns(arr, Crash)

\* mem: do the two allocations succeed.  The new entry goes to the first
\* hole below array_idx, otherwise to array_idx itself.  An entry that
\* already has this key is not looked for.
kvs_array_set(arr, key, value, mem) ==
  IF key = NULL \/ value = NULL \/ arr.array_idx = KVS_ARRAY_SIZE \/ ~mem
  THEN Returns(arr, -1)
  ELSE LET i == IF Holes(arr) # {} THEN Min(Holes(arr)) ELSE arr.array_idx
       IN  Returns(Moved(Put(arr, i, Item(key, value)), 1), 0)

\* The search gives up at the first hole it meets.
kvs_array_get(arr, key) ==
  LET stops == Stops(arr, {NULL, key})
  IN  IF key = NULL
      THEN IF Scanned(arr) # {} /\ KeyAt(arr, 0) # NULL THEN Crash ELSE NULL
      ELSE IF stops = {} \/ KeyAt(arr, Min(stops)) = NULL
           THEN NULL
           ELSE arr.array_table[Min(stops)].value

-----------------------------------------------------------------------------
(* A plausible slip in kvs_array_del: the scan skips a hole instead of     *)
(* comparing with it.                                                      *)

kvs_array_del_SkipsHoles(arr, key) ==
  LET stops == Stops(arr, {key})
  IN  IF key = NULL THEN Returns(arr, -1)
      ELSE IF stops = {} THEN Returns(arr, arr.array_idx)
      ELSE Returns(Moved(Put(arr, Min(stops), Item(NULL, NULL)), -1), 0)

\* No hole test here: the strcmp on a hole is a read through NULL.  A scan
\* that finds nothing returns the loop variable, i.e. array_idx.
kvs_array_del(arr, key) ==
  LET stops == Stops(arr, {NULL, key})
  IN  IF key = NULL THEN Returns(arr, -1)
      ELSE IF stops = {} THEN Returns(arr, arr.array_idx)
      ELSE IF KeyAt(arr, Min(stops)) = NULL THEN Returns(arr, Crash)
      ELSE Returns(Moved(Put(arr, Min(stops), Item(NULL, NULL)), -1), 0)

\* The old value is freed before the new one is allocated, and the
\* allocation is not checked.
kvs_array_mod(arr, key, value, mem) ==
  LET stops == Stops(arr, {NULL, key})
  IN  IF key = NULL \/ value = NULL THEN Returns(arr, -1)
      ELSE IF stops = {} THEN Returns(arr, arr.array_idx)
      ELSE IF KeyAt(arr, Min(stops)) = NULL \/ ~mem THEN Returns(arr, Crash)
      ELSE Returns(Put(arr, Min(stops), Item(key, value)), 0)

kvs_array_count(arr) == arr.array_idx

=============================================================================
