------------------------------ MODULE ArrayMap ------------------------------
(***************************************************************************)
(* For which clients the array engine is a map.  Three of its habits show  *)
(* through to a client: SET does not look for an existing entry, DEL of an *)
(* entry that is not the last one opens a hole, and a DEL or MOD on an     *)
(* empty table returns 0.  A disciplined client avoids the three; for it   *)
(* the engine implements KVMap.                                            *)
(***************************************************************************)
EXTENDS ArrayEngine

LastKey == {KeyAt(Array, i) : i \in {Array.array_idx - 1} \cap Slot}

\* A key this client may DEL or MOD although it is not stored.
MayMiss(k) == k \notin StoredKeys(Array) /\ Array.array_idx > 0

DisciplinedNext ==
  \/ \E k \in Key :
       \/ Get(k)
       \/ \E v \in Value \cup {NULL}, mem \in BOOLEAN :
            \/ k \notin StoredKeys(Array) /\ Set(k, v, mem)
            \/ (k \in StoredKeys(Array) \/ MayMiss(k)) /\ Mod(k, v, mem)
       \/ (k \in LastKey \/ MayMiss(k)) /\ Del(k)
  \/ Count
  \/ Restart

\* The table read as a map.
MapOf(arr) ==
  [k \in Key |->
     IF \E i \in Slot : KeyAt(arr, i) = k
     THEN arr.array_table[CHOOSE i \in Slot : KeyAt(arr, i) = k].value
     ELSE NULL]

=============================================================================
