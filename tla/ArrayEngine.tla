----------------------------- MODULE ArrayEngine ----------------------------
(***************************************************************************)
(* The array engine of kvstore_array.c driven by an arbitrary client: the  *)
(* calls kvstore_parser_protocol makes for SET, GET, MOD, DEL and COUNT,   *)
(* in any order, with allocations that may fail.                           *)
(***************************************************************************)
EXTENDS ArrayOps, EngineClient

ASSUME ArrayValuesAssumption ==
  {NULL, Uninit, Crash} \cap (Key \cup Value \cup Int) = {}
ASSUME ArrayMarkersAssumption ==
  NULL # Uninit /\ NULL # Crash /\ Uninit # Crash

VARIABLE Array   \* the global array_t

vars == <<Array, alive, ret>>

ArrayType ==
  [array_table : [Slot -> [key : Key \cup {NULL, Uninit},
                           value : Value \cup {NULL, Uninit}]],
   array_idx : 0 .. KVS_ARRAY_SIZE]

\* Type invariant: array_idx stays within the table for every call sequence.
TypeOK ==
  /\ Array \in ArrayType
  /\ alive \in BOOLEAN
  /\ ret \in [op : {"START", "SET", "GET", "MOD", "DEL", "COUNT"},
              key : Key \cup {NULL},
              val : Value \cup {NULL},
              res : Int \cup Value \cup {NULL, Crash}]

Init ==
  /\ Array = kvstore_array_create
  /\ alive = TRUE
  /\ ret = Call("START", NULL, NULL, 0)

Finish(op, k, v, r) ==
  /\ Array' = r.arr
  /\ alive' = (r.res # Crash)
  /\ ret' = Call(op, k, v, r.res)

Set(k, v, mem) ==
  alive /\ Finish("SET", k, v, kvs_array_set(Array, k, v, mem))

Mod(k, v, mem) ==
  alive /\ Finish("MOD", k, v, kvs_array_mod(Array, k, v, mem))

Del(k) ==
  alive /\ Finish("DEL", k, NULL, kvs_array_del(Array, k))

Get(k) ==
  alive /\ Finish("GET", k, NULL, Returns(Array, kvs_array_get(Array, k)))

Count ==
  alive /\ Finish("COUNT", NULL, NULL, Returns(Array, kvs_array_count(Array)))

\* A new process: main calls init_kvengine, which creates an empty engine.
Restart ==
  /\ ~alive
  /\ Array' = kvstore_array_create
  /\ alive' = TRUE
  /\ UNCHANGED ret

\* A request may lack its key or its value; the engine is then given NULL.
Next ==
  \/ \E k \in Key \cup {NULL}, v \in Value \cup {NULL}, mem \in BOOLEAN :
       Set(k, v, mem) \/ Mod(k, v, mem)
  \/ \E k \in Key \cup {NULL} : Get(k) \/ Del(k)
  \/ Count
  \/ Restart

Spec == Init /\ [][Next]_vars

-----------------------------------------------------------------------------
(* Properties of every client.                                             *)

\* COUNT (array_idx) is the number of stored entries after any mix of SET
\* and DEL, although DEL leaves a hole and SET reuses it.
IdxCountsEntries == Array.array_idx = Cardinality(Occupied(Array))

\* No loop ever reads an entry of the malloc'ed table that was not written:
\* everything below array_idx has been initialised.
ScansInitialised == \A i \in Scanned(Array) : KeyAt(Array, i) # Uninit

\* Whenever there is no hole, every stored key is found by GET; stored keys
\* are unreachable only while a hole is open.
NoHoleMeansReachable ==
  Holes(Array) = {} =>
    \A k \in StoredKeys(Array) \cap Key : kvs_array_get(Array, k) # NULL

\* "i >0 ---->no exit": when DEL or MOD returns a positive number the key
\* is stored nowhere in the table, not even behind array_idx.
PositiveMeansMissing ==
  (alive /\ ret.op \in {"DEL", "MOD"} /\ ret.res \notin {-1, 0}) =>
    ret.key \notin StoredKeys(Array)

KeptOrDeleted ==
  \A i \in Occupied(Array) :
    \/ KeyAt(Array', i) = KeyAt(Array, i)
    \/ /\ ret'.op = "DEL" /\ ret'.res = 0
       /\ ret'.key = KeyAt(Array, i) /\ KeyAt(Array', i) = NULL
    \/ ~alive

\* An entry leaves the table only by a DEL of its own key that succeeds (or
\* with the process), and SET never takes the place of a stored entry.
EntriesLeaveByDel == [][KeptOrDeleted]_vars

=============================================================================
