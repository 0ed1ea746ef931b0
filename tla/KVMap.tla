-------------------------------- MODULE KVMap -------------------------------
(***************************************************************************)
(* What a client expects of a key-value engine: a finite map from keys to  *)
(* values, changed only by SET, MOD and DEL, and read by GET and COUNT.    *)
(* It is the abstract specification that the hash engine implements for    *)
(* every client, and the array engine for the clients that ArrayMap        *)
(* describes as disciplined.                                               *)
(***************************************************************************)
EXTENDS FiniteSets

CONSTANTS Key, Value, NULL

VARIABLES
  map,     \* the map; map[k] = NULL: no entry for k
  reply    \* the last call and its answer

kvvars == <<map, reply>>

Empty == [k \in Key |-> NULL]

Answer(op, k, v, out) == [op |-> op, key |-> k, val |-> v, out |-> out]

Init == map = Empty /\ reply = Answer("START", NULL, NULL, "ok")

Store(k, v) == map' = [map EXCEPT ![k] = v]

\* A SET may be refused (table full, no memory); then nothing changes.
Set(k, v) ==
  \/ reply' = Answer("SET", k, v, "ok") /\ Store(k, v)
  \/ reply' = Answer("SET", k, v, "no") /\ UNCHANGED map

Get(k) == reply' = Answer("GET", k, NULL, map[k]) /\ UNCHANGED map

Mod(k, v) ==
  \/ reply' = Answer("MOD", k, v, "ok") /\ map[k] # NULL /\ Store(k, v)
  \/ reply' = Answer("MOD", k, v, "no") /\ map[k] = NULL /\ UNCHANGED map

Del(k) ==
  \/ reply' = Answer("DEL", k, NULL, "ok") /\ map[k] # NULL /\ Store(k, NULL)
  \/ reply' = Answer("DEL", k, NULL, "no") /\ map[k] = NULL /\ UNCHANGED map

Count ==
  /\ reply' = Answer("COUNT", NULL, NULL, Cardinality({k \in Key : map[k] # NULL}))
  /\ UNCHANGED map

\* A call without its key, or a SET or MOD without its value.
Refuse(op, k, v) ==
  /\ k = NULL \/ (op \in {"SET", "MOD"} /\ v = NULL)
  /\ reply' = Answer(op, k, v, IF op = "GET" THEN NULL ELSE "no")
  /\ UNCHANGED map

\* The process went down; nothing is kept in memory.
Lose(op, k, v) == reply' = Answer(op, k, v, "down") /\ map' = Empty

Next ==
  \/ Count
  \/ \E k \in Key :
       \/ Get(k) \/ Del(k)
       \/ \E v \in Value : Set(k, v) \/ Mod(k, v)
  \/ \E op \in {"SET", "GET", "MOD", "DEL"}, k \in Key \cup {NULL}, v \in Value \cup {NULL} :
       Refuse(op, k, v) \/ Lose(op, k, v)

Spec == Init /\ [][Next]_kvvars

=============================================================================
