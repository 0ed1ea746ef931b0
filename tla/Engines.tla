------------------------------- MODULE Engines ------------------------------
(***************************************************************************)
(* The array and the hash engine, each with its client: any client of the  *)
(* array, a disciplined client of the array, any client of the hash table. *)
(* For the last two the engine is the map of KVMap.                        *)
(***************************************************************************)
EXTENDS ArrayMap, HashEngine

CONSTANT ArrayKey   \* the keys the clients of the array use

VARIABLE client     \* "any", "disciplined" or "hash"

enginevars == <<Array, Hash, alive, ret, client>>

EnginesInit == Init /\ HashInit /\ client \in {"any", "disciplined", "hash"}

ArrayStep ==
  /\ \/ client = "any" /\ Next
     \/ client = "disciplined" /\ DisciplinedNext
  /\ ret'.key \in ArrayKey \cup {NULL}
  /\ UNCHANGED Hash

EnginesNext ==
  /\ ArrayStep \/ (client = "hash" /\ HashNext /\ UNCHANGED Array)
  /\ UNCHANGED client

EnginesSpec == EnginesInit /\ [][EnginesNext]_enginevars

-----------------------------------------------------------------------------
KV == INSTANCE KVMap
        WITH map <- IF client = "any" \/ ~alive THEN [k \in Key |-> NULL]
                    ELSE IF client = "hash" THEN ChainsAsMap ELSE MapOf(Array),
             reply <- IF client = "any"
                      THEN [op |-> "START", key |-> NULL, val |-> NULL, out |-> "ok"]
                      ELSE [op |-> ret.op, key |-> ret.key, val |-> ret.val, out |-> Outcome]

\* For every client of the hash table, whichever keys collide, and for every
\* disciplined client of the array, each call changes the table and answers
\* as the map would: a SET replaces, a DEL in the middle of a chain loses no
\* neighbour, no stored key is hidden, a GET returns the last value written
\* and COUNT the number of keys.
ImplementsMap == KV!Spec

\* A disciplined client of the array never meets a hole, so no DEL or MOD
\* reads a NULL key: only kvs_array_mod, whose allocation is not checked,
\* can bring the process down.
DisciplineIsSafe ==
  client = "disciplined" =>
    /\ Holes(Array) = {} /\ Occupied(Array) = Scanned(Array)
    /\ ~alive => ret.op = "MOD"

=============================================================================
