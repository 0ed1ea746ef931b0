----------------------------- MODULE HashEngine -----------------------------
(***************************************************************************)
(* The chained hash table of kvstore_hash.c driven by an arbitrary client. *)
(* A chain is the sequence of its nodes from the head; a node is its key   *)
(* and its value.  The hash function is any function from keys to slots.   *)
(* The two-part scan of delete_kv_hashtable (head node, then cur->next) is *)
(* kept as two cases because they unlink the node in different ways.       *)
(***************************************************************************)
EXTENDS EngineClient, SequencesExt, Integers

CONSTANTS
  MAX_TABLE_SIZE,   \* number of chains
  HashOf            \* _hash: the slot of each key

ASSUME HashSizeAssumption == MAX_TABLE_SIZE \in Nat \ {0}
ASSUME HashFunctionAssumption == HashOf \in [Key -> 0 .. MAX_TABLE_SIZE - 1]
ASSUME HashValuesAssumption ==
  NULL # Crash /\ {NULL, Crash} \cap (Key \cup Value \cup Int) = {}

VARIABLE Hash   \* the global hashtable_t

hashvars == <<Hash, alive, ret>>

Chains == 0 .. MAX_TABLE_SIZE - 1

init_hashtable == [nodes |-> [i \in Chains |-> <<>>], count |-> 0]

create_node(k, v) == [key |-> k, value |-> v]

Yields(h, r) == [hash |-> h, res |-> r]

Chain(h, k) == h.nodes[HashOf[k]]

\* Position in its chain of the first node with this key; 0: none.
Find(h, k) == SelectInSeq(Chain(h, k), LAMBDA n : n.key = k)

\* The chain of k becomes c and the counter moves by d.
Relinked(h, k, c, d) ==
  [nodes |-> [h.nodes EXCEPT ![HashOf[k]] = c], count |-> h.count + d]

\* The node's value is freed and copied anew; an allocation that fails
\* crashes strcpy in put_kv_hashtable and reaches assert(0) in
\* kvs_hash_modify.
Overwrite(h, k, v, mem) ==
  IF mem
  THEN Yields(Relinked(h, k, [Chain(h, k) EXCEPT ![Find(h, k)].value = v], 0), 0)
  ELSE Yields(h, Crash)

-----------------------------------------------------------------------------
put_kv_hashtable(h, k, v, mem) ==
  IF k = NULL \/ v = NULL THEN Yields(h, -1)
  ELSE IF Find(h, k) # 0 THEN Overwrite(h, k, v, mem)
  ELSE IF mem
  THEN Yields(Relinked(h, k, Cons(create_node(k, v), Chain(h, k)), 1), 0)
  ELSE Yields(h, Crash)

get_kv_hashtable(h, k) ==
  IF k = NULL \/ Find(h, k) = 0 THEN NULL ELSE Chain(h, k)[Find(h, k)].value

\* A plausible slip: a node behind the head is unlinked together with the
\* rest of its chain.
delete_kv_hashtable_CutsTail(h, k) ==
  IF k = NULL THEN Yields(h, -2)
  ELSE LET c == Chain(h, k)
           i == Find(h, k)
       IN  IF i = 0 THEN Yields(h, -1)
           ELSE IF i = 1 THEN Yields(Relinked(h, k, Tail(c), -1), 0)
           ELSE Yields(Relinked(h, k, SubSeq(c, 1, i - 1), -1), 0)

delete_kv_hashtable(h, k) ==
  IF k = NULL THEN Yields(h, -2)
  ELSE LET c == Chain(h, k)
           i == Find(h, k)
       IN  IF i = 0 THEN Yields(h, -1)
           ELSE IF i = 1 THEN Yields(Relinked(h, k, Tail(c), -1), 0)
           ELSE Yields(Relinked(h, k, RemoveAt(c, i), -1), 0)

kvs_hash_modify(h, k, v, mem) ==
  IF k = NULL \/ v = NULL \/ Find(h, k) = 0 THEN Yields(h, -1)
  ELSE Overwrite(h, k, v, mem)

count_kv_hashtable(h) == h.count

-----------------------------------------------------------------------------
HashInit ==
  /\ Hash = init_hashtable
  /\ alive = TRUE
  /\ ret = Call("START", NULL, NULL, 0)

HashFinish(op, k, v, r) ==
  /\ Hash' = r.hash
  /\ alive' = (r.res # Crash)
  /\ ret' = Call(op, k, v, r.res)

kvs_hash_set(k, v, mem) ==
  alive /\ HashFinish("SET", k, v, put_kv_hashtable(Hash, k, v, mem))

kvs_hash_mod(k, v, mem) ==
  alive /\ HashFinish("MOD", k, v, kvs_hash_modify(Hash, k, v, mem))

kvs_hash_delete(k) ==
  alive /\ HashFinish("DEL", k, NULL, delete_kv_hashtable(Hash, k))

kvs_hash_get(k) ==
  alive /\ HashFinish("GET", k, NULL, Yields(Hash, get_kv_hashtable(Hash, k)))

kvs_hash_count ==
  alive /\ HashFinish("COUNT", NULL, NULL, Yields(Hash, count_kv_hashtable(Hash)))

HashRestart ==
  ~alive /\ Hash' = init_hashtable /\ alive' = TRUE /\ UNCHANGED ret

\* A request may lack its key or its value; the engine is then given NULL.
HashNext ==
  \/ \E k \in Key \cup {NULL}, v \in Value \cup {NULL}, mem \in BOOLEAN :
       kvs_hash_set(k, v, mem) \/ kvs_hash_mod(k, v, mem)
  \/ \E k \in Key \cup {NULL} : kvs_hash_get(k) \/ kvs_hash_delete(k)
  \/ kvs_hash_count
  \/ HashRestart

HashSpec == HashInit /\ [][HashNext]_hashvars

-----------------------------------------------------------------------------
Nodes == UNION {Range(Hash.nodes[i]) : i \in Chains}

\* All chains together, read as a map.
ChainsAsMap ==
  [k \in Key |->
     IF \E n \in Nodes : n.key = k
     THEN (CHOOSE n \in Nodes : n.key = k).value
     ELSE NULL]

=============================================================================
