------------------------------- MODULE TreeMap ------------------------------
(***************************************************************************)
(* What the red-black tree engine of kvstore_rbtree.c computes, without    *)
(* the tree: its calls as operators on a map with a counter.  The detailed *)
(* specification RBTree implements this one, and the composed server       *)
(* (KVStore) uses these operators for its tree engine.                     *)
(*                                                                         *)
(* It is not KVMap: a SET of a key that is present leaves the old value in *)
(* place, still counts, and still returns 0.                               *)
(***************************************************************************)
EXTENDS Integers

CONSTANTS Key, Value, NULL, Crash

VARIABLES
  tree,    \* [map, count]; map[k] = NULL: the value pointer or the key is absent
  reply    \* the last call and its result

treevars == <<tree, reply>>

\* An entry whose value was lost to a failed allocation: the key is in the
\* tree, its value pointer is NULL.
NoValue == "novalue"

EmptyTree == [map |-> [k \in Key |-> NULL], count |-> 0]

Has(t, k) == t.map[k] # NULL

Returns(t, r) == [tree |-> t, res |-> r]

\* mem: how many of the three allocations (node, key copy, value copy)
\* succeed.  strlen of a NULL key or value crashes.  Otherwise the counter
\* moves whether or not rbtree_insert linked the node.
kvs_rbtree_set(t, k, v, mem) ==
  IF mem = 0 THEN Returns(t, -1)
  ELSE IF k = NULL THEN Returns(t, Crash)
  ELSE IF mem = 1 THEN Returns(t, -1)
  ELSE IF v = NULL THEN Returns(t, Crash)
  ELSE IF mem = 2 THEN Returns(t, -1)
  ELSE Returns([map |-> IF Has(t, k) THEN t.map ELSE [t.map EXCEPT ![k] = v],
                count |-> t.count + 1], 0)

\* rbtree_search only compares, and so only crashes on a NULL key, when the
\* tree is not empty.
Search(t, k) ==
  IF k = NULL
  THEN IF \E j \in Key : Has(t, j) THEN Crash ELSE NULL
  ELSE IF Has(t, k) THEN k ELSE NULL

kvs_rbtree_get(t, k) ==
  CASE Search(t, k) = Crash -> Crash
    [] Search(t, k) = NULL -> NULL
    [] Search(t, k) \in Key -> IF t.map[k] = NoValue THEN NULL ELSE t.map[k]

kvs_rbtree_delete(t, k) ==
  CASE Search(t, k) = Crash -> Returns(t, Crash)
    [] Search(t, k) = NULL -> Returns(t, -1)
    [] Search(t, k) \in Key ->
         Returns([map |-> [t.map EXCEPT ![k] = NULL], count |-> t.count - 1], 0)

\* The old value is freed first: a failed allocation leaves the key without
\* a value and returns -1; a NULL value crashes strlen.
kvs_rbtree_modify(t, k, v, mem) ==
  CASE Search(t, k) = Crash -> Returns(t, Crash)
    [] Search(t, k) = NULL -> Returns(t, -1)
    [] Search(t, k) \in Key ->
         IF v = NULL THEN Returns(t, Crash)
         ELSE IF mem > 0 THEN Returns([t EXCEPT !.map[k] = v], 0)
         ELSE Returns([t EXCEPT !.map[k] = NoValue], -1)

kvs_rbtree_count(t) == t.count

-----------------------------------------------------------------------------
Answer(op, k, v, r) == [op |-> op, key |-> k, val |-> v, res |-> r]

Init == tree = EmptyTree /\ reply = Answer("START", NULL, NULL, 0)

Do(op, k, v, r) ==
  /\ reply' = Answer(op, k, v, r.res)
  /\ tree' = IF r.res = Crash THEN EmptyTree ELSE r.tree

Next ==
  \/ \E k \in Key \cup {NULL}, v \in Value \cup {NULL}, mem \in 0 .. 3 :
       \/ Do("SET", k, v, kvs_rbtree_set(tree, k, v, mem))
       \/ Do("MOD", k, v, kvs_rbtree_modify(tree, k, v, mem))
  \/ \E k \in Key \cup {NULL} :
       \/ Do("GET", k, NULL, Returns(tree, kvs_rbtree_get(tree, k)))
       \/ Do("DEL", k, NULL, kvs_rbtree_delete(tree, k))
  \/ Do("COUNT", NULL, NULL, Returns(tree, kvs_rbtree_count(tree)))

Spec == Init /\ [][Next]_treevars

=============================================================================
