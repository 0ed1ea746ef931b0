---------------------------- MODULE EngineMemory ----------------------------
(***************************************************************************)
(* The heap blocks of the three engines: which call allocates them, who    *)
(* owns them, and which call gives them back, up to exit_kvengine.  What   *)
(* the engines answer, and where they keep an entry, is in ArrayEngine,    *)
(* HashEngine and RBTree; here an engine is the set of its entries, and    *)
(* whether a search finds an entry is left open for the array (its holes). *)
(* Any allocation of a request may fail; those of create succeed.          *)
(***************************************************************************)
EXTENDS Integers, FiniteSets, SequencesExt

CONSTANTS
  MemBlock,   \* what malloc can hand out: a bound, as integers
  MemKey,
  NoBlock     \* the null pointer

ASSUME MemAssumption == IsFiniteSet(MemBlock) /\ MemBlock \subseteq Nat /\ NoBlock \notin MemBlock

VARIABLES
  engine,    \* the engine a behaviour is about
  live,      \* the blocks that are allocated
  base,      \* what create allocated: the table, or nil and its key
  entries,
  dropped,   \* history: entries the engine no longer has, with the blocks
             \* of theirs that nobody has freed
  ended      \* "no"; "crash": NULL is written through, or assert(0);
             \* "exit": exit_kvengine is done

memvars == <<engine, live, base, entries, dropped, ended>>

Entry(k, node, key, value) == [name |-> k, node |-> node, key |-> key, value |-> value]

BlocksOf(e) == {e.node, e.key, e.value} \ {NoBlock}
AllBlocks(S) == UNION {BlocksOf(e) : e \in S}

\* The n lowest free blocks, in order: which ones malloc takes is no matter.
FreeBlocks == MemBlock \ live
kvstore_malloc(n) ==
  [i \in 1 .. n |-> CHOOSE b \in FreeBlocks : Cardinality({c \in FreeBlocks : c <= b}) = i]

HasRoomFor(n) == Cardinality(FreeBlocks) >= n

kvstore_free(S, B) == S \ B

Serving(name) == ended = "no" /\ engine = name

\* The call returns, with these entries and these live blocks.
Leaves(E, B) == entries' = E /\ live' = B /\ UNCHANGED <<engine, base, dropped, ended>>

\* The process ends in the middle of the call.
Dies == ended' = "crash" /\ UNCHANGED <<engine, live, base, entries, dropped>>

\* kvstore_array_create, kvstore_hash_create, kvstore_rbtree_create.
MemInit ==
  /\ engine \in {"array", "hash", "rbtree"}
  /\ live = {Min(MemBlock)} \cup (IF engine = "rbtree" THEN {Min(MemBlock) + 1} ELSE {})
  /\ base = live /\ entries = {} /\ dropped = {} /\ ended = "no"

-----------------------------------------------------------------------------
(* The entry's node, key and value are allocated in this order (the array  *)
(* has no nodes); ok says how many allocations succeed.  On a failure what *)
(* was allocated is freed again.                                           *)

kvs_array_set(k, ok) ==
  LET b == kvstore_malloc(ok)
  IN  /\ Serving("array") /\ ok <= 2 /\ HasRoomFor(2)
      /\ IF ok = 2 THEN Leaves(entries \cup {Entry(k, NoBlock, b[1], b[2])}, live \cup ToSet(b))
         ELSE Leaves(entries, kvstore_free(live \cup ToSet(b), ToSet(b)))

kvs_array_del(e) ==
  /\ Serving("array")
  /\ Leaves(entries \ {e}, kvstore_free(live, {e.value, e.key}))

\* The new value is allocated when the old one has been freed.  It may get
\* the same block.
Revalued(e) ==
  LET freed == kvstore_free(live, {e.value})
      v == Min(MemBlock \ freed)
  IN  Leaves((entries \ {e}) \cup {[e EXCEPT !.value = v]}, freed \cup {v})

\* The allocation is not checked: strncpy, strcpy to NULL.
kvs_array_mod(e, ok) ==
  /\ Serving("array")
  /\ IF ok > 0 THEN Revalued(e) ELSE Dies

-----------------------------------------------------------------------------
_create_node(k, ok) ==
  LET b == kvstore_malloc(ok)
  IN  IF ok = 3 THEN Leaves(entries \cup {Entry(k, b[1], b[2], b[3])}, live \cup ToSet(b))
      ELSE Dies   \* it frees what it has, but the caller writes to NULL

\* An entry of that key gets the new value, or the table a new entry.
put_kv_hashtable(k, ok) ==
  /\ Serving("hash")
  /\ \/ \E e \in entries : e.name = k /\ IF ok > 0 THEN Revalued(e) ELSE Dies
     \/ (\A e \in entries : e.name # k) /\ HasRoomFor(3) /\ _create_node(k, ok)

delete_kv_hashtable(e) ==
  Serving("hash") /\ Leaves(entries \ {e}, kvstore_free(live, BlocksOf(e)))

\* assert(0) when there is no memory.
kvs_hash_modify(e, ok) ==
  /\ Serving("hash")
  /\ IF ok > 0 THEN Revalued(e) ELSE Dies

-----------------------------------------------------------------------------
\* What the engine unlinks and does not free.
Drops(E, B, S) ==
  /\ entries' = E /\ live' = B /\ dropped' = dropped \cup S
  /\ UNCHANGED <<engine, base, ended>>

\* rbtree_insert returns without the new node when the key is in the tree.
kvs_rbtree_set(k, ok) ==
  LET b == kvstore_malloc(ok)
      new == Entry(k, b[1], b[2], b[3])
  IN  /\ Serving("rbtree") /\ HasRoomFor(3)
      /\ IF ok < 3 THEN Leaves(entries, kvstore_free(live \cup ToSet(b), ToSet(b)))
         ELSE IF \E e \in entries : e.name = k THEN Drops(entries, live \cup ToSet(b), {new})
         ELSE Leaves(entries \cup {new}, live \cup ToSet(b))

\* The three frees are under if (!cur), and cur is never NULL.  The node
\* unlinked is e's, or another one (its successor) that has swapped its key
\* and value with e's; RBTree says which.
kvs_rbtree_delete(e) ==
  \/ Serving("rbtree") /\ Drops(entries \ {e}, live, {e})
  \/ \E f \in entries \ {e} :
        LET gone == [e EXCEPT !.node = f.node]
            stays == [f EXCEPT !.node = e.node]
        IN  Serving("rbtree") /\ Drops((entries \ {e, f}) \cup {stays}, live, {gone})

\* A plausible slip: the pointer to the old value stays when there is no
\* memory for the new one.
kvs_rbtree_modify_Dangling(e, ok) ==
  /\ Serving("rbtree")
  /\ IF ok > 0 /\ FreeBlocks # {} THEN Revalued(e) ELSE Leaves(entries, kvstore_free(live, {e.value}))

\* Without memory the value is NULL from now on; free(NULL) does nothing.
kvs_rbtree_modify(e, ok) ==
  /\ Serving("rbtree")
  /\ IF ok > 0
     THEN (e.value # NoBlock \/ FreeBlocks # {}) /\ Revalued(e)
     ELSE Leaves((entries \ {e}) \cup {[e EXCEPT !.value = NoBlock]}, kvstore_free(live, {e.value}))

-----------------------------------------------------------------------------
(* exit_kvengine, when the network loop has returned.                      *)

ProcessEnds(B, S, how) ==
  /\ live' = B /\ dropped' = dropped \cup S /\ entries' = {} /\ ended' = how
  /\ UNCHANGED <<engine, base>>

\* Only the table is freed.
kvstore_array_destory ==
  Serving("array") /\ ProcessEnds(kvstore_free(live, base), entries, "exit")

\* The nodes and the table are freed, but not the keys and the values.
dest_hashtable ==
  /\ Serving("hash")
  /\ ProcessEnds(kvstore_free(live, base \cup {e.node : e \in entries}),
          {[e EXCEPT !.node = NoBlock] : e \in entries}, "exit")

\* nil's key is freed, then node after node unlinked and none freed.  Once
\* the tree is empty, rbtree_mini(nil) reads nil->left, which nobody has set:
\* it is nil and the loop ends, or the process does.
kvstore_rbtree_destory ==
  /\ Serving("rbtree")
  /\ \E how \in {"exit"} \cup (IF entries = {} THEN {} ELSE {"crash"}) :
       ProcessEnds(kvstore_free(live, {Min(MemBlock) + 1}), entries, how)

exit_kvengine == kvstore_array_destory \/ dest_hashtable \/ kvstore_rbtree_destory

MemNext ==
  \/ \E k \in MemKey, ok \in 0 .. 3 :
        kvs_array_set(k, ok) \/ put_kv_hashtable(k, ok) \/ kvs_rbtree_set(k, ok)
  \/ \E e \in entries : kvs_array_del(e) \/ delete_kv_hashtable(e) \/ kvs_rbtree_delete(e)
  \/ \E e \in entries, ok \in {0, 1} :
        kvs_array_mod(e, ok) \/ kvs_hash_modify(e, ok) \/ kvs_rbtree_modify(e, ok)
  \/ exit_kvengine

-----------------------------------------------------------------------------
\* No block has two owners, and none that is owned has been freed: no entry
\* reads freed memory, and no call frees a block twice, whatever allocations
\* have failed before.
BlocksOwnedOnce ==
  LET all == entries \cup dropped
  IN  /\ AllBlocks(all) \subseteq live
      /\ \A e \in all : \A f, g \in {"node", "key", "value"} :
           f # g /\ e[f] = e[g] => e[f] = NoBlock
      /\ \A e, f \in all : e # f => BlocksOf(e) \cap BlocksOf(f) = {}
      /\ ended = "no" => base \subseteq live /\ base \cap AllBlocks(all) = {}

\* A request leaks nothing in the array and in the hash table, even when an
\* allocation fails: every live block is the table's or an entry's.  In the
\* tree what is live besides is what deletions unlinked and what repeated
\* sets did not insert, all of it; after exit_kvengine, what is left of the
\* entries, and the tree's nil.
LeaksAreKnown ==
  /\ engine # "rbtree" /\ ended = "no" => dropped = {}
  /\ live = AllBlocks(entries \cup dropped)
            \cup (IF ended # "exit" \/ engine = "rbtree" THEN base \cap live ELSE {})

\* Every heap block of the engines is accounted for.
BlocksAccounted == BlocksOwnedOnce /\ LeaksAreKnown

=============================================================================
