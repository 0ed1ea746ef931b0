------------------------------- MODULE RBTree -------------------------------
(***************************************************************************)
(* The red-black tree engine of kvstore_rbtree.c at the level of its       *)
(* nodes.  A call links or unlinks a node in one step; the rebalancing     *)
(* loops rbtree_insert_fixup and rbtree_delete_fixup then take one step    *)
(* per iteration, and no other call starts before they are done (the       *)
(* engine is called from a single thread in the default build).            *)
(*                                                                         *)
(* The code writes every case twice, once for each side; here the side is  *)
(* a parameter.  A node is a member of Node; nil is the sentinel the code  *)
(* allocates, whose left, right and parent start uninitialised.  A node    *)
(* that has been unlinked is never freed by the code (the test before the  *)
(* frees is inverted); nobody points to it, so its name is used again.     *)
(***************************************************************************)
EXTENDS FiniteSetsExt, TLC

CONSTANTS
  Key,      \* a finite set of integers, ordered as strcmp orders the keys
  Value, NULL, Crash,
  Node,     \* names for the nodes in the tree
  nil,      \* the sentinel T->nil
  Uninit,   \* content of memory nobody has written
  MaxCount  \* bound on the counter, which a repeated SET can drive up for ever

ASSUME RBKeyAssumption == Key \subseteq Int
ASSUME RBNodeAssumption == nil \notin Node

VARIABLES
  Tree,    \* the global rbtree: [root, node, count]
  pc,      \* "idle", "insert_fixup" or "delete_fixup"
  cur,     \* z of the insert loop, x of the delete loop
  alive,
  ret      \* the last call and its result

vars == <<Tree, pc, cur, alive, ret>>

RED == "red"
BLACK == "black"
Opposite(s) == IF s = "left" THEN "right" ELSE "left"

Fresh == [color |-> Uninit, left |-> Uninit, right |-> Uninit,
          parent |-> Uninit, key |-> Uninit, value |-> Uninit]

kvstore_rbtree_create ==
  [root |-> nil, count |-> 0,
   node |-> [n \in Node \cup {nil} |->
               IF n = nil THEN [Fresh EXCEPT !.color = BLACK] ELSE Fresh]]

\* T with field f of node n assigned.
Assign(T, n, f, v) == [T EXCEPT !.node[n][f] = v]

Left(T, n) == T.node[n].left
Right(T, n) == T.node[n].right
Parent(T, n) == T.node[n].parent
Color(T, n) == T.node[n].color
KeyOf(T, n) == T.node[n].key

\* The child pointer (or the root) that pointed to u is made to point to v.
Replace(T, u, v) ==
  LET p == Parent(T, u)
  IN  IF p = nil THEN [T EXCEPT !.root = v]
      ELSE IF u = Left(T, p) THEN Assign(T, p, "left", v)
      ELSE Assign(T, p, "right", v)

\* rbtree_left_rotate (s = "left") and rbtree_right_rotate (s = "right").
rotate(T, x, s) ==
  LET o  == Opposite(s)
      y  == T.node[x][o]
      b  == T.node[y][s]
      T1 == Assign(T, x, o, b)
      T2 == IF b # nil THEN Assign(T1, b, "parent", x) ELSE T1
      T3 == Assign(T2, y, "parent", Parent(T2, x))
      T4 == Replace(T3, x, y)
  IN  Assign(Assign(T4, y, s, x), x, "parent", y)

rbtree_mini(T, x) ==
  LET down[n \in Node] == IF Left(T, n) = nil THEN n ELSE down[Left(T, n)]
  IN  down[x]

Towards(T, n, k) == IF k < KeyOf(T, n) THEN Left(T, n) ELSE Right(T, n)

rbtree_search(T, k) ==
  LET down[n \in Node \cup {nil}] ==
        IF n = nil THEN nil
        ELSE IF KeyOf(T, n) = k THEN n
        ELSE down[Towards(T, n, k)]
  IN  down[T.root]

\* The node y at which the descent of rbtree_insert ends: the one that has
\* the key already, or the one to hang the new node under.
InsertionPoint(T, k) ==
  LET down[n \in Node] ==
        IF KeyOf(T, n) = k \/ Towards(T, n, k) = nil THEN n
        ELSE down[Towards(T, n, k)]
  IN  IF T.root = nil THEN nil ELSE down[T.root]

-----------------------------------------------------------------------------
(* Insertion.                                                              *)

Exists(T, k) == rbtree_search(T, k) # nil

\* rbtree_insert up to the call of the fixup loop, for a new key.
Link(T, z, k, v) ==
  LET y  == InsertionPoint(T, k)
      T1 == [T EXCEPT !.node[z] = [color |-> RED, left |-> nil, right |-> nil,
                                   parent |-> y, key |-> k, value |-> v]]
  IN  IF y = nil THEN [T1 EXCEPT !.root = z]
      ELSE IF k < KeyOf(T, y) THEN Assign(T1, y, "left", z)
      ELSE Assign(T1, y, "right", z)

Paint(T, n, c) == Assign(T, n, "color", c)

\* The uncle u is red: parent, uncle and grandparent are recoloured.
insert_recolour(T, p, u, g) ==
  Paint(Paint(Paint(T, p, BLACK), u, BLACK), g, RED)

\* A plausible slip: the grandparent stays black.
insert_rotate_KeepsColour(T, p, g, s) == rotate(Paint(T, p, BLACK), g, s)

\* The uncle is black: the parent takes the grandparent's place.
insert_rotate(T, p, g, s) == rotate(Paint(Paint(T, p, BLACK), g, RED), g, s)

\* A plausible slip: the loop starts over once the inner grandchild is outside.
insert_fixup_iteration_StartsOver(T, z) ==
  LET p  == Parent(T, z)
      g  == Parent(T, p)
      s  == IF p = Left(T, g) THEN "left" ELSE "right"
      u  == T.node[g][Opposite(s)]
  IN  IF Color(T, u) = RED THEN [tree |-> insert_recolour(T, p, u, g), cur |-> g]
      ELSE IF z = T.node[p][Opposite(s)] THEN [tree |-> rotate(T, p, s), cur |-> p]
      ELSE [tree |-> insert_rotate(T, p, g, Opposite(s)), cur |-> z]

\* One iteration of rbtree_insert_fixup: the tree and the new z.
insert_fixup_iteration(T, z) ==
  LET p  == Parent(T, z)
      g  == Parent(T, p)
      s  == IF p = Left(T, g) THEN "left" ELSE "right"
      u  == T.node[g][Opposite(s)]
      inner == z = T.node[p][Opposite(s)]
      z1 == IF inner THEN p ELSE z
      T1 == IF inner THEN rotate(T, p, s) ELSE T
      p1 == Parent(T1, z1)
  IN  IF Color(T, u) = RED
      THEN [tree |-> insert_recolour(T, p, u, g), cur |-> g]
      ELSE [tree |-> insert_rotate(T1, p1, Parent(T1, p1), Opposite(s)), cur |-> z1]

-----------------------------------------------------------------------------
(* Deletion.                                                               *)

\* A plausible slip: y's key and value are not moved to z.
Unlink_NoCopy(T, z) ==
  LET y  == IF Left(T, z) = nil \/ Right(T, z) = nil THEN z
            ELSE rbtree_mini(T, Right(T, z))
      x  == IF Left(T, y) # nil THEN Left(T, y) ELSE Right(T, y)
      T1 == Replace(Assign(T, x, "parent", Parent(T, y)), y, x)
  IN  [tree |-> [T1 EXCEPT !.node[y] = Fresh], x |-> x, black |-> Color(T, y) = BLACK]

\* rbtree_delete up to the fixup loop: y is unlinked, its only child x (or
\* nil) takes its place, and y's key and value move to z.
Unlink(T, z) ==
  LET y  == IF Left(T, z) = nil \/ Right(T, z) = nil THEN z
            ELSE rbtree_mini(T, Right(T, z))
      x  == IF Left(T, y) # nil THEN Left(T, y) ELSE Right(T, y)
      T1 == Replace(Assign(T, x, "parent", Parent(T, y)), y, x)
      T2 == IF y = z THEN T1
            ELSE Assign(Assign(T1, z, "key", KeyOf(T, y)),
                        z, "value", T.node[y].value)
  IN  [tree |-> [T2 EXCEPT !.node[y] = Fresh], x |-> x, black |-> Color(T, y) = BLACK]

\* The sibling w is red: it takes the parent's place.
delete_red_sibling(T, w, p, s) == rotate(Paint(Paint(T, w, BLACK), p, RED), p, s)

\* Only the sibling's near child is red: it takes the sibling's place.
delete_near_child(T, w, o) ==
  rotate(Paint(Paint(T, T.node[w][Opposite(o)], BLACK), w, RED), w, o)

\* The sibling's far child is red: the sibling takes the parent's place.
delete_far_child(T, w, p, s) ==
  rotate(Paint(Paint(Paint(T, w, Color(T, p)), p, BLACK),
               T.node[w][Opposite(s)], BLACK), p, s)

\* The rest of an iteration, once the sibling of x is black.
delete_black_sibling(T, p, s) ==
  LET o  == Opposite(s)
      w  == T.node[p][o]
      near == Color(T, T.node[w][s])
      far  == Color(T, T.node[w][o])
      T1 == IF far = BLACK THEN delete_near_child(T, w, o) ELSE T
      T2 == delete_far_child(T1, T1.node[p][o], p, s)
  IN  IF near = BLACK /\ far = BLACK
      THEN [tree |-> Paint(T, w, RED), cur |-> p]
      ELSE [tree |-> T2, cur |-> T2.root]

\* One iteration of rbtree_delete_fixup: the tree and the new x.
delete_fixup_iteration(T, x) ==
  LET p == Parent(T, x)
      s == IF x = Left(T, p) THEN "left" ELSE "right"
      w == T.node[p][Opposite(s)]
      T1 == IF Color(T, w) = RED THEN delete_red_sibling(T, w, p, s) ELSE T
  IN  delete_black_sibling(T1, p, s)

-----------------------------------------------------------------------------
(* The calls.                                                              *)

Call(op, k, v, r) == [op |-> op, key |-> k, val |-> v, res |-> r]

Init ==
  /\ Tree = kvstore_rbtree_create
  /\ pc = "idle" /\ cur = nil /\ alive = TRUE
  /\ ret = Call("START", NULL, NULL, 0)

Ready == alive /\ pc = "idle"

Unused == {n \in Node : Tree.node[n] = Fresh}

\* A call that leaves the tree alone; r = Crash takes the process down.
Answers(op, k, v, r) ==
  /\ ret' = Call(op, k, v, r)
  /\ alive' = (r # Crash)
  /\ UNCHANGED <<Tree, pc, cur>>

\* The result of a set that ends before rbtree_insert; mem counts the
\* allocations that succeed.
SetStopsEarly(k, v, mem, r) ==
  \/ mem = 0 /\ r = -1
  \/ mem > 0 /\ k = NULL /\ r = Crash
  \/ mem = 1 /\ k # NULL /\ r = -1
  \/ mem > 1 /\ k # NULL /\ v = NULL /\ r = Crash
  \/ mem = 2 /\ k # NULL /\ v # NULL /\ r = -1

SetFails(k, v, mem) ==
  /\ Ready
  /\ \E r \in {-1, Crash} : SetStopsEarly(k, v, mem, r) /\ Answers("SET", k, v, r)

\* rbtree_insert returns without linking the node, and the caller counts it.
SetExisting(k, v) ==
  /\ Ready /\ Exists(Tree, k) /\ Tree.count < MaxCount
  /\ Tree' = [Tree EXCEPT !.count = @ + 1]
  /\ ret' = Call("SET", k, v, 0)
  /\ UNCHANGED <<pc, cur, alive>>

SetNew(k, v) ==
  /\ Ready /\ ~Exists(Tree, k)
  /\ \E z \in Unused : Tree' = Link(Tree, z, k, v) /\ cur' = z
  /\ pc' = "insert_fixup"
  /\ ret' = Call("SET", k, v, 0)
  /\ UNCHANGED alive

rbtree_insert_fixup ==
  /\ pc = "insert_fixup" /\ Color(Tree, Parent(Tree, cur)) = RED
  /\ LET r == insert_fixup_iteration(Tree, cur)
     IN  Tree' = r.tree /\ cur' = r.cur
  /\ UNCHANGED <<pc, alive, ret>>

\* The loop ends; back in kvs_rbtree_set the counter moves.
SetReturns ==
  /\ pc = "insert_fixup" /\ Color(Tree, Parent(Tree, cur)) = BLACK
  /\ Tree' = [Paint(Tree, Tree.root, BLACK) EXCEPT !.count = @ + 1]
  /\ pc' = "idle" /\ cur' = nil
  /\ UNCHANGED <<alive, ret>>

\* rbtree_search compares with a NULL key as soon as the tree is not empty.
SearchCrashes(k) == k = NULL /\ Tree.root # nil

Found(k) == IF k = NULL THEN nil ELSE rbtree_search(Tree, k)

kvs_rbtree_get(k) ==
  /\ Ready
  /\ Answers("GET", k, NULL,
       CASE SearchCrashes(k) -> Crash
         [] ~SearchCrashes(k) /\ Found(k) = nil -> NULL
         [] ~SearchCrashes(k) /\ Found(k) # nil -> Tree.node[Found(k)].value)

DeleteMissing(k) ==
  Ready /\ Found(k) = nil /\ Answers("DEL", k, NULL, IF SearchCrashes(k) THEN Crash ELSE -1)

kvs_rbtree_delete(k) ==
  /\ Ready /\ Found(k) # nil
  /\ LET u == Unlink(Tree, Found(k))
     IN  IF u.black
         THEN Tree' = u.tree /\ pc' = "delete_fixup" /\ cur' = u.x
         ELSE Tree' = [u.tree EXCEPT !.count = @ - 1] /\ UNCHANGED <<pc, cur>>
  /\ ret' = Call("DEL", k, NULL, 0)
  /\ UNCHANGED alive

MoreToFix == cur # Tree.root /\ Color(Tree, cur) = BLACK

rbtree_delete_fixup ==
  /\ pc = "delete_fixup" /\ MoreToFix
  /\ LET r == delete_fixup_iteration(Tree, cur)
     IN  Tree' = r.tree /\ cur' = r.cur
  /\ UNCHANGED <<pc, alive, ret>>

DeleteReturns ==
  /\ pc = "delete_fixup" /\ ~MoreToFix
  /\ Tree' = [Paint(Tree, cur, BLACK) EXCEPT !.count = @ - 1]
  /\ pc' = "idle" /\ cur' = nil
  /\ UNCHANGED <<alive, ret>>

ModFails(k, v) ==
  /\ Ready
  /\ \/ Found(k) = nil /\ Answers("MOD", k, v, IF SearchCrashes(k) THEN Crash ELSE -1)
     \/ Found(k) # nil /\ v = NULL /\ Answers("MOD", k, v, Crash)

\* mem: does the allocation of the new value succeed; the old one is gone.
kvs_rbtree_modify(k, v, mem) ==
  /\ Ready /\ Found(k) # nil
  /\ Tree' = Assign(Tree, Found(k), "value", IF mem THEN v ELSE NULL)
  /\ ret' = Call("MOD", k, v, IF mem THEN 0 ELSE -1)
  /\ UNCHANGED <<pc, cur, alive>>

kvs_rbtree_count == Ready /\ Answers("COUNT", NULL, NULL, Tree.count)

Restart ==
  /\ ~alive
  /\ Tree' = kvstore_rbtree_create
  /\ alive' = TRUE
  /\ UNCHANGED <<pc, cur, ret>>

Fixup == rbtree_insert_fixup \/ SetReturns \/ rbtree_delete_fixup \/ DeleteReturns

Next ==
  \/ \E k \in Key, v \in Value :
       \/ SetExisting(k, v) \/ SetNew(k, v)
       \/ \E mem \in BOOLEAN : kvs_rbtree_modify(k, v, mem)
  \/ \E k \in Key \cup {NULL}, v \in Value \cup {NULL} :
       ModFails(k, v) \/ \E mem \in 0 .. 3 : SetFails(k, v, mem)
  \/ \E k \in Key \cup {NULL} :
       kvs_rbtree_get(k) \/ DeleteMissing(k) \/ kvs_rbtree_delete(k)
  \/ kvs_rbtree_count
  \/ Fixup
  \/ Restart

Spec == Init /\ [][Next]_vars

\* The calls that change the shape of the tree, and no others: a smaller
\* specification for larger trees.
ShapeNext ==
  \/ \E k \in Key, v \in Value : SetNew(k, v)
  \/ \E k \in Key : kvs_rbtree_delete(k)
  \/ Fixup

-----------------------------------------------------------------------------
(* Properties.                                                             *)

\* The state has the types the declarations of kvstore_rbtree.c give it: a
\* node that is in use has all its pointers set to nodes or to nil.
TypeOK ==
  LET Ptr == Node \cup {nil}
      Linked == [color : {RED, BLACK}, left : Ptr, right : Ptr, parent : Ptr,
                 key : Key, value : Value \cup {NULL}]
  IN  /\ Tree.root \in Ptr
      /\ Tree.count \in 0 .. MaxCount + Cardinality(Node)
      /\ \A n \in Node : Tree.node[n] \in Linked \cup {Fresh}
      /\ Color(Tree, nil) = BLACK
      /\ pc \in {"idle", "insert_fixup", "delete_fixup"}
      /\ cur \in Ptr
      /\ alive \in BOOLEAN

Reachable ==
  LET below[n \in Node \cup {nil}] ==
        IF n = nil THEN {} ELSE {n} \cup below[Left(Tree, n)] \cup below[Right(Tree, n)]
  IN  below[Tree.root]

\* Whatever rotations and unlinkings have happened, also in the middle of a
\* fixup loop, rbtree_search finds every node of the tree by its key, every
\* child knows its parent, and the root's parent is nil.
EveryNodeIsFound ==
  /\ Reachable = Node \ Unused
  /\ \A n \in Reachable :
       /\ rbtree_search(Tree, KeyOf(Tree, n)) = n
       /\ \A c \in {Left(Tree, n), Right(Tree, n)} \ {nil} : Parent(Tree, c) = n
  /\ Tree.root # nil => Parent(Tree, Tree.root) = nil

\* Between calls no red node has a red parent and the root is black; inside
\* the loops of rbtree_insert_fixup and rbtree_delete_fixup the only place
\* where that may fail is at the node the loop is working on.
RedRule ==
  \A n \in Reachable :
    Color(Tree, n) = RED /\ (n = Tree.root \/ Color(Tree, Parent(Tree, n)) = RED)
      => pc # "idle" /\ cur \in {n, Parent(Tree, n)}

\* The black nodes on the paths from n down, counting the extra black that
\* rbtree_delete_fixup carries at x.
BlackCounts ==
  LET extra(b) == IF pc = "delete_fixup" /\ b THEN 1 ELSE 0
      counts[n \in Node] ==
        LET own == extra(cur = n) + IF Color(Tree, n) = BLACK THEN 1 ELSE 0
            under(c) == IF c = nil THEN {extra(cur = nil /\ Parent(Tree, nil) = n)}
                        ELSE counts[c]
        IN  {own + h : h \in under(Left(Tree, n)) \cup under(Right(Tree, n))}
  IN  IF Tree.root = nil THEN {0} ELSE counts[Tree.root]

\* All paths from the root to nil have the same number of black nodes, at
\* every iteration of both fixup loops, the extra black of x included.
BlackHeight == Cardinality(BlackCounts) = 1

\* The tree is a red-black search tree, at every iteration of the two loops
\* but for what the loop is about to repair.
RedBlackTree == TypeOK /\ EveryNodeIsFound /\ RedRule /\ BlackHeight

\* A SET that was acknowledged is visible to the next GET, as testcase.c
\* expects of RSET followed by RGET.  It is not: a SET of a key that exists
\* is acknowledged and its value dropped.
AcknowledgedSetIsStored ==
  ret.op = "SET" /\ ret.res = 0 /\ alive
    => Tree.node[rbtree_search(Tree, ret.key)].value = ret.val

Depth(n) ==
  LET up[m \in Node \cup {nil}] ==
        IF m = Tree.root THEN 0 ELSE 1 + up[Parent(Tree, m)]
  IN  up[n]

Again ==
  \/ pc = "insert_fixup" /\ Color(Tree, Parent(Tree, cur)) = RED
  \/ pc = "delete_fixup" /\ MoreToFix

\* Every fixup loop ends, and so every SET and DEL returns: an iteration of
\* rbtree_insert_fixup or rbtree_delete_fixup after which the loop goes on
\* has moved z or x closer to the root, whatever its rotations did.
LoopClimbs == [][Again /\ Again' => Depth(cur)' < Depth(cur)]_vars

\* The map the tree stands for; a lost value is a key without a value, and
\* the counter moves only when the call returns.
TM == INSTANCE TreeMap WITH
  reply <- ret,
  tree <-
    IF ~alive THEN [map |-> [k \in Key |-> NULL], count |-> 0]
    ELSE [map |-> [k \in Key |->
                     IF ~Exists(Tree, k) THEN NULL
                     ELSE LET v == Tree.node[rbtree_search(Tree, k)].value
                          IN  IF v = NULL THEN "novalue" ELSE v],
          count |-> Tree.count + (CASE pc = "insert_fixup" -> 1
                                    [] pc = "delete_fixup" -> -1
                                    [] pc = "idle" -> 0)]

\* The pointer-level engine, rotations and all, implements the map with a
\* counter of TreeMap: every call takes effect when it links or unlinks its
\* node, and no iteration of a fixup loop changes what the tree contains.
ImplementsTreeMap == TM!Spec

=============================================================================
