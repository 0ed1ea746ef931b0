------------------------------ MODULE NodePool ------------------------------
(***************************************************************************)
(* The growing memory pool of kvstore_mpv2.c.  A node is what one malloc   *)
(* returns: a header of Header words, then the words that are handed out.  *)
(* first stays the node of mp_init; every further node becomes current and *)
(* its next is the current node before it.  lent is a history variable:    *)
(* the pieces handed out.                                                  *)
(***************************************************************************)
EXTENDS Integers, FiniteSets, Sequences

CONSTANTS
  PoolSizes,    \* words per node, m->max
  Header,       \* sizeof(mp_node_t) in words
  PieceSizes,   \* the sizes asked for
  MaxNodes      \* bound on the nodes of a pool

ASSUME NodePoolAssumption ==
  /\ PoolSizes \cup PieceSizes \cup {Header, MaxNodes} \subseteq Nat \ {0}
  /\ \A s \in PoolSizes : s > Header

VARIABLES
  nodes,     \* the nodes in the order of their malloc
  current,   \* m->current, 0 before mp_init
  max,
  lent,
  freed      \* the nodes given to free

npvars == <<nodes, current, max, lent, freed>>

NodePoolInit == nodes = <<>> /\ current = 0 /\ max = 0 /\ lent = {} /\ freed = {}

np_init ==
  /\ current = 0
  /\ \E size \in PoolSizes :
       max' = size /\ nodes' = <<[free_ptr |-> Header, end |-> size, next |-> 0]>>
  /\ current' = 1
  /\ UNCHANGED <<lent, freed>>

Piece(n, size) == [node |-> n, from |-> nodes'[n].free_ptr - size, len |-> size]

\* The nodes on the way from n along next.
Path(n) ==
  LET from[m \in 0 .. Len(nodes)] == IF m = 0 THEN <<>> ELSE <<m>> \o from[nodes[m].next]
  IN  from[n]

HasRoom(n, size) == size <= nodes[n].end - nodes[n].free_ptr

\* The first node from current on that has room.
np_allock_fits(size) ==
  /\ current # 0 /\ freed = {}
  /\ \E i \in DOMAIN Path(current) :
       /\ HasRoom(Path(current)[i], size)
       /\ \A j \in 1 .. i - 1 : ~HasRoom(Path(current)[j], size)
       /\ nodes' = [nodes EXCEPT ![Path(current)[i]].free_ptr = @ + size]
       /\ lent' = lent \cup {Piece(Path(current)[i], size)}
  /\ UNCHANGED <<current, max, freed>>

\* A new node of max words, whatever the size asked for.
np_allock_grows(size) ==
  /\ current # 0 /\ freed = {} /\ Len(nodes) < MaxNodes
  /\ \A i \in DOMAIN Path(current) : ~HasRoom(Path(current)[i], size)
  /\ nodes' = Append(nodes, [free_ptr |-> Header + size, end |-> max, next |-> current])
  /\ current' = Len(nodes')
  /\ lent' = lent \cup {Piece(Len(nodes'), size)}
  /\ UNCHANGED <<max, freed>>

\* The walk starts at first and meets none of the nodes added later.
mp_des ==
  /\ current # 0 /\ freed = {}
  /\ freed' = {Path(1)[i] : i \in DOMAIN Path(1)}
  /\ UNCHANGED <<nodes, current, max, lent>>

NodePoolNext ==
  \/ np_init \/ mp_des
  \/ \E size \in PieceSizes : np_allock_fits(size) \/ np_allock_grows(size)

-----------------------------------------------------------------------------
\* Two pieces never share a word, and none reaches into a header or past its
\* node, unless mp_allock was asked for more than a fresh node has.
PiecesDisjoint ==
  /\ \A p \in lent :
       /\ p.from >= Header
       /\ p.from + p.len <= max \/ p.len > max - Header
  /\ \A p, q \in lent :
       p # q /\ p.node = q.node => p.from + p.len <= q.from \/ q.from + q.len <= p.from

=============================================================================
