------------------------------ MODULE MCRBTree ------------------------------
(* Node names carry no meaning in RBTree, so their permutations are         *)
(* symmetries of it; keys are ordered and are not.  One client makes the    *)
(* calls that change the shape of the tree, with all keys; another makes    *)
(* every call, failed allocations included, with few keys.                  *)
EXTENDS RBTree

CONSTANT FewKeys    \* the keys of the client that makes every call

VARIABLE everyCall  \* which of the two clients runs

Symmetric == Permutations(Node)

BothInit == Init /\ everyCall \in BOOLEAN

BothNext ==
  /\ IF everyCall THEN Next /\ ret'.key \in FewKeys \cup {NULL} ELSE ShapeNext
  /\ UNCHANGED everyCall

BothSpec == BothInit /\ [][BothNext]_<<vars, everyCall>>

=============================================================================
