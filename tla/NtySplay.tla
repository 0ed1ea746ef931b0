------------------------------ MODULE NtySplay -------------------------------
(***************************************************************************)
(* The splay tree macros of NtyCo/core/nty_tree.h.  A search moves what it *)
(* finds to the root, so every operation changes the tree.  Elements and   *)
(* keys are those of module NtyTree; the macros write every case twice,    *)
(* here the side is a parameter.  kept is a history variable.  (Nothing in *)
(* the repository instantiates them, and SPLAY_PROTOTYPE has a stray       *)
(* backslash in it: the macros are modelled as they read.)                 *)
(***************************************************************************)
EXTENDS NtyTree

VARIABLES splay, kept

splayvars == <<splay, kept>>

Node == Len(TreeKey) + 1    \* the local variable __node of a search
Childless == [left |-> NIL, right |-> NIL]

SplayInit ==
  splay = [root |-> NIL, at |-> [e \in Element \cup {Node} |-> Childless]] /\ kept = {}

\* The way to element e at each element.
Way(e) == [f \in Element |-> IF cmp(e, f) < 0 THEN "left" ELSE IF cmp(e, f) > 0 THEN "right" ELSE "here"]

-----------------------------------------------------------------------------
(* A search.  SPLAY_ROTATE_RIGHT and SPLAY_LINKLEFT are the ones with s =  *)
(* "left".  end.left is __right, the element that gets the next larger     *)
(* part of the tree as its left child; end.right is __left.                *)

\* The child c of the root on side s becomes the root.
SPLAY_ROTATE(t, c, s) ==
  [With(With(t, t.root, s, Field(t, c, Other(s))), c, Other(s), t.root) EXCEPT !.root = c]

SPLAY_LINK(t, end, s) == [With(t, end[s], s, t.root) EXCEPT !.root = Field(t, t.root, s)]

SPLAY_ASSEMBLE(t, end) ==
  LET u == With(With(t, end.right, "right", Field(t, t.root, "left")),
                end.left, "left", Field(t, t.root, "right"))
  IN  With(With(u, t.root, "left", Field(u, Node, "right")), t.root, "right", Field(u, Node, "left"))

RECURSIVE SplayLoop(_, _, _)

SplayLoop(t, end, way) ==
  LET s == way[t.root]
      c == Field(t, t.root, s)
      twice == way[c] = s
      u == IF twice THEN SPLAY_ROTATE(t, c, s) ELSE t
  IN  IF s = "here" \/ c = NIL THEN SPLAY_ASSEMBLE(t, end)
      ELSE IF twice /\ Field(u, u.root, s) = NIL THEN SPLAY_ASSEMBLE(u, end)
      ELSE SplayLoop(SPLAY_LINK(u, end, s), [end EXCEPT ![s] = u.root], way)

\* __node is gone when the search returns.
Searched(t, way) ==
  [SplayLoop(t, [left |-> Node, right |-> Node], way) EXCEPT !.at[Node] = Childless]

SPLAY(t, e) == Searched(t, Way(e))

SPLAY_MINMAX(t, s) == Searched(t, [f \in Element |-> s])

-----------------------------------------------------------------------------
(* The operations: the tree afterwards, and the result.                    *)

Gives(t, r) == [tree |-> t, res |-> r]

SPLAY_FIND(t, e) ==
  IF t.root = NIL THEN Gives(t, NIL)
  ELSE LET u == SPLAY(t, e) IN Gives(u, IF cmp(e, u.root) = 0 THEN u.root ELSE NIL)

\* e is in the tree, hence the root after the search.
SPLAY_NEXT(t, e) ==
  LET u == SPLAY(t, e)
  IN  Gives(u, IF Field(u, e, "right") = NIL THEN NIL ELSE Down(u, Field(u, e, "right"), "left"))

SPLAY_MIN_MAX(t, s) ==
  IF t.root = NIL THEN Gives(t, NIL) ELSE LET u == SPLAY_MINMAX(t, s) IN Gives(u, u.root)

\* On its side of the old root e takes over what was there.
SPLAY_INSERT(t, e) ==
  IF t.root = NIL THEN Gives([t EXCEPT !.root = e, !.at[e] = Childless], NIL)
  ELSE LET u == SPLAY(t, e)
           s == Way(e)[u.root]
       IN  IF s = "here" THEN Gives(u, u.root)
           ELSE Gives([With(With(With(u, e, s, Field(u, u.root, s)), e, Other(s), u.root), u.root, s, NIL)
                         EXCEPT !.root = e], NIL)

\* The result is the argument, not the element of that key in the tree.
\* (What is left in the fields of that one is never read.)
SPLAY_REMOVE(t, e) ==
  IF t.root = NIL THEN Gives(t, NIL)
  ELSE LET u == SPLAY(t, e)
           l == Field(u, u.root, "left")
           r == Field(u, u.root, "right")
           v == SPLAY([u EXCEPT !.root = l], e)
       IN  IF cmp(e, u.root) # 0 THEN Gives(u, NIL)
           ELSE Gives([(IF l = NIL THEN [u EXCEPT !.root = r] ELSE With(v, v.root, "right", r))
                         EXCEPT !.at[u.root] = Childless], e)

Same(e) == {m \in kept : cmp(m, e) = 0}

SplayNext ==
  \E e \in Element :
     \/ e \notin kept /\ splay' = SPLAY_INSERT(splay, e).tree
        /\ kept' = IF Same(e) = {} THEN kept \cup {e} ELSE kept
     \/ splay' = SPLAY_REMOVE(splay, e).tree /\ kept' = kept \ Same(e)
     \/ splay' = SPLAY_FIND(splay, e).tree /\ UNCHANGED kept
     \/ e \in kept /\ splay' = SPLAY_NEXT(splay, e).tree /\ UNCHANGED kept
     \/ \E s \in {"left", "right"} : splay' = SPLAY_MIN_MAX(splay, s).tree /\ UNCHANGED kept

-----------------------------------------------------------------------------
\* The elements of the tree under n from left to right.
InOrder(n) ==
  LET walk[m \in Element \cup {NIL}] ==
        IF m = NIL THEN <<>>
        ELSE walk[Field(splay, m, "left")] \o <<m>> \o walk[Field(splay, m, "right")]
  IN  walk[n]

\* However searches, insertions and removals have turned the tree about, it
\* holds the elements put in and not taken out, each once and in the order of
\* their keys, and all answers are right: the search finds the element of
\* that key, the step the next one, the ends are the least and the greatest.
SplayHolds ==
  /\ LET w == InOrder(splay.root)
     IN  Len(w) = Cardinality(kept) /\ ToSet(w) = kept
         /\ \A i \in 2 .. Len(w) : cmp(w[i - 1], w[i]) < 0
  /\ \A e \in Element :
       /\ SPLAY_FIND(splay, e).res = LeastOf(Same(e))
       /\ SPLAY_REMOVE(splay, e).res = IF Same(e) = {} THEN NIL ELSE e
       /\ e \in kept => SPLAY_NEXT(splay, e).res = LeastOf(Above(e, kept))
  /\ SPLAY_MIN_MAX(splay, "left").res = LeastOf(kept)
  /\ SPLAY_MIN_MAX(splay, "right").res = GreatestOf(kept)

=============================================================================
