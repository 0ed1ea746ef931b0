------------------------------- MODULE NtyTree -------------------------------
(***************************************************************************)
(* The red-black tree macros of NtyCo/core/nty_tree.h, which the scheduler *)
(* uses for its sleeping and its waiting coroutines.  Unlike the tree of   *)
(* kvstore_rbtree.c there is no sentinel: NIL is the null pointer and has  *)
(* no fields.  The macros write every case twice, once for each side; here *)
(* the side is a parameter.  members is a history variable.                *)
(***************************************************************************)
EXTENDS Integers, FiniteSetsExt, SequencesExt

CONSTANT TreeKey    \* the key of each element; two elements may share one

ASSUME TreeAssumption == TreeKey \in Seq(Int)

VARIABLES tree, members

treevars == <<tree, members>>

Element == DOMAIN TreeKey

NIL == 0
cmp(e, f) == TreeKey[e] - TreeKey[f]
Other(s) == IF s = "left" THEN "right" ELSE "left"

Unlinked == [left |-> NIL, right |-> NIL, parent |-> NIL, color |-> "none"]

TreeInit == tree = [root |-> NIL, at |-> [e \in Element |-> Unlinked]] /\ members = {}

Field(t, n, f) == t.at[n][f]
With(t, n, f, v) == [t EXCEPT !.at[n][f] = v]
Coloured(t, n, c) == IF n = NIL THEN t ELSE With(t, n, "color", c)
IsRed(t, n) == n # NIL /\ Field(t, n, "color") = "red"
RB_SET_BLACKRED(t, b, r) == With(With(t, b, "color", "black"), r, "color", "red")

\* What pointed to u, its parent p or the root, is made to point to v.
Repoint(t, p, u, v) ==
  IF p = NIL THEN [t EXCEPT !.root = v]
  ELSE With(t, p, IF Field(t, p, "left") = u THEN "left" ELSE "right", v)

Adopt(t, n, p) == IF n = NIL THEN t ELSE With(t, n, "parent", p)

\* RB_ROTATE_LEFT (s = "left") and RB_ROTATE_RIGHT (s = "right").
RB_ROTATE(t, x, s) ==
  LET y  == Field(t, x, Other(s))
      b  == Field(t, y, s)
      p  == Field(t, x, "parent")
      t1 == Adopt(With(t, x, Other(s), b), b, x)
      t2 == Repoint(With(t1, y, "parent", p), p, x, y)
  IN  With(With(t2, y, s, x), x, "parent", y)

-----------------------------------------------------------------------------
RECURSIVE RB_INSERT_COLOR(_, _), RB_REMOVE_COLOR(_, _, _), Down(_, _, _)

RB_INSERT_COLOR(t, e) ==
  LET p == Field(t, e, "parent")
      g == Field(t, p, "parent")
      s == IF p = Field(t, g, "left") THEN "left" ELSE "right"
      u == Field(t, g, Other(s))
      inner == Field(t, p, Other(s)) = e
      t1 == IF inner THEN RB_ROTATE(t, p, s) ELSE t
      p1 == IF inner THEN e ELSE p
      e1 == IF inner THEN p ELSE e
  IN  IF ~IsRed(t, p) THEN With(t, t.root, "color", "black")
      ELSE IF IsRed(t, u)
      THEN RB_INSERT_COLOR(RB_SET_BLACKRED(Coloured(t, u, "black"), p, g), g)
      ELSE RB_INSERT_COLOR(RB_ROTATE(RB_SET_BLACKRED(t1, p1, g), g, Other(s)), e1)

\* The sibling w of the short side s under p is black.
FixBlack(t, p, s) ==
  LET o  == Other(s)
      w  == Field(t, p, o)
      t1 == IF IsRed(t, Field(t, w, o)) THEN t
            ELSE RB_ROTATE(With(Coloured(t, Field(t, w, s), "black"), w, "color", "red"), w, o)
      v  == Field(t1, p, o)
      t2 == With(With(t1, v, "color", Field(t1, p, "color")), p, "color", "black")
      t3 == RB_ROTATE(Coloured(t2, Field(t2, v, o), "black"), p, s)
  IN  IF ~IsRed(t, Field(t, w, s)) /\ ~IsRed(t, Field(t, w, o))
      THEN RB_REMOVE_COLOR(With(t, w, "color", "red"), Field(t, p, "parent"), p)
      ELSE Coloured(t3, t3.root, "black")

\* The subtree e of p is short of one black node.
RB_REMOVE_COLOR(t, p, e) ==
  LET s == IF Field(t, p, "left") = e THEN "left" ELSE "right"
      w == Field(t, p, Other(s))
  IN  IF IsRed(t, e) \/ e = t.root THEN Coloured(t, e, "black")
      ELSE IF IsRed(t, w) THEN FixBlack(RB_ROTATE(RB_SET_BLACKRED(t, w, p), p, s), p, s)
      ELSE FixBlack(t, p, s)

\* From n down, always to side s.
Down(t, n, s) == IF Field(t, n, s) = NIL THEN n ELSE Down(t, Field(t, n, s), s)

\* RB_MINMAX: the leftmost or the rightmost element.
RB_MINMAX(t, s) == IF t.root = NIL THEN NIL ELSE Down(t, t.root, s)

Toward(e, n) == IF cmp(e, n) < 0 THEN "left" ELSE "right"

\* Where the search for e's key ends: <<the element with that key or NIL,
\* the element before it on the way, the last one it went left at>>.
Search(t, e) ==
  LET from[w \in Element \cup {NIL}, p \in Element \cup {NIL}, l \in Element \cup {NIL}] ==
        IF w = NIL \/ cmp(e, w) = 0 THEN <<w, p, l>>
        ELSE from[Field(t, w, Toward(e, w)), w, IF Toward(e, w) = "left" THEN w ELSE l]
  IN  from[t.root, NIL, NIL]

RB_FIND(t, e) == Search(t, e)[1]

RB_NFIND(t, e) == IF Search(t, e)[1] # NIL THEN Search(t, e)[1] ELSE Search(t, e)[3]

\* RB_NEXT (s = "right") and RB_PREV (s = "left").
RB_STEP(t, e, s) ==
  LET up[n \in Element] ==
        IF Field(t, n, "parent") # NIL /\ Field(t, Field(t, n, "parent"), s) = n
        THEN up[Field(t, n, "parent")] ELSE Field(t, n, "parent")
  IN  IF Field(t, e, s) # NIL THEN Down(t, Field(t, e, s), Other(s)) ELSE up[e]

-----------------------------------------------------------------------------
\* RB_SET, and the pointer to the new element.
Linked(t, e, p) ==
  LET r == [t EXCEPT !.at[e] = [Unlinked EXCEPT !.parent = p, !.color = "red"]]
  IN  IF p = NIL THEN [r EXCEPT !.root = e] ELSE With(r, p, Toward(e, p), e)

\* A key that is there is returned and the tree left alone.
RB_INSERT(e) ==
  /\ e \notin members
  /\ IF RB_FIND(tree, e) # NIL THEN UNCHANGED treevars
     ELSE /\ tree' = RB_INSERT_COLOR(Linked(tree, e, Search(tree, e)[2]), e)
          /\ members' = members \cup {e}

\* An element with at most one child is replaced by that child.
Cut(t, e) ==
  LET c == IF Field(t, e, "left") = NIL THEN Field(t, e, "right") ELSE Field(t, e, "left")
      p == Field(t, e, "parent")
  IN  [tree |-> Repoint(Adopt(t, c, p), p, e, c), parent |-> p, child |-> c]

\* A plausible slip: when the successor is the right child of the element,
\* the fixing starts at the element that is gone.
CutSuccessor_AtOld(t, old) ==
  LET e == Down(t, Field(t, old, "right"), "left")
      u == Cut(t, e)
  IN  [tree |-> u.tree, elm |-> e, child |-> u.child, parent |-> u.parent]

\* The successor of old is cut out of its place; it will take old's.
CutSuccessor(t, old) ==
  LET e == Down(t, Field(t, old, "right"), "left")
      u == Cut(t, e)
  IN  [tree |-> u.tree, elm |-> e, child |-> u.child,
       parent |-> IF u.parent = old THEN e ELSE u.parent]

\* Element e takes over old's fields and place.
TakeOver(t, old, e) ==
  LET r == Repoint([t EXCEPT !.at[e] = t.at[old]], Field(t, old, "parent"), old, e)
  IN  Adopt(Adopt(r, Field(t, old, "left"), e), Field(t, old, "right"), e)

\* What is left in the fields of old is never read.
RB_REMOVE(old) ==
  LET two == Field(tree, old, "left") # NIL /\ Field(tree, old, "right") # NIL
      u == IF two THEN CutSuccessor(tree, old) ELSE Cut(tree, old)
      t == IF two THEN TakeOver(u.tree, old, u.elm) ELSE u.tree
      black == ~IsRed(tree, IF two THEN u.elm ELSE old)
  IN  /\ old \in members /\ members' = members \ {old}
      /\ tree' = [(IF black THEN RB_REMOVE_COLOR(t, u.parent, u.child) ELSE t)
                    EXCEPT !.at[old] = Unlinked]

TreeNext == \E e \in Element : RB_INSERT(e) \/ RB_REMOVE(e)

-----------------------------------------------------------------------------
Above(e, M) == {f \in M : cmp(f, e) > 0}
LeastOf(M) == IF M = {} THEN NIL ELSE CHOOSE e \in M : \A f \in M : cmp(e, f) <= 0
GreatestOf(M) == IF M = {} THEN NIL ELSE CHOOSE e \in M : \A f \in M : cmp(e, f) >= 0

\* After any insertions and removals RB_FIND finds exactly the members,
\* RB_MIN, RB_MAX and RB_NFIND are the extreme and the nearest ones, and
\* RB_NEXT and RB_PREV step through the members in the order of their keys.
WalksInOrder ==
  /\ \A e \in Element :
       LET same == {m \in members : cmp(m, e) = 0}
       IN  /\ RB_FIND(tree, e) = LeastOf(same)
           /\ RB_NFIND(tree, e) = LeastOf(same \cup Above(e, members))
  /\ RB_MINMAX(tree, "left") = LeastOf(members)
  /\ RB_MINMAX(tree, "right") = GreatestOf(members)
  /\ \A e \in members :
       /\ RB_STEP(tree, e, "right") = LeastOf(Above(e, members))
       /\ RB_STEP(tree, e, "left") = GreatestOf({f \in members : cmp(f, e) < 0})

\* The numbers of black elements on the ways from n down to a null pointer.
Heights(n) ==
  LET down[m \in Element \cup {NIL}] ==
        IF m = NIL THEN {0}
        ELSE {h + IF IsRed(tree, m) THEN 0 ELSE 1 :
                h \in down[Field(tree, m, "left")] \cup down[Field(tree, m, "right")]}
  IN  down[n]

\* The tree stays a red-black tree: a black root, no red element under a red
\* one, the same number of black elements on all ways down.
StaysBalanced ==
  /\ ~IsRed(tree, tree.root)
  /\ \A e \in members : IsRed(tree, e) => ~IsRed(tree, Field(tree, e, "parent"))
  /\ Cardinality(Heights(tree.root)) = 1

=============================================================================
