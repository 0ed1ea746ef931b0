------------------------------ MODULE NtyQueue ------------------------------
(***************************************************************************)
(* The list macros of NtyCo/core/nty_queue.h at the level of the pointers. *)
(* An element or a head is named by the address of its next (or first)     *)
(* field, so that the address a prev or last pointer holds is a name too.  *)
(* An element that has been removed keeps its stale pointers.  content is  *)
(* a history variable: what each list should contain.                      *)
(***************************************************************************)
EXTENDS FiniteSets, SequencesExt

CONSTANTS
  Elem, QHead,
  Null

ASSUME QueueAssumption ==
  IsFiniteSet(Elem) /\ IsFiniteSet(QHead) /\ Elem \cap QHead = {} /\ Null \notin Elem \cup QHead

VARIABLES
  kind,     \* which of the four families of macros is used
  q,        \* next of elements and heads, prev of elements, last of heads
  content

qvars == <<kind, q, content>>

QueueInit ==
  /\ kind = Null
  /\ q = [next |-> [a \in Elem \cup QHead |-> Null], prev |-> [e \in Elem |-> Null],
          last |-> [h \in QHead |-> Null]]
  /\ content = [h \in QHead |-> <<>>]

Next_(p, a, v) == [p EXCEPT !.next[a] = v]     \* next of a becomes v
Prev_(p, e, a) == [p EXCEPT !.prev[e] = a]
Last_(p, h, a) == [p EXCEPT !.last[h] = a]

-----------------------------------------------------------------------------
(* SLIST: a first pointer and next pointers.  STAILQ: also the address of  *)
(* the last next pointer.  With the head in the place of the element, the  *)
(* INSERT_AFTER macros are the INSERT_HEAD macros, here and below.         *)

\* STAILQ_INIT; TAILQ_INIT is the same.
STAILQ_INIT(p, h) == Last_(Next_(p, h, Null), h, h)

SLIST_INSERT_AFTER(p, at, e) == Next_(Next_(p, e, p.next[at]), at, e)

STAILQ_INSERT_AFTER(p, h, at, e) ==
  LET r == SLIST_INSERT_AFTER(p, at, e)
  IN  IF r.next[e] = Null THEN Last_(r, h, e) ELSE r

STAILQ_INSERT_TAIL(p, h, e) == Last_(Next_(Next_(p, e, Null), p.last[h], e), h, e)

\* The element in front of e, found by walking from the head.
Before_(p, h, e) ==
  LET from[i \in 0 .. Cardinality(Elem)] ==
        IF i = 0 THEN h ELSE IF p.next[from[i - 1]] = e THEN from[i - 1] ELSE p.next[from[i - 1]]
  IN  from[Cardinality(Elem)]

SLIST_REMOVE(p, h, e) == Next_(p, Before_(p, h, e), p.next[e])

STAILQ_REMOVE(p, h, e) ==
  LET b == Before_(p, h, e)
      r == SLIST_REMOVE(p, h, e)
  IN  IF r.next[b] = Null THEN Last_(r, h, b) ELSE r

STAILQ_CONCAT(p, h, g) ==
  IF p.next[g] = Null THEN p
  ELSE STAILQ_INIT(Last_(Next_(p, p.last[h], p.next[g]), h, p.last[g]), g)

STAILQ_SWAP(p, h, g) ==
  LET r == [p EXCEPT !.next[h] = p.next[g], !.next[g] = p.next[h],
                     !.last[h] = p.last[g], !.last[g] = p.last[h]]
      Own(s, x) == IF s.next[x] = Null THEN Last_(s, x, x) ELSE s
  IN  Own(Own(r, h), g)

-----------------------------------------------------------------------------
(* LIST and TAILQ: prev holds the address of the pointer to the element.   *)

LIST_INSERT_AFTER(p, at, e) ==
  LET r == Next_(p, e, p.next[at])
      s == IF r.next[e] # Null THEN Prev_(r, p.next[at], e) ELSE r
  IN  Prev_(Next_(s, at, e), e, at)

\* LIST_INSERT_BEFORE and TAILQ_INSERT_BEFORE.
LIST_INSERT_BEFORE(p, at, e) ==
  LET r == Next_(Prev_(p, e, p.prev[at]), e, at)
  IN  Prev_(Next_(r, r.prev[at], e), at, e)

LIST_REMOVE(p, e) ==
  LET r == IF p.next[e] # Null THEN Prev_(p, p.next[e], p.prev[e]) ELSE p
  IN  Next_(r, p.prev[e], p.next[e])

\* The first element's prev is made to point to its head.
LinkBack(p, h) == IF p.next[h] # Null THEN Prev_(p, p.next[h], h) ELSE p

LIST_SWAP(p, h, g) ==
  LinkBack(LinkBack([p EXCEPT !.next[h] = p.next[g], !.next[g] = p.next[h]], h), g)

TAILQ_INSERT_AFTER(p, h, at, e) ==
  LET r == LIST_INSERT_AFTER(p, at, e)
  IN  IF r.next[e] = Null THEN Last_(r, h, e) ELSE r

TAILQ_INSERT_TAIL(p, h, e) ==
  LET r == Prev_(Next_(p, e, Null), e, p.last[h])
  IN  Last_(Next_(r, p.last[h], e), h, e)

TAILQ_REMOVE(p, h, e) ==
  LET r == LIST_REMOVE(p, e)
  IN  IF p.next[e] = Null THEN Last_(r, h, p.prev[e]) ELSE r

TAILQ_CONCAT(p, h, g) ==
  IF p.next[g] = Null THEN p
  ELSE STAILQ_CONCAT(Prev_(p, p.next[g], p.last[h]), h, g)

TAILQ_SWAP(p, h, g) == LinkBack(LinkBack(STAILQ_SWAP(p, h, g), h), g)

\* The entry at address a read as a head: its second field.
Second(p, a) == IF a \in QHead THEN p.last[a] ELSE p.prev[a]

TAILQ_LAST(p, h) == p.next[Second(p, p.last[h])]

TAILQ_PREV(p, e) == p.next[Second(p, p.prev[e])]

-----------------------------------------------------------------------------
(* The lists in use: first their INIT, then any macro of the family.       *)

Free == Elem \ UNION {Range(content[h]) : h \in QHead}

INIT_(k) ==
  /\ kind = Null /\ kind' = k
  /\ q' = IF k \in {"STAILQ", "TAILQ"} THEN [q EXCEPT !.last = [h \in QHead |-> h]] ELSE q
  /\ UNCHANGED content

\* After the element at, or at the head.
INSERT_AFTER(h, at, e) ==
  /\ q' = CASE kind = "SLIST"  -> SLIST_INSERT_AFTER(q, at, e)
            [] kind = "STAILQ" -> STAILQ_INSERT_AFTER(q, h, at, e)
            [] kind = "LIST"   -> LIST_INSERT_AFTER(q, at, e)
            [] kind = "TAILQ"  -> TAILQ_INSERT_AFTER(q, h, at, e)
  /\ content' = [content EXCEPT ![h] =
       IF at = h THEN <<e>> \o @ ELSE InsertAt(@, SelectInSeq(@, LAMBDA x : x = at) + 1, e)]
  /\ UNCHANGED kind

INSERT_BEFORE(h, at, e) ==
  /\ kind \in {"LIST", "TAILQ"}
  /\ q' = LIST_INSERT_BEFORE(q, at, e)
  /\ content' = [content EXCEPT ![h] = InsertAt(@, SelectInSeq(@, LAMBDA x : x = at), e)]
  /\ UNCHANGED kind

INSERT_TAIL(h, e) ==
  /\ kind \in {"STAILQ", "TAILQ"}
  /\ q' = IF kind = "TAILQ" THEN TAILQ_INSERT_TAIL(q, h, e) ELSE STAILQ_INSERT_TAIL(q, h, e)
  /\ content' = [content EXCEPT ![h] = Append(@, e)]
  /\ UNCHANGED kind

REMOVE(h, e) ==
  /\ q' = CASE kind = "SLIST"  -> SLIST_REMOVE(q, h, e)
            [] kind = "STAILQ" -> STAILQ_REMOVE(q, h, e)
            [] kind = "LIST"   -> LIST_REMOVE(q, e)
            [] kind = "TAILQ"  -> TAILQ_REMOVE(q, h, e)
  /\ content' = [content EXCEPT ![h] = SelectSeq(@, LAMBDA x : x # e)]
  /\ UNCHANGED kind

CONCAT(h, g) ==
  /\ kind \in {"STAILQ", "TAILQ"}
  /\ q' = IF kind = "TAILQ" THEN TAILQ_CONCAT(q, h, g) ELSE STAILQ_CONCAT(q, h, g)
  /\ content' = [content EXCEPT ![h] = @ \o content[g], ![g] = <<>>]
  /\ UNCHANGED kind

SWAP(h, g) ==
  /\ q' = CASE kind = "STAILQ" -> STAILQ_SWAP(q, h, g)
            [] kind = "LIST"   -> LIST_SWAP(q, h, g)
            [] kind = "TAILQ"  -> TAILQ_SWAP(q, h, g)
  /\ content' = [content EXCEPT ![h] = content[g], ![g] = content[h]]
  /\ UNCHANGED kind

QueueNext ==
  \/ \E k \in {"SLIST", "STAILQ", "LIST", "TAILQ"} : INIT_(k)
  \/ /\ kind # Null
     /\ \/ \E h \in QHead, e \in Free :
             \/ INSERT_TAIL(h, e)
             \/ \E at \in Range(content[h]) \cup {h} : INSERT_AFTER(h, at, e)
             \/ \E at \in Range(content[h]) : INSERT_BEFORE(h, at, e)
        \/ \E h \in QHead : \E e \in Range(content[h]) : REMOVE(h, e)
        \/ \E h, g \in QHead : h # g /\ (CONCAT(h, g) \/ (kind # "SLIST" /\ SWAP(h, g)))

-----------------------------------------------------------------------------
\* The name whose next pointer points to the i-th element of list h.
Pointer(h, i) == IF i = 1 THEN h ELSE content[h][i - 1]

\* Following the pointers forwards gives the content of the list, and where
\* the macros keep them, prev and last are the addresses of the pointers to
\* the element and to NULL, so that TAILQ_PREV and TAILQ_LAST, which read an
\* entry as if it were a head, walk the list backwards.
ListsHold ==
  kind # Null => \A h \in QHead :
    LET c == content[h]
        n == Len(c)
    IN  /\ \A i \in 1 .. n :
             /\ q.next[Pointer(h, i)] = c[i]
             /\ kind \in {"LIST", "TAILQ"} => q.prev[c[i]] = Pointer(h, i)
             /\ kind = "TAILQ" => TAILQ_PREV(q, c[i]) = IF i = 1 THEN Null ELSE c[i - 1]
        /\ q.next[Pointer(h, n + 1)] = Null
        /\ kind \in {"STAILQ", "TAILQ"} => q.last[h] = Pointer(h, n + 1)
        /\ kind = "TAILQ" => TAILQ_LAST(q, h) = IF n = 0 THEN Null ELSE c[n]

=============================================================================
