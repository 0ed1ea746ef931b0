---------------------------- MODULE MCFrontEnds -----------------------------
EXTENDS FrontEnds

CONSTANTS k1, k2

\* The first round of rbtree_testcase_5w_node, and a client that only counts.
\* One request each for the coroutines, which clear their buffer every time.
Scripts ==
  [n \in Network |->
     IF n = "NTYCO" THEN [k \in Conn |-> <<"rcount">>]
     ELSE (k1 :> <<"rset", "rcount">>) @@ (k2 :> <<"rcount">>)]

\* A reply fits into the buffer of the first client of the ring; all others
\* take it in two pieces.
Rooms == [n \in Network |-> [k \in Conn |-> IF n = "IOURING" /\ k = k1 THEN 2 ELSE 1]]

AllReset == [n \in Network |-> Conn]

TwoFds == {5, 6}

\* RSET Name0 King0 and RCOUNT, at half their size.
Lengths    == ("rset" :> 8) @@ ("rcount" :> 3)
Separators == ("rset" :> {2, 5}) @@ ("rcount" :> {})

=============================================================================
