---------------------------- MODULE MCTcpServer -----------------------------
EXTENDS TcpServer, TLC

CONSTANTS k1, k2, s1, s2, ask

Scripts ==
  [n \in Network |-> (k1 :> <<ask>>) @@ (k2 :> IF n = "ECHO" THEN <<ask>> ELSE <<>>)]

\* A reply to k1 fits the send buffer, one to k2 needs two writes.
Rooms == [n \in Network |-> (k1 :> 2) @@ (k2 :> 1)]

Resetting == [n \in Network |-> IF n = "ECHO" THEN Conn ELSE {}]

TwoFds == {5, 6}

\* Two connections at a time on one other loop, or one at a time, whose
\* descriptor the next one gets on another loop; the echo server without
\* a pool.
Pools ==
  [w \in Network \X Limit |->
     CASE w = <<"KMUDUO", 5>> -> {<<s1, s2>>} [] w = <<"KMUDUO", 6>> -> {<<s1>>}
       [] w = <<"ECHO", 5>> -> {} [] w = <<"ECHO", 6>> -> {<<>>}]

=============================================================================
