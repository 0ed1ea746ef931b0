------------------------------ MODULE Sockets -------------------------------
(***************************************************************************)
(* The environment of the network front ends: the TCP sockets of the       *)
(* kernel and the clients at their other end, as far as the code under     *)
(* src/ can tell them apart.  A client behaves like testcase.c: it sends a *)
(* request, waits for the reply, and closes or resets at any time.  A      *)
(* connection is used once; descriptors are reused.                        *)
(***************************************************************************)
EXTENDS Integers, Sequences, FiniteSetsExt

CONSTANTS
  Conn,       \* the connections the clients make
  Reading,    \* those whose client reads what it is sent
  Request,    \* what a client can ask
  Fd,         \* descriptors of accepted connections
  Limit,      \* possible values of the limit on descriptors
  Network,    \* the front ends considered: see FrontEnds and TcpServer
  None,       \* no request, no connection, no coroutine
  ReplyLen,   \* length of a reply
  Room,       \* Room[n][k]: capacity of the send buffer of connection k
  Script,     \* Script[n][k]: what is asked on connection k of front end n
  Resets,     \* Resets[n]: the connections whose client may reset them
  MaxFault    \* failures of accept and of allocation

ASSUME SocketsAssumption ==
  /\ IsFiniteSet(Conn) /\ Reading \subseteq Conn /\ None \notin Request
  /\ Fd \cup Limit \subseteq Nat \ {0}
  /\ ReplyLen \in Nat \ {0} /\ MaxFault \in Nat
  /\ \A n \in Network, k \in Conn : Room[n][k] \in Nat \ {0} /\ Script[n][k] \in Seq(Request)

Listen == 0    \* the listening descriptor
Bad    == -1   \* what a failed accept returns

VARIABLES
  conn,      \* the connections
  queue,     \* the accept queue
  faults,    \* failures so far: what failed, in order
  limit,     \* the highest descriptor the process may have
  network    \* the front end the program is built with

given   == <<limit, network>>
netvars == <<conn, queue, faults, given>>

\* cl is the client's state; in what the server has still to read; out and
\* got count the bytes of the reply under way and received; fd is the
\* server's descriptor.  err is the pending error of the server's socket:
\* "reset" is ECONNRESET, reported once; after it, or when the peer had
\* closed first, a send raises SIGPIPE ("pipe").
NewConn == [cl |-> "none", asks |-> 0, in |-> None, fin |-> FALSE, err |-> "no",
            out |-> 0, got |-> 0, fd |-> Bad]

ConnRecord ==
  [cl : {"none", "idle", "asked", "gone"}, asks : Nat, in : Request \cup {None}, fin : BOOLEAN,
   err : {"no", "reset", "pipe"}, out : Nat, got : Nat, fd : Fd \cup {Bad}]

NetInit ==
  /\ conn = [k \in Conn |-> NewConn] /\ queue = <<>> /\ faults = <<>>
  /\ limit \in Limit /\ network \in Network

Open(f) == {k \in Conn : conn[k].fd = f}

Peer(f) == CHOOSE k \in Conn : conn[k].fd = f

Capacity(k) == Room[network][k]

FreeFd == {f \in Fd : f <= limit /\ Open(f) = {}}

\* Does epoll report the registration r = [fd, ev]; HUP comes unasked.
Hup(f) == f # Listen /\ conn[Peer(f)].err # "no"

Reports(r) ==
  IF r.fd = Listen THEN queue # <<>>
  ELSE LET s == conn[Peer(r.fd)]
       IN  \/ s.err # "no"
           \/ r.ev = "in" /\ (s.in # None \/ s.fin)
           \/ r.ev = "out" /\ s.out < Capacity(Peer(r.fd))

Fault(what) == Len(faults) < MaxFault /\ faults' = Append(faults, what)

Count(what) == Cardinality({i \in DOMAIN faults : faults[i] \in what})

-----------------------------------------------------------------------------
Update(k, s) == conn' = [conn EXCEPT ![k] = s] /\ UNCHANGED <<faults, given>>

Connect(k) ==
  /\ conn[k].cl = "none"
  /\ Update(k, [conn[k] EXCEPT !.cl = "idle"])
  /\ queue' = Append(queue, k)

Ask(k) ==
  /\ conn[k].cl = "idle" /\ conn[k].asks < Len(Script[network][k])
  /\ Update(k, [conn[k] EXCEPT !.cl = "asked", !.asks = @ + 1,
                              !.in = Script[network][k][conn[k].asks + 1]])
  /\ UNCHANGED queue

\* The reply is complete with its last byte.
Read(k) ==
  /\ k \in Reading /\ conn[k].cl = "asked" /\ conn[k].out > 0
  /\ LET whole == conn[k].got + 1 = ReplyLen
     IN  Update(k, [conn[k] EXCEPT !.out = @ - 1, !.got = IF whole THEN 0 ELSE @ + 1,
                                   !.cl = IF whole THEN "idle" ELSE "asked"])
  /\ UNCHANGED queue

\* Closing with unread data resets the connection.
CloseClient(k) ==
  /\ conn[k].cl \in {"idle", "asked"}
  /\ \/ /\ conn[k].out = 0
        /\ Update(k, [conn[k] EXCEPT !.cl = "gone", !.fin = TRUE])
     \/ /\ k \in Resets[network] \/ conn[k].out > 0
        /\ Update(k, [conn[k] EXCEPT !.cl = "gone", !.err = "reset", !.out = 0])
  /\ UNCHANGED queue

\* What is sent to a client that has closed comes back as a reset.
Refuse(k) ==
  /\ conn[k].cl = "gone" /\ conn[k].out > 0 /\ conn[k].fd # Bad
  /\ Update(k, [conn[k] EXCEPT !.err = "pipe", !.out = 0])
  /\ UNCHANGED queue

Client(k) == Connect(k) \/ Ask(k) \/ Read(k) \/ CloseClient(k) \/ Refuse(k)

=============================================================================
