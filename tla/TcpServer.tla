----------------------------- MODULE TcpServer ------------------------------
(***************************************************************************)
(* Kmuduo's TcpServer: Acceptor, TcpConnection, Channel and EPollPoller    *)
(* over the event loops, with the application on top: the key-value store  *)
(* (NETWORK_KMUDUO, kmuduo_entry.cc) or, as network "ECHO", the echo       *)
(* server of example/testserver.cc.                                        *)
(*                                                                         *)
(* A TcpConnection lives while a shared_ptr to it does: in connections_,   *)
(* in a functor of some loop (the vector of doPendingFunctors included) or *)
(* on the stack of a callback.  Destroying it closes its descriptor.  The  *)
(* index_ of a channel says whether epoll has it: every change of one is a *)
(* change of the other.                                                    *)
(***************************************************************************)
EXTENDS EventLoop

VARIABLES
  tcp,           \* tcp[k]: the TcpConnection and its Channel, or None
  connections_,  \* the connections TcpServer holds
  channels_,     \* the ChannelMap of each poller: <<loop, descriptor, k>>
  stopped        \* "no", "sigpipe" or "terminate"

tcpvars == <<tcp, connections_, channels_, stopped>>
vars == <<tcpvars, loopvars, netvars>>

Init ==
  /\ NetInit /\ LoopInit
  /\ tcp = [k \in Conn |-> None]
  /\ connections_ = {} /\ channels_ = {} /\ stopped = "no"

NewTcp(l) ==
  [state |-> "kConnection", loop |-> l, index |-> "kNew", events |-> {},
   output |-> 0, shut |-> FALSE, alive |-> TRUE]

TcpConnection ==
  [state  : {"kConnection", "kConnected", "kDisconnecting", "kDisconnected"}, loop : Loop,
   index  : {"kNew", "kAdded", "kDeleted"}, events : SUBSET {"in", "out"},
   output : Nat, shut : BOOLEAN, alive : BOOLEAN]

\* None is no connection and no functor; "wakeup" and "listen" are the
\* channels of a loop's eventfd and of the Acceptor.
ASSUME NamesAssumption ==
  /\ None \notin TcpConnection \cup {"writeComplete", "removeConnection"}
  /\ Conn \cap {"wakeup", "listen"} = {}

Alive(k) == tcp[k] # None /\ tcp[k].alive

isWriting(x) == "out" \in x.events

-----------------------------------------------------------------------------
(* Channel and EPollPoller.  What epoll reports for a registered channel.  *)

Revents(k) ==
  LET c == conn[k]
      x == tcp[k]
  IN  {e \in x.events : \/ e = "in"  /\ (c.in # None \/ c.fin \/ c.err # "no")
                        \/ e = "out" /\ (c.out < Capacity(k) \/ c.err # "no")}
      \cup {e \in {"err"} : c.err = "reset"}
      \cup {e \in {"hup"} : c.err # "no" \/ (c.fin /\ x.shut)}

Found(t) ==
  {[ch |-> "wakeup", rev |-> {"in"}] : l \in {m \in {t} : loop[m].wakeup}}
  \cup {[ch |-> "listen", rev |-> {"in"}] : l \in {m \in {t} : m = Base /\ queue # <<>>}}
  \cup {[ch |-> k, rev |-> Revents(k)] :
          k \in {j \in Conn : Alive(j) /\ tcp[j].loop = t /\ tcp[j].index = "kAdded"
                              /\ Revents(j) # {}}}

\* EPollPoller::updateChannel, but for channels_.
updateChannel(x) ==
  [x EXCEPT !.index = IF x.index # "kAdded" THEN "kAdded"
                      ELSE IF x.events = {} THEN "kDeleted" ELSE "kAdded"]

enableWriting(x) == updateChannel([x EXCEPT !.events = @ \cup {"out"}])
disableAll(x)    == updateChannel([x EXCEPT !.events = {}])

\* channels_[fd] = channel and channels_.erase(fd).
Erased(l, f)      == {e \in channels_ : ~(e[1] = l /\ e[2] = f)}
Inserted(l, f, k) == Erased(l, f) \cup {<<l, f, k>>}

-----------------------------------------------------------------------------
(* TcpConnection.  A callback works on w = [c, x, cap, got, call, stop]:   *)
(* the socket, the connection, the capacity of its send buffer, what       *)
(* readFd returned, the functor it hands to a loop, and whether the        *)
(* process survives.                                                       *)

Work(k) ==
  [c |-> conn[k], x |-> tcp[k], cap |-> Capacity(k), got |-> "nothing", call |-> None,
   stop |-> "no"]

\* A plausible slip: the server is not told.
handleClose_NotTold(w) ==
  [w EXCEPT !.x = [disableAll(w.x) EXCEPT !.state = "kDisconnected"]]

handleClose(w) ==
  [w EXCEPT !.x = [disableAll(w.x) EXCEPT !.state = "kDisconnected"],
            !.call = "removeConnection"]

\* getsockopt(SO_ERROR) takes the error off the socket.
handleError(w) == [w EXCEPT !.c.err = IF @ = "reset" THEN "pipe" ELSE @]

\* TcpConnection::handleRead, up to the message callback.
handleReadConn(w) ==
  CASE w.c.in # None -> [w EXCEPT !.got = "data", !.c.in = None]
    [] w.c.in = None /\ w.c.err = "reset" -> handleError(w)
    [] w.c.in = None /\ w.c.err # "reset" -> handleClose(w)

\* ::write of n bytes, and what is left of them.
Writes(w, n) ==
  LET m == Min({n, w.cap - w.c.out})
  IN  CASE w.c.err = "no"    -> [w EXCEPT !.c.out = @ + m, !.x.output = n - m]
        [] w.c.err = "reset" -> [handleError(w) EXCEPT !.x.output = n]
        [] w.c.err = "pipe"  -> [w EXCEPT !.stop = "sigpipe"]

\* Plausible slips: the rest of a partial write is dropped; the callback is
\* queued without asking whether it is set.
sendInLoop_Drops(w) ==
  IF w.x.state = "kDisconnected" THEN w ELSE [Writes(w, ReplyLen) EXCEPT !.x.output = 0]

sendInLoop_NotAsked(w) ==
  IF w.x.state = "kDisconnected" THEN w
  ELSE LET v == Writes(w, ReplyLen)
       IN  IF v.x.output = 0 THEN [v EXCEPT !.call = "writeComplete"]
           ELSE [v EXCEPT !.x = enableWriting(v.x)]

\* ECONNRESET drops the reply; a partial write keeps the rest of it.
sendInLoop(w) ==
  IF w.x.state = "kDisconnected" THEN w
  ELSE IF isWriting(w.x) \/ w.x.output > 0 THEN [w EXCEPT !.x.output = @ + ReplyLen]
  ELSE LET v == Writes(w, ReplyLen)
       IN  IF w.c.err = "reset" THEN [v EXCEPT !.x.output = 0]
           ELSE IF v.x.output > 0 /\ ~isWriting(v.x) THEN [v EXCEPT !.x = enableWriting(v.x)]
           ELSE v

send(w) == IF w.x.state = "kConnected" THEN sendInLoop(w) ELSE w

shutdownInLoop(w) == IF isWriting(w.x) THEN w ELSE [w EXCEPT !.x.shut = TRUE]

shutdown(w) ==
  IF w.x.state = "kConnected"
  THEN shutdownInLoop([w EXCEPT !.x.state = "kDisconnecting"])
  ELSE w

\* Nothing ever disables writing again.  writeCompleteCallback_ is queued
\* when the buffer is empty, also when nobody has set it.
handleWrite(w) ==
  IF ~isWriting(w.x) THEN w
  ELSE LET v == Writes(w, w.x.output)
           sent == w.c.err = "no" /\ v.x.output < w.x.output
           d == IF sent /\ v.x.output = 0 THEN [v EXCEPT !.call = "writeComplete"] ELSE v
       IN  IF sent /\ d.x.state = "kDisconnecting" THEN shutdownInLoop(d) ELSE d

\* handleEventWithGuard: the callbacks before the message callback, and the
\* one after it.
Before(w, rev) ==
  LET h == IF "hup" \in rev /\ "in" \notin rev THEN handleClose(w) ELSE w
      e == IF "err" \in rev THEN handleError(h) ELSE h
  IN  IF "in" \in rev THEN handleReadConn(e) ELSE e

After(w, rev) == IF "out" \in rev THEN handleWrite(w) ELSE w

-----------------------------------------------------------------------------
(* The steps of a loop's thread.                                           *)

\* TcpServer::removeConnection, called in thread t, ends in the main loop;
\* writeCompleteCallback_ is queued to the loop of the connection.
HandOver(lp, t, k, call) ==
  CASE call = None -> lp
    [] call = "writeComplete" -> queueLoop(lp, t, t, Functor("writeComplete", k))
    [] call = "removeConnection" ->
         IF t = Base THEN queueLoop(lp, t, t, Functor("connectionDestroyed", k))
         ELSE queueLoop(lp, t, Base, Functor("removeConnectionInLoop", k))

\* The end of a callback of connection k in thread t.
Done(t, k, w, lp) ==
  /\ conn' = [conn EXCEPT ![k] = w.c] /\ tcp' = [tcp EXCEPT ![k] = w.x]
  /\ loop' = HandOver(lp, t, k, w.call)
  /\ connections_' = IF w.call = "removeConnection" /\ t = Base THEN connections_ \ {k}
                     ELSE connections_
  /\ stopped' = w.stop

\* Channel::handleEvent.  When there is a message, the application gets it.
handleEvent(t, k) ==
  /\ Event(t, k)
  /\ LET rev == Head(loop[t].active).rev
         w   == Before(Work(k), rev)
     IN  IF w.got = "data" THEN Done(t, k, w, [loop EXCEPT ![t].phase = "message"])
         ELSE Done(t, k, After(w, rev), NextEvent(loop, t))
  /\ UNCHANGED <<channels_, queue, faults, given, loops_, next_>>

\* onMessage: kvstore_requese, and send; the echo server then shuts down.
onMessage(t, k) ==
  /\ At(t, "message") /\ Head(loop[t].active).ch = k
  /\ LET w == send(Work(k))
         v == IF network = "ECHO" THEN shutdown(w) ELSE w
     IN  Done(t, k, IF v.stop = "no" THEN After(v, Head(loop[t].active).rev) ELSE v,
              [NextEvent(loop, t) EXCEPT ![t].phase = "events"])
  /\ UNCHANGED <<channels_, queue, faults, given, loops_, next_>>

connectionEstablished(x) ==
  updateChannel([x EXCEPT !.state = "kConnected", !.events = @ \cup {"in"}])

\* A plausible slip: the server does not keep the connection.
newConnection_NotKept(k, f) ==
  LET io == getNextLoop
  IN  /\ Advance /\ UNCHANGED connections_
      /\ loop' = queueLoop(NextEvent(loop, Base), Base, io, Functor("connectionEstablished", k))
      /\ tcp' = [tcp EXCEPT ![k] = NewTcp(io)] /\ UNCHANGED channels_

newConnection(k, f) ==
  LET io == getNextLoop
  IN  /\ Advance /\ connections_' = connections_ \cup {k}
      /\ IF io = Base
         THEN /\ tcp' = [tcp EXCEPT ![k] = connectionEstablished(NewTcp(io))]
              /\ channels_' = Inserted(io, f, k)
              /\ loop' = NextEvent(loop, Base)
         ELSE /\ tcp' = [tcp EXCEPT ![k] = NewTcp(io)]
              /\ loop' = queueLoop(NextEvent(loop, Base), Base, io,
                                   Functor("connectionEstablished", k))
              /\ UNCHANGED channels_

\* Acceptor::handleRead.
AcceptorRead ==
  /\ Event(Base, "listen")
  /\ \/ /\ FreeFd # {}
        /\ conn' = [conn EXCEPT ![Head(queue)].fd = Min(FreeFd)] /\ queue' = Tail(queue)
        /\ newConnection(Head(queue), Min(FreeFd)) /\ UNCHANGED faults
     \/ /\ FreeFd = {} /\ loop' = NextEvent(loop, Base)   \* EMFILE
        /\ UNCHANGED <<conn, queue, faults, tcp, connections_, channels_, next_>>
     \/ /\ Fault("ECONNABORTED") /\ loop' = NextEvent(loop, Base)
        /\ conn' = [conn EXCEPT ![Head(queue)].cl = "gone"] /\ queue' = Tail(queue)
        /\ UNCHANGED <<tcp, connections_, channels_, next_>>
  /\ UNCHANGED <<stopped, given, loops_>>

RunEstablished(t, k) ==
  /\ Calls(t, "connectionEstablished", k) /\ loop' = Called(loop, t)
  /\ tcp' = [tcp EXCEPT ![k] = connectionEstablished(@)]
  /\ channels_' = Inserted(t, conn[k].fd, k)
  /\ UNCHANGED <<connections_, stopped, netvars, loops_, next_>>

removeConnectionInLoop(k) ==
  /\ Calls(Base, "removeConnectionInLoop", k)
  /\ connections_' = connections_ \ {k}
  /\ loop' = queueLoop(Called(loop, Base), Base, tcp[k].loop, Functor("connectionDestroyed", k))
  /\ UNCHANGED <<tcp, channels_, stopped, netvars, loops_, next_>>

\* connectionDestroyed, with EPollPoller::removeChannel.
connectionDestroyed(t, k) ==
  /\ Calls(t, "connectionDestroyed", k) /\ loop' = Called(loop, t)
  /\ LET x == IF tcp[k].state = "kConnected"
              THEN [disableAll(tcp[k]) EXCEPT !.state = "kDisconnected"] ELSE tcp[k]
     IN  tcp' = [tcp EXCEPT ![k] = [x EXCEPT !.index = "kDeleted"]]
  /\ channels_' = Erased(t, conn[k].fd)
  /\ UNCHANGED <<connections_, stopped, netvars, loops_, next_>>

\* The std::function is empty: calling it throws, and nobody catches.
writeComplete(t, k) ==
  /\ Calls(t, "writeComplete", k) /\ loop' = Called(loop, t)
  /\ stopped' = "terminate"
  /\ UNCHANGED <<tcp, connections_, channels_, netvars, loops_, next_>>

\* The functors that hold a TcpConnectionPtr, in every loop but t.
Refers(q) == {f.k : f \in Range(q)}

HeldElsewhere(t) ==
  connections_ \cup (UNION {Refers(loop[l].pending) : l \in Loop})
               \cup (UNION {Refers(loop[l].functors) : l \in Loop \ {t}})

\* The end of doPendingFunctors: the last reference to a connection may go.
destroyFunctors(t) ==
  /\ FunctorsEnd(t)
  /\ LET gone == Refers(loop[t].functors) \ HeldElsewhere(t)
     IN  /\ conn' = [k \in Conn |-> IF k \in gone THEN [conn[k] EXCEPT !.fd = Bad] ELSE conn[k]]
         /\ tcp'  = [k \in Conn |-> IF k \in gone THEN [tcp[k] EXCEPT !.alive = FALSE] ELSE tcp[k]]
  /\ UNCHANGED <<connections_, channels_, stopped, queue, faults, given, loops_, next_>>

RunFunctors(t) ==
  \/ \E k \in Conn : \/ RunEstablished(t, k) \/ connectionDestroyed(t, k) \/ writeComplete(t, k)
                     \/ t = Base /\ removeConnectionInLoop(k)
  \/ destroyFunctors(t)

\* The steps of the thread of loop t, but for the timeout of its poll.
Thread(t) ==
  /\ stopped = "no"
  /\ \/ poll(t, Found(t)) /\ UNCHANGED <<tcpvars, netvars, loops_, next_>>
     \/ handleRead(t) /\ UNCHANGED <<tcpvars, netvars, loops_, next_>>
     \/ t = Base /\ AcceptorRead
     \/ \E k \in Conn : handleEvent(t, k) \/ onMessage(t, k)
     \/ doPendingFunctors(t) /\ UNCHANGED <<tcpvars, netvars, loops_, next_>>
     \/ RunFunctors(t)
     \/ wakeup(t) /\ UNCHANGED <<tcpvars, netvars, loops_, next_>>

Timeout(t) ==
  /\ stopped = "no"
  /\ pollTimeout(t, Found(t)) /\ UNCHANGED <<tcpvars, netvars, loops_, next_>>

ClientStep(k) == Client(k) /\ UNCHANGED <<tcpvars, loopvars>>

Next ==
  \/ \E t \in Loop : Thread(t) \/ Timeout(t)
  \/ \E k \in Conn : ClientStep(k)

Receives(k) == (Read(k) \/ Refuse(k)) /\ UNCHANGED <<tcpvars, loopvars>>

\* Every thread runs; no thread may count on the timeout of its poll.
Spec ==
  /\ Init /\ [][Next]_vars
  /\ \A t \in Loop : WF_vars(Thread(t))
  /\ \A k \in Conn : WF_vars(Receives(k))

-----------------------------------------------------------------------------
\* Shapes of the state.  A socket never holds more than its send buffer.
TypeOK ==
  /\ conn \in [Conn -> ConnRecord] /\ \A k \in Conn : conn[k].out <= Capacity(k)
  /\ tcp \in [Conn -> TcpConnection \cup {None}] /\ connections_ \subseteq Conn
  /\ loop \in [Loop -> LoopRecord] /\ \A l \in Loop : loop[l].ran <= Len(loop[l].functors)
  /\ next_ \in 1 .. Max({1, Len(loops_)})

\* The Channel of a connection that is open, and of one that is closed.
Opened(x) == x.state \in {"kConnected", "kDisconnecting"} /\ x.index = "kAdded" /\ "in" \in x.events
Closed(x) == x.state = "kDisconnected" /\ x.index = "kDeleted" /\ x.events = {}

\* No wakeup is lost: a loop that is about to wait while it has functors
\* will find its eventfd readable, or a thread is just about to write to it.
NoLostWakeup ==
  \A l \in Running :
    loop[l].phase = "poll" /\ loop[l].pending # <<>>
      => loop[l].wakeup \/ \E t \in Running : loop[t].owes = l

\* A destroyed connection is nowhere: its channel is in no poller and in no
\* list of active channels, no functor and no thread refers to it, and its
\* descriptor is closed.  All that is a raw pointer in the code.  And a live
\* one is where it belongs: from connectionEstablished to connectionDestroyed
\* the ChannelMap of its loop's poller has its channel under its descriptor,
\* although descriptors are reused and the connections that had them may have
\* been on another loop.
DestroyedIsNowhere ==
  /\ TypeOK
  /\ \A k \in Conn : tcp[k] # None /\ ~tcp[k].alive =>
       /\ tcp[k].index = "kDeleted" /\ conn[k].fd = Bad
       /\ k \notin connections_ /\ \A e \in channels_ : e[3] # k
       /\ \A l \in Loop : /\ \A i \in DOMAIN loop[l].active : loop[l].active[i].ch # k
                          /\ \A i \in DOMAIN Todo(l) : Todo(l)[i].k # k
  /\ \A e \in channels_ : Alive(e[3]) /\ tcp[e[3]].loop = e[1] /\ conn[e[3]].fd = e[2]
  /\ \A k \in Conn : tcp[k] # None /\ tcp[k].index = "kAdded"
                       => <<tcp[k].loop, conn[k].fd, k>> \in channels_

\* The process ends only when a connection was reset under a reply, or when
\* a client did not read its reply fast enough to take it in one write.
EndsOnlyThen ==
  /\ stopped = "sigpipe" => \E k \in Conn : conn[k].err = "pipe"
  /\ stopped = "terminate" => \E k \in Conn : tcp[k] # None /\ isWriting(tcp[k])

Replying(k) ==
  conn[k].in = None /\ \A t \in Loop : loop[t].phase = "message" => Head(loop[t].active).ch # k

\* No byte of a reply is lost, sent twice or stuck: what the client has
\* read, what is on its way and what waits in outputBuffer_ is the reply,
\* and while anything waits the channel asks for EPOLLOUT.
ReplyConserved ==
  \A k \in Conn :
    /\ tcp[k] # None => tcp[k].output <= ReplyLen
    /\ Alive(k) /\ conn[k].cl = "asked" /\ conn[k].err = "no" =>
         /\ conn[k].got + conn[k].out + tcp[k].output = IF Replying(k) THEN ReplyLen ELSE 0
         /\ tcp[k].output > 0 => isWriting(tcp[k])

FQ == INSTANCE FunctorQueue
        WITH Functors <- FunctorSet,
             todo <- [l \in Loop |-> IF stopped = "no" THEN Todo(l) ELSE <<>>]

\* The loops implement the queue of functors: each is called once, by its
\* loop, in order, although loops queue to each other while they call.
ImplementsFunctorQueue == FQ!Spec

\* A connection whose client is gone is released: handleClose, the main loop
\* and connectionDestroyed follow in the end, and its descriptor is closed.
EveryConnectionReleased ==
  \A k \in Conn :
    conn[k].cl = "gone" /\ conn[k].fd # Bad ~> conn[k].fd = Bad \/ stopped # "no"

=============================================================================
