----------------------------- MODULE FrontEnds ------------------------------
(***************************************************************************)
(* The single-threaded front ends main can be built with: the coroutine    *)
(* server (the default), the epoll reactor and the io_uring loop.          *)
(* ENABLE_NETWORK_SELECT is fixed when the program is compiled, so it is   *)
(* chosen in the initial state and never changes.                          *)
(***************************************************************************)
EXTENDS NtyServer, EpollReactor, IoUring

vars == <<netvars, ntyvars, epollvars, ringvars>>

Init == NetInit /\ NtyInit /\ EpollInit /\ RingInit

NtyStep == network = "NTYCO" /\ Scheduler /\ UNCHANGED <<epollvars, ringvars>>

EpollStep == network = "EPOLL" /\ Reactor /\ UNCHANGED <<ntyvars, ringvars>>

RingStep == network = "IOURING" /\ Ring /\ UNCHANGED <<ntyvars, epollvars>>

Loop == NtyStep \/ EpollStep \/ RingStep

\* The kernel completes the operation of item b, or accept (b = None).
KernelStep(b) ==
  /\ network = "IOURING"
  /\ \E op \in inflight : op.item = b /\ (AcceptDone(op) \/ ReadDone(op) \/ WriteDone(op))
  /\ UNCHANGED <<ntyvars, epollvars>>

ClientStep(k) == Client(k) /\ UNCHANGED <<ntyvars, epollvars, ringvars>>

Operation == {Op("ACCEPT", None)} \cup {Op(e, b) : e \in {"READ", "WRITE"}, b \in Item}

Next ==
  \/ Loop
  \/ \E b \in Item \cup {None} : KernelStep(b)
  \/ \E k \in Conn : ClientStep(k)

Receives(k) ==
  /\ Read(k) \/ Refuse(k)
  /\ UNCHANGED <<ntyvars, epollvars, ringvars>>

\* The loops run, the kernel completes what can complete, the clients that
\* read their replies do so in the end, and the peer of a closed connection
\* refuses what it is sent.
Spec ==
  /\ Init /\ [][Next]_vars
  /\ WF_vars(Loop)
  /\ \A b \in Item \cup {None} : WF_vars(KernelStep(b))
  /\ \A k \in Conn : WF_vars(Receives(k))

-----------------------------------------------------------------------------
\* Shapes of the state of the reactor and of the ring.
TypeOK ==
  /\ loop \in {"wait", "events", "send", "assert", "sigpipe"}
  /\ ring \in {"submit", "wait", "batch", "down"}
  /\ watch \subseteq [fd : Fd \cup {Listen}, ev : {"in", "out"}]
  /\ \A f \in Fd : connlist[f] \subseteq 0 .. BUFFER_LENGTH
  /\ left \in 0 .. ReplyLen /\ nready \in 0 .. Batch /\ pos \in 1 .. Batch + 1
  /\ Range(sq) \cup inflight \cup {e.op : e \in Range(cq)} \subseteq Operation

\* The reactor watches every connection it has open, once, and nothing else:
\* recv_cb and send_cb take turns through set_event, and a disconnect ends
\* the registration with the descriptor.  What is left of the batch is still
\* open and registered as it was reported, although earlier callbacks of the
\* batch have closed descriptors and accept_cb has reused their numbers.
WatchesOpen ==
  /\ \A f \in Fd : Cardinality({r \in watch : r.fd = f}) = Cardinality(Open(f)) \/ network # "EPOLL"
  /\ Range(evlist) \subseteq watch

\* The reactor misreads a request only after a longer one on the same
\* connection: accept_cb clears the buffer of a reused descriptor, but
\* recv_cb does not clear it between requests.  The ring runs every request
\* as it was sent: the NUL behind it hides what an earlier one has left.
MisreadAfterLonger ==
  /\ ran.asked # None /\ ~ran.intact => ran.longer
  /\ served.asked # None => served.intact

\* What each request of testcase.c relies on: the server runs the request it
\* was sent, whatever was sent on the connection before.
IntactRequests == ran.asked # None => ran.intact

\* Every conn_item has exactly one operation, prepared, with the kernel, or
\* completed and not yet handled; accept has exactly one too.  So the loop
\* never handles two completions of one connection at a time, no completion
\* names an item that has been freed, and no connection is forgotten.
OneOperationEach ==
  LET done == SubSeq(cq, pos, Len(cq))
      ops(b) == Cardinality({i \in DOMAIN sq : sq[i].item = b})
                + Cardinality({op \in inflight : op.item = b})
                + Cardinality({i \in DOMAIN done : done[i].op.item = b})
  IN  /\ ops(None) = 1
      /\ \A b \in Item : ops(b) = IF item[b] = None THEN 0 ELSE 1

\* Every descriptor the kernel has given to the ring has one item, once its
\* completion is handled, and an item has its own open descriptor.
OneItemEach ==
  \A f \in Fd :
    /\ Cardinality({b \in Item : item[b] # None /\ item[b].fd = f}) <= Cardinality(Open(f))
    /\ network = "IOURING" /\ Open(f) # {} =>
         \/ \E b \in Item : item[b] # None /\ item[b].fd = f
         \/ \E i \in DOMAIN cq : cq[i].op.event = "ACCEPT" /\ cq[i].res = f

\* Whatever the network, every open connection has exactly one who serves
\* it: one reader, one registration of the reactor, one item of the ring with
\* one operation.  Nobody serves a connection that is closed.
OneServerEach ==
  TypeOK /\ OneReaderEach /\ WatchesOpen /\ OneOperationEach /\ OneItemEach

\* The ways the process can end by itself.  Those of the coroutines are in
\* NtyServer.  The reactor dies only of a misread command word or of a reset
\* connection.  The ring never does: io_uring_get_sqe, whose result nobody
\* checks, never finds the submission queue full, as a batch prepares at
\* most one operation for each completion, and one more for the accept.
StopsOnlyThen ==
  /\ NtyStopsOnlyThen
  /\ loop = "assert" => ~ran.intact
  /\ loop = "sigpipe" => \E k \in Conn : conn[k].err = "pipe"
  /\ ring # "down"

\* The reactor is in its blocking send to a client that does not read.
BlockedInSend ==
  network = "EPOLL" /\ loop = "send" /\ Open(Head(evlist).fd) \cap Reading = {}

\* Every request of a client that reads its replies is answered, or the
\* client goes, whatever the other clients do: one that does not read holds
\* up only its own coroutine, or its own operation of the ring.  The send of
\* the reactor blocks for all, and then it is in it forever.  The exceptions:
\* the process has stopped; the descriptors have run out before the client's
\* connection was accepted; nty_coroutine_create failed, and nobody reads the
\* connection; the ring took a short send of this reply for a whole one.
EveryRequestAnswered ==
  \/ <>[]BlockedInSend
  \/ \A k \in Reading :
       conn[k].cl = "asked"
         ~> \/ conn[k].cl # "asked"
            \/ network # "NTYCO" /\ FreeFd = {} /\ k \in Range(queue)
            \/ network = "NTYCO" /\ (NtyStopped \/ k \in Orphans)
            \/ network = "EPOLL" /\ EpollStopped
            \/ network = "IOURING" /\ k \in cut

=============================================================================
