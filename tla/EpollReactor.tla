---------------------------- MODULE EpollReactor ----------------------------
(***************************************************************************)
(* The reactor of epoll_entry.c (NETWORK_EPOLL): one thread, blocking      *)
(* sockets, and per descriptor an entry of connlist that lives as long as  *)
(* the process.                                                            *)
(***************************************************************************)
EXTENDS Sockets, RequestBuffer, SequencesExt

VARIABLES
  loop,       \* "wait", "events", "send" (blocked in send), or how it ended
  evlist,     \* what epoll_wait returned and is not handled yet
  watch,      \* the registrations of epfd
  connlist,   \* connlist[fd]: where the NULs of rbuffer are
  left,       \* what the send in progress has still to write
  ran,        \* what the last step ran: what was asked, and was it intact
  longest     \* history: the longest request of every connection so far

epollvars == <<loop, evlist, watch, connlist, left, ran, longest>>

Nothing == [asked |-> None, intact |-> TRUE, longer |-> FALSE]

EpollInit ==
  /\ loop = "wait" /\ evlist = <<>> /\ left = 0
  /\ watch = {[fd |-> Listen, ev |-> "in"]}
  /\ connlist = [f \in Fd |-> Cleared]
  /\ ran = Nothing
  /\ longest = [k \in Conn |-> 0]

-----------------------------------------------------------------------------
\* epoll_wait(epfd, events, 1024, -1): it sleeps until there is an event.
epoll_wait ==
  /\ loop = "wait"
  /\ \E s \in SetToSeqs({r \in watch : Reports(r)}) : s # <<>> /\ evlist' = s
  /\ loop' = "events"
  /\ ran' = Nothing /\ UNCHANGED <<watch, connlist, left, longest, netvars>>

\* The next event, and where the loop over the events is after it.
Event(f, ev) == loop = "events" /\ Head(evlist) = [fd |-> f, ev |-> ev]

Handled == evlist' = Tail(evlist) /\ loop' = IF Len(evlist) = 1 THEN "wait" ELSE "events"

\* set_event(fd, event, 0).
set_event(f, ev) == watch' = {r \in watch : r.fd # f} \cup {[fd |-> f, ev |-> ev]}

\* A plausible slip: the entry is not cleared for the new connection.
accept_cb_NotCleared ==
  /\ Event(Listen, "in") /\ Handled
  /\ \/ /\ FreeFd # {}
        /\ conn' = [conn EXCEPT ![Head(queue)].fd = Min(FreeFd)]
        /\ queue' = Tail(queue)
        /\ set_event(Min(FreeFd), "in")
        /\ UNCHANGED <<faults, connlist>>
     \/ FreeFd = {} /\ UNCHANGED <<conn, queue, faults, watch, connlist>>
  /\ ran' = Nothing /\ UNCHANGED <<left, longest, given>>

accept_cb ==
  /\ Event(Listen, "in") /\ Handled
  /\ \/ /\ FreeFd # {}
        /\ conn' = [conn EXCEPT ![Head(queue)].fd = Min(FreeFd)]
        /\ queue' = Tail(queue)
        /\ set_event(Min(FreeFd), "in")
        /\ connlist' = [connlist EXCEPT ![Min(FreeFd)] = Cleared]
        /\ UNCHANGED faults
     \/ FreeFd = {} /\ UNCHANGED <<conn, queue, faults, watch, connlist>>   \* EMFILE
     \/ /\ Fault("ECONNABORTED")
        /\ conn' = [conn EXCEPT ![Head(queue)].cl = "gone"]
        /\ queue' = Tail(queue)
        /\ UNCHANGED <<watch, connlist>>
  /\ ran' = Nothing /\ UNCHANGED <<left, longest, given>>

Disconnect(f) ==
  /\ watch' = {r \in watch : r.fd # f}
  /\ conn' = [conn EXCEPT ![Peer(f)].fd = Bad, ![Peer(f)].cl = "gone"]

\* recv_cb.  The request lands at the start of a buffer nobody has cleared
\* since the last one.  An error is handled like a request: what is left
\* in the buffer is run.
recv_cb(f) ==
  LET s == conn[Peer(f)]
  IN  /\ Event(f, "in")
      /\ \/ /\ s.in # None
            /\ LET nul == Received(connlist[f], s.in)
               IN  /\ ran' = [asked |-> s.in, intact |-> Intact(nul, s.in),
                              longer |-> longest[Peer(f)] > ReqLen[s.in]]
                   /\ connlist' = [connlist EXCEPT ![f] = Split(nul, s.in)]
                   /\ IF Unknown(nul, s.in) THEN loop' = "assert" /\ UNCHANGED <<evlist, watch>>
                      ELSE set_event(f, "out") /\ Handled
            /\ conn' = [conn EXCEPT ![Peer(f)].in = None]
            /\ longest' = [longest EXCEPT ![Peer(f)] = Max({@, ReqLen[s.in]})]
         \/ /\ s.in = None /\ s.err = "reset"
            /\ ran' = [asked |-> None, intact |-> strlen(connlist[f]) = 0, longer |-> FALSE]
            /\ conn' = [conn EXCEPT ![Peer(f)].err = "pipe"]
            /\ set_event(f, "out") /\ Handled
            /\ UNCHANGED <<connlist, longest>>
         \/ /\ s.in = None /\ s.err # "reset"
            /\ Disconnect(f) /\ Handled
            /\ ran' = Nothing /\ UNCHANGED <<connlist, longest>>
      /\ UNCHANGED <<left, queue, faults, given>>

\* send_cb, up to the moment send has taken all of the reply, or blocks.
send_cb(f) ==
  /\ Event(f, "out")
  /\ LET s == conn[Peer(f)]
     IN  \/ /\ s.err = "no"
            /\ left' = ReplyLen /\ loop' = "send"
            /\ UNCHANGED <<evlist, watch, conn>>
         \/ /\ s.err = "reset"
            /\ conn' = [conn EXCEPT ![Peer(f)].err = "pipe"]
            /\ set_event(f, "in") /\ Handled /\ UNCHANGED left
         \/ s.err = "pipe" /\ loop' = "sigpipe" /\ UNCHANGED <<evlist, watch, conn, left>>
  /\ ran' = Nothing /\ UNCHANGED <<connlist, longest, queue, faults, given>>

\* The blocked send: it goes on when there is room, returns with its last
\* byte, or with an error when the peer is gone.
send_blocked ==
  LET f == Head(evlist).fd
      s == conn[Peer(f)]
  IN  /\ loop = "send"
      /\ \/ /\ s.err = "no" /\ s.out < Capacity(Peer(f)) /\ left > 0
            /\ conn' = [conn EXCEPT ![Peer(f)].out = @ + 1]
            /\ left' = left - 1
            /\ UNCHANGED <<loop, evlist, watch>>
         \/ /\ left = 0 \/ s.err # "no"
            /\ set_event(f, "in") /\ Handled /\ left' = 0
            /\ UNCHANGED conn
      /\ ran' = Nothing /\ UNCHANGED <<connlist, longest, queue, faults, given>>

Reactor ==
  \/ epoll_wait \/ accept_cb \/ send_blocked
  \/ \E f \in Fd : recv_cb(f) \/ send_cb(f)

EpollStopped == loop \in {"assert", "sigpipe"}

=============================================================================
