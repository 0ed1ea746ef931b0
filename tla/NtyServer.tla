----------------------------- MODULE NtyServer ------------------------------
(***************************************************************************)
(* The network layer of the default build: the NtyCo scheduler, its        *)
(* coroutines, the socket calls it hooks, and the server of nty_entry.c.   *)
(*                                                                         *)
(* A coroutine runs from one yield to the next without interruption; such  *)
(* a segment is one action here, together with the step of                 *)
(* nty_schedule_run that resumes it.  Sockets and clients are those of     *)
(* module Sockets; a coroutine block is reused once it is free.            *)
(***************************************************************************)
EXTENDS Sockets, SequencesExt

CONSTANTS
  Co,         \* the blocks a coroutine can be allocated in
  MaxYield    \* times the coroutine Worker calls nty_coroutine_sleep(0)

ASSUME NtyAssumption == MaxYield \in Nat

VARIABLES
  co,        \* the coroutines: co[c] is a record, or None
  ready,     \* sched->ready
  waiting,   \* sched->waiting, keyed by descriptor
  sched,     \* where nty_schedule_run is; or how the process ended
  last,      \* its local last_co_ready
  events,    \* sched->eventlist up to num_new_events
  epoll      \* what is registered with poller_fd

ntyvars == <<co, ready, waiting, sched, last, events, epoll>>

-----------------------------------------------------------------------------
(* Coroutines.  left is what send has still to write, n counts yields.     *)

\* The record nty_coroutine_create fills in and appends to ready.
nty_coroutine_create(func, arg) ==
  [func |-> func, arg |-> arg, status |-> {"NEW"}, fd |-> Bad, pc |-> "start",
   left |-> 0, n |-> 0]

\* Its write to the status of what it finds is in StatusOnResume.
nty_schedule_search_wait(fd) == waiting[fd]

\* The coroutine nty_schedule_run resumes next: the head of ready, or the
\* one that waits for the last event of the list.
Resumes(c) ==
  \/ sched = "ready"  /\ c = Head(ready)
  \/ sched = "events" /\ c = nty_schedule_search_wait(Last(events).fd)

Dequeued == IF sched = "ready" THEN Tail(ready) ELSE ready

\* nty_coroutine_init makes a new one READY; search_wait clears the status,
\* and EPOLLHUP sets FDEOF.
StatusOnResume(c) ==
  IF sched = "ready"
  THEN IF "NEW" \in co[c].status THEN {"READY"} ELSE co[c].status
  ELSE IF Last(events).hup THEN {"FDEOF"} ELSE {}

\* A plausible slip: the pass over the ready queue stops when it is empty,
\* not at the coroutine that was last when it began.
AfterResume_Drains(c) ==
  IF sched = "ready"
  THEN IF ready' = <<>> THEN "poll" ELSE "ready"
  ELSE IF Len(events) = 1 THEN "top" ELSE "events"

\* Where nty_schedule_run is once the coroutine has yielded or ended.
AfterResume(c) ==
  IF sched = "ready"
  THEN IF c = last \/ ready' = <<>> THEN "poll" ELSE "ready"
  ELSE IF Len(events) = 1 THEN "top" ELSE "events"

\* A plausible slip: the event just handled stays in the list.
nty_coroutine_resume_EventKept(c) ==
  sched' = AfterResume(c) /\ UNCHANGED <<events, last, given>>

nty_coroutine_resume(c) ==
  /\ sched' = AfterResume(c)
  /\ events' = IF sched = "events" THEN Front(events) ELSE events
  /\ UNCHANGED <<last, given>>

\* The second half of nty_poll_inner, when the coroutine was resumed in it:
\* EPOLL_CTL_DEL and nty_schedule_desched_wait, which clears the status.
Polled(c) == co[c].pc \in {"accept", "recv", "send"}

\* A plausible slip: the coroutine stays in the wait tree.
nty_schedule_desched_wait_Stays(c) == waiting

nty_schedule_desched_wait(c) ==
  IF Polled(c) THEN [waiting EXCEPT ![co[c].fd] = None] ELSE waiting

EpollDel(c) == IF Polled(c) THEN {r \in epoll : r.fd # co[c].fd} ELSE epoll

StatusNow(c) == IF Polled(c) THEN {} ELSE StatusOnResume(c)

Stop(how) == sched' = how /\ UNCHANGED <<co, ready, waiting, last, events, epoll, given>>

\* The assertions of nty_schedule_sched_wait.
MayWait(c, f) ==
  /\ nty_schedule_desched_wait(c)[f] = None
  /\ StatusNow(c) \cap {"WAIT_READ", "WAIT_WRITE"} = {}

\* POLLOUT sets bit 0 of the status, POLLIN sets none.
nty_schedule_sched_wait(c, f, ev, pc, left) ==
  [co[c] EXCEPT !.status = StatusNow(c) \cup (IF ev = "out" THEN {"WAIT_READ"} ELSE {}),
                !.fd = f, !.pc = pc, !.left = left]

\* EPOLL_CTL_ADD fails for -1 and for what is registered already.
EpollAdd(E, f, ev) ==
  IF f = Bad \/ \E r \in E : r.fd = f THEN E ELSE E \cup {[fd |-> f, ev |-> ev]}

\* The first half of nty_poll_inner, up to its yield; new is the coroutine
\* created since the last yield, if any.
nty_poll_inner(c, f, ev, pc, left, new) ==
  IF ~MayWait(c, f) THEN Stop("assert")
  ELSE /\ co' = new @@ [co EXCEPT ![c] = nty_schedule_sched_wait(c, f, ev, pc, left)]
       /\ waiting' = [nty_schedule_desched_wait(c) EXCEPT ![f] = c]
       /\ epoll' = EpollAdd(EpollDel(c), f, ev)
       /\ ready' = Dequeued \o SetToSeq(DOMAIN new)
       /\ nty_coroutine_resume(c)

NoNew == [b \in {} |-> None]

\* A plausible slip: the coroutine is not DETACHed, so nobody frees it.
_exec_NotDetached(c) ==
  /\ co' = [co EXCEPT ![c].status = {"FDEOF"}, ![c].pc = "start"]
  /\ waiting' = nty_schedule_desched_wait(c)
  /\ epoll' = {r \in epoll : r.fd # co[c].fd}
  /\ ready' = Dequeued
  /\ nty_coroutine_resume(c)

\* The function of the coroutine returns, having closed its descriptor,
\* which ends a registration too: _exec sets EXITED and DETACH, and
\* nty_coroutine_resume frees the block.
_exec(c) ==
  /\ co' = [co EXCEPT ![c] = None]
  /\ waiting' = nty_schedule_desched_wait(c)
  /\ epoll' = {r \in EpollDel(c) : r.fd # co[c].fd}
  /\ ready' = Dequeued
  /\ nty_coroutine_resume(c)

Runs(c, func, pc) ==
  Resumes(c) /\ co[c] # None /\ co[c].func = func /\ co[c].pc = pc

-----------------------------------------------------------------------------
(* The coroutine server of nty_entry.c, with the hooked socket and accept. *)

ServerStart(c) ==
  /\ Runs(c, "server", "start")
  /\ \/ nty_poll_inner(c, Listen, "in", "accept", 0, NoNew) /\ UNCHANGED faults
     \/ Fault("socket") /\ _exec(c)
  /\ UNCHANGED <<conn, queue>>

\* The result of accept is not looked at: -1 gets a reader as well.
SpawnReader(c, f) ==
  \E b \in {d \in Co : co[d] = None} :
     nty_poll_inner(c, Listen, "in", "accept", 0, b :> nty_coroutine_create("server_reader", f))

Accepted(c) ==
  \/ /\ FreeFd # {}
     /\ conn' = [conn EXCEPT ![Head(queue)].fd = Min(FreeFd)]
     /\ queue' = Tail(queue)
     /\ \/ SpawnReader(c, Min(FreeFd)) /\ UNCHANGED faults
        \/ Fault("create") /\ nty_poll_inner(c, Listen, "in", "accept", 0, NoNew)
  \/ /\ FreeFd = {}      \* EMFILE: the connection stays in the queue
     /\ faults' = Append(faults, "EMFILE")
     /\ SpawnReader(c, Bad)
     /\ UNCHANGED <<conn, queue>>
  \/ /\ Fault("ECONNABORTED")
     /\ conn' = [conn EXCEPT ![Head(queue)].cl = "gone"]
     /\ queue' = Tail(queue)
     /\ SpawnReader(c, Bad)

\* With nothing to accept (EAGAIN) it polls again.
accept(c) ==
  /\ Runs(c, "server", "accept")
  /\ IF queue = <<>>
     THEN /\ nty_poll_inner(c, Listen, "in", "accept", 0, NoNew)
          /\ UNCHANGED <<conn, queue, faults>>
     ELSE Accepted(c)

-----------------------------------------------------------------------------
(* The coroutine server_reader, with the hooked recv, send and close.      *)

ReaderStart(c) ==
  /\ Runs(c, "server_reader", "start")
  /\ nty_poll_inner(c, co[c].arg, "in", "recv", 0, NoNew)
  /\ UNCHANGED <<conn, queue, faults>>

\* server_reader goes round: it waits for the next request.
NextRequest(c) == nty_poll_inner(c, co[c].arg, "in", "recv", 0, NoNew)

\* A plausible slip: send gives up after a short write.
Sent_Once(c, k, n, left) ==
  /\ conn' = [conn EXCEPT ![k].in = None, ![k].out = @ + n]
  /\ NextRequest(c)

\* send has written n bytes more and left remain.
Sent(c, k, n, left) ==
  /\ conn' = [conn EXCEPT ![k].in = None, ![k].out = @ + n]
  /\ IF left = 0 THEN NextRequest(c)
     ELSE nty_poll_inner(c, co[c].arg, "out", "send", left, NoNew)

\* The peer has reset the connection: the first call reports it.
ResetSeen(k) == conn' = [conn EXCEPT ![k].in = None, ![k].err = "pipe"]

CloseAndExit(c, k) ==
  /\ conn' = [conn EXCEPT ![k].fd = Bad, ![k].cl = "gone"]
  /\ _exec(c)

\* recv, and if it returned a request, kvstore_requese and the first send.
\* (A client that waits for its replies leaves no request behind once what
\* it was sent has been refused, so err is never "pipe" with one to read.)
recv(c) ==
  /\ Runs(c, "server_reader", "recv")
  /\ LET k == Peer(co[c].arg)
         s == conn[k]
     IN  \/ s.in # None /\ s.err = "no"
            /\ \E n \in 0 .. Min({ReplyLen, Capacity(k) - s.out}) : Sent(c, k, n, ReplyLen - n)
         \/ s.in # None /\ s.err = "reset"
            /\ ResetSeen(k)
            /\ nty_poll_inner(c, co[c].arg, "out", "send", ReplyLen, NoNew)
         \/ s.in = None /\ s.err = "reset" /\ ResetSeen(k) /\ NextRequest(c)
         \/ s.in = None /\ s.err # "reset" /\ CloseAndExit(c, k)
  /\ UNCHANGED <<queue, faults>>

\* The rest of send.  A failure after some bytes counts as success.
send(c) ==
  /\ Runs(c, "server_reader", "send")
  /\ LET k == Peer(co[c].arg)
         s == conn[k]
     IN  \/ s.err = "no"
            /\ \E n \in 1 .. Min({co[c].left, Capacity(k) - s.out}) : Sent(c, k, n, co[c].left - n)
         \/ s.err = "reset"
            /\ IF co[c].left < ReplyLen THEN ResetSeen(k) /\ NextRequest(c)
               ELSE CloseAndExit(c, k)
         \/ s.err = "pipe" /\ Stop("sigpipe") /\ UNCHANGED conn
  /\ UNCHANGED <<queue, faults>>

\* A coroutine that calls nty_coroutine_sleep(0) a number of times.
Worker(c) ==
  /\ Runs(c, "worker", "start")
  /\ \/ /\ co[c].n < MaxYield
        /\ co' = [co EXCEPT ![c].n = @ + 1, ![c].status = StatusNow(c)]
        /\ ready' = Append(Dequeued, c)
        /\ UNCHANGED <<waiting, epoll>>
        /\ nty_coroutine_resume(c)
     \/ co[c].n = MaxYield /\ _exec(c)
  /\ UNCHANGED <<conn, queue, faults>>

-----------------------------------------------------------------------------
(* nty_schedule_run between two resumptions.                               *)

\* Sleepers and busy coroutines do not occur here (module NtySleep).
nty_schedule_isdone == ready = <<>> /\ \A f \in DOMAIN waiting : waiting[f] = None

RunTop ==
  /\ sched = "top"
  /\ IF nty_schedule_isdone THEN sched' = "done" /\ UNCHANGED last
     ELSE /\ sched' = IF ready = <<>> THEN "poll" ELSE "ready"
          /\ last'  = IF ready = <<>> THEN None ELSE Last(ready)
  /\ UNCHANGED <<co, ready, waiting, events, epoll, conn, queue, faults, given>>

AsksEpoll == ready = <<>>

\* With a coroutine ready, epoll is not asked; otherwise all that can be
\* reported is, in some order, or the wait times out.
nty_schedule_epoll ==
  /\ sched = "poll"
  /\ LET found == {r \in epoll : AsksEpoll /\ Reports(r)}
     IN  \E s \in SetToSeqs({[fd |-> r.fd, hup |-> Hup(r.fd)] : r \in found}) : events' = s
  /\ sched' = IF events' = <<>> THEN "top" ELSE "events"
  /\ UNCHANGED <<co, ready, waiting, last, epoll, conn, queue, faults, given>>

-----------------------------------------------------------------------------
\* ntyco_enrty creates the coroutine server and runs the scheduler; Worker
\* stands for other coroutines of the process, as the samples have.
NtyInit ==
  LET s == CHOOSE c \in Co : TRUE
      w == CHOOSE c \in Co \ {s} : TRUE
  IN
    /\ co = [c \in Co |-> IF c = s THEN nty_coroutine_create("server", Bad)
                          ELSE IF c = w THEN nty_coroutine_create("worker", Bad)
                          ELSE None]
    /\ ready = <<s, w>>
    /\ waiting = [f \in Fd \cup {Listen, Bad} |-> None]
    /\ sched = "top" /\ last = None /\ events = <<>> /\ epoll = {}

Coroutine(c) ==
  ServerStart(c) \/ accept(c) \/ ReaderStart(c) \/ recv(c) \/ send(c) \/ Worker(c)

Scheduler == RunTop \/ nty_schedule_epoll \/ \E c \in Co : Coroutine(c)

-----------------------------------------------------------------------------
NtyStopped == sched \in {"done", "assert", "sigpipe"}

Live == {c \in Co : co[c] # None}

Readers(f) == {c \in Live : co[c].func = "server_reader" /\ co[c].arg = f}

\* Accepted connections nobody reads.
Orphans == {k \in Conn : conn[k].fd # Bad /\ Readers(conn[k].fd) = {}}

\* Shapes of the scheduler's and the kernel's state.
NtyTypeOK ==
  /\ \A c \in Live : /\ co[c].func \in {"server", "server_reader", "worker"}
                     /\ co[c].pc \in {"start", "accept", "recv", "send"}
                     /\ co[c].left \in 0 .. ReplyLen /\ co[c].n \in 0 .. MaxYield
                     /\ co[c].status \subseteq {"NEW", "READY", "WAIT_READ", "FDEOF"}
  /\ ready \in Seq(Co) /\ waiting \in [Fd \cup {Listen, Bad} -> Co \cup {None}]
  /\ sched \in {"top", "ready", "poll", "events", "done", "assert", "sigpipe"}
  /\ last \in Co \cup {None}
  /\ epoll \subseteq [fd : Fd \cup {Listen}, ev : {"in", "out"}]
  /\ events \in Seq([fd : Fd \cup {Listen}, hup : BOOLEAN])
  /\ \A k \in Conn : conn[k].fd \in Fd \cup {Bad}
  /\ queue \in Seq(Conn)

\* Between two resumptions a coroutine is in one place only: once in the
\* ready queue or under one descriptor in the wait tree, never in both and
\* never nowhere; what is freed is in neither.  No coroutine in the ready
\* queue carries FDEOF, so the branch of nty_schedule_run that frees one is
\* never taken.
OnePlace ==
  /\ NtyTypeOK
  /\ IsInjective(ready)
  /\ \A c \in Co :
       LET places == {f \in DOMAIN waiting : waiting[f] = c}
       IN  Cardinality(places) + (IF Contains(ready, c) THEN 1 ELSE 0)
             = IF c \in Live THEN 1 ELSE 0
  /\ \A i \in DOMAIN ready : "FDEOF" \notin co[ready[i]].status

\* What epoll watches is what somebody waits for: a watched descriptor with
\* no waiter would make the scheduler spin or fault, a waiter nobody watches
\* for would sleep for ever (the waiter of a failed accept does).  And an
\* event of the batch being handled always finds its coroutine, although
\* the coroutines resumed before it in the batch have closed descriptors,
\* ended and been freed: nty_schedule_search_wait writes through the result
\* of its lookup without a test.
EventsFindWaiter ==
  /\ sched = "events" => \A i \in DOMAIN events : waiting[events[i].fd] # None
  /\ \A f \in Fd \cup {Listen} :
       (waiting[f] # None) <=> (\E r \in epoll : r.fd = f)
  /\ \A r \in epoll : co[waiting[r.fd]].pc = (IF r.ev = "out" THEN "send"
                                              ELSE IF r.fd = Listen THEN "accept" ELSE "recv")

\* Every accepted connection has exactly one reader, and every reader an
\* open connection, through closes, resets and the reuse of descriptors and
\* coroutine blocks; a descriptor without a reader is one for which
\* nty_coroutine_create failed, and such a descriptor is never closed.
OneReaderEach ==
  network = "NTYCO" /\ ~NtyStopped =>
  /\ \A f \in Fd : /\ Cardinality(Readers(f)) <= Cardinality(Open(f))
                   /\ Cardinality(Open(f)) <= 1
  /\ Cardinality(Orphans) <= Count({"create"})

\* With coroutines the process ends by itself only in three ways: the listening socket could
\* not be made; two accepts have failed, and the second reader of descriptor
\* -1 trips the assertion of nty_schedule_sched_wait; or the server wrote to
\* a connection after its reset had been reported.
NtyStopsOnlyThen ==
  /\ sched = "done" => Count({"socket"}) > 0
  /\ sched = "assert" => Count({"EMFILE", "ECONNABORTED"}) = 2
  /\ sched = "sigpipe" => \E k \in Conn : conn[k].err = "pipe" /\ conn[k].cl = "gone"

PlaceOf(c, s) == SelectInSeq(s, LAMBDA x : x = c)

\* A pass over the ready queue ends although coroutines that yield go back
\* to it: every resumption brings the pass one place nearer to the coroutine
\* that was last when it began, and with that one it is over.
PassEnds ==
  [][sched = "ready" /\ co' # co
       => /\ Contains(ready, last)
          /\ sched' = "ready" => PlaceOf(last, ready') = PlaceOf(last, ready) - 1]_ntyvars

=============================================================================
