----------------------------- MODULE EventLoop ------------------------------
(***************************************************************************)
(* Kmuduo's event loops (EventLoop.cc, EventLoopThreadPool.cc): the main   *)
(* loop and the loops of the thread pool, each run by its own thread.      *)
(* Other threads hand a loop functors: queueLoop pushes under the mutex    *)
(* and then writes to the eventfd that wakes the loop, so a thread that    *)
(* queues to another loop owes it a wakeup for one step.                   *)
(* callingPendingFunctors_ is read by its own thread only: it is TRUE in   *)
(* phase "functors".                                                       *)
(***************************************************************************)
EXTENDS Sockets

CONSTANTS
  Base,     \* the main loop
  Pool      \* Pool[network, limit]: the thread pools considered, sequences of loops

VARIABLES
  loops_,   \* the loops of the pool, in the order they were started
  next_,    \* the position getNextLoop takes next
  loop      \* loop[l]: the state of a loop and of its thread

loopvars == <<loops_, next_, loop>>

Loop == {Base} \cup UNION {Range(p) : p \in UNION {Pool[w] : w \in Network \X Limit}}

ASSUME PoolAssumption ==
  /\ \A w \in Network \X Limit : \A p \in Pool[w] :
       p \in Seq(Range(p)) /\ IsInjective(p) /\ Base \notin Range(p)
  /\ None \notin Loop

Running == {Base} \cup Range(loops_)

\* phase is where loop() is; active is activeChannels_ with the revents of
\* each, pending is pendingFunctors_, functors the local vector of
\* doPendingFunctors and ran how many of it have been called; wakeup is
\* whether wakeupFd_ is readable, owes the loop this thread has to wake.
NewLoop == [phase |-> "poll", active |-> <<>>, pending |-> <<>>, functors |-> <<>>,
            ran |-> 0, wakeup |-> FALSE, owes |-> None]

LoopInit == loops_ \in Pool[network, limit] /\ next_ = 1 /\ loop = [l \in Loop |-> NewLoop]

Functor(f, k) == [f |-> f, k |-> k]

FunctorSet ==
  [f : {"connectionEstablished", "connectionDestroyed", "removeConnectionInLoop", "writeComplete"},
   k : Conn]

ActiveSet == [ch : Conn \cup {"wakeup", "listen"}, rev : SUBSET {"in", "out", "err", "hup"}]

LoopRecord ==
  [phase : {"poll", "events", "message", "functors"}, active : Seq(ActiveSet),
   pending : Seq(FunctorSet), functors : Seq(FunctorSet), ran : Nat, wakeup : BOOLEAN,
   owes : Loop \cup {None}]

At(t, phase) == t \in Running /\ loop[t].phase = phase /\ loop[t].owes = None

-----------------------------------------------------------------------------
getNextLoop == IF loops_ = <<>> THEN Base ELSE loops_[next_]

Advance == next_' = IF next_ + 1 > Len(loops_) THEN 1 ELSE next_ + 1

\* A plausible slip: another thread's loop is not woken while it calls.
queueLoop_OnlyWaiting(lp, t, l, f) ==
  IF t = l
  THEN [lp EXCEPT ![l].pending = Append(@, f),
                  ![l].wakeup = @ \/ lp[l].phase = "functors"]
  ELSE [lp EXCEPT ![l].pending = Append(@, f),
                  ![t].owes = IF lp[l].phase = "functors" THEN None ELSE l]

\* A plausible slip: the new functor goes to the front.
queueLoop_Front(lp, t, l, f) ==
  IF t = l
  THEN [lp EXCEPT ![l].pending = <<f>> \o @, ![l].wakeup = @ \/ lp[l].phase = "functors"]
  ELSE [lp EXCEPT ![l].pending = <<f>> \o @, ![t].owes = l]

\* Thread t calls l->queueLoop(f): the push, and the write to its own eventfd.
queueLoop(lp, t, l, f) ==
  IF t = l
  THEN [lp EXCEPT ![l].pending = Append(@, f),
                  ![l].wakeup = @ \/ lp[l].phase = "functors"]
  ELSE [lp EXCEPT ![l].pending = Append(@, f), ![t].owes = l]

\* The rest of queueLoop.
wakeup(t) ==
  /\ t \in Running /\ loop[t].owes # None
  /\ loop' = [loop EXCEPT ![loop[t].owes].wakeup = TRUE, ![t].owes = None]

-----------------------------------------------------------------------------
(* loop(): poll, the events, the functors.  found is what epoll reports,   *)
(* in any order.                                                           *)

\* The lists of the elements of S, each once.
Orders(S) ==
  {s \in UNION {[1 .. n -> S] : n \in 0 .. Cardinality(S)} : IsInjective(s) /\ Range(s) = S}

poll(t, found) ==
  /\ At(t, "poll") /\ found # {}
  /\ \E s \in Orders(found) : loop' = [loop EXCEPT ![t].active = s, ![t].phase = "events"]

\* kPollTimeMs has passed.  A pass with nothing to do changes nothing.
pollTimeout(t, found) ==
  /\ At(t, "poll") /\ found = {} /\ loop[t].pending # <<>>
  /\ loop' = [loop EXCEPT ![t].phase = "events"]

\* The event thread t handles now.
Event(t, ch) == At(t, "events") /\ loop[t].active # <<>> /\ Head(loop[t].active).ch = ch

NextEvent(lp, t) == [lp EXCEPT ![t].active = Tail(@)]

\* EventLoop::handleRead.
handleRead(t) ==
  /\ Event(t, "wakeup")
  /\ loop' = [NextEvent(loop, t) EXCEPT ![t].wakeup = FALSE]

\* doPendingFunctors up to the swap, and all of it when nothing is pending.
doPendingFunctors(t) ==
  /\ At(t, "events") /\ loop[t].active = <<>>
  /\ loop' = [loop EXCEPT ![t].functors = loop[t].pending, ![t].pending = <<>>, ![t].ran = 0,
                          ![t].phase = IF loop[t].pending = <<>> THEN "poll" ELSE "functors"]

\* The functor thread t calls now.
Calls(t, f, k) ==
  /\ At(t, "functors") /\ loop[t].ran < Len(loop[t].functors)
  /\ loop[t].functors[loop[t].ran + 1] = Functor(f, k)

Called(lp, t) == [lp EXCEPT ![t].ran = @ + 1]

\* The end of doPendingFunctors, where the vector is destroyed.
FunctorsEnd(t) ==
  /\ At(t, "functors") /\ loop[t].ran = Len(loop[t].functors)
  /\ loop' = [loop EXCEPT ![t].functors = <<>>, ![t].ran = 0, ![t].phase = "poll"]

\* The functors a loop has still to call.
Todo(l) == SubSeq(loop[l].functors, loop[l].ran + 1, Len(loop[l].functors)) \o loop[l].pending

=============================================================================
