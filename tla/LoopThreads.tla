----------------------------- MODULE LoopThreads -----------------------------
(***************************************************************************)
(* How Kmuduo starts and stops its loop threads: EventLoopThreadPool,      *)
(* EventLoopThread and Thread.  One thread, the owner, starts the workers  *)
(* one after the other, waiting for each to have its loop, and later       *)
(* destroys them in the same order: quit, then join.                       *)
(***************************************************************************)
EXTENDS Integers, Sequences

CONSTANTS
  numThread_,
  Nobody      \* the null pointer

ASSUME ThreadsAssumption == numThread_ \in Nat \ {0}

VARIABLES
  owner,    \* what the owner does, and for which worker
  worker,   \* where each worker is
  sem,      \* posted by the new thread in Thread::start
  loop_,    \* EventLoopThread::loop_, guarded by mutex_
  quit_, wakeupFd_,
  early     \* history: the workers told to quit before loop() had begun

threadvars == <<owner, worker, sem, loop_, quit_, wakeupFd_, early>>

Worker == 1 .. numThread_

ThreadsInit ==
  /\ owner = [does |-> "start", w |-> 1]
  /\ worker = [w \in Worker |-> "none"]
  /\ sem = [w \in Worker |-> FALSE]
  /\ loop_ = [w \in Worker |-> Nobody]
  /\ quit_ = [w \in Worker |-> FALSE]
  /\ wakeupFd_ = [w \in Worker |-> FALSE]
  /\ early = {}

Owner(what, w) == owner = [does |-> what, w |-> w]
Does(what, w) == owner' = [does |-> what, w |-> w]

-----------------------------------------------------------------------------
(* The owner.                                                              *)

\* Thread::start up to sem_wait.
Thread_start(w) ==
  /\ Owner("start", w) /\ Does("sem_wait", w)
  /\ worker' = [worker EXCEPT ![w] = "born"]
  /\ UNCHANGED <<sem, loop_, quit_, wakeupFd_, early>>

sem_wait(w) ==
  /\ Owner("sem_wait", w) /\ sem[w]
  /\ sem' = [sem EXCEPT ![w] = FALSE]
  /\ Does("startloop", w)
  /\ UNCHANGED <<worker, loop_, quit_, wakeupFd_, early>>

\* A plausible slip: wait for the notification without looking first.
startloop_Blind(w) ==
  /\ Owner("startloop", w) /\ Does("cond_wait", w)
  /\ UNCHANGED <<worker, sem, loop_, quit_, wakeupFd_, early>>

\* Under the mutex: is the loop there?  Then on to the next worker.
startloop(w) ==
  /\ Owner("startloop", w)
  /\ IF loop_[w] = Nobody THEN Does("cond_wait", w)
     ELSE IF w < numThread_ THEN Does("start", w + 1) ELSE Does("use", 1)
  /\ UNCHANGED <<worker, sem, loop_, quit_, wakeupFd_, early>>

\* A condition variable may wake its waiter for no reason.
Spurious(w) ==
  /\ Owner("cond_wait", w) /\ Does("startloop", w)
  /\ UNCHANGED <<worker, sem, loop_, quit_, wakeupFd_, early>>

\* The pool is destroyed at any time after start.
Destroy ==
  /\ Owner("use", 1) /\ Does("quit", 1)
  /\ UNCHANGED <<worker, sem, loop_, quit_, wakeupFd_, early>>

\* The destructor of EventLoopThread calls EventLoop::quit, from another
\* thread than the loop's: first the flag,
quit(w) ==
  /\ Owner("quit", w) /\ loop_[w] # Nobody /\ Does("wakeup", w)
  /\ quit_' = [quit_ EXCEPT ![w] = TRUE]
  /\ early' = IF worker[w] = "announced" THEN early \cup {w} ELSE early
  /\ UNCHANGED <<worker, sem, loop_, wakeupFd_>>

\* then the wakeup.  A loop that has seen the flag may be over by then, and
\* destroyed with the stack of its thread: the write fails, or reading the
\* descriptor ends the process.
wakeup(w) ==
  /\ Owner("wakeup", w)
  /\ \/ Does("join", w)
     \/ worker[w] = "done" /\ Does("dead", w)
  /\ wakeupFd_' = [wakeupFd_ EXCEPT ![w] = @ \/ worker[w] # "done"]
  /\ UNCHANGED <<worker, sem, loop_, quit_, early>>

join(w) ==
  /\ Owner("join", w) /\ worker[w] = "done"
  /\ IF w < numThread_ THEN Does("quit", w + 1) ELSE Does("end", w)
  /\ UNCHANGED <<worker, sem, loop_, quit_, wakeupFd_, early>>

-----------------------------------------------------------------------------
(* A worker.                                                               *)

Goes(w, from, to) ==
  owner.does # "dead" /\ worker[w] = from /\ worker' = [worker EXCEPT ![w] = to]

sem_post(w) ==
  /\ Goes(w, "born", "func")
  /\ sem' = [sem EXCEPT ![w] = TRUE]
  /\ UNCHANGED <<owner, loop_, quit_, wakeupFd_, early>>

\* The loop is constructed and announced under the mutex.
threadFunc(w) ==
  /\ Goes(w, "func", "announced")
  /\ loop_' = [loop_ EXCEPT ![w] = w]
  /\ owner' = IF Owner("cond_wait", w) THEN [does |-> "startloop", w |-> w] ELSE owner
  /\ UNCHANGED <<sem, quit_, wakeupFd_, early>>

\* EventLoop::loop begins by clearing quit_.
loop_begins(w) ==
  /\ Goes(w, "announced", "looping")
  /\ quit_' = [quit_ EXCEPT ![w] = FALSE]
  /\ UNCHANGED <<owner, sem, loop_, wakeupFd_, early>>

loop_polls(w) ==
  /\ ~quit_[w] /\ Goes(w, "looping", "polling")
  /\ UNCHANGED <<owner, sem, loop_, quit_, wakeupFd_, early>>

loop_woken(w) ==
  /\ wakeupFd_[w] /\ Goes(w, "polling", "looping")
  /\ wakeupFd_' = [wakeupFd_ EXCEPT ![w] = FALSE]
  /\ UNCHANGED <<owner, sem, loop_, quit_, early>>

\* poll returns after kPollTimeMs, or because of another channel.
loop_other(w) ==
  /\ Goes(w, "polling", "looping")
  /\ UNCHANGED <<owner, sem, loop_, quit_, wakeupFd_, early>>

\* loop() returns; under the mutex loop_ is reset, and the loop destroyed.
loop_ends(w) ==
  /\ quit_[w] /\ Goes(w, "looping", "done")
  /\ loop_' = [loop_ EXCEPT ![w] = Nobody]
  /\ UNCHANGED <<owner, sem, quit_, wakeupFd_, early>>

-----------------------------------------------------------------------------
\* What each thread does of its own accord.
OwnerStep ==
  \E w \in Worker : Thread_start(w) \/ sem_wait(w) \/ startloop(w) \/ quit(w)
               \/ wakeup(w) \/ join(w)

WorkerStep(w) ==
  \/ sem_post(w) \/ threadFunc(w)
  \/ loop_begins(w) \/ loop_polls(w) \/ loop_woken(w) \/ loop_ends(w)

ThreadsNext ==
  OwnerStep \/ Destroy \/ \E w \in Worker : WorkerStep(w) \/ Spurious(w) \/ loop_other(w)

\* The destructors return: a loop told to quit is woken and ends, without
\* waiting for the poll timeout, unless it was told before loop() had begun,
\* which forgets the request, or was over before quit() had woken it, which
\* can end the process.
JoinReturns == owner.does = "quit" ~> owner.does \in {"end", "dead"} \/ early # {}

=============================================================================
