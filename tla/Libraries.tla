------------------------------ MODULE Libraries ------------------------------
(***************************************************************************)
(* The data structures, the memory of the engines, the coroutine calls and *)
(* the thread start-up; and two samples.  They do not interact: part says  *)
(* which of them a behaviour is about.                                     *)
(***************************************************************************)
EXTENDS Buffer, MemPool, NodePool, NtyQueue, NtyTree, NtySplay, NtySleep, NtyStack, NtyCalls,
        LoopThreads, EngineMemory, MulticoreServer, QpsClient

VARIABLE part

vars == <<part, bufvars, poolvars, npvars, qvars, treevars, splayvars, sleepvars, stackvars,
          callvars, threadvars, memvars, multivars, qpsvars>>

Init ==
  /\ part \in {"buffer", "mempool", "nodepool", "queue", "tree", "splay", "sleep", "stack",
               "calls", "threads", "memory", "multicore", "qps"}
  /\ BufferInit /\ PoolInit /\ NodePoolInit /\ QueueInit /\ TreeInit /\ SplayInit
  /\ SleepInit /\ StackInit /\ CallsInit /\ ThreadsInit
  /\ MulticoreInit /\ QpsInit /\ MemInit /\ (part # "memory" => engine = "array")

Stack(A) ==
  /\ part = "stack" /\ A
  /\ UNCHANGED <<part, bufvars, poolvars, npvars, qvars, treevars,
                  splayvars, sleepvars, callvars, threadvars, memvars, multivars, qpsvars>>

Calls(A) ==
  /\ part = "calls" /\ A
  /\ UNCHANGED <<part, bufvars, poolvars, npvars, qvars, treevars,
                  splayvars, sleepvars, stackvars, threadvars, memvars, multivars, qpsvars>>

Threads(A) ==
  /\ part = "threads" /\ A
  /\ UNCHANGED <<part, bufvars, poolvars, npvars, qvars, treevars,
                  splayvars, sleepvars, stackvars, callvars, memvars, multivars, qpsvars>>

Next ==
  \/ /\ part = "buffer" /\ BufferNext
     /\ UNCHANGED <<part, poolvars, npvars, qvars, treevars, splayvars,
                     sleepvars, stackvars, callvars, threadvars, memvars, multivars, qpsvars>>
  \/ /\ part = "mempool" /\ PoolNext
     /\ UNCHANGED <<part, bufvars, npvars, qvars, treevars, splayvars,
                     sleepvars, stackvars, callvars, threadvars, memvars, multivars, qpsvars>>
  \/ /\ part = "nodepool" /\ NodePoolNext
     /\ UNCHANGED <<part, bufvars, poolvars, qvars, treevars, splayvars,
                     sleepvars, stackvars, callvars, threadvars, memvars, multivars, qpsvars>>
  \/ /\ part = "queue" /\ QueueNext
     /\ UNCHANGED <<part, bufvars, poolvars, npvars, treevars, splayvars,
                     sleepvars, stackvars, callvars, threadvars, memvars, multivars, qpsvars>>
  \/ /\ part = "tree" /\ TreeNext
     /\ UNCHANGED <<part, bufvars, poolvars, npvars, qvars, splayvars,
                     sleepvars, stackvars, callvars, threadvars, memvars, multivars, qpsvars>>
  \/ /\ part = "splay" /\ SplayNext
     /\ UNCHANGED <<part, bufvars, poolvars, npvars, qvars, treevars,
                     sleepvars, stackvars, callvars, threadvars, memvars, multivars, qpsvars>>
  \/ /\ part = "sleep" /\ SleepNext
     /\ UNCHANGED <<part, bufvars, poolvars, npvars, qvars, treevars,
                     splayvars, stackvars, callvars, threadvars, memvars, multivars, qpsvars>>
  \/ /\ part = "memory" /\ MemNext
     /\ UNCHANGED <<part, bufvars, poolvars, npvars, qvars, treevars,
                     splayvars, sleepvars, stackvars, callvars, threadvars, multivars, qpsvars>>
  \/ /\ part = "multicore" /\ MulticoreNext
     /\ UNCHANGED <<part, bufvars, poolvars, npvars, qvars, treevars,
                     splayvars, sleepvars, stackvars, callvars, threadvars, memvars, qpsvars>>
  \/ /\ part = "qps" /\ QpsNext
     /\ UNCHANGED <<part, bufvars, poolvars, npvars, qvars, treevars,
                     splayvars, sleepvars, stackvars, callvars, threadvars, memvars, multivars>>
  \/ Stack(StackNext) \/ Calls(CallsNext) \/ Threads(ThreadsNext)

\* The operating system runs every thread that can run.  What is assumed of
\* the peer of a socket is said at EveryCallReturns.
Spec ==
  /\ Init /\ [][Next]_vars
  /\ WF_vars(Threads(OwnerStep))
  /\ \A w \in Worker : WF_vars(Threads(WorkerStep(w)))
  /\ WF_vars(Calls(CallStep))
  /\ WF_vars(Calls(PeerReads)) /\ WF_vars(Calls(PeerSends \/ PeerCloses))
  /\ WF_vars(Calls(PeerAnswers)) /\ WF_vars(Calls(PeerArrives))

-----------------------------------------------------------------------------
\* The macros of nty_queue.h and nty_tree.h keep their lists and trees.
MacrosHold == ListsHold /\ WalksInOrder /\ StaysBalanced /\ SplayHolds

\* The two memory pools give every piece of memory to one user at a time.
PoolsExact == FreeListExact /\ PiecesDisjoint

\* The counters that processes or threads share say what happened, but for
\* what an unlocked increment loses.
CountersHonest == SharedTotalExact /\ FailuresNotHidden

\* The pool starts: the owner gets all its loops, however the new threads
\* and the wait for each loop interleave.  And it ends: the destructors
\* return, with the exception named at JoinReturns.
PoolStartsAndEnds ==
  /\ part = "threads" /\ owner.does = "start" ~> owner.does = "use"
  /\ JoinReturns

=============================================================================
