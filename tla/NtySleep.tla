------------------------------ MODULE NtySleep ------------------------------
(***************************************************************************)
(* Sleeping coroutines: the sleep tree of nty_schedule.c and the time the  *)
(* scheduler waits for.  The tree itself is NtyTree; here it is the set of *)
(* its members.  Time is counted in microseconds, with Kilo of them to the *)
(* millisecond and Kilo milliseconds to the second, and never runs         *)
(* backwards.  nty_coroutine_sleep puts its caller into the tree and       *)
(* returns: the caller runs on until it waits for something else, or until *)
(* its function ends, which frees it and leaves its node in the tree.      *)
(***************************************************************************)
EXTENDS Integers, FiniteSetsExt

CONSTANTS
  Sleeper, NoCo,
  Kilo, DefaultTimeout,
  Naps,        \* the milliseconds slept
  MaxTime      \* bound on the clock

ASSUME SleepAssumption ==
  /\ Naps \cup {Kilo, DefaultTimeout, MaxTime} \subseteq Nat \ {0}
  /\ IsFiniteSet(Sleeper)

VARIABLES
  now, curr_thread,
  sleeping,       \* the sleep tree
  sleep_usecs,    \* of each coroutine, stale once it has left the tree
  dangling,       \* the coroutines freed while they were in the tree
  due             \* history: when each sleeper is to wake, 0 if it does not sleep;
                  \* not kept any longer once a coroutine dangles

sleepvars == <<now, curr_thread, sleeping, sleep_usecs, dangling, due>>

SleepInit ==
  /\ now = 0 /\ curr_thread = NoCo /\ sleeping = {} /\ dangling = {}
  /\ sleep_usecs = [c \in Sleeper |-> 0] /\ due = [c \in Sleeper |-> 0]

Keys(S) == {sleep_usecs[c] : c \in S}

\* RB_INSERT fails while the key is in the tree, and the key moves on.
FreeKey(S, u) == Min((u .. u + Cardinality(S)) \ Keys(S))

\* The coroutine in the tree with c's key, c itself or not.
SameKey(c) == {d \in sleeping : sleep_usecs[d] = sleep_usecs[c]}

nty_schedule_sched_sleepdown(c, msecs) ==
  LET u == now + msecs * Kilo
      S == sleeping \ SameKey(c)
  IN  /\ sleep_usecs' = [sleep_usecs EXCEPT ![c] = FreeKey(S, u)]
      /\ sleeping' = S \cup {c}
      /\ due' = IF dangling = {} THEN [due EXCEPT ![c] = u] ELSE due

nty_coroutine_sleep(msecs) ==
  /\ curr_thread \in Sleeper /\ now + msecs * Kilo <= MaxTime
  /\ nty_schedule_sched_sleepdown(curr_thread, msecs)
  /\ UNCHANGED <<now, curr_thread, dangling>>

\* The running coroutine waits for something else.
Yields ==
  /\ curr_thread \in Sleeper /\ curr_thread' = NoCo
  /\ UNCHANGED <<now, sleeping, sleep_usecs, dangling, due>>

\* What it waited for is there: it runs, whether or not it is in the tree.
Resumed(c) ==
  /\ curr_thread = NoCo /\ c \notin dangling /\ curr_thread' = c
  /\ UNCHANGED <<now, sleeping, sleep_usecs, dangling, due>>

\* The function of the coroutine returns: _exec sets the flags of its end and
\* yields, and nty_coroutine_resume frees it.  A coroutine created later can
\* take its place.  Nobody looks whether it is in the sleep tree.
FunctionReturns ==
  LET c == curr_thread
  IN  /\ c \in Sleeper /\ curr_thread' = NoCo
      /\ \/ /\ c \notin sleeping
            /\ sleep_usecs' = [sleep_usecs EXCEPT ![c] = 0] /\ UNCHANGED <<dangling, due>>
         \/ /\ c \in sleeping
            /\ dangling' = dangling \cup {c} /\ due' = [d \in Sleeper |-> 0]
            /\ UNCHANGED sleep_usecs
      /\ UNCHANGED <<now, sleeping>>

\* From then on every walk over the tree reads freed memory.  While that has
\* its old contents all is as before, until the freed coroutine is resumed;
\* once it is used for something else, the walk ends the process, or no
\* longer finds some of the others.
DeadThread == "dead"

\* Nothing of the tree is left with the process.
WalkKills ==
  /\ curr_thread' = DeadThread /\ sleeping' = {} /\ dangling' = {}
  /\ sleep_usecs' = [c \in Sleeper |-> 0] /\ due' = sleep_usecs'
  /\ UNCHANGED now

GoesAstray ==
  /\ dangling # {}
  /\ \/ WalkKills
     \/ sleeping' \in SUBSET sleeping /\ UNCHANGED <<now, curr_thread, sleep_usecs, dangling, due>>

RB_MIN == CHOOSE c \in sleeping : \A d \in sleeping : sleep_usecs[c] <= sleep_usecs[d]

nty_schedule_expired ==
  /\ curr_thread = NoCo /\ sleeping # {} /\ sleep_usecs[RB_MIN] <= now
  /\ \/ RB_MIN \in dangling /\ WalkKills
     \/ /\ RB_MIN \notin dangling
        /\ curr_thread' = RB_MIN
        /\ sleeping' = sleeping \ {RB_MIN}
        /\ due' = [due EXCEPT ![RB_MIN] = 0]
        /\ UNCHANGED <<now, sleep_usecs, dangling>>

nty_schedule_min_timeout ==
  IF sleeping = {} THEN DefaultTimeout
  ELSE IF sleep_usecs[RB_MIN] > now THEN sleep_usecs[RB_MIN] - now ELSE 0

\* A plausible slip: the whole time is put into the nanoseconds as well.
Timeout_Twice(usecs) ==
  LET s == usecs \div (Kilo * Kilo) IN (s * Kilo + usecs \div Kilo) * Kilo

\* The timespec and its conversion to milliseconds: with a second or more
\* the milliseconds are left out, and fractions of one always are.
Timeout(usecs) ==
  LET s == usecs \div (Kilo * Kilo)
      rest == IF s # 0 THEN usecs % Kilo ELSE usecs
  IN  (s * Kilo + rest \div Kilo) * Kilo

\* Some time passes in epoll_wait, at most the timeout.
Waiting ==
  /\ curr_thread = NoCo /\ nty_schedule_min_timeout # 0
  /\ \E d \in 1 .. Timeout(nty_schedule_min_timeout) : now + d <= MaxTime /\ now' = now + d
  /\ UNCHANGED <<curr_thread, sleeping, sleep_usecs, dangling, due>>

\* Time passes while a coroutine or the scheduler runs.
Passes ==
  /\ now < MaxTime /\ now' = now + 1 /\ curr_thread # DeadThread
  /\ UNCHANGED <<curr_thread, sleeping, sleep_usecs, dangling, due>>

SleepNext ==
  \/ \E n \in Naps : nty_coroutine_sleep(n)
  \/ Yields \/ FunctionReturns \/ GoesAstray \/ nty_schedule_expired \/ Waiting \/ Passes
  \/ \E c \in Sleeper : Resumed(c)

-----------------------------------------------------------------------------
\* Nobody who sleeps is lost from the tree, although a new sleep first
\* removes whoever has the caller's old key, and although keys are moved to
\* keep them apart: every sleeper has a key of its own, not before its time
\* and after it only by as many steps as there are others.
SleepersKept ==
  /\ sleeping = {c \in Sleeper : due[c] # 0}
  /\ \A c, d \in sleeping : c # d => sleep_usecs[c] # sleep_usecs[d]
  /\ \A c \in sleeping : sleep_usecs[c] - due[c] \in 0 .. Cardinality(Sleeper) - 1

\* As long as every coroutine that slept comes out of the tree before its
\* function returns, no sleeper is lost, and a wait of the scheduler for
\* events never outlasts the time of a sleeper.
\* A coroutine that returns while it is in the tree, as nty_coroutine_sleep
\* does not wait, is the only way to lose one.
SleepersWake ==
  /\ [](dangling = {} => SleepersKept)
  /\ [][Waiting /\ dangling = {} => \A c \in sleeping : now' <= sleep_usecs[c]]_sleepvars

=============================================================================
