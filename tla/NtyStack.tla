------------------------------ MODULE NtyStack -------------------------------
(***************************************************************************)
(* The one stack of nty_coroutine.c.  With _USE_UCONTEXT all coroutines    *)
(* run on the stack of the scheduler: one that yields copies what it uses  *)
(* of it to memory of its own, and gets it back before it runs again.      *)
(*                                                                         *)
(* The stack is counted in frames from its top; a frame has one content.   *)
(* The coroutines here call and return, write to their frames, and let     *)
(* others run with nty_coroutine_sleep(0) or nty_coroutine_renice.         *)
(***************************************************************************)
EXTENDS Integers, Sequences

CONSTANTS
  Stacker, NoStacker,
  NTY_CO_MAX_STACKSIZE,    \* in frames
  ReniceOps                \* calls of nty_coroutine_renice that make one yield

ASSUME StackAssumption ==
  NTY_CO_MAX_STACKSIZE \in Nat \ {0} /\ ReniceOps \in Nat \ {0} /\ NoStacker \notin Stacker

VARIABLES
  shared,      \* the scheduler's stack
  cr,          \* the coroutines, or NoStacker where there is none
  turns,       \* sched->ready
  runner       \* sched->curr_thread

stackvars == <<shared, cr, turns, runner>>

Depth   == 1 .. NTY_CO_MAX_STACKSIZE
Content == {0, 1}    \* what a frame can hold

\* stack and stack_size are the fields of that name, stack[1] the deepest
\* frame; frames is the history of what the coroutine itself has written.
Created == [status |-> "NEW", stack |-> <<>>, stack_size |-> 0, ops |-> 0, frames |-> <<>>]

StackInit ==
  /\ shared = [d \in Depth |-> 0] /\ cr = [c \in Stacker |-> NoStacker]
  /\ turns = <<>> /\ runner = NoStacker

Creates(c) ==
  /\ cr[c] = NoStacker /\ runner # "aborted"
  /\ cr' = [cr EXCEPT ![c] = Created]
  /\ turns' = Append(turns, c)
  /\ UNCHANGED <<shared, runner>>

\* A plausible slip: a stack that has become smaller is copied where a
\* larger one was.
_load_stack_Stale(co) ==
  [d \in Depth |-> IF d <= Len(co.stack) THEN co.stack[Len(co.stack) + 1 - d] ELSE shared[d]]

_load_stack(co) ==
  [d \in Depth |-> IF d <= co.stack_size THEN co.stack[co.stack_size + 1 - d] ELSE shared[d]]

\* makecontext: _exec starts with its own frame at the top.
nty_coroutine_init(c) ==
  /\ shared' = [shared EXCEPT ![1] = 0]
  /\ cr' = [cr EXCEPT ![c].status = "READY", ![c].frames = <<0>>]

nty_coroutine_resume ==
  /\ runner = NoStacker /\ turns # <<>>
  /\ LET c == Head(turns)
     IN  /\ runner' = c
         /\ IF cr[c].status = "NEW" THEN nty_coroutine_init(c)
            ELSE shared' = _load_stack(cr[c]) /\ UNCHANGED cr
  /\ turns' = Tail(turns)

\* What the coroutine does to the stack between two yields: it calls a
\* function, writes to its innermost frame, or returns.
Works(c) ==
  /\ runner = c
  /\ LET f == cr[c].frames IN
       \/ \E v \in Content, d \in {Len(f), Len(f) + 1} \cap Depth :
             /\ shared' = [shared EXCEPT ![d] = v]
             /\ cr' = [cr EXCEPT ![c].frames = IF d > Len(f) THEN Append(f, v)
                                               ELSE [f EXCEPT ![d] = v]]
       \/ /\ Len(f) > 1
          /\ cr' = [cr EXCEPT ![c].frames = SubSeq(f, 1, Len(f) - 1)]
          /\ UNCHANGED shared
  /\ UNCHANGED <<turns, runner>>

\* What is in use, copied over the start of the memory of an earlier copy.
_save_stack(co) ==
  LET size == Len(co.frames)
      old  == co.stack
  IN  [co EXCEPT !.ops = 0, !.stack_size = size,
                 !.stack = [i \in 1 .. IF size > co.stack_size THEN size ELSE Len(old) |->
                              IF i <= size THEN shared[size + 1 - i] ELSE old[i]]]

\* realloc can fail when the stack is larger than at the last yield; the
\* assertion then ends the process.
nty_coroutine_yield(c) ==
  \/ /\ cr' = [cr EXCEPT ![c] = _save_stack(cr[c])]
     /\ runner' = NoStacker
  \/ /\ Len(cr[c].frames) > cr[c].stack_size
     /\ runner' = "aborted" /\ UNCHANGED cr

Sleeps(c) ==
  runner = c /\ turns' = Append(turns, c) /\ nty_coroutine_yield(c) /\ UNCHANGED shared

nty_coroutine_renice(c) ==
  /\ runner = c
  /\ IF cr[c].ops + 1 < ReniceOps
     THEN cr' = [cr EXCEPT ![c].ops = @ + 1] /\ UNCHANGED <<turns, runner>>
     ELSE turns' = Append(turns, c) /\ nty_coroutine_yield(c)
  /\ UNCHANGED shared

\* _exec: the function has returned; nothing is saved, and the coroutine
\* is freed once the scheduler runs again.
Ends(c) ==
  /\ runner = c /\ Len(cr[c].frames) = 1
  /\ cr' = [cr EXCEPT ![c] = NoStacker] /\ runner' = NoStacker
  /\ UNCHANGED <<shared, turns>>

StackNext ==
  \/ nty_coroutine_resume
  \/ \E c \in Stacker : Creates(c) \/ Works(c) \/ Sleeps(c) \/ nty_coroutine_renice(c) \/ Ends(c)

-----------------------------------------------------------------------------
\* A coroutine that runs finds on the shared stack exactly the frames it
\* left there, whatever the others have done to the stack in between, and
\* however its own use of it has grown and shrunk between its yields.
FramesKept ==
  runner \in Stacker =>
    \A d \in DOMAIN cr[runner].frames : shared[d] = cr[runner].frames[d]

=============================================================================
