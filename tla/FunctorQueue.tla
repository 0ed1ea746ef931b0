---------------------------- MODULE FunctorQueue ----------------------------
(***************************************************************************)
(* What runInLoop and queueLoop promise: a functor handed to a loop is     *)
(* called by it once, in the order they were handed over, unless the       *)
(* process stops.                                                          *)
(***************************************************************************)
EXTENDS Sequences

CONSTANTS Loop, Functors

VARIABLE todo   \* todo[l]: what loop l has still to call

Init == todo = [l \in Loop |-> <<>>]

Queue == \E l \in Loop, f \in Functors : todo' = [todo EXCEPT ![l] = Append(@, f)]

Pop(l) == [todo EXCEPT ![l] = Tail(@)]

\* A call; what is called may itself hand over a functor.
Call(l) ==
  /\ todo[l] # <<>>
  /\ \/ todo' = Pop(l)
     \/ \E m \in Loop, f \in Functors : todo' = [Pop(l) EXCEPT ![m] = Append(@, f)]

Stop == todo' = [l \in Loop |-> <<>>]

Next == Queue \/ Stop \/ \E l \in Loop : Call(l)

Spec == Init /\ [][Next]_todo

=============================================================================
