------------------------------ MODULE Pointers ------------------------------
(* What the engines share: the null pointer, and the mark of a call that    *)
(* takes the process down.                                                  *)
CONSTANTS
  NULL,    \* the null pointer
  Crash    \* the result of a call that takes the process down

=============================================================================
