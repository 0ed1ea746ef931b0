---------------------------- MODULE EngineClient ----------------------------
(***************************************************************************)
(* The client of one engine, as kvstore_parser_protocol is: it makes one   *)
(* call at a time and keeps its result.                                    *)
(***************************************************************************)
EXTENDS Pointers

CONSTANTS Key, Value

VARIABLES
  alive,   \* FALSE once a call has crashed the process
  ret      \* the last call and its result

Call(op, k, v, r) == [op |-> op, key |-> k, val |-> v, res |-> r]

\* What the result tells the client.
Outcome ==
  CASE ret.res = Crash -> "down"
    [] ret.res # Crash /\ ret.op \in {"GET", "COUNT"} -> ret.res
    [] ret.res # Crash /\ ret.op \notin {"GET", "COUNT"} -> IF ret.res = 0 THEN "ok" ELSE "no"

=============================================================================
