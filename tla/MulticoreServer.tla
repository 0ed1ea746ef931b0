-------------------------- MODULE MulticoreServer ---------------------------
(***************************************************************************)
(* The sample nty_server_mulcore.c: processes made by fork, each with its  *)
(* own scheduler and listening socket, count their clients together in     *)
(* shared memory.  A process does not yield between an accept or a close   *)
(* and the end of the count, so it is in one such operation at a time.     *)
(***************************************************************************)
EXTENDS Integers, FiniteSetsExt

CONSTANTS
  Process,
  MaxClients   \* clients of a process at a time: a bound

ASSUME MulticoreAssumption == MaxClients \in Nat

VARIABLES
  total,    \* shm_area.total
  proc      \* pc; delta: what the operation adds; value: its local;
            \* clients: those it has; phantoms: failed accepts

multivars == <<total, proc>>

\* init_shmvalue, before the forks.
MulticoreInit ==
  /\ total = 0
  /\ proc = [p \in Process |-> [pc |-> "idle", delta |-> 0, value |-> 0, clients |-> 0, phantoms |-> 0]]

\* A process enters add_shmvalue or sub_shmvalue.
Begins(p, delta, r) ==
  /\ proc[p].pc = "idle"
  /\ proc' = [proc EXCEPT ![p] = [r EXCEPT !.pc = "read", !.delta = delta]]
  /\ UNCHANGED total

\* server: what nty_accept returns is not looked at, so that a failure is
\* counted, and gets a reader, as well.
server(p) ==
  \/ proc[p].clients < MaxClients /\ Begins(p, 1, [proc[p] EXCEPT !.clients = @ + 1])
  \/ proc[p].phantoms < 2 /\ Begins(p, 1, [proc[p] EXCEPT !.phantoms = @ + 1])

\* server_reader at the end of its client, when nty_recv returns 0 or
\* nty_send fails: close, then the count.  (A failed nty_recv is repeated.)
server_reader(p) ==
  proc[p].clients > 0 /\ Begins(p, -1, [proc[p] EXCEPT !.clients = @ - 1])

\* SIGPIPE in nty_send; or the second reader of descriptor -1 finds the
\* first one in the tree of waiting coroutines: assert.
ServerDies(p) ==
  /\ proc[p].pc = "idle" /\ (proc[p].clients > 0 \/ proc[p].phantoms = 2)
  /\ proc' = [proc EXCEPT ![p].pc = "dead"]
  /\ UNCHANGED total

\* value = global_shmaddr->total
ReadsTotal(p) ==
  /\ proc[p].pc = "read"
  /\ proc' = [proc EXCEPT ![p].pc = "cas", ![p].value = total]
  /\ UNCHANGED total

\* A plausible slip: the comparison is left out.
cmpxchg_Always(p) ==
  /\ total' = proc[p].value + proc[p].delta
  /\ proc' = [proc EXCEPT ![p].pc = "return", ![p].value = 0]

\* The lock; cmpxchg; and the test of the loop around it.
cmpxchg(p) ==
  IF total = proc[p].value
  THEN /\ total' = proc[p].value + proc[p].delta
       /\ proc' = [proc EXCEPT ![p].pc = "return", ![p].value = 0]
  ELSE proc' = [proc EXCEPT ![p].pc = "read", ![p].value = 0] /\ UNCHANGED total

Exchanges(p) == proc[p].pc = "cas" /\ cmpxchg(p)

\* The result is total, read once more: not what this call made of it.  It
\* decides only whether a line is printed.
Returned(p) ==
  /\ proc[p].pc = "return"
  /\ proc' = [proc EXCEPT ![p].pc = "idle", ![p].delta = 0]
  /\ UNCHANGED total

MulticoreNext ==
  \E p \in Process :
    \/ server(p) \/ server_reader(p) \/ ServerDies(p)
    \/ ReadsTotal(p) \/ Exchanges(p) \/ Returned(p)

-----------------------------------------------------------------------------
\* No update of the shared counter is lost, between any number of processes
\* in their loops around cmpxchg, whichever of them dies: total is the
\* clients of every process, with those of the dead and the failed accepts,
\* but for the updates that are still under way.
SharedTotalExact ==
  total = MapThenSumSet(LAMBDA p : proc[p].clients + proc[p].phantoms
                                   - (IF proc[p].pc \in {"read", "cas"} THEN proc[p].delta ELSE 0),
                        Process)

=============================================================================
