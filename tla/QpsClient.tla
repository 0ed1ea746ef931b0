----------------------------- MODULE QpsClient ------------------------------
(***************************************************************************)
(* The load client test_qps_tcpclient.c: threads with a connection each    *)
(* send and compare, and count their failures in one variable, which they  *)
(* increment without a lock.  The server is an echo server.                *)
(*                                                                         *)
(* A request and its echo have PacketLen units, all packets are alike and  *)
(* repeat after MessageLen units.  TCP hands out what has arrived.         *)
(***************************************************************************)
EXTENDS Integers, FiniteSetsExt

CONSTANTS
  QThread,
  requestion,    \* -n
  PacketLen, MessageLen

ASSUME QpsAssumption ==
  IsFiniteSet(QThread) /\ requestion \in Nat /\ PacketLen \in Nat \ {0} /\ MessageLen \in Nat \ {0}

VARIABLES
  client,    \* the threads.  owed: units of the echo not yet received
  failed,    \* test_context_t.failed
  wrong,     \* history: the failures each thread has met
  main       \* where main is, or how the process ended

qpsvars == <<client, failed, wrong, main>>

threadnum == Cardinality(QThread)

\* What each thread sends: the remainder is nobody's.
count == requestion \div threadnum

QpsInit ==
  /\ client = [t \in QThread |-> [pc |-> "connect", i |-> 0, owed |-> 0, tmp |-> 0]]
  /\ failed = 0 /\ wrong = [t \in QThread |-> 0] /\ main = "join"

In_(t, pc) == main = "join" /\ client[t].pc = pc
To(t, r) == client' = [client EXCEPT ![t] = r]

\* The head of the loop: the next request, or the end of the thread.
NextOne(c) == [c EXCEPT !.pc = IF c.i < count THEN "send" ELSE "done",
                        !.i = IF c.i < count THEN c.i + 1 ELSE c.i,
                        !.tmp = 0]

\* A thread that cannot connect ends, and its requests are not counted.
connect_tcpserver(t) ==
  /\ In_(t, "connect")
  /\ \/ To(t, NextOne(client[t]))
     \/ To(t, [client[t] EXCEPT !.pc = "done"])
  /\ UNCHANGED <<failed, wrong, main>>

\* A blocking send of the whole packet.
SendsPacket(t) ==
  /\ In_(t, "send")
  /\ To(t, [client[t] EXCEPT !.pc = "recv", !.owed = @ + PacketLen])
  /\ UNCHANGED <<failed, wrong, main>>

\* Is what one recv returned, n units, the packet?  It begins where the last
\* one ended.
SamePacket(c, n) == n = PacketLen /\ (c.i * PacketLen - c.owed) % MessageLen = 0

\* One recv, however much of the echo it gets.
send_recv_tcppkt(t) ==
  /\ In_(t, "recv")
  /\ \E n \in 1 .. client[t].owed :
       LET c == [client[t] EXCEPT !.owed = @ - n]
       IN  IF SamePacket(client[t], n) THEN To(t, NextOne(c)) /\ UNCHANGED wrong
           ELSE To(t, [c EXCEPT !.pc = "load"]) /\ wrong' = [wrong EXCEPT ![t] = @ + 1]
  /\ UNCHANGED <<failed, main>>

\* pctx->failed ++ is a load and a store.
Loads(t) ==
  /\ In_(t, "load")
  /\ To(t, [client[t] EXCEPT !.pc = "store", !.tmp = failed])
  /\ UNCHANGED <<failed, wrong, main>>

Stores(t) ==
  /\ In_(t, "store") /\ failed' = client[t].tmp + 1
  /\ To(t, NextOne(client[t]))
  /\ UNCHANGED <<wrong, main>>

\* An error of send or recv, or the end of the stream: exit(1).
ExitsAll(t) ==
  /\ In_(t, "send") \/ In_(t, "recv")
  /\ main' = "exit" /\ UNCHANGED <<client, failed, wrong>>

\* All joined.  The rate is divided by the milliseconds, which may be none.
Prints ==
  /\ main = "join" /\ \A t \in QThread : client[t].pc = "done"
  /\ main' \in {"report", "sigfpe"}
  /\ UNCHANGED <<client, failed, wrong>>

QpsNext ==
  \/ Prints
  \/ \E t \in QThread :
       \/ connect_tcpserver(t) \/ SendsPacket(t) \/ send_recv_tcppkt(t)
       \/ Loads(t) \/ Stores(t) \/ ExitsAll(t)

-----------------------------------------------------------------------------
\* The count of failures in the report may miss some, as two threads may
\* increment from the same value; but it invents none, it is not 0 when
\* there was one, and it is exact when one thread has had them all.
FailuresNotHidden ==
  main = "report" =>
    LET all == MapThenSumSet(LAMBDA t : wrong[t], QThread)
    IN  /\ failed <= all
        /\ all > 0 => failed > 0
        /\ (\E t \in QThread : wrong[t] = all) => failed = all

=============================================================================
