------------------------------ MODULE NtyCalls -------------------------------
(***************************************************************************)
(* The socket calls of nty_socket.c: the hooked socket, accept, connect,   *)
(* read, recv, recvfrom, write, send, sendto and close, and the functions  *)
(* nty_... that poll once more and call the hooked ones.                   *)
(*                                                                         *)
(* One coroutine makes one call after another on one descriptor at a time; *)
(* there is a scheduler (without one a hooked call is the system call).    *)
(* A step is one system call, or the report of epoll that ends a wait in   *)
(* nty_poll_inner.  Bytes are counted, not looked at.                      *)
(***************************************************************************)
EXTENDS Integers, FiniteSetsExt

CONSTANTS
  NoSocket,
  Lens,         \* the lengths a caller passes
  Room,         \* what a socket holds in each direction
  MaxMishaps    \* bound on resets and failures

ASSUME CallsAssumption ==
  /\ Lens \subseteq Nat /\ 0 \in Lens /\ Room \in Nat \ {0} /\ MaxMishaps \in Nat
  /\ IsFiniteSet(Lens)

VARIABLES
  call,      \* the call being made, or the last one with its result val
  sock,      \* the caller's socket
  backlog,   \* connections to accept
  open,      \* descriptors open in the process
  lost,      \* of these, the ones nobody knows of
  mishaps    \* resets and failures so far

callvars == <<call, sock, backlog, open, lost, mishaps>>

\* sent is the function's variable of that name, looped: it has polled.  Both
\* twice, for the hooked call and for the function nty_... around it; level
\* says which of the two is running or waiting.
NoCall == [op |-> "none", nty |-> FALSE, want |-> 0, moved |-> 0, val |-> 0, pc |-> "idle",
           level |-> "hook", looped |-> FALSE, sent |-> 0, ntyLooped |-> FALSE, ntySent |-> 0]

NewSocket(st) == [st |-> st, in |-> 0, fin |-> FALSE, err |-> "no", out |-> 0]

CallsInit ==
  /\ call = NoCall /\ sock = NoSocket
  /\ backlog = 0 /\ open = 0 /\ lost = 0 /\ mishaps = 0

Mishap == mishaps < MaxMishaps /\ mishaps' = mishaps + 1

-----------------------------------------------------------------------------
(* The system calls (external): what they return, with errno, and what     *)
(* becomes of the socket.  After a reset the first call says so; a send    *)
(* after that, or after a reset of a connection the peer had closed, gets  *)
(* SIGPIPE, which nobody handles.                                          *)

Sys(val, errno, s) == [val |-> val, errno |-> errno, sock |-> s]

ResetSeen == Sys(-1, "ECONNRESET", [sock EXCEPT !.err = "pipe"])

recv_f(n) ==
  IF sock.in > 0 THEN LET k == Min({n, sock.in}) IN {Sys(k, "", [sock EXCEPT !.in = @ - k])}
  ELSE IF sock.err = "reset" THEN {ResetSeen}
  ELSE IF sock.fin \/ sock.err = "pipe" THEN {Sys(0, "", sock)}
  ELSE {Sys(-1, "EAGAIN", sock)}

send_f(n) ==
  IF sock.err = "reset" THEN {ResetSeen}
  ELSE IF sock.err = "pipe" THEN {Sys(-1, "SIGPIPE", sock)}
  ELSE IF n = 0 THEN {Sys(0, "", sock)}
  ELSE IF sock.out = Room THEN {Sys(-1, "EAGAIN", sock)}
  ELSE {Sys(k, "", [sock EXCEPT !.out = @ + k]) : k \in 1 .. Min({n, Room - sock.out})}

\* What epoll reports for the events the call waits for; errors always.
Readable == sock.in > 0 \/ sock.fin \/ sock.err # "no"
Writable == sock.st # "connecting" /\ (sock.out < Room \/ sock.err # "no")

Ready ==
  IF call.op = "accept" THEN backlog > 0
  ELSE IF call.op \in {"recv", "read", "recvfrom"} THEN Readable ELSE Writable

Report ==
  /\ call.pc = "wait" /\ Ready
  /\ call' = [call EXCEPT !.pc = "run"]
  /\ UNCHANGED <<sock, backlog, open, lost, mishaps>>

-----------------------------------------------------------------------------
(* What the functions make of a result.                                    *)

Return(c, val) == call' = [NoCall EXCEPT !.val = val, !.moved = c.moved]

\* nty_poll_inner, up to its yield, in the hooked call or around it.
WaitsInHook(c) == call' = [c EXCEPT !.pc = "wait", !.level = "hook", !.looped = TRUE]
WaitsInNty(c)  == call' = [c EXCEPT !.pc = "wait", !.level = "nty", !.ntyLooped = TRUE]

\* The loop of nty_send and of the hooked send and write ends, after a call
\* that returned val: nothing at all was to be sent, the call failed after a
\* poll, or sent is complete.
LoopEnds(sent, want, looped, val) == val = 0 \/ (val < 0 /\ looped) \/ sent >= want

\* A plausible slip: the result of the last call, not of all of them.
Total_Last(sent, val) == val

Total(sent, val) == IF sent = 0 THEN val ELSE sent

nty_send(c, val) ==
  LET d == [c EXCEPT !.ntySent = @ + Max({val, 0})]
  IN  IF LoopEnds(d.ntySent, c.want, c.ntyLooped, val) THEN Return(d, Total(d.ntySent, val))
      ELSE WaitsInNty(d)

\* A reset, for which the hooked sendto returns 0, ends the loop, and what
\* was sent before is not reported.
nty_sendto(c, val, errno) ==
  LET d == [c EXCEPT !.ntySent = @ + Max({val, 0})]
  IN  IF val <= 0 THEN IF errno = "EAGAIN" THEN WaitsInNty(c) ELSE Return(c, val)
      ELSE IF d.ntySent < c.want THEN WaitsInNty(d) ELSE Return(d, d.ntySent)

nty_recv(c, val) == Return(c, val)

nty_recvfrom(c, val, errno) == Return(c, IF errno = "ECONNRESET" THEN 0 ELSE val)

nty_connect(c, val, errno) ==
  IF errno \in {"EAGAIN", "EINPROGRESS"} THEN WaitsInNty(c) ELSE Return(c, val)

-----------------------------------------------------------------------------
(* The hooked calls: the system call and what follows, in the function     *)
(* nty_... that made the call, if one did.                                 *)

Running(op) == call.op = op /\ call.pc = "run" /\ call.level = "hook"

Moved(n) == [call EXCEPT !.moved = @ + Max({n, 0})]

recv ==
  /\ Running("recv")
  /\ \E r \in recv_f(call.want) :
        /\ sock' = r.sock
        /\ IF call.nty THEN nty_recv(Moved(r.val), r.val) ELSE Return(Moved(r.val), r.val)
  /\ UNCHANGED <<backlog, open, lost, mishaps>>

read ==
  /\ Running("read")
  /\ \E r \in recv_f(call.want) : sock' = r.sock /\ Return(Moved(r.val), r.val)
  /\ UNCHANGED <<backlog, open, lost, mishaps>>

recvfrom ==
  /\ Running("recvfrom")
  /\ \E r \in recv_f(call.want) :
        /\ sock' = r.sock
        /\ LET val == IF r.errno = "ECONNRESET" THEN 0 ELSE r.val
           IN  IF call.nty THEN nty_recvfrom(Moved(val), val, r.errno) ELSE Return(Moved(val), val)
  /\ UNCHANGED <<backlog, open, lost, mishaps>>

\* The process ends.
Killed == call' = [call EXCEPT !.pc = "killed"]

\* One round of send or write: the first one comes without a poll.
Sends(r) ==
  LET c    == [Moved(r.val) EXCEPT !.sent = @ + Max({r.val, 0})]
      want == call.want - call.ntySent
      val  == Total(c.sent, r.val)
  IN  IF r.errno = "SIGPIPE" THEN Killed
      ELSE IF LoopEnds(c.sent, want, c.looped, r.val)
      THEN IF c.nty THEN nty_send([c EXCEPT !.sent = 0, !.looped = FALSE], val) ELSE Return(c, val)
      ELSE WaitsInHook(c)

send ==
  /\ Running("send")
  /\ \E r \in send_f(call.want - call.ntySent - call.sent) : sock' = r.sock /\ Sends(r)
  /\ UNCHANGED <<backlog, open, lost, mishaps>>

write ==
  /\ Running("write")
  /\ \E r \in send_f(call.want - call.sent) : sock' = r.sock /\ Sends(r)
  /\ UNCHANGED <<backlog, open, lost, mishaps>>

sendto ==
  /\ Running("sendto")
  /\ \E r \in send_f(call.want - call.ntySent) :
        /\ sock' = r.sock
        /\ IF r.errno = "SIGPIPE" THEN Killed
           ELSE LET val == IF r.errno = "ECONNRESET" THEN 0 ELSE r.val
                IN  IF call.nty THEN nty_sendto(Moved(val), val, r.errno) ELSE Return(Moved(val), val)
  /\ UNCHANGED <<backlog, open, lost, mishaps>>

Connects(val, errno) == IF call.nty THEN nty_connect(call, val, errno) ELSE Return(call, val)

\* A plausible slip: every failure is taken for a connection under way.
connect_Again ==
  /\ Running("connect")
  /\ \/ sock.st \in {"new", "refused"} /\ sock' = NewSocket("connecting") /\ WaitsInHook(call)
     \/ sock.st = "done" /\ sock' = NewSocket("up") /\ Connects(0, "")
  /\ UNCHANGED <<backlog, open, lost, mishaps>>

\* The first connect_f starts the handshake, the next has its outcome.
connect ==
  /\ Running("connect")
  /\ \/ sock.st = "new" /\ sock' = NewSocket("connecting") /\ WaitsInHook(call)
     \/ sock.st = "done" /\ sock' = NewSocket("up") /\ Connects(0, "")
     \/ sock.st = "refused" /\ sock' = NewSocket("new") /\ Connects(-1, "ECONNREFUSED")
  /\ UNCHANGED <<backlog, open, lost, mishaps>>

\* Any result of accept or socket but -1.
Descriptor == 3

Accepted(c) ==
  sock' = NewSocket("up") /\ open' = open + 1 /\ Return(c, Descriptor) /\ UNCHANGED <<lost, mishaps>>

\* fcntl failed: the new connection is closed again.
NotNonblocking(c) == Mishap /\ Return(c, -1) /\ UNCHANGED <<sock, open, lost>>

\* After the hooked accept it calls fcntl once more.
nty_accept(c) == Accepted(c) \/ NotNonblocking(c)

accept ==
  /\ Running("accept")
  /\ \/ backlog = 0 /\ WaitsInHook(call) /\ UNCHANGED <<sock, backlog, open, lost, mishaps>>
     \/ /\ backlog > 0 /\ backlog' = backlog - 1
        /\ \/ ~call.nty /\ Accepted(call)
           \/ call.nty /\ nty_accept(call)
           \/ NotNonblocking(call)
           \/ Mishap /\ Return(call, -1) /\ UNCHANGED <<sock, open, lost>>
     \/ /\ backlog > 0 /\ Mishap /\ Return(call, -1)
        /\ UNCHANGED <<sock, backlog, open, lost>>

\* The kernel opens a socket, and it is made non-blocking.
Opened ==
  sock' = NewSocket("new") /\ open' = open + 1 /\ Return(NoCall, Descriptor)
  /\ UNCHANGED <<lost, mishaps>>

\* fcntl fails: its result, -1, is closed, and the descriptor stays open
\* with nobody knowing it.
LeftOpen ==
  Mishap /\ Return(NoCall, -1) /\ open' = open + 1 /\ lost' = lost + 1 /\ UNCHANGED sock

\* After the hooked socket it calls fcntl once more.
nty_socket == Opened \/ LeftOpen

socket ==
  /\ call.pc = "idle" /\ sock = NoSocket
  /\ \/ \E nty \in BOOLEAN : IF nty THEN nty_socket ELSE Opened
     \/ Mishap /\ Return(NoCall, -1) /\ UNCHANGED <<sock, open, lost>>
     \/ LeftOpen
  /\ UNCHANGED backlog

close ==
  /\ call.pc = "idle" /\ sock # NoSocket
  /\ sock' = NoSocket /\ open' = open - 1 /\ Return(NoCall, 0)
  /\ UNCHANGED <<backlog, lost, mishaps>>

-----------------------------------------------------------------------------
(* The program, and the peer.                                              *)

\* A call up to its first wait or system call.  nty_sendto of nothing does
\* not call anything; send and write do not wait first.
Starts(op, nty, n) ==
  LET c == [NoCall EXCEPT !.op = op, !.nty = nty, !.want = n]
  IN  /\ call.pc = "idle"
      /\ IF op \in {"send", "write"} THEN call' = [c EXCEPT !.pc = "run"]
         ELSE IF nty /\ op = "sendto" /\ n = 0 THEN Return(c, 0)
         ELSE IF nty THEN call' = [c EXCEPT !.pc = "wait", !.level = "nty", !.ntyLooped = TRUE]
         ELSE call' = [c EXCEPT !.pc = "wait"]
      /\ UNCHANGED <<sock, backlog, open, lost, mishaps>>

Program ==
  \/ socket \/ close
  \/ \E nty \in BOOLEAN :
        \/ sock = NoSocket /\ Starts("accept", nty, 0)
        \/ sock # NoSocket /\ sock.st = "new" /\ Starts("connect", nty, 0)
        \/ /\ sock # NoSocket /\ sock.st = "up"
           /\ \/ \E n \in Lens \ {0}, op \in {"recv", "recvfrom"} : Starts(op, nty, n)
              \/ \E n \in Lens, op \in {"send", "sendto"} : Starts(op, nty, n)
              \/ \E n \in Lens \ {0} : ~nty /\ Starts("read", nty, n)
              \/ \E n \in Lens : ~nty /\ Starts("write", nty, n)

\* The poll of a function nty_... is over; the hooked call it makes polls
\* again, unless it is send.
EntersHook ==
  /\ call.pc = "run" /\ call.level = "nty"
  /\ call' = [call EXCEPT !.level = "hook", !.pc = IF call.op = "send" THEN "run" ELSE "wait"]
  /\ UNCHANGED <<sock, backlog, open, lost, mishaps>>

Up == sock # NoSocket /\ sock.st = "up" /\ sock.err = "no"

PeerDoes(s) == sock' = s /\ UNCHANGED <<call, backlog, open, lost>>

PeerReads  == Up /\ sock.out > 0 /\ PeerDoes([sock EXCEPT !.out = @ - 1]) /\ UNCHANGED mishaps
PeerSends  == Up /\ ~sock.fin /\ sock.in < Room /\ PeerDoes([sock EXCEPT !.in = @ + 1]) /\ UNCHANGED mishaps
PeerCloses == Up /\ ~sock.fin /\ PeerDoes([sock EXCEPT !.fin = TRUE]) /\ UNCHANGED mishaps

PeerResets ==
  Up /\ Mishap
  /\ PeerDoes([sock EXCEPT !.err = IF sock.fin THEN "pipe" ELSE "reset", !.out = 0])

PeerAnswers ==
  /\ sock # NoSocket /\ sock.st = "connecting"
  /\ \E st \in {"done", "refused"} : PeerDoes(NewSocket(st))
  /\ UNCHANGED mishaps

PeerArrives ==
  backlog = 0 /\ backlog' = 1 /\ UNCHANGED <<call, sock, open, lost, mishaps>>

PeerWithdraws ==
  backlog = 1 /\ Mishap /\ backlog' = 0 /\ UNCHANGED <<call, sock, open, lost>>

CallStep ==
  \/ Report \/ EntersHook \/ recv \/ read \/ recvfrom \/ send \/ write \/ sendto
  \/ connect \/ accept

PeerStep == PeerReads \/ PeerSends \/ PeerCloses \/ PeerAnswers \/ PeerArrives

CallsNext == Program \/ CallStep \/ PeerStep \/ PeerResets \/ PeerWithdraws

-----------------------------------------------------------------------------
\* Whatever happens between a poll and the system call after it, a call
\* never tells its caller to try again, and its result says what it did:
\* a positive result is the number of bytes moved, a smaller number of
\* bytes sent than asked for means that the connection is broken, 0 the end
\* of the input (or nothing to send), -1 a reset with nothing moved.  There
\* are three exceptions: the hooked sendto makes one attempt, recvfrom and
\* sendto report a reset as 0, and nty_sendto then does not say what it sent.
\* Descriptors are neither lost nor closed twice on any path, but for the
\* path of socket that closes -1.
CallsTellTruth ==
  /\ [](open = lost + (IF sock = NoSocket THEN 0 ELSE 1))
  /\ [][(call.pc = "run" /\ call'.pc = "idle" /\ call.op \notin {"connect", "accept"}) =>
          LET val == call'.val
              Sending == call.op \in {"send", "write", "sendto"}
          IN  /\ val > 0 => val = call'.moved
              /\ (Sending /\ val \in 1 .. call.want - 1) =>
                   sock'.err = "pipe" \/ (call.op = "sendto" /\ ~call.nty)
              /\ val = 0 => IF Sending THEN call.want = 0 \/ (call.op = "sendto" /\ sock'.err = "pipe")
                            ELSE sock'.fin \/ sock'.err = "pipe"
              /\ val < 0 => sock'.err = "pipe"
              /\ val <= 0 => call'.moved = 0 \/ (call.nty /\ call.op = "sendto")]_callvars

\* Every call returns, in spite of the loops around the calls and polls, if
\* the peer does its part: it connects or answers, reads what it is sent,
\* and sends something or closes.  (Or SIGPIPE ends the process.)
EveryCallReturns == call.pc \in {"wait", "run"} ~> call.pc \in {"idle", "killed"}

=============================================================================
