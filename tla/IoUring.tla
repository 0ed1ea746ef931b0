------------------------------ MODULE IoUring -------------------------------
(***************************************************************************)
(* The completion loop of io_uring_entry.c (NETWORK_IOURING).  An          *)
(* operation is prepared in the submission queue, becomes the kernel's     *)
(* with io_uring_submit, and comes back as an entry of the completion      *)
(* queue.  A conn_item is a heap block; blocks and descriptors are reused. *)
(* The kernel's side (the ...Done actions) is external.                    *)
(***************************************************************************)
EXTENDS Sockets, RequestBuffer

CONSTANTS
  Item,             \* the blocks a conn_item can be allocated in
  ENTRIES_LENGTH,   \* size of the submission queue
  Batch             \* length of cqes

ASSUME RingAssumption == {ENTRIES_LENGTH, Batch} \subseteq Nat \ {0}

VARIABLES
  ring,      \* "submit", "wait", "batch", or "down"
  sq,        \* operations prepared and not submitted
  inflight,  \* operations the kernel has
  cq,        \* completed operations, oldest first, until io_uring_cq_advance
  nready,    \* entries in this batch
  pos,       \* the local i
  item,      \* the conn_items: item[b] is a record, or None
  served,    \* what the last step ran: what was asked, and was it intact
  cut        \* history: the connections whose reply was not sent whole

ringvars == <<ring, sq, inflight, cq, nready, pos, item, served, cut>>

Op(event, b) == [event |-> event, item |-> b]

NoRequest == [asked |-> None, intact |-> TRUE]

RingInit ==
  /\ ring = "submit" /\ sq = <<Op("ACCEPT", None)>> /\ inflight = {}
  /\ cq = <<>> /\ nready = 0 /\ pos = 1
  /\ item = [b \in Item |-> None]
  /\ served = NoRequest /\ cut = {}

-----------------------------------------------------------------------------
io_uring_submit ==
  /\ ring = "submit" /\ ring' = "wait"
  /\ inflight' = inflight \cup Range(sq) /\ sq' = <<>>
  /\ served' = NoRequest /\ UNCHANGED <<cq, nready, pos, item, cut, netvars>>

\* io_uring_wait_cqe, then io_uring_peek_batch_cqe.
io_uring_wait_cqe ==
  /\ ring = "wait" /\ cq # <<>> /\ ring' = "batch"
  /\ nready' = Min({Batch, Len(cq)}) /\ pos' = 1
  /\ served' = NoRequest /\ UNCHANGED <<sq, inflight, cq, item, cut, netvars>>

\* io_uring_get_sqe returns NULL when the queue is full, and the prep
\* functions write through it.
Prepare(ops) ==
  IF Len(sq) + Len(ops) > ENTRIES_LENGTH THEN ring' = "down" /\ UNCHANGED sq
  ELSE sq' = sq \o ops /\ UNCHANGED ring

This(event) == ring = "batch" /\ pos <= nready /\ cq[pos].op.event = event

\* accept is armed again first; the new connection gets a zeroed item.
on_accept ==
  /\ This("ACCEPT") /\ pos' = pos + 1
  /\ IF cq[pos].res = Bad
     THEN Prepare(<<Op("ACCEPT", None)>>) /\ UNCHANGED item
     ELSE LET b == CHOOSE d \in Item : item[d] = None
          IN
            /\ item' = [item EXCEPT ![b] = [fd |-> cq[pos].res, nul |-> Cleared]]
            /\ Prepare(<<Op("ACCEPT", None), Op("READ", b)>>)
  /\ served' = NoRequest /\ UNCHANGED <<inflight, cq, nready, cut, netvars>>

\* close(item->fd); free(item).
Closed(b) ==
  /\ item' = [item EXCEPT ![b] = None]
  /\ conn' = [conn EXCEPT ![Peer(item[b].fd)].fd = Bad, ![Peer(item[b].fd)].cl = "gone"]

\* The kernel has written the request; rbuffer[ret] = '\0'.
Terminated(nul, r) == Received(nul, r) \cup {ReqLen[r]}

on_read ==
  LET b == cq[pos].op.item
      r == cq[pos].res
  IN  /\ This("READ") /\ pos' = pos + 1
      /\ IF r # None
         THEN LET nul == Terminated(item[b].nul, r)
              IN  /\ served' = [asked |-> r, intact |-> Intact(nul, r)]
                  /\ item' = [item EXCEPT ![b].nul = Split(nul, r)]
                  /\ Prepare(<<Op("WRITE", b)>>)
                  /\ UNCHANGED conn
         ELSE Closed(b) /\ served' = NoRequest /\ UNCHANGED <<sq, ring>>
      /\ UNCHANGED <<inflight, cq, nready, cut, queue, faults, given>>

\* The result of the send is not looked at.
on_write ==
  /\ This("WRITE") /\ pos' = pos + 1
  /\ Prepare(<<Op("READ", cq[pos].op.item)>>)
  /\ served' = NoRequest /\ UNCHANGED <<inflight, cq, nready, item, cut, netvars>>

\* A plausible slip: everything in the queue counts as handled.
Advanced_All == <<>>

\* io_uring_cq_advance(&ring, nready).
Advanced == SubSeq(cq, nready + 1, Len(cq))

io_uring_cq_advance ==
  /\ ring = "batch" /\ pos > nready /\ ring' = "submit"
  /\ cq' = Advanced /\ nready' = 0 /\ pos' = 1
  /\ served' = NoRequest /\ UNCHANGED <<sq, inflight, item, cut, netvars>>

-----------------------------------------------------------------------------
(* The kernel completes an operation.                                      *)

Completes(op, res) ==
  /\ inflight' = inflight \ {op} /\ cq' = Append(cq, [op |-> op, res |-> res])
  /\ served' = NoRequest /\ UNCHANGED <<ring, sq, nready, pos, item, given>>

AcceptDone(op) ==
  /\ op.event = "ACCEPT" /\ queue # <<>> /\ UNCHANGED cut
  /\ \/ /\ FreeFd # {} /\ Completes(op, Min(FreeFd))
        /\ conn' = [conn EXCEPT ![Head(queue)].fd = Min(FreeFd)]
        /\ queue' = Tail(queue) /\ UNCHANGED faults
     \/ FreeFd = {} /\ Completes(op, Bad) /\ UNCHANGED <<conn, queue, faults>>
     \/ /\ Fault("ECONNABORTED") /\ Completes(op, Bad)
        /\ conn' = [conn EXCEPT ![Head(queue)].cl = "gone"]
        /\ queue' = Tail(queue)

ReadDone(op) ==
  /\ op.event = "READ"
  /\ LET k == Peer(item[op.item].fd)
     IN  \/ /\ conn[k].in # None /\ Completes(op, conn[k].in)
            /\ conn' = [conn EXCEPT ![k].in = None]
         \/ /\ conn[k].in = None /\ (conn[k].fin \/ conn[k].err # "no")
            /\ Completes(op, None) /\ UNCHANGED conn
  /\ UNCHANGED <<queue, faults, cut>>

\* The send waits for room.  It then takes what there is room for, or less
\* when the kernel is short of memory, and is over; or it fails.
WriteDone(op) ==
  /\ op.event = "WRITE"
  /\ LET k == Peer(item[op.item].fd)
         room == Min({ReplyLen, Capacity(k) - conn[k].out})
         takes(n) == /\ Completes(op, n) /\ conn' = [conn EXCEPT ![k].out = @ + n]
                     /\ cut' = IF n < ReplyLen THEN cut \cup {k} ELSE cut
     IN  \/ conn[k].err = "no" /\ room > 0 /\ takes(room) /\ UNCHANGED faults
         \/ conn[k].err = "no" /\ room > 1 /\ Fault("short") /\ takes(room - 1)
         \/ conn[k].err # "no" /\ Completes(op, Bad) /\ UNCHANGED <<conn, faults, cut>>
  /\ UNCHANGED queue

Ring ==
  \/ io_uring_submit \/ io_uring_wait_cqe \/ on_accept \/ on_read \/ on_write
  \/ io_uring_cq_advance

=============================================================================
