------------------------------- MODULE Buffer -------------------------------
(***************************************************************************)
(* Kmuduo's Buffer (Buffer.h, Buffer.cc): a vector of bytes with a reader  *)
(* and a writer index.  data is a history variable: what was appended and  *)
(* not yet retrieved.  The bytes count modulo Bytes, so a byte at a wrong  *)
(* place is noticed.                                                       *)
(***************************************************************************)
EXTENDS Integers, FiniteSetsExt, SequencesExt

CONSTANTS
  kCheapPrepend, kInitialSize,
  ExtraBuf,       \* length of extrabuf in readFd
  Bytes,          \* number of different bytes
  MaxReadable     \* bound on what the application leaves in the buffer

ASSUME BufferAssumption ==
  /\ {kInitialSize, ExtraBuf, Bytes, MaxReadable} \subseteq Nat \ {0}
  /\ kCheapPrepend \in Nat

VARIABLES
  buffer_, readerIndex_, writerIndex_,
  data,      \* history: the bytes in the buffer
  produced   \* history: the next byte of the stream

bufvars == <<buffer_, readerIndex_, writerIndex_, data, produced>>

Zeros(n) == [i \in 1 .. n |-> 0]

BufferInit ==
  /\ buffer_ = Zeros(kCheapPrepend + kInitialSize)
  /\ readerIndex_ = kCheapPrepend /\ writerIndex_ = kCheapPrepend
  /\ data = <<>> /\ produced = 0

\* A state of the buffer between two steps of one call.
Now == [buf |-> buffer_, r |-> readerIndex_, w |-> writerIndex_]

readableBytes(b)    == b.w - b.r
writableBytes(b)    == Len(b.buf) - b.w
prependableBytes(b) == b.r

\* Nobody reads a byte outside the indices again; the model forgets it.
Becomes(b) ==
  /\ buffer_' = [i \in DOMAIN b.buf |-> IF i \in b.r + 1 .. b.w THEN b.buf[i] ELSE 0]
  /\ readerIndex_' = b.r /\ writerIndex_' = b.w

-----------------------------------------------------------------------------
\* std::copy to position at of the vector.
Copied(buf, at, s) ==
  [i \in DOMAIN buf |-> IF i - at \in DOMAIN s THEN s[i - at] ELSE buf[i]]

\* A plausible slip: the bytes in front of the reader count twice.
makeSpace_Counts(b, len) ==
  IF writableBytes(b) + prependableBytes(b) < len
  THEN [b EXCEPT !.buf = @ \o Zeros(b.w + len - Len(@))]
  ELSE [buf |-> Copied(b.buf, kCheapPrepend, SubSeq(b.buf, b.r + 1, b.w)),
        r |-> kCheapPrepend, w |-> kCheapPrepend + readableBytes(b)]

\* Grow, or move the readable bytes to the front.
makeSpace(b, len) ==
  IF writableBytes(b) + prependableBytes(b) < len + kCheapPrepend
  THEN [b EXCEPT !.buf = @ \o Zeros(b.w + len - Len(@))]
  ELSE [buf |-> Copied(b.buf, kCheapPrepend, SubSeq(b.buf, b.r + 1, b.w)),
        r |-> kCheapPrepend, w |-> kCheapPrepend + readableBytes(b)]

ensureWriteableBytes(b, len) == IF writableBytes(b) < len THEN makeSpace(b, len) ELSE b

append(b, s) ==
  LET e == ensureWriteableBytes(b, Len(s))
  IN  [e EXCEPT !.buf = Copied(@, e.w, s), !.w = @ + Len(s)]

retrieve(b, len) ==
  IF len < readableBytes(b) THEN [b EXCEPT !.r = @ + len]
  ELSE [b EXCEPT !.r = kCheapPrepend, !.w = kCheapPrepend]      \* retrieveAll

\* readv has read s, first into the vector and then into extrabuf.
readFd(b, s) ==
  IF Len(s) <= writableBytes(b)
  THEN [b EXCEPT !.buf = Copied(@, b.w, s), !.w = @ + Len(s)]
  ELSE append([b EXCEPT !.buf = Copied(@, b.w, s), !.w = Len(b.buf)],
              SubSeq(s, writableBytes(b) + 1, Len(s)))

-----------------------------------------------------------------------------
Chunk(n) == [i \in 1 .. n |-> (produced + i) % Bytes]

Puts(n) == data' = data \o Chunk(n) /\ produced' = (produced + n) % Bytes

Append_(n) ==
  /\ Len(data) + n <= MaxReadable
  /\ Becomes(append(Now, Chunk(n))) /\ Puts(n)

\* iovcnt is 1 when the vector has room for all that extrabuf could take.
ReadFd(n) ==
  /\ Len(data) + n <= MaxReadable
  /\ n <= writableBytes(Now) + IF writableBytes(Now) < ExtraBuf THEN ExtraBuf ELSE 0
  /\ Becomes(readFd(Now, Chunk(n))) /\ Puts(n)

\* retrieve, retrieveAsString and, after writeFd, handleWrite.
Retrieve(n) ==
  /\ n <= Len(data)
  /\ Becomes(retrieve(Now, n))
  /\ data' = SubSeq(data, n + 1, Len(data)) /\ UNCHANGED produced

BufferNext == \E n \in 0 .. MaxReadable : Append_(n) \/ ReadFd(n) \/ Retrieve(n)

-----------------------------------------------------------------------------
\* The bytes between the reader and the writer are exactly what was put in
\* and not yet taken out, in order, although the vector grows, and its
\* content moves, in the middle of a call.
BufferHolds ==
  /\ kCheapPrepend <= readerIndex_ /\ writerIndex_ <= Len(buffer_)
  /\ SubSeq(buffer_, readerIndex_ + 1, writerIndex_) = data

=============================================================================
