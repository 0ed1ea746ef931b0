--------------------------- MODULE RequestBuffer ----------------------------
(***************************************************************************)
(* rbuffer of a conn_item: recv writes a request over whatever is there,   *)
(* kvstore_requese reads up to the first NUL and strtok writes a NUL over  *)
(* every separator.  Of the bytes, only the positions of the NULs matter;  *)
(* they are a set, and BUFFER_LENGTH stands for the byte behind the end.   *)
(***************************************************************************)
EXTENDS Integers, FiniteSetsExt

CONSTANTS
  BUFFER_LENGTH,
  ReqLen,    \* ReqLen[r]: the length of request r
  Seps       \* Seps[r]: where its separators are

ASSUME RequestAssumption ==
  \A r \in DOMAIN ReqLen : /\ ReqLen[r] \in 1 .. BUFFER_LENGTH
                           /\ Seps[r] \subseteq 1 .. ReqLen[r] - 2

\* memset(rbuffer, 0, BUFFER_LENGTH).
Cleared == 0 .. BUFFER_LENGTH

\* recv(fd, rbuffer, BUFFER_LENGTH, 0) returning the request r.
Received(nul, r) == nul \ (0 .. ReqLen[r] - 1)

\* The length of the string in the buffer.
strlen(nul) == Min(nul)

\* strtok has cut the request up.  A tail left from an earlier request has
\* no separator any more: it was cut up then.
Split(nul, r) == nul \cup Seps[r]

\* The parser sees the request the client sent, all of it and no more.
Intact(nul, r) == strlen(nul) = ReqLen[r]

\* A request of one word is a command; with a tail it is no command the
\* parser knows, and its default case is assert(0).
Unknown(nul, r) == ~Intact(nul, r) /\ Seps[r] = {}

=============================================================================
