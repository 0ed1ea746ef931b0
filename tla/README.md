# A TLA+ model of MutyDB

MutyDB is a key-value server in C and C++. A client sends one line (`SET key
value`, `RGET key`, `HDEL key`, ...), the server runs it in one of three
in-memory engines, appends it to a write-ahead log and answers with one line.
When the server starts it replays the log. Four network layers can carry the
requests; the build chooses one. This directory holds a TLA+ model of the
engines, the log, the request handler, the replay, the network layers and the
libraries under them, the TLC runs that check it, and proofs checked by TLAPS.

All paths below are relative to `src/`, where the code is.

## 1. The system and its parts

| part | source | state | model |
|---|---|---|---|
| array engine | `kvstore_array.c` | a table of 1024 entries and an index | `ArrayOps`, `ArrayEngine`, `ArrayMap` |
| hash engine | `kvstore_hash.c` | 102400 chains of nodes and a counter | `HashEngine` |
| red-black tree engine | `kvstore_rbtree.c` | nodes, a shared sentinel, a counter | `RBTree`, `TreeMap` |
| memory of the engines | the same, and `exit_kvengine` | heap blocks | `EngineMemory` |
| write-ahead log | `kvstore.c` 580-612 | `wal.log` and its archives | `Wal`, `WalLog`, `DurableLog` |
| request handler, replay | `kvstore.c` 152-577 | the engines, the request, the answer | `KVStore` |
| test client | `testcase.c` | place in a suite | `TestClient` |
| NtyCo server and scheduler (the default) | `nty_entry.c`, `NtyCo/core` | coroutines, ready queue, sleep tree, wait tree | `NtyServer`, `NtySleep`, `NtyStack`, `NtyCalls`, `NtyQueue`, `NtyTree`, `NtySplay` |
| epoll reactor | `epoll_entry.c` | connection table, batch of events | `EpollReactor`, `RequestBuffer` |
| io_uring loop | `io_uring_entry.c` | submissions, completions, items | `IoUring`, `RequestBuffer` |
| Kmuduo | `Kmuduo/`, `kmuduo_entry.cc` | event loops, connections, buffers, threads | `EventLoop`, `FunctorQueue`, `TcpServer`, `LoopThreads`, `Buffer` |
| memory pools | `kvstore_mpv1.c`, `kvstore_mpv2.c` | free list; nodes | `MemPool`, `NodePool` (compiled out today) |
| samples | `NtyCo/sample`, `io_uring`, `multi-io-main` | | `MulticoreServer`, `QpsClient`; the others are not modelled |

How they interact. A network layer receives bytes into the buffer of a
connection and calls `kvstore_requese`, which splits the request, calls one
engine, appends to the log, and leaves the answer in the other buffer; the layer
sends it. The default build (`kvstore.h` 74-84) uses NtyCo: all connections share
one thread, and a request is handled from its first to its last byte without a
switch, because `kvstore_requese` makes no call that yields. The same holds for
the reactor and the ring. That is why the requests of `KVStore` do not interleave
with each other, and why the network modules need not know what a request does,
only that it runs, whether it is read as it was sent, and how long its answer is.
What interleaves is the death of the process with the handler, the log and the
replay (`KVStore`), and clients, kernel, coroutines, completions and threads with
each other (the network modules).

## 2. The modules

### Engines, log and server

**ArrayOps** has the functions of `kvstore_array.c` as operators on the
`array_t` record. A call returns the new record and the result. Three details
decide how the engine behaves, and all three are kept: the table is allocated
with `malloc` and not cleared (`Uninit`); `DEL` writes `NULL` into its entry
and decrements the index, so the last entry may end up behind the index; `GET`
stops at the first hole, while `DEL` and `MOD` compare with its `NULL` key and
crash. **ArrayEngine** drives them by any client, with failing allocations and
requests that lack a key or a value. **ArrayMap** restricts the client: it sets
each key once, deletes only the last entry, and does not delete from or modify
an empty table. For that client the engine implements **KVMap**, the map a user
of a key-value store expects. **EngineClient** holds what the clients of both
engines send, and **Engines** puts the two engines and the two clients of the
array side by side, the variable `client` choosing one.

**HashEngine** models the chains as sequences of nodes, newest first. The hash
function is a constant: any function from keys to chains. It implements
`KVMap` for every client.

**RBTree** is the tree at the level of pointers. `rotate`, `Link`, `Unlink`,
`insert_fixup_iteration` and `delete_fixup_iteration` make the assignments of
the C functions in their order; where the code writes a case twice, once for
each side, the side is a parameter. One call is several steps: it links or
unlinks its node, then every iteration of the fixup loop is a step, then the
counter moves and the call returns. Keys are integers because `strcmp` orders
them. A node that is unlinked is not freed by the code (`if (!cur)` at
`kvstore_rbtree.c` 473 should be `if (cur)`); nothing points to it any more, so
the model may use its name again. **TreeMap** is what the engine computes: a
map with a counter, in which `SET` of a key that exists changes nothing but the
counter and answers 0.

**Wal** models `wal_append` and `rotate_wal`. A record is its serial number, a
file is a set of records. `rotate_wal` takes one step per `rename`, and the
process may die before, between and after them. `fopen` may fail (the record
is then dropped silently) and, in the runs that say so, `rename` may fail
(ignored by the code). **WalLog** reads the files in the order of `wal_replay`
and shows that this sequence implements **DurableLog**: it grows at the end,
and loses records only at the beginning.

**KVStore** composes everything: fifteen commands and unknown ones, the engine
call and the answer (`kvstore_parser_protocol`), then the log (`LogRequest`, two
steps apart, so that a crash can come between them), the rotation, and at
restart `wal_replay`. The log has text, because the code depends on it: a line
has two or three fields, and `fscanf("%15s %255s %255[^\n]")` takes the line
after a two-field line for its value. `ReadLine` and `ReadEnd` model that. The
array is used through `ArrayOps`, the tree through the operators of `TreeMap`
(which `RBTree` implements), the hash table as a map (which `HashEngine`
implements). Tokens that a short request lacks are read from uninitialised
memory: `Garbage` says what may be there. A request that allocates may find no
memory (`Memory`): `SET` and `RSET` then fail, `RMOD` fails after it has freed
the old value, and the others take the process down. The replay has the memory
it needs.

**EngineMemory** looks at the same three engines as owners of heap blocks: what
each call allocates, frees and forgets when any of its allocations fails, and
what `exit_kvengine` gives back.

**TestClient** runs the suites of `testcase.c` against `KVStore`: requests and
expected answers, over and over, with the log rotating and the server dying
underneath; the suite `none` sends anything.

### Network layers

**Sockets** is the environment they share, and is external: TCP connections with a
limited send buffer, descriptors the kernel hands out again, clients that come,
ask, read or do not read, close and reset at any time, and system calls that fail
(`Script`, `Room`, `Reading` and `MaxFault` say how much of that there is).
**RequestBuffer** is the buffer of a connection as `recv`, `strtok` and
`strlen` see it: the set of positions that hold a NUL.

**NtyServer** is `nty_entry.c` on the scheduler of NtyCo. A coroutine runs from
one yield to the next as one step, together with the part of `nty_schedule_run`
that resumes it; the ready queue, the wait tree, the registrations of epoll and
the batch of events are variables. **EpollReactor** has the three callbacks, one
event of the batch at a time. **IoUring** has the submission queue, the
operations with the kernel, which complete in any order, and the completion
queue, handled one entry at a time and advanced at the end. A send of the ring
waits for room and then takes what there is room for, which can be less than the
reply. **FrontEnds** puts
the three behind the same clients; `network` chooses one, as the build does.

**EventLoop** is the loop of Kmuduo: poll, the active channels, the pending
functors, and `queueLoop` from any thread, with the write to the eventfd as a
step of its own. **FunctorQueue** is what it promises: each loop has a queue, and
each functor is called once, by its loop, in order. **TcpServer** adds acceptor,
connections, channels and pollers, and the two applications: the key-value
server, and the echo server of `Kmuduo/example/testserver.cc`, which shuts its
connections down. A connection lives as long as something holds a
`shared_ptr` to it, and the model computes that from the state. **LoopThreads**
starts and destroys the threads of the pool.

### The parts underneath

**Buffer** (the vector of bytes with its two indices), **MemPool** and
**NodePool** (the two memory pools, at the level of bytes), **NtyQueue** (the list
macros, with the addresses of pointers that `TAILQ_PREV` relies on), **NtyTree**
and **NtySplay** (the tree macros, pointer by pointer; the scheduler uses the
red-black ones, nothing the splay ones), **NtySleep** (the sleep tree and the time
the scheduler waits; a coroutine that returns while it is in the tree is freed
there, and what a walk over the tree does from then on is undefined: the model
lets it end the process or lose any of the others), **NtyStack** (the one stack all
coroutines share, saved and restored around a yield), **NtyCalls** (every hooked
socket call and its `nty_` version, one system call per step, with a peer that
acts in between), **MulticoreServer** and **QpsClient** (two stand-alone programs
with concurrency of their own). **Libraries** holds them, with `EngineMemory` and
`LoopThreads`, in one specification: `part` is chosen at the start, and only
that part moves.

The definitions named `..._Something` are slips a programmer could make in the
operator that follows them. They are not part of the model; each one was put in
place of the original to see that a property notices.

## 3. The runs

| run | shows | bounds |
|---|---|---|
| `engines` | index, reachability and answers of the array engine for any client; it is a map for the disciplined one; the hash engine is a map for every client | array: 3 keys, 2 values, 4 entries, enough for two holes and an entry behind the index; hash: 4 keys on 2 chains, three of them colliding: head, middle and end of a chain |
| `rbtree` | search tree, red rule, black height, termination and contents at every iteration | 6 keys and nodes for insertions and deletions: all six cases of both loops occur, on both sides; 3 keys for every call with failing allocations and `NULL` arguments |
| `wal` | order, retention, size and end of rotations, and the refinement of `DurableLog` | 3 archives, 2 records per file, 10 appends (more rotations than archives), 3 crashes, failing `fopen` |
| `kvstore` | all commands, complete requests and ones that are short or find no memory, one crash anywhere | 2 keys, 3 logged requests, one of them (`MaxOdd`) short or without memory, 2 archives, rotation at the second record |
| `test_client` | the test suites pass; recovery after longer histories, also of logs that cannot be replayed | 10 logged requests in a suite (two rotations), 5 of the client that sends anything, 2 crashes, failing `rename` |
| `front_ends` | the three single-threaded layers: bookkeeping, the ways the process can end, every request answered | 2 clients, 1 or 2 descriptors (so they run out and are reused), send buffer of half a reply (of a whole one for the first client of the ring), one client that does not read, 1 failing call |
| `tcp_server` | Kmuduo: wakeups, lifetimes, replies, release of connections | main loop with none, one or two others, 2 connections, 1 or 2 descriptors |
| `libraries` | the parts underneath | 3 list elements, 7 tree elements with a repeated key, 3 sleepers, 2 threads, 2 coroutines, 8 heap blocks; the constants of `Libraries.cfg` |
| `rbtree_set`, `replay_mod`, `replay_crash`, `epoll_requests` | violated, see section 5 | |

Run one with `tlc -config X.cfg Module`, as listed in `PROJECT.json`.

What the most important properties say:

- `IdxCountsEntries`: whatever the sequence of calls, the index is the number of
  entries. This is less obvious than it looks, since `DEL` moves the index below
  live entries. `PositiveMeansMissing`: what the answer of a scan that stops early
  can still be trusted for. `DisciplineIsSafe`: which client never meets a hole.
- `RedBlackTree`: search tree, red rule and black height in the middle of a fixup
  loop, not only between calls (`EveryNodeIsFound`, `RedRule`, `BlackHeight`). The
  last one counts the extra black that the deletion carries at `x`, which may be
  the sentinel.
- `LoopClimbs`: an iteration after which the loop goes on has moved closer to
  the root. So the loops end; no fairness is needed for the argument.
- `ReplayOrder`, `SurvivesRotations`, `ImplementsDurableLog`: after any crashes
  the files are in order, and only the oldest records are gone, none of them
  before more rotations than there are archives.
- `RecoveryExact`: if no record was dropped or overwritten and none is a `MOD`,
  a short line that swallows the next one, a line without its value, or a `SET`
  that had failed for want of memory and is logged all the same, then
  the replay restores the engines exactly as of the last logged request, at
  every point of every rotation. Section 5 shows that the exceptions are needed.
- `FailureChangesNothing`: a request that is answered with a failure left all
  engines as they were, although it is logged like a success. The exception: an
  `RMOD` without memory is answered `ERROR` and has lost the value of its key
  (`kvstore_rbtree.c` 491-496), and only that.
- `TestsPass`: the suites can be repeated on one server; after a crash only
  `hash_testcase` is sure to pass again, as `HSET` overwrites.
- `OnePlace`, `EventsFindWaiter`: a coroutine is in one place only, and an event
  of a batch finds its waiter although coroutines resumed earlier in the batch
  have closed descriptors.
- `OneServerEach`: each connection has one reader, one registration, one operation
  in the ring or one entry of the table, whichever layer serves it.
- `StopsOnlyThen`, `EndsOnlyThen`: the ways in which the network layers end a
  server process, for clients that send known commands and wait for their answers,
  as `testcase.c` does. What the request handler may do to the process is not in
  it: an unknown command meets the `assert` at `kvstore.c` 439 in every build
  (`RequestCrashes` in `KVStore`). The first one includes that the submission
  queue of the ring, which the code does not test, always has room.
- `MisreadAfterLonger`: the reactor misreads a request only behind a longer one,
  and the ring never does.
- `EveryRequestAnswered`: a client that reads gets its answer whatever the others
  do, in all three layers. The exceptions are failures the code does not handle:
  the process has ended; the descriptors ran out before the client was accepted;
  a coroutine could not be created; the ring took a short send of this reply for a
  whole one; and the reactor is in its blocking `send` to a client that does not
  read, and stays there. Without any one of them TLC finds a counterexample.
- `NoLostWakeup`, `ImplementsFunctorQueue`: the queue between threads.
- `DestroyedIsNowhere`: raw pointers to a connection never outlive it, and the
  pollers' channels match the open descriptors, although a destruction is spread
  over two loops and the descriptor is reused. `EveryConnectionReleased`: a
  connection is destroyed in the end.
- `BlocksAccounted`: no block of the engines is freed twice or used after it, and
  exactly which ones are lost.
- `CallsTellTruth`, `EveryCallReturns`: the results of the hooked calls, whatever
  the peer does between a poll and the call after it.
- `FramesKept`: the shared stack. `SleepersWake`: no sleeper is lost from the tree,
  and no wait for events outlasts one, as long as no coroutine returns while it is
  in the tree. `nty_coroutine_sleep` does not wait (`nty_schedule.c` 108), so a
  coroutine can return right after it, and is freed with its node linked
  (`nty_coroutine.c` 247-249). Nothing in `src/` outside NtyCo sleeps.
- `MacrosHold`, `PoolsExact`, `BufferHolds`: the data structures at the level of
  pointers, words and bytes. `CountersHonest`, `PoolStartsAndEnds`: the programs
  with threads or processes of their own.

**Bounds.** `MaxAppends`, `FreeAppends`, `MaxCrashes`, `MaxCount`, `MaxFault`,
`MaxYield`, `MaxOdd`, `MaxTime`, `MaxMishaps`, `MaxNodes`, `MaxReadable`, `MaxClients` and
`Bytes` bound what could go on for ever. In the runs of the engines, of the log and of the server
the model stands still at its bound (`WalAtBound`, `AtBound`), so that deadlock is
checked everywhere; the network runs and `libraries` do not check deadlock, as
there the clients may all be gone, the process may have ended, or a part be
finished. Sizes are scaled down and keep their order: `WAL_MAX_SIZE` counts
records instead of bytes, a reply has two units, a request at most eight bytes.
Symmetry is used in runs that check no liveness.

**Fairness.** Always weak, and only of what the system does by itself:

- `wal`: the steps of `rotate_wal`, which is straight-line code in a running
  process, and the restart after a crash.
- `front_ends`: the loop of the server; each operation the kernel has been given
  and can complete; each client that reads, of reading what has arrived.
- `tcp_server`: each loop thread, and each reading client. A loop that has
  nothing to do stays in its poll: no property relies on the timeout of ten
  seconds.
- `libraries`: the threads of the pool and their owner; the caller of a socket
  call, and the peer, which reads, answers, and sends or closes in the end.

## 4. The proofs

TLC checks small instances; TLAPS proves the following for all values of the
constants.

`ArrayEngineProofs` (every table size, all keys and values):
`ArrayTypeCorrect`, `ArrayIndexSound`, `ArrayReachable`,
`ArrayPositiveMeansMissing`, `ArrayEntriesLeaveByDel`. `ArrayReachable` states
`NoHoleMeansReachable`, that a search misses no entry while there is no hole; no
run repeats it, nor the type invariants. The properties are not
inductive by themselves: for `SET` to keep the index equal to the number of
entries one must know that a hole below the index goes together with an entry
behind it, and that the memory at the index was written before the index moves
there. The inductive invariant `Sound` therefore adds that memory is written
from the bottom up (`WrittenPrefix`). Two counting lemmas carry the argument:
without a hole the occupied entries are exactly the scanned ones (`FullPrefix`);
with a hole there is an entry behind the index, so the entry at the index has
been written (`EntryBehindHole`). Assumptions: the table has at least one entry,
and the markers `NULL`, `Uninit` and `Crash` are no keys, values or numbers.

`WalProofs` (every number of archives and records per file, any number of
crashes): `WalTypeCorrect`; `ReplayOrderHolds`, also when renames fail;
`RotationKeepsRecent` and `FilesStayBounded`, if renames succeed. The second
group needs to know what a rotation that a crash has cut short leaves behind.
`Gap` says that while `rotate_wal` is at archive `i` the file above it is free,
so that a rename overwrites only the last archive; `InReach` and `Kept` bound
the archive a record can have reached by the rotations since it was written.

Not proved, only model-checked: the network layers and the parts underneath;
the tree and the hash engine (their operators
walk pointers and sequences, and what such a recursion computes for every input
needs induction over data, which the installed provers cannot do); the
refinements; `RotationEnds` and other liveness (temporal reasoning about
fairness and `ENABLED` is not supported); the composed server.

## 5. Where code and documentation disagree

- `rbtree_set`: `RSET` of a key that exists answers `SUCCESS` and increments
  the counter, but `rbtree_insert` returns at `kvstore_rbtree.c` 182 without
  storing the value.
- `replay_mod`: `wal_replay` carries out `MOD` as `SET` (`kvstore.c` 533, 539,
  545). `description/KMutyDB.md` 558 says that the latest state is restored. A
  `MOD` of a missing key creates it at the next start; in the array a `MOD`
  adds a second entry; in the tree it is lost. (A `MOD` of a missing key is
  answered with a failure, or, by an empty array, with `SUCCESS`.)
- `replay_crash`: a logged `DEL`, `RGET` or `HGET` has two fields, and the replay
  takes the next line for its value, so that the line is not replayed. After that
  the array of the replay differs from the array that was running, and a `DEL`
  can meet a hole: the server then crashes at every start.
- `epoll_requests`: `recv_cb` neither clears the buffer nor ends the request with
  a NUL. An `RCOUNT` behind a longer `RSET` on the same connection, as
  `testcase.c` 113-118 sends it, is read with the tail of the `RSET`. The ring
  writes the NUL (`MisreadAfterLonger`), and the coroutines clear their buffer.

Seen while modelling, without a run of their own: the engine is changed before
the log is written, although `description/KMutyDB.md` 561 says "first"; the
highest archive is overwritten, so records are lost without a snapshot; a `DEL`
or `MOD` on an empty array returns 0 and is answered `SUCCESS`, although the
comments at `kvstore_array.c` 83 and 103 promise a positive number; the nodes the
tree deletes are never freed (`BlocksAccounted` says which). The exceptions in
`StopsOnlyThen`, `EndsOnlyThen`, `EveryRequestAnswered`, `PoolStartsAndEnds` and
`CallsTellTruth` are behaviours of the code too, and each is described at the property.

## 6. What is not modelled

- The power failure case: the code calls `fflush` and never `fsync`. The model
  lets the process die, not the machine.
- The request handler called by several threads, as `kmuduo_entry.cc` does: the
  engines, the log and `strtok` have no lock, so the outcomes are those of data
  races on single words of C code. `TcpServer` models the connections and treats
  the handler as a black box.
- In `KVStore`: empty requests (the handler then reads `tokens[0]`
  uninitialised), requests of more words than `KVSTORE_MAX_TOKEN`, fields
  longer than the widths in `fscanf`, and a replay that finds no memory.
- In `NtyCalls`: a caller that is also in the sleep tree. When its time comes while
  it waits in `nty_poll_inner`, it is resumed without the event, and the system
  call after it returns `EAGAIN`. The calls of the server never sleep.
- In `TcpServer`: a second reply while the first is still buffered. Its clients wait
  for their answer, so `sendInLoop` finds the output buffer empty.
- In NtyCo: `nty_schedule_cancel_wait` and `nty_schedule_free`, which nothing in
  the server calls, and the assembly switch of contexts of the other build. In
  Kmuduo: the destructor of the server, `send` from another thread and the
  high-water callback, which nothing uses; logging, time stamps and addresses,
  which have no state.
- The other samples and experiments: earlier versions of the reactor and of the
  ring, demonstrations of the coroutine calls, HTTP and WebSocket parsers. They
  are programs of their own, without a part in the server.
- Bytes: keys, values and requests are abstract, except where their length or
  their layout decides something (`RequestBuffer`, the text of the log, `Buffer`).

## 7. What could be proved next

`NoLostWakeup` of the event loop, `OneOperationEach` of the ring, `FreeListExact`
of the pool, `SharedTotalExact` of the shared counter, and the chains of the hash
engine: their invariants are close to inductive, and their modules use no
recursion that the argument needs. The tree macros and the splay tree walk
pointers, and stay with TLC.
