------------------------------- MODULE KVStore ------------------------------
(***************************************************************************)
(* The server of kvstore.c: the request handler over the three engines,    *)
(* the write-ahead log it feeds, and the replay at startup.  In the        *)
(* default build all connections share one thread, so a request runs to    *)
(* its end before the next one begins; the process can die between any two *)
(* steps.  A request first runs in the engine and is then logged: that is  *)
(* two steps, and each rename of a rotation is one more (module Wal).      *)
(*                                                                         *)
(* A token the request lacks is read from uninitialised stack memory; what *)
(* can be there is Garbage.  The hash engine is used through the map it    *)
(* implements (HashEngine), the tree through TreeMap, the array through    *)
(* ArrayOps.  mem says whether the allocations of a request succeed; those *)
(* of the replay do.                                                       *)
(***************************************************************************)
EXTENDS WalLog, ArrayOps

CONSTANTS
  Key, Value,
  Command,    \* the commands the clients of this instance send
  Garbage,    \* what a missing token may read as: NULL, Empty, Wild, a Value
  Empty,      \* the empty string
  Wild,       \* a pointer nobody may follow
  NullText,   \* "(null)", what fprintf writes for a NULL key
  LineText,   \* the text of a log line, read back as a value
  StaleText,  \* the value buffer of wal_replay before its first use
  Memory,     \* TRUE, and FALSE if a request may find no memory
  MaxOdd      \* bound on the logged requests that lack a token or memory

ASSUME MemoryAssumption == Memory \subseteq BOOLEAN /\ MaxOdd \in Nat
ASSUME GarbageAssumption == Garbage \subseteq Value \cup {NULL, Empty, Wild}

VARIABLES
  eng,      \* the three engines
  pc,       \* "idle", "called" (the engine has run) or "down"
  req,      \* the request being handled
  reply,    \* wbuffer
  hist,     \* hist[n + 1]: the text of record n
  stable    \* the engines when the last record had been logged

vars == <<walvars, eng, pc, req, reply, hist, stable>>

\* Keys that can get into an engine.
EngineKey == Key \cup {NullText}

TM == INSTANCE TreeMap WITH Key <- EngineKey, tree <- eng.tree

init_kvengine ==
  [arr |-> kvstore_array_create, tree |-> TM!EmptyTree,
   hash |-> [k \in EngineKey |-> NULL]]

-----------------------------------------------------------------------------
(* The hash engine as a map; res is what kvstore_hash.c returns.           *)

\* Without memory strcpy crashes, or assert(0) is reached.
HashPut(h, k, v, mem) ==
  IF k = NULL \/ v = NULL THEN [hash |-> h, res |-> -1]
  ELSE IF ~mem THEN [hash |-> h, res |-> Crash]
  ELSE [hash |-> [h EXCEPT ![k] = v], res |-> 0]

\* A plausible slip: a key that does not exist is added, and reported missing.
HashModify_Adds(h, k, v, mem) ==
  IF k = NULL \/ v = NULL THEN [hash |-> h, res |-> -1]
  ELSE [hash |-> [h EXCEPT ![k] = v], res |-> IF h[k] = NULL THEN -1 ELSE 0]

\* A plausible slip: the node is found and its old value kept.
HashModify_KeepsValue(h, k, v, mem) ==
  [hash |-> h, res |-> IF k = NULL \/ v = NULL \/ h[k] = NULL THEN -1 ELSE 0]

HashModify(h, k, v, mem) ==
  IF k = NULL \/ v = NULL \/ h[k] = NULL THEN [hash |-> h, res |-> -1]
  ELSE HashPut(h, k, v, mem)

HashDelete(h, k) ==
  IF k = NULL THEN [hash |-> h, res |-> -2]
  ELSE IF h[k] = NULL THEN [hash |-> h, res |-> -1]
  ELSE [hash |-> [h EXCEPT ![k] = NULL], res |-> 0]

-----------------------------------------------------------------------------
(* One call of an engine, for the handler and for the replay.              *)

Result(e, r) == [eng |-> e, res |-> r]
OnArray(e, r) == Result([e EXCEPT !.arr = r.arr], r.res)
OnTree(e, r) == Result([e EXCEPT !.tree = r.tree], r.res)
OnHash(e, r) == Result([e EXCEPT !.hash = r.hash], r.res)

\* Of the three allocations of RSET the first is the one that fails: when it
\* is a later one, the call ends as with the first, or as with none.
EngineCall(e, cmd, k, v, mem) ==
  CASE cmd = "SET" -> OnArray(e, kvs_array_set(e.arr, k, v, mem))
    [] cmd = "GET" -> Result(e, kvs_array_get(e.arr, k))
    [] cmd = "DEL" -> OnArray(e, kvs_array_del(e.arr, k))
    [] cmd = "MOD" -> OnArray(e, kvs_array_mod(e.arr, k, v, mem))
    [] cmd = "COUNT" -> Result(e, kvs_array_count(e.arr))
    [] cmd = "RSET" -> OnTree(e, TM!kvs_rbtree_set(e.tree, k, v, IF mem THEN 3 ELSE 0))
    [] cmd = "RGET" -> Result(e, TM!kvs_rbtree_get(e.tree, k))
    [] cmd = "RDEL" -> OnTree(e, TM!kvs_rbtree_delete(e.tree, k))
    [] cmd = "RMOD" -> OnTree(e, TM!kvs_rbtree_modify(e.tree, k, v, IF mem THEN 3 ELSE 0))
    [] cmd = "RCOUNT" -> Result(e, TM!kvs_rbtree_count(e.tree))
    [] cmd = "HSET" -> OnHash(e, HashPut(e.hash, k, v, mem))
    [] cmd = "HGET" -> Result(e, IF k = NULL THEN NULL ELSE e.hash[k])
    [] cmd = "HDEL" -> OnHash(e, HashDelete(e.hash, k))
    [] cmd = "HMOD" -> OnHash(e, HashModify(e.hash, k, v, mem))
    [] cmd = "HCOUNT" -> Result(e, Cardinality({k1 \in EngineKey : e.hash[k1] # NULL}))
    [] cmd = "unknown" -> Result(e, Crash)

Sets == {"SET", "RSET", "HSET"}
Mods == {"MOD", "RMOD", "HMOD"}
Gets == {"GET", "RGET", "HGET"}
Dels == {"DEL", "RDEL", "HDEL"}
Counts == {"COUNT", "RCOUNT", "HCOUNT"}

\* The arguments the engine reads; following a wild one takes the process
\* down.
Follows(cmd, k, v) ==
  (IF cmd \in Counts THEN {} ELSE {k}) \cup (IF cmd \in Sets \cup Mods THEN {v} ELSE {})

\* What the handler writes to wbuffer: a word, a stored value or a number.
Text(word, v) == [word |-> word, val |-> v]
NoReply == Text("", NULL)

Message(cmd, r) ==
  CASE cmd \in Sets -> Text(IF r = 0 THEN "SUCCESS" ELSE "FAILED", NULL)
    [] cmd \in Gets -> IF r = NULL THEN Text("NO EXIST", NULL) ELSE Text("value", r)
    [] cmd \in Counts -> IF r < 0 THEN Text("ERROR", NULL) ELSE Text("number", r)
    [] cmd \in Dels \cup Mods ->
         Text(IF r < 0 THEN "ERROR" ELSE IF r = 0 THEN "SUCCESS" ELSE "NO EXIST", NULL)

-----------------------------------------------------------------------------
(* The log as text.                                                        *)

\* The arrays' GET and the three COUNTs are not logged.
Logged(cmd) == cmd \notin Counts \cup {"GET"}

\* A request, or the text of its record; mem is history there.
Line(cmd, k, v, mem) == [cmd |-> cmd, key |-> k, val |-> v, mem |-> mem]

\* wal_append: DEL passes no value, HGET the name "HET"; a NULL value prints
\* nothing, and neither does an empty one.
Printed(r) ==
  Line(IF r.cmd = "HGET" THEN "HET" ELSE r.cmd,
       IF r.key = NULL THEN NullText ELSE r.key,
       IF r.cmd = "DEL" \/ r.val = Empty THEN NULL ELSE r.val, r.mem)

\* A plausible slip: the deletions of the tree are forgotten.
Replayed_NoRdel(cmd) ==
  CASE cmd = "MOD" -> "SET" [] cmd = "RMOD" -> "RSET" [] cmd = "HMOD" -> "HSET"
    [] cmd \in Sets \cup (Dels \ {"RDEL"}) -> cmd
    [] cmd \in {"RGET", "HET", "RDEL"} -> "none"

\* What wal_replay does for one record it has read: MOD is replayed as SET.
Replayed(cmd) ==
  CASE cmd = "MOD" -> "SET" [] cmd = "RMOD" -> "RSET" [] cmd = "HMOD" -> "HSET"
    [] cmd \in Sets \cup Dels -> cmd
    [] cmd \in {"RGET", "HET"} -> "none"

Apply(e, cmd, k, v) ==
  IF e = Crash \/ Replayed(cmd) = "none" THEN e
  ELSE LET r == EngineCall(e, Replayed(cmd), k, v, TRUE)
       IN  IF r.res = Crash THEN Crash ELSE r.eng

NoLine == Line("", NULL, NULL, TRUE)

\* One more line of the file.  After a line of two fields fscanf skips the
\* newline and takes the whole next line as the value.
ReadLine(acc, l) ==
  IF acc.open # NoLine
  THEN [eng |-> Apply(acc.eng, acc.open.cmd, acc.open.key, LineText),
        value |-> LineText, open |-> NoLine]
  ELSE IF l.val = NULL
  THEN [acc EXCEPT !.open = l]
  ELSE [eng |-> Apply(acc.eng, l.cmd, l.key, l.val), value |-> l.val, open |-> NoLine]

\* A two-field line that ends its file keeps the value of an earlier line.
ReadEnd(acc) ==
  IF acc.open = NoLine THEN acc.eng
  ELSE Apply(acc.eng, acc.open.cmd, acc.open.key, acc.value)

ReadFile(e, n) ==
  LET lines == [m \in 1 .. Cardinality(file[n]) |-> hist[Lines(file[n])[m] + 1]]
  IN  ReadEnd(FoldLeft(ReadLine, [eng |-> e, value |-> StaleText, open |-> NoLine], lines))

\* The engines after a restart, or Crash.
wal_replay == FoldLeft(ReadFile, init_kvengine, ReplayFiles)

-----------------------------------------------------------------------------
Init ==
  /\ WalInit
  /\ eng = init_kvengine /\ stable = eng
  /\ pc = "idle"
  /\ req = NoLine /\ reply = NoReply /\ hist = << >>

Down ==
  /\ WalCrash
  /\ pc' = "down" /\ eng' = init_kvengine /\ req' = NoLine /\ reply' = NoReply
  /\ UNCHANGED <<hist, stable>>

\* Does the request get as far as an allocation; only SET and MOD have one.
Allocates(cmd, k, v) ==
  /\ cmd \in Sets \cup Mods
  /\ EngineCall(eng, cmd, k, v, FALSE) # EngineCall(eng, cmd, k, v, TRUE)

\* A request of known commands up to wal_append: the engine runs and wbuffer
\* gets the answer.
kvstore_parser_protocol(cmd, k, v, mem) ==
  /\ pc = "idle" /\ walpc = "idle" /\ next < MaxAppends
  /\ v = Wild => crashes < MaxCrashes
  /\ Wild \notin Follows(cmd, k, v) /\ (mem \/ Allocates(cmd, k, v))
  /\ LET r == EngineCall(eng, cmd, k, v, mem)
     IN  r.res # Crash /\ eng' = r.eng /\ reply' = Message(cmd, r.res)
  /\ req' = Line(cmd, k, v, mem)
  /\ pc' = "called"
  /\ UNCHANGED <<walvars, hist, stable>>

\* The engine, or assert(0) for a command nobody knows, ends the process.
RequestCrashes(cmd, k, v, mem) ==
  /\ pc = "idle" /\ walpc = "idle" /\ next < MaxAppends
  /\ \/ Wild \in Follows(cmd, k, v)
     \/ /\ Wild \notin Follows(cmd, k, v) /\ (mem \/ Allocates(cmd, k, v))
        /\ EngineCall(eng, cmd, k, v, mem).res = Crash
  /\ Down

\* fprintf reads the value, unless the command is DEL.
PrintCrashes == Logged(req.cmd) /\ req.val = Wild /\ req.cmd # "DEL"

Answer == pc' = "idle" /\ req' = NoLine /\ reply' = NoReply /\ UNCHANGED eng

\* wal_append; the answer is sent, and the next request can begin, when the
\* rotation it may have started is over.
LogRequest ==
  /\ pc = "called" /\ Logged(req.cmd) /\ ~PrintCrashes
  /\ wal_append
  /\ hist' = Append(hist, Printed(req))
  /\ stable' = eng
  /\ Answer

LogCrashes == pc = "called" /\ PrintCrashes /\ Down

AnswerUnlogged ==
  pc = "called" /\ ~Logged(req.cmd) /\ Answer /\ UNCHANGED <<walvars, hist, stable>>

Rotate ==
  /\ rotate_wal \/ rotate_wal_create
  /\ UNCHANGED <<eng, pc, req, reply, hist, stable>>

\* main starts again: wal_replay rebuilds the engines, or takes the process
\* down, as it will every time.
Restart ==
  /\ pc = "down"
  /\ IF wal_replay = Crash
     THEN UNCHANGED vars
     ELSE /\ WalRestart
          /\ pc' = "idle" /\ eng' = wal_replay /\ stable' = eng'
          /\ UNCHANGED <<req, reply, hist>>

AtBound == WalAtBound /\ pc = "idle" /\ UNCHANGED vars

\* The requests of clients that send a key and a value, when there is memory.
Complete == [key : Key, val : Value, mem : {TRUE}]

\* A key only, or neither; and those that find no memory.
Odd ==
  [key : Key, val : Garbage, mem : Memory] \cup
  [key : Garbage \cap {NULL, Wild}, val : Garbage, mem : Memory] \cup
  [key : Key, val : Value, mem : Memory \ {TRUE}]

OddRecords ==
  {n \in DOMAIN hist : \/ ~hist[n].mem \/ hist[n].key = NullText
                       \/ hist[n].val \notin Value /\ hist[n].cmd # "DEL"}

Requests == Complete \cup (IF Cardinality(OddRecords) < MaxOdd THEN Odd ELSE {})

Next ==
  \/ \E cmd \in Command, t \in Requests :
       \/ kvstore_parser_protocol(cmd, t.key, t.val, t.mem)
       \/ RequestCrashes(cmd, t.key, t.val, t.mem)
  \/ LogRequest \/ LogCrashes \/ AnswerUnlogged \/ Rotate
  \/ Down \/ Restart \/ AtBound

Spec == Init /\ [][Next]_vars

-----------------------------------------------------------------------------
\* The lines of two fields that are followed by another line in their file.
Swallowing ==
  {r \in Retained : hist[r + 1].val = NULL
                      /\ \E n \in FileNo : r \in file[n] /\ \E s \in file[n] : s > r}

\* Records that wal_replay does not carry out as the request was: a MOD, a
\* line that lacks the value its command needs, a SET that was logged
\* although it had failed for want of memory.
Reinterpreted ==
  {r \in Retained : \/ hist[r + 1].cmd \in Mods
                    \/ hist[r + 1].cmd \in Sets /\ hist[r + 1].val = NULL
                    \/ hist[r + 1].key = NullText
                    \/ ~hist[r + 1].mem}

\* If the log holds every request so far and only records that replay as
\* they ran, then a crash at this moment, also in the middle of rotate_wal,
\* restores exactly the engines as of the last logged request: all three, to
\* the slot of the array and the counter of the tree.
RecoveryExact ==
  Lost = {} /\ unlogged = {} /\ Swallowing = {} /\ Reinterpreted = {}
    => wal_replay = stable

\* A request that is answered with a failure has changed no engine, also
\* when it failed for want of memory, with one exception: an RMOD that finds
\* no memory has freed the value of its key, and nothing else, by then.
FailureChangesNothing ==
  [][reply'.word \in {"FAILED", "ERROR", "NO EXIST"} =>
       \/ eng' = eng
       \/ /\ req'.cmd = "RMOD" /\ ~req'.mem
          /\ eng' = [eng EXCEPT !.tree.map[req'.key] = TM!NoValue]]_vars

\* Replaying the log restores the latest state (description/KMutyDB.md).  Not
\* so after a MOD, which is replayed as a SET.
RecoversLatestState ==
  pc = "idle" /\ Lost = {} /\ unlogged = {} => wal_replay = eng

\* The server can be started from every log it wrote.  Not so: a DEL can
\* leave a hole that a later DEL of the replay runs into.
CanRestart == wal_replay # Crash

=============================================================================
