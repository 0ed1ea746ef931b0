----------------------------- MODULE TestClient -----------------------------
(***************************************************************************)
(* The test program testcase.c against the server of KVStore.  A suite is  *)
(* the list of its test_case calls: a request and the answer it expects.   *)
(* The client sends the next request when the last one is answered, and    *)
(* starts its suite over at the end, as the 10w loops do and as running    *)
(* the program again does.  When the server goes down the client dies too. *)
(* No engine call of a suite takes the server down (it would show as a     *)
(* deadlock); printing an uninitialised token for the log can.  The server *)
(* has the memory its requests need.  The 50000 nodes of the 5w_node       *)
(* suites are the keys of Nodes here.                                      *)
(***************************************************************************)
EXTENDS KVStore

CONSTANTS
  NodeNames,     \* Name0, Name1, ...
  King, Darren,  \* the values of the suites
  Leftover,      \* what tokens[2] can hold when a request has no third word
  Suites,        \* the suites, and "none": the clients of KVStore
  FreeAppends    \* bound on the calls of wal_append without a suite

ASSUME ClientAssumption ==
  /\ NodeNames \subseteq Key /\ King # Darren
  /\ FreeAppends \in Nat /\ FreeAppends <= MaxAppends

VARIABLES
  suite,      \* the suite that runs
  at,         \* the test case that comes next
  mismatch    \* did an answer differ from the expected one

testvars == <<suite, at, mismatch>>

\* The names in the order the suites use them.
Nodes == SetToSeq(NodeNames)

Case(cmd, k, v, answer) == [cmd |-> cmd, key |-> k, val |-> v, expects |-> answer]

NoToken == "no token"

Success == Text("SUCCESS", NULL)

\* The common form of array_testcase, rbtree_testcase and hash_testcase.
testcase(set, get, mod, del) ==
  <<Case(set, Nodes[1], King, Success),
    Case(get, Nodes[1], NoToken, Text("value", King)),
    Case(mod, Nodes[1], Darren, Success),
    Case(get, Nodes[1], NoToken, Text("value", Darren)),
    Case(del, Nodes[1], NoToken, Success),
    Case(get, Nodes[1], NoToken, Text("NO EXIST", NULL))>>

array_testcase  == testcase("SET", "GET", "MOD", "DEL")
rbtree_testcase == testcase("RSET", "RGET", "RMOD", "RDEL")
hash_testcase   == testcase("HSET", "HGET", "HMOD", "HDEL")

\* rbtree_testcase_5w_node and hash_testcase_5w_node: each request is
\* followed by one for the number of keys.
testcase_5w_node(set, del, count) ==
  LET n == Len(Nodes)
      step(cmd, j, c) == <<Case(cmd, Nodes[j], King, Success),
                           Case(count, NULL, NoToken, Text("number", c))>>
  IN  FlattenSeq([j \in 1 .. 2 * n |->
                    IF j <= n THEN step(set, j, j) ELSE step(del, j - n, 2 * n - j)])

rbtree_testcase_5w_node == testcase_5w_node("RSET", "RDEL", "RCOUNT")
hash_testcase_5w_node   == testcase_5w_node("HSET", "HDEL", "HCOUNT")

Cases ==
  CASE suite = "array"  -> array_testcase
    [] suite = "rbtree" -> rbtree_testcase
    [] suite = "hash"   -> hash_testcase
    [] suite = "rbtree_5w_node" -> rbtree_testcase_5w_node
    [] suite = "hash_5w_node"   -> hash_testcase_5w_node

TestInit == Init /\ suite \in Suites /\ at = 1 /\ mismatch = FALSE

Words(c) == IF c.val = NoToken THEN Leftover ELSE {c.val}

Restarts == at' = 1 /\ UNCHANGED <<suite, mismatch>>

test_case ==
  LET c == Cases[at]
  IN  /\ \E v \in Words(c) : kvstore_parser_protocol(c.cmd, c.key, v, TRUE)
      /\ mismatch' = (mismatch \/ reply' # c.expects)
      /\ at' = IF at = Len(Cases) THEN 1 ELSE at + 1
      /\ UNCHANGED suite

ServerStep ==
  /\ LogRequest \/ AnswerUnlogged \/ Rotate \/ Restart \/ AtBound
  /\ UNCHANGED testvars

FreeAtBound == pc = "idle" /\ walpc = "idle" /\ next = FreeAppends /\ UNCHANGED vars

TestNext ==
  \/ /\ suite = "none"
     /\ (Next /\ (next = FreeAppends => pc' # "called")) \/ FreeAtBound
     /\ UNCHANGED testvars
  \/ /\ suite # "none"
     /\ \/ test_case
        \/ (Down \/ LogCrashes) /\ Restarts
        \/ ServerStep

TestSpec == TestInit /\ [][TestNext]_<<vars, testvars>>

-----------------------------------------------------------------------------
\* The suites of testcase.c pass, as often as they are run on one server and
\* whatever the log does meanwhile.  hash_testcase passes whenever it is run:
\* HSET overwrites, so it does not depend on what a replay has restored.
TestsPass == mismatch => crashes > 0 /\ suite # "hash"

=============================================================================
