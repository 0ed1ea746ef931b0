CONSTANTS
  NULL = NULL
  Uninit = Uninit
  Crash = Crash
  Empty = Empty
  Wild = Wild
  NullText = NullText
  LineText = LineText
  StaleText = StaleText
  Key = {a, b}
  Value = {King}
  Command = {"SET", "DEL", "HSET"}
  Garbage = {}
  WAL_MAX_ARCHIVE = 2
  WAL_MAX_SIZE = 4
  MaxAppends = 10
  FreeAppends = 5
  NodeNames = {a, b}
  King = King
  Darren = Darren
  Leftover = {NULL, Wild}
  Suites = {"none", "array", "rbtree", "hash", "rbtree_5w_node", "hash_5w_node"}
  MaxCrashes = 2
  KVS_ARRAY_SIZE = 3
  FopenMayFail = FALSE
  Memory = {TRUE}
  MaxOdd = 3
  RenameMayFail = TRUE
SPECIFICATION TestSpec
INVARIANTS
  TestsPass
  RecoveryExact
