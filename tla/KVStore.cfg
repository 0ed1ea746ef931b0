CONSTANTS
  NULL = NULL
  Uninit = Uninit
  Crash = Crash
  Empty = Empty
  Wild = Wild
  NullText = NullText
  LineText = LineText
  StaleText = StaleText
  Key = {a, b}
  Value = {v1}
  Command <- AllCommands
  Garbage = {NULL, Wild}
  WAL_MAX_ARCHIVE = 2
  WAL_MAX_SIZE = 1
  MaxAppends = 3
  MaxCrashes = 1
  KVS_ARRAY_SIZE = 2
  FopenMayFail = FALSE
  Memory = {TRUE, FALSE}
  MaxOdd = 1
  RenameMayFail = FALSE
SPECIFICATION Spec
SYMMETRY Symmetric
INVARIANT RecoveryExact
PROPERTY FailureChangesNothing
