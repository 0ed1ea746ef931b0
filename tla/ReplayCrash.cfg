CONSTANTS
  NULL = NULL
  Uninit = Uninit
  Crash = Crash
  Empty = Empty
  Wild = Wild
  NullText = NullText
  LineText = LineText
  StaleText = StaleText
  Key = {a, b}
  Value = {v1}
  Command = {"SET", "DEL"}
  Garbage = {}
  WAL_MAX_ARCHIVE = 1
  WAL_MAX_SIZE = 9
  MaxAppends = 5
  MaxCrashes = 1
  KVS_ARRAY_SIZE = 3
  FopenMayFail = FALSE
  Memory = {TRUE}
  MaxOdd = 3
  RenameMayFail = FALSE
SPECIFICATION Spec
INVARIANT CanRestart
