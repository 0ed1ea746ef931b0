CONSTANTS
  NULL = NULL
  Crash = Crash
  Uninit = Uninit
  nil = nil
  Key = {1, 2}
  Value = {v1, v2}
  Node = {n1, n2}
  MaxCount = 3
SPECIFICATION Spec
INVARIANTS
  AcknowledgedSetIsStored
