CONSTANTS
  NULL = NULL
  Uninit = Uninit
  Crash = Crash
  k1 = k1
  k2 = k2
  k3 = k3
  k4 = k4
  Key <- MCKey
  ArrayKey <- MCArrayKey
  HashOf <- MCHashOf
  Value = {v1, v2}
  KVS_ARRAY_SIZE = 4
  MAX_TABLE_SIZE = 2
SPECIFICATION EnginesSpec
SYMMETRY Symmetric
INVARIANTS
  IdxCountsEntries
  PositiveMeansMissing
  DisciplineIsSafe
PROPERTIES
  EntriesLeaveByDel
  ImplementsMap
