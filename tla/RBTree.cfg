CONSTANTS
  NULL = NULL
  Crash = Crash
  Uninit = Uninit
  nil = nil
  Key = {1, 2, 3, 4, 5, 6}
  FewKeys = {1, 2, 3}
  Value = {v1}
  Node = {n1, n2, n3, n4, n5, n6}
  MaxCount = 2
SYMMETRY Symmetric
SPECIFICATION BothSpec
INVARIANT RedBlackTree
PROPERTIES
  ImplementsTreeMap
  LoopClimbs
