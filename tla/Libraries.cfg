CONSTANTS
  kCheapPrepend = 1
  kInitialSize = 2
  ExtraBuf = 3
  Bytes = 7
  MaxReadable = 5
  MEM_PAGE_SIZE = 16
  PointerSize = 2
  MinBlock = 4
  BlockSizes = {1, 5, 7, 16, 17}
  PoolSizes = {4, 6}
  Header = 2
  PieceSizes = {1, 2, 3, 5}
  MaxNodes = 3
  Elem = {e1, e2, e3}
  QHead = {h1, h2}
  Null = Null
  TreeKey <- SevenElements
  Sleeper = {s1, s2, s3}
  NoCo = NoCo
  Kilo = 2
  DefaultTimeout = 4
  Naps = {1, 2}
  MaxTime = 6
  numThread_ = 2
  Nobody = Nobody
  Stacker = {k1, k2}
  NoStacker = NoStacker
  NTY_CO_MAX_STACKSIZE = 2
  ReniceOps = 2
  NoSocket = NoSocket
  Lens = {0, 1, 3}
  Room = 2
  MaxMishaps = 2
  MemBlock = {1, 2, 3, 4, 5, 6, 7, 8}
  MemKey = {1, 2}
  NoBlock = 0
  Process = {p1, p2}
  MaxClients = 2
  QThread = {q1, q2}
  requestion = 5
  PacketLen = 4
  MessageLen = 2
SPECIFICATION Spec
CHECK_DEADLOCK FALSE
INVARIANTS
  BufferHolds
  PoolsExact
  MacrosHold
  FramesKept
  BlocksAccounted
  CountersHonest
PROPERTIES
  SleepersWake
  CallsTellTruth
  EveryCallReturns
  PoolStartsAndEnds
