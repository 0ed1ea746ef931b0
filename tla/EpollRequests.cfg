SPECIFICATION Spec
CONSTANTS
  k1 = k1 k2 = k2
  b1 = b1 b2 = b2
  Conn = {k1, k2}
  Reading = {k1}
  Request = {"rset", "rcount"}
  Fd <- TwoFds
  Limit <- TwoFds
  None = None
  ReplyLen = 2
  Room <- Rooms
  Script <- Scripts
  Resets <- AllReset
  MaxFault = 1
  BUFFER_LENGTH = 8
  ReqLen <- Lengths
  Seps <- Separators
  Network = {"EPOLL"}
  c1 = c1 c2 = c2 c3 = c3 c4 = c4
  Co = {c1, c2, c3, c4}
  MaxYield = 1
  Item = {b1, b2}
  ENTRIES_LENGTH = 3
  Batch = 2
INVARIANT IntactRequests
CHECK_DEADLOCK FALSE
