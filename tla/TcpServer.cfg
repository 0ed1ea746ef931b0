SPECIFICATION Spec
CONSTANTS
  k1 = k1 k2 = k2
  Conn = {k1, k2}
  Reading = {k1, k2}
  ask = ask
  Request = {ask}
  Fd <- TwoFds
  Limit <- TwoFds
  Network = {"KMUDUO", "ECHO"}
  None = None
  ReplyLen = 2
  Room <- Rooms
  Script <- Scripts
  Resets <- Resetting
  MaxFault = 1
  Base = Base
  s1 = s1 s2 = s2
  Pool <- Pools
INVARIANT NoLostWakeup
INVARIANT DestroyedIsNowhere
INVARIANT ReplyConserved
INVARIANT EndsOnlyThen
PROPERTY ImplementsFunctorQueue
PROPERTY EveryConnectionReleased
CHECK_DEADLOCK FALSE
