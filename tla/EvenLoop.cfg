SPECIFICATION FairSpec
CONSTANTS
  Sockets <- MCSockets
  Signaler = Signaler
  Backends = {"epoll", "poll", "select"}
  Requests <- MCRequests
  Conditions <- MCConditions
  MaxKeys = 3
  MayFail = TRUE
  Refusable = {"client"}
  None = None
CHECK_DEADLOCK FALSE
PROPERTIES
  NoABA
  ReadyIsTold
  WakeUpEndsWait
  TimedWaitReturns
