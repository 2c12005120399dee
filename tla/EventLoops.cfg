SPECIFICATION FairSpec
CONSTANTS
  Loops = {a, b}
  TimerLoops = {b}
  SocketLoops = {b}
  TimeOut <- ShortTimeOut
  Forever = Forever
  IntValues = 65536
  EnumMayFail = TRUE
  MaxQueue = 2
  None = None
CHECK_DEADLOCK FALSE
INVARIANT CallIsUnderWay
PROPERTIES
  CallReturnsUnlessStuck
  TimersAreServed
  ArtificialIsServed
