SPECIFICATION FairSpec
CONSTANTS
  Threads = {p1, p2, p3}
  MaxCalls = 4
  None = None
CHECK_DEADLOCK FALSE
INVARIANTS
  TypeOK
  NoMissedBroadcast
  OneWaitPerSet
  SetIsOver
PROPERTIES
  SignalReleases
  ImplementsEvent
