SPECIFICATION FairSpec
CONSTANTS
  Posters = {p1, p2}
  Tasks = {t1, t2}
  Quitters = {Loop, p1}
  Loop = Loop
  None = None
  Garbage = Garbage
CHECK_DEADLOCK FALSE
INVARIANTS
  NoLostWakeup
  NoDataRace
  FifoOrder
  NothingLost
  NoUseAfterDestroy
  NoDanglingFunctor
PROPERTIES
  PostedTasksSettle
  BlockingCallReturns
  ImplementsExecutor
