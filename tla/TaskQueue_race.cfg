SPECIFICATION Spec
CONSTANTS
  Posters = {p1}
  Tasks = {t1, t2, t3}
  Quitters = {}
  Loop = Loop
  None = None
  Garbage = Garbage
CHECK_DEADLOCK FALSE
INVARIANT ScheduledFromAnyThread
