SPECIFICATION FairSpec
CONSTANTS
  Tasks = {t1, t2}
  Delays <- MixedDelays
  MaxTimerMs = 1
  MaxTime = 6
  MayQuit = TRUE
  LateFires = {TRUE, FALSE}
  IntMax = 100
  MicrosPerMs = 2
  Forever = Forever
  None = None
CHECK_DEADLOCK FALSE
INVARIANTS
  NeverEarly
  TimerIsArmed
  NoSurprisingTimer
  PopsWhatRan
PROPERTY AcceptedDelayRuns
