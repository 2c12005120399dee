SPECIFICATION FairSpec
CONSTANTS
  Threads = {t1, t2, t3, t4}
  MaxDepth = 2
  NoThread = NoThread
INVARIANTS
  MutualExclusion
  OwnerChecks
PROPERTY EnterReturns
