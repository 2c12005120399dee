SPECIFICATION Spec
CONSTANTS
  Sockets = {s1, s2}
  Masks <- OnlyWrite
  NetworkBits <- Connects
  MaxRegs = 2
  MayQuit = FALSE
  MayTimeOut = FALSE
  EnumMayFail = FALSE
  SelectMayFail = FALSE
  None = None
CHECK_DEADLOCK FALSE
INVARIANT RecordedIsNoticed
