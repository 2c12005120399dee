SPECIFICATION FairSpec
CONSTANTS
  Sockets = {s1, s2}
  Masks <- OnlyWrite
  NetworkBits <- Connects
  MaxRegs = 2
  MayQuit = TRUE
  MayTimeOut = TRUE
  EnumMayFail = TRUE
  SelectMayFail = TRUE
  None = None
CHECK_DEADLOCK FALSE
PROPERTY ArtificialIsTaken
