SPECIFICATION Spec
CONSTANTS
  Sockets = {s1, s2}
  Masks <- WriteOrNothing
  NetworkBits <- Connects
  MaxRegs = 3
  MayQuit = FALSE
  MayTimeOut = TRUE
  EnumMayFail = TRUE
  SelectMayFail = TRUE
  None = None
SYMMETRY Symmetry
CHECK_DEADLOCK FALSE
INVARIANT CallbackWasAskedFor
PROPERTY OneCallbackPerArming
