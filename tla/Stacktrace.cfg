SPECIFICATION FairSpec
CONSTANTS
  a = a
  b = b
  Threads = {a, b}
  Depth <- Depths
  Opaque <- NoSymbols
  kMaxStackSize = 2
  MaxCalls = 3
  MayFail = TRUE
  None = None
CHECK_DEADLOCK FALSE
INVARIANTS
  NoStrayWrites
  TraceIsOfTarget
  HandlerIsTemporary
PROPERTY CallReturns
