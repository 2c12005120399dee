SPECIFICATION Spec
CONSTANTS
  Maps = {m1, m2}
  Keys = {k1, k2, k3}
  Values = {v0, v1}
  Default = v0
  MaxNodes = 4
  NoNode = NoNode
CHECK_DEADLOCK FALSE
INVARIANTS
  InParallel
PROPERTY ImplementsOrderedMap
