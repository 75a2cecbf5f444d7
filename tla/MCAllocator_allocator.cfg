SPECIFICATION Spec
CONSTANTS
  Callers = {c1, c2}
  Engine = engine
  Address = {a1, a2, a3, a4}
  Null = Null
  Size = {1}
  BridgeSize = 1
  CommandSize = 2
  None = None
INVARIANTS
  DeallocMatches
  HeldIsRegistered
  NothingLost
SYMMETRY Alike
