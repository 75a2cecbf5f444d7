CONSTANTS
  Callers = {c1}
  NoCaller = NoCaller
  MaxSessions = 1
  Ops <- MCLifecycleOps
  SlowAt <- MCInTick
SPECIFICATION Spec
INVARIANTS
  ShutdownQuiesced
