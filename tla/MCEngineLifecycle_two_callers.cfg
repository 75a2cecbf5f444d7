CONSTANTS
  Callers = {c1, c2}
  NoCaller = NoCaller
  MaxSessions = 2
  Ops <- MCAllOps
  SlowAt <- MCAnywhere
SPECIFICATION Spec
SYMMETRY MCSymmetry
INVARIANTS
  ActiveThreadsExact
  RunningIsAttached
  OnlyHungDangle
  OnlyAbandonedOverlap
PROPERTIES
  BridgeChangesOnlyStopped
  FreshInput
