CONSTANTS
  Callers = {c1, c2}
  NoCaller = NoCaller
  MaxSessions = 2
  Ops <- MCLifecycleOps
  SlowAt <- MCInTick
SPECIFICATION FairSpec
PROPERTIES
  LifecycleReturns
  OrphanExits
  PulseTaken
