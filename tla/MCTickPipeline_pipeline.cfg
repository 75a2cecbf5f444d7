SPECIFICATION Spec
CONSTANTS
  Event <- SomeEvents
  Capacity = 2
  MaxPushes = 3
  Tickers = {worker, sync}
  Images <- SomeImages
  RenderCapacity = 3
  MaxTicks = 2
  MaxLoads = 2
  MaxChanges = 2
  None = None
INVARIANTS
  QueueIsNewestCoalesced
  WithinTable
  FrontIsDrawn
SYMMETRY Alike
CHECK_DEADLOCK FALSE
