CONSTANTS
  s1 = s1
  s2 = s2
  p1 = p1
  p2 = p2
  p3 = p3
  Screens = {s1, s2}
  Nobody = Nobody
  Swapped = Swapped
  Packs = {p1, p2, p3}
  NoPack = NoPack
  PackIds <- MCPackIds
  Engines = {e1, e2}
  NoLibrary = NoLibrary
SPECIFICATION Spec
INVARIANTS
  RunningIsBacked
  TickerIsExplained
  OrphanOnlyLate
  AloneIsServed
