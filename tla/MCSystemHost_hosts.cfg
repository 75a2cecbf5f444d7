CONSTANTS
  Hosts = {h1, h2}
  Tickers = {t1, t2}
  Images = {full, hollow}
  EmptyImages = {hollow}
  NoImage = NoImage
  MaxSystems = 2
  Capacity = 2
SPECIFICATION Spec
SYMMETRY Symmetry
INVARIANTS
  OnlyCrossedAreLost
  CalledInLoadOrder
  OnlyEarlyUninitialised
PROPERTIES
  TaintIsForever
