SPECIFICATION Spec
CONSTANTS
  small = small
  large = large
  broken = broken
  NoImage = NoImage
  Images <- MCImages
  Valid <- MCValid
  Size <- MCSize
  Limit = 4
  Loaders = {l1, l2}
  Readers = {r1}
  MaxMaps = 3
  MaxRewrites = 2
INVARIANTS
  BudgetIsExact
  WithinBudget
  PublishedIsSigned
