SPECIFICATION ToolchainSpec
CONSTANTS
  Absent = Absent
  Torn = Torn
  old = old
  new = new
  other = other
  Names <- Files
  Found <- NothingOrOld
  Archives <- ForeignArchives
  MaxEntries = 3
  MaxTotal = 3
  Ratio = 2
  Processes = {p1, p2}
  MaxVersion = 2
  Unbuildable = {2}
  MaxKeys = 2
  MaxCommands = 3
INVARIANTS
  TornIsExplained
  PairsAgree
  DirectoryIsPrefix
  WithinLimits
PROPERTIES
  SignedVerifies
SYMMETRY Alike
CHECK_DEADLOCK FALSE
