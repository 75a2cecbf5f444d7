SPECIFICATION Spec
CONSTANTS
  Word = 64
  Align = 4
  HeaderSize = 4
  DescriptorSize = 4
  Reserve = 8
  MaxSize = 52
  TypeId <- MCTypeId
  Schema <- MCSchema
  GoodPacks = {"demo"}
  Manifests <- MCManifests
  Foreign <- MCForeign
  Cuts <- MCCuts
  None = None
INVARIANTS
  PointersInside
  RoundTrip
  WholeIsAccepted
