SPECIFICATION CachesSpec
CONSTANTS
  a = a
  b = b
  c = c
  None = None
  Viewers = {v1, v2}
  Preloads = {l1, l2}
  Payloads = {q1, q2, q3}
  Packages <- SomePackages
  FileSizes = {0, 2, 5}
  ImageSizes = {1, 3}
  MaxItems = 2
  MaxBytes = 4
  MaxSkins = 2
  MaxSkinBytes = 4
  MaxImages = 3
INVARIANTS
  DriftIsDoubled
  WithinCaps
  ImagesAccounted
SYMMETRY Alike
