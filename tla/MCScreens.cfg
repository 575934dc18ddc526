SPECIFICATION SSpec
CONSTANTS
  Screen = {s1, s2, s3, s4}
  None = None
  Sizes <- BothSizes
  MinCols = 3
  CclRows = 2
  Deltas <- Steps
INVARIANTS STypeOK PlacedOnce
PROPERTIES TilingKept NoneLost
CONSTRAINT Tiled
SYMMETRY Symmetry
