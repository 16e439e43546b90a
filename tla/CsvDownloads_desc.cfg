SPECIFICATION Spec

CONSTANTS
  data = data
  quality = quality
  depth = depth
  time = time
  FID = FID
  Broken = Broken
  NULL = NULL
  Downloads = {d1, d2}
  Connections = {c1, c2, c3}
  JsonColumns <- TwoColumns
  PlainColumns <- MCPlain
  Keys = {1, 2}
  Tables <- StableTables
  Layers <- DescLayers

INVARIANT
  CellsUnderTheirColumn
