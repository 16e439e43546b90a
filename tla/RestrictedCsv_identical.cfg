SPECIFICATION Spec

CONSTANTS
  a = a
  b = b
  c = c
  link = link
  prefixed = prefixed
  qualified = qualified
  imos = imos
  aodn = aodn
  other = other
  Id = Id
  Blank = Blank
  Columns <- MCColumns
  Links <- MCLinks
  Schemas <- MCSchemas
  LocalName <- MCLocalName
  FullName <- MCFullName
  ElementName <- MCElementName
  Layers <- MCLayers
  LayerName <- MCLayerName
  Exclusions <- MCExclusions
  Features = 2

INVARIANT IdenticalButExcluded
