SPECIFICATION Spec

CONSTANTS
  NULL = NULL
  sites = sites
  platforms = platforms
  table = table
  view = view
  old = old
  new = new
  bad = bad
  Requests = {r1, r2}
  Layers <- MCLayers
  Names = {table, view}
  Sqls = {old, new, bad}
  BadSqls = {bad}
  Tables = {table}
  Definitions <- MCDefinitions
  Values <- MCValues
  Dates = {old}
  MsPerSecond = 2
  Connections = 1

INVARIANTS
  TypeOK
  UncontestedExact
  BadViewsLeave
  ConnectionsComeBack
