SPECIFICATION Spec

CONSTANTS
  depth = depth
  temp = temp
  string = string
  date = date
  plain = plain
  markup = markup
  default = default
  values = values
  options = options
  NULL = NULL
  End = End
  Garbage = Garbage
  SchemaType = string
  DefaultLabel = default
  Names <- MCNames
  Types = {string, date, markup}
  Labels = {plain, markup, default}
  ExtraTags = {values, markup, options}
  Markup = {markup}
  Valueless = {options}
  Admins = {a1, a2}
  Requests = {r1}
  Schemas <- OneSchema
  InitialFiles <- PlainFiles
  RowInputs <- PlainRows
  ReadBlock = 3
  MaxFaults = 0

PROPERTY
  ConfiguredFiltersReturned

CHECK_DEADLOCK TRUE
