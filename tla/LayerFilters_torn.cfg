SPECIFICATION Spec

CONSTANTS
  depth = depth
  temp = temp
  string = string
  date = date
  plain = plain
  markup = markup
  default = default
  values = values
  options = options
  NULL = NULL
  End = End
  Garbage = Garbage
  SchemaType = string
  DefaultLabel = default
  Names <- MCNames
  Types = {string, date, markup}
  Labels = {plain, markup, default}
  ExtraTags = {values, markup, options}
  Markup = {markup}
  Valueless = {options}
  Admins = {a1}
  Requests = {r1}
  Schemas <- OneSchema
  InitialFiles <- PlainFiles
  RowInputs <- PlainRows
  ReadBlock = 1
  MaxFaults = 0

PROPERTY
  ExclusionHonoured

CHECK_DEADLOCK TRUE
