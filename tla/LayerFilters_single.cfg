SPECIFICATION Spec

CONSTANTS
  depth = depth
  temp = temp
  string = string
  date = date
  plain = plain
  markup = markup
  default = default
  values = values
  options = options
  NULL = NULL
  End = End
  Garbage = Garbage
  SchemaType = string
  DefaultLabel = default
  Names <- MCNames
  Types = {string, date, markup}
  Labels = {plain, markup, default}
  ExtraTags = {values, markup, options}
  Markup = {markup}
  Valueless = {options}
  Admins = {a1}
  Requests = {r1}
  Schemas <- TwoSchemas
  InitialFiles <- SavedFiles
  RowInputs <- PlainRows
  ReadBlock = 3
  MaxFaults = 0

INVARIANT
  TypeOK

PROPERTIES
  ExclusionHonoured
  ConfiguredFiltersReturned
  SaveReadsBack
  IsRegister

CHECK_DEADLOCK TRUE
