SPECIFICATION Spec

CONSTANTS
  NULL = NULL
  Empty = Empty
  Refusal = Refusal
  Report = Report
  DefaultTimeField = "time"
  DefaultUrlField = "file_url"
  Clients = {c1}
  Files <- MCFiles
  Instants <- MCInstants
  TicksPerMs = 2
  MsPerDay = 2
  DaysPerMonth = 2
  MonthsPerYear = 2
  Servers <- MCServers
  Texts <- MCTexts
  Described <- MCDescribed
  Operations = {"GetFeatureInfo", "GetLegendGraphic"}
  IndexNames <- MCNames
  Mismatching <- MCMismatching
  Hosts = {"http://"}
  MaxFiles = 2

INVARIANTS
  TypeOK
  ListedDatesHaveTimes
  ListedTimesServed
  LatestNotBeforeListed
  ProxiedAsAsked
  StatusIsThredds
