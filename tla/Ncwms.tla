------------------------------- MODULE Ncwms -------------------------------
(***************************************************************************)
(* The ncwms service: a layer of the catalog indexes netCDF files by time, *)
(* and WMS requests are forwarded to the thredds server's copy of the file *)
(* of the requested time.  A client asks for the dates that have data, for *)
(* the times of one of them, and for the map of one of those; meanwhile    *)
(* harvesters add files to the index and remove them.                      *)
(*                                                                         *)
(* An instant is a number of ticks, the resolution of the database; Java   *)
(* dates have whole milliseconds.  The service makes days of instants, and *)
(* instants of days, in the JVM's default time zone and puts a Z after     *)
(* local times; its queries name instants by their time in UTC without a   *)
(* zone, and the store reads that in the default zone again.               *)
(***************************************************************************)
EXTENDS NcwmsRequests, FiniteSets

CONSTANTS
  Clients,         \* browsers
  Files,           \* rows the index may have
  Instants,        \* values of the time column, in ticks
  TicksPerMs,      \* ticks of a millisecond
  MsPerDay,        \* milliseconds of a day in the model
  DaysPerMonth,    \* days of a month
  MonthsPerYear,   \* months of a year
  Servers,         \* offsets the JVM's default zone may have to UTC, in ms,
                   \* with the substitutions in ncwms.xml
  Texts,           \* what the portal may send as a layer
  Described,       \* layers of the index, in the parts that the README names
  Operations,      \* GetMap, GetFeatureInfo, GetLegendGraphic
  IndexNames,      \* the names that GeoServer knows the index layer by
  Mismatching,     \* those that collectionsWithTimeMismatch matches
  Hosts,           \* how an absolute URL begins
  MaxFiles,        \* bound on the number of indexed files
  Empty,           \* the text of a TIME= with nothing behind it
  Refusal,         \* a status of thredds other than 200
  Report           \* that of the exception report of GeoServer's dispatcher

(* WORKSPACE:LAYER#TIME_FIELD,URL_FIELD/VARIABLE, as the README writes a   *)
(* layer; the workspace and the fields may be omitted.                     *)
Separators == {"/", ":", "#", ","}

IsWord(w) == w # <<>> /\ w \in Seq({w[i] : i \in DOMAIN w} \ Separators)

NameOf(d) ==
  (IF d.workspace = NULL THEN <<>> ELSE d.workspace \o <<":">>) \o d.layer

TextOf(d) ==
  NameOf(d)
    \o (IF d.fields THEN <<"#", DefaultTimeField, ",", DefaultUrlField>> ELSE <<>>)
    \o <<"/">> \o d.variable

ASSUME DescribedAssumption ==
  /\ DefaultTimeField \notin Separators /\ DefaultUrlField \notin Separators
  /\ \A d \in Described :
       /\ d.workspace = NULL \/ IsWord(d.workspace)
       /\ IsWord(d.layer) /\ IsWord(d.variable) /\ d.fields \in BOOLEAN
       /\ NameOf(d) \in IndexNames
  /\ \A t \in Texts : IsDescriptor(t) => LayerDescriptor(t) # NULL

ASSUME NcwmsAssumption ==
  /\ Instants \subseteq Nat /\ NULL \notin Int
  /\ NULL \notin Files /\ \A f \in Files : f.time \in Instants \cup {NULL}
  /\ TicksPerMs \in Nat \ {0} /\ MsPerDay \in Nat \ {0}
  /\ DaysPerMonth \in Nat \ {0} /\ MonthsPerYear \in Nat \ {0}
  /\ \A s \in Servers :
       /\ s.offset \in (-MsPerDay)..MsPerDay /\ IsFiniteSet(DOMAIN s.elements)
       /\ \A i \in DOMAIN s.elements :
            LET key == s.elements[i].key IN key.anchored \/ Len(key.text) = 1
  /\ Mismatching \subseteq IndexNames
  /\ MaxFiles \in Nat
  /\ Empty # NULL /\ Refusal \notin {NULL, 200, 500, Report}
  /\ Report \notin {NULL, 200, 500}

VARIABLES
  offset,        \* the JVM's offset to UTC
  substitutions, \* urlSubstitutions
  keys,          \* the order of its keys
  text,          \* what a client sends as its layer
  descriptor,    \* the LayerDescriptor of it, NULL if that throws
  files,         \* the rows of the index layer
  clients        \* what each client does and what it was answered

server == <<offset, substitutions, keys, text, descriptor>>
vars == <<server, files, clients>>

(* dates and times are the last lists a client was given, day the day it   *)
(* asked the times of, picked what it asked a map for, map the file that   *)
(* it is made of, url and query what thredds is asked, status the answer.  *)
(* Two fields are history: removed, whether files were removed since the   *)
(* dates were listed, and thredds, what thredds answered.                  *)
NewClient ==
  [line |-> "idle", dates |-> {}, day |-> NULL, times |-> {},
   picked |-> NULL, operation |-> NULL, map |-> NULL, url |-> NULL,
   query |-> <<>>, status |-> NULL, removed |-> FALSE, thredds |-> NULL]

Lines == {"idle", "details", "dates", "times", "connecting", "relaying", "map",
          "cut", "failed"}
Busy == {"details", "connecting", "relaying"}

Move(c, record) == clients' = [clients EXCEPT ![c] = record]

-----------------------------------------------------------------------------
(* Dates *)

Ms(instant) == instant \div TicksPerMs

(* new DateTime(timestamp): its day and time of day in the default zone.   *)
LocalDay(instant)  == (Ms(instant) + offset) \div MsPerDay
LocalTime(instant) == (Ms(instant) + offset) % MsPerDay

(* Mutant of DateOf: the month is not zero indexed.                        *)
DateOfOneIndexed(instant) ==
  LET day == LocalDay(instant)
  IN  [year  |-> day \div (DaysPerMonth * MonthsPerYear),
       month |-> 1 + ((day \div DaysPerMonth) % MonthsPerYear),
       day   |-> 1 + (day % DaysPerMonth)]

(* getUniqueDates: the month is zero indexed, as the portal expects it.    *)
DateOf(instant) ==
  LET day == LocalDay(instant)
  IN  [year  |-> day \div (DaysPerMonth * MonthsPerYear),
       month |-> (day \div DaysPerMonth) % MonthsPerYear,
       day   |-> 1 + (day % DaysPerMonth)]

(* The portal's day parameter for a date; its month counts from zero.      *)
DayOf(date) ==
  (date.year * MonthsPerYear + date.month) * DaysPerMonth + date.day - 1

(* The instant that the store takes from a literal of a query.  The        *)
(* formatter prints the milliseconds ms as a date and time in UTC without  *)
(* a zone, and the text is read in the default zone.                       *)
Literal(ms) == (ms - offset) * TicksPerMs

(* Mutant of FilterForSameDay: the last instant of the day is left out.    *)
FilterForSameDayShort(day, f) ==
  LET start == Literal(day * MsPerDay - offset)
      end   == Literal((day + 1) * MsPerDay - offset)
  IN  f.time # NULL /\ f.time >= start /\ f.time < end - TicksPerMs

(* cqlFilterForSameDay: from the literal for the day's start in the        *)
(* default zone to that for the next day's.                                *)
FilterForSameDay(day, f) ==
  LET start == Literal(day * MsPerDay - offset)
      end   == Literal((day + 1) * MsPerDay - offset)
  IN  f.time # NULL /\ f.time >= start /\ f.time < end

(* Mutant of FilterForTimestamp: any time of the day.                      *)
FilterForTimestampDay(picked, f) == FilterForSameDay(picked.day, f)

(* cqlFilterForTimestamp of a day and a time with a Z: equal to the        *)
(* literal for that instant, to the last tick.                             *)
FilterForTimestamp(picked, f) ==
  f.time = Literal(picked.day * MsPerDay + picked.time)

(* Mutant of FilesFor: the order is ascending.                             *)
FilesForEarliest(picked) ==
  IF picked = NULL
  THEN {f \in files : \A g \in files :
          f.time = NULL \/ g.time = NULL \/ f.time <= g.time}
  ELSE {f \in files : FilterForTimestamp(picked, f)}

(* What getUrlForTimestamp's query may return first.  Without a timestamp  *)
(* the latest; where rows without a time come is up to the database.       *)
FilesFor(picked) ==
  IF picked = NULL
  THEN {f \in files : \A g \in files :
          f.time = NULL \/ g.time = NULL \/ g.time <= f.time}
  ELSE {f \in files : FilterForTimestamp(picked, f)}

-----------------------------------------------------------------------------
(* Requests *)

(* What every request of a client makes of its text.                       *)
Parsed(t) == IF IsDescriptor(t) THEN LayerDescriptor(t) ELSE NULL

(* The descriptor can be parsed and the catalog has the layer it names.    *)
Indexed(c) == descriptor[c] # NULL /\ geoserverName(descriptor[c]) \in IndexNames

(* And the layer has the fields.                                           *)
Known(c) ==
  /\ Indexed(c)
  /\ descriptor[c].timeField = <<DefaultTimeField>>
  /\ descriptor[c].urlField = <<DefaultUrlField>>

getWmsUrl(f) == IF f.url = NULL THEN NULL ELSE mangleUrl(f.url, substitutions, keys)

(* new URL accepts it.                                                     *)
Absolute(url) == url # NULL /\ url # <<>> /\ Head(url) \in Hosts

isCollectionWithTimeMismatch(name) == name \in Mismatching

-----------------------------------------------------------------------------
(* getMetadata, item=layerDetails: thredds is asked for the metadata of    *)
(* the latest file, then the index for the dates.                          *)
AskDetails(c, f) ==
  /\ clients[c].line \notin Busy /\ Known(c)
  /\ f \in FilesFor(NULL) /\ Absolute(getWmsUrl(f))
  /\ Move(c, [NewClient EXCEPT !.line = "details"])
  /\ UNCHANGED <<server, files>>

(* getMetadataJson finds no URL that it can use and returns null, and put  *)
(* throws; or the layer is not known.                                      *)
AskDetailsFails(c) ==
  /\ clients[c].line \notin Busy
  /\ \/ ~Known(c) \/ FilesFor(NULL) = {}
     \/ \E f \in FilesFor(NULL) : ~Absolute(getWmsUrl(f))
  /\ Move(c, [NewClient EXCEPT !.line = "failed"])
  /\ UNCHANGED <<server, files>>

(* thredds does not answer: getMetadataJson returns null as well.          *)
DetailsFail(c) ==
  /\ clients[c].line = "details"
  /\ Move(c, [NewClient EXCEPT !.line = "failed"])
  /\ UNCHANGED <<server, files>>

AnswerDetails(c) ==
  /\ clients[c].line = "details"
  /\ Move(c, [NewClient EXCEPT
                !.line = "dates",
                !.dates = {DateOf(f.time) : f \in {g \in files : g.time # NULL}}])
  /\ UNCHANGED <<server, files>>

Ask(c, line) ==
  [NewClient EXCEPT !.line = line, !.dates = clients[c].dates,
                    !.removed = clients[c].removed]

(* getMetadata, item=timesteps.                                            *)
AskTimes(c, date) ==
  LET day == DayOf(date)
  IN  /\ clients[c].line \notin Busy /\ date \in clients[c].dates
      /\ Move(c, [Ask(c, "times") EXCEPT
                    !.day = day,
                    !.times = {LocalTime(f.time) :
                                 f \in {g \in files : FilterForSameDay(day, g)}}])
      /\ UNCHANGED <<server, files>>

(* getMap, getFeatureInfo or getLegendGraphic: TIME is absent, empty, or   *)
(* the day and one of its times.                                           *)
Pickable(c) ==
  {NULL, Empty}
         \cup {[day |-> clients[c].day, time |-> time] : time \in clients[c].times}

AskMap(c, line, operation, picked) ==
  [Ask(c, line) EXCEPT !.operation = operation, !.picked = picked,
                       !.day = clients[c].day, !.times = clients[c].times]

(* proxyWmsRequest finds the file and puts the request to thredds together.*)
Proxy(c, operation, picked, f) ==
  LET parameters == RequestParameters(operation, text[c], picked)
      mismatch   == isCollectionWithTimeMismatch(geoserverName(descriptor[c]))
  IN  /\ clients[c].line \notin Busy /\ Known(c)
      /\ picked \in Pickable(c) \ {Empty}
      /\ f \in FilesFor(picked) /\ f.url # NULL
      /\ Move(c, [AskMap(c, "connecting", operation, picked) EXCEPT
                    !.map = f, !.url = getWmsUrl(f),
                    !.query = wmsParameters(parameters, operation, descriptor[c], mismatch)])
      /\ UNCHANGED <<server, files>>

MapEnds(c, operation, picked, status) ==
  /\ clients[c].line \notin Busy
  /\ Move(c, [AskMap(c, "failed", operation, picked) EXCEPT !.status = status])
  /\ UNCHANGED <<server, files>>

(* "Unable to determine destination WMS URL": there is no such file, or it *)
(* has no URL, or the layer has not the field.                             *)
FailMap(c, operation, picked) ==
  /\ MapEnds(c, operation, picked, 500)
  /\ picked \in Pickable(c) \ {Empty}
  /\ \/ Indexed(c) /\ ~Known(c)
     \/ Known(c) /\ (FilesFor(picked) = {} \/ \E f \in FilesFor(picked) : f.url = NULL)

(* The constructor of LayerDescriptor, a layer or field that is not known, *)
(* or new DateTime("") throw outside of any try, and the dispatcher        *)
(* reports the exception.                                                  *)
MapThrows(c, operation, picked) ==
  /\ MapEnds(c, operation, picked, Report)
  /\ picked \in Pickable(c)
  /\ ~Known(c) \/ picked = Empty

End(c, line, status, thredds) ==
  Move(c, [clients[c] EXCEPT !.line = line, !.status = status, !.thredds = thredds])

(* The URL has no protocol, the client sent no User-Agent, or thredds      *)
(* cannot be reached: an exception, and sendError(500).                    *)
ConnectFails(c) ==
  /\ clients[c].line = "connecting"
  /\ End(c, "failed", 500, NULL)
  /\ UNCHANGED <<server, files>>

(* Mutant of Refused: the code is passed on, and the body with it.         *)
RefusedRelayed(c) ==
  /\ clients[c].line = "connecting" /\ Absolute(clients[c].url)
  /\ End(c, "relaying", 200, Refusal)
  /\ UNCHANGED <<server, files>>

(* sendError with the code of thredds.                                     *)
Refused(c) ==
  /\ clients[c].line = "connecting" /\ Absolute(clients[c].url)
  /\ End(c, "failed", Refusal, Refusal)
  /\ UNCHANGED <<server, files>>

Connect(c) ==
  /\ clients[c].line = "connecting" /\ Absolute(clients[c].url)
  /\ End(c, "relaying", 200, 200)
  /\ UNCHANGED <<server, files>>

Relay(c) ==
  /\ clients[c].line = "relaying"
  /\ End(c, "map", 200, clients[c].thredds)
  /\ UNCHANGED <<server, files>>

(* thredds breaks off.  Before anything was sent on, sendError takes the   *)
(* 200 back; after it throws, and what was sent stays.                     *)
BreakOff(c) ==
  /\ clients[c].line = "relaying"
  /\ \/ End(c, "failed", 500, clients[c].thredds)
     \/ End(c, "cut", 200, clients[c].thredds)
  /\ UNCHANGED <<server, files>>

-----------------------------------------------------------------------------
(* Harvesters *)

AddFile(f) ==
  /\ f \notin files /\ Cardinality(files) < MaxFiles
  /\ files' = files \cup {f}
  /\ UNCHANGED <<server, clients>>

RemoveFile(f) ==
  /\ f \in files
  /\ files' = files \ {f}
  /\ clients' = [c \in Clients |-> [clients[c] EXCEPT !.removed = TRUE]]
  /\ UNCHANGED server

-----------------------------------------------------------------------------
Init ==
  /\ \E s \in Servers :
       /\ offset = s.offset
       /\ substitutions = ConfigMap(s.elements)
       /\ keys \in SetToSeqs(DOMAIN substitutions)
  /\ text \in [Clients -> Texts]
  /\ descriptor = [c \in Clients |-> Parsed(text[c])]
  /\ files = {}
  /\ clients = [c \in Clients |-> NewClient]

ClientStep(c) ==
  \/ \E f \in files : AskDetails(c, f)
  \/ AskDetailsFails(c) \/ DetailsFail(c) \/ AnswerDetails(c)
  \/ \E date \in clients[c].dates : AskTimes(c, date)
  \/ \E operation \in Operations, picked \in Pickable(c) :
       \/ FailMap(c, operation, picked) \/ MapThrows(c, operation, picked)
       \/ \E f \in files : Proxy(c, operation, picked, f)
  \/ ConnectFails(c) \/ Refused(c) \/ Connect(c) \/ Relay(c) \/ BreakOff(c)

Next ==
  \/ \E c \in Clients : ClientStep(c)
  \/ \E f \in Files : AddFile(f) \/ RemoveFile(f)

Spec == Init /\ [][Next]_vars

-----------------------------------------------------------------------------
(* Properties *)

Date == [year: Int, month: 0..(MonthsPerYear - 1), day: 1..DaysPerMonth]
Timestamp == [day: Int, time: 0..(MsPerDay - 1)]
Day == Int \cup {NULL}
Times == SUBSET (0..(MsPerDay - 1))
Dates == SUBSET Date
Picked == Timestamp \cup {NULL, Empty}
Operation == Operations \cup {NULL}
Map == Files \cup {NULL}
Url == {NULL} \cup {getWmsUrl(f) : f \in Files}
Status == {NULL, 200, 500, Refusal, Report}
Answer == {NULL, 200, Refusal}
ClientRecord(queries) ==
  [line: Lines, dates: Dates, day: Day, times: Times, picked: Picked,
   operation: Operation, map: Map, url: Url, query: queries, status: Status,
   removed: BOOLEAN, thredds: Answer]
ClientType(this) ==
  LET query == this.query
  IN  /\ this \in ClientRecord({query})
      /\ DOMAIN query \subseteq {"TIME", "LAYER", "LAYERS", "QUERY_LAYERS"}
      /\ "TIME" \in DOMAIN query => query["TIME"] \in Timestamp

TypeOK ==
  /\ files \in SUBSET Files
  /\ DOMAIN clients = Clients
  /\ \A c \in Clients : ClientType(clients[c])

(* In a JVM that runs in UTC a date that was listed has times, as long as  *)
(* nothing is removed from the index: getUniqueDates' calendar, the        *)
(* portal's day parameter and cqlFilterForSameDay agree on what a day is.  *)
ListedDatesHaveTimes ==
  offset = 0 =>
    \A c \in Clients :
      clients[c].line = "times" /\ ~clients[c].removed => clients[c].times # {}

WholeMs == \A f \in files : f.time = NULL \/ f.time % TicksPerMs = 0

(* In a JVM that runs in UTC, with an index of whole milliseconds, a map   *)
(* asked for at a time that was listed is found, unless files were removed *)
(* since or thredds fails, and it is of that time: formatting and parsing  *)
(* back a time is lossless there.                                          *)
ListedTimesServed ==
  \A c \in Clients :
    LET this == clients[c]
    IN  offset = 0 /\ WholeMs /\ this.picked \notin {NULL, Empty} =>
          /\ this.line = "failed" /\ this.map = NULL =>
               this.removed \/ \E f \in files : f.url = NULL
          /\ this.map # NULL =>
               /\ this.map.time # NULL
               /\ this.map.time = (this.picked.day * MsPerDay + this.picked.time)
                                    * TicksPerMs

(* The map of a request without a time is of no earlier day than any the  *)
(* client was listed before, whatever was added since, as long as nothing  *)
(* is removed.  README, "Otherwise we use the latest time for the layer".  *)
LatestNotBeforeListed ==
  \A c \in Clients :
    LET this == clients[c]
    IN  /\ this.map # NULL /\ this.picked = NULL /\ ~this.removed
        /\ this.map.time # NULL
        => \A date \in this.dates : DayOf(date) <= LocalDay(this.map.time)

(* The substitution that this URL needs, if there is just one and none is  *)
(* for its result.                                                         *)
Applies(key, url) == replaceAll(url, key, substitutions[key]) # url
Needed(url) ==
  {key \in DOMAIN substitutions :
     LET result == replaceAll(url, key, substitutions[key])
     IN  \A k \in DOMAIN substitutions : k # key => ~Applies(k, url) /\ ~Applies(k, result)}

(* A layer that is written as the README says is understood so.  For it,   *)
(* thredds is asked for the file that the index has for the client's time, *)
(* at the URL that the only substitution for it gives, wherever the        *)
(* HashMap has that; for the variable of the client's layer, in every      *)
(* parameter that names one; and at the client's time, unless the name it  *)
(* gave the layer is of a collection whose times do not match.             *)
ProxiedAsAsked ==
  \A c \in Clients, d \in Described :
    LET this == clients[c]
    IN  text[c] = TextOf(d) =>
          /\ Known(c) /\ geoserverName(descriptor[c]) = NameOf(d)
          /\ this.query # <<>> =>
               /\ \A key \in Needed(this.map.url) :
                    this.url = replaceAll(this.map.url, key, substitutions[key])
               /\ \A name \in DOMAIN this.query \ {"TIME"} :
                    this.query[name] = d.variable
               /\ "TIME" \in DOMAIN this.query <=>
                    this.picked # NULL /\ NameOf(d) \notin Mismatching
               /\ "TIME" \in DOMAIN this.query => this.query["TIME"] = this.picked

(* A client that is answered 200 is given what thredds answered with 200,  *)
(* but not always all of it; one that is answered with an error is given   *)
(* no map, although thredds may have begun one.                            *)
StatusIsThredds ==
  \A c \in Clients :
    LET this == clients[c]
    IN  /\ this.status = 200 => this.thredds = 200
        /\ this.status = Refusal => this.thredds = Refusal
        /\ this.line \in {"map", "cut"} => this.status = 200

=============================================================================
