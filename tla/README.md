# A verification of geoserver-build's extensions

This directory holds TLA+ models of the three GeoServer extensions of this
repository (`src/src/extension`): **layer-filters**,
**csv-with-metadata-header** and **ncwms**.  The rest of the repository is a
Maven build of a GeoServer war, its data directory and deployment scripts.

Every definition is translated from the Java source (and the one Freemarker
template).  `PROJECT.json` maps each one to the lines it stands for.

Paths below are relative to the Java package directories of each extension.

## 1. Inventory

### 1.1 Components

**Filter configuration (layer-filters).**
State: `filters.xml` in a layer's data directory; the form model of the Wicket
page `LayerFilterConfigurationPage` in each browser session.
Operations: the page's constructor reads the table's schema
(`LayerPropertiesReader`) and the file (`FilterConfigurationFile`,
`FilterConfigurationReader`, the parsers) and merges them (`FilterMerge`,
`Filter.merge`); `onSubmit` of `LayerFilterForm` lets the template
`filter_configuration.ftl` write the enabled filters into a `FileWriter`.
Correct if what was saved is what is read, no disabled filter comes out, and
the page can show whatever the file holds.

**Service enabledFilters (layer-filters).**
No state of its own.  `LayerFiltersService.enabledFilters` reads the same file,
without the merge, and answers with it.  Correct if it answers whenever the
configuration is in order, and only with what was configured.

**Service uniqueValues (layer-filters).**
State: the list `uniqueValuesAllowedRegex` of the one service object, loaded by
the first request.  A property may be listed if its name matches a regex of the
list, or if the list is empty.  Correct if only properties that were configured
are listed.

**The uniqueValues query (layer-filters).**
State: the virtual tables of the shared `JDBCDataStore`, by name.  Behind the
gate `PossibleValuesReader` looks the layer up, registers its SQL view in the
store unless the store knows it as the catalog does, and asks for the distinct
values.  Correct if a request lists the values of the layer that it names, and
if what the database rejects does not stay registered.

**Output format csv-restricted-column (layer-filters).**
Per request: the names of the filters excluded from download, read from
`filters.xml`; the header writer and the line writer, each with one walk over
the columns for simple and one for complex feature types.  The layer is
looked up by its local name (`DataDirectory`).  Correct if the columns excluded
for that layer are left out and the lines are aligned with the header.

**Output format csv-with-metadata-header.**
Per request: a connection for the metadata, one for the features and one per
JSON column for its keys; the pivoted header.  Shared: the data store's
connection pool.  Correct if connections are not shared, come back and are not
waited for without end, and if values are under their key.

**Pivot configuration.**  `pivot.xml` in the layer's data directory: the order of
the pivoted columns (`orderDirection`) and the fields that are left out
(`excludedFields`).  Read once per download, by `PivotConfigFile`; a file that
is absent or does not parse means the default, and nobody is told.  Correct if
header and rows follow the same configuration.

**ncwms.**  No state: a layer of the catalog is the index from times to files,
harvesters change it, and thredds serves the files.  `GeoserverUrlIndex` answers
which dates and which times there are and which file belongs to a time;
`Ncwms` forwards map requests.  `LayerDescriptor` takes the layer's text apart,
`NcwmsConfig` has the URL substitutions and the collections whose times do not
match.  Correct if what was listed can be asked for, if thredds is asked for
what the client asked for, and if the client is told what thredds said.

**Not part of the logic:** the pages that list layers (`LayerPage`, the links
and providers), the war and its data directory, styles, build scripts, and
`www/openlayers/OpenLayers.js`, a compressed copy of OpenLayers 2 that the data
directory ships for previews in the browser.

### 1.2 How they interact

* The page, enabledFilters and csv-restricted-column share `filters.xml`, and
  nothing coordinates them: no lock, no temporary file that is renamed.
* All requests share the list of regexes, which nothing guards, and behind it the
  data store's virtual tables, which are looked up by name in one call and used
  in another.
* All downloads share the pool; a download holds its features' connection while
  it waits for the next one.
* The tables and the ncwms index change at any time under all of them.

### 1.3 What is hard

Reads of a file that is being rewritten; two saves at once; a template that
fails, an I/O error or a crash after the old file was truncated; null fields of
files edited by hand; a list published before it is filled, in an `ArrayList`
that several threads change and iterate; connections that wait for connections;
failures half way through a download; keys, rows and header that are read at
different times and sorted separately; a view that is registered under a name while
another request uses that name for something else; two layers of one local
name; substitutions in the order of a hash map; days and times of different
time zones.
`PROJECT.json` lists these as hazards, each with its line and the properties
that concern it.

## 2. The modules

| Module | Models | Checked with | Proofs |
|---|---|---|---|
| `Filters` | filters as values: merge, template, parser | through `LayerFilters` | lemmas in `LayerFiltersProofs` |
| `LayerFilters` | page, file, enabledFilters, load of exclusions | `MCLayerFilters` | `LayerFiltersProofs`, `LayerFiltersSavesProofs` |
| `FilterRegister` | abstract: what the file promises its readers | through `LayerFiltersRegister` | |
| `LayerFiltersRegister` | the refinement of `FilterRegister` by `LayerFilters` | `MCLayerFilters` | `LayerFiltersSavesProofs` |
| `UniqueValuesGate` | the list of regexes under concurrent requests | `MCUniqueValuesGate` | `UniqueValuesGateProofs` |
| `UniqueValues` | the query behind the gate, on a shared data store | `MCUniqueValues` | `UniqueValuesProofs` |
| `CsvDownloads` | csv-with-metadata-header on a pool of connections | `MCCsvDownloads` | `CsvDownloadsProofs` |
| `RestrictedCsv` | csv-restricted-column: lookup and the four column walks | `MCRestrictedCsv` | `RestrictedCsvProofs` |
| `NcwmsRequests` | descriptors, substitutions, parameters as values | through `Ncwms` | lemmas in `NcwmsProofs` |
| `Ncwms` | the time index, client sessions, the conversation with thredds | `MCNcwms` | `NcwmsProofs` |
| `Ordered` | sets in ascending order, the elements of a sequence at some positions | through the modules that use it | lemmas in `OrderedProofs` |

`Ordered` has two operators, for what the code sorts and what it filters:
`Ascending(S)` is the sequence of a set of numbers and `At(s, P)` are the
elements of `s` at the positions `P`.  They say what `SetToSortSeq` and
`SelectSeq` of the community modules say, but as functions that a theorem can be
proved about: the former chooses among all permutations and the latter recurs.

### 2.1 `Filters` and `LayerFilters`

A filter is a record of the bean's fields; `NULL` is Java's null.  `MergeFilter`
is `Filter.merge`, `WriteFilter` and `Writable` are the body of the template's
list (it fails on a null), `ParseFilter` is `FilterParser`.  An element stands for
its texts as the parser returns them.  `Markup` are the texts with a `<` or `&` in
them; the template writes every text unescaped, so `Element`, the cell it writes,
is no XML (`Garbage`) unless all texts of the filter are without (`WellFormed`).
`Valueless` are extras whose element begins with an element, which
`getNodeValue` reads as null: the template stops at one, and `enabledFilters`
cannot list it (`Listable`).

The file is a sequence of *cells*: an element each, and the closing tag.  A save
is `Submit` (the form is applied to the page's model and `new FileWriter`
truncates the file), one `Emit` per enabled filter at the save's *own* offset,
and `CloseSave`; or it ends early in `FailTemplate`, `AbortSave` or `Crash`.
`Overlay` is what a write at an offset makes of a file somebody else truncated.
A load is `OpenPage` or `StartRequest`, `ReadMore` for each block of at most
`ReadBlock` cells, and at the end of the file one of the answers, which depend
on whether what was read parses.

| Action | Code |
|---|---|
| `OpenPage`, `PageOpens`, `PageFails`, `Cancel` | `LayerFilterConfigurationPage` |
| `Submit`, `SubmitFails` | `LayerFilterForm`'s `onSubmit`, `FilterConfigurationFile.write` |
| `Emit`, `FailTemplate`, `CloseSave`, `AbortSave` | `FilterConfigurationWriter`, the template |
| `StartRequest`, `AnswerFilters`, `AnswerColumns`, `AnswerFails` | `LayerFiltersService.enabledFilters`, the format's `getFilters` |
| `ReadMore` | the parser's reads of the file |
| `AlterSchema`, `Crash` | surroundings |

Abstractions.
A write or a read never ends inside an element; `FileWriter`'s buffer only
delays writes to a later `Emit`.  Real blocks may end anywhere, which adds
elements put together from two documents: `OnlyEnabledServed` therefore speaks
of the names of filters, not of their other fields.  Cells of overlapping saves
are aligned.  Every element has a name.  A text with markup always breaks its
element: that an entered `&amp;` or a balanced tag would be read back as another
text is left out.  A browser tab is one session with one
page, as Wicket locks a page while it serves it.  `submitted`, `offered` and
`overlaps` are history variables: no action reads them to decide anything.
Failing catalog lookups are left out because they change nothing.

`FilterRegister` says what the readers may rely on: a register with one writer.
It has a content, which may be unreadable, at most one write, and requests; a
request that at most one write overlaps answers what *one* content answers that
the register had while the request ran.  A write makes the content unreadable,
and then it is the one saved or stays unreadable.  `offered` are the contents
since the request began, `overlaps` counts the writes up to two, because two
writes in a row can be read as a content that never was, even with one tab: a
request that has read the start of one document may go on in the next but one.
The map in `LayerFiltersRegister` takes the content from the cells
(`Held`), the write from the tab that saves, what a page is saved as from
`FilterConfigurationWriter` (`Saved`), and the answers as they are.  With
several tabs, or files of several blocks, it is no refinement, as
`LayerFilters_overlap` and `LayerFilters_torn` show.

### 2.2 `UniqueValuesGate`

Each thread runs `uniqueValues` line by line: `CheckNull`, `Assign` (the field
refers to the new list *before* it is filled), `ParseConfig`, the steps of
`ArrayList.add` for every regex (`AddEnter`, `AddGrow`, `AddBump`, `AddStore`),
`ReturnLoaded`, `IsEmpty`, `StartIteration`, `Iterate`.  `add` works on whatever
list the field refers to by then.  The model has the lost updates of two
threads that add to one list: both make the backing array (`AddGrow`: any of the
elements stored by then may be lost), both read the same size, a store goes to
an array that was replaced.  Iterations meet changed modification counts
(`ConcurrentModificationException`), null elements (`NullPointerException`) and
sizes that passed them.

Abstractions.  Threads interleave step by step with sequentially consistent
memory; stale reads that the Java memory model also permits are not added.
`hasNext` and `next` of one element are one step.  `MaxSlots` bounds a list; it
is below the ten elements an `ArrayList` first allocates, so a list grows once.
`loaders` and `warm` are history variables.

### 2.3 `UniqueValues`

| Action | Code |
|---|---|
| `Start`, `LookUp`, `FindStore` | `getUniqueValuesDocument`, `getDataStoreInfo`, each with a catalog lookup of its own |
| `ReadMetadata`, `ReadView` | `PossibleValuesReader`: `metadata.containsKey`, then `metadata.get` |
| `CheckRegistered`, `Register` | `containsValue`, then `createVirtualTable` |
| `Verify`, `VerifyFails` | the store reads the schema of what was registered and takes the name back if that fails |
| `GetSchema`, `Connect`, `Ask` | `getSchema`, the connection, the query with `ValueEncoder`, and the `finally` |
| `DatabaseFailsVerify`, `DatabaseFails`, `QueryFails` | the database's failures |
| `Edit`, `AddOrRemove` | the catalog, which administrators change |

Between any two of them the catalog's entry of a layer may change, layers come
and go, and another request may register something else under the same name.
`Carry` gives a request its definition.  `contested` (another definition of its
name was at work at the same time, or hid its table) and `disturbed` (the catalog changed
under it or the database failed) are history.  The store is external, modelled
from how it is called: a name means whatever is registered under it *when it is
used*, and else a table.  `Encode` writes dates to the second, so that two values
may become one text.

### 2.4 `CsvDownloads`

A download is `AcquireMetadata`, `Describe`, `OpenFeatures`, then for every JSON
column `AcquireKeys` and `QueryKeys`, `CloseKeys`, `WriteHeader`, a `WriteRow`
for every row and `Finish`; a layer without JSON columns goes from the features
to the header (`CsvFeatureCollectionSource`), and does not read `pivot.xml`.
A pivoted row has the identifier, the attributes that are neither pivoted nor
excluded, and for *each* JSON column the cells of *all* pivoted columns.
`getConfig` is what `PivotConfigFile` gives: the default where there is no file
or none that parses.  `AcquireFails`, `AcquireKeysFails`, `DescribeFails`,
`QueryKeysFails`, `WriteHeaderFails` and `WriteRowFails` are the ways it ends
early, each with exactly the `finally` blocks the code runs then.  `held` is
what a download took and did not give back; what it still has when it is done
has leaked.  `cx` is the constructor's one variable for the connections of all
JSON columns.

Abstractions.  Pool and database are external: `getConnection` waits and fails
after a while, `features()` takes a connection until its iterator is closed and
sees one snapshot of the table.  `Idle` picks a fixed free connection, because
which one makes no difference.  A JSON document is a set of keys, a cell says
whether it is the value, the default or empty, and whose.  Filters of the query
and texts are left out.  `stale` is history.

### 2.5 `RestrictedCsv`

A line is a sequence of fields, a field the column that was written into it.
`SimpleColumn` is the walk of simple types (header and lines put their commas
alike), `ComplexHeaderColumn` and `ComplexLineColumn` are the two walks of
complex types, which differ in where the comma is, in which name they look up
(element name, expanded name) and in what they do about feature links.  `Fails`
may happen at any point, with the line writer's `finally`.
The exclusions are those that `LayerFilters`' `AnswerColumns` would load, of a
layer that `LookUp` finds in the catalog: any of those with the local name of
the query's type, while `AddOrRemove` changes the catalog; or none, for an operation
without a query (`hasQuery`).  `asked` is the layer whose features are downloaded,
which no action reads, and `found` is history: the layers of the query's local
name at the lookup.  Texts, quoting and the feature's identifier are fields.

### 2.6 `NcwmsRequests` and `Ncwms`

A text, a URL and a path are sequences of tokens.  `Split` is Java's
`String.split` with its rule for empty parts, `LayerDescriptor` the class of that
name and `IsDescriptor` whether its constructor returns.  `ConfigMap`,
`replaceAll` and `mangleUrl` are the substitutions of `ncwms.xml`, in every order
a `HashMap` may have; `wmsParameters` is what `proxyWmsRequest` does to the
parameters.

An instant is a number of ticks, the database's resolution, and Java has whole
milliseconds.  `DateOf` is `getUniqueDates`, `DayOf` the portal's day parameter
(its months count from zero, as those of the answer), `FilterForSameDay` and
`FilterForTimestamp` the two CQL filters, `FilesFor` the query of
`getUrlForTimestamp`.  The filters name instants by literals: printed in UTC by a
pattern without a zone, and read by the data store as a time in the JVM's zone
(`Literal`), so that only a JVM in UTC finds what it meant.  A client asks for
details (`AskDetails`, `AnswerDetails`, `DetailsFail`, `AskDetailsFails`), for the
times of a date it was listed (`AskTimes`) and for a map at a time it was listed,
at none, or at an empty one. `Proxy` finds the file and puts the URL and the query
for thredds together, `FailMap` and `MapThrows` are requests that end before that:
the former where the code reports that it has no URL for thredds (500), the latter
where an exception outside of its `try` reaches GeoServer's dispatcher, as for a
text that is no descriptor, an unknown layer or an empty `TIME`; then
`ConnectFails`, `Refused` or `Connect`, and `Relay` or `BreakOff`, while `AddFile`
and `RemoveFile` change the index.

Abstractions.  The JVM's zone is a fixed offset without daylight saving.  That the
store reads a literal in it is how GeoTools' JDBC stores behave and external.  The
calendar has months of equal and years of equal length.  Where a database puts
rows without a time in a descending order is left open.  A client sends one text
as its layer throughout, and it is parsed once at the start, as parsing depends
on nothing else.  URL encoding and the bytes that are copied are left out.
`removed` and `thredds` are history.

## 3. What the runs show

All state spaces are searched completely in the runs that pass.

| Run | States | Question and result |
|---|---|---|
| `LayerFilters_single` | 1.1 million | One tab, one client, a table that is altered, files that fit one block, no faults. A finished save reads back as submitted (`SaveReadsBack`); a download that one save overlaps leaves out what both documents exclude (`ExclusionHonoured`); only requests that a save overlaps fail (`ConfiguredFiltersReturned`); the file is a register with one writer (`IsRegister`). |
| `LayerFilters_faults` | 67 000 | Cleared types, texts with markup, hand-edited files with extras the template cannot write, one I/O error or crash, blocks of one element. Only filters somebody enabled are returned, pages have a value for every check box, a file that is broken stays so, every request is answered and every save ends. |
| `LayerFilters_overlap` | violation | Two tabs save at once: a file that does not parse is left, and a later request, which no save overlaps, fails. |
| `LayerFilters_torn` | violation | A file of several blocks is rewritten while it is read: blocks of both documents make one that parses and lacks an exclusion both have. |
| `UniqueValuesGate_pass` | 290 000 | Two threads from a cold start, a readable or unreadable file. A list loaded by one thread decides exactly as configured (`SoloLoadExact`); a match is a configured one in every interleaving; a warm list never changes; every request is decided. |
| `UniqueValuesGate_cold` | violation | While the list is loaded for the first time another request finds it empty and is let through. |
| `UniqueValues_views` | 2.3 million | Two requests for layers whose views share a name with each other or with a table, a catalog that is edited, a database that fails. A request that nobody contests lists its own definition's values (`UncontestedExact`); a bad view is registered only while somebody is verifying it (`BadViewsLeave`); connections come back. |
| `CsvDownloads_pool` | 237 000 | Two downloads, three connections, a table that changes, layers with no, one and two JSON columns and pivot configurations of every kind, all failures. Connections are never shared; a download that is done leaks at most one per JSON column but the last; every download ends; values are dropped only with a warning or after a change of the table; a row is as wide as the header exactly with at most one JSON column, and repeats the pivoted columns with more (`RowsRepeatPivotColumns`). |
| `CsvDownloads_desc` | violation | With descending order the header is descending and the cells ascending. |
| `Ncwms_session` | 700 000 | One client, up to two files, three zones, nine layer texts, four configurations. In UTC listed dates have times; in UTC and with whole milliseconds listed times are found; in every zone the map without a time is of no earlier day than those listed; thredds is asked for the client's variable, time and file (`ProxiedAsAsked`), and its verdict reaches the client (`StatusIsThredds`). |
| `RestrictedCsv_columns` | 300 000 | Four schemas, all sets of five excluded names, simple and complex, two layers of one name in two workspaces, a catalog that changes, operations with and without a query, failures. Simple types show exactly the columns that their layer does not exclude, if no other layer has its name (`ColumnsShown`); lines match the header for every simple type and for complex types that are `Straight`: both walks know a column under names that are excluded alike, and no excluded column follows an included one (`Aligned`); features are closed. |
| `RestrictedCsv_identical` | violation | A download shows columns that its layer excludes: all of them without a query, which TLC finds first, and with one those that a layer of the same name in another workspace does not exclude. A complex type: an excluded column after an included one leaves a comma in the header and none in the lines. |

The five violations are findings in `PROJECT.json`, each with the comment, log
line or README sentence it contradicts.  `IdenticalButExcluded` is one sentence
of the layer-filters README (line 133) that three lines of the code contradict,
each of them by itself: `DataDirectory` lines 44 and 63, and the comma at line 59
of the header writer.  `ColumnsShown` and `Aligned` are what is left of it: the
columns where the operation has a query and the layer's name is unambiguous, the
lines for simple and `Straight` types.  One property that holds says exactly when
something goes wrong that no sentence of the repository promises to be right:
`RowsRepeatPivotColumns` (two JSON columns).

Three more deviations of the ncwms code are in the models and bound what its
properties say.

* `GeoserverUrlIndex` lines 38 and 167: the bounds of a day are printed in UTC
  without a zone and read in the JVM's, so in another zone than UTC a listed
  date can have no times, although the ncwms README (line 11) says that a date
  returns "the times with data".  `ListedDatesHaveTimes` and `ListedTimesServed`
  are therefore stated for UTC.
* `GeoserverUrlIndex` line 48: an empty `TIME` is compared with `-1`, so it is
  parsed as a date and the request ends in an exception report (`MapThrows`),
  although the comment at line 51 means it to be the latest file.
* `Ncwms` line 112: whether the time is dropped is asked of the name as the
  client wrote it, so a collection that is configured with its workspace is still
  asked for by time under its short name, which the README (line 90) permits.
  `ProxiedAsAsked` is stated for the name as it was written.

Some hazards in `PROJECT.json` have no property.  The empty `TIME` and the short
name are the two above.  For the others nothing in the repository says what
should happen: two tabs that save one after the other, names by which a complex
type's column is excluded, a `pivot.xml` that cannot be read, the connection that
a failed download loses, the order of substitutions of which several apply, odd
layer texts, a request without a `User-Agent`, a map that breaks off.  The
actions for them are in the models and occur in the runs; what they lead to is
permitted and not judged.

### 3.1 Bounds, and why they are enough

* **Tabs and clients.** Clients do not influence each other or the file, so one
  stands for any number.  Two tabs are needed for overlapping saves, and
  `LayerFilters_overlap` has them.
* **Attributes.** Two give an order, a filter before and one after the one of
  interest, and a table that gains or loses one; the run with faults has one
  attribute in the table and files that have others.
* **`ReadBlock`.** One, where reads and writes interleave per element; three,
  more than a file has in that run before its closing tag, where a file fits a
  block.
* **`MaxFaults`.** One: after a failure the next save starts from nothing.
* **Gate.** Two threads and two regexes: all pairs of racing steps, an element
  before and one after.  `MaxSlots` is the four elements two threads can add.
* **Blocks and the register.** `ReadBlock` of three holds the only file of two
  filters and its closing tag, so a read meets one content; two saves in a row
  between two reads still occur.
* **Views.** Two requests and two layers of one store: one shows a view that is
  edited to another, to a bad one and to the table, the other a view that has the
  table's name.  These are all relations two definitions can have: other name,
  same name and other query, table and view of one name.
* **Pool.** Three connections for two downloads that may hold three each: they
  can hold all and wait for each other, and the leaks of earlier downloads
  exhaust the pool.
* **Extras.** One that can be written, one with markup and one without a value:
  what the template makes of an extra depends on nothing else.
* **Calendar.** Four instants around midnights, the end of a month and the middle
  of a millisecond, in zones of both signs.  `MaxFiles` of two gives a listing a
  day that is the latest and one that is not; the theorems hold for any number.
* **Texts and substitutions.** Two texts as the README describes them, one with
  workspace and fields, and seven that are not; substitutions as in the sample
  file, one key twice, one that matches the other's result, and none.
* **Operations.** `GetMap` does what `GetFeatureInfo` does but for
  `QUERY_LAYERS`, so the latter and `GetLegendGraphic` are checked.
* **Columns.** Three and a link: included and excluded columns before and after
  each other, and one whose names differ in the three forms.  `RestrictedCsv`'s
  violation run has the same instance.
* **Layers.** Two of one name and one of another: what a lookup by local name can
  confuse and what it cannot.

### 3.2 Fairness

`LayerFilters!FairSpec`: a thread that loads or saves goes on until it ends.
`UniqueValuesGate!FairSpec`: request threads are scheduled.
`CsvDownloads!FairSpec`: request threads are scheduled, and `getConnection` does
not wait for ever, so that with an empty pool either a connection comes or the
call fails.  These are the container's threads and the pool's timeout.  Nothing
is assumed of people and clients: nobody has to open a page, submit it, cancel
it or send a request, and no file and no table has to change or stop changing.
The other modules state no liveness.

### 3.3 Deadlock

No run switches the deadlock check off.  In `RestrictedCsv` a file that has
ended stutters (`Ended`); the other systems always have a next request.

## 4. What is proved

The theorems hold for every value of the constants that satisfies the modules'
assumptions: any number of tabs, clients, threads, downloads, attributes,
connections, faults.  Where a theorem has hypotheses beyond those, they are named
below; the instance of the run that checks the same property satisfies them.
Every invariant and every property of the passing runs is stated by a theorem,
but for liveness.

**`LayerFiltersProofs`.**

* `TypeCorrect` (`TypeOK`).  Inductive by itself, with lemmas on the type of
  every operator: what a merge returns, what an overlay and a read make of a
  file.
* `PagesAlwaysRender` (`PagesRender`).  A merge prefers the saved filter's fields
  where they are not null, and the schema's filter has none that is null; a form
  sets check boxes from check boxes.
* `OnlyEnabledAlwaysServed` (`OnlyEnabledServed`).  Not inductive: a filter that
  is served was in a load, before that in the file, before that in a page.
  `SourceInv` adds that every element of the file, of every load and of the rest
  of every running save has been submitted as enabled, and that a tab that saves
  shows its page and does not load (`TabInv`).
* `BrokenFileNeverRepaired` (`BrokenFileStaysBroken`).  `Stuck` is preserved by
  every step: only a page could write, and each load of one reads a prefix of the
  broken file to its end and fails.

**`LayerFiltersSavesProofs`** is about what holds only while one tab has the page
open, which `OneTab` says; `LayerFilters_overlap` shows what happens otherwise.

* `SavedAlwaysReadsBack` (`SaveReadsBack`) assumes `OneTab`, tables whose columns
  have different names, and texts without markup (`PlainForms`: names of columns,
  types and labels that are entered, extras), as a filter with markup is written
  as it is and leaves a file that does not parse.  Blocks of
  any size, I/O errors and crashes are allowed.  `SaveInv` says what a running
  save has left in the file: the elements of the enabled filters before its next
  one, whole and nothing else, and its offset is the file's end.
* `ExclusionAlwaysHonoured` (`ExclusionHonoured`) assumes `Undisturbed`: one tab,
  files that fit a block (`WholeReads`), no I/O error or crash, and a closed file
  at the start.  `LayerFilters_torn` violates the property with files of several
  blocks; and a save that was aborted leaves a beginning that a read can mix with
  the elements of the next save although one save only overlaps it.  `LoadInv`
  says what a request that at most one save overlapped has read so far: a
  beginning of the file as it is, one of the contents that it had since, or a text
  that has something behind its end and will not parse.
* `ConfiguredFiltersAlwaysReturned` (`ConfiguredFiltersReturned`) assumes
  `Untroubled`: besides, forms have types and plain texts, every extra has a value
  (`TypedForms`), and the file at the start is usable, as otherwise what fails is
  no read but the template or the parser.  `UsableInv` says that between saves the
  file stays so.
* `FileIsRegister` (`IsRegister`) is the refinement: `Spec => Register!Spec` under
  `Undisturbed`, whatever is entered in forms.  `Submit` is `BeginWrite`; an
  `Emit` is a stutter, since a file without its closing tag is unreadable like the
  empty one before; `CloseSave` and `FailTemplate` are `EndWrite`, the loads
  of the page are stutters, and an answer is `Return` with a content of `offered`.
  Two more invariants are needed than for the properties: the file of a running
  save is *exactly* the cells written so far (`Elements`; one with markup is no
  XML, and then the file stays unreadable), in order (`OrderInv`), so that
  `CloseSave` makes the content the one saved, and the history variables agree
  (`OverlapInv`).

**`UniqueValuesGateProofs`.**  `Inductive` is `TypeOK` with `ThreadsOK`: what each
line of the method knows of its locals, such as that a thread that adds does so
to a list that exists, at a regex of the file.  From it follow `TypeCorrect`,
`MatchesAlwaysConfigured` (every element of every list is null or a regex of the
file) and `WarmStaysWarm` (only loading threads change a list or the field, and
the field is not null again, so nobody starts to load).  `SoloLoadAlwaysExact`
(`SoloLoadExact`) needs more: `SoloInv` follows the one thread that loads from
line to line, with how much of the file its list has by then (`LoaderOK`), and
says what a request that came later knows where it is (`WarmOK`).  Its list is
empty when it gets an array, which is why nothing of it is lost.

**`CsvDownloadsProofs`.**  `IInv` is `PoolOK` (free and held connections are
disjoint, and so are those of two downloads) with `DownloadsOK`: for each line
of a download, which of its variables hold a connection that is its own, and how
many more it may have taken than it can give back.  The number of the column it
is at bounds the leak.  From it follow `NothingShared` (`NoSharing`) and
`LeakIsBounded` (`LeakBounded`).  `DropsAlwaysLogged` (`DropsAreLogged`) is about
the data: `KeysInv` says that the keys found so far cover the columns asked so
far, as long as the table is the one the features were read from.  That the
header then has a column for each of them (`HeaderCovers`) follows because two
keys never have the same number of keys before them (`RankTells`).
`RowsAlwaysRepeat` (`RowsRepeatPivotColumns`) has no hypothesis.  It rests on
`TypesInv`, which says of every download what its names and the rows of its table
are sequences of, and on what `FlattenSeq` makes of equally long parts
(`FlattenSeqBlocks`): a row's titles are the header's first and then blocks of
the pivoted columns.  `TypeCorrect` (`TypeOK`) follows from the same invariant.

**`UniqueValuesProofs`.**  The invariant has two parts.  `Knows` says of each
request what it can rely on where it is: until it is contested or disturbed, the
store has its definition under its name from the step that registered it on, or
nothing under a table's name.  A bad query under a name has a request that is to
verify it.  What one request does is harmless to another (`OthersKnow`) because a
step changes the store only under the name of its own definition, and whoever
asks for the same name and another definition is contested from then on
(`SameDefinition`).  From it follow `UncontestedAlwaysExact` (`UncontestedExact`)
and `BadViewsAlwaysLeave` (`BadViewsLeave`, by `OthersLeave` and
`VerifyingStays`).  `ConnectionsAlwaysComeBack` (`ConnectionsComeBack`) counts:
every step adds a request to those that ask and takes a connection, or the
reverse, or does neither (`ConnectionSteps`).  `TypeCorrect` (`TypeOK`) needs that
what is sorted is finite and has its elements' type, which `AscendingFacts` says.

**`NcwmsProofs`.**  First arithmetic, for any resolution, length of a day, month
and year, and any offset: the portal's day parameter for a date is the day that
the date was made of (`DateRoundTrip`).  In UTC a literal of a query is read as the instant it was
printed from (`LiteralInUTC`), so the query for that day finds the instant
(`OnItsDay`), and an instant of whole milliseconds is its day and its time
(`WholeInstant`).  `IInv` says that what a client was listed is backed by a file
of the index, unless one was removed since, and what was said to thredds when.
From it follow `TypeCorrect`, `ListedDatesAlwaysHaveTimes`
(`ListedDatesHaveTimes`), `ListedTimesAlwaysServed` (`ListedTimesServed`),
`LatestNeverBeforeListed` (`LatestNotBeforeListed`) and `StatusAlwaysThredds`
(`StatusIsThredds`).

`ProxiedAlwaysAsAsked` (`ProxiedAsAsked`) is about what is sent.  `Described` are
layers in the parts that the README names, `TextOf` puts a text together from
them, and `DescribedAssumption` says that a part is not empty and has no
separator in it, and that GeoServer knows the layer.  `DescribedParses` proves
that the constructor of `LayerDescriptor` takes any such text apart into those
parts, with or without workspace and fields: a text that has one separator is
split there and nowhere else (`SplitJoined`).  `Mangled` proves that the one
substitution that applies to a URL is made wherever the order of the keys has
it: otherwise there is a first key after which the result is wrong.  `SentInv`
says that a query that was put together is the one for the client's choice.

**`RestrictedCsvProofs`.**  A walk is determined by the layer: `OneWalk` has a
*trace*, a function from columns to what is on the line before them, that grows
while the header is written and that every line then follows.  The trace is
quantified and not defined by recursion, because the prover could not unfold that.
For complex types the header follows the trace of the lines' walk exactly if the
type is `Straight`; if it is not, `ComplexWalks` counts what differs: which
columns each walk has written, that the header then has a field without text after
its first column, and that a line has none.  From both follows
`AlignedOnlyIfRegular`: a line matches the header *exactly* if the type is simple
or `Straight` (`AlignedExactly`), so the condition of `Aligned` (`AlwaysAligned`)
cannot be weakened.  `ColumnsAlwaysShown` (`ColumnsShown`) has an invariant of its
own, `ColumnsInv`: a walk of a simple type has written the columns it has passed
that are not excluded, in their order, and once the catalog was asked the
exclusions are those of a layer that it found. Besides, `TypeCorrect` and
`FeaturesAlwaysClosed` (`FeaturesClosed`).

**`OrderedProofs`** has what the others cite about `Ascending`, `At` and
`FlattenSeq`.  An induction over data cannot be done with an induction theorem of
the library, as these take an operator; it is done by a least counterexample: if
a fact about numbers fails, there is a first one where it does (`FirstOf`), and
that is refuted from the one before.

**Only model-checked.**  All liveness (`RequestsAnswered`, `SavesEnd`,
`RequestsDecided`, `DownloadsEnd`), which needs fairness and is outside what the
prover does.  The properties of the five violation runs, which do not hold.
`ExclusionHonoured`, `ConfiguredFiltersReturned` and `IsRegister` are proved where
they hold, with one tab and whole reads; that the other instances violate them
is what TLC shows.  What the models compute for a text that is *not* written as
the README says is checked for the seven texts of `Ncwms_session`.

## 5. Plan

Done first, because most requests pass through it and nothing guards it: the
filter file with its readers and writers; then the gate, the pool, ncwms and the
column walks; then the query behind the gate, the register that the file
implements, the lookup of exclusions by local name, pivot configuration, ncwms'
descriptors, substitutions and conversation with thredds, the proofs of every
component, and the refinement of the register.  Left, in this order:

1. **Blocks that end inside an element**, with head and tail as cells of their
   own, to say which mixtures a reader may see.
2. **Proofs.**  The register with I/O errors and crashes, for the requests that
   begin after the last one; the texts that `LayerDescriptor` rejects.
3. **Two tabs' pages.**  A tab saves what it was opened with and so undoes what
   another tab saved in between; the hazard is listed, but nothing in the
   repository says what should happen then.

Not modelled and not planned: Wicket's list pages, which keep no state; the war,
its data directory and styles; `OpenLayers.js` in the data directory, which is
third-party code in compressed form that runs in a browser and that none of the
extensions talks to; the build and deployment scripts; the text of values,
quoting and encodings; thredds and GeoServer itself, beyond how the extensions
use them.
