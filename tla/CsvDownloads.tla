---------------------------- MODULE CsvDownloads ----------------------------
(***************************************************************************)
(* The WFS output format csv-with-metadata-header: concurrent downloads    *)
(* that share the data store's pool of JDBC connections.  A download takes *)
(* a connection for the metadata, one for its features and, for every JSON *)
(* column that it pivots, one more to ask for the keys in that column.     *)
(*                                                                         *)
(* The pool and the database are external.  getConnection waits, and fails *)
(* after a while if no connection becomes free; features() takes its       *)
(* connection until the iterator is closed and sees one snapshot.          *)
(***************************************************************************)
EXTENDS Naturals, Sequences, FiniteSets, SequencesExt, Ordered

CONSTANTS
  Downloads,    \* request threads that serve downloads
  Connections,  \* the connections of the pool
  JsonColumns,  \* names of the jsonb columns of the table
  PlainColumns, \* names of its other columns
  FID,          \* the title of the column of feature identifiers
  Keys,         \* keys of the JSON objects: their ranks in String's order
  Tables,       \* the contents the table may have, sequences of rows
  Layers,       \* layers of the table: their columns and their pivot.xml
  Broken,       \* a pivot.xml that does not parse or has nothing to read
  NULL          \* Java's null

(* What a jsonb column may hold in a row: nothing or blank, an object with *)
(* some keys, or an array.                                                 *)
Blank        == [kind |-> "blank", keys |-> {}]
Object(keys) == [kind |-> "object", keys |-> keys]
Array        == [kind |-> "array", keys |-> {}]

Documents == {Blank, Array} \cup {Object(keys) : keys \in SUBSET Keys}
Row == [JsonColumns -> Documents]

(* A PivotConfig: its orderDirection and its excludedFields.               *)
PivotConfig == [desc: BOOLEAN, excludedFields: SUBSET PlainColumns]

(* pivot is what pivot.xml says, NULL if there is none.                    *)
Layer ==
  [json: Seq(JsonColumns), plain: Seq(PlainColumns),
   pivot: PivotConfig \cup {NULL, Broken}]

ASSUME CsvDownloadsAssumption ==
  /\ Keys \subseteq Nat /\ IsFiniteSet(Keys)
  /\ Tables \subseteq Seq(Row)
  /\ Layers \subseteq Layer
  /\ NULL \notin Connections \cup Layers
  /\ {NULL, Broken} \cap PivotConfig = {}

VARIABLES
  table,      \* the rows of the table
  free,       \* connections in the pool
  held,       \* connections a download took and did not give back
  downloads   \* the downloads' control state and locals

vars == <<table, free, held, downloads>>

(* cursor is the connection of featureIterator and cx the constructor's    *)
(* variable of that name, i the JSON column it is at, found the keys it    *)
(* found, warned whether it logged a warning, out the rows written.  stale *)
(* is history: whether the table changed since the features were read.     *)
IdleDownload ==
  [line |-> "idle", layer |-> NULL, cursor |-> NULL, cx |-> NULL, i |-> 1,
   found |-> {}, warned |-> FALSE, pivotColumnNames |-> <<>>,
   snapshot |-> <<>>, out |-> <<>>, stale |-> FALSE]

Lines == {"idle", "metadata", "describe", "features", "keys", "query", "header",
          "rows", "done", "failed"}
Ended == {"done", "failed"}

Move(d, record) == downloads' = [downloads EXCEPT ![d] = record]

(* The download's locals are gone.                                         *)
End(d, line) ==
  Move(d, [IdleDownload EXCEPT !.line = line, !.layer = downloads[d].layer])

-----------------------------------------------------------------------------
(* The pool *)

(* The connection the pool hands out next: which one makes no difference.  *)
Idle == CHOOSE c \in free : TRUE

Take(d) ==
  /\ free # {}
  /\ free' = free \ {Idle}
  /\ held' = [held EXCEPT ![d] = @ \cup {Idle}]

(* closeSafe; of a null reference it does nothing.                         *)
Close(d, c) ==
  /\ free' = free \cup ({c} \ {NULL})
  /\ held' = [held EXCEPT ![d] = @ \ {c}]

-----------------------------------------------------------------------------
(* The configuration *)

(* new PivotConfig()                                                       *)
DefaultConfig == [desc |-> FALSE, excludedFields |-> {}]

(* PivotConfigFile.getConfig: whatever is wrong with the file is printed,  *)
(* and the layer has the default configuration.                            *)
getConfig(layer) ==
  IF layer.pivot \in {NULL, Broken} THEN DefaultConfig ELSE layer.pivot

(* nonPivotColumnNames.  A JSON column is never excluded.                  *)
NonPivotColumns(layer) ==
  LET excluded == getConfig(layer).excludedFields
  IN  At(layer.plain, {i \in DOMAIN layer.plain : layer.plain[i] \notin excluded})

(* CsvFeatureCollectionSource.getColumnNames: pivot.xml is not consulted.  *)
PlainHeader(layer) == <<FID>> \o layer.plain

-----------------------------------------------------------------------------
(* The rows *)

(* pivotColumnNames: the keys that were found, sorted by the stream.       *)
PivotColumns(layer, keys) ==
  IF getConfig(layer).desc THEN Reverse(Ascending(keys)) ELSE Ascending(keys)

(* A row without a document has an empty text in every column, a document  *)
(* without a key the default value.                                        *)
Cell(column, document, key) ==
  IF document = Blank THEN [kind |-> "empty", column |-> column, title |-> key]
  ELSE IF key \in document.keys THEN [kind |-> "value", column |-> column, title |-> key]
  ELSE [kind |-> "default", column |-> column, title |-> key]

(* Mutant of PivotCells: in the order of the row's own keys first.         *)
PivotCellsOwnFirst(column, document, pivotColumns) ==
  LET keys == Ascending(ToSet(pivotColumns))
      Has(k)   == k \in document.keys
      Lacks(k) == ~Has(k)
      row == SelectSeq(keys, Has) \o SelectSeq(keys, Lacks)
  IN  [i \in DOMAIN row |-> Cell(column, document, row[i])]

(* next(): the names are sorted again, ascending, whatever their order in  *)
(* the header is.                                                          *)
PivotCells(column, document, pivotColumns) ==
  LET keys == Ascending(ToSet(pivotColumns))
  IN  [i \in DOMAIN keys |-> Cell(column, document, keys[i])]

(* The value of an attribute that is not pivoted, or the identifier.       *)
Attribute(column) == [kind |-> "attribute", column |-> column, title |-> column]

Attributes(columns) == [i \in DOMAIN columns |-> Attribute(columns[i])]

(* A row of CsvPivotedFeatureCollectionSource has the other attributes,    *)
(* and the pivoted cells of one JSON column after the other; a row of      *)
(* CsvFeatureCollectionSource has the identifier and all attributes.       *)
RowCells(layer, row, pivotColumns) ==
  IF layer.json = <<>> THEN Attributes(PlainHeader(layer))
  ELSE Attributes(NonPivotColumns(layer)) \o
         FlattenSeq([i \in DOMAIN layer.json |->
                       PivotCells(layer.json[i], row[layer.json[i]], pivotColumns)])

(* The cast to JSONObject throws a ClassCastException.                     *)
Pivotable(layer, row) == \A i \in DOMAIN layer.json : row[layer.json[i]] # Array

(* The header's titles, once the source is constructed.                    *)
getColumnNames(this) ==
  IF this.layer.json = <<>> THEN PlainHeader(this.layer)
  ELSE NonPivotColumns(this.layer) \o this.pivotColumnNames

-----------------------------------------------------------------------------
(* Steps of a download *)

(* Mutant of Start: the loop over the JSON columns counts from 0.          *)
StartAtZero(d, layer) ==
  /\ downloads[d].line \in {"idle"} \cup Ended
  /\ Move(d, [IdleDownload EXCEPT !.line = "metadata", !.layer = layer, !.i = 0])
  /\ held' = [held EXCEPT ![d] = {}]
  /\ UNCHANGED <<table, free>>

(* The connections of an earlier download of this thread that were not     *)
(* given back stay out of the pool.                                        *)
Start(d, layer) ==
  /\ downloads[d].line \in {"idle"} \cup Ended
  /\ Move(d, [IdleDownload EXCEPT !.line = "metadata", !.layer = layer])
  /\ held' = [held EXCEPT ![d] = {}]
  /\ UNCHANGED <<table, free>>

AcquireMetadata(d) ==
  /\ downloads[d].line = "metadata"
  /\ Take(d)
  /\ Move(d, [downloads[d] EXCEPT !.line = "describe", !.cx = Idle])
  /\ UNCHANGED table

(* writeMetadata's query and its finally; an SQLException is only logged.  *)
Describe(d) ==
  /\ downloads[d].line = "describe"
  /\ Close(d, downloads[d].cx)
  /\ Move(d, [downloads[d] EXCEPT !.line = "features", !.cx = NULL])
  /\ UNCHANGED table

(* The client is gone while the metadata is written.                       *)
DescribeFails(d) ==
  /\ downloads[d].line = "describe"
  /\ Close(d, downloads[d].cx)
  /\ End(d, "failed")
  /\ UNCHANGED table

(* featureCollection.features().  A layer without JSON columns is read by  *)
(* CsvFeatureCollectionSource, whose header needs no query.                *)
OpenFeatures(d) ==
  /\ downloads[d].line = "features"
  /\ Take(d)
  /\ Move(d, [downloads[d] EXCEPT
                !.line = IF downloads[d].layer.json = <<>> THEN "header" ELSE "keys",
                !.cursor = Idle, !.snapshot = table])
  /\ UNCHANGED table

(* No connection for the metadata or the features: the request fails.      *)
AcquireFails(d) ==
  /\ downloads[d].line \in {"metadata", "features"}
  /\ free = {}
  /\ End(d, "failed")
  /\ UNCHANGED <<table, free, held>>

(* The layer is removed from the catalog when the features are open        *)
(* already: fi is null, and the constructor throws before its try.  Nobody *)
(* has the reference to close the iterator.                                *)
ConstructorFails(d) ==
  /\ downloads[d].line = "keys"
  /\ downloads[d].i = 1 /\ downloads[d].cx = NULL
  /\ End(d, "failed")
  /\ UNCHANGED <<table, free, held>>

(* Mutant of AcquireKeys: cx is one connection for all columns.            *)
AcquireKeysAgain(d) ==
  LET this == downloads[d]
  IN  /\ this.line = "keys" /\ this.i <= Len(this.layer.json)
      /\ \/ this.cx = NULL /\ Take(d)
         \/ this.cx # NULL /\ Close(d, this.cx)
      /\ Move(d, [this EXCEPT !.line = "query", !.cx = Idle])
      /\ UNCHANGED table

(* The loop's next column: cx refers to a new connection, and the one it   *)
(* referred to is not closed.                                              *)
AcquireKeys(d) ==
  LET this == downloads[d]
  IN  /\ this.line = "keys" /\ this.i <= Len(this.layer.json)
      /\ Take(d)
      /\ Move(d, [this EXCEPT !.line = "query", !.cx = Idle])
      /\ UNCHANGED table

(* The rest of the constructor: finally closes cx, and the header is made  *)
(* of the keys that were found.                                            *)
EndKeys(d, warned) ==
  LET this == downloads[d]
  IN  /\ Close(d, this.cx)
      /\ Move(d, [this EXCEPT !.line = "header", !.cx = NULL,
                              !.pivotColumnNames = PivotColumns(this.layer, this.found),
                              !.warned = warned])

CloseKeys(d) ==
  /\ downloads[d].line = "keys"
  /\ downloads[d].i > Len(downloads[d].layer.json)
  /\ EndKeys(d, FALSE)
  /\ UNCHANGED table

(* Mutant of AcquireKeysFails: waits while another download has connections. *)
AcquireKeysWaits(d) ==
  /\ downloads[d].line = "keys"
  /\ downloads[d].i <= Len(downloads[d].layer.json)
  /\ free = {} /\ \A e \in Downloads \ {d} : held[e] = {}
  /\ EndKeys(d, TRUE)
  /\ UNCHANGED table

(* getConnection fails.  An IOException is caught, logged, and ends the    *)
(* loop; a RuntimeException leaves the constructor, after finally, and     *)
(* nobody has the reference to close the iterator any more.                *)
AcquireKeysFails(d) ==
  LET this == downloads[d]
  IN  /\ this.line = "keys" /\ this.i <= Len(this.layer.json)
      /\ free = {}
      /\ \/ EndKeys(d, TRUE)
         \/ /\ Close(d, this.cx)
            /\ End(d, "failed")
      /\ UNCHANGED table

(* SELECT DISTINCT jsonb_object_keys(...) of the table as it is now.       *)
DocumentsOf(column) == {table[j][column] : j \in DOMAIN table}

KeysOf(column) == UNION {document.keys : document \in DocumentsOf(column)}

(* The column that d asks about holds objects only.                        *)
Queryable(d) ==
  downloads[d].line = "query" =>
    Array \notin DocumentsOf(downloads[d].layer.json[downloads[d].i])

(* Mutant of QueryKeys: the column's keys replace what was found.          *)
QueryKeysReplaces(d) ==
  LET this   == downloads[d]
      column == this.layer.json[this.i]
  IN  /\ this.line = "query" /\ Queryable(d)
      /\ Move(d, [this EXCEPT !.line = "keys", !.i = this.i + 1,
                              !.found = KeysOf(column)])
      /\ UNCHANGED <<table, free, held>>

QueryKeys(d) ==
  LET this   == downloads[d]
      column == this.layer.json[this.i]
  IN  /\ this.line = "query" /\ Queryable(d)
      /\ Move(d, [this EXCEPT !.line = "keys", !.i = this.i + 1,
                              !.found = this.found \cup KeysOf(column)])
      /\ UNCHANGED <<table, free, held>>

(* The query throws an SQLException: always when a document is no object,  *)
(* and whenever the database fails.                                        *)
QueryKeysFails(d) ==
  /\ downloads[d].line = "query"
  /\ EndKeys(d, TRUE)
  /\ UNCHANGED table

WriteHeader(d) ==
  /\ downloads[d].line = "header"
  /\ Move(d, [downloads[d] EXCEPT !.line = "rows"])
  /\ UNCHANGED <<table, free, held>>

(* The first row cannot be read, or the client is gone: the header is      *)
(* written before writeData's try.                                         *)
WriteHeaderFails(d) ==
  /\ downloads[d].line = "header"
  /\ End(d, "failed")
  /\ UNCHANGED <<table, free, held>>

(* The next row, if there is one, has no array in a column to pivot.       *)
NextPivotable(d) ==
  LET this == downloads[d]
      j    == Len(this.out) + 1
  IN  this.line = "rows" /\ j \in DOMAIN this.snapshot =>
        Pivotable(this.layer, this.snapshot[j])

WriteRow(d) ==
  LET this == downloads[d]
      j    == Len(this.out) + 1
  IN  /\ this.line = "rows" /\ j \in DOMAIN this.snapshot /\ NextPivotable(d)
      /\ Move(d, [this EXCEPT !.out = Append(@, RowCells(this.layer,
                                        this.snapshot[j], this.pivotColumnNames))])
      /\ UNCHANGED <<table, free, held>>

(* writeData's finally.                                                    *)
CloseFeatures(d, line) ==
  /\ Close(d, downloads[d].cursor)
  /\ End(d, line)

(* A row that cannot be pivoted, or a client that is gone.                 *)
WriteRowFails(d) ==
  /\ downloads[d].line = "rows"
  /\ CloseFeatures(d, "failed")
  /\ UNCHANGED table

(* Mutant of Finish: the source is not closed.                             *)
FinishOpen(d) ==
  /\ downloads[d].line = "rows"
  /\ Len(downloads[d].out) = Len(downloads[d].snapshot)
  /\ End(d, "done")
  /\ UNCHANGED <<table, free, held>>

Finish(d) ==
  /\ downloads[d].line = "rows"
  /\ Len(downloads[d].out) = Len(downloads[d].snapshot)
  /\ CloseFeatures(d, "done")
  /\ UNCHANGED table

(* Somebody changes the table.                                             *)
AlterTable ==
  /\ table' \in Tables \ {table}
  /\ downloads' = [d \in Downloads |->
       IF downloads[d].line \in {"keys", "query"}
       THEN [downloads[d] EXCEPT !.stale = TRUE] ELSE downloads[d]]
  /\ UNCHANGED <<free, held>>

-----------------------------------------------------------------------------
Init ==
  /\ table \in Tables
  /\ free = Connections
  /\ held = [d \in Downloads |-> {}]
  /\ downloads = [d \in Downloads |-> IdleDownload]

(* What a thread does of its own accord, or what the data makes it do.     *)
Step(d) ==
  \/ AcquireMetadata(d) \/ OpenFeatures(d) \/ AcquireKeys(d)
  \/ AcquireFails(d) \/ AcquireKeysFails(d)
  \/ Describe(d) \/ QueryKeys(d) \/ CloseKeys(d)
  \/ WriteHeader(d) \/ WriteRow(d) \/ Finish(d)
  \/ ~Queryable(d) /\ QueryKeysFails(d)
  \/ ~NextPivotable(d) /\ WriteRowFails(d)

(* What the database or the client may do to it at any time.               *)
Failure(d) ==
  \/ DescribeFails(d) \/ ConstructorFails(d) \/ QueryKeysFails(d)
  \/ WriteHeaderFails(d) \/ WriteRowFails(d)

Next ==
  \/ \E d \in Downloads :
       Step(d) \/ Failure(d) \/ \E layer \in Layers : Start(d, layer)
  \/ AlterTable

Spec == Init /\ [][Next]_vars

(* A request thread runs on, and getConnection does not wait for ever.     *)
FairSpec == Spec /\ \A d \in Downloads : WF_vars(Step(d))

-----------------------------------------------------------------------------
(* Properties *)

CellRecord ==
  [kind: {"value", "default", "empty"}, column: JsonColumns, title: Keys]
    \cup [kind: {"attribute"}, column: PlainColumns \cup {FID},
          title: PlainColumns \cup {FID}]
DownloadRecord ==
  [line: Lines, layer: Layers \cup {NULL}, cursor: Connections \cup {NULL},
   cx: Connections \cup {NULL}, i: Nat \ {0}, found: SUBSET Keys,
   warned: BOOLEAN, pivotColumnNames: Seq(Keys), snapshot: Tables \cup {<<>>},
   out: Seq(Seq(CellRecord)), stale: BOOLEAN]

TypeOK ==
  /\ table \in Tables
  /\ free \in SUBSET Connections
  /\ held \in [Downloads -> SUBSET Connections]
  /\ downloads \in [Downloads -> DownloadRecord]

(* The connections a download works with are its own: none of them is in   *)
(* the pool or with another download, whichever way others end.            *)
NoSharing ==
  \A d \in Downloads :
    LET used == {downloads[d].cursor, downloads[d].cx} \ {NULL}
    IN  /\ used \subseteq held[d]
        /\ held[d] \cap free = {}
        /\ \A e \in Downloads \ {d} : held[d] \cap held[e] = {}

(* A download that is done gave back every connection it took, but for one *)
(* per JSON column before the last one it asked: the finally after the     *)
(* loop in CsvPivotedFeatureCollectionSource closes the last one only.     *)
LeakBounded ==
  \A d \in Downloads :
    LET columns == Len(downloads[d].layer.json)
    IN  downloads[d].line = "done" =>
          Cardinality(held[d]) <= IF columns = 0 THEN 0 ELSE columns - 1

Titles(row) == [p \in DOMAIN row |-> row[p].title]

(* In a download of one JSON column every row is as wide as the header,    *)
(* and every value is in the column of its key.  Comment before next()'s   *)
(* loop: "Add pivoted attribute values to column values."                  *)
CellsUnderTheirColumn ==
  \A d \in Downloads :
    LET this == downloads[d]
    IN  this.line = "rows" /\ Len(this.layer.json) = 1 =>
          \A j \in DOMAIN this.out : Titles(this.out[j]) = getColumnNames(this)

(* Unless the names are descending, the rows of a download repeat the      *)
(* header's pivot columns once per JSON column and are otherwise under     *)
(* their titles: values are under wrong titles, or none, exactly if there  *)
(* are two JSON columns and a key, even if nothing fails and nothing is    *)
(* changed meanwhile.                                                      *)
RowsRepeatPivotColumns ==
  \A d \in Downloads :
    LET this  == downloads[d]
        names == getColumnNames(this)
        pivot == this.pivotColumnNames
    IN  this.line = "rows" /\ ~getConfig(this.layer).desc =>
          \A j \in DOMAIN this.out :
            LET titles == Titles(this.out[j])
            IN  /\ IsPrefix(names, titles)
                /\ (titles = names) <=> (Len(this.layer.json) <= 1 \/ pivot = <<>>)
                /\ Len(titles) =
                     Len(names) + (IF Len(this.layer.json) = 0 THEN 0
                                   ELSE (Len(this.layer.json) - 1) * Len(pivot))
                /\ \A p \in DOMAIN titles :
                     p > Len(names) => titles[p] = titles[p - Len(pivot)]

(* A row of this download has a value that no column of its header shows.  *)
DropsValues(this) ==
  \E j \in DOMAIN this.out, i \in DOMAIN this.layer.json :
    ~(this.snapshot[j][this.layer.json[i]].keys \subseteq ToSet(this.pivotColumnNames))

(* A download drops values only when it logged a warning, or the table was *)
(* changed between reading its features and asking for the keys.           *)
DropsAreLogged ==
  \A d \in Downloads :
    downloads[d].line = "rows" /\ DropsValues(downloads[d])
      => downloads[d].warned \/ downloads[d].stale

(* Every download ends, also when downloads wait for each other's          *)
(* connections or none are left in the pool.                               *)
DownloadsEnd ==
  \A d \in Downloads :
    downloads[d].line = "metadata" ~> downloads[d].line \in Ended

=============================================================================
