--------------------------- MODULE RestrictedCsv ---------------------------
(***************************************************************************)
(* The body of a csv-restricted-column download: which layer's directory   *)
(* the exclusions are read from, and how the header writer and the line    *)
(* writer each walk over the columns of the layer and leave out those that *)
(* are excluded.  Simple feature types are walked by index, complex ones   *)
(* by descriptor, and each of the four walks puts its commas itself.       *)
(*                                                                         *)
(* A line is a sequence of fields.  A field is the column whose text is in *)
(* it, also if that is empty, or Blank if no column wrote to it.           *)
(***************************************************************************)
EXTENDS Naturals, Sequences, Ordered

CONSTANTS
  Columns,      \* the columns a layer may have
  Links,        \* those named FEATURE_LINK..., chained features' links
  Schemas,      \* sequences of columns, of simple and of complex types
  LocalName,    \* a column's local name
  FullName,     \* its name with the namespace URI
  ElementName,  \* its prefixed element name, if the schema has one
  Layers,       \* layers, each with a data directory of its own
  LayerName,    \* a layer's name in its workspace
  Exclusions,   \* the filters each layer's filters.xml may exclude
  Features,     \* number of features
  Id,           \* the field of the feature's identifier
  Blank         \* the field that no column wrote to

Names == {LocalName[c] : c \in Columns} \cup {FullName[c] : c \in Columns}
           \cup {ElementName[c] : c \in Columns}

ASSUME RestrictedCsvAssumption ==
  /\ Links \subseteq Columns
  /\ Schemas \subseteq Seq(Columns)
  /\ LayerName \in [Layers -> STRING]
  /\ Exclusions \subseteq [Layers -> SUBSET Names]
  /\ Features \in Nat
  /\ Id \notin Columns /\ Blank \notin Columns /\ Id # Blank

VARIABLES
  simple,    \* whether the feature type is a simple one
  schema,    \* the columns of the type
  asked,     \* the layer of the features, which the first query names
  hasQuery,  \* whether the operation has a query with a type name
  configured, \* the filters that each layer's filters.xml excludes
  published, \* the layers in the catalog
  found,     \* the layers of that name when the catalog was asked
  excluded,  \* excludedFilterNames
  phase,     \* what is being written
  iterator,  \* the features: not opened yet, open or closed
  pos,       \* next column of the walk
  count,     \* i of the header's walk of a complex type, j of the lines'
  line,      \* the line that is being written
  header,    \* the header line when it is complete
  rows       \* the complete lines of features

download == <<simple, schema, asked, hasQuery, configured>>
lookup == <<published, found, excluded>>
layer == <<download, lookup>>
vars == <<layer, phase, iterator, pos, count, line, header, rows>>

include(name) == name \notin excluded

-----------------------------------------------------------------------------
(* The exclusions *)

(* The catalog's answer for a name without a workspace, one of these.      *)
Named(name) == {l \in published : LayerName[l] = name}

(* Mutant of getLayer: the catalog is asked for any layer.                 *)
getLayerAny(name) == published

(* DataDirectory's getLayerInfo passes the local name and no workspace.    *)
getLayer(name) == Named(name)

(* Without a query the path is null, no such file exists, and nothing is   *)
(* excluded.  Without a layer a NullPointerException ends the download.    *)
LookUp ==
  LET layers == getLayer(LayerName[asked])
  IN  /\ phase = "lookup"
      /\ found' = Named(LayerName[asked])
      /\ \/ ~hasQuery /\ excluded' = {} /\ phase' = "header"
         \/ /\ hasQuery /\ phase' = "header"
            /\ \E l \in layers : excluded' = configured[l]
         \/ hasQuery /\ layers = {} /\ phase' = "failed" /\ UNCHANGED excluded
      /\ UNCHANGED <<download, published, iterator, pos, count, line, header, rows>>

(* An administrator adds or removes a layer before it is looked up.        *)
AddOrRemove(l) ==
  /\ phase = "lookup"
  /\ published' = IF l \in published THEN published \ {l} ELSE published \cup {l}
  /\ UNCHANGED <<download, found, excluded, phase, iterator, pos, count, line,
                 header, rows>>

-----------------------------------------------------------------------------
(* Fields *)

(* "FID,", "gml:id," or a feature's identifier, and the comma after it.    *)
FirstField == <<Id, Blank>>

Comma(fields) == Append(fields, Blank)

Text(fields, c) == [fields EXCEPT ![Len(fields)] = c]

CommaIf(test, fields) == IF test THEN Comma(fields) ELSE fields

TextIf(test, fields, c) == IF test THEN Text(fields, c) ELSE fields

-----------------------------------------------------------------------------
(* Walks *)

(* writeSimpleType, of the header and of a line: the comma comes after the *)
(* column, if it is included and not the last.                             *)
SimpleColumn(c) ==
  LET included == include(LocalName[c])
  IN  /\ line' = CommaIf(included /\ pos < Len(schema), TextIf(included, line, c))
      /\ UNCHANGED count

(* writeComplexType of the header: the comma comes before the column, and  *)
(* before it is asked whether the column is included.                      *)
ComplexHeaderColumn(c) ==
  LET included == include(ElementName[c])
  IN  IF c \in Links THEN UNCHANGED <<line, count>>
      ELSE /\ line' = TextIf(included, CommaIf(count > 0, line), c)
           /\ count' = IF included THEN count + 1 ELSE count

(* Mutant of ComplexLineColumn: the links are written.                     *)
ComplexLineColumnLinks(c) ==
  LET included == include(FullName[c])
  IN  /\ line' = TextIf(included, CommaIf(included /\ count > 0, line), c)
      /\ count' = IF included THEN count + 1 ELSE count

(* writeComplexType of a line: excluded columns have no comma.             *)
ComplexLineColumn(c) ==
  LET included == c \notin Links /\ include(FullName[c])
  IN  /\ line' = TextIf(included, CommaIf(included /\ count > 0, line), c)
      /\ count' = IF included THEN count + 1 ELSE count

WriteHeaderColumn ==
  /\ phase = "header" /\ pos <= Len(schema)
  /\ pos' = pos + 1
  /\ IF simple THEN SimpleColumn(schema[pos]) ELSE ComplexHeaderColumn(schema[pos])
  /\ UNCHANGED <<layer, phase, iterator, header, rows>>

(* The newline, and features() of the line writer.                         *)
EndHeader ==
  /\ phase = "header" /\ pos > Len(schema)
  /\ header' = line
  /\ phase' = "features" /\ iterator' = "open"
  /\ UNCHANGED <<layer, pos, count, line, rows>>

(* Mutant of StartLine: the walk begins at 0.                              *)
StartLineAtZero ==
  /\ phase = "features" /\ Len(rows) < Features
  /\ phase' = "line" /\ line' = FirstField /\ pos' = 0 /\ count' = 0
  /\ UNCHANGED <<layer, iterator, header, rows>>

StartLine ==
  /\ phase = "features" /\ Len(rows) < Features
  /\ phase' = "line" /\ line' = FirstField /\ pos' = 1 /\ count' = 0
  /\ UNCHANGED <<layer, iterator, header, rows>>

WriteLineColumn ==
  /\ phase = "line" /\ pos <= Len(schema)
  /\ pos' = pos + 1
  /\ IF simple THEN SimpleColumn(schema[pos]) ELSE ComplexLineColumn(schema[pos])
  /\ UNCHANGED <<layer, phase, iterator, header, rows>>

EndLine ==
  /\ phase = "line" /\ pos > Len(schema)
  /\ rows' = Append(rows, line)
  /\ phase' = "features"
  /\ UNCHANGED <<layer, iterator, pos, count, line, header>>

Finish ==
  /\ phase = "features" /\ Len(rows) = Features
  /\ phase' = "done" /\ iterator' = "closed"
  /\ UNCHANGED <<layer, pos, count, line, header, rows>>

(* Mutant of Fails: the lines have no finally.                             *)
FailsOpen ==
  /\ phase \in {"lookup", "header", "features", "line"}
  /\ phase' = "failed"
  /\ UNCHANGED <<layer, iterator, pos, count, line, header, rows>>

(* filters.xml cannot be parsed, the client is gone, or a column of a      *)
(* complex type has several values.                                        *)
Fails ==
  /\ phase \in {"lookup", "header", "features", "line"}
  /\ phase' = "failed"
  /\ iterator' = IF iterator = "open" THEN "closed" ELSE iterator
  /\ UNCHANGED <<layer, pos, count, line, header, rows>>

-----------------------------------------------------------------------------
Init ==
  /\ simple \in BOOLEAN
  /\ schema \in Schemas
  /\ asked \in Layers /\ hasQuery \in BOOLEAN
  /\ configured \in Exclusions
  /\ published = Layers /\ found = {} /\ excluded = {}
  /\ phase = "lookup" /\ iterator = "none"
  /\ pos = 1 /\ count = 0 /\ line = FirstField
  /\ header = <<>> /\ rows = <<>>

(* A file that ended stays as it is.                                       *)
Ended == phase \in {"done", "failed"} /\ UNCHANGED vars

Next ==
  \/ LookUp \/ \E l \in Layers : AddOrRemove(l)
  \/ WriteHeaderColumn \/ EndHeader
  \/ StartLine \/ WriteLineColumn \/ EndLine
  \/ Finish \/ Fails
  \/ Ended

Spec == Init /\ [][Next]_vars

-----------------------------------------------------------------------------
(* Properties *)

Field == Columns \cup {Id, Blank}

TypeOK ==
  /\ simple \in BOOLEAN /\ schema \in Schemas
  /\ asked \in Layers /\ hasQuery \in BOOLEAN /\ configured \in Exclusions
  /\ published \subseteq Layers /\ found \subseteq Layers
  /\ excluded \in {configured[l] : l \in Layers} \cup {{}}
  /\ phase \in {"lookup", "header", "features", "line", "done", "failed"}
  /\ iterator \in {"none", "open", "closed"}
  /\ pos \in 1..(Len(schema) + 1) /\ count \in 0..Len(schema)
  /\ line \in Seq(Field) /\ header \in Seq(Field) /\ rows \in Seq(Seq(Field))

(* The columns of the type that these filters do not exclude.              *)
Shown(filters) ==
  At(schema, {i \in DOMAIN schema : LocalName[schema[i]] \notin filters})

(* The columns whose texts are in these fields.                            *)
ColumnsOf(fields) == At(fields, {i \in DOMAIN fields : fields[i] \in Columns})

(* Of a simple type, the file shows the columns that its layer's filters   *)
(* do not exclude, each once and in the order of the type, if its layer is *)
(* the only one of its name when the catalog is asked.                     *)
ColumnsShown ==
  simple /\ header # <<>> /\ hasQuery /\ found = {asked} =>
    ColumnsOf(header) = Shown(configured[asked])

PlainColumns == {i \in DOMAIN schema : schema[i] \notin Links}

(* Both walks of a complex type exclude the same columns: the name that    *)
(* the header asks with and the one that the lines ask with agree.         *)
NamedAlike ==
  \A i \in PlainColumns :
    include(ElementName[schema[i]]) <=> include(FullName[schema[i]])

(* And no excluded column comes after an included one.                     *)
Straight ==
  /\ NamedAlike
  /\ \A i, j \in PlainColumns :
       i < j /\ include(ElementName[schema[i]])
         => include(ElementName[schema[j]])

(* In a file of a simple type, and in one of a complex type that is       *)
(* Straight, each line has its columns' texts under their names in the     *)
(* header, whatever is excluded.                                           *)
Aligned == simple \/ Straight => \A i \in DOMAIN rows : rows[i] = header

(* The file is as the csv format's but for the excluded columns.  That of *)
(* a simple type shows the columns that its layer's filters do not         *)
(* exclude, whatever other layers and queries there are, and each line has *)
(* its columns' texts under their names, unless the two walks of a complex *)
(* type exclude different ones.  README, "The response is identical to the *)
(* CSV output format WFS response but excludes columns configured as not   *)
(* available for download".                                                *)
IdenticalButExcluded ==
  /\ simple /\ header # <<>> => ColumnsOf(header) = Shown(configured[asked])
  /\ simple \/ NamedAlike => \A i \in DOMAIN rows : rows[i] = header

(* The features are closed when the download ends, however it ends.        *)
FeaturesClosed == phase \in {"done", "failed"} => iterator # "open"

=============================================================================
