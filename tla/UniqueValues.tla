---------------------------- MODULE UniqueValues ----------------------------
(***************************************************************************)
(* The service uniqueValues behind its gate: a request lists the distinct  *)
(* values that a property of a layer has.  The layer shows a table of the  *)
(* database or, as an SQL view, a virtual table, which the data store must *)
(* know by name before it can be asked; the request registers it if the    *)
(* store does not have it as the catalog does.  Requests, catalog and data *)
(* store are shared, and nothing is locked from one call to the next.      *)
(*                                                                         *)
(* The store is GeoTools' JDBCDataStore, external: createVirtualTable puts *)
(* a definition under its name, reads its schema, and removes the name if  *)
(* that fails; schemas and queries look the name up when they run.         *)
(***************************************************************************)
EXTENDS Integers, Sequences, FiniteSets, Ordered

CONSTANTS
  Requests,     \* request threads
  Layers,       \* layers of the store
  Names,        \* names of tables and of virtual tables
  Sqls,         \* queries of virtual tables
  BadSqls,      \* those that the database does not accept
  Tables,       \* the names that the database has a table of
  Definitions,  \* what a layer's catalog entry may say it shows
  Values,       \* what the property is in each table and query
  Dates,        \* the tables and queries where the property is a date
  MsPerSecond,  \* milliseconds of a second in the model
  Connections,  \* number of connections in the pool
  NULL          \* Java's null

(* sql is NULL for a layer that shows a table.                             *)
Definition == [name: Names, sql: Sqls \cup {NULL}]

ASSUME UniqueValuesAssumption ==
  /\ IsFiniteSet(Requests)
  /\ BadSqls \subseteq Sqls /\ Tables \subseteq Names
  /\ Definitions \in [Layers -> SUBSET Definition]
  /\ Values \in [Tables \cup Sqls -> SUBSET (Nat \cup {NULL})]
  /\ \A source \in Tables \cup Sqls : IsFiniteSet(Values[source])
  /\ Dates \subseteq Tables \cup Sqls
  /\ MsPerSecond \in Nat \ {0} /\ Connections \in Nat
  /\ NULL \notin Nat \cup Names \cup Sqls \cup Definition

VARIABLES
  present,        \* the layers in the catalog
  shown,          \* the definition in each layer's catalog entry
  virtualTables,  \* the store's virtual tables: the query of each name
  free,           \* connections in the pool
  requests        \* the requests' control state and locals

vars == <<present, shown, virtualTables, free, requests>>

(* info is whether layerInfo is not null, definition what the request asks *)
(* the store for.  Two fields are history: disturbed, whether the database *)
(* failed or the catalog was changed under the request, or the database    *)
(* failed another one's registration of the same name; and contested,      *)
(* whether it ran together with a request for another definition of that   *)
(* name, or for a table that a view of its name hid when it began.         *)
NewRequest ==
  [line |-> "idle", layer |-> NULL, info |-> FALSE, definition |-> NULL,
   answer |-> <<>>, disturbed |-> FALSE, contested |-> FALSE]

Lines == {"idle", "lookup", "store", "metadata", "view", "contains", "create",
          "verify", "schema", "connect", "query", "done", "failed"}
Ended == {"done", "failed"}

Move(r, record) == requests' = [requests EXCEPT ![r] = record]

Goto(r, line) == Move(r, [requests[r] EXCEPT !.line = line])

Fail(r) == Goto(r, "failed")

FailDisturbed(r) ==
  Move(r, [requests[r] EXCEPT !.line = "failed", !.disturbed = TRUE])

-----------------------------------------------------------------------------
(* The store *)

(* What the store asks the database for under a name.                      *)
Source(name) == [name |-> name, sql |-> virtualTables[name]]

Answerable(source) ==
  IF source.sql = NULL THEN source.name \in Tables ELSE source.sql \notin BadSqls

(* containsValue: the virtual table is known as the catalog has it.        *)
Registered(definition) == virtualTables[definition.name] = definition.sql

-----------------------------------------------------------------------------
(* The values *)

ValuesOf(source) ==
  Values[IF source.sql = NULL THEN source.name ELSE source.sql]

(* A date is written to the second, everything else by String.valueOf.     *)
Encode(source, value) ==
  IF {source.name, source.sql} \cap Dates # {} THEN value \div MsPerSecond
  ELSE value

(* Without null, ascending.                                                *)
Listed(source) ==
  LET values == Ascending(ValuesOf(source) \ {NULL})
  IN  [i \in DOMAIN values |-> Encode(source, values[i])]

-----------------------------------------------------------------------------
(* Steps of a request *)

Start(r, layer) ==
  /\ requests[r].line \in {"idle"} \cup Ended
  /\ Move(r, [NewRequest EXCEPT !.line = "lookup", !.layer = layer])
  /\ UNCHANGED <<present, shown, virtualTables, free>>

(* getUniqueValuesDocument's own lookup.                                   *)
LookUp(r) ==
  /\ requests[r].line = "lookup"
  /\ Move(r, [requests[r] EXCEPT !.line = "store",
                                 !.info = requests[r].layer \in present])
  /\ UNCHANGED <<present, shown, virtualTables, free>>

(* getDataStoreInfo looks the layer up again.  If one of the two found     *)
(* nothing, a NullPointerException ends the request.                       *)
FindStore(r) ==
  /\ requests[r].line = "store"
  /\ IF requests[r].info /\ requests[r].layer \in present
     THEN Goto(r, "metadata") ELSE FailDisturbed(r)
  /\ UNCHANGED <<present, shown, virtualTables, free>>

(* q runs and goes by this name.                                           *)
Asks(q, name) ==
  /\ requests[q].line \notin {"idle"} \cup Ended
  /\ requests[q].definition # NULL /\ requests[q].definition.name = name

(* A table of the name of a virtual table cannot be asked for.             *)
Hidden(definition) ==
  definition.sql = NULL /\ virtualTables[definition.name] # NULL

(* r goes on to line with a definition of its own; requests for another    *)
(* definition of that name contest it, and it contests them.               *)
Carry(r, line, definition) ==
  LET rivals == {q \in Requests \ {r} : /\ Asks(q, definition.name)
                                        /\ requests[q].definition # definition}
  IN  requests' = [q \in Requests |->
        IF q = r
        THEN [requests[r] EXCEPT !.line = line, !.definition = definition,
                                 !.contested = rivals # {} \/ Hidden(definition)]
        ELSE [requests[q] EXCEPT !.contested = @ \/ q \in rivals]]

(* metadata.containsKey                                                    *)
ReadMetadata(r) ==
  LET definition == shown[requests[r].layer]
  IN  /\ requests[r].line = "metadata"
      /\ IF definition.sql = NULL THEN Carry(r, "schema", definition)
         ELSE Goto(r, "view")
      /\ UNCHANGED <<present, shown, virtualTables, free>>

(* metadata.get, which is null if the view was changed to a table since.   *)
ReadView(r) ==
  LET definition == shown[requests[r].layer]
  IN  /\ requests[r].line = "view"
      /\ IF definition.sql = NULL THEN FailDisturbed(r)
         ELSE Carry(r, "contains", definition)
      /\ UNCHANGED <<present, shown, virtualTables, free>>

(* Mutant of CheckRegistered: the virtual tables' names are asked for.     *)
CheckRegisteredName(r) ==
  /\ requests[r].line = "contains"
  /\ Goto(r, IF virtualTables[requests[r].definition.name] # NULL THEN "schema"
             ELSE "create")
  /\ UNCHANGED <<present, shown, virtualTables, free>>

CheckRegistered(r) ==
  /\ requests[r].line = "contains"
  /\ Goto(r, IF Registered(requests[r].definition) THEN "schema" ELSE "create")
  /\ UNCHANGED <<present, shown, virtualTables, free>>

Put(definition) ==
  virtualTables' = [virtualTables EXCEPT ![definition.name] = definition.sql]

(* Mutant of Register: it puts the virtual table without a look at it.     *)
RegisterUnseen(r) ==
  /\ requests[r].line = "create"
  /\ Put(requests[r].definition)
  /\ Goto(r, "schema")
  /\ UNCHANGED <<present, shown, free>>

(* createVirtualTable puts the definition, whatever was put since the      *)
(* check.                                                                  *)
Register(r) ==
  /\ requests[r].line = "create"
  /\ Put(requests[r].definition)
  /\ Goto(r, "verify")
  /\ UNCHANGED <<present, shown, free>>

(* The rest of createVirtualTable: the schema of what has the name now.    *)
Verify(r) ==
  /\ requests[r].line = "verify"
  /\ Answerable(Source(requests[r].definition.name))
  /\ Goto(r, "schema")
  /\ UNCHANGED <<present, shown, virtualTables, free>>

VerifyFails(r) ==
  /\ requests[r].line = "verify"
  /\ ~Answerable(Source(requests[r].definition.name))
  /\ virtualTables' = [virtualTables EXCEPT ![requests[r].definition.name] = NULL]
  /\ Fail(r)
  /\ UNCHANGED <<present, shown, free>>

(* getSchema, by name.                                                     *)
GetSchema(r) ==
  /\ requests[r].line = "schema"
  /\ IF Answerable(Source(requests[r].definition.name)) THEN Goto(r, "connect")
     ELSE Fail(r)
  /\ UNCHANGED <<present, shown, virtualTables, free>>

Connect(r) ==
  /\ requests[r].line = "connect" /\ free > 0
  /\ free' = free - 1
  /\ Goto(r, "query")
  /\ UNCHANGED <<present, shown, virtualTables>>

(* Mutant of Close: once after the query, and again in the finally.        *)
CloseTwice == free' = free + 2

Close == free' = free + 1

(* getAggregateValue, which looks the name up a last time, and the finally *)
(* that closes the connection.                                             *)
Ask(r) ==
  LET source == Source(requests[r].definition.name)
  IN  /\ requests[r].line = "query"
      /\ IF Answerable(source)
         THEN Move(r, [requests[r] EXCEPT !.line = "done", !.answer = Listed(source)])
         ELSE Fail(r)
      /\ Close
      /\ UNCHANGED <<present, shown, virtualTables>>

-----------------------------------------------------------------------------
(* What the database may do: createVirtualTable takes the name back,       *)
(* whoever put it; no connection comes, or none becomes free in time; the  *)
(* query fails.                                                            *)
DatabaseFailsVerify(r) ==
  /\ requests[r].line = "verify"
  /\ virtualTables' = [virtualTables EXCEPT ![requests[r].definition.name] = NULL]
  /\ requests' = [q \in Requests |->
       IF q = r THEN [requests[r] EXCEPT !.line = "failed", !.disturbed = TRUE]
       ELSE [requests[q] EXCEPT !.disturbed =
               @ \/ Asks(q, requests[r].definition.name)]]
  /\ UNCHANGED <<present, shown, free>>

DatabaseFails(r) ==
  /\ requests[r].line \in {"schema", "connect"}
  /\ FailDisturbed(r)
  /\ UNCHANGED <<present, shown, virtualTables, free>>

(* Mutant of QueryFails: there is no finally.                              *)
QueryFailsOpen(r) ==
  /\ requests[r].line = "query"
  /\ FailDisturbed(r)
  /\ UNCHANGED <<present, shown, virtualTables, free>>

QueryFails(r) ==
  /\ requests[r].line = "query"
  /\ FailDisturbed(r)
  /\ Close
  /\ UNCHANGED <<present, shown, virtualTables>>

(* Administrators.  A request that found a layer keeps its entry, and sees *)
(* what it is changed to.                                                  *)
Edit(layer, definition) ==
  /\ layer \in present /\ definition \in Definitions[layer] \ {shown[layer]}
  /\ shown' = [shown EXCEPT ![layer] = definition]
  /\ UNCHANGED <<present, virtualTables, free, requests>>

AddOrRemove(layer) ==
  /\ present' = IF layer \in present THEN present \ {layer}
                ELSE present \cup {layer}
  /\ UNCHANGED <<shown, virtualTables, free, requests>>

-----------------------------------------------------------------------------
Init ==
  /\ present = Layers
  /\ shown \in {s \in [Layers -> Definition] :
                  \A layer \in Layers : s[layer] \in Definitions[layer]}
  /\ virtualTables = [name \in Names |-> NULL]
  /\ free = Connections
  /\ requests = [r \in Requests |-> NewRequest]

Step(r) ==
  \/ LookUp(r) \/ FindStore(r) \/ ReadMetadata(r) \/ ReadView(r)
  \/ CheckRegistered(r) \/ Register(r) \/ Verify(r) \/ VerifyFails(r)
  \/ GetSchema(r) \/ Connect(r) \/ Ask(r)

Failure(r) == DatabaseFailsVerify(r) \/ DatabaseFails(r) \/ QueryFails(r)

Next ==
  \/ \E r \in Requests :
       Step(r) \/ Failure(r) \/ \E layer \in Layers : Start(r, layer)
  \/ \E layer \in Layers :
       AddOrRemove(layer) \/ \E definition \in Definitions[layer] : Edit(layer, definition)

Spec == Init /\ [][Next]_vars

-----------------------------------------------------------------------------
(* Properties *)

RequestRecord ==
  [line: Lines, layer: Layers \cup {NULL}, info: BOOLEAN,
   definition: Definition \cup {NULL}, answer: Seq(Nat),
   disturbed: BOOLEAN, contested: BOOLEAN]

TypeOK ==
  /\ present \subseteq Layers
  /\ shown \in [Layers -> Definition]
  /\ virtualTables \in [Names -> Sqls \cup {NULL}]
  /\ free \in 0..Connections
  /\ requests \in [Requests -> RequestRecord]

TableOf(definition) == [definition EXCEPT !.sql = NULL]

(* However stale the store's virtual tables are, and whatever requests for *)
(* other layers do, a request lists the values of the definition it read   *)
(* from the catalog, unless one for another definition of the same name    *)
(* ran at the same time or a view hides the table of its name; and it      *)
(* fails only if that definition is bad, the catalog was changed under it, *)
(* or the database failed it or a request that registered the same name.   *)
(* A definition that is bad, or was withdrawn by such a failure, may leave *)
(* the question to a table of that name.                                   *)
UncontestedExact ==
  \A r \in Requests :
    LET this == requests[r]
    IN  ~this.contested =>
          /\ this.line = "done" =>
               \/ this.answer = Listed(this.definition)
               \/ /\ this.disturbed \/ ~Answerable(this.definition)
                  /\ this.answer = Listed(TableOf(this.definition))
          /\ this.line = "failed" /\ ~this.disturbed => ~Answerable(this.definition)

(* A definition that the database does not accept is known to the store    *)
(* only while a request is still to verify that name, in every             *)
(* interleaving: createVirtualTable takes back what cannot be read.        *)
BadViewsLeave ==
  \A name \in Names :
    virtualTables[name] \in BadSqls =>
      \E r \in Requests :
        requests[r].line = "verify" /\ requests[r].definition.name = name

(* Connections that no request is asking with are in the pool.             *)
ConnectionsComeBack ==
  free = Connections - Cardinality({r \in Requests : requests[r].line = "query"})

=============================================================================
