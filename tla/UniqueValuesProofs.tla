------------------------- MODULE UniqueValuesProofs -------------------------
(***************************************************************************)
(* Theorems about UniqueValues, for any number of requests, layers, names  *)
(* and connections: an uncontested request lists what its layer shows, and *)
(* a definition that cannot be read does not stay in the store.            *)
(***************************************************************************)
EXTENDS UniqueValues, OrderedProofs

(* The fields of a request's record.  Nothing is said of the answer.       *)
Shape(q) ==
  q \in [line: Lines, layer: Layers \cup {NULL}, info: BOOLEAN,
         definition: Definition \cup {NULL}, answer: {q.answer},
         disturbed: BOOLEAN, contested: BOOLEAN]

Carrying == {"contains", "create", "verify", "schema", "connect", "query"}
Registering == {"contains", "create", "verify"}
Asking == {"verify", "schema", "connect", "query"}

(* What a request says of the virtual tables t: it has a definition from   *)
(* the catalog while it works with the store, and unless it is contested   *)
(* or disturbed the store has that definition once it is registered.       *)
Knows(q, t) ==
  /\ Shape(q)
  /\ q.line \in {"lookup", "store", "metadata", "view"} => q.definition = NULL
  /\ q.line # "idle" => q.layer \in Layers
  /\ q.line \in Carrying => q.definition \in Definition
  /\ q.line \in Registering => q.definition.sql # NULL
  /\ q.line \in Carrying /\ q.definition.sql = NULL /\ ~q.contested =>
       t[q.definition.name] = NULL
  /\ q.line \in Asking /\ ~q.contested =>
       \/ t[q.definition.name] = q.definition.sql
       \/ t[q.definition.name] = NULL /\ (q.disturbed \/ q.definition.sql \in BadSqls)
  /\ ~q.contested =>
       /\ q.line = "done" =>
            \/ q.answer = Listed(q.definition)
            \/ /\ q.disturbed \/ ~Answerable(q.definition)
               /\ q.answer = Listed(TableOf(q.definition))
       /\ q.line = "failed" /\ ~q.disturbed => ~Answerable(q.definition)

(* Two requests at work on one name, but for different definitions.        *)
Rivals(q, r) ==
  /\ q.line \in Carrying /\ r.line \in Carrying
  /\ q.definition.name = r.definition.name /\ q.definition # r.definition

Types ==
  /\ shown \in [Layers -> Definition]
  /\ virtualTables \in [Names -> Sqls \cup {NULL}]
  /\ requests = [r \in Requests |-> requests[r]]

Contests ==
  \A q, r \in Requests :
    Rivals(requests[q], requests[r]) => requests[q].contested /\ requests[r].contested

AllKnow == \A r \in Requests : Knows(requests[r], virtualTables)

IInv == Types /\ Contests /\ AllKnow

-----------------------------------------------------------------------------
(* Definitions *)

LEMMA DefinitionParts ==
  ASSUME NEW definition \in Definition
  PROVE  /\ definition.name \in Names /\ definition.sql \in Sqls \cup {NULL}
         /\ definition # NULL
         /\ definition = [name |-> definition.name, sql |-> definition.sql]
BY UniqueValuesAssumption DEF Definition

(* A definition that the store has under its name is what the name asks.   *)
LEMMA SourceIs ==
  ASSUME NEW definition \in Definition,
         virtualTables[definition.name] = definition.sql
  PROVE  Source(definition.name) = definition
BY DefinitionParts DEF Source

LEMMA SourceOfTable ==
  ASSUME NEW definition \in Definition, virtualTables[definition.name] = NULL
  PROVE  Source(definition.name) = TableOf(definition)
<1>1. definition = [name |-> definition.name, sql |-> definition.sql]
  BY DefinitionParts
<1>2. TableOf(definition) = [name |-> definition.name, sql |-> NULL]
  BY <1>1 DEF TableOf
<1> QED
  BY <1>2 DEF Source

LEMMA BadUnanswerable ==
  ASSUME NEW definition \in Definition
  PROVE  /\ definition.sql \in BadSqls => ~Answerable(definition)
         /\ ~Answerable(definition) /\ definition.sql # NULL => definition.sql \in BadSqls
BY UniqueValuesAssumption DEF Answerable, Definition

LEMMA KnowsOf ==
  ASSUME IInv, NEW r \in Requests
  PROVE  Knows(requests[r], virtualTables) /\ Shape(requests[r])
BY DEF IInv, AllKnow, Knows

(* A request that moves on to another line keeps the rest of its locals.   *)
LEMMA GotoFields ==
  ASSUME NEW q, Shape(q), NEW line \in Lines
  PROVE  LET p == [q EXCEPT !.line = line]
         IN  /\ Shape(p)
             /\ p.line = line /\ p.layer = q.layer /\ p.definition = q.definition
             /\ p.answer = q.answer /\ p.disturbed = q.disturbed
             /\ p.contested = q.contested
BY DEF Shape

(* Steps *)

(* One request moves, and with it perhaps the virtual tables.              *)
LEMMA OneMoves ==
  ASSUME IInv, NEW r \in Requests, NEW q, Move(r, q),
         UNCHANGED shown, virtualTables' \in [Names -> Sqls \cup {NULL}],
         Knows(q, virtualTables'),
         q.line \in Carrying =>
           /\ requests[r].line \in Carrying
           /\ q.definition = requests[r].definition
           /\ q.contested = requests[r].contested,
         \A p \in Requests \ {r} : Knows(requests[p], virtualTables')
  PROVE  IInv'
<1>1. requests' = [p \in Requests |-> IF p = r THEN q ELSE requests[p]]
  BY DEF Move, IInv, Types
<1>2. Types'
  BY <1>1 DEF IInv, Types
<1>3. AllKnow'
  BY <1>1 DEF AllKnow
<1>4. ASSUME NEW p1 \in Requests, NEW p2 \in Requests,
             Rivals(requests'[p1], requests'[p2])
      PROVE  requests'[p1].contested /\ requests'[p2].contested
  <2>1. Rivals(requests[p1], requests[p2])
    BY <1>1, <1>4 DEF Rivals
  <2>2. requests[p1].contested /\ requests[p2].contested
    BY <2>1 DEF IInv, Contests
  <2>3. /\ requests'[p1].contested = requests[p1].contested
        /\ requests'[p2].contested = requests[p2].contested
    BY <1>1, <1>4 DEF Rivals
  <2> QED
    BY <2>2, <2>3
<1>5. Contests'
  BY <1>4 DEF Contests
<1> QED
  BY <1>2, <1>3, <1>5 DEF IInv

(* The same when the virtual tables stay as they are.                      *)
LEMMA OneMovesAlone ==
  ASSUME IInv, NEW r \in Requests, NEW q, Move(r, q),
         UNCHANGED <<shown, virtualTables>>, Knows(q, virtualTables),
         q.line \in Carrying =>
           /\ requests[r].line \in Carrying
           /\ q.definition = requests[r].definition
           /\ q.contested = requests[r].contested
  PROVE  IInv'
<1>1. virtualTables' \in [Names -> Sqls \cup {NULL}]
  BY DEF IInv, Types
<1>2. \A p \in Requests \ {r} : Knows(requests[p], virtualTables')
  BY DEF IInv, AllKnow
<1> QED
  BY <1>1, <1>2, OneMoves

(* A request that ends disturbed has nothing to answer for.                *)
LEMMA FailDisturbedKeeps ==
  ASSUME IInv, NEW r \in Requests, requests[r].line # "idle", FailDisturbed(r),
         UNCHANGED <<shown, virtualTables>>
  PROVE  IInv'
<1> DEFINE this == requests[r]
           q == [this EXCEPT !.line = "failed", !.disturbed = TRUE]
<1>1. Shape(this) /\ this.layer \in Layers
  BY KnowsOf DEF Knows
<1>2. /\ Shape(q) /\ q.line = "failed" /\ q.disturbed = TRUE
      /\ q.layer = this.layer
  BY <1>1 DEF Shape, Lines
<1> HIDE DEF q
<1>3. Knows(q, virtualTables)
  BY <1>1, <1>2 DEF Knows, Carrying, Registering, Asking
<1>4. Move(r, q)
  BY DEF FailDisturbed, q
<1> QED
  BY <1>2, <1>3, <1>4, OneMovesAlone DEF Carrying

LEMMA StartKeeps ==
  ASSUME IInv, NEW r \in Requests, NEW layer \in Layers, Start(r, layer)
  PROVE  IInv'
<1> DEFINE q == [NewRequest EXCEPT !.line = "lookup", !.layer = layer]
           R == [line: Lines, layer: Layers \cup {NULL}, info: BOOLEAN,
                 definition: Definition \cup {NULL}, answer: {<<>>},
                 disturbed: BOOLEAN, contested: BOOLEAN]
<1>1. NewRequest \in R
  BY DEF NewRequest, Lines
<1>2. Shape(q) /\ q.line = "lookup" /\ q.definition = NULL /\ q.layer = layer
  <2>1. q \in R /\ q.answer = <<>>
    BY <1>1 DEF Lines
  <2>2. q.line = "lookup" /\ q.definition = NULL /\ q.layer = layer
    BY DEF NewRequest
  <2> QED
    BY <2>1, <2>2 DEF Shape
<1> HIDE DEF q
<1>3. Knows(q, virtualTables)
  BY <1>2 DEF Knows, Carrying, Registering, Asking
<1>4. Move(r, q) /\ UNCHANGED <<shown, virtualTables>>
  BY DEF Start, q
<1> QED
  BY <1>2, <1>3, <1>4, OneMovesAlone DEF Carrying

LEMMA LookUpKeeps ==
  ASSUME IInv, NEW r \in Requests, LookUp(r)
  PROVE  IInv'
<1> DEFINE this == requests[r]
           info == this.layer \in present
           q == [this EXCEPT !.line = "store", !.info = info]
<1>1. this.line = "lookup" /\ Knows(this, virtualTables) /\ Shape(this)
  BY KnowsOf DEF LookUp
<1>2. /\ Shape(q) /\ q.line = "store" /\ q.layer = this.layer
      /\ q.definition = this.definition
  <2>1. info \in BOOLEAN
    OBVIOUS
  <2> HIDE DEF info
  <2> QED
    BY <1>1, <2>1 DEF Shape, Lines
<1> HIDE DEF q
<1>3. Knows(q, virtualTables)
  BY <1>1, <1>2 DEF Knows, Carrying, Registering, Asking
<1>4. Move(r, q) /\ UNCHANGED <<shown, virtualTables>>
  BY DEF LookUp, q
<1> QED
  BY <1>2, <1>3, <1>4, OneMovesAlone DEF Carrying

(* Before it has a definition a request moves on or fails.                 *)
LEMMA EarlyGotoKeeps ==
  ASSUME IInv, NEW r \in Requests, NEW line \in {"metadata", "view"},
         requests[r].line \in {"store", "metadata"},
         Goto(r, line), UNCHANGED <<shown, virtualTables>>
  PROVE  IInv'
<1> DEFINE this == requests[r]
           q == [this EXCEPT !.line = line]
<1>1. Knows(this, virtualTables) /\ Shape(this) /\ line \in Lines
  BY KnowsOf DEF Lines
<1>2. /\ Shape(q) /\ q.line = line /\ q.layer = this.layer
      /\ q.definition = this.definition
  BY <1>1, GotoFields
<1> HIDE DEF q
<1>3. Knows(q, virtualTables)
  BY <1>1, <1>2 DEF Knows, Carrying, Registering, Asking
<1>4. Move(r, q)
  BY DEF Goto, q
<1> QED
  BY <1>2, <1>3, <1>4, OneMovesAlone DEF Carrying

(* A request takes a definition from the catalog: it and its rivals are    *)
(* contested from now on.                                                  *)
LEMMA CarryKeeps ==
  ASSUME IInv, NEW r \in Requests, NEW definition \in Definition,
         requests[r].line \in {"metadata", "view"},
         NEW line \in {"contains", "schema"}, Carry(r, line, definition),
         line = "contains" <=> definition.sql # NULL,
         UNCHANGED <<shown, virtualTables>>
  PROVE  IInv'
<1> DEFINE this == requests[r]
           rivals == {q \in Requests \ {r} : /\ Asks(q, definition.name)
                                             /\ requests[q].definition # definition}
           contested == rivals # {} \/ Hidden(definition)
           new == [this EXCEPT !.line = line, !.definition = definition,
                               !.contested = contested]
           old(q) == [requests[q] EXCEPT !.contested = @ \/ q \in rivals]
<1>1. requests' = [q \in Requests |-> IF q = r THEN new ELSE old(q)]
  BY DEF Carry
<1>2. Types'
  BY <1>1 DEF IInv, Types
<1>3. Knows(this, virtualTables) /\ Shape(this) /\ this.layer \in Layers
  BY KnowsOf DEF Knows
<1>4. contested \in BOOLEAN
  OBVIOUS
<1>5. /\ Shape(new) /\ new.line = line /\ new.layer = this.layer
      /\ new.definition = definition /\ new.contested = contested
  <2> HIDE DEF contested
  <2> QED
    BY <1>3, <1>4 DEF Shape, Lines
<1>6. ASSUME NEW q \in Requests
      PROVE  /\ Shape(old(q)) /\ old(q).line = requests[q].line
             /\ old(q).layer = requests[q].layer
             /\ old(q).definition = requests[q].definition
             /\ old(q).answer = requests[q].answer
             /\ old(q).disturbed = requests[q].disturbed
             /\ old(q).contested = (requests[q].contested \/ q \in rivals)
  <2>1. Shape(requests[q]) /\ (requests[q].contested \/ q \in rivals) \in BOOLEAN
    BY KnowsOf
  <2> HIDE DEF rivals
  <2> QED
    BY <2>1 DEF Shape
<1>7. ~contested /\ definition.sql = NULL => virtualTables[definition.name] = NULL
  BY DEF Hidden
<1> HIDE DEF contested, new, old
<1>8. Knows(new, virtualTables)
  BY <1>3, <1>5, <1>7 DEF Knows, Carrying, Registering, Asking
<1>9. ASSUME NEW q \in Requests
      PROVE  Knows(old(q), virtualTables)
  <2>1. Knows(requests[q], virtualTables)
    BY KnowsOf
  <2> HIDE DEF rivals
  <2> QED
    BY <2>1, <1>6 DEF Knows
<1>10. AllKnow'
  BY <1>1, <1>8, <1>9 DEF AllKnow
<1>11. ASSUME NEW q \in Requests \ {r}, old(q).line \in Carrying,
              old(q).definition.name = definition.name,
              old(q).definition # definition
       PROVE  old(q).contested /\ contested
  <2>1. /\ requests[q].line \in Carrying
        /\ requests[q].definition.name = definition.name
        /\ requests[q].definition # definition
    BY <1>6, <1>11
  <2>2. requests[q].definition \in Definition
    BY <2>1, KnowsOf DEF Knows
  <2>3. requests[q].definition # NULL
    BY <2>2, DefinitionParts
  <2>4. q \in rivals
    BY <2>1, <2>3 DEF Asks, Carrying, Ended
  <2> QED
    BY <2>4, <1>6 DEF contested
<1>12. ASSUME NEW q1 \in Requests, NEW q2 \in Requests,
              Rivals(requests'[q1], requests'[q2])
       PROVE  requests'[q1].contested /\ requests'[q2].contested
  <2>1. CASE q1 = r /\ q2 = r
    BY <2>1, <1>12 DEF Rivals
  <2>2. CASE q1 = r /\ q2 # r
    <3>1. /\ old(q2).line \in Carrying /\ old(q2).definition # definition
          /\ old(q2).definition.name = definition.name
      BY <2>2, <1>1, <1>5, <1>12 DEF Rivals
    <3> QED
      BY <2>2, <3>1, <1>1, <1>5, <1>11
  <2>3. CASE q1 # r /\ q2 = r
    <3>1. /\ old(q1).line \in Carrying /\ old(q1).definition # definition
          /\ old(q1).definition.name = definition.name
      BY <2>3, <1>1, <1>5, <1>12 DEF Rivals
    <3> QED
      BY <2>3, <3>1, <1>1, <1>5, <1>11
  <2>4. CASE q1 # r /\ q2 # r
    <3>1. Rivals(old(q1), old(q2))
      BY <2>4, <1>1, <1>12
    <3>2. Rivals(requests[q1], requests[q2])
      BY <3>1, <1>6 DEF Rivals
    <3>3. requests[q1].contested /\ requests[q2].contested
      BY <3>2 DEF IInv, Contests
    <3> QED
      BY <2>4, <3>3, <1>1, <1>6
  <2> QED
    BY <2>1, <2>2, <2>3, <2>4
<1>13. Contests'
  BY <1>12 DEF Contests
<1> QED
  BY <1>2, <1>10, <1>13 DEF IInv

(* A request for a definition goes on to the next line, with all it has.   *)
LEMMA GotoKeeps ==
  ASSUME IInv, NEW r \in Requests, NEW line \in {"create", "schema", "connect", "query"},
         requests[r].line \in Carrying, Goto(r, line),
         line = "create" => requests[r].line = "contains",
         requests[r].line \in Asking
           \/ line = "create"
           \/ Registered(requests[r].definition),
         UNCHANGED <<shown, virtualTables>>
  PROVE  IInv'
<1> DEFINE this == requests[r]
           q == [this EXCEPT !.line = line]
<1>1. Knows(this, virtualTables) /\ Shape(this) /\ line \in Lines
  BY KnowsOf DEF Lines
<1>2. /\ Shape(q) /\ q.line = line /\ q.layer = this.layer
      /\ q.definition = this.definition /\ q.disturbed = this.disturbed
      /\ q.contested = this.contested
  BY <1>1, GotoFields
<1> HIDE DEF q
<1>3. Knows(q, virtualTables)
  BY <1>1, <1>2 DEF Knows, Carrying, Registering, Asking, Registered
<1>4. Move(r, q)
  BY DEF Goto, q
<1> QED
  BY <1>2, <1>3, <1>4, OneMovesAlone

(* Carrying a definition of one name, two requests of which one is not     *)
(* contested carry the same.                                               *)
LEMMA SameDefinition ==
  ASSUME IInv, NEW p \in Requests, NEW r \in Requests,
         requests[p].line \in Carrying, requests[r].line \in Carrying,
         ~requests[p].contested,
         requests[p].definition.name = requests[r].definition.name
  PROVE  requests[p].definition = requests[r].definition
BY DEF IInv, Contests, Rivals

(* A definition is put or taken back, under the name of a request that has *)
(* a query to register.                                                    *)
LEMMA OthersKnow ==
  ASSUME IInv, NEW r \in Requests, requests[r].line \in Registering,
         NEW sql \in {requests[r].definition.sql, NULL},
         virtualTables' = [virtualTables EXCEPT ![requests[r].definition.name] = sql],
         NEW p \in Requests,
         sql = NULL /\ requests[p].line \in Asking
                    /\ requests[p].definition = requests[r].definition =>
           requests[p].disturbed \/ requests[p].definition.sql \in BadSqls
  PROVE  Knows(requests[p], virtualTables')
<1> DEFINE this == requests[r]
           that == requests[p]
<1>1. Knows(this, virtualTables) /\ Knows(that, virtualTables)
  BY KnowsOf
<1>2. /\ this.definition \in Definition /\ this.definition.sql # NULL
      /\ this.line \in Carrying
  BY <1>1 DEF Knows, Carrying, Registering
<1>3. \A name \in Names :
        virtualTables'[name] = IF name = this.definition.name THEN sql
                               ELSE virtualTables[name]
  BY DEF IInv, Types
<1>4. CASE that.line \notin Carrying \/ that.contested
  BY <1>1, <1>4 DEF Knows, Carrying, Asking
<1>5. CASE that.line \in Carrying /\ ~that.contested
  <2>1. that.definition \in Definition /\ that.definition.name \in Names
    BY <1>1, <1>5, DefinitionParts DEF Knows
  <2>2. CASE that.definition.name # this.definition.name
    <3>1. virtualTables'[that.definition.name] = virtualTables[that.definition.name]
      BY <1>3, <2>1, <2>2
    <3> QED
      BY <1>1, <3>1 DEF Knows
  <2>3. CASE that.definition.name = this.definition.name
    <3>1. that.definition = this.definition
      BY <1>2, <1>5, <2>3, SameDefinition
    <3>2. virtualTables'[that.definition.name] = sql
      BY <1>3, <2>1, <2>3
    <3> QED
      BY <1>1, <1>2, <1>5, <3>1, <3>2 DEF Knows
  <2> QED
    BY <2>2, <2>3
<1> QED
  BY <1>4, <1>5

LEMMA RegisterKeeps ==
  ASSUME IInv, NEW r \in Requests, Register(r)
  PROVE  IInv'
<1> DEFINE this == requests[r]
           q == [this EXCEPT !.line = "verify"]
<1>1. /\ this.line = "create" /\ Put(this.definition) /\ Move(r, q)
      /\ UNCHANGED shown
  BY DEF Register, Goto
<1>2. Knows(this, virtualTables) /\ Shape(this) /\ "verify" \in Lines
  BY KnowsOf DEF Lines
<1>3. /\ Shape(q) /\ q.line = "verify" /\ q.layer = this.layer
      /\ q.definition = this.definition /\ q.contested = this.contested
  BY <1>2, GotoFields
<1>4. this.definition \in Definition /\ this.definition.sql # NULL
  BY <1>1, <1>2 DEF Knows, Carrying, Registering
<1>5. /\ virtualTables' \in [Names -> Sqls \cup {NULL}]
      /\ virtualTables'[this.definition.name] = this.definition.sql
  BY <1>1, <1>4, DefinitionParts DEF Put, IInv, Types
<1> HIDE DEF q
<1>6. Knows(q, virtualTables')
  BY <1>1, <1>2, <1>3, <1>4, <1>5 DEF Knows, Carrying, Registering, Asking
<1>7. \A p \in Requests \ {r} : Knows(requests[p], virtualTables')
  BY <1>1, <1>4, OthersKnow DEF Put, Registering
<1> QED
  BY <1>1, <1>3, <1>5, <1>6, <1>7, OneMoves DEF Carrying

(* A name is taken back because what it stands for cannot be read: that is *)
(* bad, or somebody contests it.                                           *)
LEMMA VerifyFailsKeeps ==
  ASSUME IInv, NEW r \in Requests, VerifyFails(r)
  PROVE  IInv'
<1> DEFINE this == requests[r]
           q == [this EXCEPT !.line = "failed"]
<1>1. /\ this.line = "verify" /\ Move(r, q) /\ UNCHANGED shown
      /\ ~Answerable(Source(this.definition.name))
      /\ virtualTables' = [virtualTables EXCEPT ![this.definition.name] = NULL]
  BY DEF VerifyFails, Fail, Goto
<1>2. Knows(this, virtualTables) /\ Shape(this) /\ "failed" \in Lines
  BY KnowsOf DEF Lines
<1>3. /\ Shape(q) /\ q.line = "failed" /\ q.layer = this.layer
      /\ q.definition = this.definition /\ q.contested = this.contested
      /\ q.disturbed = this.disturbed
  BY <1>2, GotoFields
<1>4. this.definition \in Definition /\ this.definition.sql # NULL
  BY <1>1, <1>2 DEF Knows, Carrying, Registering
<1>5. virtualTables' \in [Names -> Sqls \cup {NULL}]
  BY <1>1 DEF IInv, Types
<1>6. ASSUME NEW p \in Requests, requests[p].line \in Asking,
             ~requests[p].contested, requests[p].definition = this.definition
      PROVE  requests[p].disturbed \/ this.definition.sql \in BadSqls
  <2>1. Knows(requests[p], virtualTables)
    BY KnowsOf
  <2>2. CASE virtualTables[this.definition.name] = this.definition.sql
    <3>1. Source(this.definition.name) = this.definition
      BY <1>4, <2>2, SourceIs
    <3>2. ~Answerable(this.definition)
      BY <1>1, <3>1
    <3> QED
      BY <1>4, <3>2, BadUnanswerable
  <2> QED
    BY <1>6, <2>1, <2>2 DEF Knows
<1> HIDE DEF q
<1>7. Knows(q, virtualTables')
  <2>1. ~this.contested /\ ~this.disturbed => ~Answerable(this.definition)
    BY <1>1, <1>4, <1>6, BadUnanswerable DEF Asking
  <2> QED
    BY <1>1, <1>2, <1>3, <2>1 DEF Knows, Carrying, Registering, Asking
<1>8. ASSUME NEW p \in Requests \ {r}
      PROVE  Knows(requests[p], virtualTables')
  <2>1. CASE requests[p].contested \/ requests[p].line \notin Asking
             \/ requests[p].definition # this.definition
    <3>1. CASE requests[p].definition # this.definition \/ requests[p].line \notin Asking
      BY <1>1, <3>1, OthersKnow DEF Registering
    <3>2. CASE requests[p].contested
      <4>1. Knows(requests[p], virtualTables)
        BY KnowsOf
      <4> QED
        BY <3>2, <4>1 DEF Knows
    <3> QED
      BY <2>1, <3>1, <3>2
  <2>2. CASE ~requests[p].contested /\ requests[p].line \in Asking
             /\ requests[p].definition = this.definition
    BY <1>1, <1>6, <2>2, OthersKnow DEF Registering
  <2> QED
    BY <2>1, <2>2, KnowsOf DEF Shape
<1> QED
  BY <1>1, <1>3, <1>5, <1>7, <1>8, OneMoves DEF Carrying

(* The database fails a registration: whoever asks for that name is        *)
(* disturbed.                                                              *)
LEMMA DatabaseFailsVerifyKeeps ==
  ASSUME IInv, NEW r \in Requests, DatabaseFailsVerify(r)
  PROVE  IInv'
<1> DEFINE this == requests[r]
           name == this.definition.name
           new  == [this EXCEPT !.line = "failed", !.disturbed = TRUE]
           old(p) == [requests[p] EXCEPT !.disturbed = @ \/ Asks(p, name)]
<1>1. /\ this.line = "verify" /\ UNCHANGED shown
      /\ virtualTables' = [virtualTables EXCEPT ![name] = NULL]
      /\ requests' = [p \in Requests |-> IF p = r THEN new ELSE old(p)]
  BY DEF DatabaseFailsVerify
<1>2. Types'
  BY <1>1 DEF IInv, Types
<1>3. Knows(this, virtualTables) /\ Shape(this) /\ this.layer \in Layers
  BY <1>1, KnowsOf DEF Knows
<1>4. /\ Shape(new) /\ new.line = "failed" /\ new.layer = this.layer
      /\ new.disturbed = TRUE
  BY <1>3 DEF Shape, Lines
<1>5. ASSUME NEW p \in Requests
      PROVE  /\ Shape(old(p)) /\ old(p).line = requests[p].line
             /\ old(p).layer = requests[p].layer
             /\ old(p).definition = requests[p].definition
             /\ old(p).answer = requests[p].answer
             /\ old(p).contested = requests[p].contested
             /\ old(p).disturbed = (requests[p].disturbed \/ Asks(p, name))
  <2> DEFINE disturbed == requests[p].disturbed \/ Asks(p, name)
  <2>1. Shape(requests[p]) /\ disturbed \in BOOLEAN
    BY KnowsOf
  <2> HIDE DEF disturbed
  <2>2. old(p) = [requests[p] EXCEPT !.disturbed = disturbed]
    BY <2>1 DEF disturbed, Shape
  <2> HIDE DEF old
  <2>3. /\ Shape(old(p)) /\ old(p).line = requests[p].line
        /\ old(p).layer = requests[p].layer
        /\ old(p).definition = requests[p].definition
        /\ old(p).answer = requests[p].answer
        /\ old(p).contested = requests[p].contested
        /\ old(p).disturbed = disturbed
    BY <2>1, <2>2 DEF Shape
  <2> QED
    BY <2>3 DEF disturbed
<1> HIDE DEF new, old
<1>6. Knows(new, virtualTables')
  BY <1>3, <1>4 DEF Knows, Carrying, Registering, Asking
<1>7. this.definition \in Definition /\ this.line \in Registering
  BY <1>1, <1>3 DEF Knows, Carrying, Registering
<1>8. \A n \in Names :
        virtualTables'[n] = IF n = name THEN NULL ELSE virtualTables[n]
  BY <1>1 DEF IInv, Types
<1>9. ASSUME NEW p \in Requests
      PROVE  Knows(old(p), virtualTables')
  <2>1. Knows(requests[p], virtualTables)
    BY KnowsOf
  <2>2. CASE requests[p].line \in Carrying
    <3>1. requests[p].definition \in Definition
      BY <2>1, <2>2 DEF Knows
    <3>2. requests[p].definition.name \in Names /\ requests[p].definition # NULL
      BY <3>1, DefinitionParts
    <3>3. requests[p].definition.name = name => old(p).disturbed
      BY <2>2, <3>2, <1>5 DEF Asks, Carrying, Ended
    <3>4. virtualTables'[requests[p].definition.name] =
            IF requests[p].definition.name = name THEN NULL
            ELSE virtualTables[requests[p].definition.name]
      BY <3>2, <1>8
    <3> QED
      BY <2>1, <2>2, <3>3, <3>4, <1>5 DEF Knows, Carrying, Registering, Asking
  <2>3. CASE requests[p].line \notin Carrying
    BY <2>1, <2>3, <1>5 DEF Knows, Carrying, Registering, Asking
  <2> QED
    BY <2>2, <2>3
<1>10. AllKnow'
  BY <1>1, <1>6, <1>9 DEF AllKnow
<1>11. ASSUME NEW p1 \in Requests, NEW p2 \in Requests,
              Rivals(requests'[p1], requests'[p2])
       PROVE  requests'[p1].contested /\ requests'[p2].contested
  <2>1. p1 # r /\ p2 # r
    BY <1>1, <1>4, <1>11 DEF Rivals, Carrying
  <2>2. Rivals(requests[p1], requests[p2])
    BY <1>1, <1>5, <1>11, <2>1 DEF Rivals
  <2>3. requests[p1].contested /\ requests[p2].contested
    BY <2>2 DEF IInv, Contests
  <2> QED
    BY <1>1, <1>5, <2>1, <2>3
<1>12. Contests'
  BY <1>11 DEF Contests
<1> QED
  BY <1>2, <1>10, <1>12 DEF IInv

(* What an uncontested and undisturbed request asks for, if it cannot be   *)
(* answered, is bad.                                                       *)
LEMMA UnanswerableIsBad ==
  ASSUME IInv, NEW r \in Requests, requests[r].line \in {"schema", "query"},
         ~requests[r].contested, ~requests[r].disturbed,
         ~Answerable(Source(requests[r].definition.name))
  PROVE  ~Answerable(requests[r].definition)
<1> DEFINE this == requests[r]
<1>1. Knows(this, virtualTables)
  BY KnowsOf
<1>2. this.definition \in Definition
  BY <1>1 DEF Knows, Carrying
<1>3. CASE virtualTables[this.definition.name] = this.definition.sql
  BY <1>2, <1>3, SourceIs
<1>4. CASE this.definition.sql \in BadSqls
  BY <1>2, <1>4, BadUnanswerable
<1> QED
  BY <1>1, <1>3, <1>4 DEF Knows, Asking

LEMMA CarriedFailKeeps ==
  ASSUME IInv, NEW r \in Requests, requests[r].line \in {"schema", "query"},
         ~Answerable(Source(requests[r].definition.name)), Fail(r),
         UNCHANGED <<shown, virtualTables>>
  PROVE  IInv'
<1> DEFINE this == requests[r]
           q == [this EXCEPT !.line = "failed"]
<1>1. Knows(this, virtualTables) /\ Shape(this) /\ "failed" \in Lines
  BY KnowsOf DEF Lines
<1>2. /\ Shape(q) /\ q.line = "failed" /\ q.layer = this.layer
      /\ q.definition = this.definition /\ q.disturbed = this.disturbed
      /\ q.contested = this.contested
  BY <1>1, GotoFields
<1> HIDE DEF q
<1>3. Knows(q, virtualTables)
  BY <1>1, <1>2, UnanswerableIsBad DEF Knows, Carrying, Registering, Asking
<1>4. Move(r, q)
  BY DEF Fail, Goto, q
<1> QED
  BY <1>2, <1>3, <1>4, OneMovesAlone DEF Carrying

(* The answer is of what the name stands for: the request's definition, or *)
(* the table of that name.                                                 *)
LEMMA AnswerKeeps ==
  ASSUME IInv, NEW r \in Requests, requests[r].line = "query",
         Move(r, [requests[r] EXCEPT !.line = "done",
                    !.answer = Listed(Source(requests[r].definition.name))]),
         UNCHANGED <<shown, virtualTables>>
  PROVE  IInv'
<1> DEFINE this == requests[r]
           source == Source(this.definition.name)
           answer == Listed(source)
           q == [this EXCEPT !.line = "done", !.answer = answer]
<1>1. Knows(this, virtualTables) /\ Shape(this)
  BY KnowsOf
<1>2. this.definition \in Definition
  BY <1>1 DEF Knows, Carrying
<1>3. ~this.contested =>
        \/ answer = Listed(this.definition)
        \/ /\ this.disturbed \/ ~Answerable(this.definition)
           /\ answer = Listed(TableOf(this.definition))
  <2>1. CASE virtualTables[this.definition.name] = this.definition.sql
    BY <1>2, <2>1, SourceIs
  <2>2. CASE /\ virtualTables[this.definition.name] = NULL
             /\ this.disturbed \/ this.definition.sql \in BadSqls
    BY <1>2, <2>2, SourceOfTable, BadUnanswerable
  <2> QED
    BY <1>1, <2>1, <2>2 DEF Knows, Asking
<1> HIDE DEF answer
<1>4. /\ Shape(q) /\ q.line = "done" /\ q.layer = this.layer
      /\ q.definition = this.definition /\ q.disturbed = this.disturbed
      /\ q.contested = this.contested /\ q.answer = answer
  BY <1>1 DEF Shape, Lines
<1>5. Move(r, q)
  BY DEF answer
<1> HIDE DEF q
<1>6. Knows(q, virtualTables)
  BY <1>1, <1>3, <1>4 DEF Knows, Carrying, Registering, Asking
<1> QED
  BY <1>4, <1>5, <1>6, OneMovesAlone DEF Carrying

(* What happens outside the requests.                                      *)
LEMMA AdministratorsKeep ==
  ASSUME IInv, shown' \in [Layers -> Definition],
         UNCHANGED <<virtualTables, requests>>
  PROVE  IInv'
BY DEF IInv, Types, Contests, AllKnow

LEMMA StepKeeps ==
  ASSUME IInv, NEW r \in Requests, Step(r) \/ Failure(r)
  PROVE  IInv'
<1> DEFINE this == requests[r]
<1>1. Knows(this, virtualTables)
  BY KnowsOf
<1>2. CASE LookUp(r)
  BY <1>2, LookUpKeeps
<1>3. CASE FindStore(r)
  BY <1>3, EarlyGotoKeeps, FailDisturbedKeeps DEF FindStore
<1>4. this.layer \in Layers => shown[this.layer] \in Definition
  BY DEF IInv, Types
<1>5. CASE ReadMetadata(r)
  <2>1. this.layer \in Layers
    BY <1>1, <1>5 DEF Knows, ReadMetadata
  <2> QED
    BY <1>4, <1>5, <2>1, EarlyGotoKeeps, CarryKeeps DEF ReadMetadata
<1>6. CASE ReadView(r)
  <2>1. this.layer \in Layers
    BY <1>1, <1>6 DEF Knows, ReadView
  <2> QED
    BY <1>4, <1>6, <2>1, FailDisturbedKeeps, CarryKeeps DEF ReadView
<1>7. CASE CheckRegistered(r)
  BY <1>7, GotoKeeps DEF CheckRegistered, Carrying
<1>8. CASE Register(r)
  BY <1>8, RegisterKeeps
<1>9. CASE Verify(r)
  BY <1>9, GotoKeeps DEF Verify, Carrying, Asking
<1>10. CASE VerifyFails(r)
  BY <1>10, VerifyFailsKeeps
<1>11. CASE GetSchema(r)
  BY <1>11, GotoKeeps, CarriedFailKeeps DEF GetSchema, Carrying, Asking
<1>12. CASE Connect(r)
  BY <1>12, GotoKeeps DEF Connect, Carrying, Asking
<1>13. CASE Ask(r)
  BY <1>13, AnswerKeeps, CarriedFailKeeps DEF Ask
<1>14. CASE DatabaseFailsVerify(r)
  BY <1>14, DatabaseFailsVerifyKeeps
<1>15. CASE DatabaseFails(r) \/ QueryFails(r)
  BY <1>15, FailDisturbedKeeps DEF DatabaseFails, QueryFails
<1> QED
  BY <1>2, <1>3, <1>5, <1>6, <1>7, <1>8, <1>9, <1>10, <1>11, <1>12, <1>13,
     <1>14, <1>15 DEF Step, Failure

(* A request that is to verify its name does so, or is still to do it; the *)
(* others can only contest or disturb it.                                  *)
LEMMA OthersLeave ==
  ASSUME IInv, NEW r \in Requests, NEW q \in Requests \ {r},
         Step(q) \/ Failure(q) \/ \E layer \in Layers : Start(q, layer)
  PROVE  /\ requests'[r].line = requests[r].line
         /\ requests'[r].definition = requests[r].definition
<1>1. Shape(requests[r]) /\ requests = [p \in Requests |-> requests[p]]
  BY KnowsOf DEF IInv, Types
<1>2. CASE \E record : Move(q, record)
  BY <1>1, <1>2 DEF Move
<1>3. ASSUME NEW line, NEW definition, Carry(q, line, definition)
      PROVE  /\ requests'[r].line = requests[r].line
             /\ requests'[r].definition = requests[r].definition
  <2>1. \E rivals : requests'[r] = [requests[r] EXCEPT !.contested = @ \/ r \in rivals]
    BY <1>3 DEF Carry
  <2> QED
    BY <1>1, <2>1 DEF Shape
<1>4. CASE DatabaseFailsVerify(q)
  <2>1. requests'[r] = [requests[r] EXCEPT
                          !.disturbed = @ \/ Asks(r, requests[q].definition.name)]
    BY <1>4 DEF DatabaseFailsVerify
  <2> QED
    BY <1>1, <2>1 DEF Shape
<1>5. CASE \E line, definition : Carry(q, line, definition)
  BY <1>3, <1>5
<1>6. CASE LookUp(q) \/ FindStore(q) \/ ReadMetadata(q) \/ ReadView(q)
  BY <1>2, <1>5, <1>6
     DEF LookUp, FindStore, ReadMetadata, ReadView, Goto, FailDisturbed
<1>7. CASE CheckRegistered(q) \/ Register(q) \/ Verify(q) \/ VerifyFails(q)
  BY <1>2, <1>7 DEF CheckRegistered, Register, Verify, VerifyFails, Fail, Goto
<1>8. CASE GetSchema(q) \/ Connect(q) \/ Ask(q) \/ DatabaseFails(q) \/ QueryFails(q)
  BY <1>2, <1>8
     DEF GetSchema, Connect, Ask, DatabaseFails, QueryFails, FailDisturbed, Fail, Goto
<1>9. CASE \E layer \in Layers : Start(q, layer)
  BY <1>2, <1>9 DEF Start
<1> QED
  BY <1>4, <1>6, <1>7, <1>8, <1>9 DEF Step, Failure

LEMMA VerifyingStays ==
  ASSUME IInv, [Next]_vars, NEW r \in Requests, requests[r].line = "verify"
  PROVE  \/ /\ requests'[r].line = "verify"
            /\ requests'[r].definition = requests[r].definition
         \/ Verify(r) \/ VerifyFails(r) \/ DatabaseFailsVerify(r)
<1>1. CASE UNCHANGED requests
  BY <1>1
<1>2. ASSUME NEW q \in Requests \ {r},
             Step(q) \/ Failure(q) \/ \E layer \in Layers : Start(q, layer)
      PROVE  /\ requests'[r].line = "verify"
             /\ requests'[r].definition = requests[r].definition
  BY <1>2, OthersLeave
<1>3. ASSUME Step(r) \/ Failure(r) \/ \E layer \in Layers : Start(r, layer)
      PROVE  Verify(r) \/ VerifyFails(r) \/ DatabaseFailsVerify(r)
  BY <1>3 DEF Step, Failure, Start, Ended, LookUp, FindStore, ReadMetadata,
              ReadView, CheckRegistered, Register, GetSchema, Connect, Ask,
              DatabaseFails, QueryFails
<1> QED
  BY <1>1, <1>2, <1>3 DEF Next, vars, AddOrRemove, Edit

-----------------------------------------------------------------------------
(* Theorems *)

LEMMA InitOK == Init => IInv
<1> SUFFICES ASSUME Init
             PROVE  IInv
  OBVIOUS
<1>1. Types
  BY DEF Init, Types
<1>2. NewRequest.line = "idle" /\ Shape(NewRequest)
  BY DEF NewRequest, Shape, Lines
<1>3. Knows(NewRequest, virtualTables)
  BY <1>2 DEF Knows, Carrying, Registering, Asking
<1>4. AllKnow
  BY <1>3 DEF Init, AllKnow
<1>5. Contests
  BY <1>2 DEF Init, Contests, Rivals, Carrying
<1> QED
  BY <1>1, <1>4, <1>5 DEF IInv

LEMMA NextKeeps == IInv /\ [Next]_vars => IInv'
<1> SUFFICES ASSUME IInv, [Next]_vars
             PROVE  IInv'
  OBVIOUS
<1>1. CASE UNCHANGED vars
  BY <1>1, AdministratorsKeep DEF vars, IInv, Types
<1>2. ASSUME NEW r \in Requests, Step(r) \/ Failure(r)
      PROVE  IInv'
  BY <1>2, StepKeeps
<1>3. ASSUME NEW r \in Requests, NEW layer \in Layers, Start(r, layer)
      PROVE  IInv'
  BY <1>3, StartKeeps
<1>4. ASSUME NEW layer \in Layers, AddOrRemove(layer)
      PROVE  IInv'
  BY <1>4, AdministratorsKeep DEF AddOrRemove, IInv, Types
<1>5. ASSUME NEW layer \in Layers, NEW definition \in Definitions[layer],
             Edit(layer, definition)
      PROVE  IInv'
  <2>1. definition \in Definition
    BY UniqueValuesAssumption
  <2>2. shown' \in [Layers -> Definition]
    BY <1>5, <2>1 DEF Edit, IInv, Types
  <2> QED
    BY <1>5, <2>2, AdministratorsKeep DEF Edit
<1> QED
  BY <1>1, <1>2, <1>3, <1>4, <1>5 DEF Next

LEMMA Inductive == Spec => []IInv
  BY InitOK, NextKeeps, PTL DEF Spec

(* Whatever requests run together and however the store and the catalog    *)
(* differ, an uncontested request lists the values of the definition it    *)
(* read, and fails only for a reason.                                      *)
THEOREM UncontestedAlwaysExact == Spec => []UncontestedExact
<1>1. IInv => UncontestedExact
  BY DEF IInv, AllKnow, Knows, UncontestedExact
<1> QED
  BY <1>1, Inductive, PTL

(* A definition that the database does not accept is in the store only     *)
(* while the request that put it, or another one, is still to verify it.   *)
THEOREM BadViewsAlwaysLeave == Spec => []BadViewsLeave
<1>1. Init => BadViewsLeave
  BY UniqueValuesAssumption DEF Init, BadViewsLeave
<1>2. IInv /\ BadViewsLeave /\ [Next]_vars => BadViewsLeave'
  <2> SUFFICES ASSUME IInv, BadViewsLeave, [Next]_vars,
                      NEW name \in Names, virtualTables'[name] \in BadSqls
               PROVE  \E r \in Requests : /\ requests'[r].line = "verify"
                                          /\ requests'[r].definition.name = name
    BY DEF BadViewsLeave
  <2> DEFINE Verifies(r) == requests[r].line = "verify" /\ requests[r].definition.name = name
  <2>1. ASSUME NEW r \in Requests, Register(r), requests[r].definition.name = name
        PROVE  requests'[r].line = "verify" /\ requests'[r].definition.name = name
    <3>1. Shape(requests[r])
      BY KnowsOf
    <3>2. requests'[r] = [requests[r] EXCEPT !.line = "verify"]
      BY <2>1 DEF Register, Goto, Move, IInv, Types
    <3> QED
      BY <2>1, <3>1, <3>2 DEF Shape
  <2>2. CASE virtualTables[name] \notin BadSqls
    <3>1. ASSUME NEW r \in Requests, Step(r) \/ Failure(r)
          PROVE  Register(r) /\ requests[r].definition.name = name
      <4>1. virtualTables'[name] # virtualTables[name] /\ virtualTables'[name] # NULL
        BY <2>2, UniqueValuesAssumption
      <4>2. virtualTables \in [Names -> Sqls \cup {NULL}]
        BY DEF IInv, Types
      <4> QED
        BY <3>1, <4>1, <4>2
           DEF Step, Failure, LookUp, FindStore, ReadMetadata, ReadView,
               CheckRegistered, Register, Put, Verify, VerifyFails, GetSchema,
               Connect, Ask, DatabaseFailsVerify, DatabaseFails, QueryFails
    <3>2. \E r \in Requests : Step(r) \/ Failure(r)
      BY <2>2 DEF Next, vars, Start, AddOrRemove, Edit
    <3> QED
      BY <2>1, <3>1, <3>2
  <2>3. CASE virtualTables[name] \in BadSqls
    <3>1. PICK r \in Requests : Verifies(r)
      BY <2>3 DEF BadViewsLeave
    <3>2. CASE requests'[r].line = "verify" /\ requests'[r].definition = requests[r].definition
      BY <3>1, <3>2
    <3>3. CASE Verify(r) \/ VerifyFails(r) \/ DatabaseFailsVerify(r)
      <4>1. ~Answerable(Source(name))
        BY <2>3, UniqueValuesAssumption DEF Answerable, Source
      <4>2. virtualTables'[name] = NULL
        BY <3>1, <3>3, <4>1 DEF Verify, VerifyFails, DatabaseFailsVerify, IInv, Types
      <4> QED
        BY <4>2, UniqueValuesAssumption
    <3>4. /\ requests'[r].line = "verify" /\ requests'[r].definition = requests[r].definition
          \/ Verify(r) \/ VerifyFails(r) \/ DatabaseFailsVerify(r)
      BY <3>1, VerifyingStays
    <3> QED
      BY <3>2, <3>3, <3>4
  <2> QED
    BY <2>2, <2>3
<1> QED
  BY <1>1, <1>2, Inductive, PTL DEF Spec

-----------------------------------------------------------------------------
(* Connections *)

Querying == {r \in Requests : requests[r].line = "query"}

ConnectionsInv == free \in Int /\ ConnectionsComeBack

(* What a request's line is after it moved.                                *)
LEMMA LineOf ==
  ASSUME IInv, NEW r \in Requests, NEW line \in Lines, Goto(r, line)
  PROVE  requests'[r].line = line
<1>1. Shape(requests[r]) /\ requests = [p \in Requests |-> requests[p]]
  BY KnowsOf DEF IInv, Types
<1> QED
  BY <1>1 DEF Goto, Move, Shape

(* The same for one that the surroundings make fail.                       *)
LEMMA FailedLine ==
  ASSUME IInv, NEW r \in Requests, FailDisturbed(r)
  PROVE  requests'[r].line = "failed"
<1>1. Shape(requests[r]) /\ requests = [p \in Requests |-> requests[p]]
  BY KnowsOf DEF IInv, Types
<1> QED
  BY <1>1 DEF FailDisturbed, Move, Shape

(* The same for one that read its definition.                              *)
LEMMA CarryLine ==
  ASSUME IInv, NEW r \in Requests, NEW line \in Lines, NEW definition,
         Carry(r, line, definition)
  PROVE  requests'[r].line = line
<1>1. Shape(requests[r])
  BY KnowsOf
<1>2. \E contested : requests'[r] = [requests[r] EXCEPT !.line = line,
                       !.definition = definition, !.contested = contested]
  BY DEF Carry
<1> QED
  BY <1>1, <1>2 DEF Shape

(* A step takes a connection and begins to query, or stops and gives it    *)
(* back, or does neither.                                                  *)
LEMMA ConnectionSteps ==
  ASSUME IInv, NEW r \in Requests,
         Step(r) \/ Failure(r) \/ \E layer \in Layers : Start(r, layer)
  PROVE  \/ /\ requests[r].line # "query" /\ requests'[r].line = "query"
            /\ free' = free - 1
         \/ /\ requests[r].line = "query" /\ requests'[r].line # "query"
            /\ free' = free + 1
         \/ /\ requests[r].line # "query" /\ requests'[r].line # "query"
            /\ free' = free
<1>1. Shape(requests[r]) /\ requests = [p \in Requests |-> requests[p]]
  BY KnowsOf DEF IInv, Types
<1>2. CASE LookUp(r)
  BY <1>1, <1>2 DEF LookUp, Move, Shape
<1>3. CASE FindStore(r)
  <2>1. requests'[r].line \in {"metadata", "failed"}
    BY <1>3, LineOf, FailedLine DEF FindStore, Lines
  <2> QED BY <1>3, <2>1 DEF FindStore
<1>4. CASE ReadMetadata(r)
  <2>1. requests'[r].line \in {"schema", "view"}
    <3>1. CASE Carry(r, "schema", shown[requests[r].layer])
      <4>1. "schema" \in Lines
        BY DEF Lines
      <4>2. requests'[r].line = "schema"
        BY <3>1, <4>1, CarryLine, Zenon
      <4> QED BY <4>2
    <3>2. CASE Goto(r, "view")
      <4>1. requests'[r].line = "view"
        BY <3>2, LineOf DEF Lines
      <4> QED BY <4>1
    <3> QED BY <1>4, <3>1, <3>2 DEF ReadMetadata
  <2> QED BY <1>4, <2>1 DEF ReadMetadata
<1>5. CASE ReadView(r)
  <2>1. requests'[r].line \in {"contains", "failed"}
    <3>1. CASE Carry(r, "contains", shown[requests[r].layer])
      <4>1. "contains" \in Lines
        BY DEF Lines
      <4>2. requests'[r].line = "contains"
        BY <3>1, <4>1, CarryLine, Zenon
      <4> QED BY <4>2
    <3>2. CASE FailDisturbed(r)
      <4>1. requests'[r].line = "failed"
        BY <3>2, FailedLine
      <4> QED BY <4>1
    <3> QED BY <1>5, <3>1, <3>2 DEF ReadView
  <2> QED BY <1>5, <2>1 DEF ReadView
<1>6. CASE CheckRegistered(r)
  <2>1. requests'[r].line \in {"schema", "create"}
    BY <1>6, LineOf DEF CheckRegistered, Lines
  <2> QED BY <1>6, <2>1 DEF CheckRegistered
<1>7. CASE Register(r)
  <2>1. requests'[r].line = "verify"
    BY <1>7, LineOf DEF Register, Lines
  <2> QED BY <1>7, <2>1 DEF Register
<1>8. CASE Verify(r) \/ VerifyFails(r)
  <2>1. requests'[r].line \in {"schema", "failed"}
    BY <1>8, LineOf DEF Verify, VerifyFails, Fail, Lines
  <2> QED BY <1>8, <2>1 DEF Verify, VerifyFails
<1>9. CASE GetSchema(r)
  <2>1. requests'[r].line \in {"connect", "failed"}
    BY <1>9, LineOf DEF GetSchema, Fail, Lines
  <2> QED BY <1>9, <2>1 DEF GetSchema
<1>10. CASE Connect(r)
  <2>1. requests'[r].line = "query"
    BY <1>10, LineOf DEF Connect, Lines
  <2> QED BY <1>10, <2>1 DEF Connect
<1>11. CASE Ask(r)
  <2>1. CASE Fail(r)
    BY <1>11, <2>1, LineOf DEF Ask, Close, Fail, Lines
  <2>2. CASE Move(r, [requests[r] EXCEPT !.line = "done",
                        !.answer = Listed(Source(requests[r].definition.name))])
    BY <1>1, <1>11, <2>2 DEF Ask, Close, Move, Shape
  <2> QED BY <1>11, <2>1, <2>2 DEF Ask
<1>12. CASE DatabaseFailsVerify(r)
  <2>1. requests'[r] = [requests[r] EXCEPT !.line = "failed", !.disturbed = TRUE]
    BY <1>12 DEF DatabaseFailsVerify
  <2> QED BY <1>1, <1>12, <2>1 DEF DatabaseFailsVerify, Shape
<1>13. CASE DatabaseFails(r)
  <2>1. requests'[r].line = "failed"
    BY <1>13, FailedLine DEF DatabaseFails
  <2> QED BY <1>13, <2>1 DEF DatabaseFails
<1>14. CASE QueryFails(r)
  <2>1. requests'[r].line = "failed"
    BY <1>14, FailedLine DEF QueryFails
  <2> QED BY <1>14, <2>1 DEF QueryFails, Close
<1>15. CASE \E layer \in Layers : Start(r, layer)
  <2>1. PICK layer \in Layers : Start(r, layer)
    BY <1>15
  <2>2. requests'[r].line = "lookup"
    BY <1>1, <2>1 DEF Start, Move, NewRequest
  <2> QED BY <2>1, <2>2 DEF Start, Ended
<1> QED
  BY <1>2, <1>3, <1>4, <1>5, <1>6, <1>7, <1>8, <1>9, <1>10, <1>11, <1>12, <1>13,
     <1>14, <1>15 DEF Step, Failure

(* Every connection that is not in the pool is one a request queries with. *)
THEOREM ConnectionsAlwaysComeBack == Spec => []ConnectionsComeBack
<1>1. Init => ConnectionsInv
  <2> SUFFICES ASSUME Init PROVE ConnectionsInv
    OBVIOUS
  <2>1. Querying = {}
    BY DEF Init, NewRequest, Querying
  <2>2. Cardinality(Querying) = 0
    BY <2>1, FS_EmptySet
  <2> QED BY <2>2, UniqueValuesAssumption DEF Init, ConnectionsInv, ConnectionsComeBack, Querying
<1>2. IInv /\ ConnectionsInv /\ [Next]_vars => ConnectionsInv'
  <2> SUFFICES ASSUME IInv, ConnectionsInv, [Next]_vars PROVE ConnectionsInv'
    OBVIOUS
  <2>1. /\ IsFiniteSet(Querying) /\ Cardinality(Querying) \in Nat
        /\ free \in Int /\ free = Connections - Cardinality(Querying)
        /\ Connections \in Nat
    BY UniqueValuesAssumption, FS_Subset, FS_CardinalityType
       DEF Querying, ConnectionsInv, ConnectionsComeBack
  <2>2. CASE UNCHANGED <<requests, free>>
    <3>1. Querying' = Querying
      BY <2>2 DEF Querying
    <3> QED BY <2>1, <2>2, <3>1 DEF Querying, ConnectionsInv, ConnectionsComeBack
  <2>3. ASSUME NEW r \in Requests,
               Step(r) \/ Failure(r) \/ \E layer \in Layers : Start(r, layer)
        PROVE  ConnectionsInv'
    <3>1. \A q \in Requests \ {r} : requests'[q].line = requests[q].line
      BY <2>3, OthersLeave
    <3>2. CASE requests[r].line # "query" /\ requests'[r].line = "query" /\ free' = free - 1
      <4>1. Querying' = Querying \cup {r} /\ r \notin Querying
        BY <3>1, <3>2 DEF Querying
      <4>2. Cardinality(Querying') = Cardinality(Querying) + 1
        BY <2>1, <4>1, FS_AddElement
      <4> QED BY <2>1, <3>2, <4>2 DEF Querying, ConnectionsInv, ConnectionsComeBack
    <3>3. CASE requests[r].line = "query" /\ requests'[r].line # "query" /\ free' = free + 1
      <4>1. Querying' = Querying \ {r} /\ r \in Querying
        BY <3>1, <3>3 DEF Querying
      <4>2. Cardinality(Querying') = Cardinality(Querying) - 1
        BY <2>1, <4>1, FS_RemoveElement
      <4> QED BY <2>1, <3>3, <4>2 DEF Querying, ConnectionsInv, ConnectionsComeBack
    <3>4. CASE requests[r].line # "query" /\ requests'[r].line # "query" /\ free' = free
      <4>1. Querying' = Querying
        BY <3>1, <3>4 DEF Querying
      <4> QED BY <2>1, <3>4, <4>1 DEF Querying, ConnectionsInv, ConnectionsComeBack
    <3> QED BY <2>3, <3>2, <3>3, <3>4, ConnectionSteps
  <2> QED BY <2>2, <2>3 DEF Next, vars, AddOrRemove, Edit
<1>3. ConnectionsInv => ConnectionsComeBack
  BY DEF ConnectionsInv
<1> QED
  BY <1>1, <1>2, <1>3, Inductive, PTL DEF Spec

-----------------------------------------------------------------------------
(* Types *)

AnswersInv ==
  /\ present \subseteq Layers /\ free \in Nat
  /\ \A r \in Requests : requests[r].answer \in Seq(Nat)

(* A list of what the property is, in a table or query that can be asked.  *)
LEMMA ListedType ==
  ASSUME NEW source, Answerable(source), source.sql \in Sqls \cup {NULL}
  PROVE  Listed(source) \in Seq(Nat)
<1> DEFINE S == ValuesOf(source) \ {NULL}
           values == Ascending(S)
           n == Cardinality(S)
<1>1. PICK key \in Tables \cup Sqls : ValuesOf(source) = Values[key]
  BY DEF Answerable, ValuesOf
<1>2. Values[key] \subseteq Nat \cup {NULL} /\ IsFiniteSet(Values[key])
  BY UniqueValuesAssumption
<1>3. IsFiniteSet(S) /\ S \subseteq Nat
  BY <1>1, <1>2, FS_RemoveElement
<1>4. S \in FiniteNats
  BY <1>3 DEF FiniteNats
<1>5. n \in Nat /\ values \in [1..n -> S]
  BY <1>4, AscendingFacts
<1>6. Listed(source) = [i \in 1..n |-> Encode(source, values[i])]
  <2>1. Listed(source) = [i \in DOMAIN values |-> Encode(source, values[i])]
    BY DEF Listed
  <2> HIDE DEF values, n
  <2> QED
    BY <1>5, <2>1
<1>7. ASSUME NEW v \in Nat PROVE Encode(source, v) \in Nat
  <2>1. v \div MsPerSecond \in Nat
    BY UniqueValuesAssumption
  <2> QED
    BY <2>1 DEF Encode
<1> HIDE DEF values, n, S
<1>8. [i \in 1..n |-> Encode(source, values[i])] \in [1..n -> Nat]
  BY <1>3, <1>5, <1>7
<1> QED
  BY <1>5, <1>6, <1>8, SeqDef

(* What steps do to the answers.                                           *)
LEMMA GotoAnswers ==
  ASSUME IInv, AnswersInv, NEW r \in Requests,
         (\E line : Goto(r, line)) \/ FailDisturbed(r)
  PROVE  \A q \in Requests : requests'[q].answer \in Seq(Nat)
<1>1. Shape(requests[r]) /\ requests = [p \in Requests |-> requests[p]]
  BY KnowsOf DEF IInv, Types
<1>2. requests'[r].answer = requests[r].answer
  BY <1>1 DEF Goto, FailDisturbed, Move, Shape
<1>3. \A q \in Requests \ {r} : requests'[q] = requests[q]
  BY <1>1 DEF Goto, FailDisturbed, Move
<1> QED
  BY <1>2, <1>3 DEF AnswersInv

LEMMA CarryAnswers ==
  ASSUME IInv, AnswersInv, NEW r \in Requests, NEW line, NEW definition,
         Carry(r, line, definition)
  PROVE  \A q \in Requests : requests'[q].answer \in Seq(Nat)
<1>1. ASSUME NEW q \in Requests PROVE requests'[q].answer = requests[q].answer
  <2>1. Shape(requests[q])
    BY KnowsOf
  <2>2. \/ \E contested : requests'[q] = [requests[q] EXCEPT !.line = line,
                            !.definition = definition, !.contested = contested]
        \/ \E rivals : requests'[q] = [requests[q] EXCEPT !.contested = @ \/ q \in rivals]
    BY DEF Carry
  <2> QED
    BY <2>1, <2>2 DEF Shape
<1> QED
  BY <1>1 DEF AnswersInv

LEMMA StepAnswers ==
  ASSUME IInv, AnswersInv, NEW r \in Requests,
         Step(r) \/ Failure(r) \/ \E layer \in Layers : Start(r, layer)
  PROVE  \A q \in Requests : requests'[q].answer \in Seq(Nat)
<1> DEFINE this == requests[r]
<1>1. /\ Shape(this) /\ Knows(this, virtualTables)
      /\ requests = [p \in Requests |-> requests[p]]
  BY KnowsOf DEF IInv, Types
<1>2. ASSUME NEW q, Move(r, q), q.answer \in Seq(Nat)
      PROVE  \A p \in Requests : requests'[p].answer \in Seq(Nat)
  BY <1>1, <1>2 DEF Move, AnswersInv
<1>3. CASE LookUp(r)
  <2> DEFINE info == this.layer \in present
             q == [this EXCEPT !.line = "store", !.info = info]
  <2>1. q.answer = this.answer
    <3> HIDE DEF info
    <3> QED
      BY <1>1 DEF Shape
  <2>2. Move(r, q)
    BY <1>3 DEF LookUp
  <2> HIDE DEF q
  <2> QED
    BY <1>2, <2>1, <2>2 DEF AnswersInv
<1>4. CASE ReadMetadata(r) \/ ReadView(r)
  BY <1>4, GotoAnswers, CarryAnswers DEF ReadMetadata, ReadView
<1>5. CASE \/ FindStore(r) \/ CheckRegistered(r) \/ Register(r) \/ Verify(r)
           \/ VerifyFails(r) \/ GetSchema(r) \/ Connect(r)
           \/ DatabaseFails(r) \/ QueryFails(r)
  <2>1. (\E line : Goto(r, line)) \/ FailDisturbed(r)
    BY <1>5 DEF FindStore, CheckRegistered, Register, Verify, VerifyFails, GetSchema,
                Connect, DatabaseFails, QueryFails, Fail
  <2> QED
    BY <2>1, GotoAnswers
<1>6. CASE Ask(r)
  <2> DEFINE source == Source(this.definition.name)
             answer == Listed(source)
             q == [this EXCEPT !.line = "done", !.answer = answer]
  <2>1. CASE Answerable(source)
    <3>1. this.definition \in Definition
      BY <1>1, <1>6 DEF Knows, Carrying, Ask
    <3>2. source.sql \in Sqls \cup {NULL}
      BY <3>1, DefinitionParts DEF Source, IInv, Types
    <3>3. answer \in Seq(Nat)
      BY <2>1, <3>2, ListedType
    <3>4. Move(r, q)
      BY <1>6, <2>1 DEF Ask
    <3> HIDE DEF answer
    <3>5. q.answer = answer
      BY <1>1 DEF Shape
    <3> HIDE DEF q
    <3> QED
      BY <1>2, <3>3, <3>4, <3>5
  <2>2. CASE Fail(r)
    BY <2>2, GotoAnswers DEF Fail
  <2> QED
    BY <1>6, <2>1, <2>2 DEF Ask
<1>7. CASE DatabaseFailsVerify(r)
  <2>1. ASSUME NEW q \in Requests PROVE requests'[q].answer = requests[q].answer
    <3>1. Shape(requests[q])
      BY KnowsOf
    <3>2. \/ requests'[q] = [requests[q] EXCEPT !.line = "failed", !.disturbed = TRUE]
          \/ \E asks : requests'[q] = [requests[q] EXCEPT !.disturbed = @ \/ asks]
      BY <1>7 DEF DatabaseFailsVerify
    <3> QED
      BY <3>1, <3>2 DEF Shape
  <2> QED
    BY <2>1 DEF AnswersInv
<1>8. CASE \E layer \in Layers : Start(r, layer)
  <2>1. PICK layer \in Layers : Start(r, layer)
    BY <1>8
  <2> DEFINE q == [NewRequest EXCEPT !.line = "lookup", !.layer = layer]
  <2>2. Move(r, q) /\ q.answer = <<>>
    BY <2>1 DEF Start, NewRequest
  <2> HIDE DEF q
  <2> QED
    BY <1>2, <2>2, EmptySeq
<1> QED
  BY <1>3, <1>4, <1>5, <1>6, <1>7, <1>8 DEF Step, Failure

(* The pool never has a negative number of connections.                    *)
LEMMA StepFree ==
  ASSUME AnswersInv, NEW r \in Requests,
         Step(r) \/ Failure(r) \/ \E layer \in Layers : Start(r, layer)
  PROVE  free' \in Nat /\ present' = present
<1>1. free \in Nat
  BY DEF AnswersInv
<1>2. \/ free' = free /\ present' = present
      \/ free > 0 /\ free' = free - 1 /\ present' = present
      \/ free' = free + 1 /\ present' = present
  BY DEF Step, Failure, LookUp, FindStore, ReadMetadata, ReadView, CheckRegistered,
         Register, Verify, VerifyFails, GetSchema, Connect, Ask, Close,
         DatabaseFailsVerify, DatabaseFails, QueryFails, Start
<1> QED
  BY <1>1, <1>2

LEMMA AnswersInductive == Spec => []AnswersInv
<1>1. Init => AnswersInv
  <2> SUFFICES ASSUME Init PROVE AnswersInv
    OBVIOUS
  <2>1. NewRequest.answer = <<>> /\ <<>> \in Seq(Nat)
    BY EmptySeq DEF NewRequest
  <2>2. \A r \in Requests : requests[r].answer \in Seq(Nat)
    BY <2>1 DEF Init
  <2> QED
    BY <2>2, UniqueValuesAssumption DEF Init, AnswersInv
<1>2. IInv /\ AnswersInv /\ [Next]_vars => AnswersInv'
  <2> SUFFICES ASSUME IInv, AnswersInv, [Next]_vars PROVE AnswersInv'
    OBVIOUS
  <2>1. CASE UNCHANGED vars
    BY <2>1 DEF vars, AnswersInv
  <2>2. ASSUME NEW r \in Requests,
               Step(r) \/ Failure(r) \/ \E layer \in Layers : Start(r, layer)
        PROVE  AnswersInv'
    <3>1. \A q \in Requests : requests'[q].answer \in Seq(Nat)
      BY <2>2, StepAnswers
    <3>2. free' \in Nat /\ present' = present
      BY <2>2, StepFree
    <3> QED
      BY <3>1, <3>2 DEF AnswersInv
  <2>3. CASE \E layer \in Layers :
               AddOrRemove(layer) \/ \E definition \in Definitions[layer] : Edit(layer, definition)
    BY <2>3 DEF AddOrRemove, Edit, AnswersInv
  <2> QED
    BY <2>1, <2>2, <2>3 DEF Next
<1> QED
  BY <1>1, <1>2, Inductive, PTL DEF Spec

(* The variables have their types; the numbers of an answer are what is    *)
(* listed, and the pool never has more connections than it began with.     *)
THEOREM TypeCorrect == Spec => []TypeOK
<1>1. IInv /\ AnswersInv /\ ConnectionsComeBack => TypeOK
  <2> SUFFICES ASSUME IInv, AnswersInv, ConnectionsComeBack PROVE TypeOK
    OBVIOUS
  <2>1. free \in 0..Connections
    <3>1. IsFiniteSet(Querying) /\ Connections \in Nat
      BY UniqueValuesAssumption, FS_Subset DEF Querying
    <3>2. Cardinality(Querying) \in Nat
      BY <3>1, FS_CardinalityType
    <3>3. free = Connections - Cardinality(Querying) /\ free \in Nat
      BY DEF Querying, ConnectionsComeBack, AnswersInv
    <3> QED
      BY <3>1, <3>2, <3>3
  <2>2. requests \in [Requests -> RequestRecord]
    <3>1. ASSUME NEW r \in Requests PROVE requests[r] \in RequestRecord
      <4>1. Shape(requests[r]) /\ requests[r].answer \in Seq(Nat)
        BY KnowsOf DEF AnswersInv
      <4> QED
        BY <4>1 DEF Shape, RequestRecord
    <3> QED
      BY <3>1 DEF IInv, Types
  <2> QED
    BY <2>1, <2>2 DEF TypeOK, IInv, Types, AnswersInv
<1> QED
  BY <1>1, Inductive, AnswersInductive, ConnectionsAlwaysComeBack, PTL

=============================================================================
