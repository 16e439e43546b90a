------------------------ MODULE RestrictedCsvProofs ------------------------
(***************************************************************************)
(* Proofs about RestrictedCsv, for any columns, names, exclusions and      *)
(* number of features: when the walks of the header and of a line write    *)
(* the same fields, and when they do not; and which columns the header of  *)
(* a simple type shows.                                                    *)
(***************************************************************************)
EXTENDS RestrictedCsv, OrderedProofs

-----------------------------------------------------------------------------
(* Fields *)

(* A line always has a field that the next column may write to.            *)
Lines == {l \in Seq(Field) : l # <<>>}

LEMMA FirstFieldType == FirstField \in Lines
  BY DEF FirstField, Lines, Field

LEMMA CommaType ==
  ASSUME NEW l \in Lines
  PROVE  Comma(l) \in Lines
<1>1. Blank \in Field /\ l \in Seq(Field)
  BY DEF Field, Lines
<1>2. Append(l, Blank) \in Seq(Field) /\ Len(Append(l, Blank)) = Len(l) + 1
  BY <1>1
<1>3. Append(l, Blank) # <<>>
  <2>1. Len(l) \in Nat /\ Len(<<>>) = 0
    BY <1>1
  <2> QED BY <1>2, <2>1
<1> QED BY <1>2, <1>3 DEF Comma, Lines

LEMMA TextType ==
  ASSUME NEW l \in Lines, NEW c \in Columns
  PROVE  Text(l, c) \in Lines
<1>1. l \in Seq(Field) /\ l # <<>> /\ c \in Field
  BY DEF Field, Lines
<1>2. Len(l) \in 1..Len(l)
  BY <1>1
<1>3. [l EXCEPT ![Len(l)] = c] \in Seq(Field) /\ Len([l EXCEPT ![Len(l)] = c]) = Len(l)
  BY <1>1, <1>2
<1>4. [l EXCEPT ![Len(l)] = c] # <<>>
  BY <1>2, <1>3
<1> QED BY <1>3, <1>4 DEF Text, Lines

(* What a walk writes for a column is a line again.                        *)
LEMMA FieldsType ==
  ASSUME NEW l \in Lines, NEW c \in Columns, NEW test
  PROVE  CommaIf(test, l) \in Lines /\ TextIf(test, l, c) \in Lines
  BY CommaType, TextType DEF CommaIf, TextIf

(* A comma and a column's text after it.                                   *)
LEMMA CommaAndText ==
  ASSUME NEW l \in Lines, NEW c \in Columns
  PROVE  Text(Comma(l), c) = Append(l, c)
<1>1. l \in Seq(Field) /\ c \in Field /\ Blank \in Field
  BY DEF Field, Lines
<1>2. [Append(l, Blank) EXCEPT ![Len(l) + 1] = c] = Append(l, c)
  <2> DEFINE left == [Append(l, Blank) EXCEPT ![Len(l) + 1] = c]
             right == Append(l, c)
  <2>1. left \in Seq(Field) /\ Len(left) = Len(l) + 1
    BY <1>1
  <2>2. right \in Seq(Field) /\ Len(right) = Len(l) + 1
    BY <1>1
  <2>3. ASSUME NEW k \in 1..(Len(l) + 1) PROVE left[k] = right[k]
    <3>1. /\ Len(l) \in Nat /\ Append(l, Blank) \in Seq(Field)
          /\ DOMAIN Append(l, Blank) = 1..(Len(l) + 1)
      BY <1>1
    <3>2. CASE k = Len(l) + 1
      BY <1>1, <3>1, <3>2
    <3>3. CASE k # Len(l) + 1
      <4>1. left[k] = Append(l, Blank)[k]
        BY <3>1, <3>3
      <4>2. Append(l, Blank)[k] = l[k] /\ Append(l, c)[k] = l[k]
        BY <1>1, <3>1, <3>3
      <4> QED BY <4>1, <4>2
    <3> QED BY <3>2, <3>3
  <2> HIDE DEF left, right
  <2> QED
    BY <2>1, <2>2, <2>3, SeqEqual DEF left, right
<1> QED BY <1>1, <1>2 DEF Text, Comma

(* The columns that wrote to these fields.                                 *)
Written(l) == {c \in Columns : \E k \in 1..Len(l) : l[k] = c}

(* A field after the first one has no column's text.                       *)
Gap(l) == \E k \in 2..Len(l) : l[k] = Blank

LEMMA AppendWrites ==
  ASSUME NEW l \in Lines, NEW c \in Columns
  PROVE  /\ Append(l, c) \in Lines /\ Append(l, Blank) \in Lines
         /\ Written(Append(l, c)) = Written(l) \cup {c}
         /\ Written(Append(l, Blank)) = Written(l)
         /\ Gap(Append(l, Blank))
         /\ Gap(l) => Gap(Append(l, c))
         /\ Gap(Append(l, c)) => Gap(l)
<1>1. /\ l \in Seq(Field) /\ l # <<>> /\ Len(l) \in Nat \ {0} /\ c # Blank
      /\ c \in Field /\ Blank \in Field /\ Blank \notin Columns
  BY RestrictedCsvAssumption DEF Field, Lines
<1>2. ASSUME NEW d \in Field
      PROVE  /\ Append(l, d) \in Seq(Field) /\ Len(Append(l, d)) = Len(l) + 1
             /\ \A k \in 1..Len(l) : Append(l, d)[k] = l[k]
             /\ Append(l, d)[Len(l) + 1] = d
             /\ \A k \in 1..(Len(l) + 1) : k \in 1..Len(l) \/ k = Len(l) + 1
             /\ Len(l) + 1 \in 1..(Len(l) + 1) /\ 1..Len(l) \subseteq 1..(Len(l) + 1)
             /\ Append(l, d) # <<>>
  <2>1. Append(l, d) \in Seq(Field) /\ Len(Append(l, d)) = Len(l) + 1
    BY <1>1
  <2>2. Append(l, d) # <<>>
    BY <1>1, <2>1
  <2> QED
    BY <1>1, <2>1, <2>2
<1>3. Written(Append(l, c)) = Written(l) \cup {c}
  BY <1>1, <1>2 DEF Written
<1>4. Written(Append(l, Blank)) = Written(l)
  BY <1>1, <1>2 DEF Written
<1>5. Gap(Append(l, Blank))
  <2>1. Len(l) + 1 \in 2..(Len(l) + 1)
    BY <1>1
  <2> QED
    BY <1>1, <1>2, <2>1 DEF Gap
<1>6. Gap(l) => Gap(Append(l, c))
  <2>1. \A k \in 2..Len(l) : k \in 1..Len(l) /\ k \in 2..(Len(l) + 1)
    BY <1>1
  <2> QED
    BY <1>1, <1>2, <2>1 DEF Gap
<1>7. Gap(Append(l, c)) => Gap(l)
  <2>1. \A k \in 2..(Len(l) + 1) : k = Len(l) + 1 \/ (k \in 1..Len(l) /\ k \in 2..Len(l))
    BY <1>1
  <2> QED
    BY <1>1, <1>2, <2>1 DEF Gap
<1> QED
  BY <1>1, <1>2, <1>3, <1>4, <1>5, <1>6, <1>7 DEF Lines

(* The first column's text.                                                *)
LEMMA FirstWrites ==
  /\ Written(FirstField) = {}
  /\ \A c \in Columns : /\ Text(FirstField, c) = <<Id, c>>
                        /\ Written(<<Id, c>>) = {c} /\ ~Gap(<<Id, c>>)
<1>1. FirstField \in Seq(Field) /\ Len(FirstField) = 2 /\ FirstField[1] = Id
      /\ FirstField[2] = Blank
  BY DEF FirstField, Field
<1>2. Written(FirstField) = {}
  BY <1>1, RestrictedCsvAssumption DEF Written
<1>3. ASSUME NEW c \in Columns
      PROVE  /\ Text(FirstField, c) = <<Id, c>>
             /\ Written(<<Id, c>>) = {c} /\ ~Gap(<<Id, c>>)
  <2>1. Text(FirstField, c) = <<Id, c>>
    BY <1>1 DEF Text, FirstField
  <2>2. Len(<<Id, c>>) = 2 /\ <<Id, c>>[1] = Id /\ <<Id, c>>[2] = c
    OBVIOUS
  <2> QED
    BY <2>1, <2>2, RestrictedCsvAssumption DEF Written, Gap
<1> QED
  BY <1>2, <1>3

-----------------------------------------------------------------------------
(* The invariant *)

(* The columns of a complex type that its walks may write, and those that  *)
(* the header and the lines include.                                       *)
Candidates == {i \in 1..Len(schema) : schema[i] \notin Links}
InHeader   == {i \in Candidates : include(ElementName[schema[i]])}
InLines    == {i \in Candidates : include(FullName[schema[i]])}

Before(S, p) == {i \in S : i < p}

(* What the header's walk of a complex type has written before column p:   *)
(* the columns it includes, and a field without text for each that it      *)
(* excludes after one that it includes.                                    *)
HeaderFields(l, p) ==
  /\ l \in Lines
  /\ Written(l) = {schema[i] : i \in Before(InHeader, p)}
  /\ (\E i \in InHeader, j \in Candidates \ InHeader : i < j /\ j < p) => Gap(l)

(* What the lines' walk has written: the columns it includes, each in a    *)
(* field of its own.                                                       *)
LineFields(l, p) ==
  /\ l \in Lines
  /\ Written(l) = {schema[i] : i \in Before(InLines, p)}
  /\ Before(InLines, p) # {} => ~Gap(l)

(* The counters of both walks tell whether a column has been included.     *)
Counts(S) ==
  /\ count > 0 <=> Before(S, pos) # {}
  /\ count = 0 => line = FirstField

ComplexWalks ==
  ~simple =>
    /\ phase \in {"lookup", "header"} => HeaderFields(line, pos) /\ Counts(InHeader)
    /\ phase \in {"features", "line", "done"} => HeaderFields(header, Len(schema) + 1)
    /\ phase = "line" => LineFields(line, pos) /\ Counts(InLines)

(* The state of a walk before column i + 1, if it was w before column i;   *)
(* for a complex type, as the lines' walk has it.                          *)
Step(w, i) ==
  LET c        == schema[i]
      plain    == include(LocalName[c])
      included == c \notin Links /\ include(FullName[c])
  IN  IF simple
      THEN [line  |-> CommaIf(plain /\ i < Len(schema), TextIf(plain, w.line, c)),
            count |-> w.count]
      ELSE [line  |-> TextIf(included, CommaIf(included /\ w.count > 0, w.line), c),
            count |-> IF included THEN w.count + 1 ELSE w.count]

Walk == [line |-> line, count |-> count]
Walks == [line: Lines, count: Nat]
FirstWalk == [line |-> FirstField, count |-> 0]

(* The column that the header's walk has come to.                          *)
HeaderPos == IF phase \in {"lookup", "header"} THEN pos ELSE Len(schema) + 1

(* H has the states of a walk before each column up to there.              *)
IsTrace(H) ==
  /\ H \in [1..HeaderPos -> Walks]
  /\ H[1] = FirstWalk
  /\ \A i \in 1..HeaderPos : i + 1 \in 1..HeaderPos => H[i + 1] = Step(H[i], i)

Regular == simple \/ Straight

(* The header, every line and the line that is being written are of one    *)
(* walk.                                                                   *)
OneWalk ==
  Regular /\ phase # "failed" =>
    \E H : /\ IsTrace(H)
           /\ phase \in {"lookup", "header", "line"} => Walk = H[pos]
           /\ phase \notin {"lookup", "header"} => header = H[Len(schema) + 1].line

PhaseOK ==
  /\ phase = "lookup" => pos = 1 /\ line = FirstField /\ count = 0
  /\ phase \in {"lookup", "header"} => rows = <<>>
  /\ phase = "features" => pos = Len(schema) + 1
  /\ iterator = "open" => phase \in {"features", "line"}
  /\ line \in Lines /\ count < pos

(* The lines are aligned if both walks are one, and only then.             *)
AlignedExactly == \A i \in DOMAIN rows : (rows[i] = header) <=> Regular

IInv == TypeOK /\ PhaseOK /\ ComplexWalks /\ OneWalk /\ AlignedExactly

(* What the type invariant says of the schema.                             *)
LEMMA SchemaType ==
  ASSUME TypeOK
  PROVE  /\ schema \in Seq(Columns) /\ Len(schema) \in Nat
         /\ pos <= Len(schema) => schema[pos] \in Columns
<1>1. schema \in Seq(Columns) /\ pos \in 1..(Len(schema) + 1)
  BY RestrictedCsvAssumption DEF TypeOK
<1> QED BY <1>1

-----------------------------------------------------------------------------
(* Types and phases *)

LEMMA TypeInit == Init => TypeOK /\ PhaseOK
<1> SUFFICES ASSUME Init PROVE TypeOK /\ PhaseOK
  OBVIOUS
<1>1. schema \in Seq(Columns) /\ Len(schema) \in Nat
  BY RestrictedCsvAssumption DEF Init
<1>2. FirstField \in Lines /\ FirstField \in Seq(Field)
  BY FirstFieldType DEF Lines
<1>3. << >> \in Seq(Field) /\ << >> \in Seq(Seq(Field))
  OBVIOUS
<1>4. pos \in 1..(Len(schema) + 1) /\ count \in 0..Len(schema)
  BY <1>1 DEF Init
<1> QED BY <1>1, <1>2, <1>3, <1>4 DEF Init, TypeOK, PhaseOK

(* A column is written by any of the walks.                                *)
LEMMA ColumnType ==
  ASSUME TypeOK, PhaseOK, NEW c \in Columns,
         SimpleColumn(c) \/ ComplexHeaderColumn(c) \/ ComplexLineColumn(c)
  PROVE  line' \in Lines /\ (count' = count \/ count' = count + 1)
<1>1. line \in Lines
  BY DEF PhaseOK
<1> QED BY <1>1, FieldsType DEF SimpleColumn, ComplexHeaderColumn, ComplexLineColumn

LEMMA TypeStep ==
  ASSUME TypeOK, PhaseOK, [Next]_vars
  PROVE  TypeOK' /\ PhaseOK'
<1> USE DEF TypeOK, PhaseOK
<1>0. schema \in Seq(Columns) /\ Len(schema) \in Nat /\ pos \in Nat /\ count \in Nat
  BY SchemaType
<1>1. CASE LookUp
  BY <1>1 DEF LookUp, getLayer, Named, download
<1>2. CASE \E l \in Layers : AddOrRemove(l)
  BY <1>2 DEF AddOrRemove, download
<1>3. ASSUME WriteHeaderColumn \/ WriteLineColumn
      PROVE  TypeOK' /\ PhaseOK'
  <2>1. /\ pos <= Len(schema) /\ pos' = pos + 1 /\ UNCHANGED <<layer, phase, iterator, header, rows>>
        /\ phase \in {"header", "line"}
    BY <1>3 DEF WriteHeaderColumn, WriteLineColumn
  <2>2. line' \in Lines /\ (count' = count \/ count' = count + 1)
    BY <1>3, <2>1, SchemaType, ColumnType DEF WriteHeaderColumn, WriteLineColumn
  <2>3. pos' \in 1..(Len(schema) + 1) /\ count' \in 0..Len(schema) /\ count' < pos'
    BY <1>0, <2>1, <2>2
  <2>4. line' \in Seq(Field)
    BY <2>2 DEF Lines
  <2> QED BY <2>1, <2>2, <2>3, <2>4 DEF layer, download, lookup
<1>4. CASE EndHeader
  BY <1>0, <1>4 DEF EndHeader, layer, download, lookup
<1>5. CASE StartLine
  BY <1>0, <1>5, FirstFieldType DEF StartLine, layer, download, lookup, Lines
<1>6. CASE EndLine
  <2>1. rows' \in Seq(Seq(Field))
    BY <1>6 DEF EndLine
  <2> QED BY <1>0, <1>6, <2>1 DEF EndLine, layer, download, lookup
<1>7. CASE Finish
  BY <1>7 DEF Finish, layer, download, lookup
<1>8. CASE Fails
  BY <1>8 DEF Fails, layer, download, lookup
<1>9. CASE UNCHANGED vars
  BY <1>9 DEF vars, layer, download, lookup
<1>10. CASE Ended
  BY <1>9, <1>10 DEF Ended
<1> QED BY <1>1, <1>2, <1>3, <1>4, <1>5, <1>6, <1>7, <1>8, <1>9, <1>10 DEF Next

-----------------------------------------------------------------------------
(* What the walks of a complex type write *)

LEMMA BeforeNext ==
  ASSUME NEW S \in SUBSET Nat, NEW p \in Nat
  PROVE  Before(S, p + 1) = IF p \in S THEN Before(S, p) \cup {p} ELSE Before(S, p)
<1>1. \A i \in S : i < p + 1 <=> i < p \/ i = p
  OBVIOUS
<1>2. CASE p \in S
  BY <1>1, <1>2 DEF Before
<1>3. CASE p \notin S
  BY <1>1, <1>3 DEF Before
<1> QED
  BY <1>2, <1>3

LEMMA ShownAreColumns ==
  ASSUME TypeOK
  PROVE  /\ Candidates \subseteq 1..Len(schema) /\ InHeader \subseteq Candidates
         /\ InLines \subseteq Candidates /\ InHeader \in SUBSET Nat /\ InLines \in SUBSET Nat
         /\ \A i \in Candidates : schema[i] \in Columns
  BY SchemaType DEF Candidates, InHeader, InLines

LEMMA HeaderColumnWrites ==
  ASSUME TypeOK, PhaseOK, HeaderFields(line, pos), Counts(InHeader),
         pos <= Len(schema), ComplexHeaderColumn(schema[pos])
  PROVE  /\ HeaderFields(line', pos + 1)
         /\ count' > 0 <=> Before(InHeader, pos + 1) # {}
         /\ count' = 0 => line' = FirstField
<1> DEFINE c == schema[pos]
           Goal == /\ HeaderFields(line', pos + 1)
                   /\ count' > 0 <=> Before(InHeader, pos + 1) # {}
                   /\ count' = 0 => line' = FirstField
<1>1. /\ line \in Lines /\ c \in Columns /\ count \in Nat /\ pos \in 1..Len(schema)
      /\ pos \in Nat /\ Len(schema) \in Nat
  BY SchemaType DEF TypeOK, PhaseOK
<1>2. /\ Candidates \subseteq Nat /\ InHeader \subseteq Candidates /\ InHeader \in SUBSET Nat
  BY ShownAreColumns, SchemaType
<1>3. /\ Written(line) = {schema[i] : i \in Before(InHeader, pos)}
      /\ (\E i \in InHeader, j \in Candidates \ InHeader : i < j /\ j < pos) => Gap(line)
      /\ count > 0 <=> Before(InHeader, pos) # {}
      /\ count = 0 => line = FirstField
  BY DEF HeaderFields, Counts
<1>4. \A j \in Candidates : j < pos + 1 => j < pos \/ j = pos
  BY <1>1, <1>2
<1>5. CASE pos \notin Candidates
  <2>1. line' = line /\ count' = count
    BY <1>1, <1>5 DEF ComplexHeaderColumn, Candidates
  <2>2. Before(InHeader, pos + 1) = Before(InHeader, pos)
    BY <1>1, <1>2, <1>5, BeforeNext
  <2> QED
    BY <1>1, <1>3, <1>4, <1>5, <2>1, <2>2 DEF HeaderFields
<1>6. CASE pos \in InHeader
  <2>1. Before(InHeader, pos + 1) = Before(InHeader, pos) \cup {pos}
    BY <1>1, <1>2, <1>6, BeforeNext
  <2>2. count' = count + 1 /\ line' = TextIf(TRUE, CommaIf(count > 0, line), c)
    BY <1>6 DEF ComplexHeaderColumn, InHeader, Candidates, TextIf
  <2>3. CASE count > 0
    <3>1. line' = Append(line, c)
      BY <1>1, <2>2, <2>3, CommaAndText DEF TextIf, CommaIf
    <3>2. line' \in Lines /\ Written(line') = Written(line) \cup {c} /\ (Gap(line) => Gap(line'))
      BY <1>1, <3>1, AppendWrites
    <3>3. Written(line') = {schema[i] : i \in Before(InHeader, pos + 1)}
      BY <1>3, <2>1, <3>2
    <3>4. ASSUME NEW i \in InHeader, NEW j \in Candidates \ InHeader, i < j, j < pos + 1
          PROVE  Gap(line')
      BY <1>3, <1>4, <1>6, <3>2, <3>4
    <3>5. HeaderFields(line', pos + 1)
      BY <3>2, <3>3, <3>4 DEF HeaderFields
    <3>6. count' > 0 /\ count' # 0 /\ Before(InHeader, pos + 1) # {}
      BY <1>1, <2>1, <2>2
    <3> QED
      BY <3>5, <3>6
  <2>4. CASE ~(count > 0)
    <3>1. count = 0 /\ line = FirstField /\ Before(InHeader, pos) = {}
      BY <1>1, <1>3, <2>4
    <3>2. line' = <<Id, c>> /\ Written(line') = {c} /\ line' \in Lines
      <4>1. line' = Text(FirstField, c)
        BY <2>2, <2>4, <3>1 DEF TextIf, CommaIf
      <4> QED
        BY <1>1, <4>1, FirstWrites, TextType, FirstFieldType
    <3>3. Written(line') = {schema[i] : i \in Before(InHeader, pos + 1)}
      BY <2>1, <3>1, <3>2
    <3>4. ASSUME NEW i \in InHeader, NEW j \in Candidates \ InHeader, i < j, j < pos + 1
          PROVE  FALSE
      <4>1. j < pos
        BY <1>4, <1>6, <3>4
      <4>2. i < pos
        BY <1>1, <1>2, <3>4, <4>1
      <4> QED
        BY <3>1, <4>2 DEF Before
    <3>5. HeaderFields(line', pos + 1)
      BY <3>2, <3>3, <3>4 DEF HeaderFields
    <3>6. count' > 0 /\ count' # 0 /\ Before(InHeader, pos + 1) # {}
      BY <1>1, <2>1, <2>2
    <3> QED
      BY <3>5, <3>6
  <2> QED
    BY <2>3, <2>4
<1>7. CASE pos \in Candidates \ InHeader
  <2>1. Before(InHeader, pos + 1) = Before(InHeader, pos)
    BY <1>1, <1>2, <1>7, BeforeNext
  <2>2. count' = count /\ line' = CommaIf(count > 0, line)
    BY <1>7 DEF ComplexHeaderColumn, InHeader, Candidates, TextIf
  <2>3. CASE count > 0
    <3>1. line' = Append(line, Blank)
      BY <2>2, <2>3 DEF CommaIf, Comma
    <3>2. line' \in Lines /\ Written(line') = Written(line) /\ Gap(line')
      BY <1>1, <3>1, AppendWrites
    <3> QED
      BY <1>1, <1>3, <2>1, <2>2, <2>3, <3>2 DEF HeaderFields
  <2>4. CASE ~(count > 0)
    <3>1. Before(InHeader, pos) = {} /\ line' = line
      BY <1>3, <2>2, <2>4 DEF CommaIf
    <3>2. ASSUME NEW i \in InHeader, NEW j \in Candidates \ InHeader, i < j, j < pos + 1
          PROVE  FALSE
      <4>1. i < pos
        BY <1>1, <1>2, <3>2
      <4> QED
        BY <3>1, <4>1 DEF Before
    <3> QED
      BY <1>1, <1>3, <2>1, <2>2, <2>4, <3>1, <3>2 DEF HeaderFields
  <2> QED
    BY <2>3, <2>4
<1> QED
  BY <1>2, <1>5, <1>6, <1>7

LEMMA LineColumnWrites ==
  ASSUME TypeOK, PhaseOK, LineFields(line, pos), Counts(InLines),
         pos <= Len(schema), ComplexLineColumn(schema[pos])
  PROVE  /\ LineFields(line', pos + 1)
         /\ count' > 0 <=> Before(InLines, pos + 1) # {}
         /\ count' = 0 => line' = FirstField
<1> DEFINE c == schema[pos]
<1>1. /\ line \in Lines /\ c \in Columns /\ count \in Nat /\ pos \in 1..Len(schema)
      /\ pos \in Nat /\ Len(schema) \in Nat
  BY SchemaType DEF TypeOK, PhaseOK
<1>2. InLines \in SUBSET Nat
  BY ShownAreColumns
<1>3. /\ Written(line) = {schema[i] : i \in Before(InLines, pos)}
      /\ Before(InLines, pos) # {} => ~Gap(line)
      /\ count > 0 <=> Before(InLines, pos) # {}
      /\ count = 0 => line = FirstField
  BY DEF LineFields, Counts
<1>4. CASE pos \notin InLines
  <2>1. line' = line /\ count' = count
    BY <1>1, <1>4 DEF ComplexLineColumn, InLines, Candidates, TextIf, CommaIf
  <2>2. Before(InLines, pos + 1) = Before(InLines, pos)
    BY <1>1, <1>2, <1>4, BeforeNext
  <2> QED
    BY <1>1, <1>3, <2>1, <2>2 DEF LineFields
<1>5. CASE pos \in InLines
  <2>1. Before(InLines, pos + 1) = Before(InLines, pos) \cup {pos}
    BY <1>1, <1>2, <1>5, BeforeNext
  <2>2. count' = count + 1 /\ line' = Text(CommaIf(count > 0, line), c)
    BY <1>5 DEF ComplexLineColumn, InLines, Candidates, TextIf, CommaIf
  <2>3. CASE count > 0
    <3>1. line' = Append(line, c)
      BY <1>1, <2>2, <2>3, CommaAndText DEF CommaIf
    <3>2. line' \in Lines /\ Written(line') = Written(line) \cup {c} /\ ~Gap(line')
      BY <1>1, <1>3, <2>3, <3>1, AppendWrites
    <3>3. Written(line') = {schema[i] : i \in Before(InLines, pos + 1)}
      BY <1>3, <2>1, <3>2
    <3> QED
      BY <1>1, <2>1, <2>2, <3>2, <3>3 DEF LineFields
  <2>4. CASE ~(count > 0)
    <3>1. count = 0 /\ line = FirstField /\ Before(InLines, pos) = {}
      BY <1>1, <1>3, <2>4
    <3>2. line' = <<Id, c>> /\ Written(line') = {c} /\ line' \in Lines /\ ~Gap(line')
      <4>1. line' = Text(FirstField, c)
        BY <2>2, <2>4, <3>1 DEF CommaIf
      <4> QED
        BY <1>1, <4>1, FirstWrites, TextType, FirstFieldType
    <3>3. Written(line') = {schema[i] : i \in Before(InLines, pos + 1)}
      BY <2>1, <3>1, <3>2
    <3> QED
      BY <1>1, <2>1, <2>2, <3>2, <3>3 DEF LineFields
  <2> QED
    BY <2>3, <2>4
<1> QED
  BY <1>4, <1>5

(* What the walks have written of a layer stays so.                        *)
LEMMA FieldsStay ==
  ASSUME UNCHANGED layer, NEW l, NEW p
  PROVE  /\ HeaderFields(l, p)' <=> HeaderFields(l, p)
         /\ LineFields(l, p)' <=> LineFields(l, p)
         /\ InHeader' = InHeader /\ InLines' = InLines /\ Candidates' = Candidates
<1>1. schema' = schema /\ excluded' = excluded
  BY DEF layer, download, lookup
<1>2. InHeader' = InHeader /\ InLines' = InLines /\ Candidates' = Candidates
  BY <1>1 DEF InHeader, InLines, Candidates, include
<1> QED
  BY <1>1, <1>2 DEF HeaderFields, LineFields

LEMMA FieldsAtFirst ==
  ASSUME TypeOK
  PROVE  HeaderFields(FirstField, 1) /\ LineFields(FirstField, 1)
         /\ Before(InHeader, 1) = {} /\ Before(InLines, 1) = {}
<1>1. Candidates \subseteq 1..Len(schema) /\ Len(schema) \in Nat
      /\ InHeader \subseteq Candidates /\ InLines \subseteq Candidates
  BY ShownAreColumns, SchemaType
<1>2. Before(InHeader, 1) = {} /\ Before(InLines, 1) = {}
  <2>1. \A i \in Candidates : ~(i < 1)
    BY <1>1
  <2> QED
    BY <1>1, <2>1 DEF Before
<1>3. \A i \in InHeader, j \in Candidates \ InHeader : ~(i < j /\ j < 1)
  BY <1>1
<1> QED
  BY <1>2, <1>3, FirstFieldType, FirstWrites DEF HeaderFields, LineFields

LEMMA ComplexInit ==
  ASSUME Init, TypeOK PROVE ComplexWalks
<1>1. phase = "lookup" /\ pos = 1 /\ count = 0 /\ line = FirstField
  BY DEF Init
<1> QED
  BY <1>1, FieldsAtFirst DEF ComplexWalks, Counts

LEMMA ComplexStep ==
  ASSUME TypeOK, PhaseOK, ComplexWalks, TypeOK', [Next]_vars
  PROVE  ComplexWalks'
<1>0. Len(schema) \in Nat /\ pos \in 1..(Len(schema) + 1)
  BY SchemaType DEF TypeOK
<1>1. ASSUME LookUp \/ \E l \in Layers : AddOrRemove(l)
      PROVE  ComplexWalks'
  <2>1. /\ phase' \in {"lookup", "header", "failed"} /\ pos' = 1 /\ count' = 0
        /\ line' = FirstField
    BY <1>1 DEF LookUp, AddOrRemove, PhaseOK
  <2>2. /\ Candidates' \subseteq 1..Len(schema') /\ InHeader' \subseteq Candidates'
        /\ Len(schema') \in Nat
    <3>1. schema' \in Seq(Columns)
      BY RestrictedCsvAssumption DEF TypeOK
    <3> QED
      BY <3>1 DEF Candidates, InHeader
  <2>3. \A i \in Candidates' : ~(i < 1)
    BY <2>2
  <2>4. Before(InHeader', 1) = {}
    BY <2>2, <2>3 DEF Before
  <2>5. ~ \E i \in InHeader', j \in Candidates' \ InHeader' : i < j /\ j < 1
    BY <2>3
  <2> QED
    BY <2>1, <2>4, <2>5, FirstFieldType, FirstWrites DEF ComplexWalks, Counts, HeaderFields,
       Before, FirstField
<1>2. CASE WriteHeaderColumn
  <2>1. /\ phase = "header" /\ phase' = "header" /\ UNCHANGED layer /\ simple' = simple
        /\ pos <= Len(schema) /\ pos' = pos + 1
        /\ ~simple => ComplexHeaderColumn(schema[pos])
    BY <1>2 DEF WriteHeaderColumn, layer, download
  <2> SUFFICES ASSUME ~simple PROVE ComplexWalks'
    BY <2>1 DEF ComplexWalks
  <2>2. HeaderFields(line, pos) /\ Counts(InHeader)
    BY <2>1 DEF ComplexWalks
  <2>3. /\ HeaderFields(line', pos + 1)
        /\ count' > 0 <=> Before(InHeader, pos + 1) # {}
        /\ count' = 0 => line' = FirstField
    BY <2>1, <2>2, HeaderColumnWrites
  <2>4. schema' = schema /\ InHeader' = InHeader /\ Candidates' = Candidates
    BY <2>1, FieldsStay DEF layer, download
  <2>5. HeaderFields(line, pos)'
    BY <2>1, <2>3, <2>4 DEF HeaderFields, Before
  <2>6. Counts(InHeader)'
    BY <2>1, <2>3, <2>4 DEF Counts, Before, FirstField
  <2> QED
    BY <2>1, <2>5, <2>6 DEF ComplexWalks
<1>3. CASE EndHeader
  <2>1. /\ phase = "header" /\ phase' = "features" /\ UNCHANGED layer /\ simple' = simple
        /\ schema' = schema /\ pos = Len(schema) + 1 /\ header' = line
    BY <1>0, <1>3 DEF EndHeader, layer, download
  <2>2. ~simple => HeaderFields(line, Len(schema) + 1)
    BY <2>1 DEF ComplexWalks
  <2>4. \A l : HeaderFields(l, Len(schema) + 1)' <=> HeaderFields(l, Len(schema) + 1)
    <3>1. \A l, p : HeaderFields(l, p)' <=> HeaderFields(l, p)
      BY <2>1, FieldsStay
    <3> QED
      BY <2>1, <3>1 DEF HeaderFields
  <2> QED
    BY <2>1, <2>2, <2>4 DEF ComplexWalks, HeaderFields
<1>4. ASSUME StartLine \/ WriteLineColumn \/ EndLine \/ Finish
      PROVE  ComplexWalks'
  <2>1. /\ phase \in {"features", "line"} /\ phase' \in {"features", "line", "done"}
        /\ UNCHANGED layer /\ simple' = simple /\ schema' = schema /\ header' = header
    BY <1>4 DEF StartLine, WriteLineColumn, EndLine, Finish, layer, download
  <2> SUFFICES ASSUME ~simple PROVE ComplexWalks'
    BY <2>1 DEF ComplexWalks
  <2>2. HeaderFields(header, Len(schema) + 1)
    BY <2>1 DEF ComplexWalks
  <2>3. HeaderFields(header, Len(schema) + 1)'
    <3>1. Candidates' = Candidates /\ InHeader' = InHeader
      BY <2>1, FieldsStay
    <3> QED
      BY <2>1, <2>2, <3>1 DEF HeaderFields
  <2>4. phase' = "line" => LineFields(line, pos)' /\ Counts(InLines)'
    <3>1. CASE StartLine
      <4>1. line' = FirstField /\ pos' = 1 /\ count' = 0
        BY <3>1 DEF StartLine
      <4>2. LineFields(FirstField, 1) /\ Before(InLines, 1) = {} /\ InLines' = InLines
        BY <2>1, FieldsAtFirst, FieldsStay
      <4> QED
        BY <2>1, <4>1, <4>2 DEF Counts, LineFields, Before, FirstField
    <3>2. CASE WriteLineColumn
      <4>1. /\ pos <= Len(schema) /\ pos' = pos + 1 /\ ComplexLineColumn(schema[pos])
            /\ phase = "line"
        BY <3>2 DEF WriteLineColumn
      <4>2. LineFields(line, pos) /\ Counts(InLines)
        BY <4>1 DEF ComplexWalks
      <4>3. /\ LineFields(line', pos + 1)
            /\ count' > 0 <=> Before(InLines, pos + 1) # {}
            /\ count' = 0 => line' = FirstField
        BY <4>1, <4>2, LineColumnWrites
      <4>4. InLines' = InLines
        BY <2>1, FieldsStay
      <4> QED
        BY <2>1, <4>1, <4>3, <4>4 DEF Counts, Before, LineFields, FirstField
    <3>3. CASE EndLine \/ Finish
      BY <3>3 DEF EndLine, Finish
    <3> QED
      BY <1>4, <3>1, <3>2, <3>3
  <2> QED
    BY <2>1, <2>3, <2>4 DEF ComplexWalks
<1>5. CASE Fails
  BY <1>5 DEF Fails, ComplexWalks
<1>6. CASE UNCHANGED vars
  <2>1. /\ UNCHANGED <<phase, pos, line, count, header, simple, schema>> /\ UNCHANGED layer
    BY <1>6 DEF vars, layer, download
  <2>2. Candidates' = Candidates /\ InHeader' = InHeader /\ InLines' = InLines
    BY <2>1, FieldsStay
  <2> QED
    BY <2>1, <2>2 DEF ComplexWalks, HeaderFields, LineFields, Counts, Before, FirstField
<1>7. CASE Ended
  BY <1>6, <1>7 DEF Ended
<1> QED BY <1>1, <1>2, <1>3, <1>4, <1>5, <1>6, <1>7 DEF Next

(* Without Straight, a line is not the header: they have different columns *)
(* or the header has a field without text.                                 *)
LEMMA Crooked ==
  ASSUME TypeOK, NEW h, NEW l, HeaderFields(h, Len(schema) + 1),
         LineFields(l, Len(schema) + 1), h = l
  PROVE  Straight
<1>1. /\ Candidates \subseteq 1..Len(schema) /\ Len(schema) \in Nat
      /\ InHeader \subseteq Candidates /\ InLines \subseteq Candidates
  BY ShownAreColumns, SchemaType
<1>2. /\ Before(InHeader, Len(schema) + 1) = InHeader
      /\ Before(InLines, Len(schema) + 1) = InLines
  <2>1. \A i \in Candidates : i < Len(schema) + 1
    BY <1>1
  <2> QED
    BY <1>1, <2>1 DEF Before
<1>3. {schema[i] : i \in InHeader} = {schema[i] : i \in InLines}
  BY <1>2 DEF HeaderFields, LineFields
<1>4. {i \in DOMAIN schema : schema[i] \notin Links} = Candidates
  BY SchemaType DEF Candidates
<1>5. ASSUME NEW i \in Candidates
      PROVE  include(ElementName[schema[i]]) <=> include(FullName[schema[i]])
  <2>1. CASE include(ElementName[schema[i]])
    <3>1. schema[i] \in {schema[k] : k \in InLines}
      BY <1>3, <2>1 DEF InHeader
    <3> QED
      BY <2>1, <3>1 DEF InLines
  <2>2. CASE include(FullName[schema[i]])
    <3>1. schema[i] \in {schema[k] : k \in InHeader}
      BY <1>3, <2>2 DEF InLines
    <3> QED
      BY <2>2, <3>1 DEF InHeader
  <2> QED
    BY <2>1, <2>2
<1>6. ASSUME NEW i \in Candidates, NEW j \in Candidates, i < j,
             include(ElementName[schema[i]]), ~include(ElementName[schema[j]])
      PROVE  FALSE
  <2>1. i \in InHeader /\ j \in Candidates \ InHeader /\ j < Len(schema) + 1
    BY <1>1, <1>6 DEF InHeader
  <2>2. Gap(h)
    BY <1>6, <2>1 DEF HeaderFields
  <2>3. InLines # {}
    BY <1>3, <2>1
  <2> QED
    BY <1>2, <2>2, <2>3 DEF LineFields
<1> QED
  BY <1>4, <1>5, <1>6 DEF Straight, NamedAlike, PlainColumns

-----------------------------------------------------------------------------
(* One walk *)

(* Each walk takes its step for a column; the header's walk of a complex   *)
(* type does if the type is Straight: no comma is due before a column that *)
(* it excludes.                                                            *)
LEMMA StepType ==
  ASSUME TypeOK, NEW w \in Walks, NEW i \in 1..Len(schema)
  PROVE  Step(w, i) \in Walks
<1>1. schema[i] \in Columns /\ w.line \in Lines /\ w.count \in Nat
  BY SchemaType DEF Walks
<1> QED
  BY <1>1, FieldsType DEF Step, Walks

LEMMA LineWalkSteps ==
  ASSUME WriteLineColumn
  PROVE  Walk' = Step(Walk, pos)
  BY DEF WriteLineColumn, SimpleColumn, ComplexLineColumn, Step, Walk

LEMMA HeaderWalkSteps ==
  ASSUME TypeOK, PhaseOK, ComplexWalks, WriteHeaderColumn, Regular
  PROVE  Walk' = Step(Walk, pos)
<1> DEFINE c == schema[pos]
<1>1. CASE simple
  BY <1>1 DEF WriteHeaderColumn, SimpleColumn, Step, Walk
<1>2. CASE ~simple
  <2>1. Straight /\ Counts(InHeader) /\ ComplexHeaderColumn(c)
        /\ pos \in 1..Len(schema) /\ Len(schema) \in Nat /\ count \in Nat
    BY <1>2, SchemaType DEF Regular, ComplexWalks, WriteHeaderColumn, TypeOK
  <2>2. CASE c \in Links
    BY <1>2, <2>1, <2>2 DEF ComplexHeaderColumn, Step, Walk, TextIf, CommaIf
  <2>3. CASE c \notin Links
    <3>1. DOMAIN schema = 1..Len(schema)
      BY SchemaType
    <3>2. include(ElementName[c]) <=> include(FullName[c])
      BY <2>1, <2>3, <3>1 DEF Straight, NamedAlike, PlainColumns
    <3>3. count > 0 => include(ElementName[c])
      <4> SUFFICES ASSUME count > 0 PROVE include(ElementName[c])
        OBVIOUS
      <4>1. PICK i \in InHeader : i < pos
        BY <2>1 DEF Counts, Before
      <4>2. i \in 1..Len(schema) /\ schema[i] \notin Links /\ include(ElementName[schema[i]])
        BY <4>1 DEF InHeader, Candidates
      <4> QED
        BY <2>1, <2>3, <3>1, <4>1, <4>2 DEF Straight, NamedAlike, PlainColumns
    <3>4. CASE include(FullName[c])
      BY <1>2, <2>1, <2>3, <3>2, <3>4 DEF ComplexHeaderColumn, Step, Walk, TextIf, CommaIf
    <3>5. CASE ~include(FullName[c])
      BY <1>2, <2>1, <2>3, <3>2, <3>3, <3>5 DEF ComplexHeaderColumn, Step, Walk, TextIf, CommaIf
    <3> QED
      BY <3>4, <3>5
  <2> QED
    BY <2>2, <2>3
<1> QED
  BY <1>1, <1>2

(* What comes after a column depends on the layer alone.                   *)
LEMMA StepStays ==
  ASSUME UNCHANGED layer, NEW w, NEW i
  PROVE  Step(w, i)' = Step(w, i)
  BY DEF layer, download, lookup, Step, include

LEMMA RegularStays ==
  ASSUME UNCHANGED layer
  PROVE  Regular' <=> Regular
  BY DEF layer, download, lookup, Regular, Straight, NamedAlike, PlainColumns, include

(* The trace goes on as long as the header is written.                     *)
LEMMA TraceGrows ==
  ASSUME TypeOK, PhaseOK, ComplexWalks, WriteHeaderColumn, Regular,
         NEW H, IsTrace(H), Walk = H[pos]
  PROVE  \E G : IsTrace(G)' /\ Walk' = G[pos']
<1> DEFINE G == [i \in 1..(pos + 1) |-> IF i = pos + 1 THEN Walk' ELSE H[i]]
<1>1. /\ pos \in Nat \ {0} /\ pos <= Len(schema) /\ Len(schema) \in Nat
      /\ pos' = pos + 1 /\ schema[pos] \in Columns
  BY SchemaType DEF WriteHeaderColumn, TypeOK
<1>2. HeaderPos = pos /\ HeaderPos' = pos + 1 /\ UNCHANGED layer
  BY <1>1 DEF WriteHeaderColumn, HeaderPos
<1>4. \A i \in 1..pos : H[i] \in Walks
  BY <1>2 DEF IsTrace
<1>3. Walk' = Step(Walk, pos) /\ Walk' \in Walks
  BY <1>1, <1>4, HeaderWalkSteps, StepType
<1>5. \A i \in 1..(pos + 1) : G[i] \in Walks
  BY <1>1, <1>3, <1>4
<1>6. G \in [1..(pos + 1) -> Walks] /\ G[1] = FirstWalk /\ G[pos + 1] = Walk'
  <2>1. G[1] = H[1] /\ G[pos + 1] = Walk'
    BY <1>1
  <2> QED BY <1>5, <2>1 DEF IsTrace
<1>7. ASSUME NEW i \in 1..(pos + 1), i + 1 \in 1..(pos + 1)
      PROVE  G[i + 1] = Step(G[i], i)
  <2>1. i \in 1..pos /\ G[i] = H[i]
    BY <1>1, <1>7
  <2>2. CASE i = pos
    BY <1>1, <1>3, <1>6, <2>1, <2>2
  <2>3. CASE i # pos
    <3>1. i + 1 \in 1..pos /\ G[i + 1] = H[i + 1]
      BY <1>1, <2>1, <2>3
    <3>2. H[i + 1] = Step(H[i], i)
      BY <1>2, <2>1, <3>1 DEF IsTrace
    <3> QED BY <2>1, <3>1, <3>2
  <2> QED BY <2>2, <2>3
<1>8. PICK F : F = G
  OBVIOUS
<1> HIDE DEF G
<1>9. /\ F \in [1..(pos + 1) -> Walks] /\ F[1] = FirstWalk /\ F[pos + 1] = Walk'
      /\ \A i \in 1..(pos + 1) : i + 1 \in 1..(pos + 1) => F[i + 1] = Step(F[i], i)
  BY <1>6, <1>7, <1>8
<1>10. \A i \in 1..(pos + 1) : i + 1 \in 1..(pos + 1) => F[i + 1] = Step(F[i], i)'
  BY <1>2, <1>9, StepStays
<1>11. IsTrace(F)' /\ Walk' = F[pos']
  BY <1>1, <1>2, <1>9, <1>10 DEF IsTrace
<1> QED BY <1>11

(* The trace stays when nothing that it depends on changes.                *)
LEMMA TraceStays ==
  ASSUME UNCHANGED layer, HeaderPos' = HeaderPos, NEW H, IsTrace(H)
  PROVE  IsTrace(H)'
<1>1. \A i \in 1..HeaderPos : Step(H[i], i)' = Step(H[i], i)
  BY StepStays
<1> QED BY <1>1 DEF IsTrace

(* A line's column is where the trace has it.                              *)
LEMMA LineFollowsTrace ==
  ASSUME TypeOK, PhaseOK, WriteLineColumn, NEW H, IsTrace(H), Walk = H[pos]
  PROVE  Walk' = H[pos']
<1>1. /\ pos \in 1..Len(schema) /\ pos + 1 \in 1..(Len(schema) + 1)
      /\ pos \in 1..(Len(schema) + 1) /\ pos' = pos + 1
      /\ HeaderPos = Len(schema) + 1
  BY SchemaType DEF WriteLineColumn, TypeOK, HeaderPos
<1>2. H[pos + 1] = Step(H[pos], pos)
  BY <1>1 DEF IsTrace
<1> QED BY <1>1, <1>2, LineWalkSteps

LEMMA FirstTrace ==
  /\ [i \in 1..1 |-> FirstWalk] \in [1..1 -> Walks]
  /\ [i \in 1..1 |-> FirstWalk][1] = FirstWalk
  BY FirstFieldType DEF FirstWalk, Walks

LEMMA WalkInit ==
  ASSUME Init
  PROVE  OneWalk /\ AlignedExactly
<1> DEFINE G == [i \in 1..1 |-> FirstWalk]
<1>1. HeaderPos = 1 /\ Walk = FirstWalk /\ pos = 1 /\ phase = "lookup" /\ rows = <<>>
  BY DEF Init, HeaderPos, Walk, FirstWalk
<1>2. PICK F : F = G
  OBVIOUS
<1>3. IsTrace(F) /\ Walk = F[pos]
  BY <1>1, <1>2, FirstTrace DEF IsTrace
<1> QED BY <1>1, <1>3 DEF OneWalk, AlignedExactly

LEMMA WalkStep ==
  ASSUME IInv, [Next]_vars
  PROVE  OneWalk' /\ AlignedExactly'
<1> USE DEF IInv
<1>0. /\ Len(schema) \in Nat /\ pos \in 1..(Len(schema) + 1)
      /\ rows \in Seq(Seq(Field))
  BY SchemaType DEF TypeOK
<1>1. ASSUME LookUp \/ \E l \in Layers : AddOrRemove(l)
      PROVE  OneWalk' /\ AlignedExactly'
  <2> DEFINE G == [i \in 1..1 |-> FirstWalk]
  <2>1. /\ phase = "lookup" /\ phase' \in {"lookup", "header", "failed"} /\ pos' = 1
        /\ line' = FirstField /\ count' = 0 /\ rows' = <<>>
    BY <1>1 DEF LookUp, AddOrRemove, PhaseOK
  <2>2. CASE phase' = "failed"
    BY <2>1, <2>2 DEF OneWalk, AlignedExactly
  <2>3. CASE phase' # "failed"
    <3>1. HeaderPos' = 1 /\ Walk' = FirstWalk /\ FirstWalk' = FirstWalk
      BY <2>1, <2>3 DEF HeaderPos, Walk, FirstWalk, FirstField
    <3>2. PICK F : F = G
      OBVIOUS
    <3>3. F \in [1..1 -> Walks] /\ F[1] = FirstWalk
      BY <3>2, FirstTrace
    <3>4. IsTrace(F)' /\ Walk' = F[pos']
      BY <2>1, <3>1, <3>3 DEF IsTrace, Walks, Lines, Field
    <3> QED BY <2>1, <2>3, <3>4 DEF OneWalk, AlignedExactly
  <2> QED BY <2>2, <2>3
<1>2. CASE WriteHeaderColumn
  <2>1. phase = "header" /\ phase' = "header" /\ UNCHANGED layer /\ rows' = rows
        /\ rows = <<>>
    BY <1>2 DEF WriteHeaderColumn, PhaseOK
  <2>2. Regular' => \E G : IsTrace(G)' /\ Walk' = G[pos']
    BY <1>2, <2>1, TraceGrows, RegularStays DEF OneWalk
  <2> QED BY <2>1, <2>2 DEF OneWalk, AlignedExactly
<1>3. CASE EndHeader
  <2>1. /\ phase = "header" /\ phase' = "features" /\ header' = line
        /\ rows = <<>> /\ rows' = <<>> /\ pos = Len(schema) + 1 /\ schema' = schema
        /\ HeaderPos = pos /\ HeaderPos' = pos /\ UNCHANGED layer
    BY <1>0, <1>3 DEF EndHeader, PhaseOK, layer, download, HeaderPos
  <2>2. ASSUME Regular
        PROVE  \E H : IsTrace(H)' /\ header' = H[Len(schema') + 1].line
    <3>1. PICK H : IsTrace(H) /\ Walk = H[pos]
      BY <2>1, <2>2 DEF OneWalk
    <3>2. IsTrace(H)'
      BY <2>1, <3>1, TraceStays
    <3>3. H[pos].line = line
      BY <3>1 DEF Walk
    <3> QED BY <2>1, <3>2, <3>3
  <2> QED BY <2>1, <2>2, RegularStays DEF OneWalk, AlignedExactly
<1>4. ASSUME StartLine \/ WriteLineColumn \/ EndLine \/ Finish
      PROVE  OneWalk'
  <2>1. /\ phase \in {"features", "line"} /\ phase' \in {"features", "line", "done"}
        /\ UNCHANGED layer /\ schema' = schema /\ header' = header
        /\ HeaderPos = Len(schema) + 1 /\ HeaderPos' = Len(schema) + 1
    BY <1>4 DEF StartLine, WriteLineColumn, EndLine, Finish, layer, download, HeaderPos
  <2> SUFFICES ASSUME Regular PROVE OneWalk'
    BY <2>1, RegularStays DEF OneWalk
  <2>2. PICK H : /\ IsTrace(H)
                 /\ phase = "line" => Walk = H[pos]
                 /\ header = H[Len(schema) + 1].line
    BY <2>1 DEF OneWalk
  <2>3. IsTrace(H)'
    BY <2>1, <2>2, TraceStays
  <2>4. CASE StartLine
    <3>1. pos' = 1 /\ Walk' = FirstWalk
      BY <2>4 DEF StartLine, Walk, FirstWalk
    <3>2. Walk' = H[pos']
      BY <2>2, <3>1 DEF IsTrace
    <3> QED BY <2>1, <2>2, <2>3, <3>2 DEF OneWalk
  <2>5. CASE WriteLineColumn
    <3>1. Walk' = H[pos']
      BY <2>2, <2>5, LineFollowsTrace DEF WriteLineColumn
    <3> QED BY <2>1, <2>2, <2>3, <3>1 DEF OneWalk
  <2>6. CASE EndLine \/ Finish
    <3>1. phase' \in {"features", "done"}
      BY <2>6 DEF EndLine, Finish
    <3> QED BY <2>1, <2>2, <2>3, <3>1 DEF OneWalk
  <2> QED BY <1>4, <2>4, <2>5, <2>6
<1>5. CASE StartLine \/ WriteLineColumn \/ Finish
  <2>1. rows' = rows /\ header' = header /\ UNCHANGED layer
    BY <1>5 DEF StartLine, WriteLineColumn, Finish
  <2>2. AlignedExactly'
    BY <2>1, RegularStays DEF AlignedExactly, Regular
  <2> QED BY <1>4, <1>5, <2>2
<1>6. CASE EndLine
  <2>1. /\ phase = "line" /\ rows' = Append(rows, line) /\ pos = Len(schema) + 1
        /\ header' = header /\ UNCHANGED layer
    BY <1>0, <1>6 DEF EndLine
  <2>2. Regular => line = header
    <3> SUFFICES ASSUME Regular PROVE line = header
      OBVIOUS
    <3>1. PICK H : Walk = H[pos] /\ header = H[Len(schema) + 1].line
      BY <2>1 DEF OneWalk
    <3> QED BY <2>1, <3>1 DEF Walk
  <2>3. line = header => Regular
    BY <2>1, Crooked DEF ComplexWalks, Regular
  <2>4. \A i \in DOMAIN rows' : rows'[i] = header <=> Regular
    <3>1. \A i \in DOMAIN rows : rows[i] = header <=> Regular
      BY DEF AlignedExactly, Regular
    <3>2. \A i \in DOMAIN rows' : rows'[i] = line \/ (i \in DOMAIN rows /\ rows'[i] = rows[i])
      BY <1>0, <2>1
    <3> QED BY <2>2, <2>3, <3>1, <3>2
  <2>5. AlignedExactly'
    BY <2>1, <2>4, RegularStays DEF AlignedExactly, Regular
  <2> QED BY <1>4, <1>6, <2>5
<1>7. CASE Fails
  <2>1. rows' = rows /\ header' = header /\ UNCHANGED layer /\ phase' = "failed"
    BY <1>7 DEF Fails
  <2> QED BY <2>1, RegularStays DEF OneWalk, AlignedExactly, Regular
<1>8. CASE UNCHANGED vars
  <2>1. /\ UNCHANGED layer /\ HeaderPos' = HeaderPos /\ Walk' = Walk
        /\ UNCHANGED <<phase, pos, header, rows, schema>>
    BY <1>8 DEF vars, layer, download, HeaderPos, Walk
  <2>2. OneWalk'
    <3> SUFFICES ASSUME Regular, phase # "failed" PROVE OneWalk'
      BY <2>1, RegularStays DEF OneWalk
    <3>1. PICK H : /\ IsTrace(H)
                   /\ phase \in {"lookup", "header", "line"} => Walk = H[pos]
                   /\ phase \notin {"lookup", "header"} => header = H[Len(schema) + 1].line
      BY DEF OneWalk
    <3>2. IsTrace(H)'
      BY <2>1, <3>1, TraceStays
    <3> QED BY <2>1, <3>1, <3>2 DEF OneWalk
  <2> QED BY <2>1, <2>2, RegularStays DEF AlignedExactly, Regular
<1>9. CASE Ended
  BY <1>8, <1>9 DEF Ended
<1> QED BY <1>1, <1>2, <1>3, <1>5, <1>6, <1>7, <1>8, <1>9 DEF Next

(* IInv is inductive.                                                      *)
LEMMA Invariant == Spec => []IInv
<1>1. Init => IInv
  BY TypeInit, ComplexInit, WalkInit DEF IInv
<1>2. IInv /\ [Next]_vars => IInv'
  BY TypeStep, ComplexStep, WalkStep DEF IInv
<1> QED BY <1>1, <1>2, PTL DEF Spec

(* Every variable keeps its type.                                          *)
THEOREM TypeCorrect == Spec => []TypeOK
<1>1. IInv => TypeOK
  BY DEF IInv
<1> QED BY <1>1, Invariant, PTL

(* The features are closed however a download ends.                        *)
THEOREM FeaturesAlwaysClosed == Spec => []FeaturesClosed
<1>1. IInv => FeaturesClosed
  BY DEF IInv, PhaseOK, FeaturesClosed
<1> QED BY <1>1, Invariant, PTL

(* Each line of a file has the fields of its header if the type is a       *)
(* simple one or Straight, for any columns, names, links, exclusions and   *)
(* number of features.                                                     *)
THEOREM AlwaysAligned == Spec => []Aligned
<1>1. IInv => Aligned
  BY DEF IInv, AlignedExactly, Aligned, Regular
<1> QED BY <1>1, Invariant, PTL

(* No line has if it is neither: a column that is excluded after one that  *)
(* is not leaves a comma in the header and none in the lines, and one that *)
(* is known to the walks under names that are not excluded alike is in one *)
(* of them only.                                                           *)
THEOREM AlignedOnlyIfRegular == Spec => []AlignedExactly
<1>1. IInv => AlignedExactly
  BY DEF IInv
<1> QED BY <1>1, Invariant, PTL

-----------------------------------------------------------------------------
(* The columns of a simple type *)

Filled(fields) == {i \in DOMAIN fields : fields[i] \in Columns}

LEMMA FilledFinite ==
  ASSUME NEW l \in Lines
  PROVE  /\ DOMAIN l = 1..Len(l) /\ Len(l) \in Nat \ {0}
         /\ Filled(l) \in FiniteNats
<1>1. l \in Seq(Field) /\ l # <<>>
  BY DEF Lines
<1>2. DOMAIN l = 1..Len(l) /\ Len(l) \in Nat \ {0} /\ DOMAIN l \in FiniteNats
  BY <1>1, AtAll, EmptySeq, LenProperties
<1>3. Filled(l) \in SUBSET DOMAIN l
  BY DEF Filled
<1>4. IsFiniteSet(Filled(l))
  BY <1>2, <1>3, FS_Subset DEF FiniteNats
<1> QED
  BY <1>2, <1>3, <1>4 DEF FiniteNats

(* A comma has no column's text.                                           *)
LEMMA CommaColumns ==
  ASSUME NEW l \in Lines
  PROVE  /\ ColumnsOf(Comma(l)) = ColumnsOf(l)
         /\ Comma(l) \in Lines /\ Comma(l)[Len(Comma(l))] = Blank
<1> DEFINE m == Append(l, Blank)
<1>1. /\ l \in Seq(Field) /\ Blank \in Field /\ Blank \notin Columns
      /\ Len(l) \in Nat \ {0} /\ Filled(l) \in FiniteNats /\ DOMAIN l = 1..Len(l)
  BY FilledFinite, RestrictedCsvAssumption DEF Lines, Field
<1>2. /\ m \in Seq(Field) /\ Len(m) = Len(l) + 1 /\ DOMAIN m = 1..(Len(l) + 1)
      /\ \A i \in 1..Len(l) : m[i] = l[i]
      /\ m[Len(l) + 1] = Blank
  BY <1>1
<1>3. Filled(m) = Filled(l)
  <2> HIDE DEF m
  <2>1. \A i \in 1..(Len(l) + 1) : i \in 1..Len(l) \/ i = Len(l) + 1
    BY <1>1
  <2>2. 1..Len(l) \subseteq 1..(Len(l) + 1)
    BY <1>1
  <2> QED
    BY <1>1, <1>2, <2>1, <2>2 DEF Filled
<1>4. \A p \in Filled(l) : l[p] = m[p]
  <2> HIDE DEF m
  <2> QED
    BY <1>1, <1>2 DEF Filled
<1> HIDE DEF m
<1>5. At(l, Filled(l)) = At(m, Filled(l))
  BY <1>1, <1>4, AtSame
<1> QED
  BY <1>2, <1>3, <1>5, CommaType DEF m, ColumnsOf, Filled, Comma

(* A text in a field that nothing wrote to is one column more.             *)
LEMMA TextColumns ==
  ASSUME NEW l \in Lines, NEW c \in Columns, l[Len(l)] = Blank
  PROVE  /\ ColumnsOf(Text(l, c)) = Append(ColumnsOf(l), c)
         /\ Text(l, c) \in Lines
<1> DEFINE n == Len(l)
           m == [l EXCEPT ![n] = c]
           P == Filled(l)
<1>1. /\ Blank \notin Columns /\ n \in Nat \ {0} /\ P \in FiniteNats
      /\ DOMAIN l = 1..n
  BY FilledFinite, RestrictedCsvAssumption
<1>2. /\ DOMAIN m = 1..n /\ m[n] = c /\ n \in 1..n
      /\ \A i \in 1..n : i # n => m[i] = l[i]
  BY <1>1
<1>3. n \notin P /\ P \subseteq 1..n
  BY <1>1 DEF Filled
<1>4. Filled(m) = P \cup {n}
  <2> HIDE DEF m, n
  <2> QED
    BY <1>1, <1>2, <1>3 DEF Filled, n
<1>5. \A p \in P : p < n /\ l[p] = m[p]
  <2> HIDE DEF m, n, P
  <2> QED
    BY <1>1, <1>2, <1>3
<1> HIDE DEF m, n, P
<1>6. At(l, P) = At(m, P)
  BY <1>1, <1>5, AtSame
<1>7. At(m, P \cup {n}) = Append(At(m, P), m[n])
  BY <1>1, <1>5, AtMore
<1>8. At(m, Filled(m)) = Append(At(l, P), c)
  BY <1>2, <1>4, <1>6, <1>7
<1> QED
  BY <1>8, TextType DEF m, n, P, ColumnsOf, Filled, Text

(* The columns that a walk has passed and that are not excluded.           *)
Included(p) == {i \in 1..Len(schema) : i < p /\ include(LocalName[schema[i]])}

LEMMA IncludedMore ==
  ASSUME TypeOK, NEW p \in 1..Len(schema)
  PROVE  /\ Included(p) \in FiniteNats /\ \A i \in Included(p) : i < p
         /\ Included(p + 1) = IF include(LocalName[schema[p]])
                              THEN Included(p) \cup {p} ELSE Included(p)
<1>1. Len(schema) \in Nat
  BY SchemaType
<1>2. IsFiniteSet(1..Len(schema))
  BY <1>1, FS_Interval
<1>3. Included(p) \in SUBSET (1..Len(schema))
  BY DEF Included
<1>4. IsFiniteSet(Included(p))
  BY <1>2, <1>3, FS_Subset
<1>5. \A i \in 1..Len(schema) : i < p + 1 <=> i < p \/ i = p
  BY <1>1
<1>6. \A i \in Included(p + 1) : i \in Included(p) \/ (i = p /\ include(LocalName[schema[p]]))
  BY <1>5 DEF Included
<1>7. Included(p) \subseteq Included(p + 1)
  BY <1>5 DEF Included
<1>8. include(LocalName[schema[p]]) => p \in Included(p + 1)
  BY <1>5 DEF Included
<1>9. \A i \in Included(p) : i < p
  BY DEF Included
<1>10. Included(p) \in FiniteNats
  BY <1>1, <1>3, <1>4 DEF FiniteNats
<1> HIDE DEF Included
<1> QED
  BY <1>6, <1>7, <1>8, <1>9, <1>10

(* Once the catalog was asked, the exclusions are those of a layer that it *)
(* found.                                                                  *)
Looked ==
  /\ hasQuery => \E l \in found : excluded = configured[l]
  /\ ~hasQuery => excluded = {}

(* A walk of a simple type has written the columns that it has passed and  *)
(* that are not excluded, and left a field for the next one.               *)
Passed(l, p) ==
  /\ l \in Lines /\ ColumnsOf(l) = At(schema, Included(p))
  /\ p <= Len(schema) => l[Len(l)] = Blank

ColumnsInv ==
  /\ phase \in {"lookup", "header"} => header = <<>>
  /\ phase \in {"header", "features", "line", "done"} \/ header # <<>> => Looked
  /\ simple =>
       /\ phase = "lookup" => pos = 1 /\ line = FirstField
       /\ phase = "header" => Passed(line, pos)
       /\ header # <<>> => Passed(header, Len(schema) + 1)

LEMMA FirstPassed ==
  ASSUME TypeOK
  PROVE  Passed(FirstField, 1)
<1>1. FirstField \in Lines /\ Len(FirstField) = 2 /\ FirstField[1] = Id /\ FirstField[2] = Blank
  BY FirstFieldType DEF FirstField
<1>2. Filled(FirstField) = {}
  BY <1>1, RestrictedCsvAssumption DEF Filled, FirstField
<1>3. Included(1) = {}
  BY SchemaType DEF Included
<1>4. {} \in FiniteNats
  BY FS_EmptySet DEF FiniteNats
<1>5. At(FirstField, {}) = At(schema, {})
  BY <1>4, AtSame
<1>6. ColumnsOf(FirstField) = At(schema, Included(1))
  BY <1>2, <1>3, <1>5 DEF ColumnsOf, Filled
<1> QED
  BY <1>1, <1>6 DEF Passed

LEMMA PassedMore ==
  ASSUME TypeOK, pos <= Len(schema), Passed(line, pos), SimpleColumn(schema[pos])
  PROVE  /\ line' \in Lines /\ ColumnsOf(line') = At(schema, Included(pos + 1))
         /\ pos + 1 <= Len(schema) => line'[Len(line')] = Blank
<1> DEFINE c == schema[pos]
           P == Included(pos)
           text == Text(line, c)
<1>1. pos \in 1..Len(schema) /\ Len(schema) \in Nat /\ c \in Columns
  BY SchemaType DEF TypeOK
<1>2. line \in Lines /\ ColumnsOf(line) = At(schema, P) /\ line[Len(line)] = Blank
  BY DEF Passed
<1>3. /\ P \in FiniteNats /\ \A i \in P : i < pos
      /\ Included(pos + 1) = IF include(LocalName[c]) THEN P \cup {pos} ELSE P
  BY <1>1, IncludedMore
<1>4. pos < Len(schema) <=> pos + 1 <= Len(schema)
  BY <1>1
<1>5. CASE ~include(LocalName[c])
  BY <1>2, <1>3, <1>5 DEF SimpleColumn, CommaIf, TextIf
<1>6. CASE include(LocalName[c])
  <2>1. line' = CommaIf(pos < Len(schema), text)
    BY <1>6 DEF SimpleColumn, CommaIf, TextIf
  <2>2. At(schema, P \cup {pos}) = Append(At(schema, P), c)
    <3>1. P \in FiniteNats /\ pos \in Nat /\ \A i \in P : i < pos
      BY <1>1, <1>3
    <3> HIDE DEF P
    <3> QED
      BY <3>1, AtMore
  <2>3. text \in Lines /\ ColumnsOf(text) = At(schema, Included(pos + 1))
    BY <1>1, <1>2, <1>3, <1>6, <2>2, TextColumns
  <2> HIDE DEF text
  <2>4. CASE pos < Len(schema)
    BY <2>1, <2>3, <2>4, CommaColumns DEF CommaIf
  <2>5. CASE ~(pos < Len(schema))
    BY <1>4, <2>1, <2>3, <2>5 DEF CommaIf
  <2> QED
    BY <2>4, <2>5
<1> QED
  BY <1>5, <1>6

(* What has been passed depends on the type and the exclusions alone.      *)
LEMMA PassedStays ==
  ASSUME UNCHANGED <<schema, excluded>>, NEW l, NEW p
  PROVE  Passed(l, p)' <=> Passed(l, p)
  BY DEF Passed, Lines, Field, ColumnsOf, Included, include

LEMMA ColumnsInit ==
  ASSUME Init
  PROVE  ColumnsInv
  BY DEF Init, ColumnsInv

LEMMA ColumnsStep ==
  ASSUME IInv, ColumnsInv, [Next]_vars
  PROVE  ColumnsInv'
<1> USE DEF ColumnsInv
<1>0. TypeOK /\ PhaseOK /\ TypeOK'
  BY TypeStep DEF IInv
<1>1. CASE LookUp
  <2>1. header = <<>> /\ header' = <<>> /\ pos' = pos /\ line' = line /\ simple' = simple
    BY <1>1 DEF LookUp, download
  <2>2. phase' = "header" => Looked'
    BY <1>1 DEF LookUp, getLayer, Looked, download
  <2>3. phase' \in {"header", "failed"} /\ schema' = schema
    BY <1>1 DEF LookUp, download
  <2>4. simple => Passed(FirstField, 1)'
    <3>1. Passed(FirstField, 1)' <=> Passed(FirstField, 1)
      <4>1. Included(1) = {} /\ Included(1)' = {}
        BY <1>0, <2>3, SchemaType DEF Included
      <4> QED
        BY <2>3, <4>1 DEF Passed, Lines, Field, ColumnsOf, FirstField
    <3> QED
      BY <1>0, <3>1, FirstPassed
  <2>5. simple => pos' = 1 /\ line' = FirstField
    BY <1>1, <2>1 DEF LookUp
  <2>6. simple => Passed(line, pos)'
    BY <2>4, <2>5 DEF Passed, FirstField
  <2> QED
    BY <2>1, <2>2, <2>3, <2>6
<1>2. CASE \E l \in Layers : AddOrRemove(l)
  BY <1>2 DEF AddOrRemove, download
<1>3. CASE WriteHeaderColumn
  <2>1. /\ phase = "header" /\ phase' = "header" /\ header = <<>> /\ header' = <<>>
        /\ UNCHANGED layer /\ pos <= Len(schema) /\ pos' = pos + 1
    BY <1>3 DEF WriteHeaderColumn
  <2>2. Looked'
    BY <2>1 DEF layer, download, lookup, Looked
  <2>3. simple => Passed(line, pos)'
    <3> SUFFICES ASSUME simple PROVE Passed(line, pos)'
      OBVIOUS
    <3>1. SimpleColumn(schema[pos]) /\ Passed(line, pos)
      BY <1>3, <2>1 DEF WriteHeaderColumn
    <3>2. /\ line' \in Lines /\ ColumnsOf(line') = At(schema, Included(pos + 1))
          /\ pos + 1 <= Len(schema) => line'[Len(line')] = Blank
      BY <1>0, <2>1, <3>1, PassedMore
    <3> QED
      BY <2>1, <3>2 DEF Passed, Lines, Field, ColumnsOf, Included, include, layer, download, lookup
  <2> QED
    BY <2>1, <2>2, <2>3 DEF layer, download
<1>4. CASE EndHeader
  <2>1. /\ phase = "header" /\ phase' = "features" /\ header' = line
        /\ UNCHANGED layer /\ pos = Len(schema) + 1
    BY <1>0, <1>4, SchemaType DEF EndHeader, TypeOK
  <2>2. Looked'
    BY <2>1 DEF layer, download, lookup, Looked
  <2>3. simple => Passed(header, Len(schema) + 1)'
    <3> SUFFICES ASSUME simple PROVE Passed(header, Len(schema) + 1)'
      OBVIOUS
    <3>1. Passed(line, Len(schema) + 1)
      BY <2>1
    <3> QED
      BY <2>1, <3>1 DEF Passed, Lines, Field, ColumnsOf, Included, include, layer, download, lookup
  <2> QED
    BY <2>1, <2>2, <2>3 DEF layer, download
<1>5. ASSUME StartLine \/ WriteLineColumn \/ EndLine \/ Finish \/ Fails \/ UNCHANGED vars
      PROVE  ColumnsInv'
  <2>1. /\ header' = header /\ UNCHANGED layer
        /\ \/ phase' = "failed"
           \/ phase \in {"features", "line"} /\ phase' \in {"features", "line", "done"}
           \/ phase' = phase /\ UNCHANGED <<pos, line>>
    BY <1>5 DEF StartLine, WriteLineColumn, EndLine, Finish, Fails, vars
  <2>2. Looked' <=> Looked
    BY <2>1 DEF layer, download, lookup, Looked
  <2>3. Passed(header, Len(schema) + 1)' <=> Passed(header, Len(schema) + 1)
    BY <2>1 DEF Passed, Lines, Field, ColumnsOf, Included, include, layer, download, lookup
  <2>4. UNCHANGED <<line, pos>> => (Passed(line, pos)' <=> Passed(line, pos))
    BY <2>1 DEF Passed, Lines, Field, ColumnsOf, Included, include, layer, download, lookup
  <2>5. FirstField' = FirstField /\ simple' = simple
    BY <2>1 DEF FirstField, layer, download
  <2> QED
    BY <2>1, <2>2, <2>3, <2>4, <2>5
<1>6. CASE Ended
  BY <1>5, <1>6 DEF Ended
<1> QED
  BY <1>1, <1>2, <1>3, <1>4, <1>5, <1>6 DEF Next

(* The header of a simple type names the columns that its layer's filters  *)
(* do not exclude, in the order of the type, if the catalog has no other   *)
(* layer of its name when it is asked, whatever is added or removed then.  *)
THEOREM ColumnsAlwaysShown == Spec => []ColumnsShown
<1>1. IInv /\ ColumnsInv => ColumnsShown
  <2> SUFFICES ASSUME IInv, ColumnsInv, simple, header # <<>>, hasQuery, found = {asked}
               PROVE  ColumnsOf(header) = Shown(configured[asked])
    BY DEF ColumnsShown
  <2>1. schema \in Seq(Columns) /\ Len(schema) \in Nat /\ DOMAIN schema = 1..Len(schema)
    BY SchemaType DEF IInv
  <2>2. /\ ColumnsOf(header) = At(schema, Included(Len(schema) + 1))
        /\ excluded = configured[asked]
    BY DEF ColumnsInv, Passed, Looked
  <2>3. Included(Len(schema) + 1) = {i \in DOMAIN schema : LocalName[schema[i]] \notin excluded}
    BY <2>1 DEF Included, include
  <2> QED
    BY <2>2, <2>3 DEF Shown
<1>2. Init => ColumnsInv
  BY ColumnsInit
<1>3. IInv /\ ColumnsInv /\ [Next]_vars => ColumnsInv'
  BY ColumnsStep
<1> QED
  BY <1>1, <1>2, <1>3, Invariant, PTL DEF Spec

=============================================================================
