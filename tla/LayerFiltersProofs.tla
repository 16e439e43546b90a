------------------------- MODULE LayerFiltersProofs -------------------------
(***************************************************************************)
(* Theorems about LayerFilters: type correctness, the invariants           *)
(* PagesRender and OnlyEnabledServed, and that a broken file stays broken. *)
(***************************************************************************)
EXTENDS LayerFilters, SequenceTheorems, WellFoundedInduction, TLAPS

(* A function on 1..n is a sequence of length n.                           *)
LEMMA FunctionIsSeq ==
  ASSUME NEW S, NEW n \in Nat, NEW f \in [1..n -> S]
  PROVE  f \in Seq(S) /\ Len(f) = n /\ DOMAIN f = 1..n
  BY SeqDef

(* What SubSeq takes from the middle of a sequence.                        *)
LEMMA PartOfSeq ==
  ASSUME NEW S, NEW s \in Seq(S), NEW m \in Nat, NEW n \in Nat,
         m < n, n <= Len(s)
  PROVE  /\ SubSeq(s, m + 1, n) \in Seq(S)
         /\ Len(SubSeq(s, m + 1, n)) = n - m
         /\ \A i \in 1..(n - m) : SubSeq(s, m + 1, n)[i] = s[m + i]
  OBVIOUS

(* Appending the next part of s to what was read of it.                    *)
LEMMA ReadAppends ==
  ASSUME NEW S, NEW got \in Seq(S), NEW s \in Seq(S), NEW n \in Nat,
         Len(got) < n, n <= Len(s)
  PROVE  LET more == got \o SubSeq(s, Len(got) + 1, n)
         IN  /\ more \in Seq(S)
             /\ \A i \in DOMAIN more : \/ i \in DOMAIN got /\ more[i] = got[i]
                                      \/ \E j \in DOMAIN s : more[i] = s[j]
<1> DEFINE part == SubSeq(s, Len(got) + 1, n)
           more == got \o part
<1>1. /\ Len(got) \in Nat /\ Len(s) \in Nat
      /\ DOMAIN got = 1..Len(got) /\ DOMAIN s = 1..Len(s)
  BY LenProperties
<1>2. /\ part \in Seq(S)
      /\ Len(part) = n - Len(got)
      /\ \A i \in 1..(n - Len(got)) : part[i] = s[Len(got) + i]
  BY <1>1, PartOfSeq
<1> HIDE DEF part
<1>3. /\ more \in Seq(S)
      /\ DOMAIN more = 1..n
      /\ \A i \in 1..n : more[i] = IF i <= Len(got) THEN got[i]
                                    ELSE part[i - Len(got)]
  <2>1. Len(got) + Len(part) = n
    BY <1>1, <1>2
  <2> QED
    BY <1>1, <1>2, <2>1, ConcatProperties, LenProperties
<1> HIDE DEF more
<1>4. \A i \in 1..n : ~(i <= Len(got)) => /\ i - Len(got) \in 1..(n - Len(got))
                                          /\ Len(got) + (i - Len(got)) = i
                                          /\ i \in DOMAIN s
  BY <1>1
<1>5. ASSUME NEW i \in 1..n
      PROVE  \/ i \in DOMAIN got /\ more[i] = got[i]
             \/ \E j \in DOMAIN s : more[i] = s[j]
  <2>1. CASE i <= Len(got)
    BY <1>1, <1>3, <2>1
  <2>2. CASE ~(i <= Len(got))
    BY <1>2, <1>3, <1>4, <2>2
  <2> QED
    BY <2>1, <2>2
<1> QED
  BY <1>3, <1>5 DEF more, part

(* A non-empty set of numbers in 1..n has a greatest element, so map() of  *)
(* FilterMerge finds a filter whenever there is one of that name.          *)
LEMMA GreatestIndex ==
  ASSUME NEW n \in Nat, NEW T \in SUBSET (1..n), T # {}
  PROVE  \E i \in T : \A j \in T : j <= i
<1> DEFINE D == {n - i : i \in T}
<1>1. D \subseteq Nat /\ D # {}
  <2>1. \A i \in T : i \in 1..n /\ n - i \in Nat
    OBVIOUS
  <2>2. PICK i \in T : TRUE
    OBVIOUS
  <2> QED
    BY <2>1, <2>2
<1>2. PICK d \in D : \A e \in D : ~(<<e, d>> \in OpToRel(<, Nat))
  BY <1>1, WFMin, NatLessThanWellFounded, Zenon
<1>3. \A e \in D : ~(e < d)
  BY <1>1, <1>2 DEF OpToRel
<1>4. PICK i \in T : d = n - i
  OBVIOUS
<1>5. \A j \in T : j <= i
  BY <1>3, <1>4
<1> QED
  BY <1>5

-----------------------------------------------------------------------------
(* Filters as values *)

LEMMA GetLabelType ==
  ASSUME NEW f \in Filter
  PROVE  GetLabel(f) \in Labels
  BY FiltersAssumption DEF GetLabel, Filter

LEMMA WriteFilterType ==
  ASSUME NEW f \in Filter
  PROVE  WriteFilter(f) \in Entry
  BY GetLabelType DEF WriteFilter, Entry, Filter

LEMMA ElementType ==
  ASSUME NEW f \in Filter
  PROVE  Element(f) \in Entry \cup {Garbage} /\ Element(f) \in Cells
  BY WriteFilterType DEF Element, Cells

LEMMA ParseFilterType ==
  ASSUME NEW e \in Entry
  PROVE  ParseFilter(e) \in Filter
  BY DEF ParseFilter, Entry, Filter

(* Merging a saved filter into a complete one yields a complete one, named *)
(* like it if both have one name: the page's rows never lack a check box's *)
(* value, whatever the saved element lacks.                                *)
LEMMA MergeFilterType ==
  ASSUME NEW left \in Filter, NEW other \in Filter \cup {NULL},
         left.visualised \in BOOLEAN, left.excludedFromDownload \in BOOLEAN
  PROVE  /\ MergeFilter(left, other) \in Filter
         /\ MergeFilter(left, other).visualised \in BOOLEAN
         /\ MergeFilter(left, other).excludedFromDownload \in BOOLEAN
         /\ (other # NULL => other.name = left.name)
              => MergeFilter(left, other).name = left.name
<1> DEFINE right == Coalesce(other, left)
<1>1. right \in Filter
  BY DEF Coalesce
<1>2. GetLabel(right) \in Labels /\ GetLabel(left) \in Labels
  BY <1>1, GetLabelType
<1>3. /\ right.name # NULL /\ right.enabled # NULL
      /\ GetLabel(right) # NULL
  BY <1>1, <1>2, FiltersAssumption DEF Filter
<1>4. MergeFilter(left, other) =
        [name                 |-> right.name,
         type                 |-> Coalesce(right.type, left.type),
         label                |-> GetLabel(right),
         enabled              |-> right.enabled,
         visualised           |-> Coalesce(right.visualised, left.visualised),
         excludedFromDownload |-> Coalesce(right.excludedFromDownload,
                                           left.excludedFromDownload),
         extras               |-> right.extras]
  BY <1>3 DEF MergeFilter, Coalesce
<1> HIDE DEF right
<1>5. /\ Coalesce(right.type, left.type) \in Types \cup {NULL}
      /\ Coalesce(right.visualised, left.visualised) \in BOOLEAN
      /\ Coalesce(right.excludedFromDownload, left.excludedFromDownload)
           \in BOOLEAN
  BY <1>1 DEF Coalesce, Filter
<1>6. (other # NULL => other.name = left.name) => right.name = left.name
  BY DEF right, Coalesce
<1>7. MergeFilter(left, other) \in Filter
  BY <1>1, <1>2, <1>4, <1>5 DEF Filter
<1> QED
  BY <1>4, <1>5, <1>6, <1>7

LEMMA FilterNamedType ==
  ASSUME NEW filters \in Seq(Filter), NEW n
  PROVE  /\ FilterNamed(filters, n) \in Filter \cup {NULL}
         /\ FilterNamed(filters, n) # NULL => FilterNamed(filters, n).name = n
<1> DEFINE hits == {i \in DOMAIN filters : filters[i].name = n}
<1>1. CASE hits = {}
  BY <1>1 DEF FilterNamed, NoSuchFilter
<1>2. CASE hits # {}
  <2>1. hits \in SUBSET (1..Len(filters)) /\ Len(filters) \in Nat
    BY LenProperties
  <2>2. \E i \in hits : \A j \in hits : j <= i
    BY <1>2, <2>1, GreatestIndex, Zenon
  <2> DEFINE k == CHOOSE i \in hits : \A j \in hits : j <= i
  <2>3. k \in hits
    BY <2>2
  <2>4. FilterNamed(filters, n) = filters[k]
    BY <1>2 DEF FilterNamed
  <2> HIDE DEF k
  <2>5. filters[k] \in Filter /\ filters[k].name = n
    BY <2>1, <2>3, ElementOfSeq
  <2> QED
    BY <2>4, <2>5
<1> QED
  BY <1>1, <1>2

-----------------------------------------------------------------------------
(* Sequences of filters and cells *)

Complete(f) == f.visualised \in BOOLEAN /\ f.excludedFromDownload \in BOOLEAN

LEMMA SchemaFiltersType ==
  ASSUME NEW s \in Seq(Names)
  PROVE  /\ SchemaFilters(s) \in Seq(Filter)
         /\ DOMAIN SchemaFilters(s) = DOMAIN s
         /\ \A i \in DOMAIN s : /\ Complete(SchemaFilters(s)[i])
                                /\ SchemaFilters(s)[i].name = s[i]
<1>1. Len(s) \in Nat /\ DOMAIN s = 1..Len(s) /\ \A i \in DOMAIN s : s[i] \in Names
  BY LenProperties, ElementOfSeq
<1>2. \A i \in DOMAIN s : NewFilter(s[i]) \in Filter
  BY <1>1, FiltersAssumption DEF NewFilter, Filter
<1>3. SchemaFilters(s) \in [1..Len(s) -> Filter]
  BY <1>1, <1>2 DEF SchemaFilters
<1>4. \A i \in DOMAIN s : Complete(NewFilter(s[i])) /\ NewFilter(s[i]).name = s[i]
  BY DEF NewFilter, Complete
<1> QED
  BY <1>1, <1>3, <1>4, FunctionIsSeq DEF SchemaFilters

LEMMA MergeType ==
  ASSUME NEW left \in Seq(Filter), NEW right \in Seq(Filter),
         \A i \in DOMAIN left : Complete(left[i])
  PROVE  /\ Merge(left, right) \in Seq(Filter)
         /\ DOMAIN Merge(left, right) = DOMAIN left
         /\ \A i \in DOMAIN left : /\ Complete(Merge(left, right)[i])
                                   /\ Merge(left, right)[i].name = left[i].name
<1>1. Len(left) \in Nat /\ DOMAIN left = 1..Len(left)
      /\ \A i \in DOMAIN left : left[i] \in Filter
  BY LenProperties, ElementOfSeq
<1> DEFINE merged(i) == MergeFilter(left[i], FilterNamed(right, left[i].name))
<1>2. \A i \in DOMAIN left : /\ merged(i) \in Filter
                             /\ Complete(merged(i))
                             /\ merged(i).name = left[i].name
  BY <1>1, MergeFilterType, FilterNamedType DEF Complete
<1>3. Merge(left, right) = [i \in DOMAIN left |-> merged(i)]
  BY DEF Merge
<1> HIDE DEF merged
<1>4. Merge(left, right) \in [1..Len(left) -> Filter]
  BY <1>1, <1>2, <1>3
<1> QED
  BY <1>1, <1>2, <1>3, <1>4, FunctionIsSeq

LEMMA ApplyFormType ==
  ASSUME NEW filters \in Seq(Filter), NEW inputs \in [DOMAIN filters -> RowInputs]
  PROVE  /\ ApplyForm(filters, inputs) \in Seq(Filter)
         /\ DOMAIN ApplyForm(filters, inputs) = DOMAIN filters
         /\ \A i \in DOMAIN filters :
              /\ Complete(ApplyForm(filters, inputs)[i])
              /\ ApplyForm(filters, inputs)[i].name = filters[i].name
<1>1. Len(filters) \in Nat /\ DOMAIN filters = 1..Len(filters)
      /\ \A i \in DOMAIN filters : filters[i] \in Filter
  BY LenProperties, ElementOfSeq
<1>2. \A i \in DOMAIN filters : inputs[i] \in Inputs
  BY LayerFiltersAssumption
<1>3. \A i \in DOMAIN filters :
        /\ ApplyRow(filters[i], inputs[i]) \in Filter
        /\ Complete(ApplyRow(filters[i], inputs[i]))
        /\ ApplyRow(filters[i], inputs[i]).name = filters[i].name
  BY <1>1, <1>2 DEF ApplyRow, Filter, Inputs, Complete
<1>4. ApplyForm(filters, inputs) \in [1..Len(filters) -> Filter]
  BY <1>1, <1>3 DEF ApplyForm
<1> QED
  BY <1>1, <1>3, <1>4, FunctionIsSeq DEF ApplyForm

LEMMA EnabledEntriesType ==
  ASSUME NEW filters \in Seq(Filter)
  PROVE  EnabledEntries(filters) \in SUBSET Entry
<1>1. \A i \in DOMAIN filters : WriteFilter(filters[i]) \in Entry
  BY LenProperties, ElementOfSeq, WriteFilterType
<1> QED
  BY <1>1 DEF EnabledEntries

LEMMA DocumentType ==
  ASSUME NEW text \in Seq(Cells), Readable(text)
  PROVE  /\ Document(text) \in Seq(Filter)
         /\ DOMAIN Document(text) \subseteq DOMAIN text
         /\ \A i \in DOMAIN Document(text) :
              text[i] \in Entry /\ Document(text)[i] = ParseFilter(text[i])
<1>1. Len(text) \in Nat \ {0} /\ DOMAIN text = 1..Len(text)
  BY EmptySeq, LenProperties DEF Readable
<1>2. \A i \in 1..(Len(text) - 1) : text[i] \in Entry
  BY DEF Readable
<1>3. Document(text) \in [1..(Len(text) - 1) -> Filter]
  BY <1>2, ParseFilterType DEF Document
<1>4. Len(text) - 1 \in Nat
  BY <1>1
<1> QED
  BY <1>1, <1>2, <1>3, <1>4, FunctionIsSeq DEF Document

LEMMA OverlayType ==
  ASSUME NEW text \in Seq(Cells), NEW pos \in Nat, NEW cell \in Cells
  PROVE  /\ Overlay(text, pos, cell) \in Seq(Cells)
         /\ \A i \in DOMAIN Overlay(text, pos, cell) :
              \/ Overlay(text, pos, cell)[i] \in {cell, Garbage}
              \/ i \in DOMAIN text /\ Overlay(text, pos, cell)[i] = text[i]
<1> DEFINE n == IF Len(text) > pos THEN Len(text) ELSE pos + 1
<1>1. Len(text) \in Nat /\ DOMAIN text = 1..Len(text)
      /\ \A i \in DOMAIN text : text[i] \in Cells
  BY LenProperties, ElementOfSeq
<1>2. n \in Nat
  BY <1>1
<1>3. Garbage \in Cells
  BY DEF Cells
<1>4. Overlay(text, pos, cell) \in [1..n -> Cells]
  BY <1>1, <1>3 DEF Overlay
<1>5. \A i \in 1..n : \/ Overlay(text, pos, cell)[i] \in {cell, Garbage}
                      \/ /\ i \in DOMAIN text
                         /\ Overlay(text, pos, cell)[i] = text[i]
  BY <1>1 DEF Overlay
<1> HIDE DEF n
<1> QED
  BY <1>2, <1>4, <1>5, FunctionIsSeq

-----------------------------------------------------------------------------
(* Type correctness *)

(* A load that has parsed its file yields a list of filters.               *)
LEMMA LoadedType ==
  ASSUME TypeOK, NEW p \in Readers, Parses(p)
  PROVE  /\ Loaded(p) \in Seq(Filter)
         /\ \A i \in DOMAIN Loaded(p) :
              /\ i \in DOMAIN loads[p].got
              /\ loads[p].got[i] \in Entry
              /\ Loaded(p)[i] = ParseFilter(loads[p].got[i])
<1>1. loads[p].got \in Seq(Cells)
  BY DEF TypeOK, LoadRecord
<1>2. CASE loads[p].opened
  BY <1>1, <1>2, DocumentType DEF Loaded, Parses
<1>3. CASE ~loads[p].opened
  BY <1>3, EmptySeq DEF Loaded
<1> QED
  BY <1>2, <1>3

(* The values that variables start from and return to.                     *)
LEMMA InitialRecords ==
  /\ ClosedPage \in PageRecord
  /\ NoSave \in SaveRecord
  /\ [NoSave EXCEPT !.open = TRUE] \in SaveRecord
  /\ NoLoad \in LoadRecord
  /\ NoAnswer \in AnswerRecord
  /\ FailedAnswer \in AnswerRecord
<1>1. <<>> \in Seq(Cells) /\ <<>> \in Seq(Filter) /\ <<>> \in Seq(Names)
  BY EmptySeq
<1> QED
  BY <1>1 DEF ClosedPage, NoSave, NoLoad, NoAnswer, FailedAnswer,
              PageRecord, SaveRecord, LoadRecord, AnswerRecord

LEMMA TypeInit ==
  ASSUME Init PROVE TypeOK
<1>1. schema \in Schemas /\ exists \in BOOLEAN
  BY DEF Init
<1>2. cells \in Seq(Cells)
  BY LayerFiltersAssumption, EmptySeq DEF Init
<1>3. submitted \in SUBSET Entry
  BY DEF Init
<1>4. /\ pages \in [Admins -> PageRecord]
      /\ saves \in [Admins -> SaveRecord]
      /\ loads \in [Readers -> LoadRecord]
      /\ answers \in [Requests -> AnswerRecord]
  BY InitialRecords DEF Init
<1>5. /\ offered \in [Requests -> SUBSET Contents]
      /\ overlaps \in [Requests -> 0..2]
  BY DEF Init
<1>6. faults \in 0..MaxFaults
  BY LayerFiltersAssumption DEF Init
<1> QED
  BY <1>1, <1>2, <1>3, <1>4, <1>5, <1>6 DEF TypeOK

(* What a file may hold.                                                   *)
LEMMA HeldType ==
  ASSUME NEW there \in BOOLEAN, NEW text \in Seq(Cells)
  PROVE  Held(there, text) \in Contents
<1>1. <<>> \in Seq(Filter)
  BY EmptySeq
<1>2. Readable(text) => Document(text) \in Seq(Filter)
  BY DocumentType
<1> QED
  BY <1>1, <1>2 DEF Held, Configuration, Unreadable, Contents

(* What a write of the file lets the running requests come upon.           *)
LEMMA ObserveType ==
  ASSUME TypeOK, NEW text \in Seq(Cells), Observe(text)
  PROVE  offered' \in [Requests -> SUBSET Contents]
<1>1. Held(TRUE, text) \in Contents
  BY HeldType
<1>2. \A r \in Requests : offered[r] \in SUBSET Contents
  BY DEF TypeOK
<1>3. \A r \in Requests :
        /\ {} \in SUBSET Contents
        /\ offered[r] \cup {Held(TRUE, text)} \in SUBSET Contents
  BY <1>1, <1>2
<1> QED
  BY <1>2, <1>3 DEF Observe

(* Starting a load keeps the type of loads.                                *)
LEMMA BeginLoadType ==
  ASSUME TypeOK, NEW p \in Readers, NEW kind \in {"page", "filters", "columns"},
         BeginLoad(p, kind)
  PROVE  loads' \in [Readers -> LoadRecord]
<1>1. schema \in Seq(Names) /\ <<>> \in Seq(Cells)
  BY LayerFiltersAssumption, EmptySeq DEF TypeOK
<1>2. [busy |-> TRUE, kind |-> kind, opened |-> exists, schema |-> schema,
       got |-> <<>>] \in LoadRecord
  BY <1>1 DEF TypeOK, LoadRecord
<1> QED
  BY <1>2 DEF TypeOK, BeginLoad

(* A write into the file keeps the types of what it changes.               *)
LEMMA WriteCellType ==
  ASSUME TypeOK, NEW a \in Admins, NEW cell \in Cells, WriteCell(a, cell),
         saves' \in [Admins -> SaveRecord]
  PROVE  TypeOK'
<1>1. saves[a].pos \in Nat
  BY DEF TypeOK, SaveRecord
<1>2. cells' \in Seq(Cells)
  BY <1>1, OverlayType DEF WriteCell, TypeOK
<1>3. offered' \in [Requests -> SUBSET Contents]
  BY <1>2, ObserveType DEF WriteCell
<1> QED
  BY <1>2, <1>3 DEF WriteCell, TypeOK

LEMMA TypeReadMore ==
  ASSUME TypeOK, NEW p \in Readers, ReadMore(p)
  PROVE  TypeOK'
<1> DEFINE got == loads[p].got
           upto == IF Len(got) + ReadBlock < Len(cells)
                   THEN Len(got) + ReadBlock ELSE Len(cells)
           more == got \o SubSeq(cells, Len(got) + 1, upto)
<1>1. got \in Seq(Cells) /\ cells \in Seq(Cells)
  BY DEF TypeOK, LoadRecord
<1>2. /\ Len(got) \in Nat /\ Len(cells) \in Nat /\ ReadBlock \in Nat \ {0}
      /\ Len(got) < Len(cells)
  BY <1>1, LenProperties, LayerFiltersAssumption DEF ReadMore
<1>3. upto \in Nat /\ Len(got) < upto /\ upto <= Len(cells)
  BY <1>2
<1>4. more \in Seq(Cells)
  <2> HIDE DEF got, upto
  <2> QED
    BY <1>1, <1>3, ReadAppends
<1>5. loads' = [loads EXCEPT ![p].got = more]
  BY DEF ReadMore
<1> HIDE DEF got, upto, more
<1>6. loads' \in [Readers -> LoadRecord]
  BY <1>4, <1>5 DEF TypeOK, LoadRecord
<1> QED
  BY <1>6 DEF ReadMore, TypeOK, file, ghosts

LEMMA TypeOpenPage ==
  ASSUME TypeOK, NEW a \in Admins, OpenPage(a)
  PROVE  TypeOK'
<1>1. loads' \in [Readers -> LoadRecord]
  BY BeginLoadType DEF OpenPage, Readers
<1>2. pages' \in [Admins -> PageRecord]
  BY InitialRecords DEF OpenPage, TypeOK
<1> QED
  BY <1>1, <1>2 DEF OpenPage, TypeOK, file, ghosts

LEMMA TypePageOpens ==
  ASSUME TypeOK, NEW a \in Admins, PageOpens(a)
  PROVE  TypeOK'
<1> DEFINE merged == Merge(SchemaFilters(loads[a].schema), Loaded(a))
<1>1. a \in Readers
  BY DEF Readers
<1>2. Loaded(a) \in Seq(Filter)
  BY <1>1, LoadedType DEF PageOpens
<1>3. loads[a].schema \in Seq(Names)
  BY <1>1 DEF TypeOK, LoadRecord
<1>4. merged \in Seq(Filter)
  BY <1>2, <1>3, SchemaFiltersType, MergeType
<1>5. /\ pages' = [pages EXCEPT ![a] = ShownPage(merged)]
      /\ loads' = [loads EXCEPT ![a] = NoLoad]
  BY DEF PageOpens
<1> HIDE DEF merged
<1>6. pages' \in [Admins -> PageRecord]
  BY <1>4, <1>5 DEF TypeOK, PageRecord, ShownPage
<1>7. loads' \in [Readers -> LoadRecord]
  BY <1>5, InitialRecords DEF TypeOK
<1> QED
  BY <1>6, <1>7 DEF PageOpens, TypeOK, file, ghosts

LEMMA TypeSubmit ==
  ASSUME TypeOK, NEW a \in Admins,
         NEW inputs \in [DOMAIN pages[a].filters -> RowInputs],
         Submit(a, inputs) \/ SubmitFails(a, inputs)
  PROVE  TypeOK'
<1> DEFINE filters == ApplyForm(pages[a].filters, inputs)
<1>1. pages[a].filters \in Seq(Filter)
  BY DEF TypeOK, PageRecord
<1>2. filters \in Seq(Filter) /\ EnabledEntries(filters) \in SUBSET Entry
  BY <1>1, ApplyFormType, EnabledEntriesType
<1>3. pages' = [pages EXCEPT ![a] = ShownPage(filters)]
  BY DEF Submit, SubmitFails
<1>4. pages' \in [Admins -> PageRecord]
  <2> HIDE DEF filters
  <2> QED
    BY <1>2, <1>3 DEF TypeOK, PageRecord, ShownPage
<1>5. CASE Submit(a, inputs)
  <2>1. saves' \in [Admins -> SaveRecord]
    BY <1>5, InitialRecords DEF Submit, TypeOK
  <2>2. submitted' \in SUBSET Entry
    BY <1>2, <1>5 DEF Submit, TypeOK
  <2>3. overlaps' \in [Requests -> 0..2]
    <3>1. \A r \in Requests : /\ overlaps[r] \in 0..2
                              /\ UpToTwo(overlaps[r] + 1) \in 0..2
      BY DEF TypeOK, UpToTwo
    <3> QED
      BY <1>5, <3>1 DEF Submit
  <2>4. cells' \in Seq(Cells) /\ exists' \in BOOLEAN
    BY <1>5, EmptySeq DEF Submit
  <2>5. UNCHANGED <<schema, loads, answers, faults>>
    BY <1>5 DEF Submit
  <2>6. offered' \in [Requests -> SUBSET Contents]
    BY <1>5, EmptySeq, ObserveType DEF Submit
  <2> QED
    BY <1>4, <2>1, <2>2, <2>3, <2>4, <2>5, <2>6 DEF TypeOK
<1>6. CASE SubmitFails(a, inputs)
  <2>1. faults' \in 0..MaxFaults
    BY <1>6, LayerFiltersAssumption DEF SubmitFails, TypeOK
  <2>2. UNCHANGED <<schema, file, saves, loads, answers, ghosts>>
    BY <1>6 DEF SubmitFails
  <2> QED
    BY <1>4, <2>1, <2>2 DEF TypeOK, file, ghosts
<1> QED
  BY <1>5, <1>6

LEMMA TypeEmit ==
  ASSUME TypeOK, NEW a \in Admins, NEW i \in DOMAIN pages[a].filters,
         Emit(a, i) \/ FailTemplate(a, i)
  PROVE  TypeOK'
<1>1. pages[a].filters \in Seq(Filter)
  BY DEF TypeOK, PageRecord
<1>2. pages[a].filters[i] \in Filter /\ i \in Nat
  BY <1>1, LenProperties, ElementOfSeq
<1>3. Element(pages[a].filters[i]) \in Cells /\ Garbage \in Cells
  BY <1>2, ElementType DEF Cells
<1>4. CASE Emit(a, i)
  <2>1. saves' = [saves EXCEPT ![a] = [open |-> TRUE, next |-> i + 1,
                                       pos |-> saves[a].pos + 1]]
    BY <1>4 DEF Emit, TypeOK, SaveRecord
  <2>2. saves' \in [Admins -> SaveRecord]
    BY <1>2, <2>1 DEF TypeOK, SaveRecord
  <2> QED
    BY <1>3, <1>4, <2>2, WriteCellType DEF Emit
<1>5. CASE FailTemplate(a, i)
  <2>1. saves' \in [Admins -> SaveRecord]
    BY <1>5, InitialRecords DEF FailTemplate, TypeOK
  <2> QED
    BY <1>3, <1>5, <2>1, WriteCellType DEF FailTemplate
<1> QED
  BY <1>4, <1>5

LEMMA TypeStartRequest ==
  ASSUME TypeOK, NEW r \in Requests, NEW kind \in {"filters", "columns"},
         StartRequest(r, kind)
  PROVE  TypeOK'
<1>1. loads' \in [Readers -> LoadRecord]
  BY BeginLoadType DEF StartRequest, Readers
<1>2. answers' \in [Requests -> AnswerRecord]
  BY InitialRecords DEF StartRequest, TypeOK
<1>3. Held(exists, cells) \in Contents
  BY HeldType DEF TypeOK
<1>4. offered' \in [Requests -> SUBSET Contents]
  BY <1>3 DEF StartRequest, TypeOK
<1>5. overlaps' \in [Requests -> 0..2]
  <2>1. CountToTwo({a \in Admins : saves[a].open}) \in 0..2
    BY DEF CountToTwo
  <2> QED
    BY <2>1 DEF StartRequest, TypeOK
<1> QED
  BY <1>1, <1>2, <1>4, <1>5 DEF StartRequest, TypeOK, file

LEMMA TypeAnswer ==
  ASSUME TypeOK, NEW r \in Requests,
         AnswerFilters(r) \/ AnswerColumns(r) \/ AnswerFails(r)
  PROVE  TypeOK'
<1>1. r \in Readers
  BY DEF Readers
<1>2. ASSUME NEW answer \in AnswerRecord, Answer(r, answer) PROVE TypeOK'
  <2>1. answers' \in [Requests -> AnswerRecord]
    BY <1>2 DEF Answer, TypeOK
  <2>2. loads' \in [Readers -> LoadRecord]
    BY <1>2, InitialRecords DEF Answer, TypeOK
  <2> QED
    BY <1>2, <2>1, <2>2 DEF Answer, TypeOK, file
<1>3. CASE AnswerFilters(r)
  <2>1. Loaded(r) \in Seq(Filter)
    BY <1>1, <1>3, LoadedType DEF AnswerFilters
  <2>2. [NoAnswer EXCEPT !.status = "filters", !.filters = Loaded(r)]
          \in AnswerRecord
    BY <2>1, InitialRecords DEF AnswerRecord
  <2> QED
    BY <1>2, <1>3, <2>2 DEF AnswerFilters
<1>4. CASE AnswerColumns(r)
  <2> DEFINE columns == {loads[r].schema[i] : i \in DOMAIN loads[r].schema}
                          \ ExcludedNames(Loaded(r))
  <2>1. loads[r].schema \in Seq(Names)
    BY <1>1 DEF TypeOK, LoadRecord
  <2>2. columns \subseteq Names
    BY <2>1, LenProperties, ElementOfSeq
  <2>3. Answer(r, [NoAnswer EXCEPT !.status = "columns", !.columns = columns])
    BY <1>4 DEF AnswerColumns
  <2> HIDE DEF columns
  <2>4. [NoAnswer EXCEPT !.status = "columns", !.columns = columns]
          \in AnswerRecord
    BY <2>2, InitialRecords DEF AnswerRecord
  <2> QED
    BY <1>2, <2>3, <2>4
<1>5. CASE AnswerFails(r)
  BY <1>2, <1>5, InitialRecords DEF AnswerFails
<1> QED
  BY <1>3, <1>4, <1>5

LEMMA TypeNext ==
  ASSUME TypeOK, [Next]_vars PROVE TypeOK'
<1>1. ASSUME NEW a \in Admins, PageFails(a) PROVE TypeOK'
  BY <1>1, InitialRecords DEF PageFails, TypeOK, file, ghosts
<1>2. ASSUME NEW a \in Admins, Cancel(a) PROVE TypeOK'
  BY <1>2, InitialRecords DEF Cancel, TypeOK, file, ghosts
<1>3. ASSUME NEW a \in Admins, CloseSave(a) PROVE TypeOK'
  <2>1. End \in Cells
    BY DEF Cells
  <2>2. saves' \in [Admins -> SaveRecord]
    BY <1>3, InitialRecords DEF CloseSave, TypeOK
  <2> QED
    BY <1>3, <2>1, <2>2, WriteCellType DEF CloseSave
<1>4. ASSUME NEW a \in Admins, AbortSave(a) PROVE TypeOK'
  <2>1. faults' \in 0..MaxFaults
    BY <1>4, LayerFiltersAssumption DEF AbortSave, TypeOK
  <2> QED
    BY <1>4, <2>1, InitialRecords DEF AbortSave, TypeOK, file, ghosts
<1>5. ASSUME AlterSchema PROVE TypeOK'
  BY <1>5 DEF AlterSchema, TypeOK, file, ghosts
<1>6. ASSUME Crash PROVE TypeOK'
  <2>1. faults' \in 0..MaxFaults
    BY <1>6, LayerFiltersAssumption DEF Crash, TypeOK
  <2>2. answers' \in [Requests -> AnswerRecord]
    BY <1>6, InitialRecords DEF Crash, TypeOK
  <2>3. /\ pages' \in [Admins -> PageRecord]
        /\ saves' \in [Admins -> SaveRecord]
        /\ loads' \in [Readers -> LoadRecord]
    BY <1>6, InitialRecords DEF Crash
  <2> QED
    BY <1>6, <2>1, <2>2, <2>3 DEF Crash, TypeOK, file
<1>7. ASSUME UNCHANGED vars PROVE TypeOK'
  BY <1>7 DEF vars, TypeOK
<1> QED
  BY <1>1, <1>2, <1>3, <1>4, <1>5, <1>6, <1>7, TypeOpenPage, TypePageOpens,
     TypeSubmit, TypeEmit, TypeStartRequest, TypeReadMore, TypeAnswer
     DEF Next, AdminStep, SaveStep, LoadStep

(* TypeOK holds in every state, for any number of tabs and requests, any   *)
(* schemas, any block size and any number of faults.                       *)
THEOREM TypeCorrect == Spec => []TypeOK
  BY TypeInit, TypeNext, PTL DEF Spec

-----------------------------------------------------------------------------
(* The configuration page's rows *)

(* A running load has read a schema the table really had.                  *)
LoadedSchemas == \A p \in Readers : loads[p].busy => loads[p].schema \in Schemas

RenderInv == LoadedSchemas /\ PagesRender

(* What PagesRender asks of one page's filters.                            *)
Renders(filters) ==
  /\ \E s \in Schemas : [i \in DOMAIN filters |-> filters[i].name] = s
  /\ \A i \in DOMAIN filters : Complete(filters[i])

LEMMA PagesRenderIsRenders ==
  PagesRender <=> \A a \in Admins : pages[a].open => Renders(pages[a].filters)
  BY DEF PagesRender, Renders, Complete

LEMMA MergedRenders ==
  ASSUME NEW s \in Schemas, NEW saved \in Seq(Filter)
  PROVE  Renders(Merge(SchemaFilters(s), saved))
<1> DEFINE merged == Merge(SchemaFilters(s), saved)
<1>1. s \in Seq(Names) /\ s = [i \in DOMAIN s |-> s[i]]
  BY LayerFiltersAssumption, LenProperties
<1>2. /\ DOMAIN merged = DOMAIN s
      /\ \A i \in DOMAIN s : Complete(merged[i]) /\ merged[i].name = s[i]
  BY <1>1, SchemaFiltersType, MergeType
<1> HIDE DEF merged
<1>3. [i \in DOMAIN merged |-> merged[i].name] = s
  BY <1>1, <1>2
<1> QED
  BY <1>2, <1>3 DEF Renders, merged

LEMMA SubmittedRenders ==
  ASSUME NEW filters \in Seq(Filter),
         NEW inputs \in [DOMAIN filters -> RowInputs], Renders(filters)
  PROVE  Renders(ApplyForm(filters, inputs))
<1> DEFINE new == ApplyForm(filters, inputs)
<1>1. /\ DOMAIN new = DOMAIN filters
      /\ \A i \in DOMAIN filters : Complete(new[i]) /\ new[i].name = filters[i].name
  BY ApplyFormType
<1> HIDE DEF new
<1>2. [i \in DOMAIN new |-> new[i].name] = [i \in DOMAIN filters |-> filters[i].name]
  BY <1>1
<1> QED
  BY <1>1, <1>2 DEF Renders, new

LEMMA RenderInit ==
  ASSUME Init PROVE RenderInv
  BY DEF Init, RenderInv, LoadedSchemas, PagesRender, ClosedPage, NoLoad

LEMMA RenderNext ==
  ASSUME TypeOK, RenderInv, [Next]_vars PROVE RenderInv'
<1>1. LoadedSchemas'
  <2>1. ASSUME NEW p \in Readers, NEW kind, BeginLoad(p, kind)
        PROVE  LoadedSchemas'
    BY <2>1 DEF BeginLoad, LoadedSchemas, RenderInv, TypeOK
  <2>2. ASSUME NEW p \in Readers, loads' = [loads EXCEPT ![p] = NoLoad]
        PROVE  LoadedSchemas'
    BY <2>2 DEF LoadedSchemas, RenderInv, TypeOK, NoLoad
  <2>3. ASSUME NEW p \in Readers, ReadMore(p) PROVE LoadedSchemas'
    BY <2>3 DEF ReadMore, LoadedSchemas, RenderInv, TypeOK, LoadRecord
  <2>4. ASSUME UNCHANGED loads PROVE LoadedSchemas'
    BY <2>4 DEF LoadedSchemas, RenderInv
  <2>5. ASSUME Crash PROVE LoadedSchemas'
    BY <2>5 DEF Crash, LoadedSchemas, NoLoad
  <2>6. ASSUME NEW a \in Admins, AdminStep(a) PROVE LoadedSchemas'
    <3>1. CASE OpenPage(a)
      BY <2>1, <3>1 DEF OpenPage, Readers
    <3>2. CASE ~OpenPage(a)
      BY <2>4, <2>6, <3>2 DEF AdminStep, Cancel, Submit, SubmitFails, SaveStep,
         Emit, FailTemplate, CloseSave, WriteCell, AbortSave
    <3> QED
      BY <3>1, <3>2
  <2>7. ASSUME NEW r \in Requests, NEW kind, StartRequest(r, kind)
        PROVE  LoadedSchemas'
    BY <2>1, <2>7 DEF StartRequest, Readers
  <2>8. ASSUME NEW p \in Readers, LoadStep(p) PROVE LoadedSchemas'
    BY <2>2, <2>3, <2>8 DEF LoadStep, PageOpens, PageFails, AnswerFilters,
       AnswerColumns, AnswerFails, Answer
  <2>9. ASSUME AlterSchema PROVE LoadedSchemas'
    BY <2>4, <2>9 DEF AlterSchema
  <2> QED
    BY <2>4, <2>5, <2>6, <2>7, <2>8, <2>9 DEF Next, vars
<1>2. PagesRender'
  <2> DEFINE RenderAll(pp) ==
        \A a \in Admins : pp[a].open => Renders(pp[a].filters)
  <2>1. RenderAll(pages) /\ (PagesRender' <=> RenderAll(pages'))
    BY PagesRenderIsRenders DEF RenderInv, PagesRender, Renders, Complete
  <2>2. ASSUME NEW a \in Admins, NEW filters, Renders(filters),
               pages' = [pages EXCEPT ![a] = ShownPage(filters)]
        PROVE  RenderAll(pages')
    BY <2>1, <2>2 DEF TypeOK, ShownPage
  <2>3. ASSUME NEW a \in Admins, pages' = [pages EXCEPT ![a] = ClosedPage]
        PROVE  RenderAll(pages')
    BY <2>1, <2>3 DEF TypeOK, ClosedPage
  <2>4. ASSUME UNCHANGED pages PROVE RenderAll(pages')
    BY <2>1, <2>4
  <2>5. ASSUME NEW a \in Admins, PageOpens(a) PROVE RenderAll(pages')
    <3>1. loads[a].schema \in Schemas
      BY <2>5 DEF PageOpens, AtEnd, RenderInv, LoadedSchemas, Readers
    <3>2. Loaded(a) \in Seq(Filter)
      BY <2>5, LoadedType DEF PageOpens, Readers
    <3> QED
      BY <2>2, <2>5, <3>1, <3>2, MergedRenders DEF PageOpens
  <2>6. ASSUME NEW a \in Admins,
               NEW inputs \in [DOMAIN pages[a].filters -> RowInputs],
               Submit(a, inputs) \/ SubmitFails(a, inputs)
        PROVE  RenderAll(pages')
    <3> DEFINE filters == ApplyForm(pages[a].filters, inputs)
    <3>1. pages[a].filters \in Seq(Filter) /\ pages[a].open
      BY <2>6 DEF TypeOK, PageRecord, Submit, SubmitFails
    <3>2. Renders(filters)
      BY <2>1, <3>1, SubmittedRenders
    <3>3. pages' = [pages EXCEPT ![a] = ShownPage(filters)]
      BY <2>6 DEF Submit, SubmitFails
    <3> QED
      BY <2>2, <3>2, <3>3
  <2>7. ASSUME NEW a \in Admins, AdminStep(a) PROVE RenderAll(pages')
    BY <2>3, <2>4, <2>6, <2>7 DEF AdminStep, OpenPage, Cancel, SaveStep,
       Emit, FailTemplate, CloseSave, WriteCell, AbortSave
  <2>8. ASSUME NEW p \in Readers, LoadStep(p) PROVE RenderAll(pages')
    BY <2>4, <2>5, <2>8 DEF LoadStep, ReadMore, PageFails, AnswerFilters,
       AnswerColumns, AnswerFails, Answer
  <2>9. ASSUME Crash PROVE RenderAll(pages')
    BY <2>9 DEF Crash, ClosedPage
  <2>10. RenderAll(pages')
    BY <2>4, <2>7, <2>8, <2>9 DEF Next, vars, StartRequest, AlterSchema
  <2> QED
    BY <2>1, <2>10
<1> QED
  BY <1>1, <1>2 DEF RenderInv

(* An open page's rows are complete and show a schema the table had.       *)
THEOREM PagesAlwaysRender == Spec => []PagesRender
<1>1. RenderInv => PagesRender
  BY DEF RenderInv
<1> QED
  BY <1>1, TypeInit, TypeNext, RenderInit, RenderNext, PTL DEF Spec

-----------------------------------------------------------------------------
(* Where served filters come from *)

(* Every cell of text is an element submitted as enabled, or no element.   *)
Recorded(text) == \A i \in DOMAIN text : text[i] \in submitted \cup {End, Garbage}

(* A tab that saves shows a page, and a tab that shows a page does not load. *)
TabInv ==
  \A a \in Admins : /\ saves[a].open => pages[a].open
                    /\ pages[a].open => ~loads[a].busy

(* What is in the file, in flight in a load or about to be written was     *)
(* submitted as enabled; OnlyEnabledServed alone is not inductive.         *)
SourceInv ==
  /\ TabInv
  /\ Recorded(cells)
  /\ \A p \in Readers : Recorded(loads[p].got)
  /\ \A a \in Admins :
       saves[a].open => EnabledEntries(pages[a].filters) \subseteq submitted
  /\ OnlyEnabledServed

LEMMA SourceInit ==
  ASSUME Init PROVE SourceInv
<1>1. Recorded(<<>>)
  BY DEF Recorded
<1>2. Recorded(cells)
  <2>1. cells \in Seq(Cells)
    BY TypeInit DEF TypeOK
  <2>2. \A i \in DOMAIN cells : cells[i] \in Cells
    BY <2>1, LenProperties, ElementOfSeq
  <2> QED
    BY <2>2 DEF Recorded, Init, Cells
<1> QED
  BY <1>1, <1>2
     DEF SourceInv, TabInv, OnlyEnabledServed, Init, NoLoad, NoSave, NoAnswer,
         ClosedPage

(* submitted only grows.                                                   *)
LEMMA SubmittedGrows ==
  ASSUME [Next]_vars PROVE submitted \subseteq submitted'
  BY DEF Next, AdminStep, OpenPage, Cancel, Submit, SubmitFails, SaveStep, Emit,
     FailTemplate, CloseSave, WriteCell, AbortSave, StartRequest, LoadStep,
     ReadMore, PageOpens, PageFails, AnswerFilters, AnswerColumns, AnswerFails,
     Answer, AlterSchema, Crash, vars, file, ghosts

(* A cell written by a running save is recorded.                           *)
LEMMA CellsRecorded ==
  ASSUME TypeOK, SourceInv, [Next]_vars PROVE Recorded(cells)'
<1>1. ASSUME UNCHANGED cells PROVE Recorded(cells)'
  BY <1>1, SubmittedGrows DEF SourceInv, Recorded
<1>2. ASSUME NEW a \in Admins, NEW cell \in Cells, WriteCell(a, cell),
             cell \in submitted \cup {End, Garbage}
      PROVE  Recorded(cells)'
  <2>1. saves[a].pos \in Nat /\ cells \in Seq(Cells)
    BY DEF TypeOK, SaveRecord
  <2>2. /\ cells' = Overlay(cells, saves[a].pos, cell)
        /\ submitted' = submitted
    BY <1>2 DEF WriteCell
  <2>3. \A i \in DOMAIN cells' :
          \/ cells'[i] \in {cell, Garbage}
          \/ i \in DOMAIN cells /\ cells'[i] = cells[i]
    BY <2>1, <2>2, OverlayType
  <2> QED
    BY <1>2, <2>2, <2>3 DEF Recorded, SourceInv
<1>3. ASSUME NEW a \in Admins, NEW i \in DOMAIN pages[a].filters,
             Emit(a, i) \/ FailTemplate(a, i)
      PROVE  Recorded(cells)'
  <2> DEFINE f == pages[a].filters[i]
  <2>1. pages[a].filters \in Seq(Filter)
    BY DEF TypeOK, PageRecord
  <2>2. Element(f) \in Cells /\ Garbage \in Cells
    BY <2>1, LenProperties, ElementOfSeq, ElementType DEF Cells
  <2>3. Element(f) \in submitted \cup {Garbage}
    BY <1>3 DEF SourceInv, EnabledEntries, Emit, FailTemplate, NextEnabled, Element
  <2> QED
    BY <1>2, <1>3, <2>2, <2>3 DEF Emit, FailTemplate
<1>4. ASSUME NEW a \in Admins, CloseSave(a) PROVE Recorded(cells)'
  BY <1>2, <1>4 DEF CloseSave, Cells
<1>5. ASSUME NEW a \in Admins, NEW inputs, Submit(a, inputs)
      PROVE  Recorded(cells)'
  BY <1>5 DEF Submit, Recorded
<1>6. ASSUME NEW a \in Admins, AdminStep(a) PROVE Recorded(cells)'
  BY <1>1, <1>3, <1>4, <1>5, <1>6
     DEF AdminStep, OpenPage, Cancel, SubmitFails, SaveStep, AbortSave, file
<1>7. ASSUME NEW p \in Readers, LoadStep(p) PROVE Recorded(cells)'
  BY <1>1, <1>7 DEF LoadStep, ReadMore, PageOpens, PageFails, AnswerFilters,
     AnswerColumns, AnswerFails, Answer, file
<1> QED
  BY <1>1, <1>6, <1>7 DEF Next, StartRequest, AlterSchema, Crash, vars, file

(* What a load gets was in the file when it got it.                        *)
LEMMA LoadsRecorded ==
  ASSUME TypeOK, SourceInv, [Next]_vars, NEW p \in Readers
  PROVE  Recorded(loads[p].got)'
<1>1. CASE loads'[p].got = loads[p].got
  BY <1>1, SubmittedGrows DEF SourceInv, Recorded
<1>2. CASE loads'[p].got = <<>>
  BY <1>2 DEF Recorded
<1>3. CASE ReadMore(p)
  <2> DEFINE got == loads[p].got
             upto == IF Len(got) + ReadBlock < Len(cells)
                     THEN Len(got) + ReadBlock ELSE Len(cells)
             more == got \o SubSeq(cells, Len(got) + 1, upto)
  <2>1. got \in Seq(Cells) /\ cells \in Seq(Cells)
    BY DEF TypeOK, LoadRecord
  <2>2. /\ Len(got) \in Nat /\ Len(cells) \in Nat /\ ReadBlock \in Nat \ {0}
        /\ Len(got) < Len(cells)
    BY <1>3, <2>1, LenProperties, LayerFiltersAssumption DEF ReadMore
  <2>3. upto \in Nat /\ Len(got) < upto /\ upto <= Len(cells)
    BY <2>2
  <2>4. loads'[p].got = more /\ submitted' = submitted
    BY <1>3 DEF ReadMore, TypeOK, LoadRecord, ghosts
  <2>5. Recorded(got) /\ Recorded(cells)
    BY DEF SourceInv
  <2> HIDE DEF upto, got
  <2>6. \A i \in DOMAIN more : \/ i \in DOMAIN got /\ more[i] = got[i]
                              \/ \E j \in DOMAIN cells : more[i] = cells[j]
    BY <2>1, <2>3, ReadAppends
  <2> QED
    BY <2>4, <2>5, <2>6 DEF Recorded
<1>4. \/ loads'[p].got = loads[p].got \/ loads'[p].got = <<>> \/ ReadMore(p)
  <2>1. ASSUME NEW q \in Readers, NEW load, load.got = <<>>,
               loads' = [loads EXCEPT ![q] = load]
        PROVE  loads'[p].got = loads[p].got \/ loads'[p].got = <<>>
    BY <2>1 DEF TypeOK
  <2>2. ASSUME NEW q \in Readers, ReadMore(q), q # p
        PROVE  loads'[p].got = loads[p].got
    BY <2>2 DEF ReadMore, TypeOK
  <2>3. CASE Crash
    BY <2>3 DEF Crash, NoLoad
  <2>4. CASE \E a \in Admins : AdminStep(a)
    BY <2>1, <2>4 DEF AdminStep, OpenPage, BeginLoad, Cancel, Submit,
       SubmitFails, SaveStep, Emit, FailTemplate, CloseSave, WriteCell,
       AbortSave, Readers
  <2>5. CASE \E r \in Requests, kind \in {"filters", "columns"} :
               StartRequest(r, kind)
    BY <2>1, <2>5 DEF StartRequest, BeginLoad, Readers
  <2>6. CASE \E q \in Readers : LoadStep(q)
    <3>1. PICK q \in Readers : LoadStep(q)
      BY <2>6
    <3>2. NoLoad.got = <<>>
      BY DEF NoLoad
    <3> QED
      BY <2>1, <2>2, <3>1, <3>2 DEF LoadStep, PageOpens, PageFails,
         AnswerFilters, AnswerColumns, AnswerFails, Answer
  <2> QED
    BY <2>3, <2>4, <2>5, <2>6 DEF Next, AlterSchema, vars
<1> QED
  BY <1>1, <1>2, <1>3, <1>4

(* A running save writes only what was recorded when it was submitted.     *)
LEMMA SavesRecorded ==
  ASSUME TypeOK, SourceInv, [Next]_vars, NEW a \in Admins, saves'[a].open
  PROVE  EnabledEntries(pages'[a].filters) \subseteq submitted'
<1>1. CASE saves[a].open /\ pages'[a] = pages[a]
  BY <1>1, SubmittedGrows DEF SourceInv
<1>2. CASE \E inputs \in [DOMAIN pages[a].filters -> RowInputs] :
             Submit(a, inputs)
  <2>1. PICK inputs \in [DOMAIN pages[a].filters -> RowInputs] :
          Submit(a, inputs)
    BY <1>2
  <2> DEFINE filters == ApplyForm(pages[a].filters, inputs)
  <2>2. /\ pages' = [pages EXCEPT ![a] = ShownPage(filters)]
        /\ submitted' = submitted \cup EnabledEntries(filters)
    BY <2>1 DEF Submit
  <2> HIDE DEF filters
  <2>3. pages'[a].filters = filters
    BY <2>2 DEF TypeOK, ShownPage
  <2> QED
    BY <2>2, <2>3
<1>3. \/ saves[a].open /\ pages'[a] = pages[a]
      \/ \E inputs \in [DOMAIN pages[a].filters -> RowInputs] : Submit(a, inputs)
  <2>1. ASSUME NEW b \in Admins, b # a, AdminStep(b)
        PROVE  saves'[a] = saves[a] /\ pages'[a] = pages[a]
    BY <2>1 DEF AdminStep, OpenPage, Cancel, Submit, SubmitFails, SaveStep,
       Emit, FailTemplate, CloseSave, WriteCell, AbortSave, TypeOK
  <2>2. CASE AdminStep(a)
    BY <2>2 DEF AdminStep, OpenPage, Cancel, Submit, SubmitFails, SaveStep,
       Emit, FailTemplate, CloseSave, WriteCell, AbortSave, TypeOK, NoSave
  <2>3. ASSUME NEW p \in Readers, LoadStep(p)
        PROVE  saves[a].open /\ pages'[a] = pages[a]
    BY <2>3 DEF LoadStep, PageOpens, PageFails, AnswerFilters, AnswerColumns,
       AnswerFails, Answer, ReadMore, TypeOK, SourceInv, TabInv, AtEnd
  <2>4. CASE Crash
    BY <2>4 DEF Crash, NoSave
  <2> QED
    BY <2>1, <2>2, <2>3, <2>4 DEF Next, StartRequest, AlterSchema, vars
<1> QED
  BY <1>1, <1>2, <1>3

LEMMA TabNext ==
  ASSUME TypeOK, TabInv, [Next]_vars PROVE TabInv'
<1>1. ASSUME NEW a \in Admins, AdminStep(a) PROVE TabInv'
  <2>1. CASE OpenPage(a)
    BY <2>1 DEF OpenPage, BeginLoad, TabInv, TypeOK, Readers, ClosedPage
  <2>2. CASE Cancel(a)
    BY <2>2 DEF Cancel, TabInv, TypeOK, ClosedPage
  <2>3. ASSUME NEW inputs, Submit(a, inputs) PROVE TabInv'
    BY <2>3 DEF Submit, TabInv, TypeOK, ShownPage, NoSave
  <2>4. ASSUME NEW inputs, SubmitFails(a, inputs) PROVE TabInv'
    BY <2>4 DEF SubmitFails, TabInv, TypeOK, ShownPage
  <2>5. ASSUME NEW i, Emit(a, i) PROVE TabInv'
    BY <2>5 DEF Emit, WriteCell, TabInv, TypeOK
  <2>6. ASSUME NEW i, FailTemplate(a, i) PROVE TabInv'
    BY <2>6 DEF FailTemplate, WriteCell, TabInv, TypeOK, NoSave
  <2>7. CASE CloseSave(a) \/ AbortSave(a)
    BY <2>7 DEF CloseSave, AbortSave, WriteCell, TabInv, TypeOK, NoSave
  <2> QED
    BY <1>1, <2>1, <2>2, <2>3, <2>4, <2>5, <2>6, <2>7 DEF AdminStep, SaveStep
<1>2. ASSUME NEW r \in Requests, NEW kind, StartRequest(r, kind) PROVE TabInv'
  BY <1>2, LayerFiltersAssumption
     DEF StartRequest, BeginLoad, TabInv, TypeOK, Readers
<1>3. ASSUME NEW p \in Readers, LoadStep(p) PROVE TabInv'
  <2>1. CASE ReadMore(p)
    BY <2>1 DEF ReadMore, TabInv, TypeOK, LoadRecord
  <2>2. CASE p \in Admins /\ PageOpens(p)
    BY <2>2 DEF PageOpens, AtEnd, TabInv, TypeOK, ShownPage, NoLoad, Readers
  <2>3. CASE p \in Admins /\ PageFails(p)
    BY <2>3 DEF PageFails, TabInv, TypeOK, NoLoad, Readers
  <2>4. CASE AnswerFilters(p) \/ AnswerColumns(p) \/ AnswerFails(p)
    BY <2>4 DEF AnswerFilters, AnswerColumns, AnswerFails, Answer, TabInv,
       TypeOK, NoLoad, Readers
  <2> QED
    BY <1>3, <2>1, <2>2, <2>3, <2>4 DEF LoadStep
<1>4. ASSUME Crash PROVE TabInv'
  BY <1>4 DEF Crash, TabInv, ClosedPage, NoSave, NoLoad, Readers
<1> QED
  BY <1>1, <1>2, <1>3, <1>4 DEF Next, AlterSchema, vars, TabInv

(* An answer's filters are those of a load that parsed.                    *)
LEMMA AnswersRecorded ==
  ASSUME TypeOK, SourceInv, [Next]_vars PROVE OnlyEnabledServed'
<1>1. ASSUME UNCHANGED answers PROVE OnlyEnabledServed'
  BY <1>1, SubmittedGrows DEF SourceInv, OnlyEnabledServed
<1>2. ASSUME NEW r \in Requests, NEW answer, answer.filters = <<>>,
             answers' = [answers EXCEPT ![r] = answer]
      PROVE  OnlyEnabledServed'
  BY <1>2, SubmittedGrows DEF SourceInv, OnlyEnabledServed, TypeOK
<1>3. /\ NoAnswer.filters = <<>> /\ FailedAnswer.filters = <<>>
      /\ \A c : [NoAnswer EXCEPT !.status = "columns", !.columns = c].filters = <<>>
  BY DEF NoAnswer, FailedAnswer
<1>4. ASSUME NEW r \in Requests, AnswerFilters(r) PROVE OnlyEnabledServed'
  <2>1. r \in Readers
    BY DEF Readers
  <2>2. \A i \in DOMAIN Loaded(r) : /\ i \in DOMAIN loads[r].got
                                    /\ loads[r].got[i] \in Entry
                                    /\ Loaded(r)[i] = ParseFilter(loads[r].got[i])
    BY <1>4, <2>1, LoadedType DEF AnswerFilters
  <2>3. \A i \in DOMAIN Loaded(r) : loads[r].got[i] \in submitted
    BY <2>1, <2>2, LayerFiltersAssumption DEF SourceInv, Recorded
  <2>4. \A i \in DOMAIN Loaded(r) : Loaded(r)[i].name = loads[r].got[i].name
    BY <2>2 DEF ParseFilter
  <2> DEFINE answer == [NoAnswer EXCEPT !.status = "filters", !.filters = Loaded(r)]
  <2>5. /\ answers' = [answers EXCEPT ![r] = answer]
        /\ submitted' = submitted
    BY <1>4 DEF AnswerFilters, Answer, ghosts
  <2>6. answer.filters = Loaded(r)
    BY DEF NoAnswer
  <2> HIDE DEF answer
  <2>7. \A q \in Requests : answers'[q] = IF q = r THEN answer ELSE answers[q]
    BY <2>5 DEF TypeOK
  <2> QED
    BY <2>3, <2>4, <2>5, <2>6, <2>7 DEF SourceInv, OnlyEnabledServed
<1>5. ASSUME NEW r \in Requests, AnswerColumns(r) \/ AnswerFails(r)
      PROVE  OnlyEnabledServed'
  BY <1>2, <1>3, <1>5 DEF AnswerColumns, AnswerFails, Answer
<1>6. ASSUME NEW r \in Requests, NEW kind, StartRequest(r, kind)
      PROVE  OnlyEnabledServed'
  BY <1>2, <1>3, <1>6 DEF StartRequest
<1>7. ASSUME Crash PROVE OnlyEnabledServed'
  BY <1>3, <1>7, SubmittedGrows DEF Crash, SourceInv, OnlyEnabledServed, ghosts
<1>8. ASSUME NEW a \in Admins, AdminStep(a) PROVE OnlyEnabledServed'
  BY <1>1, <1>8 DEF AdminStep, OpenPage, Cancel, Submit, SubmitFails, SaveStep,
     Emit, FailTemplate, CloseSave, WriteCell, AbortSave
<1>9. ASSUME NEW p \in Readers, LoadStep(p) PROVE OnlyEnabledServed'
  BY <1>1, <1>4, <1>5, <1>9 DEF LoadStep, ReadMore, PageOpens, PageFails
<1> QED
  BY <1>1, <1>6, <1>7, <1>8, <1>9 DEF Next, AlterSchema, vars

LEMMA SourceNext ==
  ASSUME TypeOK, SourceInv, [Next]_vars PROVE SourceInv'
<1>1. TabInv'
  BY TabNext DEF SourceInv
<1> QED
  BY <1>1, CellsRecorded, LoadsRecorded, SavesRecorded, AnswersRecorded
     DEF SourceInv

(* enabledFilters never returns a filter that was not enabled, for any     *)
(* number of tabs and requests and however they interleave and fail.       *)
THEOREM OnlyEnabledAlwaysServed == Spec => []OnlyEnabledServed
<1>1. SourceInv => OnlyEnabledServed
  BY DEF SourceInv
<1> QED
  BY <1>1, TypeInit, TypeNext, SourceInit, SourceNext, PTL DEF Spec

-----------------------------------------------------------------------------
(* A broken file *)

(* What a read adds to a prefix of the file gives a longer prefix of it.   *)
LEMMA PrefixGrows ==
  ASSUME NEW s \in Seq(Cells), NEW m \in Nat, NEW n \in Nat,
         m < n, n <= Len(s)
  PROVE  /\ SubSeq(s, 1, m) \o SubSeq(s, m + 1, n) = SubSeq(s, 1, n)
         /\ Len(SubSeq(s, 1, n)) = n
<1>1. Len(s) \in Nat /\ \A i \in 1..n : s[i] \in Cells
  BY LenProperties, ElementOfSeq
<1>2. Len(SubSeq(s, 1, n)) = n
  BY <1>1, SubSeqProperties
<1>3. 1 \in 1..(Len(s) + 1) /\ m \in (1 - 1)..Len(s) /\ n \in m..Len(s)
  BY <1>1
<1> QED
  BY <1>2, <1>3, ConcatAdjacentSubSeq

(* What Stuck says of one tab's load.                                      *)
ReadsPrefix(load) ==
  load.busy => /\ load.opened
               /\ Len(load.got) <= Len(cells)
               /\ load.got = SubSeq(cells, 1, Len(load.got))

(* A stuck file's page fails to open.                                      *)
LEMMA StuckPageFails ==
  ASSUME TypeOK, Stuck, NEW a \in Admins, PageOpens(a)
  PROVE  FALSE
<1>1. a \in Readers
  BY DEF Readers
<1>2. loads[a].got \in Seq(Cells) /\ cells \in Seq(Cells)
  BY <1>1 DEF TypeOK, LoadRecord
<1>3. /\ loads[a].busy /\ loads[a].opened
      /\ Len(loads[a].got) <= Len(cells)
      /\ loads[a].got = SubSeq(cells, 1, Len(loads[a].got))
      /\ Len(loads[a].got) >= Len(cells)
  BY DEF PageOpens, AtEnd, Stuck
<1>4. Len(loads[a].got) = Len(cells)
  BY <1>2, <1>3, LenProperties
<1>5. loads[a].got = cells
  BY <1>2, <1>3, <1>4, SubSeqFull
<1> QED
  BY <1>3, <1>5 DEF PageOpens, Parses, Stuck

LEMMA StuckReadMore ==
  ASSUME TypeOK, Stuck, NEW p \in Readers, ReadMore(p), NEW a \in Admins
  PROVE  ReadsPrefix(loads[a])'
<1> DEFINE got == loads[p].got
           upto == IF Len(got) + ReadBlock < Len(cells)
                   THEN Len(got) + ReadBlock ELSE Len(cells)
<1>1. cells' = cells /\ a \in Readers
  BY DEF ReadMore, Readers, file
<1>2. CASE p # a
  BY <1>1, <1>2 DEF ReadMore, TypeOK, Stuck, ReadsPrefix
<1>3. CASE p = a
  <2>1. got \in Seq(Cells) /\ cells \in Seq(Cells)
    BY DEF TypeOK, LoadRecord
  <2>2. /\ Len(got) \in Nat /\ Len(cells) \in Nat /\ ReadBlock \in Nat \ {0}
        /\ Len(got) < Len(cells)
    BY <2>1, LenProperties, LayerFiltersAssumption DEF ReadMore
  <2>3. upto \in Nat /\ Len(got) < upto /\ upto <= Len(cells)
    BY <2>2
  <2>4. /\ loads[a].opened
        /\ got = SubSeq(cells, 1, Len(got))
    BY <1>3 DEF Stuck, ReadMore
  <2>5. loads' = [loads EXCEPT ![a].got =
                    got \o SubSeq(cells, Len(got) + 1, upto)]
    BY <1>3 DEF ReadMore
  <2> HIDE DEF upto, got
  <2>6. /\ got \o SubSeq(cells, Len(got) + 1, upto) = SubSeq(cells, 1, upto)
        /\ Len(SubSeq(cells, 1, upto)) = upto
    <3> DEFINE m == Len(got)
    <3>1. m \in Nat /\ m < upto /\ got = SubSeq(cells, 1, m)
      BY <2>2, <2>3, <2>4
    <3>2. SubSeq(cells, 1, m) \o SubSeq(cells, m + 1, upto) = SubSeq(cells, 1, upto)
      <4> HIDE DEF m
      <4> QED
        BY <2>1, <2>3, <3>1, PrefixGrows
    <3>3. Len(SubSeq(cells, 1, upto)) = upto
      <4> HIDE DEF m
      <4> QED
        BY <2>1, <2>3, <3>1, PrefixGrows
    <3> QED
      BY <3>1, <3>2, <3>3
  <2>7. /\ loads'[a].got = SubSeq(cells, 1, upto)
        /\ loads'[a].opened = loads[a].opened
    BY <1>1, <2>5, <2>6 DEF TypeOK, LoadRecord
  <2> QED
    BY <1>1, <2>3, <2>4, <2>6, <2>7 DEF ReadsPrefix
<1> QED
  BY <1>2, <1>3

LEMMA StuckNext ==
  ASSUME TypeOK, Stuck, [Next]_vars PROVE Stuck'
<1> DEFINE Idle == \A a \in Admins : ~pages[a].open /\ ~saves[a].open
<1>1. Stuck <=> /\ exists /\ ~Readable(cells) /\ Idle
                /\ \A a \in Admins : ReadsPrefix(loads[a])
  BY DEF Stuck, ReadsPrefix
<1>2. Stuck' <=> /\ exists' /\ ~Readable(cells') /\ Idle'
                 /\ \A a \in Admins : ReadsPrefix(loads[a])'
  BY DEF Stuck, ReadsPrefix
<1>3. ASSUME UNCHANGED <<file, pages, saves>>,
             \A a \in Admins : ReadsPrefix(loads[a])'
      PROVE  Stuck'
  BY <1>1, <1>2, <1>3 DEF file
<1>4. ASSUME UNCHANGED cells, NEW a \in Admins,
             loads'[a] = loads[a] \/ loads'[a] = NoLoad
      PROVE  ReadsPrefix(loads[a])'
  BY <1>1, <1>4 DEF ReadsPrefix, NoLoad
<1>5. ASSUME NEW a \in Admins, AdminStep(a) PROVE Stuck'
  <2>1. OpenPage(a)
    BY <1>1, <1>5 DEF AdminStep, Cancel, Submit, SubmitFails, SaveStep, Emit,
       FailTemplate, CloseSave, AbortSave
  <2>2. ReadsPrefix(loads[a])'
    <3>1. cells \in Seq(Cells) /\ cells' = cells
      BY <2>1 DEF TypeOK, OpenPage, file
    <3>2. Len(cells) \in Nat /\ Len(<<>>) = 0 /\ SubSeq(cells, 1, 0) = <<>>
      BY <3>1, LenProperties, EmptySeq, SubSeqEmpty
    <3>3. loads'[a].got = <<>> /\ loads'[a].opened
      BY <1>1, <2>1 DEF OpenPage, BeginLoad, TypeOK, Readers
    <3> QED
      BY <3>1, <3>2, <3>3 DEF ReadsPrefix
  <2>3. ASSUME NEW b \in Admins, b # a PROVE ReadsPrefix(loads[b])'
    BY <1>4, <2>1, <2>3 DEF OpenPage, BeginLoad, TypeOK, Readers, file
  <2>4. Idle'
    BY <1>1, <2>1 DEF OpenPage, TypeOK, ClosedPage
  <2> QED
    BY <1>1, <1>2, <2>1, <2>2, <2>3, <2>4 DEF OpenPage, file
<1>6. ASSUME NEW r \in Requests, NEW kind, StartRequest(r, kind) PROVE Stuck'
  <2>1. \A a \in Admins : loads'[a] = loads[a]
    BY <1>6, LayerFiltersAssumption DEF StartRequest, BeginLoad, TypeOK, Readers
  <2> QED
    BY <1>3, <1>4, <1>6, <2>1 DEF StartRequest, file
<1>7. ASSUME NEW p \in Readers, LoadStep(p) PROVE Stuck'
  <2>1. CASE ReadMore(p)
    BY <1>3, <2>1, StuckReadMore DEF ReadMore
  <2>2. CASE ~ReadMore(p)
    <3>1. loads' = [loads EXCEPT ![p] = NoLoad] /\ UNCHANGED <<file, pages, saves>>
      BY <1>7, <2>2, StuckPageFails DEF LoadStep, PageFails, AnswerFilters,
         AnswerColumns, AnswerFails, Answer
    <3>2. \A a \in Admins : loads'[a] = loads[a] \/ loads'[a] = NoLoad
      BY <3>1 DEF TypeOK, Readers
    <3> QED
      BY <1>3, <1>4, <3>1, <3>2 DEF file
  <2> QED
    BY <2>1, <2>2
<1>8. ASSUME AlterSchema \/ UNCHANGED vars PROVE Stuck'
  BY <1>3, <1>4, <1>8 DEF AlterSchema, vars, file
<1>9. ASSUME Crash PROVE Stuck'
  <2>1. \A a \in Admins : loads'[a] = NoLoad
    BY <1>9 DEF Crash, Readers
  <2>2. Idle'
    BY <1>9 DEF Crash, ClosedPage, NoSave
  <2> QED
    BY <1>1, <1>2, <1>4, <1>9, <2>1, <2>2 DEF Crash, file
<1> QED
  BY <1>5, <1>6, <1>7, <1>8, <1>9 DEF Next

(* Nothing in the program repairs a filters.xml that does not parse, once  *)
(* no page is open: neither further requests nor restarts nor the page.    *)
THEOREM BrokenFileNeverRepaired == Spec => BrokenFileStaysBroken
<1>1. TypeOK /\ [Next]_vars => [Stuck => Stuck']_vars
  BY StuckNext
<1> QED
  BY <1>1, TypeCorrect, PTL DEF Spec, BrokenFileStaysBroken

=============================================================================
