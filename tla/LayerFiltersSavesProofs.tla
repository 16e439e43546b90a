---------------------- MODULE LayerFiltersSavesProofs ----------------------
(***************************************************************************)
(* Theorems about LayerFilters while one tab uses the configuration page:  *)
(* what a save leaves reads back as its page, for any number of columns    *)
(* and any faults; and, if a read returns the whole file and no I/O fails, *)
(* what requests that read the file meanwhile answer, and that the file    *)
(* implements FilterRegister.                                              *)
(***************************************************************************)
EXTENDS LayerFiltersProofs, LayerFiltersRegister, OrderedProofs

(* Nobody else has the configuration page open.                            *)
OneTab == \A a, b \in Admins : a = b

(* No text that the template writes has characters that XML reserves:      *)
(* neither a column's name, nor what is entered, nor an extra of the file. *)
PlainForms ==
  /\ (Names \cup ExtraTags) \cap Markup = {}
  /\ \A input \in RowInputs : input.type \notin Markup /\ input.label \notin Markup

(* The entered texts of these filters have no such characters.             *)
PlainTexts(filters) ==
  \A i \in DOMAIN filters :
    filters[i].type \notin Markup /\ filters[i].label \notin Markup

(* A table's columns have different names.                                 *)
DistinctColumns ==
  \A s \in Schemas : \A i, j \in DOMAIN s : s[i] = s[j] => i = j

-----------------------------------------------------------------------------
(* Sequences *)

(* A non-empty set of numbers in 1..n has a least element.                 *)
LEMMA LeastIndex ==
  ASSUME NEW n \in Nat, NEW T \in SUBSET (1..n), T # {}
  PROVE  \E i \in T : \A j \in T : i <= j
<1>1. T \subseteq Nat
  OBVIOUS
<1>2. PICK i \in T : \A j \in T : ~(<<j, i>> \in OpToRel(<, Nat))
  BY <1>1, WFMin, NatLessThanWellFounded, Zenon
<1>3. \A j \in T : ~(j < i)
  BY <1>1, <1>2 DEF OpToRel
<1> QED
  BY <1>1, <1>3

(* A write at the end of the file appends.                                 *)
LEMMA OverlayAppends ==
  ASSUME NEW text \in Seq(Cells), NEW cell \in Cells
  PROVE  LET new == Overlay(text, Len(text), cell)
         IN  /\ new \in Seq(Cells)
             /\ Len(new) = Len(text) + 1
             /\ \A i \in 1..Len(text) : new[i] = text[i]
             /\ new[Len(text) + 1] = cell
<1>1. Len(text) \in Nat /\ \A i \in 1..Len(text) : text[i] \in Cells
  BY LenProperties, ElementOfSeq
<1> DEFINE new == Overlay(text, Len(text), cell)
<1>2. new \in [1..(Len(text) + 1) -> Cells]
  BY <1>1 DEF Overlay, Cells
<1>3. new \in Seq(Cells) /\ Len(new) = Len(text) + 1
  BY <1>1, <1>2, FunctionIsSeq
<1>4. \A i \in 1..(Len(text) + 1) : new[i] = IF i = Len(text) + 1 THEN cell ELSE text[i]
  BY <1>1 DEF Overlay
<1> QED
  BY <1>1, <1>3, <1>4

-----------------------------------------------------------------------------
(* The file while a save runs *)

(* The filter's element is in the file.                                    *)
InFile(f) == \E k \in 1..Len(cells) : cells[k] = Element(f)

(* A running save has put the enabled filters before the next one into the *)
(* file, and nothing else.                                                 *)
SaveOK(a) ==
  LET filters == pages[a].filters
      next    == saves[a].next
  IN  /\ pages[a].open
      /\ next \in 1..(Len(filters) + 1)
      /\ saves[a].pos = Len(cells) /\ Len(cells) < next
      /\ \A k \in 1..Len(cells) : \E i \in 1..(next - 1) :
           /\ filters[i].enabled /\ Writable(filters[i])
           /\ cells[k] = Element(filters[i])
      /\ \A i \in 1..(next - 1) : filters[i].enabled => InFile(filters[i])
      /\ PlainForms => PlainTexts(filters)

SaveInv == \A a \in Admins : saves[a].open => exists /\ SaveOK(a)

(* What steps do to the file and the tabs, the running saves apart.        *)
LEMMA TabStep ==
  ASSUME TypeOK, TabInv, [Next]_vars
  PROVE  \/ \E a \in Admins : \E inputs \in [DOMAIN pages[a].filters -> RowInputs] :
              Submit(a, inputs)
         \/ \E a \in Admins : SaveStep(a)
         \/ /\ UNCHANGED file
            /\ \A a \in Admins : saves'[a].open => UNCHANGED <<pages[a], saves[a]>>
<1> DEFINE Quiet == /\ UNCHANGED file
                    /\ \A a \in Admins : saves'[a].open => UNCHANGED <<pages[a], saves[a]>>
<1>1. ASSUME NEW a \in Admins, AdminStep(a), ~SaveStep(a),
             ~ \E inputs \in [DOMAIN pages[a].filters -> RowInputs] : Submit(a, inputs)
      PROVE  Quiet
  BY <1>1 DEF AdminStep, OpenPage, Cancel, SubmitFails, AbortSave, NoSave, TypeOK
<1>2. ASSUME NEW p \in Readers, LoadStep(p) PROVE Quiet
  BY <1>2 DEF LoadStep, ReadMore, PageOpens, PageFails, AnswerFilters, AnswerColumns,
     AnswerFails, Answer, AtEnd, TabInv, TypeOK, Readers
<1>3. CASE Crash
  BY <1>3 DEF Crash, NoSave
<1> QED
  BY <1>1, <1>2, <1>3 DEF Next, StartRequest, AlterSchema, vars, file

(* Submitting truncates the file; the save has written nothing yet.        *)
LEMMA SubmitSaves ==
  ASSUME TypeOK, OneTab, NEW a \in Admins,
         NEW inputs \in [DOMAIN pages[a].filters -> RowInputs], Submit(a, inputs)
  PROVE  SaveInv'
<1> DEFINE filters == ApplyForm(pages[a].filters, inputs)
<1>1. pages[a].filters \in Seq(Filter)
  BY DEF TypeOK, PageRecord
<1>2. filters \in Seq(Filter) /\ DOMAIN filters = DOMAIN pages[a].filters
  BY <1>1, ApplyFormType
<1>3. Len(filters) \in Nat /\ DOMAIN filters = 1..Len(filters)
  BY <1>2, LenProperties
<1>4. PlainForms => PlainTexts(filters)
  <2>1. \A i \in 1..Len(filters) : /\ filters[i].label = inputs[i].label
                                  /\ filters[i].type = inputs[i].type
    <3>1. \A i \in DOMAIN pages[a].filters : pages[a].filters[i] \in Filter
      BY <1>1, LenProperties, ElementOfSeq
    <3>2. \A i \in DOMAIN pages[a].filters : filters[i] = ApplyRow(pages[a].filters[i], inputs[i])
      BY DEF ApplyForm
    <3> HIDE DEF filters
    <3>3. ASSUME NEW f \in Filter, NEW input
          PROVE  ApplyRow(f, input).label = input.label /\ ApplyRow(f, input).type = input.type
      BY DEF ApplyRow, Filter
    <3> QED
      BY <1>2, <1>3, <3>1, <3>2, <3>3
  <2> QED
    BY <1>2, <1>3, <2>1 DEF PlainForms, PlainTexts
<1>5. /\ pages' = [pages EXCEPT ![a] = ShownPage(filters)]
      /\ saves' = [saves EXCEPT ![a] = [NoSave EXCEPT !.open = TRUE]]
      /\ exists' = TRUE /\ cells' = <<>>
  BY DEF Submit
<1> HIDE DEF filters
<1>6. /\ pages'[a].open /\ pages'[a].filters = filters
      /\ saves'[a].next = 1 /\ saves'[a].pos = 0 /\ Len(cells') = 0
  BY <1>5, EmptySeq DEF TypeOK, ShownPage, NoSave
<1>7. SaveOK(a)'
  BY <1>3, <1>4, <1>5, <1>6 DEF SaveOK, InFile
<1> QED
  BY <1>5, <1>7 DEF SaveInv, OneTab

(* The next enabled filter goes to the end of the file.                    *)
LEMMA EmitSaves ==
  ASSUME TypeOK, OneTab, SaveInv, NEW a \in Admins,
         NEW i \in DOMAIN pages[a].filters, Emit(a, i)
  PROVE  SaveInv'
<1> DEFINE filters == pages[a].filters
           next    == saves[a].next
           cell    == Element(filters[i])
<1>1. filters \in Seq(Filter) /\ cells \in Seq(Cells) /\ next \in Nat
      /\ saves[a].open /\ exists
  BY DEF TypeOK, PageRecord, SaveRecord, Emit, SaveInv
<1>2. Len(filters) \in Nat /\ Len(cells) \in Nat /\ DOMAIN filters = 1..Len(filters)
      /\ filters[i] \in Filter
  BY <1>1, LenProperties, ElementOfSeq
<1>3. cell \in Cells
  BY <1>2, ElementType
<1>4. SaveOK(a)
  BY <1>1 DEF SaveInv
<1>5. /\ i \in next..Len(filters) /\ filters[i].enabled /\ Writable(filters[i])
      /\ \A j \in next..(i - 1) : ~filters[j].enabled
      /\ cells' = Overlay(cells, Len(cells), cell)
      /\ pages' = pages /\ exists' = exists
  BY <1>4 DEF Emit, NextEnabled, WriteCell, SaveOK
<1>6. /\ saves'[a].open /\ saves'[a].next = i + 1 /\ saves'[a].pos = Len(cells) + 1
  BY <1>4 DEF Emit, TypeOK, SaveRecord, SaveOK
<1> HIDE DEF filters, next, cell
<1>7. /\ Len(cells') = Len(cells) + 1
      /\ \A k \in 1..Len(cells) : cells'[k] = cells[k]
      /\ cells'[Len(cells) + 1] = cell
  BY <1>1, <1>3, <1>5, OverlayAppends
<1>8. /\ pages[a].open /\ next \in 1..(Len(filters) + 1) /\ Len(cells) < next
      /\ \A k \in 1..Len(cells) : \E j \in 1..(next - 1) :
           /\ filters[j].enabled /\ Writable(filters[j])
           /\ cells[k] = Element(filters[j])
      /\ \A j \in 1..(next - 1) : filters[j].enabled => InFile(filters[j])
      /\ PlainForms => PlainTexts(filters)
  BY <1>4 DEF SaveOK, filters, next
<1>9. \A k \in 1..(Len(cells) + 1) : \E j \in 1..i :
        /\ filters[j].enabled /\ Writable(filters[j])
        /\ cells'[k] = Element(filters[j])
  <2>1. ASSUME NEW k \in 1..Len(cells)
        PROVE  \E j \in 1..i : /\ filters[j].enabled /\ Writable(filters[j])
                               /\ cells'[k] = Element(filters[j])
    <3>1. 1..(next - 1) \subseteq 1..i
      BY <1>1, <1>2, <1>5
    <3> QED
      BY <1>7, <1>8, <3>1
  <2>2. i \in 1..i /\ cells'[Len(cells) + 1] = Element(filters[i])
    BY <1>1, <1>2, <1>5, <1>7, <1>8 DEF cell
  <2>3. \A k \in 1..(Len(cells) + 1) : k \in 1..Len(cells) \/ k = Len(cells) + 1
    BY <1>2
  <2> QED
    BY <1>5, <2>1, <2>2, <2>3
<1>10. ASSUME NEW j \in 1..i, filters[j].enabled
       PROVE  InFile(filters[j])'
  <2>1. j \in 1..(next - 1) \/ j = i
    BY <1>1, <1>2, <1>5, <1>10
  <2>2. CASE j \in 1..(next - 1)
    <3>1. PICK k \in 1..Len(cells) : cells[k] = Element(filters[j])
      BY <1>8, <1>10, <2>2 DEF InFile
    <3>2. k \in 1..(Len(cells) + 1)
      BY <1>2
    <3> QED
      BY <1>5, <1>7, <3>1, <3>2 DEF InFile, filters
  <2>3. CASE j = i
    <3>1. Len(cells) + 1 \in 1..(Len(cells) + 1)
      BY <1>2
    <3> QED
      BY <1>5, <1>7, <2>3, <3>1 DEF InFile, filters, cell
  <2> QED
    BY <2>1, <2>2, <2>3
<1>11. i + 1 \in 1..(Len(filters) + 1) /\ Len(cells) + 1 < i + 1 /\ (i + 1) - 1 = i
  BY <1>1, <1>2, <1>5, <1>8
<1>12. SaveOK(a)'
  <2>1. pages'[a].filters = filters /\ pages'[a].open
    BY <1>5, <1>8 DEF filters
  <2> QED
    BY <1>6, <1>7, <1>8, <1>9, <1>10, <1>11, <2>1 DEF SaveOK, filters
<1> QED
  BY <1>1, <1>5, <1>12 DEF SaveInv, OneTab

LEMMA SaveInit ==
  ASSUME Init PROVE SaveInv
  BY DEF Init, SaveInv, NoSave

LEMMA SaveNext ==
  ASSUME TypeOK, TabInv, OneTab, SaveInv, [Next]_vars PROVE SaveInv'
<1>1. ASSUME NEW a \in Admins, SaveStep(a) PROVE SaveInv'
  <2>1. ASSUME saves' = [saves EXCEPT ![a] = NoSave] PROVE SaveInv'
    BY <2>1 DEF OneTab, SaveInv, NoSave, TypeOK
  <2> QED
    BY <1>1, <2>1, EmitSaves DEF SaveStep, FailTemplate, CloseSave
<1>2. ASSUME UNCHANGED file, NEW a \in Admins, saves'[a].open,
             UNCHANGED <<pages[a], saves[a]>>
      PROVE  exists' /\ SaveOK(a)'
  <2>1. /\ pages'[a] = pages[a] /\ saves'[a] = saves[a]
        /\ exists' = exists /\ cells' = cells
    BY <1>2 DEF file
  <2>2. exists /\ SaveOK(a)
    BY <1>2, <2>1 DEF SaveInv
  <2>3. \A f : InFile(f)' = InFile(f)
    BY <2>1 DEF InFile
  <2> QED
    BY <2>1, <2>2, <2>3 DEF SaveOK
<1> QED
  BY <1>1, <1>2, SubmitSaves, TabStep DEF SaveInv

-----------------------------------------------------------------------------
(* What a save leaves *)

(* When a save closes the file, no enabled filter is left to write.        *)
LEMMA CloseIsComplete ==
  ASSUME TypeOK, SaveInv, NEW a \in Admins, CloseSave(a)
  PROVE  LET filters == pages[a].filters
         IN  /\ SaveOK(a)
             /\ \A i \in 1..Len(filters) : filters[i].enabled => i < saves[a].next
             /\ cells' = Overlay(cells, Len(cells), End) /\ exists'
<1> DEFINE filters == pages[a].filters
           next    == saves[a].next
<1>1. filters \in Seq(Filter) /\ Len(filters) \in Nat /\ next \in Nat
  BY LenProperties DEF TypeOK, PageRecord, SaveRecord
<1>2. exists /\ SaveOK(a)
  BY DEF SaveInv, CloseSave
<1>3. \A i \in next..Len(filters) : ~NextEnabled(a, i)
  BY DEF CloseSave
<1>4. cells' = Overlay(cells, Len(cells), End) /\ exists'
  BY <1>2 DEF CloseSave, WriteCell, SaveOK
<1>5. ASSUME NEW i \in 1..Len(filters), filters[i].enabled, ~(i < next)
      PROVE  FALSE
  <2> DEFINE T == {j \in 1..Len(filters) : next <= j /\ filters[j].enabled}
  <2>1. T \in SUBSET (1..Len(filters)) /\ i \in T
    BY <1>1, <1>5
  <2>2. PICK k \in T : \A j \in T : k <= j
    <3> HIDE DEF T
    <3> QED
      BY <1>1, <2>1, LeastIndex, Zenon
  <2>3. k \in next..Len(filters) /\ filters[k].enabled
    BY <1>1, <2>2
  <2>4. \A j \in next..(k - 1) : ~filters[j].enabled
    <3>1. \A j \in next..(k - 1) : j \in 1..Len(filters) /\ next <= j /\ ~(k <= j)
      BY <1>1, <1>2, <2>3 DEF SaveOK
    <3> QED
      BY <2>2, <3>1
  <2>5. NextEnabled(a, k)
    BY <2>3, <2>4 DEF NextEnabled
  <2> QED
    BY <1>3, <2>3, <2>5
<1> QED
  BY <1>2, <1>4, <1>5

(* FilterNamed finds a filter of that name if there is one.                *)
LEMMA NamedIsAHit ==
  ASSUME NEW filters \in Seq(Filter), NEW n
  PROVE  LET hits == {k \in DOMAIN filters : filters[k].name = n}
         IN  IF hits = {} THEN FilterNamed(filters, n) = NoSuchFilter
             ELSE \E k \in hits : FilterNamed(filters, n) = filters[k]
<1> DEFINE hits == {k \in DOMAIN filters : filters[k].name = n}
<1>1. CASE hits = {}
  BY <1>1 DEF FilterNamed
<1>2. CASE hits # {}
  <2>1. hits \in SUBSET (1..Len(filters)) /\ Len(filters) \in Nat
    BY LenProperties
  <2>2. \E k \in hits : \A j \in hits : j <= k
    BY <1>2, <2>1, GreatestIndex, Zenon
  <2> DEFINE last == CHOOSE k \in hits : \A j \in hits : j <= k
  <2>3. last \in hits
    BY <2>2
  <2>4. FilterNamed(filters, n) = filters[last]
    BY <1>2 DEF FilterNamed
  <2> HIDE DEF last
  <2> QED
    BY <1>2, <2>3, <2>4
<1> QED
  BY <1>1, <1>2

(* An enabled filter that is written and parsed again is itself, with its  *)
(* label filled in.                                                        *)
LEMMA ParsedBack ==
  ASSUME NEW f \in Filter, f.enabled
  PROVE  ParseFilter(WriteFilter(f)) = [f EXCEPT !.label = GetLabel(f)]
<1> DEFINE g == [f EXCEPT !.label = GetLabel(f)]
<1>1. f.enabled = TRUE
  BY DEF Filter
<1>2. /\ g \in Filter /\ g.name = f.name /\ g.type = f.type /\ g.label = GetLabel(f)
      /\ g.enabled = f.enabled /\ g.visualised = f.visualised
      /\ g.excludedFromDownload = f.excludedFromDownload /\ g.extras = f.extras
  BY GetLabelType DEF Filter
<1> HIDE DEF g
<1>3. g = [name |-> g.name, type |-> g.type, label |-> g.label,
           enabled |-> g.enabled, visualised |-> g.visualised,
           excludedFromDownload |-> g.excludedFromDownload, extras |-> g.extras]
  BY <1>2 DEF Filter
<1> QED
  BY <1>1, <1>2, <1>3 DEF ParseFilter, WriteFilter, g

(* A filter without markup is written as its element.                      *)
LEMMA WrittenPlain ==
  ASSUME PlainForms, NEW f \in Filter, f.type \notin Markup, f.label \notin Markup
  PROVE  Element(f) = WriteFilter(f)
<1>1. f.name \notin Markup /\ f.extras \cap Markup = {}
  BY DEF PlainForms, Filter
<1>2. GetLabel(f) \notin Markup
  BY FiltersAssumption DEF GetLabel
<1>3. WellFormed(WriteFilter(f))
  BY <1>1, <1>2 DEF WellFormed, WriteFilter
<1> QED
  BY <1>3 DEF Element

(* The file that is left has an element for every enabled filter, and each *)
(* of its elements is one of these.                                        *)
LEMMA ClosedFile ==
  ASSUME TypeOK, SaveInv, PlainForms, NEW a \in Admins, CloseSave(a)
  PROVE  LET filters == pages[a].filters
         IN  /\ Readable(cells')
             /\ Document(cells') \in Seq(Filter)
             /\ \A k \in DOMAIN Document(cells') : \E i \in DOMAIN filters :
                  filters[i].enabled /\ Document(cells')[k] = ParseFilter(WriteFilter(filters[i]))
             /\ \A i \in DOMAIN filters : filters[i].enabled =>
                  \E k \in DOMAIN Document(cells') :
                    Document(cells')[k] = ParseFilter(WriteFilter(filters[i]))
<1> DEFINE filters == pages[a].filters
           next    == saves[a].next
<1>1. /\ filters \in Seq(Filter) /\ Len(filters) \in Nat /\ next \in Nat
      /\ DOMAIN filters = 1..Len(filters)
      /\ cells \in Seq(Cells) /\ Len(cells) \in Nat
      /\ \A i \in 1..Len(filters) : filters[i] \in Filter
  BY LenProperties, ElementOfSeq DEF TypeOK, PageRecord, SaveRecord
<1>2. /\ SaveOK(a) /\ cells' = Overlay(cells, Len(cells), End)
      /\ \A i \in 1..Len(filters) : filters[i].enabled => i < next
  BY CloseIsComplete
<1>3. /\ \A k \in 1..Len(cells) : \E i \in 1..(next - 1) :
           filters[i].enabled /\ cells[k] = Element(filters[i])
      /\ \A i \in 1..(next - 1) : filters[i].enabled => InFile(filters[i])
      /\ next \in 1..(Len(filters) + 1)
      /\ PlainTexts(filters)
  BY <1>2 DEF SaveOK
<1> HIDE DEF filters, next
<1>4. /\ cells' \in Seq(Cells) /\ Len(cells') = Len(cells) + 1
      /\ \A k \in 1..Len(cells) : cells'[k] = cells[k]
      /\ cells'[Len(cells) + 1] = End
  BY <1>1, <1>2, OverlayAppends DEF Cells
<1>5. \A i \in 1..Len(filters) : /\ Element(filters[i]) = WriteFilter(filters[i])
                                /\ WriteFilter(filters[i]) \in Entry
  BY <1>1, <1>3, WrittenPlain, WriteFilterType DEF PlainTexts
<1>6. \A k \in 1..Len(cells) : \E i \in 1..Len(filters) :
        filters[i].enabled /\ cells'[k] = WriteFilter(filters[i])
  <2>1. 1..(next - 1) \subseteq 1..Len(filters)
    BY <1>1, <1>3
  <2> QED
    BY <1>3, <1>4, <1>5, <2>1
<1>7. \A i \in 1..Len(filters) : filters[i].enabled =>
        \E k \in 1..Len(cells) : cells'[k] = WriteFilter(filters[i])
  <2>1. \A i \in 1..Len(filters) : i < next => i \in 1..(next - 1)
    BY <1>1
  <2> QED
    BY <1>2, <1>3, <1>4, <1>5, <2>1 DEF InFile, filters, next
<1>8. Readable(cells')
  <2>1. \A k \in 1..Len(cells) : cells'[k] \in Entry
    BY <1>6, <1>5
  <2>2. cells' # <<>>
    BY <1>1, <1>4, EmptySeq
  <2> QED
    BY <1>1, <1>4, <2>1, <2>2 DEF Readable
<1>9. /\ Document(cells') \in Seq(Filter)
      /\ DOMAIN Document(cells') = 1..Len(cells)
      /\ \A k \in 1..Len(cells) : Document(cells')[k] = ParseFilter(cells'[k])
  <2>1. Len(cells') - 1 = Len(cells)
    BY <1>1, <1>4
  <2> QED
    BY <1>4, <1>8, <2>1, DocumentType DEF Document
<1>10. \A k \in DOMAIN Document(cells') : \E i \in DOMAIN filters :
         filters[i].enabled /\ Document(cells')[k] = ParseFilter(WriteFilter(filters[i]))
  BY <1>1, <1>6, <1>9
<1>11. \A i \in DOMAIN filters : filters[i].enabled =>
         \E k \in DOMAIN Document(cells') :
           Document(cells')[k] = ParseFilter(WriteFilter(filters[i]))
  BY <1>1, <1>7, <1>9
<1> QED
  BY <1>8, <1>9, <1>10, <1>11 DEF filters

(* The file reads back as the page.                                        *)
LEMMA CloseReadsBack ==
  ASSUME TypeOK, PagesRender, SaveInv, PlainForms, DistinctColumns,
         NEW a \in Admins, CloseSave(a), NEW i \in DOMAIN pages[a].filters
  PROVE  LET f == pages[a].filters[i]
         IN  FilterNamed(Document(cells'), f.name) =
               IF f.enabled THEN [f EXCEPT !.label = GetLabel(f)] ELSE NoSuchFilter
<1> DEFINE filters == pages[a].filters
           f       == filters[i]
           doc     == Document(cells')
           hits    == {k \in DOMAIN doc : doc[k].name = f.name}
<1>1. /\ filters \in Seq(Filter) /\ \A j \in DOMAIN filters : filters[j] \in Filter
  BY LenProperties, ElementOfSeq DEF TypeOK, PageRecord
<1>2. /\ doc \in Seq(Filter)
      /\ \A k \in DOMAIN doc : \E j \in DOMAIN filters :
           filters[j].enabled /\ doc[k] = ParseFilter(WriteFilter(filters[j]))
      /\ \A j \in DOMAIN filters : filters[j].enabled =>
           \E k \in DOMAIN doc : doc[k] = ParseFilter(WriteFilter(filters[j]))
  BY ClosedFile
<1>3. \A j \in DOMAIN filters : filters[j].name = f.name => j = i
  <2>1. pages[a].open
    BY DEF SaveInv, SaveOK, CloseSave
  <2>2. PICK s \in Schemas : [j \in DOMAIN filters |-> filters[j].name] = s
    BY <2>1 DEF PagesRender
  <2>3. DOMAIN s = DOMAIN filters /\ \A j \in DOMAIN filters : s[j] = filters[j].name
    BY <2>2
  <2> QED
    BY <2>3 DEF DistinctColumns
<1> HIDE DEF filters, doc
<1>4. \A j \in DOMAIN filters : ParseFilter(WriteFilter(filters[j])).name = filters[j].name
  BY DEF ParseFilter, WriteFilter
<1>5. \A k \in hits : f.enabled /\ doc[k] = ParseFilter(WriteFilter(f))
  BY <1>2, <1>3, <1>4
<1>6. f.enabled => hits # {}
  BY <1>2, <1>4 DEF filters
<1>7. CASE f.enabled
  <2>1. FilterNamed(doc, f.name) = ParseFilter(WriteFilter(f))
    <3> HIDE DEF f
    <3> QED
      BY <1>2, <1>5, <1>6, <1>7, NamedIsAHit
  <2> QED
    BY <1>1, <1>7, <2>1, ParsedBack DEF filters, doc
<1>8. CASE ~f.enabled
  <2>1. hits = {}
    BY <1>5, <1>8
  <2>2. FilterNamed(doc, f.name) = NoSuchFilter
    <3> HIDE DEF f
    <3> QED
      BY <1>2, <2>1, NamedIsAHit
  <2> QED
    BY <1>8, <2>2 DEF filters, doc
<1> QED
  BY <1>7, <1>8

(* SaveReadsBack, as long as one tab saves at a time and no text has       *)
(* markup characters: the file a save leaves reads back as the page that   *)
(* was submitted, for any number of columns and filters, whatever requests *)
(* read meanwhile, and also after saves that failed or were cut short.     *)
THEOREM SavedAlwaysReadsBack ==
  ASSUME OneTab, PlainForms, DistinctColumns
  PROVE  Spec => SaveReadsBack
<1> DEFINE Inv == TypeOK /\ TabInv /\ RenderInv /\ SaveInv
<1>1. Init => Inv
  BY TypeInit, SourceInit, RenderInit, SaveInit DEF SourceInv
<1>2. Inv /\ [Next]_vars => Inv'
  BY TypeNext, TabNext, RenderNext, SaveNext
<1>3. Inv /\ [Next]_vars =>
        [\A a \in Admins :
           CloseSave(a) =>
             /\ Readable(cells')
             /\ \A i \in DOMAIN pages[a].filters :
                  LET f == pages[a].filters[i]
                  IN  FilterNamed(Document(cells'), f.name) =
                        IF f.enabled THEN [f EXCEPT !.label = GetLabel(f)]
                        ELSE NoSuchFilter]_vars
  BY CloseReadsBack, ClosedFile DEF RenderInv
<1> QED
  BY <1>1, <1>2, <1>3, PTL DEF Spec, SaveReadsBack

-----------------------------------------------------------------------------
(* What requests read meanwhile *)

(* The text ends with a cell that no element is: the closing tag, or what  *)
(* a template that failed left.                                            *)
Closed(text) == text # <<>> /\ text[Len(text)] \notin Entry

(* A read of the file returns all of it.                                   *)
WholeReads ==
  /\ \A s \in Schemas : Len(s) < ReadBlock
  /\ \A text \in InitialFiles : Len(text) <= ReadBlock

(* One tab, whole reads, no I/O errors, and a file at the start that some  *)
(* save ended.                                                             *)
Undisturbed ==
  /\ OneTab /\ WholeReads /\ MaxFaults = 0
  /\ \A text \in InitialFiles : Closed(text)

NobodySaves == \A a \in Admins : ~saves[a].open

(* Between saves the file is closed and short enough for one read.         *)
FileInv ==
  NobodySaves => Len(cells) <= ReadBlock /\ (exists => Closed(cells))

(* What was read is the beginning of the file as it is.                    *)
IsBeginning(got) ==
  Len(got) <= Len(cells) /\ \A i \in 1..Len(got) : got[i] = cells[i]

(* What was read has something after its end and will not parse.           *)
Spoiled(got) == \E i \in 1..(Len(got) - 1) : got[i] \notin Entry

(* What the file gives whoever reads this text.                            *)
Given(text) ==
  IF Readable(text) THEN Configuration(Document(text)) ELSE Unreadable

(* What a request that at most one save has overlapped has read: the       *)
(* beginning of the file, a content the file had, or what will not parse.  *)
LoadOK(r) ==
  LET load == loads[r]
  IN  load.busy /\ overlaps[r] <= 1 =>
        /\ (IF exists THEN Given(cells) ELSE Configuration(<<>>)) \in offered[r]
        /\ ~load.opened => Configuration(<<>>) \in offered[r]
        /\ overlaps[r] = 0 =>
             NobodySaves /\ (load.opened => load.got \in {<<>>, cells})
        /\ load.opened =>
             /\ exists
             /\ \/ IsBeginning(load.got)
                \/ Spoiled(load.got)
                \/ Closed(load.got) /\ Given(load.got) \in offered[r]

LoadInv == \A r \in Requests : LoadOK(r)

(* A request that runs has no answer yet.                                  *)
AnswerInv == \A r \in Requests : loads[r].busy => answers[r] = NoAnswer

LEMMA ReadersAre ==
  /\ Requests \subseteq Readers /\ Admins \subseteq Readers
  /\ \A r \in Requests : r \notin Admins
  BY LayerFiltersAssumption DEF Readers

LEMMA HeldThere ==
  /\ \A text : Held(TRUE, text) = Given(text)
  /\ \A text : Held(FALSE, text) = Configuration(<<>>)
  BY DEF Held, Given

(* A text is not both closed and read on.                                  *)
LEMMA ReadableIsWhole ==
  ASSUME NEW got \in Seq(Cells), Readable(got)
  PROVE  ~Spoiled(got) /\ Closed(got) /\ Given(got) = Configuration(Document(got))
<1>1. Len(got) \in Nat /\ got # <<>> /\ got[Len(got)] = End
      /\ \A i \in 1..(Len(got) - 1) : got[i] \in Entry
  BY LenProperties DEF Readable
<1> QED
  BY <1>1, LayerFiltersAssumption DEF Spoiled, Closed, Given

(* Nothing that concerns the request changes.                              *)
LEMMA LoadStays ==
  ASSUME NEW r \in Requests, LoadOK(r), UNCHANGED <<file, saves>>,
         UNCHANGED <<loads[r], overlaps[r], offered[r]>>
  PROVE  LoadOK(r)'
  BY DEF LoadOK, file, NobodySaves, IsBeginning

LEMMA LoadInit ==
  ASSUME Init, Undisturbed PROVE FileInv /\ LoadInv /\ AnswerInv
<1>1. LoadInv /\ AnswerInv
  BY ReadersAre DEF Init, LoadInv, LoadOK, AnswerInv, NoLoad
<1>2. FileInv
  <2>1. Len(<<>>) <= ReadBlock
    BY LayerFiltersAssumption, EmptySeq
  <2> QED
    BY <2>1 DEF Init, FileInv, Undisturbed, WholeReads
<1> QED
  BY <1>1, <1>2

(* A save that begins: what was read of the file is all of it, or nothing. *)
LEMMA SubmitReads ==
  ASSUME TypeOK, FileInv, LoadInv, NEW a \in Admins, NEW inputs, Submit(a, inputs)
  PROVE  FileInv' /\ LoadInv'
<1>1. /\ exists' = TRUE /\ cells' = <<>> /\ saves'[a].open /\ loads' = loads
      /\ \A r \in Requests : overlaps'[r] = IF loads[r].busy THEN UpToTwo(overlaps[r] + 1)
                                           ELSE overlaps[r]
  BY DEF Submit, TypeOK
<1>0. \A r \in Requests : offered'[r] = IF ~loads[r].busy THEN offered[r]
                                        ELSE IF overlaps'[r] > 1 THEN {}
                                        ELSE offered[r] \cup {Given(<<>>)}
  <2>1. offered' = [r \in Requests |-> IF ~loads[r].busy THEN offered[r]
                                      ELSE IF overlaps'[r] > 1 THEN {}
                                      ELSE offered[r] \cup {Held(TRUE, <<>>)}]
    BY Zenon DEF Submit, Observe
  <2> QED
    BY <2>1, HeldThere, Zenon
<1>2. FileInv'
  BY <1>1 DEF FileInv, NobodySaves
<1>3. ASSUME NEW r \in Requests, loads[r].busy, overlaps'[r] <= 1 PROVE LoadOK(r)'
  <2>0. /\ overlaps'[r] = UpToTwo(overlaps[r] + 1)
        /\ offered'[r] = IF overlaps'[r] > 1 THEN {} ELSE offered[r] \cup {Given(<<>>)}
    BY <1>0, <1>1, <1>3
  <2>1. overlaps[r] = 0 /\ overlaps'[r] = 1
    BY <1>3, <2>0 DEF UpToTwo, TypeOK
  <2>2. offered'[r] = offered[r] \cup {Given(<<>>)}
    BY <2>0, <2>1
  <2>3. /\ NobodySaves /\ (exists => Given(cells) \in offered[r])
        /\ ~loads[r].opened => Configuration(<<>>) \in offered[r]
        /\ loads[r].opened => exists /\ loads[r].got \in {<<>>, cells}
    BY <1>3, <2>1 DEF LoadInv, LoadOK
  <2>4. CASE loads[r].opened
    <3>1. CASE loads[r].got = <<>>
      <4>1. IsBeginning(loads[r].got)'
        BY <1>1, <3>1, EmptySeq DEF IsBeginning
      <4> QED
        BY <1>1, <2>1, <2>2, <2>4, <4>1 DEF LoadOK
    <3>2. CASE loads[r].got = cells
      <4>1. exists = TRUE
        BY <2>3, <2>4 DEF TypeOK
      <4>2. Closed(loads[r].got) /\ Given(loads[r].got) \in offered'[r]
        BY <2>2, <2>3, <3>2, <4>1 DEF FileInv
      <4> QED
        BY <1>1, <2>1, <2>2, <2>4, <4>2 DEF LoadOK, Closed
    <3> QED
      BY <2>3, <2>4, <3>1, <3>2
  <2>5. CASE ~loads[r].opened
    BY <1>1, <2>1, <2>2, <2>3, <2>5 DEF LoadOK
  <2> QED
    BY <2>4, <2>5
<1>4. ASSUME NEW r \in Requests PROVE LoadOK(r)'
  <2>1. CASE loads[r].busy /\ overlaps'[r] <= 1
    BY <1>3, <2>1
  <2>2. CASE ~(loads[r].busy /\ overlaps'[r] <= 1)
    BY <1>1, <2>2 DEF LoadOK
  <2> QED
    BY <2>1, <2>2
<1> QED
  BY <1>2, <1>4 DEF LoadInv

(* A save that goes on: the file grows at its end.                         *)
LEMMA WriteReads ==
  ASSUME TypeOK, SaveInv, LoadInv, NEW a \in Admins, saves[a].open,
         NEW cell \in Cells, WriteCell(a, cell)
  PROVE  LoadInv' /\ Len(cells') = Len(cells) + 1 /\ cells'[Len(cells')] = cell
<1>1. cells \in Seq(Cells) /\ Len(cells) \in Nat
  BY LenProperties DEF TypeOK
<1>2. exists /\ saves[a].pos = Len(cells)
  BY DEF SaveInv, SaveOK
<1>3. /\ exists' = exists /\ loads' = loads /\ overlaps' = overlaps
      /\ cells' = Overlay(cells, Len(cells), cell)
  BY <1>2 DEF WriteCell
<1>0. \A r \in Requests : offered'[r] = IF ~loads[r].busy THEN offered[r]
                                        ELSE IF overlaps'[r] > 1 THEN {}
                                        ELSE offered[r] \cup {Given(cells')}
  <2>1. offered' = [r \in Requests |-> IF ~loads[r].busy THEN offered[r]
                                      ELSE IF overlaps'[r] > 1 THEN {}
                                      ELSE offered[r] \cup {Held(TRUE, cells')}]
    BY Zenon DEF WriteCell, Observe
  <2> QED
    BY <2>1, HeldThere, Zenon
<1>4. /\ Len(cells') = Len(cells) + 1 /\ cells'[Len(cells) + 1] = cell
      /\ \A i \in 1..Len(cells) : cells'[i] = cells[i]
  BY <1>1, <1>3, OverlayAppends
<1>5. \A got \in Seq(Cells) : IsBeginning(got) => IsBeginning(got)'
  <2>1. ASSUME NEW got \in Seq(Cells), IsBeginning(got) PROVE IsBeginning(got)'
    <3>1. Len(got) \in Nat /\ Len(got) <= Len(cells) /\ 1..Len(got) \subseteq 1..Len(cells)
      BY <1>1, <2>1, LenProperties DEF IsBeginning
    <3> QED
      BY <1>1, <1>4, <2>1, <3>1 DEF IsBeginning
  <2> QED
    BY <2>1
<1>6. ASSUME NEW r \in Requests, loads[r].busy, overlaps[r] <= 1 PROVE LoadOK(r)'
  <2>1. ~NobodySaves /\ LoadOK(r)
    BY DEF NobodySaves, LoadInv
  <2>2. overlaps[r] = 1 /\ offered'[r] = offered[r] \cup {Given(cells')}
    <3>1. overlaps[r] = 1
      BY <1>6, <2>1 DEF LoadOK, TypeOK
    <3>2. offered'[r] = IF overlaps'[r] > 1 THEN {} ELSE offered[r] \cup {Given(cells')}
      BY <1>0, <1>6
    <3> QED
      BY <1>3, <3>1, <3>2
  <2>3. exists = TRUE /\ loads[r].got \in Seq(Cells)
    BY <1>2, ReadersAre DEF TypeOK, LoadRecord
  <2> QED
    BY <1>3, <1>5, <1>6, <2>1, <2>2, <2>3 DEF LoadOK, Closed, Spoiled
<1>7. ASSUME NEW r \in Requests, ~(loads[r].busy /\ overlaps[r] <= 1) PROVE LoadOK(r)'
  BY <1>3, <1>7 DEF LoadOK
<1> QED
  BY <1>4, <1>6, <1>7 DEF LoadInv

(* A read goes on from what was read up to now.                            *)
LEMMA ReadOn ==
  ASSUME NEW got \in Seq(Cells), NEW text \in Seq(Cells),
         NEW upto \in (Len(got) + 1)..Len(text)
  PROVE  LET new == got \o SubSeq(text, Len(got) + 1, upto)
         IN  /\ new \in Seq(Cells) /\ Len(new) = upto
             /\ \A i \in 1..upto : new[i] = IF i <= Len(got) THEN got[i] ELSE text[i]
  OBVIOUS

(* One step of a read, and what it makes of what had been read.            *)
LEMMA ReadReads ==
  ASSUME TypeOK, FileInv, LoadInv, NEW r \in Requests, ReadMore(r)
  PROVE  LoadOK(r)'
<1> DEFINE got  == loads[r].got
           new  == loads'[r].got
           upto == IF Len(got) + ReadBlock < Len(cells) THEN Len(got) + ReadBlock ELSE Len(cells)
<1>1. /\ got \in Seq(Cells) /\ cells \in Seq(Cells) /\ loads[r] \in LoadRecord
      /\ Len(got) \in Nat /\ Len(cells) \in Nat /\ ReadBlock \in Nat /\ ReadBlock > 0
  BY ReadersAre, LenProperties, LayerFiltersAssumption DEF TypeOK, LoadRecord
<1>2. /\ loads[r].busy /\ loads[r].opened /\ Len(got) < Len(cells)
      /\ exists' = exists /\ cells' = cells /\ saves' = saves
      /\ offered' = offered /\ overlaps' = overlaps
  BY DEF ReadMore, file, ghosts
<1>3. /\ new = got \o SubSeq(cells, Len(got) + 1, upto)
      /\ loads'[r].busy = loads[r].busy /\ loads'[r].opened = loads[r].opened
  BY <1>1, ReadersAre DEF ReadMore, TypeOK, LoadRecord
<1>4. upto \in (Len(got) + 1)..Len(cells) /\ upto \in Nat
  BY <1>1, <1>2
<1>5. Len(cells) <= ReadBlock /\ got = <<>> => upto = Len(cells)
  BY <1>1, <1>2, EmptySeq
<1> HIDE DEF upto, new, got
<1>6. /\ new \in Seq(Cells) /\ Len(new) = upto
      /\ \A i \in 1..upto : new[i] = IF i <= Len(got) THEN got[i] ELSE cells[i]
  BY <1>1, <1>3, <1>4, ReadOn
<1> SUFFICES ASSUME overlaps[r] <= 1 PROVE LoadOK(r)'
  BY <1>2 DEF LoadOK
<1>7. LoadOK(r)
  BY DEF LoadInv
<1>8. overlaps[r] = 0 => NobodySaves /\ new = cells
  <2> SUFFICES ASSUME overlaps[r] = 0 PROVE NobodySaves /\ new = cells
    OBVIOUS
  <2>1. NobodySaves /\ got \in {<<>>, cells}
    BY <1>2, <1>7 DEF LoadOK, got
  <2>2. got = <<>> /\ Len(got) = 0 /\ upto = Len(cells)
    BY <1>1, <1>2, <1>5, <2>1, EmptySeq DEF FileInv
  <2>3. \A i \in 1..Len(cells) : new[i] = cells[i]
    BY <1>6, <2>2
  <2> QED
    BY <1>1, <1>6, <2>1, <2>2, <2>3, SeqEqual
<1>9. IsBeginning(got) => IsBeginning(new)
  <2> SUFFICES ASSUME IsBeginning(got) PROVE IsBeginning(new)
    OBVIOUS
  <2>1. \A i \in 1..Len(got) : got[i] = cells[i]
    BY DEF IsBeginning
  <2>2. \A i \in 1..upto : i <= Len(got) => i \in 1..Len(got)
    BY <1>1
  <2> QED
    BY <1>1, <1>4, <1>6, <2>1, <2>2 DEF IsBeginning
<1>10. Spoiled(got) => Spoiled(new)
  <2> SUFFICES ASSUME Spoiled(got) PROVE Spoiled(new)
    OBVIOUS
  <2>1. PICK i \in 1..(Len(got) - 1) : got[i] \notin Entry
    BY DEF Spoiled
  <2>2. i \in 1..(Len(new) - 1) /\ i \in 1..upto /\ i <= Len(got)
    BY <1>1, <1>4, <1>6
  <2> QED
    BY <1>6, <2>1, <2>2 DEF Spoiled
<1>11. Closed(got) => Spoiled(new)
  <2> SUFFICES ASSUME Closed(got) PROVE Spoiled(new)
    OBVIOUS
  <2>1. Len(got) \in 1..(Len(new) - 1) /\ Len(got) \in 1..upto
    BY <1>1, <1>4, <1>6, EmptySeq DEF Closed
  <2>2. new[Len(got)] = got[Len(got)]
    BY <1>1, <1>6, <2>1
  <2> QED
    BY <2>1, <2>2 DEF Spoiled, Closed
<1>12. exists /\ (IsBeginning(got) \/ Spoiled(got) \/ Closed(got))
  BY <1>2, <1>7 DEF LoadOK, got
<1>13. IsBeginning(new) => IsBeginning(loads[r].got)'
  BY <1>2 DEF IsBeginning, new
<1>14. IsBeginning(loads[r].got)' \/ Spoiled(loads'[r].got)
  BY <1>9, <1>10, <1>11, <1>12, <1>13 DEF new
<1>15. (IF exists' THEN Given(cells') ELSE Configuration(<<>>)) \in offered'[r]
  BY <1>2, <1>7 DEF LoadOK
<1> QED
  BY <1>2, <1>3, <1>8, <1>12, <1>14, <1>15 DEF LoadOK, NobodySaves, Spoiled, new

(* A request that begins.                                                  *)
LEMMA StartReads ==
  ASSUME TypeOK, NEW r \in Requests, NEW kind, StartRequest(r, kind)
  PROVE  LoadOK(r)'
<1>1. /\ loads'[r].got = <<>> /\ (loads'[r].opened <=> exists)
      /\ exists' = exists /\ cells' = cells /\ saves' = saves
      /\ overlaps'[r] = CountToTwo({a \in Admins : saves[a].open})
  BY ReadersAre DEF StartRequest, BeginLoad, TypeOK, file
<1>2. offered'[r] = {IF exists THEN Given(cells) ELSE Configuration(<<>>)}
  <2>1. offered'[r] = {Held(exists, cells)}
    BY Zenon DEF StartRequest, TypeOK
  <2>2. CASE exists = TRUE
    BY <2>1, <2>2, HeldThere, Zenon
  <2>3. CASE exists = FALSE
    BY <2>1, <2>3, HeldThere, Zenon
  <2> QED
    BY <2>2, <2>3 DEF TypeOK
<1>3. overlaps'[r] = 0 => NobodySaves
  BY <1>1 DEF CountToTwo, NobodySaves
<1>4. IsBeginning(loads[r].got)'
  <2>1. Len(cells) \in Nat /\ Len(<<>>) = 0
    BY LenProperties, EmptySeq DEF TypeOK
  <2> QED
    BY <1>1, <2>1 DEF IsBeginning
<1> QED
  BY <1>1, <1>2, <1>3, <1>4 DEF LoadOK, NobodySaves

(* What may happen to a request in a step that neither begins nor goes on  *)
(* with a save, if no I/O fails and nothing crashes.                       *)
RequestMoves(r) ==
  \/ UNCHANGED <<loads[r], overlaps[r], offered[r], answers[r]>>
  \/ \E kind \in {"filters", "columns"} : StartRequest(r, kind)
  \/ ReadMore(r)
  \/ ~loads'[r].busy

LEMMA RequestSteps ==
  ASSUME TypeOK, MaxFaults = 0, [Next]_vars
  PROVE  \/ \E a \in Admins : \E inputs \in [DOMAIN pages[a].filters -> RowInputs] :
              Submit(a, inputs)
         \/ \E a \in Admins : SaveStep(a)
         \/ UNCHANGED <<file, saves>> /\ \A r \in Requests : RequestMoves(r)
<1> DEFINE Other == UNCHANGED <<file, saves>> /\ \A r \in Requests : RequestMoves(r)
<1>0. ~(faults < MaxFaults)
  BY DEF TypeOK
<1>1. ASSUME NEW a \in Admins, AdminStep(a), ~SaveStep(a),
             ~ \E inputs \in [DOMAIN pages[a].filters -> RowInputs] : Submit(a, inputs)
      PROVE  Other
  <2>1. OpenPage(a) \/ Cancel(a)
    BY <1>0, <1>1 DEF AdminStep, SubmitFails, AbortSave
  <2>2. CASE OpenPage(a)
    <3>1. /\ UNCHANGED <<file, saves>> /\ UNCHANGED <<overlaps, offered, answers>>
          /\ \A r \in Requests : loads'[r] = loads[r]
      BY <2>2, ReadersAre DEF OpenPage, BeginLoad, ghosts, TypeOK
    <3> QED
      BY <3>1 DEF RequestMoves
  <2>3. CASE Cancel(a)
    BY <2>3 DEF Cancel, ghosts, RequestMoves
  <2> QED
    BY <2>1, <2>2, <2>3
<1>2. ASSUME NEW s \in Requests, NEW kind \in {"filters", "columns"}, StartRequest(s, kind)
      PROVE  Other
  <2>1. /\ UNCHANGED <<file, saves>>
        /\ \A r \in Requests : r # s => /\ loads'[r] = loads[r] /\ answers'[r] = answers[r]
                                        /\ offered'[r] = offered[r] /\ overlaps'[r] = overlaps[r]
    BY <1>2, ReadersAre DEF StartRequest, BeginLoad, TypeOK
  <2> QED
    BY <1>2, <2>1 DEF RequestMoves
<1>3. ASSUME NEW p \in Readers, LoadStep(p) PROVE Other
  <2>1. CASE ReadMore(p)
    <3>1. /\ UNCHANGED <<file, saves>> /\ UNCHANGED <<overlaps, offered, answers>>
          /\ \A r \in Requests : r # p => loads'[r] = loads[r]
      BY <2>1, ReadersAre DEF ReadMore, ghosts, TypeOK
    <3> QED
      BY <2>1, <3>1 DEF RequestMoves
  <2>2. CASE p \in Admins /\ (PageOpens(p) \/ PageFails(p))
    <3>1. /\ UNCHANGED <<file, saves>> /\ UNCHANGED <<overlaps, offered, answers>>
          /\ \A r \in Requests : loads'[r] = loads[r]
      BY <2>2, ReadersAre DEF PageOpens, PageFails, ghosts, TypeOK
    <3> QED
      BY <3>1 DEF RequestMoves
  <2>3. ASSUME p \in Requests, NEW answer, Answer(p, answer) PROVE Other
    <3>1. /\ UNCHANGED <<file, saves>> /\ ~loads'[p].busy
          /\ \A r \in Requests : r # p => /\ loads'[r] = loads[r] /\ answers'[r] = answers[r]
                                          /\ offered'[r] = offered[r] /\ overlaps'[r] = overlaps[r]
      BY <2>3, ReadersAre DEF Answer, TypeOK, NoLoad
    <3> QED
      BY <3>1 DEF RequestMoves
  <2> QED
    BY <1>3, <2>1, <2>2, <2>3 DEF LoadStep, AnswerFilters, AnswerColumns, AnswerFails
<1>4. CASE AlterSchema
  BY <1>4 DEF AlterSchema, ghosts, RequestMoves
<1>5. ~Crash
  BY <1>0 DEF Crash
<1>6. CASE UNCHANGED vars
  BY <1>6 DEF vars, file, RequestMoves
<1> QED
  BY <1>1, <1>2, <1>3, <1>4, <1>5, <1>6 DEF Next

(* A save that ends leaves a closed file, which one read returns.          *)
LEMMA SaveReads ==
  ASSUME TypeOK, RenderInv, SaveInv, LoadInv, Undisturbed,
         NEW a \in Admins, SaveStep(a)
  PROVE  FileInv' /\ LoadInv'
<1> DEFINE filters == pages[a].filters
<1>1. /\ saves[a].open /\ SaveOK(a) /\ filters \in Seq(Filter)
      /\ Len(filters) \in Nat /\ Len(cells) \in Nat /\ saves[a].next \in Nat
      /\ DOMAIN filters = 1..Len(filters)
  <2>1. saves[a].open
    BY DEF SaveStep, Emit, FailTemplate, CloseSave
  <2> QED
    BY <2>1, LenProperties DEF SaveInv, TypeOK, PageRecord, SaveRecord
<1>2. Len(filters) < ReadBlock
  <2>1. PICK s \in Schemas : [i \in DOMAIN filters |-> filters[i].name] = s
    BY <1>1 DEF SaveOK, RenderInv, PagesRender
  <2>2. Len(s) \in Nat /\ DOMAIN s = 1..Len(s) /\ DOMAIN s = DOMAIN filters
    BY <2>1, LenProperties, LayerFiltersAssumption
  <2>3. Len(s) = Len(filters)
    BY <1>1, <2>2
  <2> QED
    BY <2>3 DEF Undisturbed, WholeReads
<1>3. Len(cells) + 1 <= ReadBlock
  BY <1>1, <1>2, LayerFiltersAssumption DEF SaveOK
<1>4. ASSUME NEW i \in DOMAIN filters, Emit(a, i) PROVE FileInv' /\ LoadInv'
  <2>1. Element(filters[i]) \in Cells
    BY <1>1, ElementOfSeq, ElementType
  <2>2. saves'[a].open
    BY <1>4 DEF Emit, TypeOK
  <2> QED
    BY <1>1, <1>4, <2>1, <2>2, WriteReads DEF Emit, FileInv, NobodySaves
<1>5. ASSUME NEW cell \in {End, Garbage}, WriteCell(a, cell) PROVE FileInv' /\ LoadInv'
  <2>1. cell \in Cells /\ cell \notin Entry
    BY <1>5, LayerFiltersAssumption DEF Cells
  <2>2. LoadInv' /\ Len(cells') = Len(cells) + 1 /\ cells'[Len(cells')] = cell
    BY <1>1, <1>5, <2>1, WriteReads
  <2>3. cells' # <<>>
    BY <1>1, <2>2, EmptySeq
  <2> QED
    BY <1>3, <2>1, <2>2, <2>3 DEF FileInv, Closed
<1> QED
  BY <1>4, <1>5 DEF SaveStep, FailTemplate, CloseSave

LEMMA LoadNext ==
  ASSUME TypeOK, RenderInv, SaveInv, Undisturbed, FileInv, LoadInv, [Next]_vars
  PROVE  FileInv' /\ LoadInv'
<1>1. ASSUME UNCHANGED <<file, saves>>, \A r \in Requests : RequestMoves(r)
      PROVE  FileInv' /\ LoadInv'
  <2>1. FileInv'
    BY <1>1 DEF FileInv, NobodySaves, file
  <2>2. ASSUME NEW r \in Requests, UNCHANGED <<loads[r], overlaps[r], offered[r], answers[r]>>
        PROVE  LoadOK(r)'
    <3>1. UNCHANGED <<loads[r], overlaps[r], offered[r]>>
      BY <2>2
    <3> QED
      BY <1>1, <3>1, LoadStays DEF LoadInv
  <2>3. ASSUME NEW r \in Requests, ~loads'[r].busy PROVE LoadOK(r)'
    BY <2>3 DEF LoadOK
  <2> QED
    BY <1>1, <2>1, <2>2, <2>3, StartReads, ReadReads DEF LoadInv, RequestMoves
<1> QED
  BY <1>1, SubmitReads, SaveReads, RequestSteps DEF Undisturbed

LEMMA AnswerNext ==
  ASSUME TypeOK, AnswerInv, MaxFaults = 0, [Next]_vars
  PROVE  AnswerInv'
<1>1. ASSUME NEW a \in Admins, NEW inputs, Submit(a, inputs) PROVE AnswerInv'
  BY <1>1 DEF Submit, AnswerInv
<1>2. ASSUME NEW a \in Admins, SaveStep(a) PROVE AnswerInv'
  BY <1>2 DEF SaveStep, Emit, FailTemplate, CloseSave, WriteCell, AnswerInv
<1>3. ASSUME NEW r \in Requests, RequestMoves(r), loads'[r].busy
      PROVE  answers'[r] = NoAnswer
  <2>1. CASE UNCHANGED <<loads[r], overlaps[r], offered[r], answers[r]>>
    <3>1. loads'[r] = loads[r] /\ answers'[r] = answers[r]
      BY <2>1
    <3> QED
      BY <1>3, <3>1 DEF AnswerInv
  <2>2. CASE \E kind \in {"filters", "columns"} : StartRequest(r, kind)
    BY <2>2 DEF StartRequest, TypeOK
  <2>3. CASE ReadMore(r)
    BY <2>3 DEF ReadMore, AnswerInv
  <2> QED
    BY <1>3, <2>1, <2>2, <2>3 DEF RequestMoves
<1> QED
  BY <1>1, <1>2, <1>3, RequestSteps DEF AnswerInv

(* A request that at most one save overlaps loads a configuration that the *)
(* file held while it ran.                                                 *)
LEMMA LoadedWasOffered ==
  ASSUME TypeOK, LoadInv, NEW r \in Requests, overlaps[r] <= 1, AtEnd(r), Parses(r)
  PROVE  Configuration(Loaded(r)) \in offered[r]
<1> DEFINE got == loads[r].got
<1>1. LoadOK(r) /\ loads[r].busy /\ loads[r].opened \in BOOLEAN
      /\ got \in Seq(Cells) /\ cells \in Seq(Cells)
      /\ Len(got) \in Nat /\ Len(cells) \in Nat
  BY ReadersAre, LenProperties DEF LoadInv, AtEnd, TypeOK, LoadRecord
<1>2. CASE loads[r].opened
  <2>1. Readable(got) /\ Len(got) >= Len(cells)
    BY <1>2 DEF Parses, AtEnd
  <2>2. ~Spoiled(got) /\ Given(got) = Configuration(Document(got))
    BY <1>1, <2>1, ReadableIsWhole
  <2>3. /\ exists /\ Given(cells) \in offered[r]
        /\ IsBeginning(got) \/ Given(got) \in offered[r]
    BY <1>1, <1>2, <2>2 DEF LoadOK
  <2>4. IsBeginning(got) => got = cells
    <3> SUFFICES ASSUME IsBeginning(got) PROVE got = cells
      OBVIOUS
    <3>1. Len(got) = Len(cells) /\ \A i \in 1..Len(got) : got[i] = cells[i]
      BY <1>1, <2>1 DEF IsBeginning
    <3> HIDE DEF got
    <3> QED
      BY <1>1, <3>1, SeqEqual
  <2> QED
    BY <1>2, <2>2, <2>3, <2>4 DEF Loaded
<1>3. CASE ~loads[r].opened
  BY <1>1, <1>3 DEF LoadOK, Loaded
<1> QED
  BY <1>1, <1>2, <1>3

(* A running request is answered by a step of its own.                     *)
LEMMA OwnAnswer ==
  ASSUME TypeOK, AnswerInv, MaxFaults = 0, [Next]_vars, NEW r \in Requests,
         loads[r].busy, answers'[r] # NoAnswer
  PROVE  AnswerFilters(r) \/ AnswerColumns(r) \/ AnswerFails(r)
<1>1. answers[r] = NoAnswer
  BY DEF AnswerInv
<1>2. ASSUME NEW p \in Readers, LoadStep(p)
      PROVE  p = r /\ (AnswerFilters(p) \/ AnswerColumns(p) \/ AnswerFails(p))
  BY <1>1, <1>2 DEF LoadStep, ReadMore, PageOpens, PageFails, AnswerFilters,
     AnswerColumns, AnswerFails, Answer, TypeOK
<1>3. ~ \E a \in Admins : AdminStep(a)
  BY <1>1 DEF AdminStep, OpenPage, Cancel, Submit, SubmitFails, SaveStep, Emit,
     FailTemplate, CloseSave, WriteCell, AbortSave
<1>4. ~ \E s \in Requests, kind \in {"filters", "columns"} : StartRequest(s, kind)
  BY <1>1 DEF StartRequest, TypeOK
<1>5. ~Crash /\ ~AlterSchema /\ ~UNCHANGED vars
  BY <1>1 DEF Crash, AlterSchema, vars, TypeOK
<1> QED
  BY <1>2, <1>3, <1>4, <1>5 DEF Next

(* What each of these steps answers.                                       *)
LEMMA AnswerStatus ==
  ASSUME TypeOK, NEW r \in Requests
  PROVE  /\ AnswerFilters(r) => answers'[r].status = "filters"
         /\ AnswerColumns(r) => answers'[r].status = "columns"
         /\ AnswerFails(r) => answers'[r].status = "failed"
<1>1. \A answer : Answer(r, answer) => answers'[r] = answer
  BY DEF Answer, TypeOK
<1>2. ASSUME AnswerFilters(r) PROVE answers'[r].status = "filters"
  <2> DEFINE answer == [NoAnswer EXCEPT !.status = "filters", !.filters = Loaded(r)]
  <2>1. answer.status = "filters"
    BY DEF NoAnswer
  <2> HIDE DEF answer
  <2> QED
    BY <1>1, <1>2, <2>1 DEF AnswerFilters, answer
<1>3. AnswerColumns(r) => answers'[r].status = "columns"
  BY DEF AnswerColumns, Answer, TypeOK, NoAnswer
<1>4. AnswerFails(r) => answers'[r].status = "failed"
  BY DEF AnswerFails, Answer, TypeOK, FailedAnswer, NoAnswer
<1> QED
  BY <1>2, <1>3, <1>4

(* The columns of a download leave out what was excluded all the time.     *)
LEMMA ColumnsHonour ==
  ASSUME TypeOK, LoadInv, AnswerInv, MaxFaults = 0, [Next]_vars, NEW r \in Requests,
         loads[r].busy, answers'[r].status = "columns", overlaps[r] <= 1
  PROVE  answers'[r].columns \cap Hidden(r) = {}
<1>1. AnswerColumns(r)
  BY OwnAnswer, AnswerStatus DEF NoAnswer
<1>2. Configuration(Loaded(r)) \in offered[r]
  BY <1>1, LoadedWasOffered DEF AnswerColumns
<1>3. Hidden(r) \subseteq ExcludedNames(Loaded(r))
  BY <1>2 DEF Hidden, Configuration
<1>4. answers'[r].columns \cap ExcludedNames(Loaded(r)) = {}
  BY <1>1 DEF AnswerColumns, Answer, TypeOK, NoAnswer
<1> QED
  BY <1>3, <1>4

(* ExclusionHonoured, while one tab uses the page, a read returns the file *)
(* whole and no I/O fails: whatever is saved while a download runs, a      *)
(* column that was configured as not available all that time is left out,  *)
(* for any number of requests, columns and filters.                        *)
THEOREM ExclusionAlwaysHonoured ==
  ASSUME Undisturbed
  PROVE  Spec => ExclusionHonoured
<1> DEFINE Inv == TypeOK /\ TabInv /\ RenderInv /\ SaveInv /\ FileInv /\ LoadInv /\ AnswerInv
<1>1. Init => Inv
  BY TypeInit, SourceInit, RenderInit, SaveInit, LoadInit DEF SourceInv
<1>2. Inv /\ [Next]_vars => Inv'
  BY TypeNext, TabNext, RenderNext, SaveNext, LoadNext, AnswerNext DEF Undisturbed
<1>3. Inv /\ [Next]_vars =>
        [\A r \in Requests :
           loads[r].busy /\ answers'[r].status = "columns" /\ overlaps[r] <= 1
             => answers'[r].columns \cap Hidden(r) = {}]_vars
  BY ColumnsHonour DEF Undisturbed
<1> QED
  BY <1>1, <1>2, <1>3, PTL DEF Spec, ExclusionHonoured

-----------------------------------------------------------------------------
(* A file that every request can use *)

(* Every row that is entered has a type, and every extra has a value.      *)
TypedForms == (\A input \in RowInputs : input.type # NULL) /\ Valueless = {}

(* The text is a configuration that enabledFilters can list.               *)
Usable(text) == Readable(text) /\ Listable(Document(text))

(* Forms that the template can write and the parser read back, and a file  *)
(* at the start that some such form left.                                  *)
Untroubled ==
  /\ Undisturbed /\ PlainForms /\ TypedForms
  /\ \A text \in InitialFiles : Usable(text)

(* Between saves the file is usable, and a save that runs can be written.  *)
UsableInv ==
  /\ NobodySaves /\ exists => Usable(cells)
  /\ \A a \in Admins : saves[a].open =>
       \A i \in DOMAIN pages[a].filters : pages[a].filters[i].type # NULL

LEMMA UsableInit ==
  ASSUME Init, Untroubled PROVE UsableInv
  BY DEF Init, UsableInv, Untroubled, NoSave

(* The form that is submitted has a type in every row.                     *)
LEMMA SubmitUsable ==
  ASSUME TypeOK, OneTab, TypedForms, NEW a \in Admins,
         NEW inputs \in [DOMAIN pages[a].filters -> RowInputs], Submit(a, inputs)
  PROVE  UsableInv'
<1> DEFINE filters == ApplyForm(pages[a].filters, inputs)
<1>1. \A i \in DOMAIN pages[a].filters : pages[a].filters[i] \in Filter
  BY LenProperties, ElementOfSeq DEF TypeOK, PageRecord
<1>2. DOMAIN filters = DOMAIN pages[a].filters
      /\ \A i \in DOMAIN filters : filters[i].type # NULL
  BY <1>1 DEF ApplyForm, ApplyRow, Filter, TypedForms
<1>3. pages' = [pages EXCEPT ![a] = ShownPage(filters)]
      /\ saves' = [saves EXCEPT ![a] = [NoSave EXCEPT !.open = TRUE]]
  BY DEF Submit
<1> HIDE DEF filters
<1>4. pages'[a].filters = filters /\ saves'[a].open
  BY <1>3 DEF TypeOK, ShownPage, NoSave
<1> QED
  BY <1>2, <1>4 DEF UsableInv, NobodySaves, OneTab

(* The template never fails, and the file a save closes is usable.         *)
LEMMA SaveUsable ==
  ASSUME TypeOK, RenderInv, OneTab, PlainForms, SaveInv, UsableInv,
         TypedForms, NEW a \in Admins, SaveStep(a)
  PROVE  UsableInv'
<1> DEFINE filters == pages[a].filters
<1>1. /\ saves[a].open /\ pages[a].open /\ pages' = pages /\ SaveOK(a)
  BY DEF SaveStep, Emit, FailTemplate, CloseSave, WriteCell, SaveInv, SaveOK
<1>2. \A i \in DOMAIN filters : Writable(filters[i])
  <2>1. \A i \in DOMAIN filters : filters[i].type # NULL
    BY <1>1 DEF UsableInv
  <2>2. \A i \in DOMAIN filters : /\ filters[i].visualised \in BOOLEAN
                                  /\ filters[i].excludedFromDownload \in BOOLEAN
    BY <1>1 DEF RenderInv, PagesRender
  <2> QED
    BY <2>1, <2>2, FiltersAssumption DEF Writable, TypedForms
<1>3. ASSUME NEW i \in DOMAIN filters, Emit(a, i) PROVE UsableInv'
  <2>1. saves'[a].open
    BY <1>3 DEF Emit, TypeOK
  <2> QED
    BY <1>1, <2>1 DEF UsableInv, NobodySaves, OneTab
<1>4. \A i \in DOMAIN filters : ~FailTemplate(a, i)
  BY <1>2 DEF FailTemplate
<1>5. CASE CloseSave(a)
  <2>1. ~saves'[a].open
    BY <1>5 DEF CloseSave, TypeOK, NoSave
  <2>2. /\ Readable(cells')
        /\ \A k \in DOMAIN Document(cells') : \E i \in DOMAIN filters :
             Document(cells')[k] = ParseFilter(WriteFilter(filters[i]))
    BY <1>5, ClosedFile
  <2>3. \A i \in DOMAIN filters :
          LET g == ParseFilter(WriteFilter(filters[i]))
          IN  g.visualised # NULL /\ g.type # NULL /\ g.extras \cap Valueless = {}
    BY <1>2 DEF Writable, ParseFilter, WriteFilter
  <2>4. Usable(cells')
    BY <2>2, <2>3 DEF Usable, Listable
  <2> QED
    BY <2>1, <2>4 DEF UsableInv, Usable, OneTab
<1> QED
  BY <1>3, <1>4, <1>5 DEF SaveStep

LEMMA UsableNext ==
  ASSUME TypeOK, TabInv, RenderInv, SaveInv, Untroubled, UsableInv, [Next]_vars
  PROVE  UsableInv'
<1>1. ASSUME UNCHANGED <<file, saves>>,
             \A a \in Admins : saves'[a].open => UNCHANGED <<pages[a], saves[a]>>
      PROVE  UsableInv'
  BY <1>1 DEF UsableInv, NobodySaves, file
<1>2. CASE \/ \E a \in Admins : \E inputs \in [DOMAIN pages[a].filters -> RowInputs] :
                Submit(a, inputs)
           \/ \E a \in Admins : SaveStep(a)
  BY <1>2, SubmitUsable, SaveUsable DEF Untroubled, Undisturbed
<1> QED
  BY <1>1, <1>2, TabStep, RequestSteps DEF Untroubled, Undisturbed

(* A request that no save overlaps loads a usable configuration.           *)
LEMMA UnoverlappedLoads ==
  ASSUME TypeOK, FileInv, LoadInv, UsableInv, NEW r \in Requests,
         overlaps[r] = 0, AtEnd(r)
  PROVE  Parses(r) /\ Listable(Loaded(r))
<1> DEFINE got == loads[r].got
<1>1. LoadOK(r) /\ loads[r].busy /\ cells \in Seq(Cells) /\ Len(cells) \in Nat
  BY LenProperties DEF LoadInv, AtEnd, TypeOK
<1>2. CASE loads[r].opened
  <2>1. NobodySaves /\ exists /\ got \in {<<>>, cells}
    BY <1>1, <1>2 DEF LoadOK
  <2>2. Usable(cells) /\ cells # <<>>
    BY <2>1 DEF UsableInv, Usable, Readable
  <2>3. Len(got) >= Len(cells)
    BY <1>2 DEF AtEnd
  <2>4. got = cells
    BY <1>1, <2>1, <2>2, <2>3, EmptySeq
  <2> QED
    BY <1>2, <2>2, <2>4 DEF Usable, Parses, Loaded
<1>3. CASE ~loads[r].opened
  BY <1>3 DEF Parses, Loaded, Listable
<1> QED
  BY <1>2, <1>3

(* ConfiguredFiltersReturned, while one tab uses the page, a read returns  *)
(* the file whole, no I/O fails, and forms have types, plain texts and no  *)
(* extra without a value: a request fails only if a save ran meanwhile,    *)
(* for any number of requests, columns and filters.                        *)
THEOREM ConfiguredFiltersAlwaysReturned ==
  ASSUME Untroubled
  PROVE  Spec => ConfiguredFiltersReturned
<1> DEFINE Inv == /\ TypeOK /\ TabInv /\ RenderInv /\ SaveInv /\ FileInv /\ LoadInv
                  /\ AnswerInv /\ UsableInv
<1>0. Undisturbed /\ OneTab /\ MaxFaults = 0
  BY DEF Untroubled, Undisturbed
<1>1. Init => Inv
  BY <1>0, TypeInit, SourceInit, RenderInit, SaveInit, LoadInit, UsableInit DEF SourceInv
<1>2. Inv /\ [Next]_vars => Inv'
  BY <1>0, TypeNext, TabNext, RenderNext, SaveNext, LoadNext, AnswerNext, UsableNext
<1>3. Inv /\ [Next]_vars =>
        [\A r \in Requests :
           loads[r].busy /\ answers'[r].status = "failed" => overlaps[r] > 0]_vars
  <2> SUFFICES ASSUME Inv, [Next]_vars, NEW r \in Requests, loads[r].busy,
                      answers'[r].status = "failed", ~(overlaps[r] > 0)
               PROVE  FALSE
    OBVIOUS
  <2>1. AnswerFails(r)
    BY <1>0, OwnAnswer, AnswerStatus DEF NoAnswer
  <2>2. overlaps[r] = 0
    BY DEF TypeOK
  <2> QED
    BY <2>1, <2>2, UnoverlappedLoads DEF AnswerFails
<1> QED
  BY <1>1, <1>2, <1>3, PTL DEF Spec, ConfiguredFiltersReturned

-----------------------------------------------------------------------------
(* The file is a register *)

(* The enabled filters before the n-th, and the cells they are written as. *)
EnabledUpTo(filters, n) == {i \in DOMAIN filters : i < n /\ filters[i].enabled}

Written == Entry \cup {Garbage}

Elements(filters, n) ==
  LET on == At(filters, EnabledUpTo(filters, n))
  IN  [k \in DOMAIN on |-> Element(on[k])]

(* A running save has written the elements before its next filter, in      *)
(* their order.                                                            *)
OrderInv ==
  \A a \in Admins : saves[a].open => cells = Elements(pages[a].filters, saves[a].next)

(* A request that a save overlaps may find the file unreadable, and one    *)
(* that two overlap may find anything.                                     *)
OverlapInv ==
  \A r \in Requests : loads[r].busy =>
    /\ loads[r].kind \in {"filters", "columns"}
    /\ overlaps[r] = 1 => Unreadable \in offered[r]
    /\ overlaps[r] > 1 => offered[r] = {}

LEMMA EnabledFinite ==
  ASSUME NEW filters \in Seq(Filter), NEW n \in Nat
  PROVE  EnabledUpTo(filters, n) \in FiniteNats
<1>1. DOMAIN filters \in FiniteNats
  BY AtAll
<1>2. EnabledUpTo(filters, n) \in SUBSET DOMAIN filters
  BY DEF EnabledUpTo
<1>3. IsFiniteSet(EnabledUpTo(filters, n))
  BY <1>1, <1>2, FS_Subset DEF FiniteNats
<1> QED
  BY <1>1, <1>2, <1>3 DEF FiniteNats

LEMMA ElementsFacts ==
  ASSUME NEW filters \in Seq(Filter), NEW n \in Nat
  PROVE  LET on == At(filters, EnabledUpTo(filters, n))
         IN  /\ on \in Seq({f \in Filter : f.enabled})
             /\ Elements(filters, n) \in Seq(Written) /\ Len(Elements(filters, n)) = Len(on)
             /\ \A k \in 1..Len(on) : Elements(filters, n)[k] = Element(on[k])
<1> DEFINE P == EnabledUpTo(filters, n)
           on == At(filters, P)
           T == {f \in Filter : f.enabled}
           m == Len(on)
           e == Elements(filters, n)
<1>1. P \in FiniteNats
  BY EnabledFinite
<1>2. \A i \in P : filters[i] \in T
  BY ElementOfSeq, LenProperties DEF EnabledUpTo
<1>3. on \in Seq(T)
  <2> HIDE DEF P, T
  <2> QED
    BY <1>1, <1>2, AtFacts
<1>4. e = [k \in DOMAIN on |-> Element(on[k])]
  BY Zenon DEF Elements
<1> HIDE DEF P, on, e
<1>5. m \in Nat /\ DOMAIN on = 1..m /\ \A k \in 1..m : on[k] \in Filter
  BY <1>3, LenProperties, ElementOfSeq
<1>6. \A k \in 1..m : Element(on[k]) \in Written
  BY <1>5, ElementType DEF Written
<1> HIDE DEF m
<1>7. e = [k \in 1..m |-> Element(on[k])]
  BY <1>4, <1>5
<1>8. e \in [1..m -> Written]
  BY <1>6, <1>7
<1>9. e \in Seq(Written) /\ Len(e) = m
  BY <1>5, <1>8, SeqDef
<1> QED
  BY <1>3, <1>7, <1>9 DEF e, on, P, m

LEMMA ElementsMore ==
  ASSUME NEW filters \in Seq(Filter), NEW next \in 1..(Len(filters) + 1),
         NEW i \in next..Len(filters), filters[i].enabled,
         \A j \in next..(i - 1) : ~filters[j].enabled
  PROVE  Elements(filters, i + 1) = Append(Elements(filters, next), Element(filters[i]))
<1> DEFINE P == EnabledUpTo(filters, next)
           Q == EnabledUpTo(filters, i + 1)
           on == At(filters, P)
           more == At(filters, Q)
           e == Elements(filters, next)
           g == Elements(filters, i + 1)
           f == filters[i]
<1>1. /\ Len(filters) \in Nat /\ DOMAIN filters = 1..Len(filters)
      /\ i \in 1..Len(filters) /\ i \in Nat /\ next \in Nat /\ i + 1 \in Nat
      /\ f \in Filter
  BY LenProperties, ElementOfSeq
<1>2. P \in FiniteNats /\ \A j \in P : j < i
  <2>1. P \in FiniteNats
    BY <1>1, EnabledFinite
  <2>2. \A j \in 1..Len(filters) : j < next => j < i
    BY <1>1
  <2> QED
    BY <1>1, <2>1, <2>2 DEF EnabledUpTo
<1>3. Q = P \cup {i}
  <2>1. \A j \in 1..Len(filters) : j < i + 1 <=> (j < next \/ j \in next..(i - 1) \/ j = i)
    BY <1>1
  <2> QED
    BY <1>1, <2>1 DEF EnabledUpTo
<1>4. more = Append(on, f)
  <2> HIDE DEF P, Q, f
  <2> QED
    BY <1>1, <1>2, <1>3, AtMore DEF f
<1>5. /\ on \in Seq({h \in Filter : h.enabled}) /\ e \in Seq(Written) /\ Len(e) = Len(on)
      /\ \A k \in 1..Len(on) : e[k] = Element(on[k])
  BY <1>1, ElementsFacts
<1>6. /\ g \in Seq(Written) /\ Len(g) = Len(more)
      /\ \A k \in 1..Len(more) : g[k] = Element(more[k])
  BY <1>1, ElementsFacts
<1>7. Element(f) \in Written
  BY <1>1, ElementType DEF Written
<1> HIDE DEF P, Q, on, more, e, g, f
<1>8. Len(on) \in Nat /\ on \in Seq(Filter)
  <2>1. {h \in Filter : h.enabled} \subseteq Filter
    OBVIOUS
  <2> QED
    BY <1>5, <2>1, LenProperties, ElementOfSeq, SeqDef
<1>9. /\ Len(more) = Len(on) + 1 /\ more[Len(on) + 1] = f
      /\ \A k \in 1..Len(on) : more[k] = on[k]
  BY <1>1, <1>4, <1>8
<1> DEFINE u == Append(e, Element(f))
<1>10. /\ u \in Seq(Written) /\ Len(u) = Len(on) + 1 /\ u[Len(on) + 1] = Element(f)
       /\ \A k \in 1..Len(on) : u[k] = e[k]
  BY <1>5, <1>7, <1>8
<1>11. \A k \in 1..(Len(on) + 1) : g[k] = u[k]
  <2> HIDE DEF u
  <2>1. \A k \in 1..(Len(on) + 1) : k \in 1..Len(on) \/ k = Len(on) + 1
    BY <1>8
  <2>2. \A k \in 1..Len(on) : k \in 1..Len(more)
    BY <1>8, <1>9
  <2>3. Len(on) + 1 \in 1..Len(more)
    BY <1>8, <1>9
  <2> QED
    BY <1>5, <1>6, <1>9, <1>10, <2>1, <2>2, <2>3
<1> HIDE DEF u
<1>12. g = u
  BY <1>6, <1>9, <1>10, <1>11, SeqEqual
<1> QED
  BY <1>12 DEF g, u, e, f

(* A write at the end of the file, as a sequence.                          *)
LEMMA OverlayIsAppend ==
  ASSUME NEW text \in Seq(Cells), NEW cell \in Cells
  PROVE  Overlay(text, Len(text), cell) = Append(text, cell)
<1> DEFINE new == Overlay(text, Len(text), cell)
           u == Append(text, cell)
<1>1. /\ new \in Seq(Cells) /\ Len(new) = Len(text) + 1
      /\ \A i \in 1..Len(text) : new[i] = text[i]
      /\ new[Len(text) + 1] = cell
  BY OverlayAppends
<1>2. /\ u \in Seq(Cells) /\ Len(u) = Len(text) + 1 /\ Len(text) \in Nat
      /\ \A i \in 1..Len(text) : u[i] = text[i]
      /\ u[Len(text) + 1] = cell
  BY LenProperties
<1> HIDE DEF new, u
<1>3. \A i \in 1..(Len(text) + 1) : i \in 1..Len(text) \/ i = Len(text) + 1
  BY <1>2
<1>4. new = u
  BY <1>1, <1>2, <1>3, SeqEqual
<1> QED
  BY <1>4 DEF new, u

LEMMA OrderNext ==
  ASSUME TypeOK, TabInv, OneTab, SaveInv, OrderInv, [Next]_vars
  PROVE  OrderInv'
<1>1. ASSUME NEW a \in Admins, NEW inputs \in [DOMAIN pages[a].filters -> RowInputs],
             Submit(a, inputs)
      PROVE  OrderInv'
  <2> DEFINE filters == ApplyForm(pages[a].filters, inputs)
             e == Elements(filters, 1)
  <2>1. filters \in Seq(Filter)
    BY ApplyFormType DEF TypeOK, PageRecord
  <2>2. EnabledUpTo(filters, 1) = {}
    <3>1. \A i \in DOMAIN filters : ~(i < 1)
      <4> HIDE DEF filters
      <4> QED
        BY <2>1, LenProperties
    <3> QED
      BY <3>1 DEF EnabledUpTo
  <2>3. Len(At(filters, {})) = 0
    <3>1. {} \in FiniteNats /\ Cardinality({}) = 0
      BY FS_EmptySet DEF FiniteNats
    <3> HIDE DEF filters
    <3>2. Len(At(filters, {})) = Cardinality({})
      BY <3>1, AtFacts
    <3> QED
      BY <3>1, <3>2
  <2>4. e = <<>>
    <3>1. e \in Seq(Written) /\ Len(e) = Len(At(filters, EnabledUpTo(filters, 1)))
      <4> HIDE DEF filters
      <4> QED
        BY <2>1, ElementsFacts
    <3> HIDE DEF e
    <3> QED
      BY <2>2, <2>3, <3>1, EmptySeq
  <2>5. /\ pages' = [pages EXCEPT ![a] = ShownPage(filters)] /\ cells' = <<>>
        /\ saves' = [saves EXCEPT ![a] = [NoSave EXCEPT !.open = TRUE]]
    BY <1>1 DEF Submit
  <2> HIDE DEF filters, e
  <2>6. pages'[a].filters = filters /\ saves'[a].next = 1
    BY <2>5 DEF TypeOK, ShownPage, NoSave
  <2> QED
    BY <2>4, <2>5, <2>6 DEF OrderInv, OneTab, e
<1>2. ASSUME NEW a \in Admins, SaveStep(a) PROVE OrderInv'
  <2>1. ASSUME saves' = [saves EXCEPT ![a] = NoSave] PROVE OrderInv'
    BY <2>1 DEF OneTab, OrderInv, NoSave, TypeOK
  <2>2. ASSUME NEW i \in DOMAIN pages[a].filters, Emit(a, i) PROVE OrderInv'
    <3> DEFINE filters == pages[a].filters
               next    == saves[a].next
               cell    == Element(filters[i])
    <3>1. /\ filters \in Seq(Filter) /\ cells \in Seq(Cells) /\ saves[a].open
          /\ filters[i] \in Filter
      BY <2>2, LenProperties, ElementOfSeq DEF TypeOK, PageRecord, Emit
    <3>2. /\ next \in 1..(Len(filters) + 1) /\ saves[a].pos = Len(cells)
          /\ cells = Elements(filters, next)
      BY <3>1 DEF SaveInv, SaveOK, OrderInv
    <3>3. /\ i \in next..Len(filters) /\ filters[i].enabled
          /\ \A j \in next..(i - 1) : ~filters[j].enabled
          /\ cells' = Overlay(cells, Len(cells), cell)
          /\ pages' = pages
      BY <2>2, <3>2 DEF Emit, NextEnabled, WriteCell
    <3>4. saves'[a].next = i + 1
      BY <2>2 DEF Emit, TypeOK
    <3>5. cell \in Cells
      BY <3>1, ElementType
    <3> HIDE DEF filters, next, cell
    <3>6. cells' = Append(Elements(filters, next), cell)
      BY <3>1, <3>2, <3>3, <3>5, OverlayIsAppend
    <3>7. Elements(filters, i + 1) = Append(Elements(filters, next), cell)
      BY <3>1, <3>2, <3>3, ElementsMore DEF cell
    <3> QED
      BY <3>3, <3>4, <3>6, <3>7 DEF OrderInv, OneTab, filters
  <2> QED
    BY <1>2, <2>1, <2>2 DEF SaveStep, FailTemplate, CloseSave
<1>3. ASSUME UNCHANGED file,
             \A a \in Admins : saves'[a].open => UNCHANGED <<pages[a], saves[a]>>
      PROVE  OrderInv'
  <2> SUFFICES ASSUME NEW a \in Admins, saves'[a].open
               PROVE  cells' = Elements(pages'[a].filters, saves'[a].next)
    BY DEF OrderInv
  <2>1. cells' = cells /\ pages'[a] = pages[a] /\ saves'[a] = saves[a]
    BY <1>3 DEF file
  <2> QED
    BY <2>1 DEF OrderInv
<1> QED
  BY <1>1, <1>2, <1>3, TabStep

(* The file does not parse while it is saved.                              *)
LEMMA SavingUnreadable ==
  ASSUME TypeOK, SaveInv, OrderInv, NEW a \in Admins, saves[a].open
  PROVE  exists = TRUE /\ Given(cells) = Unreadable
<1>1. exists = TRUE /\ saves[a].next \in Nat /\ pages[a].filters \in Seq(Filter)
  BY DEF SaveInv, TypeOK, SaveRecord, PageRecord
<1>2. cells \in Seq(Written)
  BY <1>1, ElementsFacts DEF OrderInv
<1>3. ~Readable(cells)
  <2> SUFFICES ASSUME Readable(cells) PROVE FALSE
    OBVIOUS
  <2>1. cells # <<>> /\ cells[Len(cells)] = End
    BY DEF Readable
  <2>2. Len(cells) \in 1..Len(cells)
    BY <1>2, <2>1, EmptySeq, LenProperties
  <2>3. cells[Len(cells)] \in Written
    BY <1>2, <2>2, ElementOfSeq
  <2> QED
    BY <2>1, <2>3, LayerFiltersAssumption DEF Written
<1> QED
  BY <1>1, <1>3 DEF Given

(* A save that ends well leaves the configuration of its page, if that can *)
(* be read, and one whose template fails leaves nothing that can.          *)
LEMMA CloseIsSaved ==
  ASSUME TypeOK, SaveInv, OrderInv, NEW a \in Admins, CloseSave(a)
  PROVE  exists' = TRUE /\ Given(cells') \in {Saved(pages[a].filters), Unreadable}
<1> DEFINE filters == pages[a].filters
           next    == saves[a].next
           all     == {i \in DOMAIN filters : filters[i].enabled}
           on      == At(filters, all)
           doc     == Document(cells')
           saved   == [i \in DOMAIN on |-> [on[i] EXCEPT !.label = GetLabel(on[i])]]
<1>1. /\ filters \in Seq(Filter) /\ DOMAIN filters = 1..Len(filters) /\ next \in Nat
      /\ saves[a].open /\ cells \in Seq(Cells)
  BY LenProperties DEF TypeOK, PageRecord, SaveRecord, CloseSave
<1>2. /\ \A i \in 1..Len(filters) : filters[i].enabled => i < next
      /\ cells' = Overlay(cells, Len(cells), End) /\ exists' = TRUE
  <2>1. exists' = exists /\ exists = TRUE
    BY <1>1 DEF CloseSave, WriteCell, SaveInv, TypeOK
  <2> QED
    BY <2>1, CloseIsComplete
<1>3. EnabledUpTo(filters, next) = all
  BY <1>1, <1>2 DEF EnabledUpTo
<1>4. cells = Elements(filters, next)
  BY <1>1 DEF OrderInv
<1> HIDE DEF filters, next, all
<1>5. /\ on \in Seq({f \in Filter : f.enabled}) /\ Len(cells) = Len(on)
      /\ \A k \in 1..Len(on) : cells[k] = Element(on[k])
  BY <1>1, <1>3, <1>4, ElementsFacts
<1>6. /\ Len(cells') = Len(cells) + 1 /\ \A k \in 1..Len(cells) : cells'[k] = cells[k]
  BY <1>1, <1>2, OverlayAppends DEF Cells
<1> HIDE DEF on
<1>7. Len(on) \in Nat /\ DOMAIN on = 1..Len(on)
      /\ \A k \in 1..Len(on) : on[k] \in Filter /\ on[k].enabled
  BY <1>5, LenProperties, ElementOfSeq
<1>8. Len(cells') - 1 = Len(on)
  BY <1>5, <1>6, <1>7
<1>9. doc = [k \in 1..Len(on) |-> ParseFilter(cells'[k])]
  BY <1>8 DEF Document
<1> SUFFICES ASSUME Readable(cells') PROVE Given(cells') = Saved(filters)
  BY <1>2 DEF Given, filters
<1>10. \A k \in 1..Len(on) : ParseFilter(cells'[k]) = [on[k] EXCEPT !.label = GetLabel(on[k])]
  <2> TAKE k \in 1..Len(on)
  <2>1. cells'[k] = Element(on[k]) /\ cells'[k] \in Entry
    BY <1>5, <1>6, <1>8 DEF Readable
  <2>2. cells'[k] = WriteFilter(on[k])
    BY <2>1, LayerFiltersAssumption DEF Element
  <2> QED
    BY <1>7, <2>2, ParsedBack
<1>11. doc = saved
  BY <1>7, <1>9, <1>10
<1>12. Saved(filters) = Configuration(saved)
  BY Zenon DEF Saved, all, on
<1> QED
  BY <1>11, <1>12 DEF Given

LEMMA FailIsUnreadable ==
  ASSUME TypeOK, SaveInv, NEW a \in Admins, NEW i, FailTemplate(a, i)
  PROVE  exists' = TRUE /\ Given(cells') = Unreadable
<1>1. exists' = TRUE /\ cells \in Seq(Cells) /\ cells' = Overlay(cells, Len(cells), Garbage)
  BY DEF FailTemplate, WriteCell, SaveInv, SaveOK, TypeOK
<1>2. cells'[Len(cells')] = Garbage
  BY <1>1, OverlayAppends DEF Cells
<1> QED
  BY <1>1, <1>2, LayerFiltersAssumption DEF Given, Readable

LEMMA OverlapInit ==
  ASSUME Init PROVE OrderInv /\ OverlapInv
  BY ReadersAre DEF Init, OrderInv, OverlapInv, NoSave, NoLoad

LEMMA OverlapNext ==
  ASSUME TypeOK, OneTab, MaxFaults = 0, SaveInv, OrderInv, LoadInv, OverlapInv, [Next]_vars
  PROVE  OverlapInv'
<1>0. \A r \in Requests : overlaps[r] \in 0..2
  BY DEF TypeOK
<1>1. ASSUME NEW a \in Admins, NEW inputs, Submit(a, inputs) PROVE OverlapInv'
  <2>1. Given(<<>>) = Unreadable
    BY DEF Given, Readable
  <2>2. /\ loads' = loads
        /\ \A r \in Requests : loads[r].busy =>
             /\ overlaps'[r] = UpToTwo(overlaps[r] + 1)
             /\ offered'[r] = IF overlaps'[r] > 1 THEN {} ELSE offered[r] \cup {Held(TRUE, <<>>)}
    BY <1>1, Zenon DEF Submit, Observe
  <2>3. \A r \in Requests : loads[r].busy =>
          offered'[r] = IF overlaps'[r] > 1 THEN {} ELSE offered[r] \cup {Unreadable}
    BY <2>1, <2>2, HeldThere
  <2> SUFFICES ASSUME NEW r \in Requests, loads[r].busy
               PROVE  /\ loads[r].kind \in {"filters", "columns"}
                      /\ overlaps'[r] = 1 => Unreadable \in offered'[r]
                      /\ overlaps'[r] > 1 => offered'[r] = {}
    BY <2>2 DEF OverlapInv
  <2>4. offered'[r] = IF overlaps'[r] > 1 THEN {} ELSE offered[r] \cup {Unreadable}
    BY <2>3
  <2> QED
    BY <2>4 DEF OverlapInv
<1>2. ASSUME NEW a \in Admins, NEW cell, WriteCell(a, cell) PROVE OverlapInv'
  <2>1. /\ loads' = loads /\ overlaps' = overlaps
        /\ \A r \in Requests : loads[r].busy =>
             offered'[r] = IF overlaps'[r] > 1 THEN {} ELSE offered[r] \cup {Held(TRUE, cells')}
    BY <1>2, Zenon DEF WriteCell, Observe
  <2> DEFINE held == Held(TRUE, cells')
  <2> HIDE DEF held
  <2>2. \A r \in Requests : loads[r].busy =>
             offered'[r] = IF overlaps[r] > 1 THEN {} ELSE offered[r] \cup {held}
    BY <2>1 DEF held
  <2> QED
    BY <1>0, <2>1, <2>2 DEF OverlapInv
<1>3. ASSUME NEW r \in Requests, RequestMoves(r), loads'[r].busy
      PROVE  /\ loads'[r].kind \in {"filters", "columns"}
             /\ overlaps'[r] = 1 => Unreadable \in offered'[r]
             /\ overlaps'[r] > 1 => offered'[r] = {}
  <2>1. CASE UNCHANGED <<loads[r], overlaps[r], offered[r], answers[r]>>
    <3>1. loads'[r] = loads[r] /\ overlaps'[r] = overlaps[r] /\ offered'[r] = offered[r]
      BY <2>1
    <3> QED
      BY <1>3, <3>1 DEF OverlapInv
  <2>2. ASSUME NEW kind \in {"filters", "columns"}, StartRequest(r, kind)
        PROVE  /\ loads'[r].kind \in {"filters", "columns"}
               /\ overlaps'[r] = 1 => Unreadable \in offered'[r]
               /\ overlaps'[r] > 1 => offered'[r] = {}
    <3>1. /\ loads'[r].kind = kind
          /\ overlaps'[r] = CountToTwo({a \in Admins : saves[a].open})
      BY <2>2, ReadersAre DEF StartRequest, BeginLoad, TypeOK
    <3>2. offered'[r] = {Held(exists, cells)}
      BY <2>2, Zenon DEF StartRequest, TypeOK
    <3>3. CASE NobodySaves
      <4>1. overlaps'[r] = 0
        BY <3>1, <3>3 DEF NobodySaves, CountToTwo
      <4> QED
        BY <2>2, <3>1, <4>1
    <3>4. CASE ~NobodySaves
      <4>1. PICK a \in Admins : saves[a].open
        BY <3>4 DEF NobodySaves
      <4>2. {b \in Admins : saves[b].open} = {a}
        BY <4>1 DEF OneTab
      <4>3. overlaps'[r] = 1
        BY <3>1, <4>2 DEF CountToTwo
      <4>4. Held(exists, cells) = Unreadable
        BY <4>1, SavingUnreadable, HeldThere
      <4> QED
        BY <2>2, <3>1, <3>2, <4>3, <4>4
    <3> QED
      BY <3>3, <3>4
  <2>3. CASE ReadMore(r)
    <3>1. overlaps' = overlaps /\ offered' = offered /\ loads[r].busy /\ loads'[r].kind = loads[r].kind
      BY <2>3, ReadersAre DEF ReadMore, ghosts, TypeOK, LoadRecord
    <3> QED
      BY <3>1 DEF OverlapInv
  <2> QED
    BY <1>3, <2>1, <2>2, <2>3 DEF RequestMoves
<1>4. CASE \E a \in Admins : SaveStep(a)
  BY <1>2, <1>4 DEF SaveStep, Emit, FailTemplate, CloseSave
<1> QED
  BY <1>1, <1>3, <1>4, RequestSteps DEF OverlapInv

-----------------------------------------------------------------------------
(* The register's steps *)

(* How the register's variables are read off those of LayerFilters.        *)
RequestsOf(l) ==
  [r \in Requests |-> [busy     |-> l[r].busy,
                       question |-> [kind |-> l[r].kind, schema |-> l[r].schema]]]

WriteOf(s, p) ==
  LET w == {a \in Admins : s[a].open}
  IN  IF w = {} THEN [open |-> FALSE, page |-> <<>>]
      ELSE [open |-> TRUE, page |-> p[CHOOSE a \in w : TRUE].filters]

LEMMA WriteOfOne ==
  ASSUME OneTab, NEW s, NEW p, NEW a \in Admins
  PROVE  /\ s[a].open => WriteOf(s, p) = [open |-> TRUE, page |-> p[a].filters]
         /\ ~s[a].open => WriteOf(s, p) = [open |-> FALSE, page |-> <<>>]
<1> DEFINE w == {b \in Admins : s[b].open}
<1>1. s[a].open => w = {a} /\ (CHOOSE b \in w : TRUE) = a
  BY DEF OneTab
<1>2. ~s[a].open => w = {}
  BY DEF OneTab
<1> HIDE DEF w
<1> QED
  BY <1>1, <1>2, Zenon DEF WriteOf, w

LEMMA RegisterStays ==
  ASSUME UNCHANGED <<file, offered, overlaps, answers>>,
         RequestsOf(loads') = RequestsOf(loads),
         WriteOf(saves', pages') = WriteOf(saves, pages)
  PROVE  UNCHANGED Register!vars
  BY DEF Register!vars, RequestsOf, WriteOf, Writing, file, Held

LEMMA SavedType ==
  ASSUME NEW filters \in Seq(Filter)
  PROVE  Saved(filters) \in {held \in Contents : held.readable}
<1> DEFINE all   == {i \in DOMAIN filters : filters[i].enabled}
           on    == At(filters, all)
           n     == Len(on)
           saved == [i \in DOMAIN on |-> [on[i] EXCEPT !.label = GetLabel(on[i])]]
<1>1. all \in FiniteNats
  <2>1. IsFiniteSet(all) /\ DOMAIN filters \in FiniteNats
    BY AtAll, FS_Subset DEF FiniteNats
  <2> QED
    BY <2>1 DEF FiniteNats
<1>2. \A i \in all : filters[i] \in Filter
  BY LenProperties, ElementOfSeq
<1> HIDE DEF all
<1>3. on \in Seq(Filter)
  BY <1>1, <1>2, AtFacts
<1> HIDE DEF on
<1>4. n \in Nat /\ DOMAIN on = 1..n /\ \A i \in 1..n : on[i] \in Filter
  BY <1>3, LenProperties, ElementOfSeq
<1>5. \A i \in 1..n : [on[i] EXCEPT !.label = GetLabel(on[i])] \in Filter
  BY <1>4, GetLabelType DEF Filter
<1>6. saved = [i \in 1..n |-> [on[i] EXCEPT !.label = GetLabel(on[i])]]
  BY <1>4
<1> HIDE DEF saved, n
<1>7. saved \in [1..n -> Filter]
  BY <1>5, <1>6
<1>8. saved \in Seq(Filter)
  BY <1>4, <1>7, SeqDef
<1>9. Saved(filters) = Configuration(saved)
  BY Zenon DEF Saved, saved, on, all
<1> QED
  BY <1>8, <1>9 DEF Configuration, Contents

(* A save that begins makes the file unreadable.                           *)
LEMMA RegisterBegins ==
  ASSUME TypeOK, OneTab, NEW a \in Admins,
         NEW inputs \in [DOMAIN pages[a].filters -> RowInputs], Submit(a, inputs)
  PROVE  Register!BeginWrite
<1> DEFINE filters == ApplyForm(pages[a].filters, inputs)
<1>1. filters \in Seq(Filter)
  BY ApplyFormType DEF TypeOK, PageRecord
<1>2. /\ pages' = [pages EXCEPT ![a] = ShownPage(filters)] /\ ~saves[a].open
      /\ saves' = [saves EXCEPT ![a] = [NoSave EXCEPT !.open = TRUE]]
      /\ exists' = TRUE /\ cells' = <<>> /\ UNCHANGED <<loads, answers>>
  BY DEF Submit
<1> HIDE DEF filters
<1>3. pages'[a].filters = filters /\ saves'[a].open
  BY <1>2 DEF TypeOK, ShownPage, NoSave
<1>4. WriteOf(saves, pages) = [open |-> FALSE, page |-> <<>>]
  BY <1>2, WriteOfOne
<1>5. WriteOf(saves', pages') = [open |-> TRUE, page |-> filters]
  BY <1>3, WriteOfOne
<1>6. Held(TRUE, <<>>) = Unreadable
  BY DEF Held, Readable
<1>7. Held(exists', cells') = Unreadable
  BY <1>2, <1>6
<1>8. overlaps' = [r \in Requests |-> IF loads[r].busy /\ overlaps[r] < 2
                                      THEN overlaps[r] + 1 ELSE overlaps[r]]
  <2>1. \A r \in Requests : overlaps[r] \in 0..2
    BY DEF TypeOK
  <2>2. \A r \in Requests : UpToTwo(overlaps[r] + 1) =
                              IF overlaps[r] < 2 THEN overlaps[r] + 1 ELSE overlaps[r]
    BY <2>1 DEF UpToTwo
  <2>3. overlaps' = [r \in Requests |-> IF loads[r].busy THEN UpToTwo(overlaps[r] + 1)
                                        ELSE overlaps[r]]
    BY DEF Submit
  <2> QED
    BY <2>2, <2>3
<1>9. offered' = [r \in Requests |->
                    IF ~loads[r].busy THEN offered[r]
                    ELSE IF overlaps'[r] > 1 THEN {}
                    ELSE offered[r] \cup {Unreadable}]
  BY <1>6 DEF Submit, Observe
<1>10. RequestsOf(loads') = RequestsOf(loads)
  BY <1>2
<1>11. ~WriteOf(saves, pages).open
  BY <1>4
<1>12. WriteOf(saves', pages') \in [open : {TRUE}, page : Seq(Filter)]
  BY <1>1, <1>5
<1> QED
  BY <1>2, <1>7, <1>8, <1>9, <1>10, <1>11, <1>12
     DEF Register!BeginWrite, Register!Becomes, RequestsOf, WriteOf, Writing

(* A write that the running requests may come upon.                        *)
LEMMA WriteShown ==
  ASSUME TypeOK, SaveInv, NEW a \in Admins, NEW cell, WriteCell(a, cell), saves[a].open
  PROVE  /\ exists' = TRUE
         /\ offered' = [r \in Requests |->
                          IF ~loads[r].busy THEN offered[r]
                          ELSE IF overlaps'[r] > 1 THEN {}
                          ELSE offered[r] \cup {Held(exists', cells')}]
<1>1. exists' = TRUE
  BY DEF WriteCell, SaveInv, TypeOK
<1> QED
  BY <1>1, Zenon DEF WriteCell, Observe

(* The elements that a save writes do not show: the file is unreadable.    *)
LEMMA RegisterWaits ==
  ASSUME TypeOK, OneTab, SaveInv, OrderInv, LoadInv, OverlapInv,
         SaveInv', OrderInv', TypeOK', NEW a \in Admins,
         NEW i \in DOMAIN pages[a].filters, Emit(a, i)
  PROVE  UNCHANGED Register!vars
<1>1. /\ saves[a].open /\ saves'[a].open /\ pages' = pages
      /\ WriteCell(a, Element(pages[a].filters[i]))
      /\ UNCHANGED <<loads, overlaps, answers>>
  BY DEF Emit, WriteCell, TypeOK
<1>2. Held(exists, cells) = Unreadable
  BY <1>1, SavingUnreadable, HeldThere
<1>3. Held(exists', cells') = Unreadable
  <2>1. exists' = TRUE /\ Given(cells') = Unreadable
    <3>1. saves'[a].next \in Nat /\ pages'[a].filters \in Seq(Filter)
      BY DEF TypeOK, SaveRecord, PageRecord
    <3>2. cells' = Elements(pages'[a].filters, saves'[a].next)
      BY <1>1 DEF OrderInv
    <3>3. cells' \in Seq(Written)
      BY <3>1, <3>2, ElementsFacts
    <3>4. ~Readable(cells')
      <4> SUFFICES ASSUME Readable(cells') PROVE FALSE
        OBVIOUS
      <4>1. cells' # <<>> /\ cells'[Len(cells')] = End
        BY DEF Readable
      <4>2. Len(cells') \in 1..Len(cells')
        BY <3>3, <4>1, EmptySeq, LenProperties
      <4>3. cells'[Len(cells')] \in Written
        BY <3>3, <4>2, ElementOfSeq
      <4> QED
        BY <4>1, <4>3, LayerFiltersAssumption DEF Written
    <3>5. exists' = TRUE
      BY <1>1, WriteShown
    <3> QED
      BY <3>4, <3>5 DEF Given
  <2> QED
    BY <2>1, HeldThere
<1>4. \A r \in Requests : offered'[r] = offered[r]
  <2> TAKE r \in Requests
  <2>1. offered'[r] = IF ~loads[r].busy THEN offered[r]
                      ELSE IF overlaps[r] > 1 THEN {}
                      ELSE offered[r] \cup {Unreadable}
    <3>1. offered' = [s \in Requests |->
                        IF ~loads[s].busy THEN offered[s]
                        ELSE IF overlaps'[s] > 1 THEN {}
                        ELSE offered[s] \cup {Held(exists', cells')}]
      BY <1>1, WriteShown
    <3> DEFINE held == Held(exists', cells')
    <3> HIDE DEF held
    <3>2. offered'[r] = IF ~loads[r].busy THEN offered[r]
                        ELSE IF overlaps[r] > 1 THEN {} ELSE offered[r] \cup {held}
      BY <1>1, <3>1 DEF held
    <3> QED
      BY <1>3, <3>2 DEF held
  <2>2. overlaps[r] \in 0..2
    BY DEF TypeOK
  <2>3. loads[r].busy => overlaps[r] # 0
    BY <1>1, <2>2 DEF LoadInv, LoadOK, NobodySaves
  <2>4. loads[r].busy /\ overlaps[r] = 1 => Unreadable \in offered[r]
    BY DEF OverlapInv
  <2>5. loads[r].busy /\ overlaps[r] > 1 => offered[r] = {}
    BY DEF OverlapInv
  <2> QED
    BY <2>1, <2>2, <2>3, <2>4, <2>5
<1>5. offered' = offered
  <2>1. offered \in [Requests -> SUBSET Contents] /\ offered' \in [Requests -> SUBSET Contents]
    BY DEF TypeOK
  <2> QED
    BY <1>4, <2>1
<1>6. WriteOf(saves', pages') = WriteOf(saves, pages)
  BY <1>1, WriteOfOne
<1>7. RequestsOf(loads') = RequestsOf(loads)
  BY <1>1
<1> QED
  BY <1>1, <1>2, <1>3, <1>5, <1>6, <1>7
     DEF Register!vars, RequestsOf, WriteOf, Writing

(* A save that ends leaves its configuration, or what does not parse.      *)
LEMMA RegisterEnds ==
  ASSUME TypeOK, OneTab, SaveInv, OrderInv, NEW a \in Admins,
         CloseSave(a) \/ \E i \in DOMAIN pages[a].filters : FailTemplate(a, i)
  PROVE  Register!EndWrite
<1>1. PICK cell : WriteCell(a, cell)
  BY DEF CloseSave, FailTemplate
<1>2. /\ saves[a].open /\ saves' = [saves EXCEPT ![a] = NoSave]
      /\ UNCHANGED <<loads, overlaps, answers, pages>>
  BY DEF CloseSave, FailTemplate, WriteCell
<1>3. ~saves'[a].open
  BY <1>2 DEF TypeOK, NoSave
<1>4. WriteOf(saves, pages) = [open |-> TRUE, page |-> pages[a].filters]
  BY <1>2, WriteOfOne
<1>5. WriteOf(saves', pages') = [open |-> FALSE, page |-> <<>>]
  BY <1>3, WriteOfOne
<1>6. RequestsOf(loads') = RequestsOf(loads)
  BY <1>2
<1>7. offered' = [r \in Requests |->
                    IF ~loads[r].busy THEN offered[r]
                    ELSE IF overlaps'[r] > 1 THEN {}
                    ELSE offered[r] \cup {Held(exists', cells')}]
  BY <1>1, <1>2, WriteShown
<1>8. Held(exists', cells') \in {Saved(pages[a].filters), Unreadable}
  BY CloseIsSaved, FailIsUnreadable, HeldThere
<1> DEFINE held == Held(exists', cells')
<1>9. \/ held = Saved(pages[a].filters) \/ held = Unreadable
  BY <1>8
<1>10. Saved(pages[a].filters) \in {given \in Contents : given.readable}
  BY SavedType DEF TypeOK, PageRecord
<1> QED
  BY <1>2, <1>4, <1>5, <1>6, <1>7, <1>9, <1>10
     DEF Register!EndWrite, Register!Becomes, Register!NoWrite, RequestsOf, WriteOf, Writing

LEMMA RegisterStarts ==
  ASSUME TypeOK, OneTab, NEW r \in Requests, NEW kind \in {"filters", "columns"},
         StartRequest(r, kind)
  PROVE  Register!Start(r)
<1>1. /\ ~loads[r].busy /\ BeginLoad(r, kind)
      /\ answers' = [answers EXCEPT ![r] = NoAnswer]
      /\ offered' = [offered EXCEPT ![r] = {Held(exists, cells)}]
      /\ overlaps' = [overlaps EXCEPT ![r] = CountToTwo(Writing)]
      /\ UNCHANGED <<file, pages, saves>>
  BY DEF StartRequest, Writing
<1> DEFINE q == [kind |-> kind, schema |-> schema]
<1>2. q \in [kind : {"filters", "columns"}, schema : Schemas]
  BY DEF TypeOK
<1>3. RequestsOf(loads') = [RequestsOf(loads) EXCEPT ![r] = [busy |-> TRUE, question |-> q]]
  <2>1. loads' = [loads EXCEPT ![r] = [busy |-> TRUE, kind |-> kind, opened |-> exists,
                                       schema |-> schema, got |-> <<>>]]
    BY <1>1 DEF BeginLoad
  <2>2. /\ loads'[r].busy = TRUE /\ loads'[r].kind = kind /\ loads'[r].schema = schema
        /\ \A s \in Requests : s # r => loads'[s] = loads[s]
    BY <2>1, ReadersAre DEF TypeOK
  <2> DEFINE before == RequestsOf(loads)
             after  == RequestsOf(loads')
             mine   == [busy |-> TRUE, question |-> q]
  <2>3. after[r] = mine /\ \A s \in Requests : s # r => after[s] = before[s]
    BY <2>2 DEF RequestsOf
  <2>4. DOMAIN after = Requests /\ DOMAIN before = Requests
        /\ after = [s \in Requests |-> after[s]]
    BY DEF RequestsOf
  <2> HIDE DEF before, after, mine
  <2>5. after = [before EXCEPT ![r] = mine]
    BY <2>3, <2>4
  <2> QED
    BY <2>5 DEF before, after, mine
<1>4. CountToTwo(Writing) = IF WriteOf(saves, pages).open THEN 1 ELSE 0
  <2>1. CASE Writing = {}
    BY <2>1 DEF CountToTwo, WriteOf, Writing
  <2>2. CASE Writing # {}
    <3>1. PICK a \in Admins : saves[a].open
      BY <2>2 DEF Writing
    <3>2. Writing = {a}
      BY <3>1 DEF Writing, OneTab
    <3>3. CountToTwo(Writing) = 1
      BY <3>2 DEF CountToTwo
    <3>4. WriteOf(saves, pages).open = TRUE
      <4>1. WriteOf(saves, pages) = [open |-> TRUE, page |-> pages[a].filters]
        BY <3>1, WriteOfOne
      <4> QED
        BY <4>1
    <3> QED
      BY <3>3, <3>4
  <2> QED
    BY <2>1, <2>2
<1>5. WriteOf(saves', pages') = WriteOf(saves, pages) /\ Held(exists', cells') = Held(exists, cells)
  BY <1>1 DEF file
<1> HIDE DEF q
<1>6. /\ offered' = [offered EXCEPT ![r] = {Held(exists, cells)}]
      /\ overlaps' = [overlaps EXCEPT ![r] = IF WriteOf(saves, pages).open THEN 1 ELSE 0]
      /\ answers' = [answers EXCEPT ![r] = NoAnswer]
  BY <1>1, <1>4
<1>7. ~RequestsOf(loads)[r].busy
  BY <1>1 DEF RequestsOf
<1> QED
  BY <1>2, <1>3, <1>5, <1>6, <1>7, Zenon DEF Register!Start, RequestsOf, WriteOf, Writing

(* What a request finds that does not parse is offered to it.              *)
LEMMA UnreadableWasOffered ==
  ASSUME TypeOK, LoadInv, OverlapInv, NEW r \in Requests, overlaps[r] <= 1,
         AtEnd(r), ~Parses(r)
  PROVE  Unreadable \in offered[r]
<1> DEFINE got == loads[r].got
<1>1. /\ LoadOK(r) /\ loads[r].busy /\ loads[r].opened /\ ~Readable(got)
      /\ got \in Seq(Cells) /\ cells \in Seq(Cells)
      /\ Len(got) \in Nat /\ Len(cells) \in Nat /\ Len(got) >= Len(cells)
  BY ReadersAre, LenProperties DEF LoadInv, AtEnd, Parses, TypeOK, LoadRecord
<1>2. CASE overlaps[r] = 1
  BY <1>1, <1>2 DEF OverlapInv
<1>3. CASE overlaps[r] = 0
  <2>1. got \in {<<>>, cells} /\ exists /\ Given(cells) \in offered[r]
    BY <1>1, <1>3 DEF LoadOK
  <2>2. got = cells
    BY <1>1, <2>1, EmptySeq
  <2> QED
    BY <1>1, <2>1, <2>2 DEF Given
<1> QED
  BY <1>2, <1>3 DEF TypeOK

(* What the request's own step answers.                                    *)
Answers(r, answer) ==
  \/ AnswerFilters(r) /\ answer = [NoAnswer EXCEPT !.status = "filters",
                                                   !.filters = Loaded(r)]
  \/ /\ AnswerColumns(r)
     /\ answer = [NoAnswer EXCEPT
                    !.status = "columns",
                    !.columns = {loads[r].schema[i] : i \in DOMAIN loads[r].schema}
                                  \ ExcludedNames(Loaded(r))]
  \/ AnswerFails(r) /\ answer = FailedAnswer

(* The answer is one content's, or two saves have overlapped the request.  *)
LEMMA AnswerIsView ==
  ASSUME TypeOK, LoadInv, OverlapInv, NEW r \in Requests, overlaps[r] <= 1,
         NEW answer, Answers(r, answer)
  PROVE  \E seen \in offered[r] :
           answer = ServiceView([kind |-> loads[r].kind, schema |-> loads[r].schema], seen)
<1> DEFINE q == [kind |-> loads[r].kind, schema |-> loads[r].schema]
           seen == Configuration(Loaded(r))
<1>1. AtEnd(r) /\ loads[r].busy /\ loads[r].kind \in {"filters", "columns"}
  BY DEF Answers, AnswerFilters, AnswerColumns, AnswerFails, AtEnd, OverlapInv
<1>2. Parses(r) => seen \in offered[r]
  BY <1>1, LoadedWasOffered
<1>3. /\ q.kind = loads[r].kind /\ q.schema = loads[r].schema
      /\ seen.readable = TRUE /\ seen.filters = Loaded(r)
  BY DEF Configuration
<1> HIDE DEF q, seen
<1>4. CASE AnswerFilters(r) /\ answer = [NoAnswer EXCEPT !.status = "filters",
                                                         !.filters = Loaded(r)]
  <2>1. Parses(r) /\ q.kind = "filters" /\ Listable(seen.filters)
    BY <1>3, <1>4 DEF AnswerFilters
  <2>2. answer = ServiceView(q, seen)
    BY <1>3, <1>4, <2>1 DEF ServiceView
  <2> QED
    BY <1>2, <2>1, <2>2 DEF q
<1>5. CASE AnswerColumns(r) /\ answer = [NoAnswer EXCEPT
                  !.status = "columns",
                  !.columns = {loads[r].schema[i] : i \in DOMAIN loads[r].schema}
                                \ ExcludedNames(Loaded(r))]
  <2>1. Parses(r) /\ q.kind = "columns"
    BY <1>3, <1>5 DEF AnswerColumns
  <2>2. answer = ServiceView(q, seen)
    BY <1>3, <1>5, <2>1 DEF ServiceView
  <2> QED
    BY <1>2, <2>1, <2>2 DEF q
<1>6. CASE AnswerFails(r) /\ answer = FailedAnswer
  <2>1. CASE Parses(r)
    <3>1. q.kind = "filters" /\ ~Listable(seen.filters)
      BY <1>3, <1>6, <2>1 DEF AnswerFails
    <3>2. answer = ServiceView(q, seen)
      BY <1>3, <1>6, <3>1 DEF ServiceView
    <3> QED
      BY <1>2, <2>1, <3>2 DEF q
  <2>2. CASE ~Parses(r)
    <3>1. Unreadable \in offered[r]
      BY <1>1, <2>2, UnreadableWasOffered
    <3>2. answer = ServiceView(q, Unreadable)
      BY <1>6 DEF ServiceView, Unreadable
    <3> QED
      BY <3>1, <3>2 DEF q
  <2> QED
    BY <2>1, <2>2
<1> QED
  BY <1>4, <1>5, <1>6, Zenon DEF Answers

LEMMA RegisterReturns ==
  ASSUME TypeOK, TypeOK', LoadInv, OverlapInv, NEW r \in Requests,
         AnswerFilters(r) \/ AnswerColumns(r) \/ AnswerFails(r)
  PROVE  Register!Return(r)
<1>1. PICK answer : Answer(r, answer) /\ Answers(r, answer)
  BY DEF Answers, AnswerFilters, AnswerColumns, AnswerFails
<1>2. loads[r].busy /\ overlaps[r] \in 0..2
  BY DEF AnswerFilters, AnswerColumns, AnswerFails, AtEnd, TypeOK
<1>3. /\ answers' = [answers EXCEPT ![r] = answer]
      /\ loads' = [loads EXCEPT ![r] = NoLoad]
      /\ offered' = [offered EXCEPT ![r] = {}]
      /\ overlaps' = [overlaps EXCEPT ![r] = 0]
      /\ UNCHANGED <<file, pages, saves>>
  BY <1>1 DEF Answer
<1>4. /\ answers'[r] = answer /\ ~loads'[r].busy
      /\ \A s \in Requests \ {r} : answers'[s] = answers[s] /\ loads'[s] = loads[s]
  BY <1>3, ReadersAre DEF TypeOK, NoLoad
<1>5. /\ RequestsOf(loads)[r].busy /\ ~RequestsOf(loads')[r].busy
      /\ \A s \in Requests \ {r} : RequestsOf(loads')[s] = RequestsOf(loads)[s]
      /\ RequestsOf(loads)[r].question = [kind |-> loads[r].kind, schema |-> loads[r].schema]
  BY <1>2, <1>4 DEF RequestsOf
<1>6. \/ \E seen \in offered[r] : answers'[r] = ServiceView(RequestsOf(loads)[r].question, seen)
      \/ overlaps[r] > 1 /\ answers'[r] \in AnswerRecord
  <2>1. CASE overlaps[r] <= 1
    BY <1>1, <1>4, <1>5, <2>1, AnswerIsView
  <2>2. CASE overlaps[r] > 1
    BY <2>2 DEF TypeOK
  <2> QED
    BY <1>2, <2>1, <2>2
<1>7. WriteOf(saves', pages') = WriteOf(saves, pages) /\ Held(exists', cells') = Held(exists, cells)
  BY <1>3 DEF file
<1> QED
  BY <1>3, <1>4, <1>5, <1>6, <1>7, Zenon DEF Register!Return, RequestsOf, WriteOf, Writing

(* The register begins with the file that is there.                        *)
LEMMA RegisterInit ==
  ASSUME Init, TypeOK PROVE Register!Init
<1>1. Held(exists, cells) \in {held \in Contents : held.readable} \cup {Unreadable}
  <2>1. <<>> \in Seq(Filter)
    OBVIOUS
  <2>2. Configuration(<<>>) \in {held \in Contents : held.readable}
    BY <2>1 DEF Configuration, Contents
  <2>3. Readable(cells) => Configuration(Document(cells)) \in {held \in Contents : held.readable}
    BY DocumentType DEF Configuration, Contents, TypeOK
  <2> QED
    BY <2>2, <2>3 DEF Held
<1>2. Writing = {}
  BY DEF Init, Writing, NoSave
<1>3. \A r \in Requests : ~loads[r].busy
  BY ReadersAre DEF Init, NoLoad
<1>4. offered = [r \in Requests |-> {}] /\ overlaps = [r \in Requests |-> 0]
      /\ answers = [r \in Requests |-> NoAnswer]
  BY DEF Init
<1> QED
  BY <1>1, <1>2, <1>3, <1>4 DEF Register!Init, Register!Contents, Register!NoWrite

(* Steps that are neither a request's nor a save's own do not show.        *)
LEMMA RegisterSteps ==
  ASSUME TypeOK, TypeOK', TabInv, OneTab, MaxFaults = 0, SaveInv, SaveInv',
         OrderInv, OrderInv', LoadInv, OverlapInv, [Next]_vars
  PROVE  [Register!Next]_(Register!vars)
<1>0. ~(faults < MaxFaults)
  BY DEF TypeOK
<1>1. ASSUME NEW a \in Admins, OpenPage(a) \/ Cancel(a)
      PROVE  UNCHANGED Register!vars
  <2>1. /\ ~saves[a].open /\ UNCHANGED <<file, saves, answers, offered, overlaps>>
        /\ \A r \in Requests : loads'[r] = loads[r]
    BY <1>1, ReadersAre DEF OpenPage, Cancel, BeginLoad, ghosts, TypeOK
  <2>2. RequestsOf(loads') = RequestsOf(loads)
    BY <2>1 DEF RequestsOf
  <2>3. WriteOf(saves', pages') = WriteOf(saves, pages)
    BY <2>1, WriteOfOne
  <2> QED
    BY <2>1, <2>2, <2>3, RegisterStays
<1>2. ASSUME NEW a \in Admins, PageOpens(a) \/ PageFails(a)
      PROVE  UNCHANGED Register!vars
  <2>1. ~saves[a].open
    BY <1>2 DEF PageOpens, PageFails, AtEnd, TabInv
  <2>2. /\ UNCHANGED <<file, saves, answers, offered, overlaps>>
        /\ \A r \in Requests : loads'[r] = loads[r]
    BY <1>2, ReadersAre DEF PageOpens, PageFails, ghosts, TypeOK
  <2>3. RequestsOf(loads') = RequestsOf(loads)
    BY <2>2 DEF RequestsOf
  <2>4. WriteOf(saves', pages') = WriteOf(saves, pages)
    BY <2>1, <2>2, WriteOfOne
  <2> QED
    BY <2>2, <2>3, <2>4, RegisterStays
<1>3. ASSUME NEW p \in Readers, ReadMore(p) PROVE UNCHANGED Register!vars
  <2>1. /\ UNCHANGED <<file, saves, pages, answers, offered, overlaps>>
        /\ \A r \in Requests : /\ loads'[r].busy = loads[r].busy
                               /\ loads'[r].kind = loads[r].kind
                               /\ loads'[r].schema = loads[r].schema
    BY <1>3, ReadersAre DEF ReadMore, ghosts, TypeOK, LoadRecord
  <2>2. RequestsOf(loads') = RequestsOf(loads)
    BY <2>1 DEF RequestsOf
  <2> QED
    BY <2>1, <2>2, RegisterStays
<1>4. CASE AlterSchema \/ UNCHANGED vars
  <2>1. UNCHANGED <<file, saves, pages, loads, answers, offered, overlaps>>
    BY <1>4 DEF AlterSchema, vars, ghosts, file
  <2> QED
    BY <2>1, RegisterStays
<1>5. ~Crash
  BY <1>0 DEF Crash
<1>6. ASSUME NEW a \in Admins, AdminStep(a) PROVE [Register!Next]_(Register!vars)
  <2>1. ~AbortSave(a) /\ \A inputs : ~SubmitFails(a, inputs)
    BY <1>0 DEF AbortSave, SubmitFails
  <2>2. CASE SaveStep(a)
    <3>1. UNCHANGED Register!vars \/ Register!EndWrite
      BY <2>2, RegisterWaits, RegisterEnds DEF SaveStep
    <3> QED
      BY <3>1, Zenon DEF Register!Next
  <2>3. ASSUME NEW inputs \in [DOMAIN pages[a].filters -> RowInputs], Submit(a, inputs)
        PROVE  [Register!Next]_(Register!vars)
    BY <2>3, RegisterBegins, Zenon DEF Register!Next
  <2> QED
    BY <1>1, <1>6, <2>1, <2>2, <2>3 DEF AdminStep
<1>7. ASSUME NEW r \in Requests, NEW kind \in {"filters", "columns"}, StartRequest(r, kind)
      PROVE  [Register!Next]_(Register!vars)
  BY <1>7, RegisterStarts, Zenon DEF Register!Next
<1>8. ASSUME NEW p \in Readers, LoadStep(p) PROVE [Register!Next]_(Register!vars)
  <2>1. CASE p \in Requests /\ (AnswerFilters(p) \/ AnswerColumns(p) \/ AnswerFails(p))
    BY <2>1, RegisterReturns, Zenon DEF Register!Next
  <2> QED
    BY <1>2, <1>3, <1>8, <2>1 DEF LoadStep
<1> QED
  BY <1>4, <1>5, <1>6, <1>7, <1>8 DEF Next

(* IsRegister, while one tab uses the page, a read returns the file whole  *)
(* and no I/O fails: the file implements a register with one writer that   *)
(* is safe to read once, for any number of requests, columns and filters,  *)
(* whatever is entered in the form.                                        *)
THEOREM FileIsRegister ==
  ASSUME Undisturbed
  PROVE  Spec => IsRegister
<1> DEFINE Inv == /\ TypeOK /\ TabInv /\ RenderInv /\ SaveInv /\ FileInv /\ LoadInv
                  /\ OrderInv /\ OverlapInv
<1>0. OneTab /\ MaxFaults = 0
  BY DEF Undisturbed
<1>1. Init => Inv
  BY TypeInit, SourceInit, RenderInit, SaveInit, LoadInit, OverlapInit DEF SourceInv
<1>2. Inv /\ [Next]_vars => Inv'
  BY <1>0, TypeNext, TabNext, RenderNext, SaveNext, LoadNext, OrderNext, OverlapNext
<1>3. Init /\ Inv => Register!Init
  BY RegisterInit
<1>4. Inv /\ Inv' /\ [Next]_vars => [Register!Next]_(Register!vars)
  BY <1>0, RegisterSteps
<1> QED
  BY <1>1, <1>2, <1>3, <1>4, PTL DEF Spec, IsRegister, Register!Spec

=============================================================================
