---------------------------- MODULE LayerFilters ----------------------------
(***************************************************************************)
(* The life of one layer's filters.xml: administrators open the            *)
(* configuration page, submit it and so rewrite the file, while the OWS    *)
(* service enabledFilters and the WFS output format csv-restricted-column  *)
(* read it.  Nothing in the code coordinates them: every load opens the    *)
(* file and reads it block by block, every save truncates the file and     *)
(* writes into it through a file offset of its own.                        *)
(*                                                                         *)
(* The file is a sequence of cells: a <filter> element each, then the      *)
(* closing </filters>.  A cell is written and read at once: blocks end     *)
(* between elements.  FileWriter's buffer only delays writes, which the    *)
(* interleaving of Emit steps covers.                                      *)
(***************************************************************************)
EXTENDS Filters

CONSTANTS
  Admins,        \* browser tabs in which the configuration page is used
  Requests,      \* enabledFilters and csv-restricted-column clients
  Schemas,       \* the attribute lists the layer's table may come to have
  InitialFiles,  \* contents the file may have at the start
  RowInputs,     \* what an administrator may enter in a row of the form
  ReadBlock,     \* cells a read of the file returns at most
  MaxFaults,     \* bound on I/O errors and crashes in a behaviour
  End,           \* the cell of the closing </filters>
  Garbage        \* a cell that is no XML: a hole, an element cut short, or
                 \* one whose texts were written unescaped

Cells == Entry \cup {End, Garbage}

Inputs ==
  [enabled: BOOLEAN, type: Types \cup {NULL}, label: Labels \cup {NULL},
   notVisualised: BOOLEAN, excluded: BOOLEAN]

ASSUME LayerFiltersAssumption ==
  /\ Schemas \subseteq Seq(Names)
  /\ InitialFiles \subseteq Seq(Cells)
  /\ RowInputs \subseteq Inputs
  /\ ReadBlock \in Nat \ {0}
  /\ MaxFaults \in Nat
  /\ End # Garbage /\ {End, Garbage} \cap Entry = {}
  /\ Admins \cap Requests = {}

VARIABLES
  schema,     \* attributes of the layer's table, in order
  exists,     \* whether filters.xml is there
  cells,      \* what it holds
  pages,      \* each tab's form model: its filters, if the page is open
  saves,      \* each tab's save: whether it runs, next filter, file offset
  loads,      \* each reader's load: what it has read up to now
  answers,    \* each client's last answer
  submitted,  \* history: elements of filters ever submitted as enabled
  offered,    \* history: what the file has held since the request began,
              \*          kept while at most one save has overlapped it
  overlaps,   \* history: saves that overlapped the request, counted to two
  faults      \* number of I/O errors and crashes so far

file == <<exists, cells>>
ghosts == <<submitted, offered, overlaps>>
vars == <<schema, exists, cells, pages, saves, loads, answers,
          submitted, offered, overlaps, faults>>

Readers == Admins \cup Requests

ClosedPage == [open |-> FALSE, filters |-> <<>>]
ShownPage(filters) == [open |-> TRUE, filters |-> filters]
NoSave == [open |-> FALSE, next |-> 1, pos |-> 0]
NoLoad == [busy |-> FALSE, kind |-> "none", opened |-> FALSE,
           schema |-> <<>>, got |-> <<>>]
NoAnswer == [status |-> "none", filters |-> <<>>, columns |-> {}]
FailedAnswer == [NoAnswer EXCEPT !.status = "failed"]

-----------------------------------------------------------------------------
(* Documents *)

(* DocumentBuilder.parse accepts what was read: one closed document, with  *)
(* nothing after it.                                                       *)
Readable(text) ==
  /\ text # <<>>
  /\ text[Len(text)] = End
  /\ \A i \in 1..(Len(text) - 1) : text[i] \in Entry

(* FiltersDocumentParser.getFilters of a readable document.                *)
Document(text) == [i \in 1..(Len(text) - 1) |-> ParseFilter(text[i])]

(* What a load of the whole file would find: a configuration, or nothing   *)
(* that parses.  No file stands for no filters.                            *)
Configuration(filters) == [readable |-> TRUE, filters |-> filters]
Unreadable == [readable |-> FALSE, filters |-> <<>>]
Held(there, text) ==
  IF ~there THEN Configuration(<<>>)
  ELSE IF Readable(text) THEN Configuration(Document(text)) ELSE Unreadable

(* What a write at offset pos makes of the file: bytes beyond the end that *)
(* another save's truncation left behind are a hole.                       *)
Overlay(text, pos, cell) ==
  [i \in 1..(IF Len(text) > pos THEN Len(text) ELSE pos + 1) |->
     IF i = pos + 1 THEN cell
     ELSE IF i <= Len(text) THEN text[i] ELSE Garbage]

-----------------------------------------------------------------------------
(* Loads *)

BeginLoad(p, kind) ==
  loads' = [loads EXCEPT ![p] = [busy |-> TRUE, kind |-> kind,
                                 opened |-> exists, schema |-> schema,
                                 got |-> <<>>]]

(* read() returns the next block, from the offset this load has reached.   *)
ReadMore(p) ==
  LET got  == loads[p].got
      upto == IF Len(got) + ReadBlock < Len(cells)
              THEN Len(got) + ReadBlock ELSE Len(cells)
  IN  /\ loads[p].busy /\ loads[p].opened
      /\ Len(got) < Len(cells)
      /\ loads' = [loads EXCEPT ![p].got =
                     got \o SubSeq(cells, Len(got) + 1, upto)]
      /\ UNCHANGED <<schema, file, pages, saves, answers, ghosts, faults>>

(* Mutant of AtEnd: waits for the closing tag.                             *)
AtClosingTag(p) ==
  LET got == loads[p].got
  IN  loads[p].busy /\ (loads[p].opened => got # <<>> /\ got[Len(got)] = End)

(* read() returns -1, or there was no file to open.                        *)
AtEnd(p) ==
  loads[p].busy /\ (loads[p].opened => Len(loads[p].got) >= Len(cells))

(* Mutant of Parses: an empty file stands for no filters.                  *)
ParsesEmpty(p) ==
  loads[p].opened => (loads[p].got = <<>> \/ Readable(loads[p].got))

Parses(p) == loads[p].opened => Readable(loads[p].got)

(* FilterConfigurationFile.getFilters; no file stands for no filters.      *)
Loaded(p) == IF loads[p].opened THEN Document(loads[p].got) ELSE <<>>

-----------------------------------------------------------------------------
(* The configuration page *)

(* LayerFilterConfigurationPage's constructor: the schema is read first.   *)
OpenPage(a) ==
  /\ ~loads[a].busy /\ ~saves[a].open
  /\ BeginLoad(a, "page")
  /\ pages' = [pages EXCEPT ![a] = ClosedPage]
  /\ UNCHANGED <<schema, file, saves, answers, ghosts, faults>>

PageOpens(a) ==
  /\ AtEnd(a) /\ Parses(a)
  /\ pages' = [pages EXCEPT ![a] =
                 ShownPage(Merge(SchemaFilters(loads[a].schema), Loaded(a)))]
  /\ loads' = [loads EXCEPT ![a] = NoLoad]
  /\ UNCHANGED <<schema, file, saves, answers, ghosts, faults>>

(* Mutant of PageFails: the page falls back to the schema's filters.       *)
PageFallsBack(a) ==
  /\ AtEnd(a) /\ ~Parses(a)
  /\ pages' = [pages EXCEPT ![a] = ShownPage(SchemaFilters(loads[a].schema))]
  /\ loads' = [loads EXCEPT ![a] = NoLoad]
  /\ UNCHANGED <<schema, file, saves, answers, ghosts, faults>>

(* "Could not parse saved filter configuration".                           *)
PageFails(a) ==
  /\ AtEnd(a) /\ ~Parses(a)
  /\ loads' = [loads EXCEPT ![a] = NoLoad]
  /\ UNCHANGED <<schema, file, pages, saves, answers, ghosts, faults>>

Cancel(a) ==
  /\ pages[a].open /\ ~saves[a].open
  /\ pages' = [pages EXCEPT ![a] = ClosedPage]
  /\ UNCHANGED <<schema, file, saves, loads, answers, ghosts, faults>>

(* Wicket sets every field of a row from the form; an emptied text field   *)
(* sets null.                                                              *)
ApplyRow(f, input) ==
  [f EXCEPT !.enabled = input.enabled, !.type = input.type,
            !.label = input.label, !.visualised = ~input.notVisualised,
            !.excludedFromDownload = input.excluded]

ApplyForm(filters, inputs) ==
  [i \in DOMAIN filters |-> ApplyRow(filters[i], inputs[i])]

EnabledEntries(filters) ==
  {WriteFilter(filters[i]) : i \in {j \in DOMAIN filters : filters[j].enabled}}

-----------------------------------------------------------------------------
(* Saving *)

UpToTwo(n) == IF n > 2 THEN 2 ELSE n

(* The number of elements of S, counted to two.                            *)
CountToTwo(S) == IF S = {} THEN 0 ELSE IF \E x \in S : S = {x} THEN 1 ELSE 2

(* The history a write of the file leaves: its content is now text.        *)
Observe(text) ==
  offered' = [r \in Requests |->
                IF ~loads[r].busy THEN offered[r]
                ELSE IF overlaps'[r] > 1 THEN {}
                ELSE offered[r] \cup {Held(TRUE, text)}]

(* Mutant of Submit: the file is overwritten, not truncated.               *)
SubmitOverwrites(a, inputs) ==
  LET filters == ApplyForm(pages[a].filters, inputs)
  IN  /\ pages[a].open /\ ~saves[a].open
      /\ pages' = [pages EXCEPT ![a] = ShownPage(filters)]
      /\ exists' = TRUE
      /\ saves' = [saves EXCEPT ![a] = [NoSave EXCEPT !.open = TRUE]]
      /\ submitted' = submitted \cup EnabledEntries(filters)
      /\ overlaps' = [r \in Requests |->
                        IF loads[r].busy THEN UpToTwo(overlaps[r] + 1)
                        ELSE overlaps[r]]
      /\ Observe(cells)
      /\ UNCHANGED <<schema, cells, loads, answers, faults>>

(* onSubmit: new FileWriter truncates the file before anything is written. *)
Submit(a, inputs) ==
  LET filters == ApplyForm(pages[a].filters, inputs)
  IN  /\ pages[a].open /\ ~saves[a].open
      /\ pages' = [pages EXCEPT ![a] = ShownPage(filters)]
      /\ exists' = TRUE
      /\ cells' = <<>>
      /\ saves' = [saves EXCEPT ![a] = [NoSave EXCEPT !.open = TRUE]]
      /\ submitted' = submitted \cup EnabledEntries(filters)
      /\ overlaps' = [r \in Requests |->
                        IF loads[r].busy THEN UpToTwo(overlaps[r] + 1)
                        ELSE overlaps[r]]
      /\ Observe(<<>>)
      /\ UNCHANGED <<schema, loads, answers, faults>>

(* new FileWriter throws an IOException.                                   *)
SubmitFails(a, inputs) ==
  /\ pages[a].open /\ ~saves[a].open
  /\ faults < MaxFaults
  /\ faults' = faults + 1
  /\ pages' = [pages EXCEPT ![a] =
                 ShownPage(ApplyForm(pages[a].filters, inputs))]
  /\ UNCHANGED <<schema, file, saves, loads, answers, ghosts>>

(* Mutant of NextEnabled: the predicate is not applied.                    *)
NextFilter(a, i) == i = saves[a].next /\ i <= Len(pages[a].filters)

(* Mutant of NextEnabled: the last filter is left out.                     *)
NextButLast(a, i) ==
  LET filters == pages[a].filters
  IN  /\ i \in saves[a].next..(Len(filters) - 1)
      /\ filters[i].enabled
      /\ \A j \in saves[a].next..(i - 1) : ~filters[j].enabled

(* getEnabledFilters: i is the next filter the template's <#list> is at.   *)
NextEnabled(a, i) ==
  LET filters == pages[a].filters
  IN  /\ i \in saves[a].next..Len(filters)
      /\ filters[i].enabled
      /\ \A j \in saves[a].next..(i - 1) : ~filters[j].enabled

(* The cell that the template writes for a filter.                         *)
Element(f) == IF WellFormed(WriteFilter(f)) THEN WriteFilter(f) ELSE Garbage

WriteCell(a, cell) ==
  /\ cells' = Overlay(cells, saves[a].pos, cell)
  /\ UNCHANGED <<schema, exists, pages, loads, answers, submitted, overlaps,
                 faults>>
  /\ Observe(cells')

Emit(a, i) ==
  /\ saves[a].open /\ NextEnabled(a, i)
  /\ Writable(pages[a].filters[i])
  /\ WriteCell(a, Element(pages[a].filters[i]))
  /\ saves' = [saves EXCEPT ![a] = [open |-> TRUE, next |-> i + 1,
                                     pos |-> @.pos + 1]]

(* Mutant of FailTemplate: the writer is not closed.                       *)
FailTemplateOpen(a, i) ==
  /\ saves[a].open /\ NextEnabled(a, i)
  /\ ~Writable(pages[a].filters[i])
  /\ WriteCell(a, Garbage)
  /\ UNCHANGED saves

(* The template fails inside an element; closing the writer flushes what   *)
(* it wrote up to there.                                                   *)
FailTemplate(a, i) ==
  /\ saves[a].open /\ NextEnabled(a, i)
  /\ ~Writable(pages[a].filters[i])
  /\ WriteCell(a, Garbage)
  /\ saves' = [saves EXCEPT ![a] = NoSave]

CloseSave(a) ==
  /\ saves[a].open
  /\ \A i \in saves[a].next..Len(pages[a].filters) : ~NextEnabled(a, i)
  /\ WriteCell(a, End)
  /\ saves' = [saves EXCEPT ![a] = NoSave]

(* An IOException while writing: what was written stays.                   *)
AbortSave(a) ==
  /\ saves[a].open
  /\ faults < MaxFaults
  /\ faults' = faults + 1
  /\ saves' = [saves EXCEPT ![a] = NoSave]
  /\ UNCHANGED <<schema, file, pages, loads, answers, ghosts>>

-----------------------------------------------------------------------------
(* The services *)

StartRequest(r, kind) ==
  /\ ~loads[r].busy
  /\ BeginLoad(r, kind)
  /\ answers' = [answers EXCEPT ![r] = NoAnswer]
  /\ offered' = [offered EXCEPT ![r] = {Held(exists, cells)}]
  /\ overlaps' = [overlaps EXCEPT ![r] =
                    CountToTwo({a \in Admins : saves[a].open})]
  /\ UNCHANGED <<schema, file, pages, saves, submitted, faults>>

Answer(r, answer) ==
  /\ answers' = [answers EXCEPT ![r] = answer]
  /\ loads' = [loads EXCEPT ![r] = NoLoad]
  /\ offered' = [offered EXCEPT ![r] = {}]
  /\ overlaps' = [overlaps EXCEPT ![r] = 0]
  /\ UNCHANGED <<schema, file, pages, saves, submitted, faults>>

(* FiltersDocument.appendFilter calls getVisualised().toString(), and the  *)
(* document cannot be written with a text node of null in it.              *)
Listable(filters) ==
  \A i \in DOMAIN filters :
    /\ filters[i].visualised # NULL /\ filters[i].type # NULL
    /\ filters[i].extras \cap Valueless = {}

(* enabledFilters *)
AnswerFilters(r) ==
  /\ AtEnd(r) /\ Parses(r) /\ loads[r].kind = "filters"
  /\ Listable(Loaded(r))
  /\ Answer(r, [NoAnswer EXCEPT !.status = "filters", !.filters = Loaded(r)])

(* csv-restricted-column *)
AnswerColumns(r) ==
  /\ AtEnd(r) /\ Parses(r) /\ loads[r].kind = "columns"
  /\ Answer(r, [NoAnswer EXCEPT
                  !.status = "columns",
                  !.columns = {loads[r].schema[i] : i \in DOMAIN loads[r].schema}
                                \ ExcludedNames(Loaded(r))])

AnswerFails(r) ==
  /\ AtEnd(r)
  /\ ~(Parses(r) /\ (loads[r].kind = "filters" => Listable(Loaded(r))))
  /\ Answer(r, FailedAnswer)

-----------------------------------------------------------------------------
(* Surroundings *)

(* The table is altered under the layer.                                   *)
AlterSchema ==
  /\ schema' \in Schemas \ {schema}
  /\ UNCHANGED <<file, pages, saves, loads, answers, ghosts, faults>>

(* The JVM dies: sessions, running saves and requests are gone.            *)
Crash ==
  /\ faults < MaxFaults
  /\ faults' = faults + 1
  /\ pages' = [a \in Admins |-> ClosedPage]
  /\ saves' = [a \in Admins |-> NoSave]
  /\ loads' = [p \in Readers |-> NoLoad]
  /\ answers' = [r \in Requests |->
                   IF loads[r].busy THEN FailedAnswer ELSE answers[r]]
  /\ offered' = [r \in Requests |-> {}]
  /\ overlaps' = [r \in Requests |-> 0]
  /\ UNCHANGED <<schema, file, submitted>>

-----------------------------------------------------------------------------
Init ==
  /\ schema \in Schemas
  /\ \/ exists = FALSE /\ cells = <<>>
     \/ exists = TRUE /\ cells \in InitialFiles
  /\ pages = [a \in Admins |-> ClosedPage]
  /\ saves = [a \in Admins |-> NoSave]
  /\ loads = [p \in Readers |-> NoLoad]
  /\ answers = [r \in Requests |-> NoAnswer]
  /\ submitted = {cells[i] : i \in DOMAIN cells} \cap Entry
  /\ offered = [r \in Requests |-> {}]
  /\ overlaps = [r \in Requests |-> 0]
  /\ faults = 0

LoadStep(p) ==
  \/ ReadMore(p)
  \/ p \in Admins /\ (PageOpens(p) \/ PageFails(p))
  \/ p \in Requests /\ (AnswerFilters(p) \/ AnswerColumns(p) \/ AnswerFails(p))

SaveStep(a) ==
  \/ \E i \in DOMAIN pages[a].filters : Emit(a, i) \/ FailTemplate(a, i)
  \/ CloseSave(a)

AdminStep(a) ==
  \/ OpenPage(a)
  \/ Cancel(a)
  \/ \E inputs \in [DOMAIN pages[a].filters -> RowInputs] :
       Submit(a, inputs) \/ SubmitFails(a, inputs)
  \/ SaveStep(a)
  \/ AbortSave(a)

Next ==
  \/ \E a \in Admins : AdminStep(a)
  \/ \E r \in Requests, kind \in {"filters", "columns"} : StartRequest(r, kind)
  \/ \E p \in Readers : LoadStep(p)
  \/ AlterSchema
  \/ Crash

Spec == Init /\ [][Next]_vars

(* A thread that loads or saves runs to the end of its request; nothing    *)
(* makes anybody open a page, submit it or send a request.                 *)
Fairness ==
  /\ \A p \in Readers : WF_vars(LoadStep(p))
  /\ \A a \in Admins : WF_vars(SaveStep(a))

FairSpec == Spec /\ Fairness

-----------------------------------------------------------------------------
(* Properties *)

PageRecord == [open: BOOLEAN, filters: Seq(Filter)]
SaveRecord == [open: BOOLEAN, next: Nat, pos: Nat]
LoadRecord ==
  [busy: BOOLEAN, kind: {"none", "page", "filters", "columns"},
   opened: BOOLEAN, schema: Seq(Names), got: Seq(Cells)]
Contents == [readable: BOOLEAN, filters: Seq(Filter)]
AnswerRecord ==
  [status: {"none", "failed", "filters", "columns"}, filters: Seq(Filter),
   columns: SUBSET Names]

TypeOK ==
  /\ schema \in Schemas
  /\ exists \in BOOLEAN
  /\ cells \in Seq(Cells)
  /\ pages \in [Admins -> PageRecord]
  /\ saves \in [Admins -> SaveRecord]
  /\ loads \in [Readers -> LoadRecord]
  /\ answers \in [Requests -> AnswerRecord]
  /\ submitted \in SUBSET Entry
  /\ offered \in [Requests -> SUBSET Contents]
  /\ overlaps \in [Requests -> 0..2]
  /\ faults \in 0..MaxFaults

(* The service returns a filter only under the name of one that somebody   *)
(* enabled and submitted, or that the file held at the start: however      *)
(* saves and loads interleave, fail or are cut short, no filter that was   *)
(* never enabled is returned.  README, "For a filter to be returned it     *)
(* must first be enabled".                                                 *)
OnlyEnabledServed ==
  \A r \in Requests : \A i \in DOMAIN answers[r].filters :
    \E e \in submitted : answers[r].filters[i].name = e.name

(* Every row of an open page has the fields its check boxes need, even     *)
(* when the saved file lacks them: LayerFilterForm's getVisualised()       *)
(* .booleanValue() and getEnabledFilters' getEnabled().booleanValue()      *)
(* never meet null, and the page shows the schema it loaded.               *)
PagesRender ==
  \A a \in Admins : pages[a].open =>
    /\ \E s \in Schemas :
         [i \in DOMAIN pages[a].filters |-> pages[a].filters[i].name] = s
    /\ \A i \in DOMAIN pages[a].filters :
         /\ pages[a].filters[i].visualised \in BOOLEAN
         /\ pages[a].filters[i].excludedFromDownload \in BOOLEAN

(* The columns that every configuration the file held while r ran excludes. *)
Hidden(r) ==
  {n \in Names : \A held \in offered[r] :
     held.readable => n \in ExcludedNames(held.filters)}

(* A csv-restricted-column download that at most one save overlaps leaves  *)
(* out every column that was configured as not available for download all  *)
(* the time the request took.  README, "excludes columns configured as not *)
(* available for download".                                                *)
ExclusionHonoured ==
  [][\A r \in Requests :
       loads[r].busy /\ answers'[r].status = "columns" /\ overlaps[r] <= 1
         => answers'[r].columns \cap Hidden(r) = {}]_vars

(* A request that no save overlaps is answered.  README, "An OWS service   *)
(* that returns the configured properties as XML".                         *)
ConfiguredFiltersReturned ==
  [][\A r \in Requests :
       loads[r].busy /\ answers'[r].status = "failed" => overlaps[r] > 0]_vars

(* When a save ends, the file reads back as the page that was submitted:   *)
(* its enabled filters with every field they have, and no other filter.    *)
SaveReadsBack ==
  [][\A a \in Admins :
       CloseSave(a) =>
         /\ Readable(cells')
         /\ \A i \in DOMAIN pages[a].filters :
              LET f == pages[a].filters[i]
              IN  FilterNamed(Document(cells'), f.name) =
                    IF f.enabled THEN [f EXCEPT !.label = GetLabel(f)]
                    ELSE NoSuchFilter]_vars

(* No tab can save any more, and what the loads of tabs have read is a     *)
(* prefix of a file that does not parse.                                   *)
Stuck ==
  /\ exists /\ ~Readable(cells)
  /\ \A a \in Admins :
       /\ ~pages[a].open /\ ~saves[a].open
       /\ loads[a].busy =>
            /\ loads[a].opened
            /\ Len(loads[a].got) <= Len(cells)
            /\ loads[a].got = SubSeq(cells, 1, Len(loads[a].got))

(* A file left unreadable with no page open is never repaired through the  *)
(* configuration page: its constructor fails on the file it would rewrite. *)
BrokenFileStaysBroken == [][Stuck => Stuck']_vars

(* Every request is answered, however often the file is rewritten while it *)
(* is read.                                                                *)
RequestsAnswered ==
  \A r \in Requests : loads[r].busy ~> answers[r].status # "none"

(* Every save comes to an end, also when the template fails or tabs write  *)
(* at the same time.                                                       *)
SavesEnd == \A a \in Admins : saves[a].open ~> ~saves[a].open

=============================================================================
