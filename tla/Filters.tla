------------------------------ MODULE Filters ------------------------------
(***************************************************************************)
(* Layer filters as values: the bean Filter, how FilterMerge combines a    *)
(* layer's schema with its saved configuration, what the Freemarker        *)
(* template writes for a filter and what FilterParser reads back.          *)
(*                                                                         *)
(* A text is an opaque value: what the parser makes of an element.  The    *)
(* only property of a text that is kept is whether it holds characters     *)
(* that XML reserves, because the template writes every text unescaped.    *)
(* An extra, a child of <filter> whose tag is not one of the known five,   *)
(* stands for its tag with its text.                                       *)
(***************************************************************************)
EXTENDS Naturals, Sequences

CONSTANTS
  Names,          \* attribute names, the texts of a <name>
  Types,          \* texts of a <type>
  Labels,         \* texts of a <label>
  ExtraTags,      \* extras
  Markup,         \* the texts, and the extras, with a '<' or '&' in them
  Valueless,      \* the extras whose value is null: they begin with an element
  SchemaType,     \* the type FilterTypeMapper gives an attribute
  DefaultLabel,   \* the label Filter derives from a name
  NULL            \* Java's null

ASSUME FiltersAssumption ==
  /\ SchemaType \in Types
  /\ DefaultLabel \in Labels
  /\ SchemaType \notin Markup /\ DefaultLabel \notin Markup
  /\ Valueless \subseteq ExtraTags
  /\ NULL \notin Names \cup Types \cup Labels \cup BOOLEAN

Filter ==
  [name: Names, type: Types \cup {NULL}, label: Labels \cup {NULL},
   enabled: BOOLEAN, visualised: BOOLEAN \cup {NULL},
   excludedFromDownload: BOOLEAN \cup {NULL}, extras: SUBSET ExtraTags]

(* A <filter> element of filters.xml; NULL is a child that is not there.   *)
(* No element says whether the filter is enabled: being there says so.     *)
Entry ==
  [name: Names, type: Types \cup {NULL}, label: Labels \cup {NULL},
   visualised: BOOLEAN \cup {NULL},
   excludedFromDownload: BOOLEAN \cup {NULL}, extras: SUBSET ExtraTags]

NoSuchFilter == NULL   \* what HashMap.get returns for an unknown name

(* Filter(String name, String type), as LayerPropertiesReader calls it for *)
(* an attribute of the schema.                                             *)
NewFilter(n) ==
  [name |-> n, type |-> SchemaType, label |-> NULL, enabled |-> FALSE,
   visualised |-> TRUE, excludedFromDownload |-> FALSE, extras |-> {}]

GetLabel(f) == IF f.label # NULL THEN f.label ELSE DefaultLabel

Coalesce(a, b) == IF a = NULL THEN b ELSE a

(* Mutant of MergeFilter: visualised is the right filter's even if null.    *)
MergeFilterNullable(left, other) ==
  LET right == Coalesce(other, left)
  IN  [right EXCEPT !.type = Coalesce(@, left.type), !.label = GetLabel(right)]

(* Filter.merge: every field prefers the right filter, except that extras  *)
(* are the right filter's whatever they are.                               *)
MergeFilter(left, other) ==
  LET right == Coalesce(other, left)
  IN  [name                 |-> Coalesce(right.name, left.name),
       type                 |-> Coalesce(right.type, left.type),
       label                |-> Coalesce(GetLabel(right), GetLabel(left)),
       enabled              |-> Coalesce(right.enabled, left.enabled),
       visualised           |-> Coalesce(right.visualised, left.visualised),
       excludedFromDownload |-> Coalesce(right.excludedFromDownload,
                                         left.excludedFromDownload),
       extras               |-> right.extras]

(* FilterMerge.map followed by get: of several filters with one name the   *)
(* last one put into the map is found.                                     *)
FilterNamed(filters, n) ==
  LET hits == {i \in DOMAIN filters : filters[i].name = n}
  IN  IF hits = {} THEN NoSuchFilter
      ELSE filters[CHOOSE i \in hits : \A j \in hits : j <= i]

(* FilterMerge.merge: one filter per filter on the left, in its order.     *)
Merge(leftList, rightList) ==
  [i \in DOMAIN leftList |->
     MergeFilter(leftList[i], FilterNamed(rightList, leftList[i].name))]

(* LayerPropertiesReader.buildFilters.                                     *)
SchemaFilters(attributes) == [i \in DOMAIN attributes |-> NewFilter(attributes[i])]

(* Mutant of ParseFilter: parse() does not set enabled.                    *)
ParseFilterUnset(entry) ==
  [name |-> entry.name, type |-> entry.type, label |-> entry.label,
   enabled |-> NULL, visualised |-> entry.visualised,
   excludedFromDownload |-> entry.excludedFromDownload,
   extras |-> entry.extras]

(* FilterParser.parse: a filter that is in the file is enabled, and a      *)
(* child that is missing leaves its field null.                            *)
ParseFilter(entry) ==
  [name |-> entry.name, type |-> entry.type, label |-> entry.label,
   enabled |-> TRUE, visualised |-> entry.visualised,
   excludedFromDownload |-> entry.excludedFromDownload,
   extras |-> entry.extras]

(* ${...} on a null stops the template with an InvalidReferenceException.  *)
Writable(f) ==
  /\ f.type # NULL /\ f.visualised # NULL /\ f.excludedFromDownload # NULL
  /\ f.extras \cap Valueless = {}

(* What the body of the template's <#list> writes for one filter.          *)
WriteFilter(f) ==
  [name |-> f.name, type |-> f.type, label |-> GetLabel(f),
   visualised |-> f.visualised,
   excludedFromDownload |-> f.excludedFromDownload, extras |-> f.extras]

(* The template writes every text as it is, so an element with a text that *)
(* holds markup characters is not well-formed XML when it is written.      *)
WellFormed(entry) ==
  ({entry.name, entry.type, entry.label} \cup entry.extras) \cap Markup = {}

(* The columns RestrictedColumnCsvOutputFormat leaves out.                 *)
ExcludedNames(filters) ==
  {filters[i].name : i \in {j \in DOMAIN filters :
                              filters[j].excludedFromDownload = TRUE}}

=============================================================================
