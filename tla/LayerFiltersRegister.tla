------------------------ MODULE LayerFiltersRegister ------------------------
(* What the file of LayerFilters promises its readers while one tab uses   *)
(* the configuration page: it implements FilterRegister.                   *)
EXTENDS LayerFilters, Ordered

Writing == {a \in Admins : saves[a].open}

(* The configuration a page stands for: its enabled filters, as they will  *)
(* be read back.                                                           *)
Saved(filters) ==
  LET on == At(filters, {i \in DOMAIN filters : filters[i].enabled})
  IN  Configuration([i \in DOMAIN on |->
                       [on[i] EXCEPT !.label = GetLabel(on[i])]])

(* What the two services answer from a content of the file.                *)
ServiceView(question, held) ==
  LET excluded == ExcludedNames(held.filters)
      attributes == question.schema
  IN  IF ~held.readable THEN FailedAnswer
      ELSE IF question.kind = "columns"
      THEN [NoAnswer EXCEPT !.status = "columns",
              !.columns = {attributes[i] : i \in DOMAIN attributes} \ excluded]
      ELSE IF Listable(held.filters)
      THEN [NoAnswer EXCEPT !.status = "filters", !.filters = held.filters]
      ELSE FailedAnswer

Register ==
  INSTANCE FilterRegister WITH
    Configurations <- {held \in Contents : held.readable},
    Unreadable <- Unreadable,
    Pages <- Seq(Filter),
    NoPage <- <<>>,
    Stored <- Saved,
    Questions <- [kind: {"filters", "columns"}, schema: Schemas],
    Answers <- AnswerRecord,
    NoAnswer <- NoAnswer,
    Failed <- FailedAnswer,
    View <- ServiceView,
    content <- Held(exists, cells),
    write <- IF Writing = {} THEN [open |-> FALSE, page |-> <<>>]
             ELSE [open |-> TRUE,
                   page |-> pages[CHOOSE a \in Writing : TRUE].filters],
    requests <- [r \in Requests |->
                   [busy |-> loads[r].busy,
                    question |-> [kind |-> loads[r].kind,
                                  schema |-> loads[r].schema]]],
    offered <- offered,
    overlaps <- overlaps,
    answers <- answers

(* The file, its loads and its saves implement a register with one writer: *)
(* a request that at most one save overlaps answers what one content of    *)
(* the file, of those it had while the request ran, answers; a save makes  *)
(* the file unreadable, and then the page's configuration or nothing.      *)
(* FilterConfigurationFile has no lock that would say so.                  *)
IsRegister == Register!Spec

=============================================================================
