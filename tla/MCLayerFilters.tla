--------------------------- MODULE MCLayerFilters ---------------------------
(* Small instances of LayerFilters: a table with two attributes.           *)
EXTENDS LayerFiltersRegister

CONSTANTS depth, temp, string, date, plain, markup, default, values,
          options

MCNames == {depth, temp}

(* The form of a row.  Most instances leave type and "not visualised" as   *)
(* they are.                                                               *)
Row(enabled, excluded) ==
  [enabled |-> enabled, type |-> string, label |-> plain,
   notVisualised |-> FALSE, excluded |-> excluded]

PlainRows == {Row(FALSE, FALSE), Row(TRUE, FALSE), Row(TRUE, TRUE)}

RoughRows ==
  {Row(FALSE, TRUE),
   [Row(TRUE, FALSE) EXCEPT !.type = markup, !.label = markup],
   [Row(TRUE, FALSE) EXCEPT !.type = NULL, !.label = NULL]}

Elem(n, excluded) ==
  [name |-> n, type |-> string, label |-> plain, visualised |-> TRUE,
   excludedFromDownload |-> excluded, extras |-> {}]

(* A file edited by hand: a <values> child, and no <label> or <visualised>. *)
HandEdited ==
  [Elem(temp, TRUE) EXCEPT !.extras = {values}, !.label = NULL,
                           !.visualised = NULL]

(* Extras that the template cannot write: one with '&amp;' in its text,    *)
(* and one that begins with an element of its own.                         *)
Extra(extra) == [Elem(temp, TRUE) EXCEPT !.extras = {extra}]

OneSchema == {<<depth, temp>>}
OneAttribute == {<<temp>>}
TwoSchemas == {<<depth, temp>>, <<temp>>}

PlainFiles ==
  {<<Elem(depth, FALSE), Elem(temp, TRUE), End>>, <<Elem(temp, TRUE), End>>}
ValuesFile ==
  {<<[Elem(temp, TRUE) EXCEPT !.extras = {values}], End>>}
SavedFiles ==
  {<<Elem(depth, FALSE), Elem(temp, TRUE), End>>} \cup ValuesFile
RoughFiles ==
  {<<HandEdited, End>>, <<Elem(depth, FALSE), Extra(markup), End>>,
   <<Extra(options), End>>}

=============================================================================
