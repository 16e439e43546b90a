--------------------------- MODULE MCUniqueValues ---------------------------
(* Two layers of one store: one shows a view that is edited, also to a bad *)
(* one and to the table instead, the other a view that hides the table, if *)
(* it is not bad.  Two dates are in the same second.                       *)
EXTENDS UniqueValues

CONSTANTS sites, platforms, table, view, old, new, bad

MCLayers == {sites, platforms}

Shows(name, sql) == [name |-> name, sql |-> sql]

MCDefinitions == [layer \in MCLayers |->
  IF layer = sites
  THEN {Shows(view, old), Shows(view, new), Shows(view, bad), Shows(table, NULL)}
  ELSE {Shows(table, old), Shows(table, bad)}]

MCValues == [source \in {table, old, new, bad} |->
  CASE source = table -> {1, 2, NULL}
    [] source = old -> {4, 5, 9}
    [] source = new -> {3, NULL}
    [] OTHER -> {}]

=============================================================================
