-------------------------- MODULE MCRestrictedCsv --------------------------
(* Three columns and a link between them.  The columns' names are the same *)
(* in all three forms, except for column c.  Two workspaces have a layer   *)
(* of the same name, the other one of which excludes b, and one has a      *)
(* layer more.                                                             *)
EXTENDS RestrictedCsv, TLC

CONSTANTS a, b, c, link, prefixed, qualified, imos, aodn, other

MCColumns == {a, b, c, link}
MCLinks   == {link}

MCLocalName   == [x \in MCColumns |-> x]
MCElementName == [x \in MCColumns |-> IF x = c THEN prefixed ELSE x]
MCFullName    == [x \in MCColumns |-> IF x = c THEN qualified ELSE x]

MCSchemas == {<<a, b>>, <<a, b, c>>, <<b, link, a>>, <<c>>}

MCLayers    == {imos, aodn, other}
MCLayerName == (imos :> "argo") @@ (aodn :> "argo") @@ (other :> "other")

MCExclusions ==
  {[l \in MCLayers |-> IF l = imos THEN e ELSE IF l = aodn THEN {b} ELSE {}] :
     e \in SUBSET {a, b, c, prefixed, qualified}}

=============================================================================
