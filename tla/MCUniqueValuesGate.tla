------------------------- MODULE MCUniqueValuesGate -------------------------
(* Two threads, two regexes, of which one matches one of two targets.      *)
EXTENDS UniqueValuesGate

CONSTANTS argo, moorings, argoRegex, otherRegex

MCRegexes == <<otherRegex, argoRegex>>
MCMatches == {<<argo, argoRegex>>}

=============================================================================
