SPECIFICATION FairSpec

CONSTANTS
  argo = argo
  moorings = moorings
  argoRegex = argoRegex
  otherRegex = otherRegex
  NULL = NULL
  Threads = {t1, t2}
  Regexes <- MCRegexes
  Targets = {argo, moorings}
  Matches <- MCMatches
  MaxSlots = 4

INVARIANTS
  TypeOK
  SoloLoadExact
  MatchesAreConfigured

PROPERTIES
  WarmIsForever
  RequestsDecided
