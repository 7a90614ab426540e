\* Two entries in memory, up to three stored, in two sessions.
SPECIFICATION Spec
CONSTANTS
  Transactions <- MCTransactions
  Sessions = {live, b}
  Live = live
  Empty = Empty
  Globs <- MCGlobs
  PageSize = 1
  MaxMem = 2
  MaxRows = 3
  MaxIds = 3
INVARIANTS
  BodiesSurvive
  HeadersSurvive
  FingerprintFollows
  QueriesExact
  PagesComplete
