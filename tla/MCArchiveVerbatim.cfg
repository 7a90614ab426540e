\* Finding: a header value that is not UTF-8 does not survive a document.
SPECIFICATION Spec
CONSTANTS
  Transactions <- MCTransactions
  Sessions = {live, b}
  Live = live
  Empty = Empty
  Globs <- MCGlobs
  PageSize = 1
  MaxMem = 2
  MaxRows = 3
  MaxIds = 3
INVARIANT HeadersVerbatim
