\* One writer (the REPL) and one reader on a single connection.
SPECIFICATION FairSpec
CONSTANTS
  Writers = {w1}
  Readers = {r1}
  Sessions = {a, b}
  ChildTables = {headers, cookies}
  PoolSize = 1
  MaxImport = 2
  MaxId = 3
  MaxWrites = 3
  MaxReads = 1
INVARIANTS
  TypeOK
  RowsWhole
  ReadsFaithful
  SaveOverwrites
PROPERTIES
  ImplementsSessionStore
  OperationsEnd
