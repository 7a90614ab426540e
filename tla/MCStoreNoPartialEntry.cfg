\* Finding: a reader races a delete and returns an entry without child rows.
SPECIFICATION Spec
CONSTANTS
  Writers = {w1}
  Readers = {r1}
  Sessions = {a, b}
  ChildTables = {headers, cookies}
  PoolSize = 1
  MaxImport = 2
  MaxId = 4
  MaxWrites = 3
  MaxReads = 1
SYMMETRY StoreSymmetry
INVARIANT NoPartialEntry
