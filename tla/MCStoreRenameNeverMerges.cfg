\* Finding: two processes share the durable store; a rename merges sessions.
SPECIFICATION Spec
CONSTANTS
  Writers = {w1, w2}
  Readers = {}
  Sessions = {a, b}
  ChildTables = {headers, cookies}
  PoolSize = 1
  MaxImport = 2
  MaxId = 4
  MaxWrites = 3
  MaxReads = 1
SYMMETRY StoreSymmetry
PROPERTY RenameNeverMerges
