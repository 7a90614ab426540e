------------------------------ MODULE MCStore -------------------------------
(* Small instances of Store for TLC.                                       *)
EXTENDS Store, TLC

\* Sessions and child tables are interchangeable.
StoreSymmetry ==
  Permutations(Sessions) \union Permutations(ChildTables)
=============================================================================
