------------------------------ MODULE MCRootCA ------------------------------
(* Small instances of RootCA for TLC.                                      *)
EXTENDS RootCA
=============================================================================
