------------------------------- MODULE MCRepl -------------------------------
(* Small instances of Repl for TLC.  No symmetry: the run has a liveness    *)
(* property.                                                               *)
EXTENDS Repl
=============================================================================
