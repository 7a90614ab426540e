------------------------------- MODULE MCMirror -------------------------------
(* Small instances of Mirror for TLC.  No symmetry: the run has a liveness    *)
(* property.                                                               *)
EXTENDS Mirror
=============================================================================
