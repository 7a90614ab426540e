------------------------------ MODULE MCH2Conn ------------------------------
(* Small instances of H2Conn for TLC.                                      *)
EXTENDS H2Exchange, TLC

\* The streams are interchangeable: nothing in ServeHTTP2 compares their ids.
StreamSymmetry == Permutations(Streams)
=============================================================================
