------------------------------ MODULE MCTunnel ------------------------------
(* A small instance of Tunnel for TLC.                                     *)
EXTENDS Tunnel, TLC

CONSTANTS c1, c2

R(m, hs, n, ch) ==
  [id |-> 0, method |-> m, headers |-> hs, body |-> n, chunked |-> ch]

\* A HEAD; a form with headers before, between and after Host and Content-Length;
\* a chunk and a trailer.
MCShapes ==
  { [req |-> R("HEAD", <<Piece("host", 0)>>, 0, FALSE), trailers |-> 0],
    [req |-> R("POST", <<Piece("x", 1), Piece("x", 2), Piece("host", 0),
                         Piece("content-type", 1), Piece("content-length", 1),
                         Piece("origin", 1)>>, 1, FALSE), trailers |-> 0],
    [req |-> R("GET", <<Piece("host", 0), Piece("transfer-encoding", 0)>>, 1, TRUE),
     trailers |-> 1] }

\* The length declared to HEAD is not that of the body that comes.
MCOrigin ==
  { [ok |-> TRUE, headers |-> <<Piece("content-length", 1), Piece("content-type", 1)>>,
     body |-> 1] }

\* One connection with two requests, and one that only shakes hands.
MCMaxReqs == c1 :> 2 @@ c2 :> 0
=============================================================================
