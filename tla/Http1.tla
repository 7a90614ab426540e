------------------------------- MODULE Http1 --------------------------------
(***************************************************************************)
(* The HTTP/1.1 request parser (internal/capture/capture.go) and the       *)
(* request it is mirrored as (internal/upstream, buildRequest), as         *)
(* operators.                                                              *)
(*                                                                         *)
(* A client's byte stream is the sequence of the pieces the parser cuts it *)
(* into: request lines, header lines, blank lines, body octets, chunks     *)
(* (size line, one octet, line end) and last chunks.  A request line is of *)
(* the kind of its method, a header line of the kind of its name.  A piece *)
(* has a number v: which request a line opens, the value of a header.      *)
(***************************************************************************)
EXTENDS Order, SequencesExt

CONSTANT OtherNames  \* header names without a part in framing a message

Piece(k, v) == [kind |-> k, v |-> v]

\* POST stands for the methods with which the length of an empty body is sent.
Methods == {"GET", "HEAD", "POST"}

\* fhttp writes these itself; Transfer-Encoding is chunked.
Framing == {"host", "content-length", "transfer-encoding"}

HeaderNames == Framing \union {"connection"} \union OtherNames

BodyKinds == {"blank", "octet", "chunk", "last"}

ASSUME NamesAssumption ==
  /\ "content-type" \in OtherNames
  /\ OtherNames \intersect (Framing \union {"connection"} \union Methods \union BodyKinds) = {}

Pieces == [kind : HeaderNames \union Methods \union BodyKinds, v : Nat]

\* The captured request: chunked as hasChunked says, body its length.
Request ==
  [id : Nat, method : Methods, headers : Seq(Pieces), body : Nat, chunked : BOOLEAN]

\* The first piece of q of one of the kinds K, at or after from, or 0.
First(q, from, K) == SelectInSubSeq(q, from, Len(q), LAMBDA p : p.kind \in K)

-----------------------------------------------------------------------------
(* Reading.  A reader has read up to piece end, needs more input, or fails. *)

Got(end, body) == [st |-> "ok", end |-> end, body |-> body]
More == [st |-> "more", end |-> 0, body |-> 0]
Bad  == [st |-> "bad", end |-> 0, body |-> 0]

\* What a reader that ran out of input makes of the end of the stream.
Short(eof) == IF eof THEN Bad ELSE More

hasChunked(hs) == First(hs, 1, {"transfer-encoding"}) # 0

\* The first Content-Length counts; without one there is no body.
contentLength(hs) ==
  LET i == First(hs, 1, {"content-length"}) IN IF i = 0 THEN 0 ELSE hs[i].v

\* parseRequestLine and readHeaders: a request line, then header lines up to a
\* blank one.
readHeaders(q, eof) ==
  LET e == First(q, 2, Methods \union BodyKinds)
  IN  IF q # <<>> /\ q[1].kind \notin Methods THEN Bad
      ELSE IF e = 0 THEN Short(eof)
      ELSE IF q[e].kind = "blank" THEN Got(e, 0) ELSE Bad

\* Mutant: the trailer section is left on the reader.
MutReadChunked(q, eof) ==
  LET z == First(q, 1, {"last"}) IN IF z = 0 THEN Short(eof) ELSE Got(z, z - 1)

\* readChunked: chunks up to the last one, then lines up to a blank one; there
\* the end of the stream is as good.
readChunked(q, eof) ==
  LET z == First(q, 1, Methods \union {"last", "blank", "octet"} \union HeaderNames)
      e == First(q, z + 1, {"blank"})
  IN  IF z = 0 THEN Short(eof)
      ELSE IF q[z].kind # "last" THEN Bad
      ELSE IF e # 0 THEN Got(e, z - 1)
      ELSE IF eof THEN Got(Len(q), z - 1) ELSE More

\* Mutant: a body counts as whole only when something follows it.
MutReadBody(q, hs, eof) ==
  LET n == contentLength(hs)
  IN  IF hasChunked(hs) THEN readChunked(q, eof)
      ELSE IF n < Len(q) THEN Got(n, n) ELSE Short(eof)

\* readBody: chunked before Content-Length, and a body may not end early.
readBody(q, hs, eof) ==
  LET n == contentLength(hs)
  IN  IF hasChunked(hs) THEN readChunked(q, eof)
      ELSE IF n <= Len(q) THEN Got(n, n) ELSE Short(eof)

-----------------------------------------------------------------------------
(* Writing, by the client (external): request r with the framing its       *)
(* headers declare, and t trailer lines after a chunked body.              *)

Copies(p, n) == [i \in 1..n |-> p]

Encode(r, t) ==
  <<Piece(r.method, r.id)>> \o r.headers \o <<Piece("blank", 0)>>
    \o IF r.chunked
       THEN Copies(Piece("chunk", 0), r.body) \o <<Piece("last", 0)>>
              \o Copies(Piece("content-type", 0), t) \o <<Piece("blank", 0)>>
       ELSE Copies(Piece("octet", 0), r.body)

-----------------------------------------------------------------------------
(* The mirrored request.                                                   *)

\* framedByTransport: fhttp writes these itself.
framedByTransport(name, usedH2) ==
  name \in {"host", "transfer-encoding"} \/ (name = "content-length" /\ ~usedH2)

\* The values of header k, in order.
Values(hs, k) == At(hs, {i \in DOMAIN hs : hs[i].kind = k})

\* Mutant: chunked framing is collapsed to Content-Length.
MutBuildRequest(r, usedH2) ==
  [method |-> r.method, te |-> FALSE, length |-> r.body, body |-> r.body,
   order |-> [i \in DOMAIN r.headers |-> r.headers[i].kind],
   header |-> [k \in HeaderNames |->
     IF framedByTransport(k, usedH2) THEN <<>> ELSE Values(r.headers, k)]]

\* buildRequest: chunked framing is kept for an h1 client, else the length is
\* that of the body; every header name keeps its place in the order, and the
\* values the transport does not write itself go into the header map.
buildRequest(r, usedH2) ==
  LET te == ~usedH2 /\ r.chunked
  IN  [method |-> r.method, te |-> te, length |-> IF te THEN 0 ELSE r.body,
       body |-> r.body,
       order |-> [i \in DOMAIN r.headers |-> r.headers[i].kind],
       header |-> [k \in HeaderNames |->
         IF framedByTransport(k, usedH2) THEN <<>> ELSE Values(r.headers, k)]]

\* Whether fhttp sends a length (external).
SendsLength(hr) == ~hr.te /\ (hr.length > 0 \/ hr.method = "POST")

\* What fhttp's writer (external) writes for a name itself.  The number of the
\* Host and Transfer-Encoding pieces is not told apart.
Own(hr, k) ==
  CASE k = "host" -> <<Piece(k, 0)>>
    [] k = "transfer-encoding" /\ hr.te -> <<Piece(k, 0)>>
    [] k = "content-length" /\ SendsLength(hr) -> <<Piece(k, hr.length)>>
    [] OTHER -> <<>>

\* fhttp's writer (external): the values of a header together, at the first
\* place its name has in the order, its own values at theirs; what has no place
\* in the order comes at the end.
WriteHeaders(hr) ==
  LET at(i) ==
        IF \E j \in 1..(i - 1) : hr.order[j] = hr.order[i] THEN <<>>
        ELSE hr.header[hr.order[i]] \o Own(hr, hr.order[i])
      end(k) == IF \E i \in DOMAIN hr.order : hr.order[i] = k THEN <<>> ELSE Own(hr, k)
  IN  FlattenSeq([i \in DOMAIN hr.order |-> at(i)])
        \o end("host") \o end("content-length")
=============================================================================
