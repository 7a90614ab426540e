------------------------------- MODULE Tunnel -------------------------------
(***************************************************************************)
(* The proxy's client connections (internal/proxy): every accepted         *)
(* connection has a goroutine of its own that reads the CONNECT, takes the *)
(* ClientHello, completes the TLS handshake with a leaf certificate of the *)
(* shared Authority (internal/ca), and then serves HTTP/1.1 request after  *)
(* request.  A connection that negotiates h2 goes on in H2Conn.            *)
(*                                                                         *)
(* The client may send its requests ahead of the answers (pipelining), cut *)
(* one short, close its side while it still reads, or vanish.  A request   *)
(* arrives in one piece: the reader blocks until it has a whole head or a  *)
(* whole body, so smaller pieces only add waiting.                         *)
(***************************************************************************)
EXTENDS Http1

CONSTANTS
  Conns,       \* the accepted connections
  Hosts,       \* host names
  NoHost,      \* an absent host name
  None,        \* no leaf, no holder of the mutex
  Shapes,      \* requests the client sends: [req, trailers], the id still open
  MaxReqs,     \* bound: requests of each connection
  Origin,      \* what an origin answers
  MaxCut,      \* bound: pieces of a request that is cut short
  SockBuf      \* responses the socket holds before a write blocks

ASSUME TunnelAssumption ==
  /\ IsFiniteSet(Conns) /\ None \notin Conns /\ NoHost \notin Hosts
  /\ MaxReqs \in [Conns -> Nat] /\ SockBuf \in Nat \ {0} /\ MaxCut \in Nat

VARIABLES
  conn,    \* the goroutines of handle: pc and local variables
  in,      \* what has arrived of the decrypted stream and is not yet parsed
  sent,    \* the whole requests the client sent
  eof,     \* connections whose client sends no more
  gone,    \* connections whose client has vanished
  mu, cache, minted,  \* the Authority: mutex, leaves by name, serials used
  log,     \* transactions given to OnTransaction
  origin,  \* what origins were sent for each connection
  out,     \* responses written to each connection
  read     \* how many of them the client has read

client == <<sent, eof, gone>>
ca     == <<mu, cache, minted>>
vars   == <<conn, in, client, ca, log, origin, out, read>>

-----------------------------------------------------------------------------
(* A response has headers and a body of some length.                       *)

Response == [ok : BOOLEAN, headers : Seq(Pieces), body : Nat]

\* A client frames a request the way its headers declare.
Framed(r) ==
  /\ \A i \in DOMAIN r.headers : r.headers[i].kind \in HeaderNames
  /\ r.chunked = hasChunked(r.headers)
  /\ ~r.chunked => r.body = contentLength(r.headers)

ASSUME PeersAssumption ==
  /\ \A s \in Shapes : s.req \in Request /\ Framed(s.req) /\ s.trailers \in Nat
  /\ Origin \subseteq Response /\ None \notin Request /\ None \notin Response

errorResponse ==
  [ok |-> FALSE, headers |-> <<Piece("content-type", 0)>>, body |-> 1]

\* The local variables of an iteration of serveH1 before they are set.
NoRequest ==
  [id |-> 0, method |-> "GET", headers |-> <<>>, body |-> 0, chunked |-> FALSE]

Fresh == [pc |-> "connect", name |-> NoHost, h2 |-> FALSE, leaf |-> None,
          mirror |-> "unknown", taken |-> 0, req |-> NoRequest,
          resp |-> errorResponse]

Init ==
  /\ conn = [c \in Conns |-> Fresh]
  /\ in = [c \in Conns |-> <<>>] /\ sent = in
  /\ eof = {} /\ gone = {}
  /\ mu = None /\ cache = [n \in Hosts |-> None] /\ minted = 0
  /\ log = <<>> /\ origin = in /\ out = in
  /\ read = [c \in Conns |-> 0]

Goto(c, l) == conn' = [conn EXCEPT ![c].pc = l]

\* Every return of handle closes the connection and drops its variables.
Closed(k) == [Fresh EXCEPT !.pc = "closed", !.mirror = k.mirror, !.taken = k.taken]

Close(c) == conn' = [conn EXCEPT ![c] = Closed(@)]

-----------------------------------------------------------------------------
(* handle, up to the handshake.                                            *)

\* stripPort: a target is a host and a port.
stripPort(target) == target[1]

\* readConnect returned the target, and the 200 is written.  Only the host of
\* the target is used again.
ReadConnect(c, target) ==
  /\ conn[c].pc = "connect"
  /\ IF c \in gone THEN Close(c)
     ELSE conn' = [conn EXCEPT ![c].pc = "hello", ![c].name = stripPort(target)]
  /\ UNCHANGED <<in, client, ca, log, origin, out, read>>

\* peekClientHello took the first record, and the handshake asks for the
\* certificate of the SNI, or of the CONNECT host when there is none.
PeekClientHello(c, sni, h2) ==
  /\ conn[c].pc = "hello" /\ c \notin gone
  /\ conn' = [conn EXCEPT ![c].pc = "leaf", ![c].h2 = h2,
                          ![c].name = IF sni = NoHost THEN @ ELSE sni]
  /\ UNCHANGED <<in, client, ca, log, origin, out, read>>

\* No CONNECT, no TLS record, a failed or refused handshake, a vanished client.
GiveUp(c) ==
  /\ conn[c].pc \in {"connect", "hello", "handshake"}
  /\ Close(c)
  /\ UNCHANGED <<in, client, ca, log, origin, out, read>>

\* Mutant: the cache is looked up outside the mutex.
MutLeafFor(c) ==
  /\ conn[c].pc = "leaf"
  /\ IF conn[c].name = NoHost
     THEN Close(c) /\ UNCHANGED mu
     ELSE IF cache[conn[c].name] # None
     THEN /\ conn' = [conn EXCEPT ![c].pc = "handshake",
                                  ![c].leaf = cache[conn[c].name]]
          /\ UNCHANGED mu
     ELSE Goto(c, "mint") /\ UNCHANGED mu
  /\ UNCHANGED <<in, client, cache, minted, log, origin, out, read>>

\* LeafFor: refuse an empty host; under the mutex, take the cached leaf or go
\* on to mint one.
LeafFor(c) ==
  /\ conn[c].pc = "leaf"
  /\ conn[c].name # NoHost => mu = None
  /\ IF conn[c].name = NoHost
     THEN Close(c) /\ UNCHANGED mu
     ELSE IF cache[conn[c].name] # None
     THEN /\ conn' = [conn EXCEPT ![c].pc = "handshake",
                                  ![c].leaf = cache[conn[c].name]]
          /\ UNCHANGED mu
     ELSE Goto(c, "mint") /\ mu' = c
  /\ UNCHANGED <<in, client, cache, minted, log, origin, out, read>>

\* mint returns: the leaf is cached, or the handshake fails with its error.
Mint(c, ok) ==
  /\ conn[c].pc = "mint"
  /\ LET leaf == [name |-> conn[c].name, serial |-> minted]
     IN  IF ok
         THEN /\ cache' = [cache EXCEPT ![conn[c].name] = leaf]
              /\ conn' = [conn EXCEPT ![c].pc = "handshake", ![c].leaf = leaf]
              /\ minted' = minted + 1
         ELSE Close(c) /\ UNCHANGED <<cache, minted>>
  /\ mu' = None
  /\ UNCHANGED <<in, client, log, origin, out, read>>

\* The handshake completes; h2 wins whenever the client offers it.
Handshake(c) ==
  /\ conn[c].pc = "handshake" /\ c \notin gone
  /\ Goto(c, IF conn[c].h2 THEN "h2" ELSE "h1")
  /\ UNCHANGED <<in, client, ca, log, origin, out, read>>

\* serveH2 (H2Conn) returns.
ServeH2Returns(c) ==
  /\ conn[c].pc = "h2"
  /\ Close(c)
  /\ UNCHANGED <<in, client, ca, log, origin, out, read>>

-----------------------------------------------------------------------------
(* serveH1.                                                                *)

\* forConn builds the mirror of the connection, or the connection ends.
ForConn(c, ok) ==
  /\ conn[c].pc = "h1"
  /\ conn' = [conn EXCEPT ![c] =
       IF ok THEN [@ EXCEPT !.pc = "read", !.mirror = "built"]
             ELSE Closed([@ EXCEPT !.mirror = "failed"])]
  /\ UNCHANGED <<in, client, ca, log, origin, out, read>>

\* read takes the head of the next request off the stream; a malformed one, or
\* the end of the stream, ends the connection.
ReadHead(c) ==
  /\ conn[c].pc = "read"
  /\ \E h \in {readHeaders(in[c], c \in eof)} :
       /\ h.st # "more"
       /\ IF h.st = "ok"
          THEN LET hs == SubSeq(in[c], 2, h.end - 1) IN
               /\ conn' = [conn EXCEPT ![c].pc = "body", ![c].req =
                             [id |-> in[c][1].v, method |-> in[c][1].kind,
                              headers |-> hs, body |-> 0,
                              chunked |-> hasChunked(hs)]]
               /\ in' = [in EXCEPT ![c] = SubSeq(@, h.end + 1, Len(@))]
          ELSE Close(c) /\ UNCHANGED in
  /\ UNCHANGED <<client, ca, log, origin, out, read>>

\* readBody takes its body off the stream.
ReadBody(c) ==
  /\ conn[c].pc = "body"
  /\ \E b \in {readBody(in[c], conn[c].req.headers, c \in eof)} :
       /\ b.st # "more"
       /\ IF b.st = "ok"
          THEN /\ conn' = [conn EXCEPT ![c].pc = "trip", ![c].taken = @ + 1,
                                       ![c].req.body = b.body]
               /\ in' = [in EXCEPT ![c] = SubSeq(@, b.end + 1, Len(@))]
          ELSE Close(c) /\ UNCHANGED in
  /\ UNCHANGED <<client, ca, log, origin, out, read>>

\* An origin's response to HEAD has no body, whatever its headers say (external).
Answer(method, r) == IF r.ok /\ method = "HEAD" THEN [r EXCEPT !.body = 0] ELSE r

\* rt.RoundTrip: the origin is sent the rebuilt request and answers, or fails
\* before or after it was sent.
RoundTrip(c, r, reached) ==
  /\ conn[c].pc = "trip"
  /\ r.ok => reached
  /\ conn' = [conn EXCEPT ![c].pc = "emit",
                          ![c].resp = Answer(conn[c].req.method, r)]
  /\ LET hr == buildRequest(conn[c].req, FALSE)
     IN  origin' = IF reached
                   THEN [origin EXCEPT ![c] = Append(@,
                           [req |-> conn[c].taken, headers |-> WriteHeaders(hr),
                            body |-> hr.body, te |-> hr.te])]
                   ELSE origin
  /\ UNCHANGED <<in, client, ca, log, out, read>>

\* s.emit(Transaction{...})
Emit(c) ==
  /\ conn[c].pc = "emit"
  /\ log' = Append(log, [conn |-> c, request |-> conn[c].req,
                         response |-> conn[c].resp])
  /\ Goto(c, "write")
  /\ UNCHANGED <<in, client, ca, origin, out, read>>

\* Mutant: the origin's Content-Length is copied.
MutIsHopByHop(name) == name \in {"transfer-encoding", "connection"}

isHopByHop(name) == name \in {"content-length", "transfer-encoding", "connection"}

\* The headers that are passed on.
EndToEnd(hs) == At(hs, {i \in DOMAIN hs : ~isHopByHop(hs[i].kind)})

\* The message of response r, whatever the method it answers: its other headers,
\* an authoritative length, Connection: keep-alive, and the body.
Message(r) ==
  [ok |-> r.ok, body |-> r.body,
   headers |-> EndToEnd(r.headers)
                 \o <<Piece("content-length", r.body), Piece("connection", 0)>>]

\* writeH1Response: one write; its failure ends the connection.
WriteH1Response(c) ==
  /\ conn[c].pc = "write"
  /\ \/ /\ c \in gone
        /\ Close(c)
        /\ UNCHANGED out
     \/ /\ c \notin gone /\ Len(out[c]) - read[c] < SockBuf
        /\ conn' = [conn EXCEPT ![c].pc = "read", ![c].req = NoRequest,
                                ![c].resp = errorResponse]
        /\ out' = [out EXCEPT ![c] = Append(@, Message(conn[c].resp))]
  /\ UNCHANGED <<in, client, ca, log, origin, read>>

-----------------------------------------------------------------------------
(* The client (external).                                                  *)

\* The tunnel carries the client's requests from the handshake on.
Tunnelled(c) == conn[c].pc \in {"h1", "read", "body", "trip", "emit", "write"}

Numbered(s, c) == [s.req EXCEPT !.id = Len(sent[c]) + 1]

Send(c, s) ==
  /\ Tunnelled(c) /\ c \notin eof /\ Len(sent[c]) < MaxReqs[c]
  /\ sent' = [sent EXCEPT ![c] = Append(@, Numbered(s, c))]
  /\ in' = [in EXCEPT ![c] = @ \o Encode(Numbered(s, c), s.trailers)]
  /\ UNCHANGED <<conn, eof, gone, ca, log, origin, out, read>>

\* The stream ends within a request, after its head or before its last piece;
\* the request counts as sent when only its trailer section is cut short.
SendCut(c, s, k) ==
  LET q == Encode(Numbered(s, c), s.trailers) IN
  /\ Tunnelled(c) /\ c \notin eof /\ Len(sent[c]) < MaxReqs[c]
  /\ k \in {Len(s.req.headers) + 2, Len(q) - 1} \ {Len(q)}
  /\ sent' = IF First(SubSeq(q, 1, k), 1, {"last"}) # 0
             THEN [sent EXCEPT ![c] = Append(@, Numbered(s, c))] ELSE sent
  /\ in' = [in EXCEPT ![c] = @ \o SubSeq(q, 1, k)]
  /\ eof' = eof \union {c}
  /\ UNCHANGED <<conn, gone, ca, log, origin, out, read>>

\* The client closes its side and goes on reading.
EndStream(c) ==
  /\ Tunnelled(c) /\ c \notin eof
  /\ eof' = eof \union {c}
  /\ UNCHANGED <<conn, in, sent, gone, ca, log, origin, out, read>>

\* The client vanishes; what it sent is read, or lost with it.
Vanish(c, lost) ==
  /\ conn[c].pc # "closed" /\ c \notin gone
  /\ gone' = gone \union {c}
  /\ eof' = eof \union {c}
  /\ in' = IF lost THEN [in EXCEPT ![c] = <<>>] ELSE in
  /\ UNCHANGED <<conn, sent, ca, log, origin, out, read>>

ClientRead(c) ==
  /\ c \notin gone /\ read[c] < Len(out[c])
  /\ read' = [read EXCEPT ![c] = @ + 1]
  /\ UNCHANGED <<conn, in, client, ca, log, origin, out>>

-----------------------------------------------------------------------------
Serve(c) ==
  \/ LeafFor(c) \/ ReadHead(c) \/ ReadBody(c) \/ Emit(c) \/ WriteH1Response(c)
  \/ ServeH2Returns(c)
  \/ \E ok \in BOOLEAN : Mint(c, ok) \/ ForConn(c, ok)
  \/ \E r \in Origin \union {errorResponse}, reached \in BOOLEAN :
       RoundTrip(c, r, reached)

Client(c) ==
  \/ \E n \in Hosts \union {NoHost} : ReadConnect(c, <<n, 443>>)
  \/ \E n \in Hosts \union {NoHost}, h2 \in BOOLEAN : PeekClientHello(c, n, h2)
  \/ Handshake(c) \/ GiveUp(c) \/ EndStream(c) \/ ClientRead(c)
  \/ \E s \in Shapes : Send(c, s) \/ \E k \in 1..MaxCut : SendCut(c, s, k)
  \/ \E lost \in BOOLEAN : Vanish(c, lost)

\* Every connection is over and its answers are read.
Over ==
  /\ \A c \in Conns :
       conn[c].pc = "closed" /\ (c \in gone \/ read[c] = Len(out[c]))
  /\ UNCHANGED vars

Next == (\E c \in Conns : Serve(c) \/ Client(c)) \/ Over

Spec == Init /\ [][Next]_vars

(* Goroutines run, the origin answers or the HTTP client times out, a Go   *)
(* mutex does not starve, the client reads its answers, and a read from a  *)
(* client that vanished fails.                                             *)
Fairness ==
  \A c \in Conns :
    /\ SF_vars(LeafFor(c)) /\ WF_vars(Serve(c)) /\ WF_vars(ClientRead(c))
    /\ WF_vars(c \in gone /\ GiveUp(c))

FairSpec == Spec /\ Fairness

-----------------------------------------------------------------------------
(* Properties.                                                             *)

Leaf == [name : Hosts, serial : Nat]

\* The connections and the shared Authority keep their types, and the mutex
\* of the leaf cache is held by exactly the connection that mints.
TypeOK ==
  /\ \A c \in Conns :
       /\ conn[c].pc \in {"connect", "hello", "leaf", "mint", "handshake", "h1",
                          "h2", "read", "body", "trip", "emit", "write", "closed"}
       /\ conn[c].name \in Hosts \union {NoHost} /\ conn[c].taken \in Nat
       /\ conn[c].leaf \in Leaf \union {None}
       /\ conn[c].mirror \in {"unknown", "built", "failed"}
       /\ conn[c].req \in Request /\ conn[c].resp \in Response
       /\ in[c] \in Seq(Pieces) /\ read[c] \in 0..Len(out[c])
       /\ mu = c <=> conn[c].pc = "mint"
  /\ gone \subseteq eof /\ eof \subseteq Conns
  /\ cache \in [Hosts -> Leaf \union {None}] /\ minted \in Nat

\* capture.go:92-94 and 141-143: every read leaves the reader at the start of
\* the request that follows, whatever framing, trailers or cuts came before.
PipelineIntact ==
  \A c \in Conns : conn[c].pc = "read" /\ in[c] # <<>> =>
    in[c][1].kind \in Methods /\ in[c][1].v = conn[c].taken + 1

\* Concurrent handshakes share one leaf per name, for the name the client asked
\* for, and the cache never changes a leaf it has handed out.
OneLeafPerName ==
  \A c \in Conns : conn[c].leaf # None =>
    conn[c].leaf.name = conn[c].name /\ cache[conn[c].name] = conn[c].leaf

\* A request as browsers send it: headers of one name next to each other, wherever
\* they stand; those that fhttp writes itself once, and there when it writes them.
Tidy(r) ==
  LET k == [i \in DOMAIN r.headers |-> r.headers[i].kind]
      has(name) == \E i \in DOMAIN k : k[i] = name
  IN  /\ \A i, j \in DOMAIN k : k[i] = k[j] =>
           (\A x \in i..j : k[x] = k[i]) /\ (i = j \/ k[i] \notin Framing)
      /\ \A i \in DOMAIN k : k[i] \in {"host", "transfer-encoding"} => r.headers[i].v = 0
      /\ has("host")
      /\ has("content-length") <=> ~r.chunked /\ (r.body > 0 \/ r.method = "POST")

\* What the origin is sent for a request: its body and the framing it used, and
\* of a tidy one the client's headers in the client's order.
OriginFaithful ==
  \A c \in Conns : \A i \in DOMAIN origin[c] :
    LET o == origin[c][i]
        r == sent[c][o.req]
    IN  o.body = r.body /\ o.te = r.chunked /\ (Tidy(r) => o.headers = r.headers)

\* Every whole request gets its answer, also one sent ahead of the answers to
\* others and one followed by a broken request, unless the client vanishes or
\* no mirror of it could be built; and a vanished client's goroutine ends.  How
\* the client reads the answers is TunnelImplementsExchange's.
RequestsAnswered ==
  \A c \in Conns :
    /\ \A i \in 1..MaxReqs[c] :
         Len(sent[c]) >= i ~> (read[c] >= i \/ c \in gone \/ conn[c].mirror = "failed")
    /\ c \in gone ~> conn[c].pc = "closed"

-----------------------------------------------------------------------------
(* The i-th request of a connection c is the exchange <<c, i>>.            *)

Exchanges == UNION {{c} \X (1..MaxReqs[c]) : c \in Conns}

\* What of a response to a method the two ends tell apart: one to HEAD has no body.
View(method, r) ==
  [ok |-> r.ok, body |-> IF method = "HEAD" THEN 0 ELSE r.body,
   headers |-> EndToEnd(r.headers)]

\* The i-th message of connection c starts where its client has read up to: no
\* message before it has a body that the client does not expect.
InStep(c, i) ==
  \A j \in 1..(i - 1) : sent[c][j].method = "HEAD" => out[c][j].body = 0

Garbled == [ok |-> FALSE, body |-> -1, headers |-> <<>>]

\* The client's reading of the i-th message: garbled out of step, or by a second
\* length that contradicts the first.
Seen(c, i) ==
  LET m == out[c][i] IN
  IF InStep(c, i) /\ \A x \in DOMAIN m.headers :
       m.headers[x].kind = "content-length" => m.headers[x].v = m.body
  THEN View(sent[c][i].method, m) ELSE Garbled

\* A HEAD before the i-th request has failed: errorResponse was written with its
\* body, which its client takes for the start of the next message.
HeadFailed(c, i) ==
  \E j \in 1..(i - 1) : sent[c][j].method = "HEAD" /\ ~out[c][j].ok

\* What the client makes of the first n answers; nothing is claimed of answers
\* after a HEAD that failed.
Readings(n) ==
  [e \in Exchanges |->
     IF e[2] <= n[e[1]] /\ ~HeadFailed(e[1], e[2]) THEN Seen(e[1], e[2]) ELSE None]

Ex == INSTANCE Exchange WITH
  Refusal   <- View("GET", errorResponse),
  mirror    <- [e \in Exchanges |-> conn[e[1]].mirror],
  asked     <- [e \in Exchanges |->
                  IF e[2] <= conn[e[1]].taken THEN sent[e[1]][e[2]] ELSE None],
  log       <- [i \in DOMAIN log |->
                  [of |-> <<log[i].conn, log[i].request.id>>,
                   request |-> log[i].request,
                   response |-> View(log[i].request.method, log[i].response)]],
  reply     <- Readings([c \in Conns |-> Len(out[c])]),
  got       <- Readings(read)

\* serveH1: every request is recorded once, as it was sent, before its answer
\* is written, and the i-th answer the client reads is the recorded one of its
\* i-th request, up to the first HEAD of the connection that fails.
TunnelImplementsExchange == Ex!Spec
=============================================================================
