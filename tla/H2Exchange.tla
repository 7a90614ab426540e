----------------------------- MODULE H2Exchange -----------------------------
(***************************************************************************)
(* The HTTP/2 connection of H2Conn implements Exchange: a stream is an     *)
(* exchange, asked when its request is dispatched to a handler.            *)
(***************************************************************************)
EXTENDS H2Conn

\* The request of stream s as the client sent it.  Trailers replace the block
\* and the body (BodyCaptured), so there it is what was dispatched.
AskedOn(s) ==
  IF h[s].pc = "idle" THEN None
  ELSE IF sent[s].trailers THEN h[s].req
  ELSE [block |-> [stream |-> s, trailers |-> FALSE, bare |-> h[s].req.block.bare],
        body |-> sent[s].body]

\* A handler is committed to its response from the moment it has the lock.
ReplyOn(s) ==
  IF h[s].pc \in {"headers", "data", "done"} THEN h[s].resp ELSE None

\* What the client has received of a response that ended.
GotOn(s) ==
  IF s \in cli.answered
  THEN [ok |-> h[s].resp.ok, len |-> cli.got[s]]
  ELSE None

Ex == INSTANCE Exchange WITH
  Exchanges <- Streams,
  Request   <- Captured,
  Refusal   <- errorResponse,
  mirror    <- [s \in Streams |->
                  IF once \in {"built", "failed"} THEN once ELSE "unknown"],
  asked     <- [s \in Streams |-> AskedOn(s)],
  log       <- [i \in DOMAIN emitted |->
                  [of |-> emitted[i].stream, request |-> emitted[i].request,
                   response |-> emitted[i].response]],
  reply     <- [s \in Streams |-> ReplyOn(s)],
  got       <- [s \in Streams |-> GotOn(s)]

\* proxy.go serveH2 and http2.go: concurrent handlers, the write lock and the
\* frames of writeData keep every promise of Exchange: a stream is recorded at
\* most once, with the block and the whole body the client sent, before any
\* byte of its answer, and the client gets exactly the recorded response.
ImplementsExchange == Ex!Spec
=============================================================================
