------------------------------- MODULE H2Conn -------------------------------
(***************************************************************************)
(* One intercepted HTTP/2 connection: the read loop ServeHTTP2 and the     *)
(* handler goroutines it spawns (internal/capture/http2.go), running the   *)
(* handler of serveH2 (internal/proxy/proxy.go), which builds the upstream *)
(* mirror once and records every transaction.                              *)
(*                                                                         *)
(* The client is an environment that obeys HTTP/2: a stream carries one    *)
(* request (HEADERS, DATA, perhaps trailers) within the flow-control       *)
(* windows, and may be cancelled; the client may say goodbye or vanish.    *)
(* Frames the loop ignores (acks, WINDOW_UPDATE of a stream, DATA or       *)
(* RST_STREAM of a stream it no longer knows) are stuttering steps.        *)
(***************************************************************************)
EXTENDS Integers, Sequences, FiniteSets

CONSTANTS
  Streams,      \* client-initiated streams
  None,         \* no stream / no value
  BareBlocks,   \* bound: may a request have no regular headers (\subseteq BOOLEAN)
  MaxCtl,       \* bound: connection-level frames the client sends
  MaxBody,      \* bound: DATA units of one request body
  MaxPad,       \* bound: padding units of one request body
  Window,       \* the flow-control windows the proxy's SETTINGS give the client
  FlowModulus,  \* 2^32: connectionFlow is a uint32
  MaxFrame,     \* maxFrameSize, in units of response body
  RespLens,     \* lengths of the origin's response bodies
  ErrLen,       \* length of the body of errorResponse
  SockBuf       \* frames the socket holds before a write blocks

ASSUME StreamsAssumption == IsFiniteSet(Streams) /\ None \notin Streams

ASSUME BoundsAssumption ==
  /\ BareBlocks \subseteq BOOLEAN
  /\ MaxCtl \in Nat /\ MaxBody \in Nat /\ MaxPad \in Nat /\ Window \in Nat
  /\ FlowModulus \in Nat \ {0} /\ MaxFrame \in Nat \ {0}
  /\ ErrLen \in Nat \ {0} /\ RespLens \subseteq Nat /\ SockBuf \in Nat \ {0}

VARIABLES
  loop,     \* where ServeHTTP2 is: preface, reading, draining, returned
  todo,     \* control frames the loop still has to write before it reads on
  next,     \* stream the loop dispatches once todo is written, or None
  fp,       \* the live connection fingerprint
  streams,  \* the streams map: what is captured of each open stream
  wg,       \* the wait-group counter
  wmu,      \* the handler that holds the write lock, or None
  enc,      \* header blocks the shared HPACK encoder has encoded
  out,      \* frames written to the socket and not yet read by the client
  h,        \* the handler goroutines: pc and local variables
  once,     \* the sync.Once of serveH2: new, running, built, failed
  mirror,   \* the fingerprint the mirror was built from, or None
  emitted,  \* the transactions given to OnTransaction, in order
  sent,     \* what the client has sent on each stream
  cli,      \* what the client has received
  gone,     \* the client has vanished
  hist      \* connection-level frames, first header block, late fingerprint,
            \* padding

conn  == <<loop, todo, next, fp, streams, wg>>
write == <<wmu, enc, out>>
serve == <<once, mirror, emitted>>
vars  == <<conn, write, h, serve, sent, cli, gone, hist>>

-----------------------------------------------------------------------------
(* Data.  A header block stands for its ordered fields; two blocks have    *)
(* different fields.  A bare block has no regular headers.                 *)

Block == [stream : Streams, trailers : BOOLEAN, bare : BOOLEAN]

\* h2stream: the captured block and the body so far.
Captured == [block : Block, body : Nat]

\* HTTP2Fingerprint: how many settings and priorities were appended, the
\* summed window updates, and the blocks the two orders were taken from.
Fingerprint == [settings : Nat, connectionFlow : 0..(FlowModulus - 1),
                priorities : Nat, pseudoOrder : Block \union {None},
                headerOrder : Block \union {None}]

Response == [ok : BOOLEAN, len : Nat]

Transaction == [stream : Streams, h2 : Fingerprint, request : Captured,
                response : Response]

\* None is no value of any of these.
ASSUME NoneAssumption ==
  /\ None \notin Block /\ None \notin Captured
  /\ None \notin Fingerprint /\ None \notin Response

Ctl(t)     == [type |-> t]
Wupd(s, n) == [type |-> "wupd", stream |-> s, n |-> n]

OriginResponses == [ok : {TRUE}, len : RespLens]
errorResponse   == [ok |-> FALSE, len |-> ErrLen]

-----------------------------------------------------------------------------
Init ==
  /\ loop = "preface" /\ todo = <<>> /\ next = None /\ wg = 0
  /\ fp = [settings |-> 0, connectionFlow |-> 0, priorities |-> 0,
           pseudoOrder |-> None, headerOrder |-> None]
  /\ streams = [s \in Streams |-> None]
  /\ wmu = None /\ enc = 0 /\ out = <<>>
  /\ h = [s \in Streams |-> [pc |-> "idle", req |-> None, snap |-> None,
                             resp |-> None, left |-> 0]]
  /\ once = "new" /\ mirror = None /\ emitted = <<>>
  /\ sent = [s \in Streams |-> [state |-> "idle", body |-> 0, pad |-> 0,
                                trailers |-> FALSE]]
  /\ cli = [win |-> Window, swin |-> [s \in Streams |-> Window], cur |-> None,
            decoded |-> 0, got |-> [s \in Streams |-> 0], answered |-> {}]
  /\ gone = FALSE
  /\ hist = [ctl |-> 0, first |-> None, late |-> FALSE, pad |-> 0]

-----------------------------------------------------------------------------
(* The read loop.                                                          *)

\* readPreface, then the server's SETTINGS; a bad preface, or a failed write,
\* ends the call.
ReadPreface(good) ==
  /\ loop = "preface"
  /\ loop' = IF good /\ ~gone THEN "reading" ELSE "returned"
  /\ out' = IF good /\ ~gone THEN Append(out, Ctl("settings")) ELSE out
  /\ UNCHANGED <<todo, next, fp, streams, wg, wmu, enc, h, serve, sent, cli,
                 gone, hist>>

\* The loop reads a frame only when it has finished with the previous one.
AtRead  == loop = "reading" /\ todo = <<>> /\ next = None
CanRead == AtRead /\ ~gone

\* A connection-level frame: the fingerprint becomes f, t has to be written.
ReadCtl(f, t) ==
  /\ CanRead
  /\ hist.ctl < MaxCtl
  /\ fp' = f
  /\ todo' = t
  /\ hist' = [hist EXCEPT !.ctl = @ + 1,
                          !.late = @ \/ (hist.first # None /\ f # fp)]
  /\ UNCHANGED <<loop, next, streams, wg, write, h, serve, sent, cli, gone>>

ReadSettings ==
  ReadCtl([fp EXCEPT !.settings = @ + 1], <<Ctl("ack")>>)

\* WINDOW_UPDATE of stream 0: connectionFlow += Increment, a uint32.
ReadWindowUpdate ==
  ReadCtl([fp EXCEPT !.connectionFlow = (@ + 1) % FlowModulus], <<>>)

ReadPriority ==
  ReadCtl([fp EXCEPT !.priorities = @ + 1], <<>>)

ReadPing ==
  ReadCtl(fp, <<Ctl("pong")>>)

\* Mutant: every block overwrites the orders.
MutCaptureHeaders(b) == [fp EXCEPT !.pseudoOrder = b, !.headerOrder = b]

\* captureHeaders: an order is recorded only while it is unset, and a block
\* without pseudo-headers (or without regular headers) leaves it unset.
captureHeaders(b) ==
  [fp EXCEPT !.pseudoOrder = IF @ = None /\ ~b.trailers THEN b ELSE @,
             !.headerOrder = IF @ = None /\ ~b.bare THEN b ELSE @]

\* Mutant: the stream stays on the map.
MutDispatch(s, st, f) ==
  /\ wg' = wg + 1
  /\ h' = [h EXCEPT ![s].pc = "ready", ![s].req = st, ![s].snap = f]
  /\ UNCHANGED streams

\* dispatch: take the stream off the map, snapshot the fingerprint, and start
\* the handler goroutine (wg.Go counts it before it runs).  Its rstStream on a
\* handler error is not reached: the handler of serveH2 never returns one.
dispatch(s, st, f) ==
  /\ streams' = [streams EXCEPT ![s] = None]
  /\ wg' = wg + 1
  /\ h' = [h EXCEPT ![s].pc = "ready", ![s].req = st, ![s].snap = f]

\* An incomplete request stays on the map.
keep(s, st) == streams' = [streams EXCEPT ![s] = st] /\ UNCHANGED <<wg, h>>

\* HEADERS: always a new h2stream, captured and put on the map; dispatched at
\* once when the frame carries END_STREAM.
ReadBlock(s, b, end) ==
  /\ CanRead
  /\ fp' = captureHeaders(b)
  /\ LET st == [block |-> b, body |-> 0]
     IN  IF end THEN dispatch(s, st, fp') ELSE keep(s, st)
  /\ hist' = [hist EXCEPT !.first = IF @ = None THEN b ELSE @]
  /\ UNCHANGED <<loop, todo, next, write, serve, cli, gone>>

\* The HEADERS that open a request.
ReadHeaders(s, bare, end) ==
  /\ sent[s].state = "idle"
  /\ sent' = [sent EXCEPT ![s].state = IF end THEN "ended" ELSE "open"]
  /\ ReadBlock(s, [stream |-> s, trailers |-> FALSE, bare |-> bare], end)

\* The HEADERS that carry a request's trailers, which end the stream.
ReadTrailers(s) ==
  /\ sent[s].state = "open"
  /\ sent' = [sent EXCEPT ![s].state = "ended", ![s].trailers = TRUE]
  /\ ReadBlock(s, [stream |-> s, trailers |-> TRUE, bare |-> FALSE], TRUE)

\* Mutants: only one of the two windows gets its credit back.
MutCreditsStream(s, n) == <<Wupd(s, n)>>
MutCreditsConn(s, n)   == <<Wupd(None, n)>>

\* The window updates that return the credit of n bytes.
credits(s, n) == <<Wupd(None, n), Wupd(s, n)>>

\* DATA of a stream on the map: append the body, return the credit of the
\* bytes (not of the padding) on the connection and on the stream, then
\* dispatch if the frame carries END_STREAM.
ReadData(s, n, pad, end) ==
  /\ CanRead
  /\ sent[s].state = "open" /\ streams[s] # None
  /\ sent[s].body + n <= MaxBody /\ sent[s].pad + pad <= MaxPad
  /\ n + pad <= cli.win /\ n + pad <= cli.swin[s]
  /\ sent' = [sent EXCEPT ![s].state = IF end THEN "ended" ELSE @,
                          ![s].body = @ + n, ![s].pad = @ + pad]
  /\ cli' = [cli EXCEPT !.win = @ - (n + pad), !.swin[s] = @ - (n + pad)]
  /\ hist' = [hist EXCEPT !.pad = @ + pad]
  /\ LET st == [streams[s] EXCEPT !.body = @ + n]
     IN  IF n > 0
         THEN /\ todo' = credits(s, n)
              /\ next' = IF end THEN s ELSE None
              /\ keep(s, st)
         ELSE /\ IF end THEN dispatch(s, st, fp) ELSE keep(s, st)
              /\ UNCHANGED <<todo, next>>
  /\ UNCHANGED <<loop, fp, write, serve, gone>>

\* RST_STREAM: forget the stream.
ReadRSTStream(s) ==
  /\ CanRead
  /\ sent[s].state = "open"
  /\ sent' = [sent EXCEPT ![s].state = "reset"]
  /\ streams' = [streams EXCEPT ![s] = None]
  /\ UNCHANGED <<loop, todo, next, fp, wg, write, h, serve, cli, gone, hist>>

\* EOF, a read error (also after the client vanished) or GOAWAY: stop.
ReadStop ==
  /\ AtRead
  /\ loop' = "draining"
  /\ UNCHANGED <<todo, next, fp, streams, wg, write, h, serve, sent, cli,
                 gone, hist>>

\* settingsAck, pingAck, windowUpdate: lock, write one frame, unlock.  The
\* error of the write is ignored.
LoopWrite ==
  /\ todo # <<>>
  /\ wmu = None
  /\ gone \/ Len(out) < SockBuf
  /\ out' = IF gone THEN out ELSE Append(out, Head(todo))
  /\ todo' = Tail(todo)
  /\ UNCHANGED <<loop, next, fp, streams, wg, wmu, enc, h, serve, sent, cli,
                 gone, hist>>

\* The dispatch at the end of the DATA case, after its window updates.
LoopDispatch ==
  /\ todo = <<>> /\ next # None
  /\ dispatch(next, streams[next], fp)
  /\ next' = None
  /\ UNCHANGED <<loop, todo, fp, write, serve, sent, cli, gone, hist>>

\* Mutant: stop does not wait for the handlers.
MutLoopReturn ==
  /\ loop = "draining"
  /\ loop' = "returned"
  /\ UNCHANGED <<todo, next, fp, streams, wg, write, h, serve, sent, cli,
                 gone, hist>>

\* stop: wg.Wait(), then ServeHTTP2 returns and the connection is closed.
LoopReturn ==
  /\ loop = "draining"
  /\ wg = 0
  /\ loop' = "returned"
  /\ UNCHANGED <<todo, next, fp, streams, wg, write, h, serve, sent, cli,
                 gone, hist>>

-----------------------------------------------------------------------------
(* The handler goroutine of stream s.                                      *)

\* Mutant: no sync.Once, every handler builds a mirror.
MutOnceBegin(s) ==
  /\ h[s].pc = "ready"
  /\ once' = "running"
  /\ h' = [h EXCEPT ![s].pc = "building"]
  /\ UNCHANGED <<conn, write, mirror, emitted, sent, cli, gone, hist>>

\* once.Do: the first handler builds the mirror from its own snapshot ...
OnceBegin(s) ==
  /\ h[s].pc = "ready" /\ once = "new"
  /\ once' = "running"
  /\ h' = [h EXCEPT ![s].pc = "building"]
  /\ UNCHANGED <<conn, write, mirror, emitted, sent, cli, gone, hist>>

OnceEnd(s, ok) ==
  /\ h[s].pc = "building"
  /\ once' = IF ok THEN "built" ELSE "failed"
  /\ mirror' = IF ok THEN h[s].snap ELSE None
  /\ h' = [h EXCEPT ![s].pc = "ready"]
  /\ UNCHANGED <<conn, write, emitted, sent, cli, gone, hist>>

\* ... the others wait for it.  After a failed build the handler answers with
\* errorResponse and records nothing.
OnceDone(s) ==
  /\ h[s].pc = "ready"
  /\ \/ /\ once = "built"
        /\ h' = [h EXCEPT ![s].pc = "roundtrip"]
     \/ /\ once = "failed"
        /\ h' = [h EXCEPT ![s].pc = "lock", ![s].resp = errorResponse]
  /\ UNCHANGED <<conn, write, serve, sent, cli, gone, hist>>

\* Mutant: a failed round trip is answered without being recorded.
MutRoundTrip(s, r) ==
  /\ h[s].pc = "roundtrip"
  /\ h' = [h EXCEPT ![s].pc = IF r.ok THEN "emit" ELSE "lock", ![s].resp = r]
  /\ UNCHANGED <<conn, write, serve, sent, cli, gone, hist>>

\* rt.RoundTrip: the origin's response, or errorResponse.
RoundTrip(s, r) ==
  /\ h[s].pc = "roundtrip"
  /\ h' = [h EXCEPT ![s].pc = "emit", ![s].resp = r]
  /\ UNCHANGED <<conn, write, serve, sent, cli, gone, hist>>

\* Mutant: the transaction is recorded before there is a response.
MutEmit(s) ==
  /\ h[s].pc \in {"roundtrip", "emit"}
  /\ emitted' = Append(emitted, [stream |-> s, h2 |-> h[s].snap,
                                 request |-> h[s].req, response |-> h[s].resp])
  /\ h' = [h EXCEPT ![s].pc = "lock"]
  /\ UNCHANGED <<conn, write, once, mirror, sent, cli, gone, hist>>

\* s.emit(Transaction{...})
Emit(s) ==
  /\ h[s].pc = "emit"
  /\ emitted' = Append(emitted, [stream |-> s, h2 |-> h[s].snap,
                                 request |-> h[s].req, response |-> h[s].resp])
  /\ h' = [h EXCEPT ![s].pc = "lock"]
  /\ UNCHANGED <<conn, write, once, mirror, sent, cli, gone, hist>>

\* Mutant: the encoder is used without the write lock.
MutRespLock(s) ==
  /\ h[s].pc = "lock"
  /\ wmu' = s
  /\ enc' = enc + 1
  /\ h' = [h EXCEPT ![s].pc = "headers", ![s].left = h[s].resp.len]
  /\ UNCHANGED <<conn, out, serve, sent, cli, gone, hist>>

\* writeResponse: take wmu and encode the header block into the shared buffer.
RespLock(s) ==
  /\ h[s].pc = "lock"
  /\ wmu = None
  /\ wmu' = s
  /\ enc' = enc + 1
  /\ h' = [h EXCEPT ![s].pc = "headers", ![s].left = h[s].resp.len]
  /\ UNCHANGED <<conn, out, serve, sent, cli, gone, hist>>

\* Mutants: a return that keeps the lock, and one the wait group misses.
MutFinishLocked == wg' = wg - 1 /\ UNCHANGED wmu
MutFinishNoDone == wmu' = None /\ UNCHANGED wg

\* The deferred unlock, and the Done of wg.Go when the goroutine returns.
finish == wmu' = None /\ wg' = wg - 1

\* WriteHeaders, with END_STREAM iff the body is empty.
RespHeaders(s) ==
  /\ h[s].pc = "headers"
  /\ ~gone /\ Len(out) < SockBuf
  /\ LET end == h[s].left = 0
     IN  /\ out' = Append(out, [type |-> "headers", stream |-> s,
                                hpack |-> enc, end |-> end])
         /\ h' = [h EXCEPT ![s].pc = IF end THEN "done" ELSE "data"]
         /\ IF end THEN finish ELSE UNCHANGED <<wmu, wg>>
  /\ UNCHANGED <<loop, todo, next, fp, streams, enc, serve, sent, cli, gone,
                 hist>>

\* writeData's loop condition: what is left fits one frame.
LastChunk(n) == n <= MaxFrame

\* writeData: a full frame while more than maxFrameSize is left, then the rest
\* with END_STREAM.  The client's flow-control window is not consulted.
RespData(s) ==
  /\ h[s].pc = "data"
  /\ ~gone /\ Len(out) < SockBuf
  /\ LET end == LastChunk(h[s].left)
         n == IF end THEN h[s].left ELSE MaxFrame
     IN  /\ out' = Append(out, [type |-> "data", stream |-> s, n |-> n,
                                end |-> end])
         /\ h' = [h EXCEPT ![s].pc = IF end THEN "done" ELSE "data",
                           ![s].left = @ - n]
         /\ IF end THEN finish ELSE UNCHANGED <<wmu, wg>>
  /\ UNCHANGED <<loop, todo, next, fp, streams, enc, serve, sent, cli, gone,
                 hist>>

\* A write to a vanished client fails and ends writeResponse.
RespFail(s) ==
  /\ h[s].pc \in {"headers", "data"}
  /\ gone
  /\ h' = [h EXCEPT ![s].pc = "done"]
  /\ finish
  /\ UNCHANGED <<loop, todo, next, fp, streams, enc, out, serve, sent, cli,
                 gone, hist>>

-----------------------------------------------------------------------------
(* The client's receiving side.                                            *)

Received(f) ==
  CASE f.type = "wupd" /\ f.stream = None -> [cli EXCEPT !.win = @ + f.n]
    [] f.type = "wupd" /\ f.stream # None ->
         [cli EXCEPT !.swin[f.stream] = @ + f.n]
    [] f.type = "headers" ->
         [cli EXCEPT !.decoded = @ + 1,
                     !.cur = IF f.end THEN None ELSE f.stream,
                     !.answered = IF f.end THEN @ \union {f.stream} ELSE @]
    [] f.type = "data" ->
         [cli EXCEPT !.got[f.stream] = @ + f.n,
                     !.cur = IF f.end THEN None ELSE f.stream,
                     !.answered = IF f.end THEN @ \union {f.stream} ELSE @]
    [] OTHER -> cli

ClientRead ==
  /\ ~gone /\ out # <<>>
  /\ out' = Tail(out)
  /\ cli' = Received(Head(out))
  /\ UNCHANGED <<conn, wmu, enc, h, serve, sent, gone, hist>>

\* The client vanishes; what it has not read is lost.
ClientGone ==
  /\ ~gone
  /\ gone' = TRUE
  /\ out' = <<>>
  /\ UNCHANGED <<conn, wmu, enc, h, serve, sent, cli, hist>>

\* The connection is over and nothing is left to read.
Over == loop = "returned" /\ out = <<>> /\ UNCHANGED vars

-----------------------------------------------------------------------------
LoopStep ==
  \/ \E good \in BOOLEAN : ReadPreface(good)
  \/ LoopWrite \/ LoopDispatch \/ LoopReturn

ReadStep ==
  \/ ReadSettings \/ ReadWindowUpdate \/ ReadPriority \/ ReadPing \/ ReadStop
  \/ \E s \in Streams :
       \/ \E bare \in BareBlocks, end \in BOOLEAN : ReadHeaders(s, bare, end)
       \/ ReadTrailers(s)
       \/ \E n, pad \in 0..1, end \in BOOLEAN : ReadData(s, n, pad, end)
       \/ ReadRSTStream(s)

HandlerStep(s) ==
  \/ OnceBegin(s)
  \/ \E ok \in BOOLEAN : OnceEnd(s, ok)
  \/ OnceDone(s)
  \/ \E r \in OriginResponses \union {errorResponse} : RoundTrip(s, r)
  \/ Emit(s)
  \/ RespLock(s) \/ RespHeaders(s) \/ RespData(s) \/ RespFail(s)

Next ==
  \/ LoopStep \/ ReadStep
  \/ \E s \in Streams : HandlerStep(s)
  \/ ClientRead \/ ClientGone \/ Over

Spec == Init /\ [][Next]_vars

(* Every goroutine keeps running: forConn makes no network call, RoundTrip *)
(* ends by the HTTP client's timeout, a sync.Mutex does not starve.  The   *)
(* client reads what it is sent until it vanishes, and a read from a       *)
(* vanished client fails.  Nothing obliges the client to send.             *)
Fairness ==
  /\ WF_vars(LoopWrite \/ LoopDispatch \/ LoopReturn)
  /\ WF_vars(gone /\ (ReadStop \/ ReadPreface(FALSE)))
  /\ \A s \in Streams : WF_vars(HandlerStep(s))
  /\ WF_vars(ClientRead)

FairSpec == Spec /\ Fairness

-----------------------------------------------------------------------------
(* Properties.                                                             *)

Frame ==
  [type : {"settings", "ack", "pong"}]
    \union [type : {"wupd"}, stream : Streams \union {None}, n : Nat]
    \union [type : {"headers"}, stream : Streams, hpack : Nat, end : BOOLEAN]
    \union [type : {"data"}, stream : Streams, n : Nat, end : BOOLEAN]

Pc == {"idle", "ready", "building", "roundtrip", "emit", "lock", "headers",
       "data", "done"}

Handler == [pc : Pc, req : Captured \union {None},
            snap : Fingerprint \union {None},
            resp : Response \union {None}, left : Nat]

SentOn == [state : {"idle", "open", "ended", "reset"}, body : Nat, pad : Nat,
           trailers : BOOLEAN]

Client == [win : Nat, swin : [Streams -> Nat], cur : Streams \union {None},
           decoded : Nat, got : [Streams -> Nat], answered : SUBSET Streams]

History == [ctl : Nat, first : Block \union {None}, late : BOOLEAN, pad : Nat]

\* Every variable of the connection and of its handlers keeps its type; the
\* wait-group counter and the client's windows never become negative.
TypeOK ==
  /\ loop \in {"preface", "reading", "draining", "returned"}
  /\ todo \in Seq(Frame) /\ next \in Streams \union {None}
  /\ fp \in Fingerprint /\ streams \in [Streams -> Captured \union {None}]
  /\ wg \in Nat /\ wmu \in Streams \union {None} /\ enc \in Nat
  /\ out \in Seq(Frame) /\ h \in [Streams -> Handler]
  /\ once \in {"new", "running", "built", "failed"}
  /\ mirror \in Fingerprint \union {None} /\ emitted \in Seq(Transaction)
  /\ sent \in [Streams -> SentOn] /\ cli \in Client
  /\ gone \in BOOLEAN /\ hist \in History

\* The handler goroutines that exist.
Active == {s \in Streams : h[s].pc \notin {"idle", "done"}}

\* The wait group counts exactly the live handlers, so when ServeHTTP2 returns
\* (and its caller closes the connection) no handler is left to write to it.
DrainedOnReturn ==
  /\ wg = Cardinality(Active)
  /\ loop = "returned" => Active = {} /\ wmu = None

\* What the client needs of the next frame: HPACK blocks arrive in the order
\* they were encoded, a response's HEADERS and DATA are contiguous, and no
\* frame is longer than maxFrameSize.
Fits(f) ==
  /\ f.type = "headers" => cli.cur = None /\ f.hpack = cli.decoded + 1
  /\ f.type = "data" => cli.cur = f.stream /\ f.n <= MaxFrame

\* Concurrent writeResponse calls and the loop's control frames never mix up
\* two responses or desynchronise the shared HPACK state.
ResponsesInOrder == out # <<>> => Fits(Head(out))

\* Window updates for stream s (None: the connection) the loop still has to
\* write and the client still has to read.
Updates(q, s) == {i \in 1..Len(q) : q[i] = Wupd(s, 1)}

Owed(s) == Cardinality(Updates(todo, s)) + Cardinality(Updates(out, s))

\* Flow control loses no credit except that of padding: what the client may
\* send, what is on its way back, and the padding add up to the window.
CreditConserved ==
  ~gone =>
    /\ \A s \in Streams : cli.swin[s] + Owed(s) + sent[s].pad = Window
    /\ cli.win + Owed(None) + hist.pad = Window

\* The streams map holds exactly the requests that are still incomplete, and
\* a request the client cancelled before its end is never served.
StreamTableExact ==
  \A s \in Streams :
    /\ (streams[s] # None) <=> (sent[s].state = "open" \/ next = s)
    /\ (h[s].pc # "idle") <=> (sent[s].state = "ended" /\ next # s)

\* While the client sends its connection-level frames before its first request
\* and that request has regular headers, every transaction is recorded with
\* the very fingerprint its mirror was built from.
StableFingerprint ==
  (~hist.late /\ hist.first # None /\ ~hist.first.bare) =>
    \A i \in 1..Len(emitted) : emitted[i].h2 = mirror

\* The mirror is built at most once, and never replaced.
MirrorBuiltOnce ==
  [][(once \in {"built", "failed"}) => UNCHANGED <<once, mirror>>]_vars

\* A complete request is answered unless the client vanishes.
EveryRequestAnswered ==
  \A s \in Streams :
    sent[s].state = "ended" ~> (s \in cli.answered \/ gone)

\* A vanished client does not leave the connection's goroutines behind.
VanishedClientFreed == gone ~> (loop = "returned" /\ Active = {})

\* A client whose window is used up gets credit back, though not for padding, which
\* is less than its window.
CreditReturned ==
  \A s \in Streams : cli.swin[s] = 0 ~> (cli.swin[s] > 0 \/ gone)

-----------------------------------------------------------------------------
(* What the repository says of the connection and the code does not do.    *)

\* README.md:24-25, faithful capture: "preserves header order, header casing,
\* pseudo-header order, and body bytes across HTTP/1.1 and HTTP/2": the recorded
\* body is the body that was sent.
BodyCaptured ==
  \A i \in 1..Len(emitted) :
    emitted[i].request.body = sent[emitted[i].stream].body
=============================================================================
