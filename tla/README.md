# Lebedev in TLA+

Lebedev is an intercepting HTTPS proxy: a client tunnels to it with CONNECT, it
terminates TLS with a certificate minted under its own root CA, captures each
request without normalising it, forwards it to the origin through an upstream
client that mirrors the captured client's TLS and HTTP/2 fingerprint, answers the
client, and records the exchange as a HAR entry in an SQL store that a prompt
(the REPL) drives. This directory holds TLA+ models of the parts whose
correctness depends on the order of events or on conversions that must lose
nothing, abstract specifications of what two of them promise, the TLC instances
that check all this, and proofs, for every value of the constants, of all the
safety properties: of the HTTP/2 connection, the HTTP/1.1 tunnels, the store and
what it keeps of an entry, the prompt, the HTTP/3 upgrade and the root CA.

Paths below are relative to the repository; `PROJECT.json` maps every definition
to the lines it models.

## Inventory

| Component | State | Operations | Interacts with | Hard behaviour | Correct when |
|---|---|---|---|---|---|
| `capture` HTTP/2 (`internal/capture/http2.go`) | fingerprint, streams map, wait group, write lock, HPACK encoder | one case per frame type, dispatch, writeResponse | handler callback (proxy), client frames | handlers run beside the frame loop and share its write side; trailers, resets, vanishing clients, flow-control credit | responses are intact and in order, the table is exact, the loop drains, credit returns |
| `capture` HTTP/1 (`capture.go`) | none (reader) | Read: request line, headers, body | proxy | chunked and length framing, pipelines, early ends | the request that was sent is what is parsed |
| `proxy` (`proxy.go`, `conn.go`) | per connection: raw hello, sync.Once, mirror | Serve, handle, terminate, serveH1, serveH2, emit | capture, ca, upstream, session | once under concurrency, error paths past emit | every completed exchange is recorded once, with what was sent |
| `upstream` (`upstream.go`, `http3.go`) | h3upgrade under a mutex | RoundTrip, do, racingClient, observe | origins, tls-client | shared, changing decision; lazy build that may fail | h3 only after it was advertised; no request lost |
| `session` (`session.go`, `entry.go`) | none | record, entry conversion | proxy, recorder | best-effort insert | an entry says what the transaction was |
| `store` (`internal/store`) | tables entries, logs, five child tables; connection pool | Insert, PutLog, List, Get, DeleteSession, RenameSession, Import, Export | REPL, reader | several statements per operation, several clients, one connection | rows whole, renames never merge, reads complete, no deadlock |
| `repl` (`repl.go`, `capture.go`) | current capture, listener, serveErr, in-memory store | run, stop, resume, save, import, rename, rm, quit | session, store, browser | proxy goroutines beside the prompt; kills in mid-save | one listener, the stored copy is never a mix, stop returns |
| `ca` (`ca.go`) | two files; leaf cache | LoadOrGenerate, Load, Save, LeafFor | cmd, proxy | crash between file operations, two processes | certificate and key match, the trusted root stays |
| `reader` (`reader/lebedev.go`) | a store handle | Session, Entry, queries | store | several reads without a transaction | what is returned was stored |
| `browser`, `cmd`, `har`, `model` | process handle; none | launch; start-up | repl | none that is Lebedev's own | |

The hazards, each at its line and with the properties aimed at it, are in
`PROJECT.json`.

## Modules

| Module | Models | Uses |
|---|---|---|
| `Exchange` | what the proxy promises of an exchange, over either protocol | |
| `H2Conn`, `H2Exchange` | one HTTP/2 connection; that it implements `Exchange` | `Exchange` |
| `Order` | ORDER BY and filters, without recursion, as operators | |
| `Http1` | the HTTP/1 parser and `buildRequest`, as operators | `Order` |
| `Tunnel` | connections from CONNECT to the last HTTP/1 response, the leaf cache; that they implement `Exchange` | `Http1`, `Exchange` |
| `Mirror` | the HTTP/3 upgrade of one connection's round trips | |
| `SessionStore` | what the store promises one writer | |
| `Store` | the store, statement by statement; that it implements `SessionStore` | `Order`, `SessionStore` |
| `HarEntry` | transaction, HAR entry, rows, JSON, and the ways between them, as operators | `Order` |
| `Archive` | entries through record, save, export, import, rename, delete and queries | `HarEntry` |
| `Repl` | the prompt and its captures | |
| `RootCA` | the root's files and the processes that start | |

**Exchange** is the contract both protocol handlers keep: a request is taken once
and as it was sent; it is recorded once, with the response the client is given,
before that response starts; the client receives that response; only when no
mirror could be built is an exchange refused instead. It has no notion of
streams, locks, frames or pipelines.

**H2Conn** is one intercepted HTTP/2 connection: the frame loop of `ServeHTTP2`
and one handler goroutine per complete stream, running the handler of
`proxy.serveH2`. A step of the loop is the reading of one frame with all it does
under no lock; every control frame it owes the client is a step of its own
(`LoopWrite`), because it needs the write lock and the socket. A handler passes
`once.Do`, the round trip, `emit`, the write lock, HEADERS and DATA, each a step.
Header fields are abstracted to the block they came in (two blocks differ, a bare
block has no regular header), bodies to their length. The client is an
environment that obeys HTTP/2 and may cancel a stream or vanish; the socket is a
queue of `SockBuf` frames. `rstStream` is not reached, since the handler of
`serveH2` never returns an error. Frames that the loop ignores are stuttering steps.

**H2Exchange** maps it to `Exchange`: a stream is an exchange, asked when it is
dispatched, replied to from the moment its handler holds the write lock, delivered
with the frame that ends the response. The request is computed from what the
client sent, not from what was captured, and the response from the DATA the
client counted, so a body captured or written with a piece missing, twice or
under another stream is no step of Exchange. A stream with trailers is excepted:
there the code does lose the request (`h2_body_captured`).

**Http1** is the reader of `capture.go` on a stream cut into the pieces it tells
apart: request lines by method, header lines by name, blank lines, body octets,
chunks. A reader has what it wants, needs more, or fails, and the end of the stream
is distinct from a stream that is merely late; the end inside a trailer section is
accepted, as the code does. The other half is `buildRequest` with
`framedByTransport`, and how the transport writes such a request: values of one name
together at the first place of that name in the order, Host, Content-Length and
Transfer-Encoding by the transport itself at theirs. Header names are any set
(`OtherNames`) beside the three framing ones and Connection; three methods stand for
all, since a response to HEAD has no body and only some methods (here POST) send the
length of an empty body.

**Tunnel** is `handle`: CONNECT, the ClientHello, the leaf certificate out of the
Authority's cache under its mutex (minting is a step, so others come to wait), the
handshake, then `serveH1`'s loop of head, body, round trip, emit and write. The
client may pipeline, cut a request short anywhere the parser can tell, close only
its sending side, or vanish with or without what it sent. A connection that
negotiates h2 continues as H2Conn. `TunnelImplementsExchange` maps the i-th
request of a connection to an exchange; the request is again the one the client
sent. The response is what the client reads (`Seen`): it takes no body after the
headers of an answer to HEAD, so a body that was written there puts every later
answer out of step (`InStep`), and two lengths that disagree garble an answer; both
count as another response. A HEAD whose round trip fails is such a case in the code
(below), so answers behind one are excepted (`HeadFailed`). `OriginFaithful` compares
what an origin is sent with the request the client sent: body and framing always,
the headers for a request that a header map can hold (`Tidy`): headers of one name
next to each other, the ones the transport writes itself once and there whenever it
writes them. Where they stand is free: `MCTunnel` has the form post of
`upstream_test.go`, with headers before Host, between Host and Content-Length and
behind it. For requests that are not tidy the map moves headers of one name to the
place of the first, which is how `WriteHeaders` has it.

**Store** is the database with its clients. An operation is the list of its
statements; a transaction is one step, anything may happen between two steps, and
every statement may fail, which ends the operation. Entries are told apart by id
alone, child tables by name. The connection pool is modelled because List's
cursor outlives its statement. A transaction in one step is the isolation of
SQLite; for PostgreSQL, where two statements of one transaction may see different
commits, the module says nothing. **SessionStore** is what one writer may rely
on: sessions are sequences that grow at the end, disappear whole and move whole
to a free name. The mapping takes a session to the sequence of its ids, so a save
that fails half way is a removal and some appends.

**HarEntry** has the forms of one transaction as records and the conversions as
operators: `entryFromTransaction`, `insertEntry`, `scanEntry` with its child rows,
and JSON, which replaces what is not UTF-8 (`Rune`). Cookies are read off the
headers by net/http, which leaves out a value that is not ASCII. **Archive** lets
entries go through them in any order of commands, each a step here because Store
has the interleavings inside them, and asks for them back through `Query`: filters,
globs by way of `globToLike` and the database's LIKE, order, Limit and Offset, and
a reader that pages through a session while commands run. The two ghost fields of
a stored entry, its transaction and whether it went through a document, are
what the properties compare with. `storeFor` lets the live session be exported from
memory or, by a process without that capture, from the durable store.

The durable store is SQLite or PostgreSQL (`sqlite`, chosen at the start and kept);
the memory store of a capture is always SQLite. The dialects differ in three ways
that queries and commands meet: LIKE and case (`Fold`), an OFFSET without a LIMIT
(`Fails`), and text that is not UTF-8, which PostgreSQL refuses (`Accepts`): a save
or an import then ends before that entry and keeps those before it (`Taken`). LIKE
is stated by what it means, a way to cut the url into runs that the characters of
the pattern stand for, where a backslash escapes the character behind it.
`Matches` says the same of a glob, without escapes or any character but `*` that
is special; that the two agree is `QueriesExact`, and neither is computed from the
other.

**Repl** is the prompt's thread, the serve goroutine and connections of every
capture ever started, and the durable store as sequences of entries. Waiting for
the serve goroutine, and each insert of a save or import, is a step, so goroutines
and kills come in between. Refused commands are stuttering steps.

**Mirror** is the shared HTTP/3 upgrade state of one client connection and its
concurrent round trips. Only the building of the racing client is long under the
mutex; the other critical sections are one step that needs the mutex free. An
Alt-Svc header is the set of the protocol ids it offers.

**RootCA** is the pair of CA files and the processes that look for, read or
write them, one file operation per step; `os.WriteFile` is a truncation and a
write. Any process may be killed between two operations.

The `MC…` modules instantiate these for TLC and add the symmetry sets; the
symmetric sets (streams, sessions, child tables) hold model values that are only
compared for equality, and no run with a liveness property uses symmetry. `Mut…` definitions are plausible bugs of the definition that follows
them, which the properties must detect; no specification uses them.

## Runs

| Run | Shows |
|---|---|
| `h2_conn` | the connection implements Exchange, one mirror is built, and the recorded fingerprint equals the mirror's while nothing comes late |
| `h2_live` | the loop drains its handlers, flow-control credit is conserved, the stream table is exact, responses are contiguous and in HPACK order; requests are answered, vanished clients are freed, windows are refilled |
| `tunnel` | the reader stays at request boundaries, one leaf per name, origins get the client's headers and framing, the connection implements Exchange up to a HEAD that fails, every whole request is answered |
| `store` | whole rows, overwriting saves, ordered complete reads, the store implements SessionStore for one writer, no deadlock on one connection |
| `archive` | bodies, headers and fingerprints survive every sequence of commands, queries return what they mean, pages are complete |
| `repl` | one listener, only the current session open, stored copies are beginnings of one capture, stop returns |
| `mirror` | h3 only after an offer, offers in force are honoured, every round trip returns |
| `root_ca` | with one process at a time and any crash or disk error, the pair matches and the root is reused |

Four more runs check a sentence of the repository that the code does not keep;
TLC finds each violated.

| Run | The sentence | What happens |
|---|---|---|
| `h2_body_captured` | README: body bytes are preserved | trailers start a new h2stream; headers and body are lost |
| `store_rename_merges` | "a rename never merges or clobbers" | the check is outside the transaction, so a session with entries is moved onto another one's entries; needs two writers |
| `store_partial_entry` | "a reader never sees a partially materialized entry" | child rows are read after a concurrent delete |
| `archive_verbatim` | `store_test.go:198-199`: everything but the session "must survive the HAR round trip verbatim" | a header value that is not UTF-8 is another one after export and import |

Further disagreements the models show, without a run of their own:

- A Transaction carries "the client fingerprint it was served under"
  (`proxy.go:37`), but SETTINGS, WINDOW_UPDATE and PRIORITY frames after the first
  request change the recorded fingerprint and not the mirror; `StableFingerprint`
  is what remains true.
- "Startup ensures the root CA exists" (`README.md:83`), but a first start that is
  killed between truncating and writing a file leaves an empty one that no later
  start gets past (`ReadCert`, `ReadKey`).
- "A zero-valued field imposes no constraint" (`query.go:13-14`), but an Offset
  with a zero Limit is no valid SQLite statement (`Fails`).
- A URL glob ignores the case of ASCII letters on SQLite and not on PostgreSQL
  (`Fold`).
- A HEAD whose round trip fails is answered with errorResponse and its body
  (`conn.go:94-107`), which the client takes for the start of the next response: on
  a connection that is kept alive all later answers are lost to it. An answer to HEAD
  that succeeds loses the length its origin declared: `writeH1Response` sends the
  length of the body, which is 0, though its comment calls it authoritative.
- A save or an import on PostgreSQL ends at the first entry with a header value that
  is not UTF-8 (`Taken`); on SQLite it is stored as it is.
- A 502 for a mirror that could not be built (`OnceDone`) is answered and not
  recorded, though OnTransaction is "called once per completed request/response".
- A first request without regular headers leaves the header order of the
  fingerprint to a later block (`captureHeaders`).
- Reader.Session returns a session without entries when it is deleted after
  HasSession; its comment promises ErrNotFound.
- Connections accepted before `stop` go on recording into the stopped session
  (`Record` needs no running capture), though `stop` "pauses the capture".
- `NoSpeculativeQuic` fails with two authorities on one connection: the Alt-Svc of
  one sends the first request to the other through the racing client.
- `RootReused` and `PairMatches` fail with two processes that start for the first
  time together.

### Bounds

Two streams suffice for every conflict of two handlers and the loop; a unit of
body and one of padding over a window of two exhaust it; responses of zero, one and
two frames, over the two runs, cover writeData's boundaries; a socket of one frame
lets writes block. One connection-level frame at any moment before,
between and after the requests is enough to tell snapshots apart. The store runs
have two sessions, three writing operations, which includes a failed save between
two others, and one read at any moment; two child tables stand for the five. The
prompt starts up to two captures, under one name or two, with two entries each,
and imports between. Three round trips let one build while others wait, observe
and start.

The tunnel has one connection with two pipelined requests, each a HEAD, a POST with
a length, a repeated header and headers on every side of Host and Content-Length, or
a GET that is chunked with a trailer, so that each method and framing precedes and
follows each other one, whole or cut; an origin that declares a length (which for
HEAD no body follows) or fails; and a second connection that
competes for the same name's leaf and then ends. Three requests would repeat what
the second meets: the reader carries nothing from one request to the next but its
position, which `PipelineIntact` fixes. The archive has two transactions that
between them hold bytes that are not UTF-8 in a body and a header, repeated headers
and cookies, an empty body, an upstream of another protocol and every character
LIKE reads; two sessions; both databases; four globs that between them have every
kind of character on either side of a wildcard; two entries in memory, three ever stored, which allows save, export, import under another name
and a rename of the result; pages of one entry, so that commands fall between
pages. Roots are bounded by four generations, more than one crash needs.

### Fairness

Goroutines are scheduled (weak fairness of each handler and of the loop's own
steps), the HTTP client ends each round trip by a response or a timeout, and a
client that has not vanished reads what it is sent; nothing obliges the client to
send. In Mirror the strong fairness of a trip, and in Tunnel that of `LeafFor`, stands
for Go's mutex, which hands itself to a starving waiter. In Tunnel a read from a
client that vanished fails; a client that is there but silent may keep its
goroutine for ever, since the code sets no deadline. In Store, database/sql serves waiting callers in
order and a statement with a connection ends. In Repl, Accept returns once its
listener is closed.

## Proofs

Every safety invariant, action property and refinement that a passing run checks
is proved for every value of the constants: any number of streams, connections,
writers, captures, round trips or processes, and bodies, windows, pipelines,
tables, documents and globs of any size.

| Module | Theorems (property) | Under |
|---|---|---|
| `H2ConnProofs` | `Invariant`, `TypeCorrect`, `Drained` (`DrainedOnReturn`), `StreamTable` (`StreamTableExact`), `BuiltOnce` (`MirrorBuiltOnce`) | |
| | `Fingerprints` (`StableFingerprint`), `Responses` (`ResponsesInOrder`), `Credit` (`CreditConserved`), `Implements` (`ImplementsExchange`) | |
| `TunnelProofs` | `TypeCorrect`, `OneLeaf` (`OneLeafPerName`), `Pipeline` (`PipelineIntact`), `Implements` (`TunnelImplementsExchange`), `OriginsServed` (`OriginFaithful`) | |
| `StoreProofs` | `TypeCorrect`, `Whole` (`RowsWhole`), `Reads` (`ReadsFaithful`) | |
| | `Overwrites` (`SaveOverwrites`), `Implements` (`ImplementsSessionStore`) | one writer |
| `ReplProofs` | `TypeCorrect`, `SingleListener` (`OneListener`), `CurrentOpen` (`OnlyCurrentOpen`), `DurableCopies` (`DurableFaithful`) | |
| `MirrorProofs` | `TypeCorrect`, `Upgrade` (`UpgradeHonoured`) | |
| | `NoSpeculation` (`NoSpeculativeQuic`) | one authority |
| `RootCAProofs` | `TypeCorrect` | |
| | `Matching` (`PairMatches`), `Reuse` (`RootReused`) | one process at a time |
| `ArchiveProofs` | `ArchiveInvariant`, `BodiesSurvived` (`BodiesSurvive`), `HeadersSurvived` (`HeadersSurvive`), `FingerprintFollowed` (`FingerprintFollows`), `QueriesAreExact` (`QueriesExact`), `PagesAreComplete` (`PagesComplete`) | |
| `OrderProofs` | lemmas about `Order` and sequences for the three modules that use it | |

The third column is a hypothesis of the theorem itself, each one the case the code
is written for (one prompt writes to a store, a connection has one origin, one
Lebedev runs) and each one needed: the section on runs tells what happens
otherwise. Beyond these the proofs rest on the named assumptions of the modules:
sets of actors are finite, bounds are naturals, `None` is none of the values it
stands beside, in Tunnel a client frames its requests as its headers declare
(`PeersAssumption`), and in Archive a transaction is one the proxy can record
(`InputsAssumption`): its ClientHello is not empty, since `peekClientHello` returns
one or an error; the header names of an HTTP/2 fingerprint are UTF-8, since the
framer refuses any other name; urls, header values and bodies are any bytes. A glob
that is asked for is not empty: `where` takes an empty one for none.

None of the properties is inductive alone. The strengthenings:

- **H2Conn, the table and the drain** (`Inv`). That the counter equals the number
  of live handlers needs a handler to start only for a stream that has none, which
  is what `StreamTableExact` says of the map and `next`; this in turn needs that
  `next` is a complete request and is set only while the loop reads (`LoopBusy`).
  That the lock is free on return needs it to be held only by a handler that is
  writing (`LockOwner`); that the mirror is not built again, that the one building
  handler is the one that made `once` running (`OnceOwner`); the types of recorded
  transactions, that a handler has the values its position promises
  (`HandlerData`).
- **H2Conn, the fingerprint** (`FpInv`). While nothing came late, every snapshot,
  the mirror and every record is the connection's fingerprint (`OneFingerprint`).
  That this starts true needs that nothing is asked, built or recorded before the
  first block (`BeforeFirst`), and that a request gets past `once.Do` only with a
  mirror (`MirrorBuilt`).
- **H2Conn, the responses** (`OutInv`). The client's view is only determined
  by what is on its way: the invariant follows the frames in the socket one by one
  and says what the client will know after each, up to the point where the holder
  of the lock is.
- **H2Conn, the credit** (`CreditInv`). Each window, the updates queued by the
  loop and those in the socket add up to the initial window less the padding.
  Updates are of one unit each, and the sums are cardinalities of sets of positions.
- **H2Exchange.** Adds that a handler's request is what its client sent
  (`Requests`), and that what is recorded is what a handler at that position has
  (`Records`). Every step of the loop, a handler or the client is then one step of
  Exchange or none.
- **Tunnel, the reader** (`Pipe`). What has arrived and is not parsed is, after the
  requests taken so far, the encodings of the requests sent since, in order, and at
  the end of a cut stream a beginning of one more. The lemmas say what `readHeaders`,
  `readChunked` and `readBody` return on such a stream, for a head or body of any
  length.
- **Tunnel, the leaves** (`Leaves`). The mutex is held by exactly the connection that
  mints, for a name that has no leaf.
- **Tunnel, the exchanges** (`Books`). As many answers are written as requests were
  taken, the one being served excepted; a recorded request was taken; a connection
  about to write has recorded what it writes. With `Pipe`, the request served is
  the one sent under its number. `MessageIs` says that a client in step reads off a
  message the response it was made of, whatever lengths and encodings an origin
  declares; `Heads` that a message answers HEAD with a body only when that HEAD
  failed, so a client is in step until one does (`SeenRight`).
- **Tunnel, the origin** (`Origins`). `WriteTidy` shows that what `buildRequest`
  and the transport's writer make of a tidy request are its own headers: the parts
  written for each name are cut out of the client's sequence at the ends of its
  groups, and those the transport writes itself are groups of one.
- **Store** (`Inv`, and `Alone` for one writer). Ids are unique and grow, rows are
  whole (`Tables`), every client has statements left that its operation may have
  (`Planned`), the rows it has read are in order and complete as far as they are
  loaded and still stored (`Reading`), and it does not end before it loaded all
  (`Loading`). For one writer, the new name of a rename stays free until its
  transaction (`Free`), and the stored session is compared with the progress of the
  save at each of its statements (`Saved`).
- **Repl** (`Inv`). A serve goroutine that has not returned has sent nothing
  (`NotSent`); what a save has stored and what it has left are one capture, which
  is no longer than what that capture recorded (`Saving`); an import has only its
  document's entries left (`Importing`); the prompt waits only for a capture that
  is there (`Waiting`).
- **Mirror** (`Inv`). Only an HTTP/2 client asks for h3, observes and races (`OnlyH2`);
  nobody builds when the client is there (`BuildOnce`); a trip is armed only while
  the advertisement is in force (`ArmedInForce`); the advertisement, and whatever
  followed from it, comes from some authority (`Offered`), which is the only one
  under the hypothesis.
- **RootCA** (`Inv`). The key is written last: a key file that is there belongs to the
  certificate, and a key that decodes is the certificate's (`KeyLast`). `OnDisk`
  says what each position of a start means for the files, `ServedOnDisk` that a root
  that was served is the one on disk.

- **Archive** (`Inv`). The properties speak of what is read back, so the invariant
  says what is stored: every row is `RowOf(s, tx, json)`, a row written down field
  by field from the transaction, its session, and whether it has been through a
  document. It is kept because each conversion takes such a form to another one:
  `InsertIs` and `ScanIs` for rows and entries (the child tables, sorted by seq,
  give back the list that was numbered, `LoadIs`), `EntryJson` for a document,
  which changes an entry once and then never again (`StringTwice`), and
  `RowRenamed`. Bodies, headers, cookies and fingerprint are then read off the form.
  For pages, ids in a store grow and are never reused (`Increasing`, `Upmost`), and
  a reader whose session was not touched has a beginning of the sorted ids of that
  session (`Reads`); inserts add ids at the end of it (`SortedUnion`), so OFFSET
  goes on where the last page ended.
- **Archive, the globs** (`LikeIs`). A pattern is the pieces of the glob's
  characters, one behind the other, and marks tell where each ends (`Marks`).
  There is one set of escaped places in a pattern (`EscapesOnce`, by a least
  difference), and it is the ends of the pieces of special characters
  (`EndsEscaped`), so LIKE reads every `%`, `_` and backslash of the glob as itself.
  A way to cut the url for one is then made into one for the other, piece by piece.

The recursive functions that the proofs meet are unfolded where they can be
without induction: a property of all positions of a sequence is shown for a least
counterexample (`Least`, from well-foundedness of the naturals), and what
`FlattenSeq` computes by giving the function it defines (`FlattenParts`) or by
building it up to a least length that fails (`FlattenIs`).

Only model-checked is liveness (`EveryRequestAnswered`, `VanishedClientFreed`,
`CreditReturned`, `RequestsAnswered`, `OperationsEnd`, `StopReturns`,
`EveryTripReturns`): fairness and ENABLED are outside what the prover handles. The
four runs that refute a sentence of the repository are TLC's by nature.

## Not modelled

- The TLS handshake, ClientHello parsing, frame and HPACK coding, x509 and the
  tls-client transport: libraries. H2Conn and Tunnel have their outcomes.
- The construction of TLS, HTTP/2 and HTTP/3 profiles: a data conversion from
  the ClientHello for that transport, without state or order.
- PostgreSQL's READ COMMITTED inside one transaction (see the hazard at
  `sessions.go:47`).
- Fields that only pass through: query parameters, timings, cache states,
  comments, remote addresses, and HAR pages, which an import drops (no code
  writes or reads the pages table). Cookie syntax is net/http's.
- `ListWhere` and `Reader.Where`: a raw SQL predicate of the caller.
- The random order in which `flattenHeaders` visits an HTTP response's header
  names; values of one name keep their order.
- One header name in two spellings within a request, and the headers that fhttp adds
  to a request that has none of them (a User-Agent, Accept-Encoding).
- NUL bytes, which PostgreSQL refuses: the insert fails, which in Store is a failed
  statement. (Text that is not UTF-8 is in Archive.)
- A Stat that fails for another reason than absence (`ca.go:246`).
- The browser launcher, flag parsing, printing.

## Plan

1. Done: the models of H2Conn, Tunnel with the HTTP/1 parser, Store, HarEntry and
   Archive, Repl, Mirror and RootCA; Exchange implemented by H2Conn and Tunnel,
   SessionStore implemented by Store; every safety property of them proved.
2. Next: statement-level transactions for PostgreSQL, and Repl over SessionStore.
