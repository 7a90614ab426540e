------------------------------- MODULE Archive ------------------------------
(***************************************************************************)
(* The life of recorded entries: recorded into the memory store of the     *)
(* live capture (internal/session), saved into the durable store, exported *)
(* as a HAR document, imported again, renamed, deleted, and listed by      *)
(* filters and pages (internal/store, reader).                             *)
(*                                                                         *)
(* Every command is one step here; Store has the interleavings within      *)
(* them.  An entry carries the transaction it was made of, and whether it  *)
(* has been through a document; neither is known to the program.           *)
(***************************************************************************)
EXTENDS HarEntry

CONSTANTS
  Transactions,  \* what the proxy records
  Sessions,      \* session ids
  Live,          \* the session of the live capture
  Empty,         \* the empty string, where a filter or a file is absent
  Globs,         \* URL globs that are asked for
  PageSize,      \* the Limit of a reader's pages
  MaxMem, MaxRows, MaxIds  \* bounds: entries in memory, stored, ever stored

\* Text and headers as they come from the network.
Text == Seq(STRING)
Headers == Seq([name : STRING, value : Text])

ASSUME ArchiveAssumption ==
  /\ Live \in Sessions /\ Empty \notin Sessions
  /\ PageSize \in Nat \ {0}
  /\ MaxMem \in Nat /\ MaxRows \in Nat /\ MaxIds \in Nat

\* A glob that is empty is not asked for (where).  A transaction has the hello
\* that peekClientHello read, and header names that the http2 framer checked.
ASSUME InputsAssumption ==
  /\ \A glob \in Globs : glob \in Text /\ glob # <<>>
  /\ \A tx \in Transactions :
       /\ tx.hello # ""
       /\ tx.h2.headerOrder \in Seq(Text)
       /\ \A i \in DOMAIN tx.h2.headerOrder : Valid(tx.h2.headerOrder[i])
       /\ tx.req.url \in Text /\ tx.req.headers \in Headers /\ tx.req.body \in Text
       /\ tx.resp.headers \in Headers /\ tx.resp.body \in Text

VARIABLES
  sqlite,   \* the dialect of the durable store: SQLite or PostgreSQL
  mem,      \* the rows of the memory store, in order of id
  durable,  \* the rows of the durable store, in order of id
  lastId,   \* ids of the durable store are never reused
  doc,      \* the last exported document: session and entries, or none
  pager     \* a reader that pages through a session of the durable store

vars == <<sqlite, mem, durable, lastId, doc, pager>>

\* An entry in a store: its id, its row, and where it comes from.
Stored(id, row, tx, json) == [id |-> id, row |-> row, tx |-> tx, json |-> json]

NoPager == [session |-> Empty, seen |-> <<>>, start |-> {}, intact |-> TRUE,
            done |-> FALSE]

Init ==
  /\ sqlite \in BOOLEAN
  /\ mem = <<>> /\ durable = <<>> /\ lastId = 0
  /\ doc = [session |-> Empty, entries |-> <<>>]
  /\ pager = NoPager

-----------------------------------------------------------------------------
(* Query.                                                                  *)

\* Mutant: a character of LIKE stands for itself in a glob.
MutGlobToLike(glob) == 
  [i \in DOMAIN glob |-> IF glob[i] = "*" THEN "%" ELSE glob[i]]

\* globToLike: "*" becomes "%", and what LIKE would read is escaped.
globToLike(glob) ==
  FlattenSeq([i \in DOMAIN glob |->
                CASE glob[i] = "*" -> <<"%">>
                  [] glob[i] \in {"%", "_", "\\"} -> <<"\\", glob[i]>>
                  [] OTHER -> <<Rune(glob[i])>>])

\* SQLite's LIKE takes the two cases of an ASCII letter for one (external).
Fold(ch) == IF sqlite /\ ch = "A" THEN "a" ELSE ch

\* url LIKE pattern ESCAPE '\' (external): some characters of the pattern are
\* escaped by the one before, and it cuts the url into runs, none for an escape.
Like(p, u) ==
  \E lit \in SUBSET DOMAIN p :
    /\ \A i \in DOMAIN p : i \in lit <=> i > 1 /\ p[i - 1] = "\\" /\ i - 1 \notin lit
    /\ \E cut \in [1..(Len(p) + 1) -> 0..Len(u)] :
         /\ cut[1] = 0 /\ cut[Len(p) + 1] = Len(u)
         /\ \A i \in DOMAIN p :
              CASE p[i] = "\\" /\ i \notin lit -> i < Len(p) /\ cut[i + 1] = cut[i]
                [] p[i] = "%" /\ i \notin lit -> cut[i] <= cut[i + 1]
                [] OTHER -> /\ cut[i + 1] = cut[i] + 1
                            /\ \/ p[i] = "_" /\ i \notin lit
                               \/ Fold(u[cut[i + 1]]) = Fold(p[i])

\* A zero-valued field imposes no constraint.
AnyEntry == [session |-> Empty, method |-> Empty, glob |-> <<>>, status |-> 0,
             mime |-> <<>>, limit |-> 0, offset |-> 0, ascending |-> FALSE]

where(q, row) ==
  /\ q.session = Empty \/ row.session = q.session
  /\ q.method = Empty \/ row.method = q.method
  /\ q.status = 0 \/ row.status = q.status
  /\ q.mime = <<>> \/ row.mime = q.mime
  /\ q.glob = <<>> \/ Like(globToLike(q.glob), row.url)

\* Mutant: pages are cut from the default order.
MutOrdered(q, s) == Reverse(s)

\* ORDER BY id, of rows in order of id.
Ordered(q, s) == IF q.ascending THEN s ELSE Reverse(s)

\* SQLite has no OFFSET without a LIMIT.
Fails(q) == sqlite /\ q.limit = 0 /\ q.offset > 0

\* The rows that meet the filters of q.
Matching(store, q) == At(store, {i \in DOMAIN store : where(q, store[i].row)})

\* List: the matching rows of a store, in order, cut to the page.
List(store, q) ==
  LET all == Ordered(q, Matching(store, q))
      end == IF q.limit > 0 /\ q.offset + q.limit < Len(all)
             THEN q.offset + q.limit ELSE Len(all)
  IN  IF Fails(q) THEN <<>> ELSE SubSeq(all, q.offset + 1, end)

\* Count ignores Limit and Offset.
Count(store, q) == Len(Matching(store, q))

\* Get: the row of an id, or none.
Get(store, id) == At(store, {i \in DOMAIN store : store[i].id = id})

\* Hydrate: the rows of ids in the order asked, without those that are gone.
Hydrate(store, ids) == FlattenSeq([i \in DOMAIN ids |-> Get(store, ids[i])])

\* Reader.Entry: an id is only found under the session it belongs to.
Entry(store, session, id) ==
  LET g == Get(store, id) IN At(g, {i \in DOMAIN g : g[i].row.session = session})

\* The query of a whole session, in insertion order.
Whole(s) == [AnyEntry EXCEPT !.session = s, !.ascending = TRUE]

-----------------------------------------------------------------------------
(* Commands.                                                               *)

\* Session.record: the entry goes into the memory store of the capture.
Record(tx) ==
  /\ Len(mem) < MaxMem
  /\ mem' = Append(mem, Stored(Len(mem) + 1,
              insertEntry(Live, entryFromTransaction(Live, tx)), tx, FALSE))
  /\ UNCHANGED <<sqlite, durable, lastId, doc, pager>>

Without(s) ==
  At(durable, {i \in DOMAIN durable : durable[i].row.session # s})

\* PostgreSQL refuses text that is not UTF-8 (external); JSON would replace it.
Accepts(e) == sqlite \/ JsonEntry(e) = e

\* Insert in turn: the entries before the first that is refused.
Taken(es) ==
  LET no == SelectInSeq(es, LAMBDA e : ~Accepts(e.entry))
  IN  IF no = 0 THEN es ELSE SubSeq(es, 1, no - 1)

\* The entries es (with where they come from) stored under s, after the rows rs.
Inserted(rs, s, es) ==
  rs \o [i \in DOMAIN es |->
           Stored(lastId + i, insertEntry(s, es[i].entry), es[i].tx, es[i].json)]

\* What List returns: the entries of rows.
Entries(rs) ==
  [i \in DOMAIN rs |->
     [entry |-> scanEntry(rs[i].row), tx |-> rs[i].tx, json |-> rs[i].json]]

MayStore(n, rows) == lastId + n <= MaxIds /\ Len(rows) + n <= MaxRows

\* A page that is being read no longer covers a session whose rows move.
Disturb(S) == pager' = [pager EXCEPT !.intact = @ /\ pager.session \notin S]

\* cmdSave: the rows in memory replace the stored copy.
Save ==
  LET all == Entries(List(mem, Whole(Live)))
      es  == Taken(all)
  IN
  /\ all # <<>> /\ MayStore(Len(es), Without(Live))
  /\ durable' = Inserted(Without(Live), Live, es)
  /\ lastId' = lastId + Len(es)
  /\ Disturb({Live})
  /\ UNCHANGED <<sqlite, mem, doc>>

\* storeFor: the live session is read from memory by the process whose capture it
\* is, and from the durable store, as others are, by one without that capture.
storeFor(s) == IF s = Live THEN {mem, durable} ELSE {durable}

\* cmdExport: the entries of a session, in order, as a document.
Export(s, store) ==
  LET es == Entries(List(store, Whole(s))) IN
  /\ doc' = [session |-> s,
             entries |-> [i \in DOMAIN es |->
               [entry |-> JsonEntry(es[i].entry), tx |-> es[i].tx, json |-> TRUE]]]
  /\ UNCHANGED <<sqlite, mem, durable, lastId, pager>>

\* cmdImport: the document's entries are appended under s.
Import(s) ==
  LET es == Taken(doc.entries) IN
  /\ doc.session # Empty /\ MayStore(Len(es), durable)
  /\ durable' = Inserted(durable, s, es)
  /\ lastId' = lastId + Len(es)
  /\ UNCHANGED <<sqlite, mem, doc, pager>>

\* RenameSession: only to a name without entries.
RenameSession(old, new) ==
  /\ old # new /\ Count(durable, Whole(new)) = 0
  /\ durable' = [i \in DOMAIN durable |->
                   IF durable[i].row.session = old
                   THEN [durable[i] EXCEPT !.row.session = new] ELSE durable[i]]
  /\ Disturb({old, new})
  /\ UNCHANGED <<sqlite, mem, lastId, doc>>

DeleteSession(s) ==
  /\ durable' = Without(s)
  /\ Disturb({s})
  /\ UNCHANGED <<sqlite, mem, lastId, doc>>

Ids(rs) == [i \in DOMAIN rs |-> rs[i].id]

\* A reader pages through a session, oldest first.
PageStart(s) ==
  /\ pager = NoPager
  /\ pager' = [NoPager EXCEPT !.session = s, !.start = ToSet(Ids(List(durable, Whole(s))))]
  /\ UNCHANGED <<sqlite, mem, durable, lastId, doc>>

\* It asks for the page after what it has, until one comes short.
PageNext ==
  LET page == List(durable, [Whole(pager.session) EXCEPT !.limit = PageSize,
                                                         !.offset = Len(pager.seen)])
  IN
  /\ pager.session # Empty /\ ~pager.done
  /\ pager' = [pager EXCEPT !.seen = @ \o Ids(page), !.done = Len(page) < PageSize]
  /\ UNCHANGED <<sqlite, mem, durable, lastId, doc>>

Next ==
  \/ \E tx \in Transactions : Record(tx)
  \/ Save \/ PageNext
  \/ \E s \in Sessions : \E store \in storeFor(s) : Export(s, store)
  \/ \E s \in Sessions : Import(s) \/ DeleteSession(s) \/ PageStart(s)
  \/ \E old, new \in Sessions : RenameSession(old, new)

Spec == Init /\ [][Next]_vars

-----------------------------------------------------------------------------
(* Properties.                                                             *)

\* Entries, with the session they are under.
Under(es, s) == {[of |-> e, session |-> s] : e \in ToSet(es)}

\* Everything that holds an entry: what is read from the stores, and the document.
ReadFrom(store) == UNION {Under(Entries(List(store, Whole(s))), s) : s \in Sessions}
Held == ReadFrom(mem) \union ReadFrom(durable) \union Under(doc.entries, doc.session)

\* The bytes a consumer decodes from a HAR text and its encoding.
Decode(b) ==
  IF b.encoding = "base64" /\ b.text.form # "base64" THEN <<"garbled">> ELSE b.text.of

\* entry.go:24-25 and 159-160: whatever way an entry has taken, the bodies of
\* its transaction decode from it byte for byte, and no body stays none.
BodiesSurvive ==
  \A h \in Held :
    LET e == h.of.entry
        b == h.of.tx.req.body
    IN  /\ [i \in DOMAIN e.request.post |-> Decode(e.request.post[i])]
             = IF b = <<>> THEN <<>> ELSE <<b>>
        /\ Decode(e.response.content) = h.of.tx.resp.body
        /\ e.request.bodySize = Len(b)

\* What is left of a text: a document has none that is not UTF-8.
Through(json, s) == IF json THEN JsonString(s) ELSE s

\* The headers hs as they were, but for texts that are not UTF-8 when lossy.
Kept(lossy, hs, was) ==
  /\ Len(hs) = Len(was)
  /\ \A i \in DOMAIN was :
       /\ hs[i].name = was[i].name \/ (lossy /\ ~Valid(<<was[i].name>>))
       /\ hs[i].value = was[i].value \/ (lossy /\ ~Valid(was[i].value))

\* Headers and cookies keep their order, duplicates and values whatever way an
\* entry has taken; of one that has been in a document this is claimed for text
\* that is UTF-8 (HeadersVerbatim has the rest).
HeadersSurvive ==
  \A h \in Held :
    LET e == h.of.entry
    IN  /\ Kept(h.of.json, e.request.headers, h.of.tx.req.headers)
        /\ Kept(h.of.json, e.response.headers, h.of.tx.resp.headers)
        /\ e.request.cookies = cookies(e.request.headers, "cookie")
        /\ e.response.cookies = cookies(e.response.headers, "set-cookie")

\* The fingerprint stays with its entry for good, and the session it names is
\* the one the entry is under, after every rename, save and import.
FingerprintFollows ==
  \A h \in Held : h.of.entry.lebedev = <<lebedevMeta(h.session, h.of.tx)>>

\* A glob by its meaning: the url is cut into runs, one for each character of
\* the glob, of any length for "*" and the same character for others.
Matches(glob, u) ==
  \E cut \in [1..(Len(glob) + 1) -> 0..Len(u)] :
    /\ cut[1] = 0 /\ cut[Len(glob) + 1] = Len(u)
    /\ \A i \in DOMAIN glob :
         IF glob[i] = "*" THEN cut[i] <= cut[i + 1]
         ELSE cut[i + 1] = cut[i] + 1 /\ Fold(u[cut[i + 1]]) = Fold(Rune(glob[i]))

\* query.go:13-19 and 352-353: only "*" is a wildcard in a URL glob, a list is
\* in order of insertion or its reverse, and Count counts what a list without
\* a page returns.
QueriesExact ==
  \A glob \in Globs :
    LET q   == [AnyEntry EXCEPT !.glob = glob]
        ids == Ids(List(durable, [q EXCEPT !.ascending = TRUE]))
    IN  /\ ToSet(ids) = {st.id : st \in
                           {s \in ToSet(durable) :
                              Matches(glob, Through(s.json, s.tx.req.url))}}
        /\ \A i, j \in DOMAIN ids : i < j => ids[i] < ids[j]
        /\ Ids(List(durable, q)) = Reverse(ids)
        /\ Count(durable, q) = Len(ids)

\* A reader that pages through a session while others record, import and save
\* elsewhere sees each entry that was there when it began once, in order, and
\* can look up every id it was given.
PagesComplete ==
  pager.done /\ pager.intact =>
    /\ \A i, j \in DOMAIN pager.seen : i < j => pager.seen[i] < pager.seen[j]
    /\ pager.start \subseteq ToSet(pager.seen)
    /\ Ids(Hydrate(durable, pager.seen)) = pager.seen
    /\ \A id \in ToSet(pager.seen) : Entry(durable, pager.session, id) # <<>>

-----------------------------------------------------------------------------
(* What the repository says and the code does not do.                      *)

\* store_test.go:198-199, of an entry that is exported and imported again: all
\* but its session "must survive the HAR round trip verbatim".
HeadersVerbatim ==
  \A h \in ReadFrom(durable) :
    /\ h.of.entry.request.headers = h.of.tx.req.headers
    /\ h.of.entry.response.headers = h.of.tx.resp.headers
=============================================================================
