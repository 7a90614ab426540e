------------------------------ MODULE HarEntry ------------------------------
(***************************************************************************)
(* The forms one captured transaction takes: the HAR entry it is recorded  *)
(* as (internal/session/entry.go), the rows of the store                   *)
(* (internal/store) and the JSON document of an export, as operators.      *)
(*                                                                         *)
(* A string is a sequence of characters.  "bad" stands for a byte that is  *)
(* not UTF-8, "fffd" for the character Go puts in its place; all other     *)
(* characters are themselves.  A method or a name is one character.  A     *)
(* base64 text is one that stands for its bytes.  A field that may be      *)
(* absent is a sequence of at most one value.                              *)
(***************************************************************************)
EXTENDS Order, SequencesExt

Plain(s)  == [form |-> "plain", of |-> s]
Base64(s) == [form |-> "base64", of |-> s]

Header(n, v) == [name |-> n, value |-> v]

Valid(s) == \A i \in DOMAIN s : s[i] # "bad"

-----------------------------------------------------------------------------
(* entryFromTransaction.                                                   *)

\* Mutant: bytes that are not UTF-8 go into the text as they are.
MutBodyText(body) == [text |-> Plain(body), encoding |-> ""]

bodyText(body) ==
  IF Valid(body) THEN [text |-> Plain(body), encoding |-> ""]
                 ELSE [text |-> Base64(body), encoding |-> "base64"]

\* The value of the first header of a name, or nothing.
headerValue(hs, name) ==
  LET i == SelectInSeq(hs, LAMBDA h : h.name = name)
  IN  IF i = 0 THEN <<>> ELSE hs[i].value

\* The cookies of one header name in order; net/http (external) parses each and
\* leaves out a value that is not ASCII.
cookies(hs, name) ==
  At(hs, {i \in DOMAIN hs : /\ hs[i].name = name
                            /\ \A x \in DOMAIN hs[i].value :
                                 hs[i].value[x] \notin {"bad", "fffd"}})

requestEntry(r) ==
  [method |-> r.method, url |-> r.url, proto |-> r.proto,
   cookies |-> cookies(r.headers, "cookie"), headers |-> r.headers,
   bodySize |-> Len(r.body),
   post |-> IF r.body = <<>> THEN <<>> ELSE <<bodyText(r.body)>>]

responseProto(r, p) == IF p.proto # "" THEN p.proto ELSE r.proto

responseEntry(r, p) ==
  [status |-> p.status, proto |-> responseProto(r, p),
   cookies |-> cookies(p.headers, "set-cookie"), headers |-> p.headers,
   bodySize |-> Len(p.body), mime |-> headerValue(p.headers, "content-type"),
   content |-> bodyText(p.body)]

\* The mirrored fingerprint without its priorities: the header order.
http2Fingerprint(fp) == fp.headerOrder

lebedevMeta(id, tx) ==
  [session |-> id, hello |-> tx.hello,
   upstream |-> IF tx.resp.proto \notin {"", tx.req.proto}
                THEN tx.resp.proto ELSE "",
   http2 |-> IF tx.req.proto = "HTTP/2.0"
             THEN <<http2Fingerprint(tx.h2)>> ELSE <<>>]

entryFromTransaction(id, tx) ==
  [request |-> requestEntry(tx.req), response |-> responseEntry(tx.req, tx.resp),
   lebedev |-> <<lebedevMeta(id, tx)>>]

-----------------------------------------------------------------------------
(* encoding/json (external): writing a string replaces what is not UTF-8.  *)

\* What a byte that is not UTF-8 is decoded to.
Rune(ch) == IF ch = "bad" THEN "fffd" ELSE ch

JsonString(s) == [i \in DOMAIN s |-> Rune(s[i])]

JsonBody(b) ==
  [b EXCEPT !.text = IF @.form = "base64" THEN @ ELSE Plain(JsonString(@.of))]

JsonBodies(bs) == [i \in DOMAIN bs |-> JsonBody(bs[i])]

JsonHeader(h) == [name |-> Rune(h.name), value |-> JsonString(h.value)]

JsonHeaders(hs) == [i \in DOMAIN hs |-> JsonHeader(hs[i])]

JsonHttp2(fps) ==
  [i \in DOMAIN fps |-> [j \in DOMAIN fps[i] |-> JsonString(fps[i][j])]]

JsonRequest(q) ==
  [q EXCEPT !.method = Rune(@), !.url = JsonString(@), !.cookies = JsonHeaders(@),
            !.headers = JsonHeaders(@), !.post = JsonBodies(@)]

JsonResponse(p) ==
  [p EXCEPT !.cookies = JsonHeaders(@), !.headers = JsonHeaders(@),
            !.mime = JsonString(@), !.content = JsonBody(@)]

JsonEntry(e) ==
  [e EXCEPT !.request = JsonRequest(@), !.response = JsonResponse(@)]

-----------------------------------------------------------------------------
(* The rows of an entry: columns, and child rows numbered by seq.          *)

ChildRows(table, kind, s) ==
  {[table |-> table, kind |-> kind, seq |-> i - 1, value |-> s[i]] : i \in DOMAIN s}

NoBody == [text |-> Plain(<<>>), encoding |-> ""]

\* insertEntry: the owning session is the argument's, never the entry's own.
insertEntry(session, e) ==
  LET q  == e.request
      p  == e.response
      lb == IF e.lebedev = <<>>
            THEN [hello |-> "", upstream |-> "", http2 |-> <<>>] ELSE e.lebedev[1]
  IN  [session |-> session, method |-> q.method, url |-> q.url,
       reqProto |-> q.proto, reqSize |-> q.bodySize,
       hasPost |-> Len(q.post), post |-> IF q.post = <<>> THEN NoBody ELSE q.post[1],
       status |-> p.status, respProto |-> p.proto, respSize |-> p.bodySize,
       mime |-> p.mime, content |-> p.content,
       hello |-> lb.hello, upstream |-> lb.upstream,
       http2 |-> JsonHttp2(lb.http2),
       kids |-> ChildRows("headers", "request", q.headers)
                  \union ChildRows("headers", "response", p.headers)
                  \union ChildRows("cookies", "request", q.cookies)
                  \union ChildRows("cookies", "response", p.cookies)]

\* Mutant: the rows come in the order the list of entries has by default.
MutLoad(row, table, kind) ==
  LET rs == {k \in row.kids : k.table = table /\ k.kind = kind}
      at == Sorted({k.seq : k \in rs})
  IN  [i \in DOMAIN at |-> (CHOOSE k \in rs : k.seq = at[Len(at) + 1 - i]).value]

\* loadHeaders, loadCookies: the child rows of one kind, ORDER BY seq.
load(row, table, kind) ==
  LET rs == {k \in row.kids : k.table = table /\ k.kind = kind}
      at == Sorted({k.seq : k \in rs})
  IN  [i \in DOMAIN at |-> (CHOOSE k \in rs : k.seq = at[i]).value]

\* Mutant: a fingerprint is rebuilt only for HTTP/2.
MutBuildLebedev(row) ==
  IF row.http2 = <<>> THEN <<>>
  ELSE <<[session |-> row.session, hello |-> row.hello,
          upstream |-> row.upstream, http2 |-> row.http2]>>

\* buildLebedev: the session of the row, and nothing when nothing was stored.
buildLebedev(row) ==
  IF row.hello = "" /\ row.upstream = "" /\ row.http2 = <<>> THEN <<>>
  ELSE <<[session |-> row.session, hello |-> row.hello,
          upstream |-> row.upstream, http2 |-> row.http2]>>

\* scanEntry and loadChildren: the entry of a row.
scanEntry(row) ==
  [request |-> [method |-> row.method, url |-> row.url, proto |-> row.reqProto,
                cookies |-> load(row, "cookies", "request"),
                headers |-> load(row, "headers", "request"),
                bodySize |-> row.reqSize,
                post |-> IF row.hasPost = 1 THEN <<row.post>> ELSE <<>>],
   response |-> [status |-> row.status, proto |-> row.respProto,
                 cookies |-> load(row, "cookies", "response"),
                 headers |-> load(row, "headers", "response"),
                 bodySize |-> row.respSize, mime |-> row.mime,
                 content |-> row.content],
   lebedev |-> buildLebedev(row)]
=============================================================================
