---------------------------- MODULE ArchiveProofs ---------------------------
(***************************************************************************)
(* Theorems about Archive.                                                 *)
(***************************************************************************)
EXTENDS Archive, OrderProofs
-----------------------------------------------------------------------------
(* JSON: writing a text twice changes no more than writing it once.        *)

\* A rune is written as itself.
LEMMA RuneTwice ==
  ASSUME NEW ch
  PROVE  Rune(Rune(ch)) = Rune(ch) /\ Rune(ch) # "bad"
  BY DEF Rune

\* A string that was written is UTF-8.
LEMMA StringTwice ==
  ASSUME NEW s
  PROVE  JsonString(JsonString(s)) = JsonString(s) /\ DOMAIN JsonString(s) = DOMAIN s
<1>1. PICK t : t = JsonString(s)
  OBVIOUS
<1>2. DOMAIN t = DOMAIN s /\ \A i \in DOMAIN s : t[i] = Rune(s[i])
  BY <1>1 DEF JsonString
<1>3. JsonString(t) = [i \in DOMAIN s |-> Rune(t[i])]
  BY <1>2 DEF JsonString
<1>4. \A i \in DOMAIN s : Rune(t[i]) = Rune(s[i])
  BY <1>2, RuneTwice
<1>5. JsonString(t) = t
  BY <1>1, <1>3, <1>4 DEF JsonString
<1> QED
  BY <1>1, <1>2, <1>5

\* UTF-8 is written as it is.
LEMMA StringValid ==
  ASSUME NEW s \in Text, Valid(s)
  PROVE  JsonString(s) = s
<1>1. s = [i \in DOMAIN s |-> s[i]]
  BY DEF Text
<1>2. \A i \in DOMAIN s : Rune(s[i]) = s[i]
  BY DEF Valid, Rune
<1> QED
  BY <1>1, <1>2 DEF JsonString

\* So it is of headers.
LEMMA HeadersTwice ==
  ASSUME NEW hs
  PROVE  JsonHeaders(JsonHeaders(hs)) = JsonHeaders(hs)
<1>1. PICK t : t = JsonHeaders(hs)
  OBVIOUS
<1>2. DOMAIN t = DOMAIN hs /\ \A i \in DOMAIN hs : t[i] = JsonHeader(hs[i])
  BY <1>1 DEF JsonHeaders
<1>3. \A i \in DOMAIN hs : JsonHeader(t[i]) = JsonHeader(hs[i])
  <2> SUFFICES ASSUME NEW i \in DOMAIN hs PROVE JsonHeader(t[i]) = JsonHeader(hs[i])
    OBVIOUS
  <2>1. t[i].name = Rune(hs[i].name) /\ t[i].value = JsonString(hs[i].value)
    BY <1>2 DEF JsonHeader
  <2>2. Rune(t[i].name) = Rune(hs[i].name) /\ JsonString(t[i].value) = JsonString(hs[i].value)
    BY <2>1, RuneTwice, StringTwice
  <2> QED
    BY <2>2 DEF JsonHeader
<1>4. JsonHeaders(t) = [i \in DOMAIN hs |-> JsonHeader(t[i])]
  BY <1>2 DEF JsonHeaders
<1>5. JsonHeaders(t) = t
  BY <1>1, <1>3, <1>4 DEF JsonHeaders
<1> QED
  BY <1>1, <1>5

\* A body, field by field.
LEMMA BodyFields ==
  ASSUME NEW t, NEW enc, NEW x, x = [text |-> t, encoding |-> enc], NEW y, y = JsonBody(x)
  PROVE  y = [text |-> IF t.form = "base64" THEN t ELSE Plain(JsonString(t.of)),
              encoding |-> enc]
  BY DEF JsonBody

\* An entry, field by field.
LEMMA EntryFields ==
  ASSUME NEW q, NEW p, NEW lb, NEW e,
         e = [request |-> q, response |-> p, lebedev |-> lb], NEW f, f = JsonEntry(e)
  PROVE  f = [request |-> JsonRequest(q), response |-> JsonResponse(p), lebedev |-> lb]
  BY DEF JsonEntry

\* A body's text is UTF-8 already, or base64.
LEMMA BodyJson ==
  ASSUME NEW b \in Text
  PROVE  JsonBody(bodyText(b)) = bodyText(b)
<1>1. PICK t, x, y : t = bodyText(b).text /\ x = bodyText(b) /\ y = JsonBody(x)
  OBVIOUS
<1>2. CASE Valid(b)
  <2>1. x = [text |-> t, encoding |-> ""] /\ t = [form |-> "plain", of |-> b]
    BY <1>1, <1>2 DEF bodyText, Plain
  <2>2. t.form # "base64" /\ t.of = b
    BY <2>1
  <2>3. y = [text |-> Plain(JsonString(t.of)), encoding |-> ""]
    BY <1>1, <2>1, <2>2, BodyFields
  <2>4. Plain(JsonString(t.of)) = t
    BY <1>2, <2>1, <2>2, StringValid DEF Plain
  <2> QED
    BY <1>1, <2>1, <2>3, <2>4
<1>3. CASE ~Valid(b)
  <2>1. x = [text |-> t, encoding |-> "base64"] /\ t = [form |-> "base64", of |-> b]
    BY <1>1, <1>3 DEF bodyText, Base64
  <2>2. t.form = "base64"
    BY <2>1
  <2>3. y = [text |-> t, encoding |-> "base64"]
    BY <1>1, <2>1, <2>2, BodyFields
  <2> QED
    BY <1>1, <2>1, <2>3
<1> QED
  BY <1>2, <1>3

\* What the framer let through is written as it is.
LEMMA Http2Json ==
  ASSUME NEW q \in Seq(Text), \A i \in DOMAIN q : Valid(q[i])
  PROVE  JsonHttp2(<<q>>) = <<q>> /\ JsonHttp2(<<>>) = <<>>
<1>1. \A i \in DOMAIN q : JsonString(q[i]) = q[i]
  BY StringValid
<1>2. [j \in DOMAIN q |-> JsonString(q[j])] = q
  BY <1>1
<1>3. JsonHttp2(<<q>>) = [i \in 1..1 |-> [j \in DOMAIN q |-> JsonString(q[j])]]
  BY DEF JsonHttp2
<1>4. [i \in 1..1 |-> q] = <<q>>
  OBVIOUS
<1>5. JsonHttp2(<<>>) = <<>>
  BY DEF JsonHttp2
<1> QED
  BY <1>2, <1>3, <1>4, <1>5

\* The body that a request carries, if any.
Post(b) == IF b = <<>> THEN <<>> ELSE <<bodyText(b)>>

\* So it is of that.
LEMMA PostJson ==
  ASSUME NEW b \in Text
  PROVE  JsonBodies(Post(b)) = Post(b)
<1>1. CASE b = <<>>
  BY <1>1 DEF JsonBodies, Post
<1>2. CASE b # <<>>
  <2>1. PICK x : x = bodyText(b)
    OBVIOUS
  <2>2. Post(b) = <<x>> /\ JsonBody(x) = x
    BY <1>2, <2>1, BodyJson DEF Post
  <2>3. JsonBodies(<<x>>) = <<JsonBody(x)>>
    BY DEF JsonBodies
  <2> QED
    BY <2>2, <2>3
<1> QED
  BY <1>1, <1>2

\* A request, field by field.
LEMMA RequestJson ==
  ASSUME NEW method, NEW url, NEW proto, NEW ck, NEW hs, NEW size, NEW post, NEW q,
         q = [method |-> method, url |-> url, proto |-> proto, cookies |-> ck,
              headers |-> hs, bodySize |-> size, post |-> post],
         NEW r, r = JsonRequest(q)
  PROVE  r = [method |-> Rune(method), url |-> JsonString(url), proto |-> proto,
              cookies |-> JsonHeaders(ck), headers |-> JsonHeaders(hs),
              bodySize |-> size, post |-> JsonBodies(post)]
  BY DEF JsonRequest

\* A response, field by field.
LEMMA ResponseJson ==
  ASSUME NEW status, NEW proto, NEW ck, NEW hs, NEW size, NEW mime, NEW content, NEW p,
         p = [status |-> status, proto |-> proto, cookies |-> ck, headers |-> hs,
              bodySize |-> size, mime |-> mime, content |-> content],
         NEW r, r = JsonResponse(p)
  PROVE  r = [status |-> status, proto |-> proto, cookies |-> JsonHeaders(ck),
              headers |-> JsonHeaders(hs), bodySize |-> size,
              mime |-> JsonString(mime), content |-> JsonBody(content)]
  BY DEF JsonResponse

-----------------------------------------------------------------------------
(* The entry of a transaction, whatever way it has taken.                  *)

\* Headers, as they are left.
Sent(json, hs) == IF json THEN JsonHeaders(hs) ELSE hs

\* The request and the response of a transaction, in a document or not.
Req(tx, json) ==
  [method |-> IF json THEN Rune(tx.req.method) ELSE tx.req.method,
   url |-> Through(json, tx.req.url), proto |-> tx.req.proto,
   cookies |-> Sent(json, cookies(tx.req.headers, "cookie")),
   headers |-> Sent(json, tx.req.headers), bodySize |-> Len(tx.req.body),
   post |-> Post(tx.req.body)]
Resp(tx, json) ==
  [status |-> tx.resp.status, proto |-> responseProto(tx.req, tx.resp),
   cookies |-> Sent(json, cookies(tx.resp.headers, "set-cookie")),
   headers |-> Sent(json, tx.resp.headers), bodySize |-> Len(tx.resp.body),
   mime |-> Through(json, headerValue(tx.resp.headers, "content-type")),
   content |-> bodyText(tx.resp.body)]

\* The entry of a transaction under session s.
Ent(s, tx, json) ==
  [request |-> Req(tx, json), response |-> Resp(tx, json),
   lebedev |-> <<lebedevMeta(s, tx)>>]

\* That is the entry that is recorded.
LEMMA EntryIs ==
  ASSUME NEW s, NEW tx
  PROVE  entryFromTransaction(s, tx) = Ent(s, tx, FALSE)
<1>1. requestEntry(tx.req) = Req(tx, FALSE)
  BY DEF requestEntry, Req, Post, Sent, Through
<1>2. responseEntry(tx.req, tx.resp) = Resp(tx, FALSE)
  BY DEF responseEntry, Resp, Sent, Through
<1> QED
  BY <1>1, <1>2 DEF entryFromTransaction, Ent

\* Headers that were written stay as they are.
LEMMA SentTwice ==
  ASSUME NEW json \in BOOLEAN, NEW hs
  PROVE  JsonHeaders(Sent(json, hs)) = Sent(TRUE, hs)
  BY HeadersTwice DEF Sent

\* And texts.
LEMMA ThroughTwice ==
  ASSUME NEW json \in BOOLEAN, NEW s
  PROVE  JsonString(Through(json, s)) = Through(TRUE, s)
  BY StringTwice DEF Through

\* A document changes an entry once.
LEMMA EntryJson ==
  ASSUME NEW s, NEW tx \in Transactions, NEW json \in BOOLEAN
  PROVE  JsonEntry(Ent(s, tx, json)) = Ent(s, tx, TRUE)
<1>1. PICK q, r : q = Req(tx, json) /\ r = JsonRequest(q)
  OBVIOUS
<1>2. PICK p, t : p = Resp(tx, json) /\ t = JsonResponse(p)
  OBVIOUS
<1>3. r = Req(tx, TRUE)
  <2>1. PICK m : m = IF json THEN Rune(tx.req.method) ELSE tx.req.method
    OBVIOUS
  <2>2. r = [method |-> Rune(m), url |-> JsonString(Through(json, tx.req.url)),
             proto |-> tx.req.proto,
             cookies |-> JsonHeaders(Sent(json, cookies(tx.req.headers, "cookie"))),
             headers |-> JsonHeaders(Sent(json, tx.req.headers)),
             bodySize |-> Len(tx.req.body), post |-> JsonBodies(Post(tx.req.body))]
    BY <1>1, <2>1, RequestJson DEF Req
  <2>3. Rune(m) = Rune(tx.req.method)
    BY <2>1, RuneTwice
  <2>4. JsonBodies(Post(tx.req.body)) = Post(tx.req.body)
    BY InputsAssumption, PostJson
  <2> QED
    BY <2>2, <2>3, <2>4, SentTwice, ThroughTwice DEF Req
<1>4. t = Resp(tx, TRUE)
  <2>1. PICK ct : ct = headerValue(tx.resp.headers, "content-type")
    OBVIOUS
  <2>2. t = [status |-> tx.resp.status, proto |-> responseProto(tx.req, tx.resp),
             cookies |-> JsonHeaders(Sent(json, cookies(tx.resp.headers, "set-cookie"))),
             headers |-> JsonHeaders(Sent(json, tx.resp.headers)),
             bodySize |-> Len(tx.resp.body), mime |-> JsonString(Through(json, ct)),
             content |-> JsonBody(bodyText(tx.resp.body))]
    BY <1>2, <2>1, ResponseJson DEF Resp
  <2>3. JsonBody(bodyText(tx.resp.body)) = bodyText(tx.resp.body)
    BY InputsAssumption, BodyJson
  <2> QED
    BY <2>1, <2>2, <2>3, SentTwice, ThroughTwice DEF Resp
<1>5. PICK e, f : e = Ent(s, tx, json) /\ f = JsonEntry(e)
  OBVIOUS
<1>6. e = [request |-> q, response |-> p, lebedev |-> <<lebedevMeta(s, tx)>>]
  BY <1>1, <1>2, <1>5 DEF Ent
<1>7. f = [request |-> r, response |-> t, lebedev |-> <<lebedevMeta(s, tx)>>]
  BY <1>1, <1>2, <1>5, <1>6, EntryFields
<1> QED
  BY <1>3, <1>4, <1>5, <1>7 DEF Ent

-----------------------------------------------------------------------------
(* Rows.                                                                   *)

\* load's equation.
LEMMA LoadSorts ==
  ASSUME NEW row, NEW table, NEW kind, NEW rs, NEW A, NEW at, at = Sorted(A),
         rs = {k \in row.kids : k.table = table /\ k.kind = kind},
         A = {k.seq : k \in rs}
  PROVE  load(row, table, kind) = [i \in DOMAIN at |-> (CHOOSE k \in rs : k.seq = at[i]).value]
  BY DEF load

\* ORDER BY seq returns the child rows in the order they were written.
LEMMA LoadIs ==
  ASSUME NEW T, NEW s \in Seq(T), NEW table, NEW kind, NEW row,
         {k \in row.kids : k.table = table /\ k.kind = kind} = ChildRows(table, kind, s)
  PROVE  load(row, table, kind) = s
<1>1. PICK n, rs : n = Len(s) /\ rs = ChildRows(table, kind, s)
  OBVIOUS
<1>2. n \in Nat /\ DOMAIN s = 1..n /\ s = [i \in 1..n |-> s[i]]
  BY <1>1, SeqIs
<1>3. \A k \in rs : \E i \in 1..n : k.seq = i - 1 /\ k.value = s[i]
  <2> SUFFICES ASSUME NEW k \in rs PROVE \E i \in 1..n : k.seq = i - 1 /\ k.value = s[i]
    OBVIOUS
  <2>1. PICK i \in DOMAIN s :
          k = [table |-> table, kind |-> kind, seq |-> i - 1, value |-> s[i]]
    BY <1>1 DEF ChildRows
  <2> QED
    BY <1>2, <2>1
<1>4. \A i \in 1..n : \E k \in rs : k.seq = i - 1 /\ k.value = s[i]
  <2> SUFFICES ASSUME NEW i \in 1..n
               PROVE  \E k \in rs : k.seq = i - 1 /\ k.value = s[i]
    OBVIOUS
  <2>1. PICK k : k = [table |-> table, kind |-> kind, seq |-> i - 1, value |-> s[i]]
    OBVIOUS
  <2>2. k \in rs
    BY <1>1, <1>2, <2>1 DEF ChildRows
  <2> QED
    BY <2>1, <2>2
<1>5. PICK at : at = [i \in 1..n |-> i - 1]
  OBVIOUS
<1>6. PICK A : A = {k.seq : k \in rs}
  OBVIOUS
<1>7. Sorted(A) = at
  <2>1. at \in Seq(Nat) /\ Len(at) = n
    BY <1>2, <1>5
  <2>2. A = {at[i] : i \in 1..Len(at)}
    <3>1. \A i \in 1..n : at[i] = i - 1
      BY <1>5
    <3> QED
      BY <1>3, <1>4, <1>6, <2>1, <3>1
  <2>3. \A i, j \in 1..Len(at) : i < j => at[i] < at[j]
    <3>1. \A i \in 1..n : at[i] = i - 1
      BY <1>5
    <3> QED
      BY <1>2, <2>1, <3>1
  <2> QED
    BY <2>1, <2>2, <2>3, SortedUnique
<1>8. load(row, table, kind) = [i \in 1..n |-> (CHOOSE k \in rs : k.seq = at[i]).value]
  <2>1. DOMAIN at = 1..n
    BY <1>5
  <2> QED
    BY <1>1, <1>6, <1>7, <2>1, LoadSorts
<1>9. \A i \in 1..n : (CHOOSE k \in rs : k.seq = at[i]).value = s[i]
  <2> SUFFICES ASSUME NEW i \in 1..n
               PROVE  (CHOOSE k \in rs : k.seq = at[i]).value = s[i]
    OBVIOUS
  <2>1. at[i] = i - 1
    BY <1>5
  <2>2. PICK k : k = CHOOSE l \in rs : l.seq = at[i]
    OBVIOUS
  <2>3. k \in rs /\ k.seq = i - 1
    BY <1>4, <2>1, <2>2
  <2>4. PICK j \in 1..n : k.seq = j - 1 /\ k.value = s[j]
    BY <1>3, <2>3
  <2>5. j = i
    BY <1>2, <2>3, <2>4
  <2> QED
    BY <2>2, <2>4, <2>5
<1> QED
  BY <1>2, <1>8, <1>9

\* The child rows of an entry.
Kids(tx, json) ==
  ChildRows("headers", "request", Req(tx, json).headers)
    \union ChildRows("headers", "response", Resp(tx, json).headers)
    \union ChildRows("cookies", "request", Req(tx, json).cookies)
    \union ChildRows("cookies", "response", Resp(tx, json).cookies)

\* The row of an entry.
RowOf(s, tx, json) ==
  [session |-> s, method |-> Req(tx, json).method, url |-> Req(tx, json).url,
   reqProto |-> tx.req.proto, reqSize |-> Len(tx.req.body),
   hasPost |-> Len(Post(tx.req.body)),
   post |-> IF Post(tx.req.body) = <<>> THEN NoBody ELSE Post(tx.req.body)[1],
   status |-> tx.resp.status, respProto |-> responseProto(tx.req, tx.resp),
   respSize |-> Len(tx.resp.body), mime |-> Resp(tx, json).mime,
   content |-> bodyText(tx.resp.body),
   hello |-> tx.hello, upstream |-> lebedevMeta(s, tx).upstream,
   http2 |-> lebedevMeta(s, tx).http2, kids |-> Kids(tx, json)]

\* The fingerprint does not depend on the session.
LEMMA MetaIs ==
  ASSUME NEW r, NEW s, NEW tx \in Transactions
  PROVE  /\ lebedevMeta(r, tx).hello = tx.hello
         /\ lebedevMeta(r, tx).upstream = lebedevMeta(s, tx).upstream
         /\ lebedevMeta(r, tx).http2 = lebedevMeta(s, tx).http2
         /\ JsonHttp2(lebedevMeta(s, tx).http2) = lebedevMeta(s, tx).http2
         /\ lebedevMeta(s, tx) = [session |-> s, hello |-> tx.hello,
              upstream |-> lebedevMeta(s, tx).upstream, http2 |-> lebedevMeta(s, tx).http2]
<1>1. /\ lebedevMeta(r, tx).hello = tx.hello
      /\ lebedevMeta(r, tx).upstream = lebedevMeta(s, tx).upstream
      /\ lebedevMeta(r, tx).http2 = lebedevMeta(s, tx).http2
  BY DEF lebedevMeta
<1>2. PICK q : q = tx.h2.headerOrder
  OBVIOUS
<1>3. JsonHttp2(<<q>>) = <<q>> /\ JsonHttp2(<<>>) = <<>>
  BY <1>2, InputsAssumption, Http2Json
<1>4. lebedevMeta(s, tx).http2 \in {<<q>>, <<>>}
  BY <1>2 DEF lebedevMeta, http2Fingerprint
<1>5. lebedevMeta(s, tx) = [session |-> s, hello |-> tx.hello,
        upstream |-> lebedevMeta(s, tx).upstream, http2 |-> lebedevMeta(s, tx).http2]
  BY DEF lebedevMeta
<1> QED
  BY <1>1, <1>3, <1>4, <1>5

\* An entry is stored under the session of the insert, not its own.
LEMMA InsertIs ==
  ASSUME NEW r, NEW s, NEW tx \in Transactions, NEW json \in BOOLEAN
  PROVE  insertEntry(s, Ent(r, tx, json)) = RowOf(s, tx, json)
<1>1. PICK e, lb : e = Ent(r, tx, json) /\ lb = lebedevMeta(r, tx)
  OBVIOUS
<1>2. e.request = Req(tx, json) /\ e.response = Resp(tx, json) /\ e.lebedev = <<lb>>
  BY <1>1 DEF Ent
<1>3. e.lebedev # <<>> /\ e.lebedev[1] = lb
  BY <1>2
<1>4. /\ lb.hello = tx.hello /\ lb.upstream = lebedevMeta(s, tx).upstream
      /\ JsonHttp2(lb.http2) = lebedevMeta(s, tx).http2
  <2>1. lb.http2 = lebedevMeta(s, tx).http2
    BY <1>1, MetaIs
  <2> QED
    BY <1>1, <2>1, MetaIs
<1>5. PICK q, p : q = Req(tx, json) /\ p = Resp(tx, json)
  OBVIOUS
<1>6. /\ q.proto = tx.req.proto /\ q.bodySize = Len(tx.req.body)
      /\ q.post = Post(tx.req.body) /\ p.status = tx.resp.status
      /\ p.proto = responseProto(tx.req, tx.resp) /\ p.bodySize = Len(tx.resp.body)
      /\ p.content = bodyText(tx.resp.body)
  BY <1>5 DEF Req, Resp
<1> QED
  BY <1>1, <1>2, <1>3, <1>4, <1>5, <1>6 DEF insertEntry, RowOf, Kids

\* The headers and cookies of an entry are sequences.
LEMMA ListsAre ==
  ASSUME NEW tx \in Transactions, NEW json \in BOOLEAN
  PROVE  /\ \E T : Req(tx, json).headers \in Seq(T)
         /\ \E T : Req(tx, json).cookies \in Seq(T)
         /\ \E T : Resp(tx, json).headers \in Seq(T)
         /\ \E T : Resp(tx, json).cookies \in Seq(T)
<1>1. ASSUME NEW T, NEW hs \in Seq(T)
      PROVE  \E U : Sent(json, hs) \in Seq(U)
  <2>1. CASE json
    <3>1. Sent(json, hs) = [i \in DOMAIN hs |-> JsonHeader(hs[i])]
      BY <2>1 DEF Sent, JsonHeaders
    <3>2. PICK n, U : n = Len(hs) /\ U = {JsonHeader(hs[i]) : i \in 1..n}
      OBVIOUS
    <3>3. n \in Nat /\ DOMAIN hs = 1..n
      BY <3>2, SeqIs
    <3>4. Sent(json, hs) \in [1..n -> U]
      BY <3>1, <3>2, <3>3
    <3>5. Sent(json, hs) \in Seq(U)
      BY <3>3, <3>4, FunctionSeq
    <3> QED
      BY <3>5
  <2>2. CASE ~json
    BY <2>2 DEF Sent
  <2> QED
    BY <2>1, <2>2
<1>2. ASSUME NEW T, NEW hs \in Seq(T), NEW name
      PROVE  cookies(hs, name) \in Seq(T)
  <2>1. PICK J : J = {i \in DOMAIN hs :
                        /\ hs[i].name = name
                        /\ \A x \in DOMAIN hs[i].value :
                             hs[i].value[x] \notin {"bad", "fffd"}}
    OBVIOUS
  <2>2. J \in SUBSET (1..Len(hs))
    BY <2>1, SeqIs
  <2>3. cookies(hs, name) = At(hs, J)
    BY <2>1 DEF cookies
  <2> QED
    BY <2>2, <2>3, AtIs
<1>3. PICK H : H = [name : STRING, value : Text]
  OBVIOUS
<1>4. tx.req.headers \in Seq(H) /\ tx.resp.headers \in Seq(H)
  BY <1>3, InputsAssumption DEF Headers
<1>5. /\ cookies(tx.req.headers, "cookie") \in Seq(H)
      /\ cookies(tx.resp.headers, "set-cookie") \in Seq(H)
  BY <1>2, <1>4
<1>6. /\ Req(tx, json).headers = Sent(json, tx.req.headers)
      /\ Req(tx, json).cookies = Sent(json, cookies(tx.req.headers, "cookie"))
      /\ Resp(tx, json).headers = Sent(json, tx.resp.headers)
      /\ Resp(tx, json).cookies = Sent(json, cookies(tx.resp.headers, "set-cookie"))
  BY DEF Req, Resp
<1> QED
  BY <1>1, <1>4, <1>5, <1>6

\* What is read back is what was written, under the session of the row.
LEMMA ScanIs ==
  ASSUME NEW s, NEW tx \in Transactions, NEW json \in BOOLEAN
  PROVE  scanEntry(RowOf(s, tx, json)) = Ent(s, tx, json)
<1>1. PICK row : row = RowOf(s, tx, json)
  OBVIOUS
<1>2. PICK q, p : q = Req(tx, json) /\ p = Resp(tx, json)
  OBVIOUS
<1>3. row.kids = ChildRows("headers", "request", q.headers)
                   \union ChildRows("headers", "response", p.headers)
                   \union ChildRows("cookies", "request", q.cookies)
                   \union ChildRows("cookies", "response", p.cookies)
  BY <1>1, <1>2 DEF RowOf, Kids
<1>4. ASSUME NEW table, NEW kind, NEW ls, NEW k \in ChildRows(table, kind, ls)
      PROVE  k.table = table /\ k.kind = kind
  BY <1>4 DEF ChildRows
<1>5. /\ {k \in row.kids : k.table = "headers" /\ k.kind = "request"}
           = ChildRows("headers", "request", q.headers)
      /\ {k \in row.kids : k.table = "headers" /\ k.kind = "response"}
           = ChildRows("headers", "response", p.headers)
      /\ {k \in row.kids : k.table = "cookies" /\ k.kind = "request"}
           = ChildRows("cookies", "request", q.cookies)
      /\ {k \in row.kids : k.table = "cookies" /\ k.kind = "response"}
           = ChildRows("cookies", "response", p.cookies)
  BY <1>3, <1>4
<1>6. /\ load(row, "headers", "request") = q.headers
      /\ load(row, "headers", "response") = p.headers
      /\ load(row, "cookies", "request") = q.cookies
      /\ load(row, "cookies", "response") = p.cookies
  BY <1>2, <1>5, ListsAre, LoadIs
<1>7. (IF row.hasPost = 1 THEN <<row.post>> ELSE <<>>) = Post(tx.req.body)
  <2>1. /\ row.hasPost = Len(Post(tx.req.body))
        /\ row.post = IF Post(tx.req.body) = <<>> THEN NoBody ELSE Post(tx.req.body)[1]
    BY <1>1 DEF RowOf
  <2>2. CASE tx.req.body = <<>>
    BY <2>1, <2>2 DEF Post
  <2>3. CASE tx.req.body # <<>>
    <3>1. PICK x : x = bodyText(tx.req.body)
      OBVIOUS
    <3>2. Post(tx.req.body) = <<x>>
      BY <2>3, <3>1 DEF Post
    <3>3. Len(<<x>>) = 1 /\ <<x>>[1] = x /\ <<x>> # <<>>
      OBVIOUS
    <3> QED
      BY <2>1, <3>2, <3>3
  <2> QED
    BY <2>2, <2>3
<1>8. buildLebedev(row) = <<lebedevMeta(s, tx)>>
  <2>1. /\ row.session = s /\ row.hello = tx.hello
        /\ row.upstream = lebedevMeta(s, tx).upstream
        /\ row.http2 = lebedevMeta(s, tx).http2
    BY <1>1 DEF RowOf
  <2>2. tx.hello # ""
    BY InputsAssumption
  <2>3. buildLebedev(row) = <<[session |-> s, hello |-> tx.hello,
          upstream |-> lebedevMeta(s, tx).upstream, http2 |-> lebedevMeta(s, tx).http2]>>
    BY <2>1, <2>2 DEF buildLebedev
  <2> QED
    BY <2>3, MetaIs
<1>9. /\ row.method = q.method /\ row.url = q.url /\ row.reqProto = tx.req.proto
      /\ row.reqSize = Len(tx.req.body) /\ row.status = tx.resp.status
      /\ row.respProto = responseProto(tx.req, tx.resp)
      /\ row.respSize = Len(tx.resp.body) /\ row.mime = p.mime
      /\ row.content = bodyText(tx.resp.body)
  BY <1>1, <1>2 DEF RowOf
<1>10. q = [method |-> q.method, url |-> q.url, proto |-> tx.req.proto,
            cookies |-> q.cookies, headers |-> q.headers,
            bodySize |-> Len(tx.req.body), post |-> Post(tx.req.body)]
  BY <1>2 DEF Req
<1>11. p = [status |-> tx.resp.status, proto |-> responseProto(tx.req, tx.resp),
            cookies |-> p.cookies, headers |-> p.headers,
            bodySize |-> Len(tx.resp.body), mime |-> p.mime,
            content |-> bodyText(tx.resp.body)]
  BY <1>2 DEF Resp
<1>12. scanEntry(row) = [request |-> q, response |-> p, lebedev |-> <<lebedevMeta(s, tx)>>]
  BY <1>6, <1>7, <1>8, <1>9, <1>10, <1>11 DEF scanEntry
<1> QED
  BY <1>1, <1>2, <1>12 DEF Ent

-----------------------------------------------------------------------------
(* The invariant.                                                          *)

\* A row of a store: the entry of a transaction, and where it comes from.
Rows ==
  {Stored(id, RowOf(s, tx, json), tx, json) :
     id \in Nat, s \in Sessions, tx \in Transactions, json \in BOOLEAN}

\* What is read from a row, or from a document.
Item(s, tx, json) == [entry |-> Ent(s, tx, json), tx |-> tx, json |-> json]
Items == {Item(s, tx, json) : s \in Sessions, tx \in Transactions, json \in BOOLEAN}

\* Rows are in order of id, up to a last one.
Increasing(q) == \A i, j \in 1..Len(q) : i < j => q[i].id < q[j].id
Upmost(q, last) == \A i \in 1..Len(q) : q[i].id <= last

\* The rows of a session, and their ids.
Of(q, s) == {i \in 1..Len(q) : q[i].row.session = s}
IdsOf(q, s) == {q[i].id : i \in Of(q, s)}

\* Both stores hold entries of transactions; the ids of one were never reused.
StoresOK ==
  /\ mem \in Seq(Rows) /\ durable \in Seq(Rows) /\ lastId \in Nat
  /\ Increasing(durable) /\ Upmost(durable, lastId)

\* A document was written from one of them, under its session.
DocIs(d) ==
  /\ d.session \in Sessions \union {Empty} /\ d.entries \in Seq(Items)
  /\ d.session = Empty => d.entries = <<>>
  /\ \A i \in 1..Len(d.entries) :
       \E tx \in Transactions : d.entries[i] = Item(d.session, tx, TRUE)

\* A reader has the first ids of its session, as long as no row of it moves.
Reads(seen, start, done, ids) ==
  /\ seen \in Seq(Nat) /\ Len(seen) <= Len(Sorted(ids))
  /\ seen = SubSeq(Sorted(ids), 1, Len(seen))
  /\ start \subseteq ids
  /\ done = TRUE => start \subseteq {seen[i] : i \in 1..Len(seen)}

\* A reader p of the rows q, before and while it pages.
PagerIs(p, q) ==
  /\ p = [session |-> p.session, seen |-> p.seen, start |-> p.start,
          intact |-> p.intact, done |-> p.done]
  /\ p.session \in Sessions \union {Empty}
  /\ p.intact \in BOOLEAN /\ p.done \in BOOLEAN
  /\ p.session = Empty => p.done = FALSE
  /\ p.session # Empty /\ p.intact = TRUE =>
       Reads(p.seen, p.start, p.done, IdsOf(q, p.session))

\* The inductive invariant.
Inv == StoresOK /\ DocIs(doc) /\ PagerIs(pager, durable)

-----------------------------------------------------------------------------
(* Rows and lists of them.                                                 *)

\* A row of a store, field by field.
LEMMA RowIs ==
  ASSUME NEW st \in Rows
  PROVE  /\ st.id \in Nat /\ st.tx \in Transactions /\ st.json \in BOOLEAN
         /\ st.row.session \in Sessions
         /\ st.row = RowOf(st.row.session, st.tx, st.json)
         /\ st.row.url = Through(st.json, st.tx.req.url)
         /\ st = Stored(st.id, st.row, st.tx, st.json)
<1>1. PICK id \in Nat, s \in Sessions, tx \in Transactions, json \in BOOLEAN :
        st = Stored(id, RowOf(s, tx, json), tx, json)
  BY DEF Rows
<1>2. PICK row : row = RowOf(s, tx, json)
  OBVIOUS
<1>3. row.session = s /\ row.url = Through(json, tx.req.url)
  BY <1>2 DEF RowOf, Req
<1>4. st.id = id /\ st.row = row /\ st.tx = tx /\ st.json = json
  BY <1>1, <1>2 DEF Stored
<1> QED
  BY <1>1, <1>2, <1>3, <1>4

\* A row under a session is one of the rows.
LEMMA RowMade ==
  ASSUME NEW id \in Nat, NEW s \in Sessions, NEW tx \in Transactions,
         NEW json \in BOOLEAN, NEW st, st = Stored(id, RowOf(s, tx, json), tx, json)
  PROVE  st \in Rows /\ st.id = id /\ st.row.session = s
<1>1. st \in Rows
  BY DEF Rows
<1>2. st.id = id /\ st.row = RowOf(s, tx, json)
  BY DEF Stored
<1>3. RowOf(s, tx, json).session = s
  BY DEF RowOf
<1> QED
  BY <1>1, <1>2, <1>3

\* What a query for a whole session asks.
LEMMA WholeIs ==
  ASSUME NEW s, NEW w, w = Whole(s)
  PROVE  w = [session |-> s, method |-> Empty, glob |-> <<>>, status |-> 0,
              mime |-> <<>>, limit |-> 0, offset |-> 0, ascending |-> TRUE]
  BY DEF Whole, AnyEntry

\* Its filters are met by the rows of the session.
LEMMA WholeMatches ==
  ASSUME NEW s \in Sessions, NEW q \in Seq(Rows), NEW w, w.session = s,
         w.method = Empty, w.glob = <<>>, w.status = 0, w.mime = <<>>
  PROVE  Matching(q, w) = At(q, Of(q, s))
<1>1. s # Empty
  BY ArchiveAssumption
<1>2. \A row : where(w, row) <=> row.session = s
  BY <1>1 DEF where
<1>3. DOMAIN q = 1..Len(q)
  BY SeqIs
<1>4. {i \in DOMAIN q : where(w, q[i].row)} = Of(q, s)
  BY <1>2, <1>3 DEF Of
<1> QED
  BY <1>4 DEF Matching

\* The first elements of a sequence.
LEMMA FirstPart ==
  ASSUME NEW S, NEW q \in Seq(S), NEW n \in Nat, n <= Len(q), NEW u, u = SubSeq(q, 1, n)
  PROVE  u \in Seq(S) /\ Len(u) = n /\ \A k \in 1..n : u[k] = q[k]
<1>1. n - 1 + 1 = n /\ 1 \in Nat \ {0} /\ 1 <= n + 1
  OBVIOUS
<1>2. u \in Seq(S) /\ Len(u) = n - 1 + 1 /\ \A k \in 1..(n - 1 + 1) : u[k] = q[1 + k - 1]
  BY <1>1, SubSeqIs
<1>3. \A k \in 1..n : 1 + k - 1 = k
  OBVIOUS
<1> QED
  BY <1>1, <1>2, <1>3

\* A sequence from end to end.
LEMMA SubSeqAll ==
  ASSUME NEW S, NEW q \in Seq(S)
  PROVE  SubSeq(q, 1, Len(q)) = q
<1>1. PICK u, n : n = Len(q) /\ u = SubSeq(q, 1, n)
  OBVIOUS
<1>2. n \in Nat /\ u \in Seq(S) /\ Len(u) = n /\ \A k \in 1..n : u[k] = q[k]
  BY <1>1, FirstPart
<1>3. Len(u) = Len(q) /\ \A k \in 1..Len(u) : u[k] = q[k]
  BY <1>1, <1>2
<1>4. u = q
  BY <1>2, <1>3, SeqEq
<1> QED
  BY <1>1, <1>4

\* A list without a page.
LEMMA ListAll ==
  ASSUME NEW S, NEW q, NEW w, Matching(q, w) \in Seq(S), w.limit = 0, w.offset = 0,
         w.ascending = TRUE
  PROVE  List(q, w) = Matching(q, w)
<1>1. PICK m : m = Matching(q, w)
  OBVIOUS
<1>2. Ordered(w, m) = m
  BY DEF Ordered
<1>3. ~Fails(w)
  BY DEF Fails
<1>4. List(q, w) = SubSeq(m, 0 + 1, Len(m))
  BY <1>1, <1>2, <1>3 DEF List
<1>5. 0 + 1 = 1
  OBVIOUS
<1> QED
  BY <1>1, <1>4, <1>5, SubSeqAll

\* The query of a whole session returns the rows of the session, in order.
LEMMA ListWhole ==
  ASSUME NEW s \in Sessions, NEW q \in Seq(Rows)
  PROVE  /\ List(q, Whole(s)) = At(q, Of(q, s))
         /\ Count(q, Whole(s)) = Len(At(q, Of(q, s)))
         /\ At(q, Of(q, s)) \in Seq(Rows)
         /\ Of(q, s) \in SUBSET (1..Len(q))
<1>1. PICK w : w = Whole(s)
  OBVIOUS
<1>2. w = [session |-> s, method |-> Empty, glob |-> <<>>, status |-> 0,
              mime |-> <<>>, limit |-> 0, offset |-> 0, ascending |-> TRUE]
  BY <1>1, WholeIs
<1>3. /\ w.session = s /\ w.method = Empty /\ w.glob = <<>> /\ w.status = 0
      /\ w.mime = <<>> /\ w.limit = 0 /\ w.offset = 0
  BY <1>2
<1>4. w.ascending = TRUE
  BY <1>2
<1>5. Matching(q, w) = At(q, Of(q, s))
  BY <1>3, WholeMatches
<1>6. Of(q, s) \in SUBSET (1..Len(q))
  BY DEF Of
<1>7. At(q, Of(q, s)) \in Seq(Rows)
  BY <1>6, AtIs
<1>8. List(q, w) = Matching(q, w)
  BY <1>3, <1>4, <1>5, <1>7, ListAll
<1> QED
  BY <1>1, <1>5, <1>6, <1>7, <1>8 DEF Count

\* What is read is one of the items.
LEMMA ItemMade ==
  ASSUME NEW s \in Sessions, NEW tx \in Transactions, NEW json \in BOOLEAN
  PROVE  Item(s, tx, json) \in Items
  BY DEF Items

\* The entries of rows, each of the transaction of its row.
LEMMA EntriesAre ==
  ASSUME NEW q \in Seq(Rows), NEW es, es = Entries(q)
  PROVE  /\ es \in Seq(Items) /\ Len(es) = Len(q)
         /\ \A i \in 1..Len(q) : es[i] = Item(q[i].row.session, q[i].tx, q[i].json)
<1>1. PICK n : n = Len(q)
  OBVIOUS
<1>2. n \in Nat /\ DOMAIN q = 1..n /\ \A i \in 1..n : q[i] \in Rows
  BY <1>1, SeqIs
<1>3. ASSUME NEW i \in 1..n
      PROVE  /\ es[i] = Item(q[i].row.session, q[i].tx, q[i].json) /\ es[i] \in Items
  <2>1. PICK st : st = q[i]
    OBVIOUS
  <2>2. /\ st.tx \in Transactions /\ st.json \in BOOLEAN /\ st.row.session \in Sessions
        /\ st.row = RowOf(st.row.session, st.tx, st.json)
    BY <1>2, <2>1, RowIs
  <2>3. scanEntry(st.row) = Ent(st.row.session, st.tx, st.json)
    BY <2>2, ScanIs
  <2>4. es[i] = [entry |-> scanEntry(st.row), tx |-> st.tx, json |-> st.json]
    BY <1>2, <2>1 DEF Entries
  <2>5. es[i] = Item(st.row.session, st.tx, st.json)
    BY <2>3, <2>4 DEF Item
  <2> QED
    BY <2>1, <2>2, <2>5 DEF Items
<1>4. es = [i \in 1..n |-> es[i]]
  BY <1>2 DEF Entries
<1>5. es \in [1..n -> Items]
  BY <1>3, <1>4
<1> QED
  BY <1>1, <1>2, <1>3, <1>5, FunctionSeq

\* What is taken is what comes before some place.
LEMMA TakenIs ==
  ASSUME NEW S, NEW es \in Seq(S), NEW r, r = Taken(es)
  PROVE  r \in Seq(S) /\ Len(r) \in Nat /\ Len(r) <= Len(es)
         /\ \A i \in 1..Len(r) : r[i] = es[i]
<1>1. PICK n : n = Len(es)
  OBVIOUS
<1>2. n \in Nat
  BY <1>1
<1>3. PICK I : I = {i \in 1..n : ~Accepts(es[i].entry)}
  OBVIOUS
<1>4. I \in SUBSET Nat /\ I \in SUBSET (1..n)
  BY <1>3
<1>5. PICK no : no = IF I # {} THEN Min(I) ELSE 0
  OBVIOUS
<1>6. r = IF no = 0 THEN es ELSE SubSeq(es, 1, no - 1)
  BY <1>1, <1>3, <1>5 DEF Taken, SelectInSeq
<1>7. no = 0 \/ no \in 1..n
  <2>1. CASE I # {}
    <3>1. \E x \in I : \A y \in I : x =< y
      BY <1>4, <2>1, Least
    <3>2. Min(I) \in I
      BY <3>1 DEF Min
    <3> QED
      BY <1>4, <1>5, <2>1, <3>2
  <2> QED
    BY <1>5, <2>1
<1>8. CASE no = 0
  BY <1>6, <1>8
<1>9. CASE no \in 1..n
  <2>1. PICK m : m = no - 1
    OBVIOUS
  <2>2. m \in Nat /\ m <= n /\ no # 0
    BY <1>2, <1>9, <2>1
  <2>3. r = SubSeq(es, 1, m)
    BY <1>6, <2>1, <2>2
  <2>4. r \in Seq(S) /\ Len(r) = m /\ \A k \in 1..m : r[k] = es[k]
    BY <1>1, <2>2, <2>3, FirstPart
  <2> QED
    BY <1>1, <2>2, <2>4
<1> QED
  BY <1>7, <1>8, <1>9

\* Rows that are added under s, with the ids after last.
Added(z, s, last, n) ==
  /\ z \in Seq(Rows) /\ Len(z) = n /\ n \in Nat
  /\ \A i \in 1..n : z[i].id = last + i /\ z[i].row.session = s

\* An insert adds such rows.
LEMMA InsertedAdds ==
  ASSUME NEW s \in Sessions, NEW es \in Seq(Items), lastId \in Nat, NEW q
  PROVE  \E z : Added(z, s, lastId, Len(es)) /\ Inserted(q, s, es) = q \o z
<1>1. PICK n : n = Len(es)
  OBVIOUS
<1>2. n \in Nat /\ DOMAIN es = 1..n /\ \A i \in 1..n : es[i] \in Items
  BY <1>1, SeqIs
<1>3. PICK z : z = [i \in 1..n |->
        Stored(lastId + i, insertEntry(s, es[i].entry), es[i].tx, es[i].json)]
  OBVIOUS
<1>4. ASSUME NEW i \in 1..n
      PROVE  z[i] \in Rows /\ z[i].id = lastId + i /\ z[i].row.session = s
  <2>1. PICK r \in Sessions, tx \in Transactions, json \in BOOLEAN : es[i] = Item(r, tx, json)
    BY <1>2 DEF Items
  <2>2. es[i].entry = Ent(r, tx, json) /\ es[i].tx = tx /\ es[i].json = json
    BY <2>1 DEF Item
  <2>3. insertEntry(s, Ent(r, tx, json)) = RowOf(s, tx, json)
    BY InsertIs
  <2>4. PICK id, st : id = lastId + i /\ st = Stored(id, RowOf(s, tx, json), tx, json)
    OBVIOUS
  <2>5. z[i] = st
    BY <1>3, <2>2, <2>3, <2>4
  <2>6. id \in Nat
    BY <2>4
  <2>7. st \in Rows /\ st.id = id /\ st.row.session = s
    BY <2>4, <2>6, RowMade
  <2> QED
    BY <2>4, <2>5, <2>7
<1>5. z \in [1..n -> Rows]
  BY <1>3, <1>4
<1>6. z \in Seq(Rows) /\ Len(z) = n
  BY <1>2, <1>5, FunctionSeq
<1>7. Added(z, s, lastId, n)
  BY <1>2, <1>4, <1>6 DEF Added
<1>8. Inserted(q, s, es) = q \o z
  BY <1>2, <1>3 DEF Inserted
<1> QED
  BY <1>1, <1>7, <1>8

\* The order of ids, and the ids of other sessions, are as before.
Extends(r, q, s, last, n) ==
  /\ r \in Seq(Rows) /\ Increasing(r) /\ Upmost(r, last + n)
  /\ \A t : t # s => IdsOf(r, t) = IdsOf(q, t)
  /\ IdsOf(r, s) = IdsOf(q, s) \union ((last + 1)..(last + n))

\* So it is.
LEMMA AddedIs ==
  ASSUME NEW q \in Seq(Rows), NEW s \in Sessions, NEW n \in Nat, NEW z, NEW last \in Nat,
         Added(z, s, last, n), Increasing(q), Upmost(q, last), NEW r, r = q \o z
  PROVE  Extends(r, q, s, last, n)
<1>1. PICK m : m = Len(q)
  OBVIOUS
<1>2. /\ z \in Seq(Rows) /\ Len(z) = n /\ n \in Nat /\ m \in Nat
      /\ \A i \in 1..n : z[i].id = last + i /\ z[i].row.session = s
  BY <1>1 DEF Added
<1>3. /\ r \in Seq(Rows) /\ Len(r) = m + n
      /\ \A i \in 1..(m + n) : r[i] = IF i <= m THEN q[i] ELSE z[i - m]
  BY <1>1, <1>2, ConcatIs
<1>4. \A i \in 1..m : i \in 1..(m + n) /\ r[i] = q[i]
  BY <1>2, <1>3
<1>5. \A i \in 1..n : i + m \in 1..(m + n) /\ r[i + m] = z[i]
  <2> SUFFICES ASSUME NEW i \in 1..n PROVE i + m \in 1..(m + n) /\ r[i + m] = z[i]
    OBVIOUS
  <2>1. PICK x : x = i + m
    OBVIOUS
  <2>2. x \in 1..(m + n) /\ ~(x <= m) /\ x - m = i
    BY <1>2, <2>1
  <2>3. r[x] = z[x - m]
    BY <1>3, <2>2
  <2> QED
    BY <2>1, <2>2, <2>3
<1>6. \A i \in 1..(m + n) : i \in 1..m \/ \E k \in 1..n : i = k + m
  <2> SUFFICES ASSUME NEW i \in 1..(m + n), i \notin 1..m PROVE \E k \in 1..n : i = k + m
    OBVIOUS
  <2>1. i - m \in 1..n /\ i = (i - m) + m
    BY <1>2
  <2> QED
    BY <2>1
<1>7. \A i \in 1..m : q[i].id \in Nat /\ q[i].id <= last
  <2> SUFFICES ASSUME NEW i \in 1..m PROVE q[i].id \in Nat /\ q[i].id <= last
    OBVIOUS
  <2>1. q[i] \in Rows
    BY <1>1, SeqIs
  <2> QED
    BY <1>1, <2>1, RowIs DEF Upmost
<1>8. Increasing(r)
  <2> SUFFICES ASSUME NEW i \in 1..(m + n), NEW j \in 1..(m + n), i < j
               PROVE  r[i].id < r[j].id
    BY <1>3 DEF Increasing
  <2>1. CASE j \in 1..m
    <3>1. i \in 1..m
      BY <1>2, <2>1
    <3> QED
      BY <1>1, <1>4, <2>1, <3>1 DEF Increasing
  <2>2. CASE \E k \in 1..n : j = k + m
    <3>1. PICK k \in 1..n : j = k + m
      BY <2>2
    <3>2. r[j].id = last + k
      BY <1>2, <1>5, <3>1
    <3>3. CASE i \in 1..m
      <4>1. PICK x, y : x = r[i].id /\ y = r[j].id
        OBVIOUS
      <4>2. x \in Nat /\ x <= last /\ y = last + k
        BY <1>4, <1>7, <3>2, <3>3, <4>1
      <4>3. x < y
        BY <4>2
      <4> QED
        BY <4>1, <4>3
    <3>4. CASE \E l \in 1..n : i = l + m
      <4>1. PICK l \in 1..n : i = l + m
        BY <3>4
      <4>2. r[i].id = last + l
        BY <1>2, <1>5, <4>1
      <4>3. l < k
        BY <1>2, <3>1, <4>1
      <4>4. last + l < last + k
        BY <4>3
      <4> QED
        BY <3>2, <4>2, <4>4
    <3> QED
      BY <1>6, <3>3, <3>4
  <2> QED
    BY <1>6, <2>1, <2>2
<1>9. Upmost(r, last + n)
  <2> SUFFICES ASSUME NEW i \in 1..(m + n) PROVE r[i].id <= last + n
    BY <1>3 DEF Upmost
  <2>1. PICK x : x = r[i].id
    OBVIOUS
  <2>2. CASE i \in 1..m
    <3>1. x \in Nat /\ x <= last
      BY <1>4, <1>7, <2>1, <2>2
    <3>2. x <= last + n
      BY <1>2, <3>1
    <3> QED
      BY <2>1, <3>2
  <2>3. CASE \E k \in 1..n : i = k + m
    <3>1. PICK k \in 1..n : i = k + m
      BY <2>3
    <3>2. x = last + k
      BY <1>2, <1>5, <2>1, <3>1
    <3>3. x <= last + n
      BY <1>2, <3>2
    <3> QED
      BY <2>1, <3>3
  <2> QED
    BY <1>6, <2>2, <2>3
<1>10. ASSUME NEW t, NEW x
       PROVE  x \in IdsOf(r, t) <=> \/ x \in IdsOf(q, t)
                                    \/ t = s /\ \E k \in 1..n : x = last + k
  <2>1. x \in IdsOf(r, t) <=> \E i \in 1..(m + n) : r[i].row.session = t /\ x = r[i].id
    BY <1>3 DEF IdsOf, Of
  <2>2. x \in IdsOf(q, t) <=> \E i \in 1..m : q[i].row.session = t /\ x = q[i].id
    BY <1>1 DEF IdsOf, Of
  <2>3. ASSUME NEW i \in 1..(m + n), r[i].row.session = t, x = r[i].id
        PROVE  \/ \E j \in 1..m : q[j].row.session = t /\ x = q[j].id
               \/ t = s /\ \E k \in 1..n : x = last + k
    <3>1. CASE i \in 1..m
      BY <1>4, <2>3, <3>1
    <3>2. CASE \E k \in 1..n : i = k + m
      BY <1>2, <1>5, <2>3, <3>2
    <3> QED
      BY <1>6, <3>1, <3>2
  <2>4. ASSUME NEW j \in 1..m, q[j].row.session = t, x = q[j].id
        PROVE  \E i \in 1..(m + n) : r[i].row.session = t /\ x = r[i].id
    BY <1>4, <2>4
  <2>5. ASSUME t = s, NEW k \in 1..n, x = last + k
        PROVE  \E i \in 1..(m + n) : r[i].row.session = t /\ x = r[i].id
    BY <1>2, <1>5, <2>5
  <2> QED
    BY <2>1, <2>2, <2>3, <2>4, <2>5
<1>11. \A x : (\E k \in 1..n : x = last + k) <=> x \in (last + 1)..(last + n)
  <2>1. ASSUME NEW k \in 1..n PROVE last + k \in (last + 1)..(last + n)
    BY <1>2
  <2>2. ASSUME NEW x \in (last + 1)..(last + n) PROVE \E k \in 1..n : x = last + k
    <3>1. x - last \in 1..n /\ x = last + (x - last)
      BY <1>2
    <3> QED
      BY <3>1
  <2> QED
    BY <2>1, <2>2
<1>12. \A t : t # s => IdsOf(r, t) = IdsOf(q, t)
  BY <1>10
<1>13. IdsOf(r, s) = IdsOf(q, s) \union ((last + 1)..(last + n))
  BY <1>10, <1>11
<1> QED
  BY <1>3, <1>8, <1>9, <1>12, <1>13 DEF Extends

\* Some of the rows, in their order.
LEMMA SomeRows ==
  ASSUME NEW q \in Seq(Rows), NEW J \in SUBSET (1..Len(q)), NEW last, NEW r,
         r = At(q, J), Increasing(q), Upmost(q, last)
  PROVE  /\ r \in Seq(Rows) /\ Increasing(r) /\ Upmost(r, last)
         /\ \A t : Of(q, t) \subseteq J => IdsOf(r, t) = IdsOf(q, t)
<1>1. PICK a : /\ Lists(a, J) /\ r \in Seq(Rows) /\ Len(r) = Len(a)
               /\ \A i \in 1..Len(a) : r[i] = q[a[i]]
  BY AtLists
<1>2. /\ Len(a) \in Nat /\ J = {a[i] : i \in 1..Len(a)}
      /\ \A i \in 1..Len(a) : a[i] \in J /\ a[i] \in 1..Len(q)
      /\ \A i, j \in 1..Len(a) : i < j => a[i] < a[j]
  BY <1>1 DEF Lists
<1>3. Increasing(r)
  <2> SUFFICES ASSUME NEW i \in 1..Len(a), NEW j \in 1..Len(a), i < j
               PROVE  r[i].id < r[j].id
    BY <1>1 DEF Increasing
  <2>1. q[a[i]].id < q[a[j]].id
    BY <1>2 DEF Increasing
  <2> QED
    BY <1>1, <2>1
<1>4. Upmost(r, last)
  BY <1>1, <1>2 DEF Upmost
<1>5. ASSUME NEW t, Of(q, t) \subseteq J PROVE IdsOf(r, t) = IdsOf(q, t)
  <2>1. ASSUME NEW x \in IdsOf(r, t) PROVE x \in IdsOf(q, t)
    <3>1. PICK i \in 1..Len(a) : r[i].row.session = t /\ x = r[i].id
      BY <1>1, <2>1 DEF IdsOf, Of
    <3>2. a[i] \in 1..Len(q) /\ q[a[i]].row.session = t /\ x = q[a[i]].id
      BY <1>1, <1>2, <3>1
    <3> QED
      BY <3>2 DEF IdsOf, Of
  <2>2. ASSUME NEW x \in IdsOf(q, t) PROVE x \in IdsOf(r, t)
    <3>1. PICK j \in Of(q, t) : x = q[j].id
      BY <2>2 DEF IdsOf
    <3>2. PICK i \in 1..Len(a) : j = a[i]
      BY <1>2, <1>5, <3>1
    <3>3. r[i].row.session = t /\ x = r[i].id
      BY <1>1, <3>1, <3>2 DEF Of
    <3> QED
      BY <1>1, <3>3 DEF IdsOf, Of
  <2> QED
    BY <2>1, <2>2
<1> QED
  BY <1>1, <1>3, <1>4, <1>5

\* A delete leaves the rows of other sessions.
LEMMA WithoutIs ==
  ASSUME NEW s, NEW last, durable \in Seq(Rows), Increasing(durable),
         Upmost(durable, last), NEW r, r = Without(s)
  PROVE  /\ r \in Seq(Rows) /\ Increasing(r) /\ Upmost(r, last)
         /\ \A t : t # s => IdsOf(r, t) = IdsOf(durable, t)
<1>1. PICK J : J = {i \in 1..Len(durable) : durable[i].row.session # s}
  OBVIOUS
<1>2. DOMAIN durable = 1..Len(durable)
  BY SeqIs
<1>3. r = At(durable, J) /\ J \in SUBSET (1..Len(durable))
  BY <1>1, <1>2 DEF Without
<1>4. \A t : t # s => Of(durable, t) \subseteq J
  BY <1>1 DEF Of
<1> QED
  BY <1>3, <1>4, SomeRows

\* A row under another session.
Renamed(st, s) == [st EXCEPT !.row.session = s]

\* That is one of the rows.
LEMMA RowRenamed ==
  ASSUME NEW st \in Rows, NEW s \in Sessions, NEW y, y = Renamed(st, s)
  PROVE  y \in Rows /\ y.id = st.id /\ y.row.session = s
<1>1. PICK id \in Nat, r \in Sessions, tx \in Transactions, json \in BOOLEAN :
        st = Stored(id, RowOf(r, tx, json), tx, json)
  BY DEF Rows
<1>2. st.id = id
  BY <1>1 DEF Stored
<1>3. PICK row, v : row = RowOf(r, tx, json) /\ v = [row EXCEPT !.session = s]
  OBVIOUS
<1>4. v = RowOf(s, tx, json)
  <2>1. /\ lebedevMeta(r, tx).upstream = lebedevMeta(s, tx).upstream
        /\ lebedevMeta(r, tx).http2 = lebedevMeta(s, tx).http2
    BY MetaIs
  <2> QED
    BY <1>3, <2>1 DEF RowOf
<1>5. st = [id |-> id, row |-> row, tx |-> tx, json |-> json]
  BY <1>1, <1>3 DEF Stored
<1>6. y = [id |-> id, row |-> v, tx |-> tx, json |-> json]
  BY <1>3, <1>5 DEF Renamed
<1>7. y = Stored(id, RowOf(s, tx, json), tx, json)
  BY <1>4, <1>6 DEF Stored
<1> QED
  BY <1>2, <1>7, RowMade

\* A rename keeps ids, and the rows of other sessions.
LEMMA RenamedIs ==
  ASSUME NEW old \in Sessions, NEW new \in Sessions, NEW last, NEW q \in Seq(Rows),
         Increasing(q), Upmost(q, last), NEW r,
         r = [i \in DOMAIN q |-> IF q[i].row.session = old THEN Renamed(q[i], new)
                                                           ELSE q[i]]
  PROVE  /\ r \in Seq(Rows) /\ Increasing(r) /\ Upmost(r, last)
         /\ \A t : t \notin {old, new} => IdsOf(r, t) = IdsOf(q, t)
<1>1. PICK n : n = Len(q)
  OBVIOUS
<1>2. n \in Nat /\ DOMAIN q = 1..n /\ \A i \in 1..n : q[i] \in Rows
  BY <1>1, SeqIs
<1>3. ASSUME NEW i \in 1..n
      PROVE  /\ r[i] \in Rows /\ r[i].id = q[i].id
             /\ \A t : t \notin {old, new} =>
                         (r[i].row.session = t <=> q[i].row.session = t)
  <2>1. CASE q[i].row.session = old
    <3>1. PICK st, y : st = q[i] /\ y = Renamed(st, new)
      OBVIOUS
    <3>2. r[i] = y
      BY <1>2, <2>1, <3>1
    <3>3. st \in Rows
      BY <1>2, <3>1
    <3>4. y \in Rows /\ y.id = st.id /\ y.row.session = new
      BY <3>1, <3>3, RowRenamed
    <3> QED
      BY <2>1, <3>1, <3>2, <3>4
  <2>2. CASE q[i].row.session # old
    <3>1. r[i] = q[i]
      BY <1>2, <2>2
    <3> QED
      BY <1>2, <3>1
  <2> QED
    BY <2>1, <2>2
<1>4. DOMAIN r = 1..n /\ r = [i \in 1..n |-> r[i]]
  BY <1>2
<1>5. r \in [1..n -> Rows]
  BY <1>3, <1>4
<1>6. r \in Seq(Rows) /\ Len(r) = n
  BY <1>2, <1>5, FunctionSeq
<1>7. Increasing(r)
  <2> SUFFICES ASSUME NEW i \in 1..n, NEW j \in 1..n, i < j PROVE r[i].id < r[j].id
    BY <1>6 DEF Increasing
  <2>1. q[i].id < q[j].id
    BY <1>1 DEF Increasing
  <2> QED
    BY <1>3, <2>1
<1>8. ASSUME NEW t, t \notin {old, new} PROVE IdsOf(r, t) = IdsOf(q, t)
  <2>1. Of(r, t) = Of(q, t)
    BY <1>1, <1>3, <1>6, <1>8 DEF Of
  <2>2. \A i \in Of(q, t) : r[i].id = q[i].id
    BY <1>1, <1>3 DEF Of
  <2> QED
    BY <2>1, <2>2 DEF IdsOf
<1>9. Upmost(r, last)
  BY <1>1, <1>3, <1>6 DEF Upmost
<1> QED
  BY <1>6, <1>7, <1>8, <1>9

\* The ids of rows.
LEMMA IdsAre ==
  ASSUME NEW q \in Seq(Rows), NEW d, d = Ids(q)
  PROVE  d \in Seq(Nat) /\ Len(d) = Len(q) /\ \A i \in 1..Len(q) : d[i] = q[i].id
<1>1. PICK n : n = Len(q)
  OBVIOUS
<1>2. n \in Nat /\ DOMAIN q = 1..n /\ \A i \in 1..n : q[i].id \in Nat
  BY <1>1, SeqIs, RowIs
<1>3. d = [i \in 1..n |-> q[i].id]
  BY <1>2 DEF Ids
<1>4. d \in [1..n -> Nat]
  BY <1>2, <1>3
<1> QED
  BY <1>1, <1>2, <1>3, <1>4, FunctionSeq

\* A list of a session has its ids, in order.
LEMMA IdsSorted ==
  ASSUME NEW q \in Seq(Rows), NEW s, Increasing(q), NEW w, w = At(q, Of(q, s))
  PROVE  /\ w \in Seq(Rows) /\ Ids(w) = Sorted(IdsOf(q, s)) /\ Len(w) = Len(Sorted(IdsOf(q, s)))
         /\ IdsOf(q, s) \in SUBSET Nat /\ IsFiniteSet(IdsOf(q, s))
         /\ \A i \in 1..Len(w) : w[i].row.session = s
<1>1. Of(q, s) \in SUBSET (1..Len(q))
  BY DEF Of
<1>2. PICK a : /\ Lists(a, Of(q, s)) /\ w \in Seq(Rows) /\ Len(w) = Len(a)
               /\ \A i \in 1..Len(a) : w[i] = q[a[i]]
  BY <1>1, AtLists
<1>3. /\ Len(a) \in Nat /\ Of(q, s) = {a[i] : i \in 1..Len(a)}
      /\ \A i \in 1..Len(a) : a[i] \in Of(q, s) /\ a[i] \in 1..Len(q)
      /\ \A i, j \in 1..Len(a) : i < j => a[i] < a[j]
  BY <1>1, <1>2 DEF Lists
<1>4. PICK d : d = Ids(w)
  OBVIOUS
<1>5. d \in Seq(Nat) /\ Len(d) = Len(w) /\ \A i \in 1..Len(w) : d[i] = w[i].id
  BY <1>2, <1>4, IdsAre
<1>6. \A i \in 1..Len(a) : d[i] = q[a[i]].id
  BY <1>2, <1>5
<1>7. \A i, j \in 1..Len(d) : i < j => d[i] < d[j]
  <2> SUFFICES ASSUME NEW i \in 1..Len(a), NEW j \in 1..Len(a), i < j PROVE d[i] < d[j]
    BY <1>2, <1>5
  <2>1. q[a[i]].id < q[a[j]].id
    BY <1>3 DEF Increasing
  <2> QED
    BY <1>6, <2>1
<1>8. PICK S : S = IdsOf(q, s)
  OBVIOUS
<1>9. S = {d[i] : i \in 1..Len(d)}
  <2>1. S = {q[j].id : j \in Of(q, s)}
    BY <1>8 DEF IdsOf
  <2>2. S = {q[a[i]].id : i \in 1..Len(a)}
    BY <1>3, <2>1
  <2>3. \A x : (\E i \in 1..Len(a) : x = q[a[i]].id) <=> (\E i \in 1..Len(a) : x = d[i])
    BY <1>6
  <2>4. S = {d[i] : i \in 1..Len(a)}
    BY <2>2, <2>3
  <2> QED
    BY <1>2, <1>5, <2>4
<1>10. IsFiniteSet(S) /\ Sorted(S) = d
  BY <1>5, <1>7, <1>9, SortedUnique
<1>11. S \in SUBSET Nat
  BY <1>5, <1>9, SeqIs
<1>12. \A i \in 1..Len(w) : w[i].row.session = s
  BY <1>2, <1>3 DEF Of
<1> QED
  BY <1>2, <1>4, <1>5, <1>8, <1>10, <1>11, <1>12

-----------------------------------------------------------------------------
(* A reader.                                                               *)

\* A sequence of some numbers.
LEMMA SeqOfSome ==
  ASSUME NEW S \in SUBSET Nat, NEW a \in Seq(S)
  PROVE  a \in Seq(Nat)
<1>1. a \in [1..Len(a) -> S] /\ Len(a) \in Nat
  BY SeqIs
<1>2. a \in [1..Len(a) -> Nat]
  BY <1>1
<1> QED
  BY <1>1, <1>2, FunctionSeq

\* Its place holds when later ids are added to its session.
LEMMA ReadsGrow ==
  ASSUME NEW seen, NEW start, NEW done, NEW ids \in SUBSET Nat, IsFiniteSet(ids),
         NEW T \in SUBSET Nat, IsFiniteSet(T), \A x \in ids : \A y \in T : x < y,
         Reads(seen, start, done, ids)
  PROVE  Reads(seen, start, done, ids \union T)
<1>1. PICK a, b, n : a = Sorted(ids) /\ b = Sorted(T) /\ n = Len(seen)
  OBVIOUS
<1>2. a \in Seq(Nat) /\ b \in Seq(Nat)
  <2>1. a \in Seq(ids) /\ b \in Seq(T)
    BY <1>1, SortedIs
  <2> QED
    BY <2>1, SeqOfSome
<1>3. /\ seen \in Seq(Nat) /\ n \in Nat /\ n <= Len(a) /\ seen = SubSeq(a, 1, n)
      /\ start \subseteq ids
      /\ done = TRUE => start \subseteq {seen[i] : i \in 1..n}
  BY <1>1 DEF Reads
<1>4. PICK c : c = a \o b
  OBVIOUS
<1>5. Sorted(ids \union T) = c
  BY <1>1, <1>4, SortedUnion
<1>6. /\ c \in Seq(Nat) /\ Len(c) = Len(a) + Len(b)
      /\ \A i \in 1..(Len(a) + Len(b)) : c[i] = IF i <= Len(a) THEN a[i] ELSE b[i - Len(a)]
  BY <1>2, <1>4, ConcatIs
<1>7. PICK la, lb : la = Len(a) /\ lb = Len(b)
  OBVIOUS
<1>8. la \in Nat /\ lb \in Nat
  BY <1>2, <1>7
<1>9. n <= Len(c)
  BY <1>3, <1>6, <1>7, <1>8
<1>10. PICK u : u = SubSeq(c, 1, n)
  OBVIOUS
<1>11. u \in Seq(Nat) /\ Len(u) = n /\ \A k \in 1..n : u[k] = c[k]
  BY <1>3, <1>6, <1>9, <1>10, FirstPart
<1>12. Len(seen) = n /\ \A k \in 1..n : seen[k] = a[k]
  BY <1>2, <1>3, FirstPart
<1>13. \A k \in 1..n : c[k] = a[k]
  <2> SUFFICES ASSUME NEW k \in 1..n PROVE c[k] = a[k]
    OBVIOUS
  <2>1. k \in 1..(la + lb) /\ k <= la
    BY <1>3, <1>7, <1>8
  <2> QED
    BY <1>6, <1>7, <2>1
<1>14. Len(seen) = Len(u) /\ \A k \in 1..Len(seen) : seen[k] = u[k]
  BY <1>11, <1>12, <1>13
<1>15. seen = u
  BY <1>3, <1>11, <1>14, SeqEq
<1>16. start \subseteq ids \union T
  BY <1>3
<1> QED
  BY <1>1, <1>3, <1>5, <1>9, <1>10, <1>15, <1>16 DEF Reads

\* Before the first page.
LEMMA ReadsStart ==
  ASSUME NEW ids \in SUBSET Nat, IsFiniteSet(ids)
  PROVE  Reads(<<>>, ids, FALSE, ids)
<1>1. PICK a : a = Sorted(ids)
  OBVIOUS
<1>2. Len(a) \in Nat /\ a \in Seq(ids)
  BY <1>1, SortedIs
<1>3. <<>> \in Seq(Nat) /\ Len(<<>>) = 0 /\ SubSeq(a, 1, 0) = <<>>
  BY <1>2
<1> QED
  BY <1>1, <1>2, <1>3 DEF Reads

\* One more page, up to some place; a short one ends the session.
LEMMA ReadsNext ==
  ASSUME NEW seen, NEW start, NEW ids \in SUBSET Nat, IsFiniteSet(ids),
         Reads(seen, start, FALSE, ids), NEW a, a = Sorted(ids),
         NEW to \in Nat, Len(seen) <= to, to <= Len(a), NEW done,
         done = TRUE => to = Len(a)
  PROVE  Reads(seen \o SubSeq(a, Len(seen) + 1, to), start, done, ids)
<1>1. PICK n : n = Len(seen)
  OBVIOUS
<1>2. a \in Seq(Nat) /\ Len(a) = Cardinality(ids) /\ ids = {a[i] : i \in 1..Len(a)}
  <2>1. a \in Seq(ids) /\ Len(a) = Cardinality(ids)
    BY SortedIs
  <2>2. a \in Seq(Nat)
    BY <2>1, SeqOfSome
  <2> QED
    BY <2>1, <2>2, SortedRange
<1>3. n \in Nat /\ seen = SubSeq(a, 1, n) /\ start \subseteq ids
  BY <1>1 DEF Reads
<1>4. SubSeq(a, 1, to) = SubSeq(a, 1, n) \o SubSeq(a, n + 1, to)
  BY <1>1, <1>2, <1>3, SubSeqJoin
<1>5. PICK u : u = SubSeq(a, 1, to)
  OBVIOUS
<1>6. seen \o SubSeq(a, Len(seen) + 1, to) = u
  BY <1>1, <1>3, <1>4, <1>5
<1>7. u \in Seq(Nat) /\ Len(u) = to
  <2>1. a \in Seq(Nat) /\ to \in Nat /\ to <= Len(a) /\ u = SubSeq(a, 1, to)
    BY <1>2, <1>5
  <2> QED
    BY <2>1, FirstPart
<1>8. u = SubSeq(a, 1, Len(u))
  BY <1>5, <1>7
<1>9. Len(u) <= Len(a)
  BY <1>7
<1>10. ASSUME done = TRUE PROVE start \subseteq {u[i] : i \in 1..Len(u)}
  <2>1. u = a
    BY <1>2, <1>5, <1>10, SubSeqAll
  <2> QED
    BY <1>2, <1>3, <2>1
<1> QED
  <2>1. Reads(u, start, done, ids)
    BY <1>3, <1>7, <1>8, <1>9, <1>10 DEF Reads
  <2> QED
    BY <1>6, <2>1

\* A reader at its place, when rows are added.
LEMMA PagerGrows ==
  ASSUME NEW p, NEW q, PagerIs(p, q), NEW r,
         \A t \in Sessions :
           /\ IdsOf(q, t) \in SUBSET Nat /\ IsFiniteSet(IdsOf(q, t))
           /\ \E T \in SUBSET Nat : /\ IsFiniteSet(T) /\ IdsOf(r, t) = IdsOf(q, t) \union T
                                    /\ \A x \in IdsOf(q, t) : \A y \in T : x < y
  PROVE  PagerIs(p, r)
<1>1. ASSUME p.session # Empty, p.intact = TRUE
      PROVE  Reads(p.seen, p.start, p.done, IdsOf(r, p.session))
  <2>1. p.session \in Sessions /\ Reads(p.seen, p.start, p.done, IdsOf(q, p.session))
    BY <1>1 DEF PagerIs
  <2>2. PICK t, ids, ids2 : t = p.session /\ ids = IdsOf(q, t) /\ ids2 = IdsOf(r, t)
    OBVIOUS
  <2>3. PICK T \in SUBSET Nat : /\ IsFiniteSet(T) /\ ids2 = ids \union T
                                /\ \A x \in ids : \A y \in T : x < y
    BY <2>1, <2>2
  <2>4. ids \in SUBSET Nat /\ IsFiniteSet(ids)
    BY <2>1, <2>2
  <2>5. PICK seen, start, done : seen = p.seen /\ start = p.start /\ done = p.done
    OBVIOUS
  <2>6. Reads(seen, start, done, ids)
    BY <2>1, <2>2, <2>5
  <2>7. Reads(seen, start, done, ids \union T)
    BY <2>3, <2>4, <2>6, ReadsGrow
  <2> QED
    BY <2>2, <2>3, <2>5, <2>7
<1> QED
  BY <1>1 DEF PagerIs

\* A reader whose session moved, or none of it did.
LEMMA PagerDisturbed ==
  ASSUME NEW p, NEW q, PagerIs(p, q), NEW S, NEW r,
         \A t \in Sessions : t \notin S => IdsOf(r, t) = IdsOf(q, t), NEW y,
         y = [p EXCEPT !.intact = @ /\ p.session \notin S]
  PROVE  PagerIs(y, r)
<1>1. PICK s, seen, start, done : /\ s = p.session /\ seen = p.seen /\ start = p.start
                                  /\ done = p.done
  OBVIOUS
<1>2. PICK old, intact : old = p.intact /\ intact = (old /\ s \notin S)
  OBVIOUS
<1>3. p = [session |-> s, seen |-> seen, start |-> start, intact |-> old, done |-> done]
  BY <1>1, <1>2 DEF PagerIs
<1>4. y = [session |-> s, seen |-> seen, start |-> start, intact |-> intact, done |-> done]
  BY <1>1, <1>2, <1>3
<1>5. /\ y.session = s /\ y.seen = seen /\ y.start = start /\ y.intact = intact
      /\ y.done = done
  BY <1>4
<1>6. /\ s \in Sessions \union {Empty} /\ old \in BOOLEAN /\ done \in BOOLEAN
      /\ s = Empty => done = FALSE
      /\ s # Empty /\ old = TRUE => Reads(seen, start, done, IdsOf(q, s))
  BY <1>1, <1>2 DEF PagerIs
<1>7. intact \in BOOLEAN /\ (intact = TRUE => old = TRUE /\ s \notin S)
  BY <1>2, <1>6
<1>8. s # Empty /\ intact = TRUE => Reads(seen, start, done, IdsOf(r, s))
  BY <1>6, <1>7
<1> QED
  BY <1>4, <1>5, <1>6, <1>7, <1>8 DEF PagerIs

\* The query for a page, and what it asks.
PageOf(s, off) == [Whole(s) EXCEPT !.limit = PageSize, !.offset = off]

\* Only the page is new to it.
LEMMA PageQuery ==
  ASSUME NEW s, NEW size, NEW off, NEW x, NEW y,
         x = [session |-> s, method |-> Empty, glob |-> <<>>, status |-> 0,
              mime |-> <<>>, limit |-> 0, offset |-> 0, ascending |-> TRUE],
         y = [x EXCEPT !.limit = size, !.offset = off]
  PROVE  y = [session |-> s, method |-> Empty, glob |-> <<>>, status |-> 0,
              mime |-> <<>>, limit |-> size, offset |-> off, ascending |-> TRUE]
  OBVIOUS

\* A page is what follows, up to its size; a shorter one is the last.
LEMMA ListPage ==
  ASSUME NEW q \in Seq(Rows), NEW s \in Sessions, NEW off \in Nat, NEW w,
         w = At(q, Of(q, s)), off <= Len(w), NEW page,
         page = List(q, PageOf(s, off))
  PROVE  \E to \in Nat : /\ off <= to /\ to <= Len(w) /\ page = SubSeq(w, off + 1, to)
                         /\ Len(page) < PageSize => to = Len(w)
<1>1. PICK x, y : /\ x = Whole(s) /\ y = [x EXCEPT !.limit = PageSize, !.offset = off]
                  /\ y = PageOf(s, off)
  BY DEF PageOf
<1>2. x = [session |-> s, method |-> Empty, glob |-> <<>>, status |-> 0,
              mime |-> <<>>, limit |-> 0, offset |-> 0, ascending |-> TRUE]
  BY <1>1, WholeIs
<1>3. y = [session |-> s, method |-> Empty, glob |-> <<>>, status |-> 0,
              mime |-> <<>>, limit |-> PageSize, offset |-> off, ascending |-> TRUE]
  BY <1>1, <1>2, PageQuery
<1>4. /\ y.session = s /\ y.method = Empty /\ y.glob = <<>> /\ y.status = 0
      /\ y.mime = <<>> /\ y.limit = PageSize /\ y.offset = off
  BY <1>3
<1>5. y.ascending = TRUE
  BY <1>3
<1>6. Matching(q, y) = w
  BY <1>4, WholeMatches
<1>7. PICK n, z : n = Len(w) /\ z = PageSize
  OBVIOUS
<1>8. n \in Nat /\ z \in Nat /\ z > 0 /\ w \in Seq(Rows)
  <2>1. Of(q, s) \in SUBSET (1..Len(q))
    BY DEF Of
  <2>2. w \in Seq(Rows)
    BY <2>1, AtIs
  <2>3. n \in Nat
    BY <1>7, <2>2
  <2>4. z \in Nat /\ z > 0
    BY <1>7, ArchiveAssumption
  <2> QED
    BY <2>2, <2>3, <2>4
<1>9. PICK to : to = IF z > 0 /\ off + z < n THEN off + z ELSE n
  OBVIOUS
<1>10. Ordered(y, w) = w /\ ~Fails(y)
  BY <1>4, <1>5, <1>7, <1>8 DEF Ordered, Fails
<1>11. List(q, y) = SubSeq(w, off + 1, to)
  BY <1>4, <1>6, <1>7, <1>9, <1>10 DEF List
<1>12. page = SubSeq(w, off + 1, to)
  BY <1>1, <1>11
<1>13. to \in Nat /\ off <= to /\ to <= n
  BY <1>7, <1>8, <1>9
<1>14. Len(page) = to - off
  <2>1. PICK a : a = off + 1
    OBVIOUS
  <2>2. a \in Nat \ {0} /\ a <= to + 1 /\ to <= Len(w) /\ to - a + 1 = to - off
    BY <1>7, <1>13, <2>1
  <2>3. page = SubSeq(w, a, to)
    BY <1>12, <2>1
  <2>4. Len(page) = to - a + 1
    BY <1>8, <1>13, <2>2, <2>3, SubSeqIs
  <2> QED
    BY <2>2, <2>4
<1>15. Len(page) < PageSize => to = n
  BY <1>7, <1>8, <1>9, <1>13, <1>14
<1> QED
  BY <1>7, <1>12, <1>13, <1>15

\* The ids of a page.
LEMMA IdsPart ==
  ASSUME NEW w \in Seq(Rows), NEW off \in Nat, NEW to \in Nat, off <= to, to <= Len(w),
         NEW page, page = SubSeq(w, off + 1, to)
  PROVE  Ids(page) = SubSeq(Ids(w), off + 1, to)
<1>1. PICK a, d, e, g : /\ a = off + 1 /\ d = Ids(w) /\ e = Ids(page)
                        /\ g = SubSeq(Ids(w), off + 1, to)
  OBVIOUS
<1>2. a \in Nat \ {0} /\ a <= to + 1
  BY <1>1
<1>3. /\ page \in Seq(Rows) /\ Len(page) = to - a + 1
      /\ \A k \in 1..(to - a + 1) : page[k] = w[a + k - 1]
  BY <1>1, <1>2, SubSeqIs
<1>4. d \in Seq(Nat) /\ Len(d) = Len(w) /\ \A i \in 1..Len(w) : d[i] = w[i].id
  BY <1>1, IdsAre
<1>5. e \in Seq(Nat) /\ Len(e) = Len(page) /\ \A i \in 1..Len(page) : e[i] = page[i].id
  BY <1>1, <1>3, IdsAre
<1>6. g = SubSeq(d, a, to) /\ to <= Len(d)
  BY <1>1, <1>4
<1>7. /\ g \in Seq(Nat) /\ Len(g) = to - a + 1
      /\ \A k \in 1..(to - a + 1) : g[k] = d[a + k - 1]
  BY <1>2, <1>4, <1>6, SubSeqIs
<1>8. PICK n, m : n = to - a + 1 /\ m = Len(w)
  OBVIOUS
<1>9. \A k \in 1..n : a + k - 1 \in 1..m
  BY <1>1, <1>8
<1>10. \A k \in 1..n : e[k] = g[k]
  BY <1>3, <1>4, <1>5, <1>7, <1>8, <1>9
<1>11. Len(e) = Len(g) /\ \A k \in 1..Len(e) : e[k] = g[k]
  BY <1>3, <1>5, <1>7, <1>8, <1>10
<1>12. e = g
  BY <1>5, <1>7, <1>11, SeqEq
<1> QED
  BY <1>1, <1>12

-----------------------------------------------------------------------------
(* The invariant is inductive: one lemma for each command.                 *)

\* The first state.
LEMMA InvInit == Init => Inv
<1> SUFFICES ASSUME Init PROVE Inv
  OBVIOUS
<1>1. StoresOK
  BY DEF Init, StoresOK, Increasing, Upmost
<1>2. DocIs(doc)
  <2>1. doc.session = Empty /\ doc.entries = <<>>
    BY DEF Init
  <2> QED
    BY <2>1 DEF DocIs
<1>3. PagerIs(pager, durable)
  <2>1. pager = [session |-> Empty, seen |-> <<>>, start |-> {}, intact |-> TRUE,
                 done |-> FALSE]
    BY DEF Init, NoPager
  <2>2. /\ pager.session = Empty /\ pager.seen = <<>> /\ pager.start = {}
        /\ pager.intact = TRUE /\ pager.done = FALSE
    BY <2>1
  <2> QED
    BY <2>1, <2>2 DEF PagerIs
<1> QED
  BY <1>1, <1>2, <1>3 DEF Inv

\* Session.record.
LEMMA RecordInv ==
  ASSUME NEW tx \in Transactions, Inv, Record(tx)
  PROVE  Inv'
<1>1. PICK row : row = insertEntry(Live, entryFromTransaction(Live, tx))
  OBVIOUS
<1>2. row = RowOf(Live, tx, FALSE)
  BY <1>1, EntryIs, InsertIs
<1>3. PICK id, st : id = Len(mem) + 1 /\ st = Stored(id, row, tx, FALSE)
  OBVIOUS
<1>4. mem \in Seq(Rows)
  BY DEF Inv, StoresOK
<1>5. id \in Nat
  BY <1>3, <1>4
<1>6. st \in Rows
  BY <1>2, <1>3, <1>5, ArchiveAssumption, RowMade
<1>7. mem' = Append(mem, st)
  BY <1>1, <1>3 DEF Record
<1>8. mem' \in Seq(Rows)
  BY <1>4, <1>6, <1>7
<1>9. UNCHANGED <<durable, lastId, doc, pager>>
  BY DEF Record
<1> QED
  BY <1>8, <1>9 DEF Inv, StoresOK

\* A command that adds rows to some that are left.
LEMMA InsertInv ==
  ASSUME Inv, NEW q \in Seq(Rows), Increasing(q), Upmost(q, lastId), NEW s \in Sessions,
         NEW es \in Seq(Items), durable' = Inserted(q, s, es), lastId' = lastId + Len(es),
         UNCHANGED <<mem, doc>>
  PROVE  /\ StoresOK' /\ DocIs(doc)'
         /\ \A t : t # s => IdsOf(durable', t) = IdsOf(q, t)
         /\ IdsOf(durable', s) = IdsOf(q, s) \union ((lastId + 1)..(lastId + Len(es)))
<1>1. lastId \in Nat /\ mem \in Seq(Rows) /\ DocIs(doc)
  BY DEF Inv, StoresOK
<1>2. PICK n : n = Len(es)
  OBVIOUS
<1>3. PICK z : Added(z, s, lastId, n) /\ durable' = q \o z
  BY <1>1, <1>2, InsertedAdds
<1>4. PICK r : r = durable'
  OBVIOUS
<1>5. /\ r \in Seq(Rows) /\ Increasing(r) /\ Upmost(r, lastId + n)
      /\ \A t : t # s => IdsOf(r, t) = IdsOf(q, t)
      /\ IdsOf(r, s) = IdsOf(q, s) \union ((lastId + 1)..(lastId + n))
  <2>1. PICK last \in Nat : last = lastId
    BY <1>1
  <2>2. r = q \o z /\ n \in Nat /\ Added(z, s, last, n) /\ Upmost(q, last)
    BY <1>2, <1>3, <1>4, <2>1
  <2>3. Extends(r, q, s, last, n)
    BY <2>2, AddedIs
  <2> QED
    BY <2>1, <2>3 DEF Extends
<1>6. n \in Nat /\ lastId' = lastId + n
  BY <1>2
<1>7. lastId' \in Nat
  BY <1>1, <1>6
<1>8. StoresOK'
  BY <1>1, <1>4, <1>5, <1>6, <1>7 DEF StoresOK
<1> QED
  BY <1>1, <1>2, <1>4, <1>5, <1>8

\* cmdSave.
LEMMA SaveInv ==
  ASSUME Inv, Save
  PROVE  Inv'
<1>1. /\ mem \in Seq(Rows) /\ durable \in Seq(Rows) /\ Increasing(durable)
      /\ Upmost(durable, lastId) /\ Live \in Sessions
  BY ArchiveAssumption DEF Inv, StoresOK
<1>2. PICK rs, all, es, q : /\ rs = List(mem, Whole(Live)) /\ all = Entries(rs)
                            /\ es = Taken(all) /\ q = Without(Live)
  OBVIOUS
<1>3. rs \in Seq(Rows)
  BY <1>1, <1>2, ListWhole
<1>4. all \in Seq(Items)
  BY <1>2, <1>3, EntriesAre
<1>5. es \in Seq(Items)
  BY <1>2, <1>4, TakenIs
<1>6. /\ durable' = Inserted(q, Live, es) /\ lastId' = lastId + Len(es)
      /\ Disturb({Live}) /\ UNCHANGED <<sqlite, mem, doc>>
  BY <1>2 DEF Save
<1>7. /\ q \in Seq(Rows) /\ Increasing(q) /\ Upmost(q, lastId)
      /\ \A t : t # Live => IdsOf(q, t) = IdsOf(durable, t)
  BY <1>1, <1>2, WithoutIs
<1>8. /\ StoresOK' /\ DocIs(doc)' /\ \A t : t # Live => IdsOf(durable', t) = IdsOf(q, t)
  BY <1>1, <1>5, <1>6, <1>7, InsertInv
<1>9. PICK r, y : r = durable' /\ y = pager'
  OBVIOUS
<1>10. \A t \in Sessions : t \notin {Live} => IdsOf(r, t) = IdsOf(durable, t)
  BY <1>7, <1>8, <1>9
<1>11. y = [pager EXCEPT !.intact = @ /\ pager.session \notin {Live}]
  BY <1>6, <1>9 DEF Disturb
<1>12. PagerIs(pager, durable)
  BY DEF Inv
<1>13. PagerIs(y, r)
  BY <1>10, <1>11, <1>12, PagerDisturbed
<1> QED
  BY <1>8, <1>9, <1>13 DEF Inv

\* cmdExport.
LEMMA ExportInv ==
  ASSUME Inv, NEW s \in Sessions, NEW q \in storeFor(s), Export(s, q)
  PROVE  Inv'
<1>1. q \in {mem, durable}
  BY DEF storeFor
<1>2. q \in Seq(Rows)
  BY <1>1 DEF Inv, StoresOK
<1>3. PICK rs, es, n : rs = List(q, Whole(s)) /\ es = Entries(rs) /\ n = Len(rs)
  OBVIOUS
<1>4. rs = At(q, Of(q, s)) /\ rs \in Seq(Rows) /\ Of(q, s) \in SUBSET (1..Len(q))
  BY <1>2, <1>3, ListWhole
<1>5. n \in Nat /\ \A i \in 1..n : rs[i] \in Rows /\ rs[i].row.session = s
  <2>1. n \in Nat /\ \A i \in 1..n : rs[i] \in Rows
    BY <1>3, <1>4, SeqIs
  <2>2. \A i \in 1..n : \E j \in Of(q, s) : rs[i] = q[j]
    BY <1>2, <1>3, <1>4, AtIs
  <2> QED
    BY <2>1, <2>2 DEF Of
<1>6. /\ es \in Seq(Items) /\ Len(es) = n
      /\ \A i \in 1..n : es[i] = Item(s, rs[i].tx, rs[i].json)
  <2>1. /\ es \in Seq(Items) /\ Len(es) = Len(rs)
        /\ \A i \in 1..Len(rs) : es[i] = Item(rs[i].row.session, rs[i].tx, rs[i].json)
    BY <1>3, <1>4, EntriesAre
  <2> QED
    BY <1>3, <1>5, <2>1
<1>7. DOMAIN es = 1..n
  BY <1>6, SeqIs
<1>8. PICK ds : ds = [i \in 1..n |-> [entry |-> JsonEntry(es[i].entry), tx |-> es[i].tx,
                                     json |-> TRUE]]
  OBVIOUS
<1>9. doc' = [session |-> s, entries |-> ds]
  BY <1>3, <1>7, <1>8 DEF Export
<1>10. doc'.session = s /\ doc'.entries = ds
  BY <1>9
<1>11. ASSUME NEW i \in 1..n
       PROVE  (\E tx \in Transactions : ds[i] = Item(s, tx, TRUE)) /\ ds[i] \in Items
  <2>1. PICK st : st = rs[i]
    OBVIOUS
  <2>2. st.tx \in Transactions /\ st.json \in BOOLEAN
    BY <1>5, <2>1, RowIs
  <2>3. es[i].entry = Ent(s, st.tx, st.json) /\ es[i].tx = st.tx
    BY <1>6, <2>1 DEF Item
  <2>4. JsonEntry(Ent(s, st.tx, st.json)) = Ent(s, st.tx, TRUE)
    BY <2>2, EntryJson
  <2>5. ds[i] = [entry |-> JsonEntry(es[i].entry), tx |-> es[i].tx, json |-> TRUE]
    BY <1>8
  <2>6. ds[i] = Item(s, st.tx, TRUE)
    BY <2>3, <2>4, <2>5 DEF Item
  <2>7. PICK tx \in Transactions : tx = st.tx
    BY <2>2
  <2>8. Item(s, tx, TRUE) \in Items
    BY ItemMade
  <2> QED
    BY <2>6, <2>7, <2>8
<1>12. ds \in Seq(Items) /\ Len(ds) = n
  <2>1. ds \in [1..n -> Items]
    BY <1>8, <1>11
  <2> QED
    BY <1>5, <2>1, FunctionSeq
<1>13. s # Empty
  BY ArchiveAssumption
<1>14. DocIs(doc)'
  BY <1>10, <1>11, <1>12, <1>13 DEF DocIs
<1>15. UNCHANGED <<mem, durable, lastId, pager>>
  BY DEF Export
<1> QED
  BY <1>14, <1>15 DEF Inv, StoresOK

\* cmdImport.
LEMMA ImportInv ==
  ASSUME Inv, NEW s \in Sessions, Import(s)
  PROVE  Inv'
<1>1. /\ durable \in Seq(Rows) /\ Increasing(durable) /\ Upmost(durable, lastId)
      /\ lastId \in Nat
  BY DEF Inv, StoresOK
<1>2. PICK es : es = Taken(doc.entries)
  OBVIOUS
<1>3. es \in Seq(Items)
  <2>1. doc.entries \in Seq(Items)
    BY DEF Inv, DocIs
  <2> QED
    BY <1>2, <2>1, TakenIs
<1>4. /\ durable' = Inserted(durable, s, es) /\ lastId' = lastId + Len(es)
      /\ UNCHANGED <<sqlite, mem, doc, pager>>
  BY <1>2 DEF Import
<1>5. /\ StoresOK' /\ DocIs(doc)'
      /\ \A t : t # s => IdsOf(durable', t) = IdsOf(durable, t)
      /\ IdsOf(durable', s) = IdsOf(durable, s) \union ((lastId + 1)..(lastId + Len(es)))
  BY <1>1, <1>3, <1>4, InsertInv
<1>6. PICK r, n : r = durable' /\ n = Len(es)
  OBVIOUS
<1>7. n \in Nat
  BY <1>3, <1>6
<1>8. PICK T : T = (lastId + 1)..(lastId + n)
  OBVIOUS
<1>9. T \in SUBSET Nat /\ IsFiniteSet(T) /\ {} \in SUBSET Nat /\ IsFiniteSet({})
  <2>1. lastId + 1 \in Int /\ lastId + n \in Int
    BY <1>1, <1>7
  <2>2. IsFiniteSet(T)
    BY <1>8, <2>1, FS_Interval
  <2>3. T \in SUBSET Nat
    BY <1>1, <1>7, <1>8
  <2> QED
    BY <2>2, <2>3, FS_EmptySet
<1>10. ASSUME NEW t \in Sessions
       PROVE  /\ IdsOf(durable, t) \in SUBSET Nat /\ IsFiniteSet(IdsOf(durable, t))
              /\ \E U \in SUBSET Nat :
                   /\ IsFiniteSet(U) /\ IdsOf(r, t) = IdsOf(durable, t) \union U
                   /\ \A x \in IdsOf(durable, t) : \A y \in U : x < y
  <2>1. IdsOf(durable, t) \in SUBSET Nat /\ IsFiniteSet(IdsOf(durable, t))
    BY <1>1, IdsSorted
  <2>2. CASE t = s
    <3>1. IdsOf(r, t) = IdsOf(durable, t) \union T
      BY <1>5, <1>6, <1>8, <2>2
    <3>2. ASSUME NEW x \in IdsOf(durable, t), NEW y \in T PROVE x < y
      <4>1. x <= lastId
        BY <1>1 DEF IdsOf, Of, Upmost
      <4>2. x \in Nat
        BY <2>1
      <4> QED
        BY <1>1, <1>7, <1>8, <4>1, <4>2
    <3> QED
      BY <1>9, <2>1, <3>1, <3>2
  <2>3. CASE t # s
    <3>1. IdsOf(r, t) = IdsOf(durable, t) \union {}
      BY <1>5, <1>6, <2>3
    <3> QED
      BY <1>9, <2>1, <3>1
  <2> QED
    BY <2>2, <2>3
<1>11. PagerIs(pager, durable)
  BY DEF Inv
<1>12. PagerIs(pager, r)
  BY <1>10, <1>11, PagerGrows
<1> QED
  BY <1>4, <1>5, <1>6, <1>12 DEF Inv

\* RenameSession.
LEMMA RenameInv ==
  ASSUME Inv, NEW old \in Sessions, NEW new \in Sessions, RenameSession(old, new)
  PROVE  Inv'
<1>1. /\ durable \in Seq(Rows) /\ Increasing(durable) /\ Upmost(durable, lastId)
  BY DEF Inv, StoresOK
<1>2. PICK r, y : r = durable' /\ y = pager'
  OBVIOUS
<1>3. r = [i \in DOMAIN durable |->
             IF durable[i].row.session = old THEN Renamed(durable[i], new) ELSE durable[i]]
  BY <1>2 DEF RenameSession, Renamed
<1>4. /\ r \in Seq(Rows) /\ Increasing(r) /\ Upmost(r, lastId)
      /\ \A t : t \notin {old, new} => IdsOf(r, t) = IdsOf(durable, t)
  BY <1>1, <1>3, RenamedIs
<1>5. Disturb({old, new}) /\ UNCHANGED <<sqlite, mem, lastId, doc>>
  BY DEF RenameSession
<1>6. y = [pager EXCEPT !.intact = @ /\ pager.session \notin {old, new}]
  BY <1>2, <1>5 DEF Disturb
<1>7. PagerIs(pager, durable)
  BY DEF Inv
<1>8. PagerIs(y, r)
  BY <1>4, <1>6, <1>7, PagerDisturbed
<1> QED
  BY <1>2, <1>4, <1>5, <1>8 DEF Inv, StoresOK

\* DeleteSession.
LEMMA DeleteInv ==
  ASSUME Inv, NEW s \in Sessions, DeleteSession(s)
  PROVE  Inv'
<1>1. /\ durable \in Seq(Rows) /\ Increasing(durable) /\ Upmost(durable, lastId)
  BY DEF Inv, StoresOK
<1>2. PICK r, y : r = durable' /\ y = pager'
  OBVIOUS
<1>3. r = Without(s) /\ Disturb({s}) /\ UNCHANGED <<sqlite, mem, lastId, doc>>
  BY <1>2 DEF DeleteSession
<1>4. /\ r \in Seq(Rows) /\ Increasing(r) /\ Upmost(r, lastId)
      /\ \A t : t # s => IdsOf(r, t) = IdsOf(durable, t)
  BY <1>1, <1>3, WithoutIs
<1>5. \A t \in Sessions : t \notin {s} => IdsOf(r, t) = IdsOf(durable, t)
  BY <1>4
<1>6. y = [pager EXCEPT !.intact = @ /\ pager.session \notin {s}]
  BY <1>2, <1>3 DEF Disturb
<1>7. PagerIs(pager, durable)
  BY DEF Inv
<1>8. PagerIs(y, r)
  BY <1>5, <1>6, <1>7, PagerDisturbed
<1> QED
  BY <1>2, <1>3, <1>4, <1>8 DEF Inv, StoresOK

\* A reader begins.
LEMMA PageStartInv ==
  ASSUME Inv, NEW s \in Sessions, PageStart(s)
  PROVE  Inv'
<1>1. durable \in Seq(Rows) /\ Increasing(durable)
  BY DEF Inv, StoresOK
<1>2. PICK w, ids, d : w = At(durable, Of(durable, s)) /\ ids = IdsOf(durable, s) /\ d = Ids(w)
  OBVIOUS
<1>3. List(durable, Whole(s)) = w
  BY <1>1, <1>2, ListWhole
<1>4. d = Sorted(ids) /\ ids \in SUBSET Nat /\ IsFiniteSet(ids)
  BY <1>1, <1>2, IdsSorted
<1>5. ToSet(d) = ids
  <2>1. d \in Seq(ids) /\ Len(d) = Cardinality(ids)
    BY <1>4, SortedIs
  <2>2. DOMAIN d = 1..Cardinality(ids)
    BY <2>1, SeqIs
  <2>3. ids = {d[i] : i \in 1..Cardinality(ids)}
    BY <1>4, SortedRange
  <2> QED
    BY <2>2, <2>3 DEF ToSet
<1>6. PICK p : p = pager'
  OBVIOUS
<1>7. p = [NoPager EXCEPT !.session = s, !.start = ids]
  BY <1>2, <1>3, <1>5, <1>6 DEF PageStart
<1>8. p = [session |-> s, seen |-> <<>>, start |-> ids, intact |-> TRUE, done |-> FALSE]
  BY <1>7 DEF NoPager
<1>9. /\ p.session = s /\ p.seen = <<>> /\ p.start = ids /\ p.intact = TRUE
      /\ p.done = FALSE
  BY <1>8
<1>10. Reads(<<>>, ids, FALSE, ids)
  BY <1>4, ReadsStart
<1>11. s # Empty
  BY ArchiveAssumption
<1>12. PagerIs(p, durable)
  BY <1>2, <1>8, <1>9, <1>10, <1>11 DEF PagerIs
<1>13. UNCHANGED <<mem, durable, lastId, doc>>
  BY DEF PageStart
<1> QED
  BY <1>6, <1>12, <1>13 DEF Inv, StoresOK

\* The page after what a reader has.
LEMMA PageReads ==
  ASSUME NEW q \in Seq(Rows), Increasing(q), NEW s \in Sessions, NEW seen, NEW start,
         Reads(seen, start, FALSE, IdsOf(q, s)), NEW page,
         page = List(q, PageOf(s, Len(seen)))
  PROVE  Reads(seen \o Ids(page), start, Len(page) < PageSize, IdsOf(q, s))
<1>1. PICK w, ids, off : w = At(q, Of(q, s)) /\ ids = IdsOf(q, s) /\ off = Len(seen)
  OBVIOUS
<1>2. /\ w \in Seq(Rows) /\ Ids(w) = Sorted(ids) /\ Len(w) = Len(Sorted(ids))
      /\ ids \in SUBSET Nat /\ IsFiniteSet(ids)
  BY <1>1, IdsSorted
<1>3. off \in Nat /\ off <= Len(w) /\ Reads(seen, start, FALSE, ids)
  BY <1>1, <1>2 DEF Reads
<1>4. PICK to \in Nat : /\ off <= to /\ to <= Len(w) /\ page = SubSeq(w, off + 1, to)
                        /\ Len(page) < PageSize => to = Len(w)
  <2>1. page = List(q, PageOf(s, off))
    BY <1>1
  <2> QED
    BY <1>1, <1>3, <2>1, ListPage
<1>5. Ids(page) = SubSeq(Ids(w), off + 1, to)
  BY <1>2, <1>3, <1>4, IdsPart
<1>6. PICK done : done = (Len(page) < PageSize)
  OBVIOUS
<1>7. PICK a : a = Sorted(ids)
  OBVIOUS
<1>8. done = TRUE => to = Len(a)
  BY <1>2, <1>4, <1>6, <1>7
<1>9. Len(seen) <= to /\ to <= Len(a)
  BY <1>1, <1>2, <1>4, <1>7
<1>10. Reads(seen \o SubSeq(a, Len(seen) + 1, to), start, done, ids)
  BY <1>2, <1>3, <1>7, <1>8, <1>9, ReadsNext
<1> QED
  BY <1>1, <1>2, <1>5, <1>6, <1>7, <1>10

\* A reader takes a page.
LEMMA PageNextInv ==
  ASSUME Inv, PageNext
  PROVE  Inv'
<1>1. durable \in Seq(Rows) /\ Increasing(durable) /\ PagerIs(pager, durable)
  BY DEF Inv, StoresOK
<1>2. PICK s, seen, start, intact : /\ s = pager.session /\ seen = pager.seen
                                    /\ start = pager.start /\ intact = pager.intact
  OBVIOUS
<1>3. PICK page, done : /\ page = List(durable, PageOf(s, Len(seen)))
                        /\ done = (Len(page) < PageSize)
  OBVIOUS
<1>4. s # Empty /\ ~pager.done
  BY <1>2 DEF PageNext
<1>5. pager.done \in BOOLEAN
  BY <1>1 DEF PagerIs
<1>6. pager.done = FALSE
  BY <1>4, <1>5
<1>7. pager = [session |-> s, seen |-> seen, start |-> start, intact |-> intact,
               done |-> pager.done]
  BY <1>1, <1>2 DEF PagerIs
<1>8. PICK p : p = pager'
  OBVIOUS
<1>9. p = [pager EXCEPT !.seen = @ \o Ids(page), !.done = done]
  BY <1>2, <1>3, <1>8 DEF PageNext, PageOf
<1>10. PICK more : more = seen \o Ids(page)
  OBVIOUS
<1>11. p = [session |-> s, seen |-> more, start |-> start, intact |-> intact,
            done |-> done]
  <2>1. PICK o, was, d : o = pager /\ was = pager.done /\ d = Ids(page)
    OBVIOUS
  <2>2. /\ o = [session |-> s, seen |-> seen, start |-> start, intact |-> intact,
                done |-> was]
        /\ p = [o EXCEPT !.seen = @ \o d, !.done = done]
    BY <1>7, <1>9, <2>1
  <2>3. p = [session |-> s, seen |-> seen \o d, start |-> start, intact |-> intact,
             done |-> done]
    BY <2>2
  <2> QED
    BY <1>10, <2>1, <2>3
<1>12. /\ p.session = s /\ p.seen = more /\ p.start = start /\ p.intact = intact
       /\ p.done = done
  BY <1>11
<1>13. /\ s \in Sessions \union {Empty} /\ s \in Sessions /\ intact \in BOOLEAN
       /\ done \in BOOLEAN
  BY <1>1, <1>2, <1>3, <1>4 DEF PagerIs
<1>14. ASSUME intact = TRUE PROVE Reads(more, start, done, IdsOf(durable, s))
  <2>1. Reads(seen, start, FALSE, IdsOf(durable, s))
    BY <1>1, <1>2, <1>4, <1>6, <1>14 DEF PagerIs
  <2>2. Reads(seen \o Ids(page), start, Len(page) < PageSize, IdsOf(durable, s))
    BY <1>1, <1>3, <1>13, <2>1, PageReads
  <2> QED
    BY <1>3, <1>10, <2>2
<1>15. PagerIs(p, durable)
  BY <1>4, <1>11, <1>12, <1>13, <1>14 DEF PagerIs
<1>16. UNCHANGED <<mem, durable, lastId, doc>>
  BY DEF PageNext
<1> QED
  BY <1>8, <1>15, <1>16 DEF Inv, StoresOK

\* Every step keeps the invariant.
LEMMA InvNext ==
  ASSUME Inv, [Next]_vars
  PROVE  Inv'
<1>1. CASE \E tx \in Transactions : Record(tx)
  BY <1>1, RecordInv
<1>2. CASE Save
  BY <1>2, SaveInv
<1>3. CASE PageNext
  BY <1>3, PageNextInv
<1>4. CASE \E s \in Sessions : \E q \in storeFor(s) : Export(s, q)
  BY <1>4, ExportInv
<1>5. CASE \E s \in Sessions : Import(s) \/ DeleteSession(s) \/ PageStart(s)
  <2>1. PICK s \in Sessions : Import(s) \/ DeleteSession(s) \/ PageStart(s)
    BY <1>5
  <2> QED
    BY <2>1, ImportInv, DeleteInv, PageStartInv
<1>6. CASE \E old, new \in Sessions : RenameSession(old, new)
  BY <1>6, RenameInv
<1>7. CASE UNCHANGED vars
  BY <1>7 DEF vars, Inv, StoresOK
<1> QED
  BY <1>1, <1>2, <1>3, <1>4, <1>5, <1>6, <1>7 DEF Next

\* In every state, the stores hold entries of transactions in order of ids that
\* were never used before, and a reader whose session did not move has its first
\* ids: whatever is recorded, saved, exported, imported, renamed or deleted.
THEOREM ArchiveInvariant == Spec => []Inv
<1>1. Init => Inv
  BY InvInit
<1>2. Inv /\ [Next]_vars => Inv'
  BY InvNext
<1> QED
  BY <1>1, <1>2, PTL DEF Spec

-----------------------------------------------------------------------------
(* What holds an entry.                                                    *)

\* An entry, where it is held.
HeldOf(s, tx, json) == [of |-> Item(s, tx, json), session |-> s]

\* All that is held is the entry of a transaction, under the session it names.
LEMMA HeldIs ==
  ASSUME Inv, NEW h \in Held
  PROVE  \E s \in Sessions, tx \in Transactions, json \in BOOLEAN : h = HeldOf(s, tx, json)
<1>1. ASSUME NEW store \in Seq(Rows), h \in ReadFrom(store)
      PROVE  \E s \in Sessions, tx \in Transactions, json \in BOOLEAN : h = HeldOf(s, tx, json)
  <2>1. PICK s \in Sessions : h \in Under(Entries(List(store, Whole(s))), s)
    BY <1>1 DEF ReadFrom
  <2>2. \E e \in ToSet(Entries(List(store, Whole(s)))) : h = [of |-> e, session |-> s]
    BY <2>1 DEF Under
  <2>3. store \in Seq(Rows)
    OBVIOUS
  <2>4. PICK rs, es : rs = List(store, Whole(s)) /\ es = Entries(rs)
    OBVIOUS
  <2>5. rs = At(store, Of(store, s)) /\ rs \in Seq(Rows) /\ Of(store, s) \in SUBSET (1..Len(store))
    BY <2>3, <2>4, ListWhole
  <2>6. /\ es \in Seq(Items) /\ Len(es) = Len(rs)
        /\ \A i \in 1..Len(rs) : es[i] = Item(rs[i].row.session, rs[i].tx, rs[i].json)
    BY <2>4, <2>5, EntriesAre
  <2>7. DOMAIN es = 1..Len(rs) /\ \A i \in 1..Len(rs) : rs[i] \in Rows
    BY <2>5, <2>6, SeqIs
  <2>8. PICK i \in 1..Len(rs) : h = [of |-> es[i], session |-> s]
    BY <2>2, <2>4, <2>7 DEF ToSet
  <2>9. rs[i].row.session = s
    <3>1. \E j \in Of(store, s) : rs[i] = store[j]
      BY <2>3, <2>5, AtIs
    <3> QED
      BY <3>1 DEF Of
  <2>10. rs[i].tx \in Transactions /\ rs[i].json \in BOOLEAN
    BY <2>7, RowIs
  <2>11. PICK tx \in Transactions, json \in BOOLEAN : tx = rs[i].tx /\ json = rs[i].json
    BY <2>10
  <2>12. h = HeldOf(s, tx, json)
    BY <2>6, <2>8, <2>9, <2>11 DEF HeldOf
  <2> QED
    BY <2>12
<1>2. CASE \E e \in ToSet(doc.entries) : h = [of |-> e, session |-> doc.session]
  <2>1. PICK s, ds : s = doc.session /\ ds = doc.entries
    OBVIOUS
  <2>2. /\ s \in Sessions \union {Empty} /\ ds \in Seq(Items) /\ (s = Empty => ds = <<>>)
        /\ \A i \in 1..Len(ds) : \E tx \in Transactions : ds[i] = Item(s, tx, TRUE)
    BY <2>1 DEF Inv, DocIs
  <2>3. PICK i \in 1..Len(ds) : h = [of |-> ds[i], session |-> s]
    <3>1. DOMAIN ds = 1..Len(ds)
      BY <2>2, SeqIs
    <3> QED
      BY <1>2, <2>1, <3>1 DEF ToSet
  <2>4. s \in Sessions
    <3>1. CASE s = Empty
      <4>1. ds = <<>>
        BY <2>2, <3>1
      <4>2. 1..Len(ds) = {}
        BY <4>1
      <4> QED
        BY <4>2
    <3> QED
      BY <2>2, <3>1
  <2>5. PICK tx \in Transactions : ds[i] = Item(s, tx, TRUE)
    BY <2>2
  <2>6. h = HeldOf(s, tx, TRUE)
    BY <2>3, <2>5 DEF HeldOf
  <2>7. PICK json \in BOOLEAN : json = TRUE
    OBVIOUS
  <2> QED
    BY <2>4, <2>6, <2>7
<1>3. CASE h \in Under(doc.entries, doc.session)
  BY <1>2, <1>3 DEF Under
<1>4. h \in ReadFrom(mem) \/ h \in ReadFrom(durable) \/ h \in Under(doc.entries, doc.session)
  BY DEF Held
<1>5. mem \in Seq(Rows) /\ durable \in Seq(Rows)
  BY DEF Inv, StoresOK
<1> QED
  BY <1>1, <1>3, <1>4, <1>5

\* Its entry, field by field.
LEMMA HeldFields ==
  ASSUME NEW s, NEW tx, NEW json \in BOOLEAN, NEW h, h = HeldOf(s, tx, json)
  PROVE  /\ h.session = s /\ h.of.tx = tx /\ h.of.json = json
         /\ h.of.entry.request = Req(tx, json) /\ h.of.entry.response = Resp(tx, json)
         /\ h.of.entry.lebedev = <<lebedevMeta(s, tx)>>
<1>1. h.session = s /\ h.of = Item(s, tx, json)
  BY DEF HeldOf
<1>2. PICK x : x = Item(s, tx, json)
  OBVIOUS
<1>3. x.tx = tx /\ x.json = json /\ x.entry = Ent(s, tx, json)
  BY <1>2 DEF Item
<1>4. PICK e : e = Ent(s, tx, json)
  OBVIOUS
<1>5. /\ e.request = Req(tx, json) /\ e.response = Resp(tx, json)
      /\ e.lebedev = <<lebedevMeta(s, tx)>>
  BY <1>4 DEF Ent
<1> QED
  BY <1>1, <1>2, <1>3, <1>4, <1>5

\* A body decodes to itself.
LEMMA DecodeIs ==
  ASSUME NEW b
  PROVE  Decode(bodyText(b)) = b
<1>1. CASE Valid(b)
  <2>1. PICK x : x = bodyText(b)
    OBVIOUS
  <2>2. x = [text |-> [form |-> "plain", of |-> b], encoding |-> ""]
    BY <1>1, <2>1 DEF bodyText, Plain
  <2>3. x.encoding = "" /\ x.text.of = b
    BY <2>2
  <2> QED
    BY <2>1, <2>3 DEF Decode
<1>2. CASE ~Valid(b)
  <2>1. PICK x : x = bodyText(b)
    OBVIOUS
  <2>2. x = [text |-> [form |-> "base64", of |-> b], encoding |-> "base64"]
    BY <1>2, <2>1 DEF bodyText, Base64
  <2>3. x.text.form = "base64" /\ x.text.of = b
    BY <2>2
  <2> QED
    BY <2>1, <2>3 DEF Decode
<1> QED
  BY <1>1, <1>2

\* So do the bodies that an entry holds.
LEMMA InvBodies ==
  ASSUME Inv
  PROVE  BodiesSurvive
<1> SUFFICES ASSUME NEW h \in Held
             PROVE  /\ [i \in DOMAIN h.of.entry.request.post |->
                          Decode(h.of.entry.request.post[i])]
                         = IF h.of.tx.req.body = <<>> THEN <<>> ELSE <<h.of.tx.req.body>>
                    /\ Decode(h.of.entry.response.content) = h.of.tx.resp.body
                    /\ h.of.entry.request.bodySize = Len(h.of.tx.req.body)
  BY DEF BodiesSurvive
<1>1. PICK s \in Sessions, tx \in Transactions, json \in BOOLEAN : h = HeldOf(s, tx, json)
  BY HeldIs
<1>2. /\ h.of.tx = tx /\ h.of.entry.request = Req(tx, json)
      /\ h.of.entry.response = Resp(tx, json)
  BY <1>1, HeldFields
<1>3. PICK b, q, p : b = tx.req.body /\ q = Req(tx, json) /\ p = Resp(tx, json)
  OBVIOUS
<1>4. q.post = Post(b) /\ q.bodySize = Len(b) /\ p.content = bodyText(tx.resp.body)
  BY <1>3 DEF Req, Resp
<1>5. [i \in DOMAIN Post(b) |-> Decode(Post(b)[i])] = IF b = <<>> THEN <<>> ELSE <<b>>
  <2>1. CASE b = <<>>
    BY <2>1 DEF Post
  <2>2. CASE b # <<>>
    <3>1. PICK x : x = bodyText(b)
      OBVIOUS
    <3>2. Post(b) = <<x>> /\ Decode(x) = b
      BY <2>2, <3>1, DecodeIs DEF Post
    <3>3. [i \in DOMAIN <<x>> |-> Decode(<<x>>[i])] = <<Decode(x)>>
      OBVIOUS
    <3> QED
      BY <2>2, <3>2, <3>3
  <2> QED
    BY <2>1, <2>2
<1> QED
  BY <1>2, <1>3, <1>4, <1>5, DecodeIs

\* entry.go:24-25 and 159-160: whatever way an entry has taken (recorded, saved
\* by a copy of its rows, exported as JSON, imported, renamed), the bodies of its
\* transaction decode from it byte for byte, and no body stays none.
THEOREM BodiesSurvived == Spec => []BodiesSurvive
<1>1. Inv => BodiesSurvive
  BY InvBodies
<1> QED
  BY <1>1, ArchiveInvariant, PTL

\* The fingerprint that lebedevMeta made stays with its entry for good, and the
\* session it names is the one the entry is under, although insertEntry never
\* looks at the session the entry itself names.
THEOREM FingerprintFollowed == Spec => []FingerprintFollows
<1>1. ASSUME Inv PROVE FingerprintFollows
  <2> SUFFICES ASSUME NEW h \in Held
               PROVE  h.of.entry.lebedev = <<lebedevMeta(h.session, h.of.tx)>>
    BY DEF FingerprintFollows
  <2>1. PICK s \in Sessions, tx \in Transactions, json \in BOOLEAN : h = HeldOf(s, tx, json)
    BY <1>1, HeldIs
  <2>2. h.session = s /\ h.of.tx = tx /\ h.of.entry.lebedev = <<lebedevMeta(s, tx)>>
    BY <2>1, HeldFields
  <2> QED
    BY <2>2
<1>2. Inv => FingerprintFollows
  BY <1>1
<1> QED
  BY <1>2, ArchiveInvariant, PTL

\* A header's cookies are the same whether it was written to JSON before or after.
LEMMA CookiesJson ==
  ASSUME NEW hs \in Headers, NEW name \in {"cookie", "set-cookie"}
  PROVE  cookies(JsonHeaders(hs), name) = JsonHeaders(cookies(hs, name))
<1>1. PICK js : js = JsonHeaders(hs)
  OBVIOUS
<1>2. DOMAIN js = DOMAIN hs /\ \A i \in DOMAIN hs : js[i] = JsonHeader(hs[i])
  BY <1>1 DEF JsonHeaders
<1>3. PICK J : J = {i \in DOMAIN hs : /\ hs[i].name = name
                                      /\ \A x \in DOMAIN hs[i].value :
                                           hs[i].value[x] \notin {"bad", "fffd"}}
  OBVIOUS
<1>4. ASSUME NEW i \in DOMAIN hs
      PROVE  /\ js[i].name = name <=> hs[i].name = name
             /\ DOMAIN js[i].value = DOMAIN hs[i].value
             /\ \A x \in DOMAIN hs[i].value :
                  js[i].value[x] \in {"bad", "fffd"} <=> hs[i].value[x] \in {"bad", "fffd"}
  <2>1. js[i].name = Rune(hs[i].name) /\ js[i].value = JsonString(hs[i].value)
    BY <1>2 DEF JsonHeader
  <2>2. js[i].name = name <=> hs[i].name = name
    BY <2>1 DEF Rune
  <2>3. PICK v : v = hs[i].value
    OBVIOUS
  <2>4. DOMAIN JsonString(v) = DOMAIN v /\ \A x \in DOMAIN v : JsonString(v)[x] = Rune(v[x])
    BY DEF JsonString
  <2>5. \A x \in DOMAIN v : Rune(v[x]) \in {"bad", "fffd"} <=> v[x] \in {"bad", "fffd"}
    BY DEF Rune
  <2> QED
    BY <2>1, <2>2, <2>3, <2>4, <2>5
<1>5. {i \in DOMAIN js : /\ js[i].name = name
                         /\ \A x \in DOMAIN js[i].value :
                              js[i].value[x] \notin {"bad", "fffd"}} = J
  BY <1>2, <1>3, <1>4
<1>6. cookies(js, name) = At(js, J) /\ cookies(hs, name) = At(hs, J)
  BY <1>3, <1>5 DEF cookies
<1>7. PICK at : at = Sorted(J)
  OBVIOUS
<1>8. \A i \in DOMAIN at : at[i] \in DOMAIN hs
  <2>1. hs \in Seq([name : STRING, value : Text])
    BY DEF Headers
  <2>2. Len(hs) \in Nat /\ DOMAIN hs = 1..Len(hs)
    BY <2>1, SeqIs
  <2>3. J \in SUBSET (1..Len(hs))
    BY <1>3, <2>2
  <2>4. J \in SUBSET Nat /\ IsFiniteSet(J)
    BY <2>2, <2>3, PositionsFinite
  <2>5. at \in Seq(J)
    BY <1>7, <2>4, SortedIs
  <2>6. DOMAIN at = 1..Len(at) /\ \A i \in 1..Len(at) : at[i] \in J
    BY <2>5, SeqIs
  <2> QED
    BY <2>2, <2>3, <2>6
<1>9. At(js, J) = [i \in DOMAIN at |-> js[at[i]]] /\ At(hs, J) = [i \in DOMAIN at |-> hs[at[i]]]
  BY <1>7 DEF At
<1>10. At(js, J) = [i \in DOMAIN at |-> JsonHeader(hs[at[i]])]
  BY <1>2, <1>8, <1>9
<1>11. JsonHeaders(At(hs, J)) = [i \in DOMAIN at |-> JsonHeader(hs[at[i]])]
  BY <1>9 DEF JsonHeaders
<1> QED
  BY <1>1, <1>6, <1>10, <1>11

\* What JSON keeps of headers: their number, their order, and all text of theirs
\* that is UTF-8.
LEMMA SentKept ==
  ASSUME NEW hs \in Headers, NEW json \in BOOLEAN
  PROVE  Kept(json, Sent(json, hs), hs)
<1>1. hs \in Seq([name : STRING, value : Text])
  BY DEF Headers
<1>2. Len(hs) \in Nat /\ DOMAIN hs = 1..Len(hs)
  BY <1>1, SeqIs
<1>3. CASE json = FALSE
  BY <1>3 DEF Kept, Sent
<1>4. CASE json = TRUE
  <2>1. PICK js : js = JsonHeaders(hs)
    OBVIOUS
  <2>2. js = [i \in 1..Len(hs) |-> JsonHeader(hs[i])]
    BY <1>2, <2>1 DEF JsonHeaders
  <2>3. Len(js) = Len(hs)
    BY <1>2, <2>2
  <2>4. ASSUME NEW i \in DOMAIN hs
        PROVE  /\ js[i].name = hs[i].name \/ ~Valid(<<hs[i].name>>)
               /\ js[i].value = hs[i].value \/ ~Valid(hs[i].value)
    <3>1. PICK n, v : n = hs[i].name /\ v = hs[i].value
      OBVIOUS
    <3>2. js[i].name = Rune(n) /\ js[i].value = JsonString(v)
      BY <1>2, <2>2, <3>1 DEF JsonHeader
    <3>3. Valid(<<n>>) => Rune(n) = n
      BY DEF Valid, Rune
    <3>4. v \in Text
      <4>1. hs[i] \in [name : STRING, value : Text]
        BY <1>1, <1>2, SeqIs
      <4> QED
        BY <3>1, <4>1
    <3>5. Valid(v) => JsonString(v) = v
      BY <3>4, StringValid
    <3> QED
      BY <3>1, <3>2, <3>3, <3>5
  <2>5. Sent(json, hs) = js
    BY <1>4, <2>1 DEF Sent
  <2> QED
    BY <1>4, <2>3, <2>4, <2>5 DEF Kept
<1> QED
  BY <1>3, <1>4

\* Headers and cookies keep their order, duplicates and values through the child
\* rows that loadHeaders and loadCookies read back by seq, and through JSON all
\* of their text that is UTF-8.
THEOREM HeadersSurvived == Spec => []HeadersSurvive
<1>1. ASSUME Inv PROVE HeadersSurvive
  <2> SUFFICES ASSUME NEW h \in Held
               PROVE  /\ Kept(h.of.json, h.of.entry.request.headers, h.of.tx.req.headers)
                      /\ Kept(h.of.json, h.of.entry.response.headers, h.of.tx.resp.headers)
                      /\ h.of.entry.request.cookies
                           = cookies(h.of.entry.request.headers, "cookie")
                      /\ h.of.entry.response.cookies
                           = cookies(h.of.entry.response.headers, "set-cookie")
    BY DEF HeadersSurvive
  <2>1. PICK s \in Sessions, tx \in Transactions, json \in BOOLEAN : h = HeldOf(s, tx, json)
    BY <1>1, HeldIs
  <2>2. /\ h.of.tx = tx /\ h.of.json = json /\ h.of.entry.request = Req(tx, json)
        /\ h.of.entry.response = Resp(tx, json)
    BY <2>1, HeldFields
  <2>3. /\ Req(tx, json).headers = Sent(json, tx.req.headers)
        /\ Req(tx, json).cookies = Sent(json, cookies(tx.req.headers, "cookie"))
        /\ Resp(tx, json).headers = Sent(json, tx.resp.headers)
        /\ Resp(tx, json).cookies = Sent(json, cookies(tx.resp.headers, "set-cookie"))
    BY DEF Req, Resp
  <2>4. ASSUME NEW hs \in Headers, NEW name \in {"cookie", "set-cookie"}
        PROVE  Sent(json, cookies(hs, name)) = cookies(Sent(json, hs), name)
    BY CookiesJson DEF Sent
  <2>5. tx.req.headers \in Headers /\ tx.resp.headers \in Headers
    BY InputsAssumption
  <2>6. /\ Sent(json, cookies(tx.req.headers, "cookie"))
             = cookies(Sent(json, tx.req.headers), "cookie")
        /\ Sent(json, cookies(tx.resp.headers, "set-cookie"))
             = cookies(Sent(json, tx.resp.headers), "set-cookie")
    BY <2>4, <2>5
  <2>7. /\ Kept(json, Sent(json, tx.req.headers), tx.req.headers)
        /\ Kept(json, Sent(json, tx.resp.headers), tx.resp.headers)
    BY <2>5, SentKept
  <2> QED
    BY <2>2, <2>3, <2>6, <2>7
<1>2. Inv => HeadersSurvive
  BY <1>1
<1> QED
  BY <1>2, ArchiveInvariant, PTL

-----------------------------------------------------------------------------
(* A reader's pages.                                                       *)

\* A sequence of one.
LEMMA SeqOne ==
  ASSUME NEW S, NEW x \in S
  PROVE  <<x>> \in Seq(S) /\ Len(<<x>>) = 1 /\ <<x>>[1] = x /\ DOMAIN <<x>> = 1..1
  OBVIOUS

\* The element at one place.
LEMMA AtOne ==
  ASSUME NEW S, NEW q \in Seq(S), NEW j \in 1..Len(q)
  PROVE  At(q, {j}) = <<q[j]>>
<1>1. j \in Nat /\ <<j>> \in Seq(Nat) /\ Len(<<j>>) = 1 /\ <<j>>[1] = j
  OBVIOUS
<1>2. PICK p, J : p = <<j>> /\ J = {j}
  OBVIOUS
<1>3. J = {p[i] : i \in 1..Len(p)} /\ \A i, k \in 1..Len(p) : i < k => p[i] < p[k]
  <2>1. \A i \in 1..1 : i = 1
    OBVIOUS
  <2>2. 1 \in 1..1
    OBVIOUS
  <2> QED
    BY <1>1, <1>2, <2>1, <2>2
<1>4. Sorted(J) = p
  <2>1. p \in Seq(Nat)
    BY <1>1, <1>2
  <2> QED
    BY <1>3, <2>1, SortedUnique
<1>5. At(q, J) = [i \in DOMAIN p |-> q[p[i]]]
  BY <1>4 DEF At
<1>6. [i \in DOMAIN <<j>> |-> q[<<j>>[i]]] = <<q[j]>>
  OBVIOUS
<1> QED
  BY <1>2, <1>5, <1>6

\* Get: an id has one row.
LEMMA GetIs ==
  ASSUME NEW q \in Seq(Rows), Increasing(q), NEW j \in 1..Len(q), NEW id, id = q[j].id
  PROVE  Get(q, id) = <<q[j]>>
<1>1. Len(q) \in Nat /\ DOMAIN q = 1..Len(q)
  BY SeqIs
<1>2. ASSUME NEW i \in 1..Len(q), q[i].id = id PROVE i = j
  <2>1. i < j \/ j < i \/ i = j
    BY <1>1
  <2>2. q[i].id \in Nat
    BY SeqIs, RowIs
  <2>3. ~(i < j) /\ ~(j < i)
    BY <1>2, <2>2 DEF Increasing
  <2> QED
    BY <2>1, <2>3
<1>3. {i \in DOMAIN q : q[i].id = id} = {j}
  BY <1>1, <1>2
<1>4. At(q, {j}) = <<q[j]>>
  BY AtOne
<1> QED
  BY <1>3, <1>4 DEF Get

\* Hydrate: the rows of ids that are there.
LEMMA HydrateIs ==
  ASSUME NEW q \in Seq(Rows), Increasing(q), NEW rs \in Seq(Rows), NEW d, d = Ids(rs),
         \A i \in 1..Len(rs) : \E j \in 1..Len(q) : rs[i] = q[j]
  PROVE  Hydrate(q, d) = rs
<1>1. PICK n : n = Len(rs)
  OBVIOUS
<1>2. n \in Nat /\ d \in Seq(Nat) /\ Len(d) = n /\ \A i \in 1..n : d[i] = rs[i].id
  BY <1>1, IdsAre
<1>3. DOMAIN d = 1..n
  BY <1>2, SeqIs
<1>4. PICK parts : parts = [i \in 1..n |-> Get(q, d[i])]
  OBVIOUS
<1>5. ASSUME NEW i \in 1..n PROVE parts[i] = <<rs[i]>>
  <2>1. PICK j \in 1..Len(q) : rs[i] = q[j]
    BY <1>1
  <2>2. PICK id : id = d[i]
    OBVIOUS
  <2>3. id = q[j].id
    BY <1>2, <2>1, <2>2
  <2>4. Get(q, id) = <<q[j]>>
    BY <2>3, GetIs
  <2> QED
    BY <1>4, <2>1, <2>2, <2>4
<1>6. PICK b : b = [i \in 0..n |-> i]
  OBVIOUS
<1>7. b \in [0..n -> 0..Len(rs)] /\ b[0] = 0 /\ b[n] = Len(rs)
  BY <1>1, <1>2, <1>6
<1>8. Len(parts) = n /\ (n = 0 => parts = <<>>)
  <2>1. DOMAIN parts = 1..n
    BY <1>4
  <2> QED
    BY <1>2, <1>4, <2>1
<1>9. ASSUME NEW i \in 1..n
      PROVE  b[i - 1] <= b[i] /\ parts[i] = SubSeq(rs, b[i - 1] + 1, b[i])
  <2>1. b[i - 1] = i - 1 /\ b[i] = i
    <3>1. i \in 0..n /\ i - 1 \in 0..n
      BY <1>2
    <3> QED
      BY <1>6, <3>1
  <2>2. i - 1 + 1 = i /\ i - 1 <= i /\ i \in Nat \ {0} /\ i <= i + 1 /\ i <= n /\ i - i + 1 = 1
    BY <1>2
  <2>3. PICK u : u = SubSeq(rs, i, i)
    OBVIOUS
  <2>4. /\ u \in Seq(Rows) /\ Len(u) = i - i + 1
        /\ \A k \in 1..(i - i + 1) : u[k] = rs[i + k - 1]
    BY <1>1, <2>2, <2>3, SubSeqIs
  <2>5. Len(u) = 1 /\ u[1] = rs[i]
    <3>1. 1 \in 1..1 /\ i + 1 - 1 = i
      OBVIOUS
    <3> QED
      BY <2>2, <2>4, <3>1
  <2>6. u = <<rs[i]>>
    <3>1. rs[i] \in Rows
      BY <1>1, SeqIs
    <3>2. PICK v : v = <<rs[i]>>
      OBVIOUS
    <3>3. v \in Seq(Rows) /\ Len(v) = 1 /\ v[1] = rs[i]
      BY <3>1, <3>2, SeqOne
    <3>4. \A k \in 1..1 : k = 1
      OBVIOUS
    <3>5. Len(u) = Len(v) /\ \A k \in 1..Len(u) : u[k] = v[k]
      BY <2>5, <3>3, <3>4
    <3>6. u = v
      BY <2>4, <3>3, <3>5, SeqEq
    <3> QED
      BY <3>2, <3>6
  <2> QED
    BY <1>5, <2>1, <2>2, <2>3, <2>6
<1>10. FlattenSeq(parts) = rs
  BY <1>2, <1>7, <1>8, <1>9, FlattenParts
<1> QED
  BY <1>3, <1>4, <1>10 DEF Hydrate

\* Reader.Entry: an id of a session is found under it.
LEMMA EntryFound ==
  ASSUME NEW q \in Seq(Rows), Increasing(q), NEW s, NEW j \in Of(q, s), NEW id, id = q[j].id
  PROVE  Entry(q, s, id) # <<>>
<1>1. j \in 1..Len(q) /\ q[j].row.session = s
  BY DEF Of
<1>2. PICK g : g = <<q[j]>>
  OBVIOUS
<1>3. Get(q, id) = g
  BY <1>1, <1>2, GetIs
<1>4. q[j] \in Rows
  BY <1>1, SeqIs
<1>5. g \in Seq(Rows) /\ Len(g) = 1 /\ g[1] = q[j] /\ DOMAIN g = 1..1
  BY <1>2, <1>4, SeqOne
<1>6. PICK J, r : J = {i \in DOMAIN g : g[i].row.session = s} /\ r = At(g, J)
  OBVIOUS
<1>7. J = {1} /\ 1 \in 1..Len(g)
  <2>1. 1 \in 1..1 /\ \A i \in 1..1 : i = 1
    OBVIOUS
  <2> QED
    BY <1>1, <1>5, <1>6, <2>1
<1>8. At(g, {1}) = <<g[1]>>
  BY <1>5, <1>7, AtOne
<1>9. <<g[1]>> # <<>>
  OBVIOUS
<1> QED
  BY <1>3, <1>6, <1>7, <1>8, <1>9 DEF Entry

\* What a reader has, that has the first ids of its session.
LEMMA ReadsComplete ==
  ASSUME NEW q \in Seq(Rows), Increasing(q), NEW s, NEW seen, NEW start,
         Reads(seen, start, TRUE, IdsOf(q, s))
  PROVE  /\ \A i, j \in DOMAIN seen : i < j => seen[i] < seen[j]
         /\ start \subseteq ToSet(seen)
         /\ Ids(Hydrate(q, seen)) = seen
         /\ \A id \in ToSet(seen) : Entry(q, s, id) # <<>>
<1>1. PICK w, ids, a, n : /\ w = At(q, Of(q, s)) /\ ids = IdsOf(q, s)
                          /\ a = Sorted(ids) /\ n = Len(seen)
  OBVIOUS
<1>2. /\ w \in Seq(Rows) /\ Ids(w) = a /\ Len(w) = Len(a)
      /\ ids \in SUBSET Nat /\ IsFiniteSet(ids)
  BY <1>1, IdsSorted
<1>3. /\ a \in Seq(ids) /\ Len(a) = Cardinality(ids) /\ Len(a) \in Nat
      /\ \A i, j \in 1..Len(a) : i < j => a[i] < a[j]
  BY <1>1, <1>2, SortedIs
<1>4. a \in Seq(Nat)
  BY <1>2, <1>3, SeqOfSome
<1>5. /\ seen \in Seq(Nat) /\ n \in Nat /\ n <= Len(a) /\ seen = SubSeq(a, 1, n)
      /\ start \subseteq {seen[i] : i \in 1..n}
  BY <1>1 DEF Reads
<1>6. DOMAIN seen = 1..n
  BY <1>1, <1>5, SeqIs
<1>7. \A i \in 1..n : seen[i] = a[i]
  BY <1>4, <1>5, FirstPart
<1>8. \A i \in 1..n : i \in 1..Len(a)
  BY <1>3, <1>5
<1>9. \A i, j \in DOMAIN seen : i < j => seen[i] < seen[j]
  BY <1>3, <1>6, <1>7, <1>8
<1>10. start \subseteq ToSet(seen)
  BY <1>5, <1>6 DEF ToSet
<1>11. PICK rs : rs = SubSeq(w, 1, n)
  OBVIOUS
<1>12. rs \in Seq(Rows) /\ Len(rs) = n /\ \A i \in 1..n : rs[i] = w[i]
  BY <1>2, <1>5, <1>11, FirstPart
<1>13. Ids(rs) = seen
  <2>1. PICK d : d = Ids(rs)
    OBVIOUS
  <2>2. d \in Seq(Nat) /\ Len(d) = n /\ \A i \in 1..n : d[i] = rs[i].id
    BY <1>12, <2>1, IdsAre
  <2>3. \A i \in 1..Len(w) : a[i] = w[i].id
    BY <1>2, IdsAre
  <2>4. \A i \in 1..n : d[i] = seen[i]
    BY <1>2, <1>7, <1>8, <1>12, <2>2, <2>3
  <2>5. Len(d) = Len(seen) /\ \A i \in 1..Len(d) : d[i] = seen[i]
    BY <1>1, <2>2, <2>4
  <2>6. d = seen
    BY <1>5, <2>2, <2>5, SeqEq
  <2> QED
    BY <2>1, <2>6
<1>14. Of(q, s) \in SUBSET (1..Len(q))
  BY DEF Of
<1>15. \A i \in 1..n : \E j \in Of(q, s) : rs[i] = q[j]
  <2>1. \A i \in 1..Len(w) : \E j \in Of(q, s) : w[i] = q[j]
    BY <1>1, <1>14, AtIs
  <2> QED
    BY <1>2, <1>8, <1>12, <2>1
<1>16. Hydrate(q, seen) = rs
  BY <1>12, <1>13, <1>14, <1>15, HydrateIs
<1>17. ASSUME NEW id \in ToSet(seen) PROVE Entry(q, s, id) # <<>>
  <2>1. PICK i \in 1..n : id = seen[i]
    BY <1>6 DEF ToSet
  <2>2. PICK j \in Of(q, s) : rs[i] = q[j]
    BY <1>15
  <2>3. seen[i] = rs[i].id
    BY <1>12, <1>13, IdsAre
  <2>4. id = q[j].id
    BY <2>1, <2>2, <2>3
  <2> QED
    BY <2>4, EntryFound
<1> QED
  BY <1>9, <1>10, <1>13, <1>16, <1>17

\* A reader that pages through a session while others record, import and save
\* elsewhere sees each entry that was there when it began once, in order, and can
\* look up every id it was given: OFFSET counts rows of a list that only grows at
\* its end as long as no row of the session is deleted or renamed.
THEOREM PagesAreComplete == Spec => []PagesComplete
<1>1. ASSUME Inv PROVE PagesComplete
  <2> SUFFICES ASSUME pager.done, pager.intact
               PROVE  /\ \A i, j \in DOMAIN pager.seen :
                           i < j => pager.seen[i] < pager.seen[j]
                      /\ pager.start \subseteq ToSet(pager.seen)
                      /\ Ids(Hydrate(durable, pager.seen)) = pager.seen
                      /\ \A id \in ToSet(pager.seen) : Entry(durable, pager.session, id) # <<>>
    BY DEF PagesComplete
  <2>1. durable \in Seq(Rows) /\ Increasing(durable) /\ PagerIs(pager, durable)
    BY <1>1 DEF Inv, StoresOK
  <2>2. pager.done \in BOOLEAN /\ pager.intact \in BOOLEAN
    BY <2>1 DEF PagerIs
  <2>3. pager.done = TRUE /\ pager.intact = TRUE
    BY <2>2
  <2>4. PICK s, seen, start : s = pager.session /\ seen = pager.seen /\ start = pager.start
    OBVIOUS
  <2>5. Reads(seen, start, TRUE, IdsOf(durable, s))
    BY <2>1, <2>3, <2>4 DEF PagerIs
  <2>6. /\ \A i, j \in DOMAIN seen : i < j => seen[i] < seen[j]
        /\ start \subseteq ToSet(seen)
        /\ Ids(Hydrate(durable, seen)) = seen
        /\ \A id \in ToSet(seen) : Entry(durable, s, id) # <<>>
    BY <2>1, <2>5, ReadsComplete
  <2> QED
    BY <2>4, <2>6
<1>2. Inv => PagesComplete
  BY <1>1
<1> QED
  BY <1>2, ArchiveInvariant, PTL

-----------------------------------------------------------------------------
(* A glob as a pattern of LIKE.                                            *)

\* Characters that LIKE would read.
Special(c) == c \in {"%", "_", "\\"}

\* What a character of a glob becomes.
Piece(c) ==
  CASE c = "*" -> <<"%">>
    [] c \in {"%", "_", "\\"} -> <<"\\", c>>
    [] OTHER -> <<Rune(c)>>

\* The piece of c in p, behind a and up to z.
PieceAt(c, p, a, z) ==
  /\ c = "*" => z = a + 1 /\ p[z] = "%"
  /\ Special(c) => z = a + 2 /\ p[a + 1] = "\\" /\ p[z] = c
  /\ c # "*" /\ ~Special(c) => z = a + 1 /\ p[z] = Rune(c)

\* The marks b cut p into the pieces of glob.
Marks(glob, p, b) ==
  /\ Len(p) \in Nat /\ DOMAIN p = 1..Len(p) /\ b \in [0..Len(glob) -> Nat]
  /\ b[0] = 0 /\ b[Len(glob)] = Len(p)
  /\ \A i \in 1..Len(glob) : PieceAt(glob[i], p, b[i - 1], b[i])

\* Where a character's piece is.
LEMMA PiecePlaced ==
  ASSUME NEW C, NEW p \in Seq(C), NEW a \in Nat, NEW z \in Nat, z <= Len(p),
         NEW c, NEW x, x = Piece(c), x \in Seq(C), z = a + Len(x), x = SubSeq(p, a + 1, z)
  PROVE  PieceAt(c, p, a, z)
<1>1. PICK y : y = a + 1
  OBVIOUS
<1>2. x = SubSeq(p, y, z) /\ y \in Nat \ {0}
  BY <1>1
<1>3. ASSUME NEW n \in Nat, Len(x) = n, n > 0
      PROVE  z = a + n /\ x[1] = p[a + 1] /\ x[n] = p[z]
  <2>1. z = a + n /\ y <= z + 1 /\ z - y + 1 = n /\ 1 \in 1..n /\ n \in 1..n
    BY <1>1, <1>3
  <2>2. \A k \in 1..(z - y + 1) : x[k] = p[y + k - 1]
    BY <1>2, <2>1, SubSeqIs
  <2>3. y + 1 - 1 = a + 1 /\ y + n - 1 = z
    BY <1>1, <2>1
  <2> QED
    BY <2>1, <2>2, <2>3
<1>4. 1 \in Nat /\ 1 > 0 /\ 2 \in Nat /\ 2 > 0
  OBVIOUS
<1>5. CASE c = "*"
  <2>1. x = <<"%">> /\ ~Special(c)
    BY <1>5 DEF Piece, Special
  <2>2. Len(x) = 1 /\ x[1] = "%"
    <3>1. Len(<<"%">>) = 1 /\ <<"%">>[1] = "%"
      OBVIOUS
    <3> QED
      BY <2>1, <3>1, Zenon
  <2>3. z = a + 1 /\ x[1] = p[z]
    BY <1>3, <1>4, <2>2, Zenon
  <2> QED
    BY <1>5, <2>1, <2>2, <2>3 DEF PieceAt
<1>6. CASE Special(c)
  <2>1. x = <<"\\", c>> /\ c # "*"
    BY <1>6 DEF Piece, Special
  <2>2. Len(x) = 2 /\ x[1] = "\\" /\ x[2] = c
    <3>1. Len(<<"\\", c>>) = 2 /\ <<"\\", c>>[1] = "\\" /\ <<"\\", c>>[2] = c
      OBVIOUS
    <3> QED
      BY <2>1, <3>1, Zenon
  <2>3. z = a + 2 /\ x[1] = p[a + 1] /\ x[2] = p[z]
    BY <1>3, <1>4, <2>2, Zenon
  <2> QED
    BY <1>6, <2>1, <2>2, <2>3 DEF PieceAt
<1>7. CASE c # "*" /\ ~Special(c)
  <2>1. PICK d : d = Rune(c)
    OBVIOUS
  <2>2. x = <<d>>
    BY <1>7, <2>1 DEF Piece, Special
  <2>3. Len(x) = 1 /\ x[1] = d
    <3>1. Len(<<d>>) = 1 /\ <<d>>[1] = d
      OBVIOUS
    <3> QED
      BY <2>2, <3>1, Zenon
  <2>4. z = a + 1 /\ x[1] = p[z]
    BY <1>3, <1>4, <2>3, Zenon
  <2> QED
    BY <1>7, <2>1, <2>3, <2>4 DEF PieceAt
<1> QED
  BY <1>5, <1>6, <1>7

\* globToLike's pattern has such marks.
LEMMA MarksAre ==
  ASSUME NEW glob \in Text
  PROVE  \E b : Marks(glob, globToLike(glob), b)
<1>1. PICK n : n = Len(glob)
  OBVIOUS
<1>2. PICK C : C = STRING \union {"%", "\\", "fffd"}
  OBVIOUS
<1>3. n \in Nat /\ DOMAIN glob = 1..n /\ \A i \in 1..n : glob[i] \in C
  <2>1. glob \in Seq(STRING)
    BY DEF Text
  <2>2. n \in Nat /\ DOMAIN glob = 1..n /\ \A i \in 1..n : glob[i] \in STRING
    BY <1>1, <2>1, SeqIs
  <2> QED
    BY <1>2, <2>2
<1>4. ASSUME NEW c \in C PROVE Piece(c) \in Seq(C)
  <2>1. Rune(c) \in C /\ "%" \in C /\ "\\" \in C
    BY <1>2 DEF Rune
  <2>2. CASE c = "*"
    <3>1. Piece(c) = <<"%">>
      BY <2>2 DEF Piece
    <3> QED
      BY <2>1, <3>1
  <2>3. CASE c \in {"%", "_", "\\"}
    <3>1. Piece(c) = <<"\\", c>>
      BY <2>3 DEF Piece
    <3> QED
      BY <2>1, <3>1
  <2>4. CASE c # "*" /\ c \notin {"%", "_", "\\"}
    <3>1. Piece(c) = <<Rune(c)>>
      BY <2>4 DEF Piece
    <3> QED
      BY <2>1, <3>1
  <2> QED
    BY <2>2, <2>3, <2>4
<1>5. PICK q, p : q = [i \in 1..n |-> Piece(glob[i])] /\ p = FlattenSeq(q)
  OBVIOUS
<1>6. globToLike(glob) = p
  BY <1>3, <1>5 DEF globToLike, Piece
<1>7. q \in [1..n -> Seq(C)]
  BY <1>3, <1>4, <1>5
<1>8. PICK b : FlatTo(C, q, n, FlattenSeq(q), b)
  BY <1>3, <1>7, FlattenIs
<1>9. /\ p \in Seq(C) /\ b \in [0..n -> Nat] /\ b[0] = 0 /\ b[n] = Len(p)
      /\ \A i \in 1..n : /\ b[i] = b[i - 1] + Len(q[i]) /\ b[i] <= Len(p)
                         /\ q[i] = SubSeq(p, b[i - 1] + 1, b[i])
  BY <1>5, <1>8 DEF FlatTo
<1>10. ASSUME NEW i \in 1..n PROVE PieceAt(glob[i], p, b[i - 1], b[i])
  <2>1. PICK c, a, z, x : c = glob[i] /\ a = b[i - 1] /\ z = b[i] /\ x = Piece(c)
    OBVIOUS
  <2>2. i - 1 \in 0..n /\ i \in 0..n
    BY <1>3
  <2>3. a \in Nat /\ z \in Nat
    BY <1>9, <2>1, <2>2
  <2>4. q[i] = x
    BY <1>5, <2>1
  <2>5. z <= Len(p) /\ z = a + Len(x) /\ x = SubSeq(p, a + 1, z)
    BY <1>9, <2>1, <2>4
  <2>6. x \in Seq(C)
    BY <1>3, <1>4, <2>1
  <2>7. p \in Seq(C)
    BY <1>9
  <2>8. PieceAt(c, p, a, z)
    BY <2>1, <2>3, <2>5, <2>6, <2>7, PiecePlaced
  <2> QED
    BY <2>1, <2>8
<1>11. Len(p) \in Nat /\ DOMAIN p = 1..Len(p)
  BY <1>9, SeqIs
<1>12. Marks(glob, p, b)
  BY <1>1, <1>9, <1>10, <1>11 DEF Marks
<1> QED
  BY <1>6, <1>12

\* The marks rise.
LEMMA MarksRise ==
  ASSUME NEW glob \in Text, NEW p, NEW b, Marks(glob, p, b), NEW n, n = Len(glob)
  PROVE  /\ n \in Nat /\ \A i \in 0..n : b[i] \in Nat
         /\ \A i \in 1..n : b[i - 1] < b[i] /\ b[i - 1] \in Nat /\ b[i] \in Nat
         /\ \A i, j \in 0..n : i < j => b[i] < b[j]
<1>1. n \in Nat /\ \A i \in 0..n : b[i] \in Nat
  <2>1. n \in Nat
    BY DEF Text
  <2> QED
    BY <2>1 DEF Marks
<1>2. ASSUME NEW i \in 1..n PROVE b[i - 1] < b[i] /\ b[i - 1] \in Nat /\ b[i] \in Nat
  <2>1. PICK c, a, z : c = glob[i] /\ a = b[i - 1] /\ z = b[i]
    OBVIOUS
  <2>2. a \in Nat /\ z \in Nat
    <3>1. i - 1 \in 0..n /\ i \in 0..n
      BY <1>1
    <3> QED
      BY <1>1, <2>1, <3>1
  <2>3. PieceAt(c, p, a, z)
    BY <2>1 DEF Marks
  <2>4. z = a + 1 \/ z = a + 2
    BY <2>3 DEF PieceAt
  <2>5. a < z
    BY <2>2, <2>4
  <2> QED
    BY <2>1, <2>2, <2>5
<1>3. ASSUME NEW i \in 0..n, NEW j \in 0..n, i < j PROVE b[i] < b[j]
  <2> SUFFICES ASSUME ~(b[i] < b[j]) PROVE FALSE
    OBVIOUS
  <2>1. PICK B : B = {k \in 0..n : i < k /\ ~(b[i] < b[k])}
    OBVIOUS
  <2>2. B \in SUBSET Nat /\ B # {}
    BY <1>1, <1>3, <2>1
  <2>3. PICK k \in B : \A l \in B : k <= l
    BY <2>2, Least
  <2>4. PICK m : m = k - 1
    OBVIOUS
  <2>5. k \in 1..n /\ i < k /\ ~(b[i] < b[k]) /\ m \in 0..n /\ m < k /\ (m = i \/ i < m)
    BY <1>1, <2>1, <2>3, <2>4
  <2>6. b[m] < b[k]
    BY <1>2, <2>4, <2>5
  <2>7. m \notin B
    BY <1>1, <2>3, <2>5
  <2>8. m # i => b[i] < b[m]
    BY <2>1, <2>5, <2>7
  <2>9. PICK x, y, z : x = b[i] /\ y = b[m] /\ z = b[k]
    OBVIOUS
  <2>10. x \in Nat /\ y \in Nat /\ z \in Nat
    BY <1>1, <2>5, <2>9
  <2>11. y < z /\ (x = y \/ x < y) /\ ~(x < z)
    BY <2>5, <2>6, <2>8, <2>9
  <2> QED
    BY <2>10, <2>11
<1> QED
  BY <1>1, <1>2, <1>3

\* k is the piece in which x is; the end of the pattern is behind the last.
In(glob, b, k, x) ==
  /\ k \in 1..(Len(glob) + 1) /\ b[k - 1] < x
  /\ k = Len(glob) + 1 => x = b[Len(glob)] + 1
  /\ k # Len(glob) + 1 => x <= b[k]

\* Every place is in one piece.
LEMMA InOne ==
  ASSUME NEW glob \in Text, NEW p, NEW b, Marks(glob, p, b)
  PROVE  /\ \A x \in 1..(Len(p) + 1) : \E k \in 1..(Len(glob) + 1) : In(glob, b, k, x)
         /\ \A x \in Nat, k, l \in 1..(Len(glob) + 1) :
              In(glob, b, k, x) /\ In(glob, b, l, x) => k = l
<1>1. PICK n, m : n = Len(glob) /\ m = Len(p)
  OBVIOUS
<1>2. /\ n \in Nat /\ \A i \in 0..n : b[i] \in Nat
      /\ \A i \in 1..n : b[i - 1] < b[i] /\ b[i - 1] \in Nat /\ b[i] \in Nat
      /\ \A i, j \in 0..n : i < j => b[i] < b[j]
  BY <1>1, MarksRise
<1>3. m \in Nat /\ b[0] = 0 /\ b[n] = m
  BY <1>1 DEF Marks
<1>4. ASSUME NEW x \in 1..(m + 1) PROVE \E k \in 1..(n + 1) : In(glob, b, k, x)
  <2>1. CASE x = m + 1
    <3>1. PICK k : k = n + 1
      OBVIOUS
    <3>2. k \in 1..(n + 1) /\ k - 1 = n
      BY <1>2, <3>1
    <3>3. b[k - 1] < x /\ x = b[n] + 1
      BY <1>3, <2>1, <3>2
    <3>4. In(glob, b, k, x)
      BY <1>1, <3>1, <3>2, <3>3 DEF In
    <3> QED
      BY <3>2, <3>4
  <2>2. CASE x # m + 1
    <3>1. PICK B : B = {k \in 0..n : x <= b[k]}
      OBVIOUS
    <3>2. x <= m /\ n \in 0..n
      BY <1>2, <1>3, <2>2
    <3>3. B \in SUBSET Nat /\ B # {}
      BY <1>2, <1>3, <3>1, <3>2
    <3>4. PICK k \in B : \A l \in B : k <= l
      BY <3>3, Least
    <3>5. k \in 0..n /\ x <= b[k]
      BY <3>1, <3>4
    <3>6. k # 0
      BY <1>3, <3>5
    <3>7. PICK j : j = k - 1
      OBVIOUS
    <3>8. j \in 0..n /\ k \in 1..(n + 1) /\ k # n + 1 /\ j < k /\ ~(k <= j)
      BY <1>2, <3>5, <3>6, <3>7
    <3>9. j \notin B
      BY <3>4, <3>8
    <3>10. PICK y : y = b[j]
      OBVIOUS
    <3>11. y \in Nat /\ ~(x <= y)
      BY <1>2, <3>1, <3>8, <3>9, <3>10
    <3>12. y < x
      BY <3>11
    <3>13. In(glob, b, k, x)
      BY <1>1, <3>5, <3>7, <3>8, <3>10, <3>12 DEF In
    <3> QED
      BY <3>8, <3>13
  <2> QED
    BY <2>1, <2>2
<1>5. ASSUME NEW x \in Nat, NEW k \in 1..(n + 1), NEW l \in 1..(n + 1),
             In(glob, b, k, x), In(glob, b, l, x), k < l
      PROVE  FALSE
  <2>1. PICK j : j = l - 1
    OBVIOUS
  <2>2. k \in 0..n /\ j \in 0..n /\ (k = j \/ k < j) /\ k # n + 1
    BY <1>2, <1>5, <2>1
  <2>3. x <= b[k] /\ b[j] < x
    BY <1>1, <1>5, <2>1, <2>2 DEF In
  <2>4. PICK y, z : y = b[k] /\ z = b[j]
    OBVIOUS
  <2>5. y \in Nat /\ z \in Nat /\ (y = z \/ y < z)
    BY <1>2, <2>2, <2>4
  <2> QED
    BY <2>3, <2>4, <2>5
<1>6. ASSUME NEW x \in Nat, NEW k \in 1..(n + 1), NEW l \in 1..(n + 1),
             In(glob, b, k, x), In(glob, b, l, x)
      PROVE  k = l
  <2>1. k < l \/ l < k \/ k = l
    BY <1>2
  <2> QED
    BY <1>5, <1>6, <2>1
<1> QED
  BY <1>1, <1>4, <1>6

\* Every place of p is in the piece of a character, and pieces end within p.
LEMMA PieceOf ==
  ASSUME NEW glob \in Text, NEW p, NEW b, Marks(glob, p, b)
  PROVE  /\ \A i \in 0..Len(glob) : b[i] \in 0..Len(p)
         /\ \A x \in 1..Len(p) : \E i \in 1..Len(glob) : b[i - 1] < x /\ x <= b[i]
<1>1. PICK n, m : n = Len(glob) /\ m = Len(p)
  OBVIOUS
<1>2. /\ n \in Nat /\ \A i \in 0..n : b[i] \in Nat
      /\ \A i, j \in 0..n : i < j => b[i] < b[j]
  BY <1>1, MarksRise
<1>3. m \in Nat /\ b[n] = m
  BY <1>1 DEF Marks
<1>4. ASSUME NEW i \in 0..n PROVE b[i] \in 0..m
  <2>1. n \in 0..n /\ (i = n \/ i < n)
    BY <1>2
  <2>2. b[i] \in Nat /\ (b[i] = m \/ b[i] < m)
    BY <1>2, <1>3, <2>1
  <2> QED
    BY <1>3, <2>2
<1>5. ASSUME NEW x \in 1..m PROVE \E i \in 1..n : b[i - 1] < x /\ x <= b[i]
  <2>1. x \in 1..(m + 1)
    BY <1>3
  <2>2. PICK k \in 1..(n + 1) : In(glob, b, k, x)
    BY <1>1, <2>1, InOne
  <2>3. k # n + 1
    <3> SUFFICES ASSUME k = n + 1 PROVE FALSE
      OBVIOUS
    <3>1. x = m + 1
      BY <1>1, <1>3, <2>2 DEF In
    <3> QED
      BY <1>3, <3>1
  <2>4. k \in 1..n
    BY <1>2, <2>3
  <2>5. b[k - 1] < x /\ x <= b[k]
    BY <1>1, <2>2, <2>3 DEF In
  <2> QED
    BY <2>4, <2>5
<1> QED
  BY <1>1, <1>4, <1>5

\* What is escaped: the ends of the pieces of special characters.
Ends(glob, b) == {b[i] : i \in {k \in 1..Len(glob) : Special(glob[k])}}

\* The places of a piece; only the end of a special one is escaped.
LEMMA EndsAre ==
  ASSUME NEW glob \in Text, NEW p, NEW b, Marks(glob, p, b), NEW i \in 1..Len(glob)
  PROVE  /\ b[i] \in Ends(glob, b) <=> Special(glob[i])
         /\ b[i - 1] + 1 \in Ends(glob, b) => FALSE
<1>1. PICK n : n = Len(glob)
  OBVIOUS
<1>2. /\ n \in Nat /\ \A j \in 0..n : b[j] \in Nat
      /\ \A j \in 1..n : b[j - 1] < b[j] /\ b[j - 1] \in Nat /\ b[j] \in Nat
      /\ \A j, k \in 0..n : j < k => b[j] < b[k]
  BY <1>1, MarksRise
<1>3. ASSUME NEW k \in 1..n, b[k] = b[i] PROVE k = i
  <2>1. k \in 0..n /\ i \in 0..n /\ (k < i \/ i < k \/ k = i)
    BY <1>1, <1>2
  <2>2. b[k] \in Nat /\ b[i] \in Nat
    BY <1>2, <2>1
  <2>3. ~(b[k] < b[i]) /\ ~(b[i] < b[k])
    BY <1>3, <2>2
  <2> QED
    BY <1>2, <2>1, <2>3
<1>4. b[i] \in Ends(glob, b) <=> Special(glob[i])
  BY <1>1, <1>3 DEF Ends
<1>5. ASSUME b[i - 1] + 1 \in Ends(glob, b) PROVE FALSE
  <2>1. PICK k \in 1..n : Special(glob[k]) /\ b[i - 1] + 1 = b[k]
    BY <1>1, <1>5 DEF Ends
  <2>2. PICK c, a, z, y : c = glob[k] /\ a = b[k - 1] /\ z = b[k] /\ y = b[i - 1]
    OBVIOUS
  <2>3. k - 1 \in 0..n /\ i - 1 \in 0..n /\ k \in 0..n
    BY <1>1, <1>2
  <2>4. a \in Nat /\ z \in Nat /\ y \in Nat
    BY <1>2, <2>2, <2>3
  <2>5. PieceAt(c, p, a, z)
    BY <1>1, <2>2 DEF Marks
  <2>6. z = a + 2
    BY <2>1, <2>2, <2>5 DEF PieceAt
  <2>7. y = a + 1
    BY <2>1, <2>2, <2>4, <2>6
  <2>8. a < y /\ y < z
    BY <2>4, <2>6, <2>7
  <2>9. b[k - 1] < b[i - 1] /\ b[i - 1] < b[k]
    BY <2>2, <2>8
  <2>10. PICK s, t : s = k - 1 /\ t = i - 1
    OBVIOUS
  <2>11. s \in 0..n /\ t \in 0..n /\ k \in 0..n /\ b[s] < b[t] /\ b[t] < b[k]
    BY <2>3, <2>9, <2>10
  <2>12. s < t \/ t <= s
    BY <2>11
  <2>13. CASE t <= s
    <3>1. t = s \/ t < s
      BY <2>11, <2>13
    <3>2. b[t] = b[s] \/ b[t] < b[s]
      BY <1>2, <2>11, <3>1
    <3>3. b[s] \in Nat /\ b[t] \in Nat
      BY <1>2, <2>11
    <3> QED
      BY <2>11, <3>2, <3>3
  <2>14. CASE s < t
    <3>1. k = t \/ k < t
      BY <2>10, <2>11, <2>14
    <3>2. b[k] = b[t] \/ b[k] < b[t]
      BY <1>2, <2>11, <3>1
    <3>3. b[k] \in Nat /\ b[t] \in Nat
      BY <1>2, <2>11
    <3> QED
      BY <2>11, <3>2, <3>3
  <2> QED
    BY <2>12, <2>13, <2>14
<1> QED
  BY <1>4, <1>5

\* What LIKE takes for escaped.
Escapes(p, lit) ==
  \A i \in DOMAIN p : i \in lit <=> i > 1 /\ p[i - 1] = "\\" /\ i - 1 \notin lit

\* There is no more than one way to take it.
LEMMA EscapesOnce ==
  ASSUME NEW p, Len(p) \in Nat, DOMAIN p = 1..Len(p), NEW J \in SUBSET DOMAIN p,
         NEW K \in SUBSET DOMAIN p, Escapes(p, J), Escapes(p, K)
  PROVE  J = K
<1>1. PICK n : n = Len(p)
  OBVIOUS
<1>2. n \in Nat /\ DOMAIN p = 1..n
  BY <1>1
<1>3. PICK B : B = {i \in 1..n : ~(i \in J <=> i \in K)}
  OBVIOUS
<1>4. B = {}
  <2> SUFFICES ASSUME B # {} PROVE FALSE
    OBVIOUS
  <2>1. B \in SUBSET Nat
    BY <1>3
  <2>2. PICK i \in B : \A j \in B : i <= j
    BY <2>1, Least
  <2>3. i \in 1..n /\ ~(i \in J <=> i \in K)
    BY <1>3, <2>2
  <2>4. PICK j : j = i - 1
    OBVIOUS
  <2>5. i \in J <=> i > 1 /\ p[j] = "\\" /\ j \notin J
    BY <1>2, <2>3, <2>4 DEF Escapes
  <2>6. i \in K <=> i > 1 /\ p[j] = "\\" /\ j \notin K
    BY <1>2, <2>3, <2>4 DEF Escapes
  <2>7. CASE i > 1
    <3>1. j \in 1..n /\ ~(i <= j)
      <4>1. i \in 1..n
        BY <2>3
      <4>2. n \in Nat
        BY <1>2
      <4> QED
        BY <2>4, <2>7, <4>1, <4>2
    <3>2. j \notin B
      BY <2>2, <3>1
    <3>3. j \in J <=> j \in K
      BY <1>3, <3>1, <3>2
    <3> QED
      BY <2>3, <2>5, <2>6, <3>3
  <2>8. CASE ~(i > 1)
    BY <2>3, <2>5, <2>6, <2>8
  <2> QED
    BY <2>7, <2>8
<1> QED
  BY <1>2, <1>3, <1>4

\* Those ends are what it takes.
LEMMA EndsEscaped ==
  ASSUME NEW glob \in Text, NEW p, NEW b, Marks(glob, p, b)
  PROVE  Escapes(p, Ends(glob, b)) /\ Ends(glob, b) \in SUBSET DOMAIN p
<1>1. PICK n, m, E : n = Len(glob) /\ m = Len(p) /\ E = Ends(glob, b)
  OBVIOUS
<1>2. /\ n \in Nat /\ \A i \in 0..n : b[i] \in Nat
      /\ \A i \in 1..n : b[i - 1] < b[i] /\ b[i - 1] \in Nat /\ b[i] \in Nat
      /\ \A i, j \in 0..n : i < j => b[i] < b[j]
  BY <1>1, MarksRise
<1>3. /\ m \in Nat /\ DOMAIN p = 1..m /\ b[0] = 0 /\ b[n] = m
      /\ \A i \in 1..n : PieceAt(glob[i], p, b[i - 1], b[i])
  BY <1>1 DEF Marks
<1>4. \A i \in 1..n : (b[i] \in E <=> Special(glob[i])) /\ ~(b[i - 1] + 1 \in E)
  BY <1>1, EndsAre
<1>5. ASSUME NEW i \in 1..n
      PROVE  /\ b[i - 1] + 1 = b[i] \/ b[i - 1] + 2 = b[i]
             /\ b[i - 1] + 2 = b[i] <=> Special(glob[i])
             /\ Special(glob[i]) => p[b[i - 1] + 1] = "\\"
             /\ ~Special(glob[i]) => p[b[i]] # "\\"
  <2>1. PICK c, a, z : c = glob[i] /\ a = b[i - 1] /\ z = b[i]
    OBVIOUS
  <2>2. a \in Nat /\ z \in Nat
    BY <1>2, <2>1
  <2>3. PieceAt(c, p, a, z)
    BY <1>3, <2>1
  <2>4. CASE c = "*"
    <3>1. ~Special(c) /\ z = a + 1 /\ p[z] = "%"
      BY <2>3, <2>4 DEF PieceAt, Special
    <3>2. a + 1 = z /\ ~(a + 2 = z)
      BY <2>2, <3>1
    <3> QED
      BY <2>1, <3>1, <3>2
  <2>5. CASE Special(c)
    <3>1. z = a + 2 /\ p[a + 1] = "\\"
      BY <2>3, <2>5 DEF PieceAt
    <3> QED
      BY <2>1, <2>5, <3>1
  <2>6. CASE c # "*" /\ ~Special(c)
    <3>1. z = a + 1 /\ p[z] = Rune(c)
      BY <2>3, <2>6 DEF PieceAt
    <3>2. Rune(c) # "\\"
      BY <2>6 DEF Rune, Special
    <3>3. a + 1 = z /\ ~(a + 2 = z)
      BY <2>2, <3>1
    <3> QED
      BY <2>1, <2>6, <3>1, <3>2, <3>3
  <2> QED
    BY <2>4, <2>5, <2>6
<1>6. ASSUME NEW x \in 1..m
      PROVE  x \in E <=> x > 1 /\ p[x - 1] = "\\" /\ x - 1 \notin E
  <2>1. PICK i \in 1..n : b[i - 1] < x /\ x <= b[i]
    BY <1>1, PieceOf
  <2>2. PICK a, z : a = b[i - 1] /\ z = b[i]
    OBVIOUS
  <2>3. a \in Nat /\ z \in Nat /\ a < x /\ x <= z
    BY <1>2, <2>1, <2>2
  <2>4. CASE x = a + 1
    <3>1. x \notin E /\ x - 1 = a
      BY <1>4, <2>2, <2>3, <2>4
    <3>2. ASSUME x > 1, p[a] = "\\" PROVE a \in E
      <4>1. PICK j : j = i - 1
        OBVIOUS
      <4>2. a # 0
        BY <2>4, <3>2
      <4>3. j \in 1..n /\ b[j] = a
        <5>1. j \in 0..n
          BY <1>2, <4>1
        <5>2. j # 0
          BY <1>3, <2>2, <4>1, <4>2
        <5> QED
          BY <1>2, <2>2, <4>1, <5>1, <5>2
      <4>4. Special(glob[j])
        BY <1>5, <3>2, <4>3
      <4> QED
        BY <1>4, <4>3, <4>4
    <3> QED
      BY <3>1, <3>2
  <2>5. CASE x # a + 1
    <3>1. z = a + 2 /\ x = z /\ Special(glob[i])
      BY <1>5, <2>2, <2>3, <2>5
    <3>2. x \in E /\ x - 1 = a + 1 /\ x > 1
      <4>1. x \in E
        BY <1>4, <2>2, <3>1
      <4>2. x = a + 2 /\ a \in Nat
        BY <2>3, <3>1
      <4> QED
        BY <4>1, <4>2
    <3>3. p[a + 1] = "\\" /\ a + 1 \notin E
      BY <1>4, <1>5, <2>2, <3>1
    <3> QED
      BY <3>2, <3>3
  <2> QED
    BY <2>4, <2>5
<1>7. Escapes(p, E)
  BY <1>3, <1>6 DEF Escapes
<1>8. E \in SUBSET (1..m)
  <2> SUFFICES ASSUME NEW x \in E PROVE x \in 1..m
    OBVIOUS
  <2>1. PICK i \in 1..n : x = b[i]
    BY <1>1 DEF Ends
  <2>2. x \in Nat /\ b[i - 1] \in Nat /\ b[i - 1] < x
    BY <1>2, <2>1
  <2>3. x # 0
    BY <2>2
  <2>4. i \in 0..n /\ n \in 0..n /\ (i = n \/ i < n)
    BY <1>2
  <2>5. x = m \/ x < m
    BY <1>2, <1>3, <2>1, <2>4
  <2> QED
    BY <1>3, <2>2, <2>3, <2>5
<1> QED
  BY <1>1, <1>3, <1>7, <1>8

\* What LIKE asks at a place of its pattern, and a glob at a character.
LikeStep(p, u, lit, cut, i) ==
  CASE p[i] = "\\" /\ i \notin lit -> i < Len(p) /\ cut[i + 1] = cut[i]
    [] p[i] = "%" /\ i \notin lit -> cut[i] <= cut[i + 1]
    [] OTHER -> /\ cut[i + 1] = cut[i] + 1
                /\ \/ p[i] = "_" /\ i \notin lit
                   \/ Fold(u[cut[i + 1]]) = Fold(p[i])
GlobStep(c, u, y, z) ==
  IF c = "*" THEN y <= z ELSE z = y + 1 /\ Fold(u[z]) = Fold(Rune(c))

\* LIKE by its steps.
LEMMA LikeSteps ==
  ASSUME NEW p, NEW u
  PROVE  Like(p, u) <=>
           \E lit \in SUBSET DOMAIN p :
             /\ Escapes(p, lit)
             /\ \E cut \in [1..(Len(p) + 1) -> 0..Len(u)] :
                  /\ cut[1] = 0 /\ cut[Len(p) + 1] = Len(u)
                  /\ \A i \in DOMAIN p : LikeStep(p, u, lit, cut, i)
BY DEF Like, Escapes, LikeStep

\* The meaning of a glob by its steps.
LEMMA GlobSteps ==
  ASSUME NEW glob, NEW u
  PROVE  Matches(glob, u) <=>
           \E cut \in [1..(Len(glob) + 1) -> 0..Len(u)] :
             /\ cut[1] = 0 /\ cut[Len(glob) + 1] = Len(u)
             /\ \A i \in DOMAIN glob : GlobStep(glob[i], u, cut[i], cut[i + 1])
BY DEF Matches, GlobStep

\* At the end of its piece, LIKE asks what the glob asks at the character; an
\* escape before it asks for nothing.
Asks(c, p, u, E, cut, a, z) ==
  /\ z = a + 1 \/ (z = a + 2 /\ Special(c))
  /\ LikeStep(p, u, E, cut, z) <=> GlobStep(c, u, cut[z], cut[z + 1])
  /\ Special(c) => (LikeStep(p, u, E, cut, a + 1) <=>
                      a + 1 < Len(p) /\ cut[(a + 1) + 1] = cut[a + 1])

\* It does so for every character.
LEMMA PieceSteps ==
  ASSUME NEW c, NEW p, NEW a \in Nat, NEW z \in Nat, PieceAt(c, p, a, z), NEW E,
         ~(a + 1 \in E), z \in E <=> Special(c), NEW u, NEW cut
  PROVE  Asks(c, p, u, E, cut, a, z)
<1>1. CASE c = "*"
  <2>1. ~Special(c) /\ z = a + 1 /\ p[z] = "%" /\ z \notin E /\ p[z] # "\\"
    BY <1>1 DEF PieceAt, Special
  <2>2. LikeStep(p, u, E, cut, z) <=> cut[z] <= cut[z + 1]
    BY <2>1 DEF LikeStep
  <2>3. GlobStep(c, u, cut[z], cut[z + 1]) <=> cut[z] <= cut[z + 1]
    BY <1>1 DEF GlobStep
  <2>4. LikeStep(p, u, E, cut, z) <=> GlobStep(c, u, cut[z], cut[z + 1])
    BY <2>2, <2>3
  <2> QED
    BY <2>1, <2>4 DEF Asks
<1>2. CASE Special(c)
  <2>1. z = a + 2 /\ p[a + 1] = "\\" /\ p[z] = c /\ z \in E /\ a + 1 \notin E /\ c # "*"
    BY <1>2 DEF PieceAt, Special
  <2>2. Rune(c) = c
    BY <1>2 DEF Special, Rune
  <2>3. LikeStep(p, u, E, cut, z) <=> cut[z + 1] = cut[z] + 1 /\ Fold(u[cut[z + 1]]) = Fold(c)
    BY <2>1 DEF LikeStep
  <2>4. GlobStep(c, u, cut[z], cut[z + 1]) <=>
          cut[z + 1] = cut[z] + 1 /\ Fold(u[cut[z + 1]]) = Fold(c)
    BY <2>1, <2>2 DEF GlobStep
  <2>5. LikeStep(p, u, E, cut, a + 1) <=> a + 1 < Len(p) /\ cut[(a + 1) + 1] = cut[a + 1]
    BY <2>1 DEF LikeStep
  <2>6. LikeStep(p, u, E, cut, z) <=> GlobStep(c, u, cut[z], cut[z + 1])
    BY <2>3, <2>4
  <2> QED
    BY <1>2, <2>1, <2>5, <2>6 DEF Asks
<1>3. CASE c # "*" /\ ~Special(c)
  <2>1. z = a + 1 /\ p[z] = Rune(c) /\ z \notin E
    BY <1>3 DEF PieceAt
  <2>2. Rune(c) # "\\" /\ Rune(c) # "%" /\ Rune(c) # "_"
    BY <1>3 DEF Special, Rune
  <2>3. LikeStep(p, u, E, cut, z) <=>
          cut[z + 1] = cut[z] + 1 /\ Fold(u[cut[z + 1]]) = Fold(Rune(c))
    BY <2>1, <2>2 DEF LikeStep
  <2>4. GlobStep(c, u, cut[z], cut[z + 1]) <=>
          cut[z + 1] = cut[z] + 1 /\ Fold(u[cut[z + 1]]) = Fold(Rune(c))
    BY <1>3 DEF GlobStep
  <2>5. LikeStep(p, u, E, cut, z) <=> GlobStep(c, u, cut[z], cut[z + 1])
    BY <2>3, <2>4
  <2> QED
    BY <1>3, <2>1, <2>5 DEF Asks
<1> QED
  BY <1>1, <1>2, <1>3

\* The facts about the piece of a character that both directions need.
LEMMA PieceFacts ==
  ASSUME NEW glob \in Text, NEW p, NEW b, Marks(glob, p, b), NEW i \in 1..Len(glob),
         NEW a, a = b[i - 1], NEW z, z = b[i], NEW c, c = glob[i], NEW u, NEW cut,
         NEW E, E = Ends(glob, b)
  PROVE  /\ a \in Nat /\ z \in Nat /\ a < z /\ z <= Len(p) /\ Len(p) \in Nat
         /\ Asks(c, p, u, E, cut, a, z)
<1>1. PICK n : n = Len(glob)
  OBVIOUS
<1>2. n \in Nat /\ \A j \in 1..n : b[j - 1] < b[j] /\ b[j - 1] \in Nat /\ b[j] \in Nat
  BY <1>1, MarksRise
<1>3. i \in 1..n /\ a \in Nat /\ z \in Nat /\ a < z
  BY <1>1, <1>2
<1>4. PieceAt(c, p, a, z) /\ Len(p) \in Nat
  BY DEF Marks
<1>5. ~(a + 1 \in E) /\ (z \in E <=> Special(c))
  BY EndsAre
<1>6. z <= Len(p)
  <2>1. i \in 0..Len(glob)
    BY <1>1, <1>2, <1>3
  <2>2. z \in 0..Len(p)
    BY <2>1, PieceOf
  <2> QED
    BY <1>4, <2>2
<1>7. Asks(c, p, u, E, cut, a, z)
  BY <1>3, <1>4, <1>5, PieceSteps
<1> QED
  BY <1>3, <1>4, <1>6, <1>7

\* What LIKE finds with the pattern of a glob, the glob matches.
LEMMA LikeMatches ==
  ASSUME NEW glob \in Text, NEW p, NEW b, Marks(glob, p, b), NEW u, Len(u) \in Nat,
         Like(p, u)
  PROVE  Matches(glob, u)
<1>1. PICK n, m, w, E : n = Len(glob) /\ m = Len(p) /\ w = Len(u) /\ E = Ends(glob, b)
  OBVIOUS
<1>2. n \in Nat /\ w \in Nat /\ DOMAIN glob = 1..n
  BY <1>1 DEF Text
<1>3. m \in Nat /\ DOMAIN p = 1..m /\ b[0] = 0 /\ b[n] = m
  BY <1>1 DEF Marks
<1>4. Escapes(p, E) /\ E \in SUBSET DOMAIN p
  BY <1>1, EndsEscaped
<1>5. PICK cut \in [1..(m + 1) -> 0..w] :
        cut[1] = 0 /\ cut[m + 1] = w /\ \A i \in 1..m : LikeStep(p, u, E, cut, i)
  <2>1. PICK lit \in SUBSET DOMAIN p :
          /\ Escapes(p, lit)
          /\ \E cut \in [1..(m + 1) -> 0..w] :
               /\ cut[1] = 0 /\ cut[m + 1] = w
               /\ \A i \in 1..m : LikeStep(p, u, lit, cut, i)
    BY <1>1, <1>3, LikeSteps
  <2>2. lit = E
    BY <1>1, <1>3, <1>4, <2>1, EscapesOnce
  <2> QED
    BY <2>1, <2>2
<1>6. PICK g : g = [k \in 1..(n + 1) |-> cut[b[k - 1] + 1]]
  OBVIOUS
<1>7. \A k \in 1..(n + 1) : b[k - 1] + 1 \in 1..(m + 1)
  <2> SUFFICES ASSUME NEW k \in 1..(n + 1) PROVE b[k - 1] + 1 \in 1..(m + 1)
    OBVIOUS
  <2>1. k - 1 \in 0..n
    BY <1>2
  <2>2. b[k - 1] \in 0..m
    BY <1>1, <2>1, PieceOf
  <2> QED
    BY <1>3, <2>2
<1>8. g \in [1..(n + 1) -> 0..w]
  BY <1>5, <1>6, <1>7
<1>9. g[1] = 0
  <2>1. 1 \in 1..(n + 1) /\ 1 - 1 = 0
    BY <1>2
  <2>2. g[1] = cut[b[0] + 1]
    BY <1>6, <2>1
  <2>3. b[0] + 1 = 1
    BY <1>3
  <2> QED
    BY <1>5, <2>2, <2>3
<1>10. g[n + 1] = w
  <2>1. n + 1 \in 1..(n + 1) /\ (n + 1) - 1 = n
    BY <1>2
  <2>2. g[n + 1] = cut[b[n] + 1]
    BY <1>6, <2>1
  <2> QED
    BY <1>3, <1>5, <2>2
<1>11. ASSUME NEW i \in 1..n PROVE GlobStep(glob[i], u, g[i], g[i + 1])
  <2>1. PICK a, z, c : a = b[i - 1] /\ z = b[i] /\ c = glob[i]
    OBVIOUS
  <2>2. /\ a \in Nat /\ z \in Nat /\ a < z /\ z <= m
        /\ z = a + 1 \/ (z = a + 2 /\ Special(c))
        /\ LikeStep(p, u, E, cut, z) <=> GlobStep(c, u, cut[z], cut[z + 1])
        /\ Special(c) => (LikeStep(p, u, E, cut, a + 1) <=>
                            a + 1 < m /\ cut[(a + 1) + 1] = cut[a + 1])
    <3>1. a \in Nat /\ z \in Nat /\ a < z /\ z <= m /\ Asks(c, p, u, E, cut, a, z)
      BY <1>1, <2>1, PieceFacts
    <3> QED
      BY <1>1, <3>1 DEF Asks
  <2>3. z \in 1..m /\ a + 1 \in 1..m
    BY <1>3, <2>2
  <2>4. cut[z] = cut[a + 1]
    <3>1. CASE z = a + 1
      BY <3>1
    <3>2. CASE z = a + 2 /\ Special(c)
      <4>1. cut[(a + 1) + 1] = cut[a + 1]
        BY <1>5, <2>2, <2>3, <3>2
      <4>2. (a + 1) + 1 = z
        BY <2>2, <3>2
      <4> QED
        BY <4>1, <4>2
    <3> QED
      BY <2>2, <3>1, <3>2
  <2>5. GlobStep(c, u, cut[z], cut[z + 1])
    BY <1>5, <2>2, <2>3
  <2>6. i \in 1..(n + 1) /\ i + 1 \in 1..(n + 1) /\ (i + 1) - 1 = i
    BY <1>2
  <2>7. g[i] = cut[a + 1] /\ g[i + 1] = cut[z + 1]
    BY <1>6, <2>1, <2>6
  <2> QED
    BY <2>1, <2>4, <2>5, <2>7
<1> QED
  BY <1>1, <1>2, <1>8, <1>9, <1>10, <1>11, GlobSteps

\* What a glob matches, LIKE finds with its pattern.
LEMMA MatchesLike ==
  ASSUME NEW glob \in Text, NEW p, NEW b, Marks(glob, p, b), NEW u, Len(u) \in Nat,
         Matches(glob, u)
  PROVE  Like(p, u)
<1>1. PICK n, m, w, E : n = Len(glob) /\ m = Len(p) /\ w = Len(u) /\ E = Ends(glob, b)
  OBVIOUS
<1>2. n \in Nat /\ w \in Nat /\ DOMAIN glob = 1..n
  BY <1>1 DEF Text
<1>3. m \in Nat /\ DOMAIN p = 1..m /\ b[0] = 0 /\ b[n] = m
  BY <1>1 DEF Marks
<1>4. Escapes(p, E) /\ E \in SUBSET DOMAIN p
  BY <1>1, EndsEscaped
<1>5. PICK g \in [1..(n + 1) -> 0..w] :
        g[1] = 0 /\ g[n + 1] = w /\ \A i \in 1..n : GlobStep(glob[i], u, g[i], g[i + 1])
  BY <1>1, <1>2, GlobSteps
<1>6. PICK cut : cut = [x \in 1..(m + 1) |-> g[CHOOSE k \in 1..(n + 1) : In(glob, b, k, x)]]
  OBVIOUS
<1>7. ASSUME NEW x \in 1..(m + 1), NEW k \in 1..(n + 1), In(glob, b, k, x)
      PROVE  cut[x] = g[k]
  <2>1. PICK l : l = CHOOSE j \in 1..(n + 1) : In(glob, b, j, x)
    OBVIOUS
  <2>2. l \in 1..(n + 1) /\ In(glob, b, l, x)
    BY <1>7, <2>1
  <2>3. x \in Nat
    BY <1>3
  <2>4. k = l
    BY <1>1, <1>7, <2>2, <2>3, InOne
  <2> QED
    BY <1>6, <2>1, <2>4
<1>8. cut \in [1..(m + 1) -> 0..w]
  <2>1. ASSUME NEW x \in 1..(m + 1) PROVE cut[x] \in 0..w
    <3>1. PICK k \in 1..(n + 1) : In(glob, b, k, x)
      BY <1>1, InOne
    <3>2. cut[x] = g[k]
      BY <1>7, <3>1
    <3> QED
      BY <1>5, <3>2
  <2> QED
    BY <1>6, <2>1
<1>9. ASSUME NEW i \in 1..n, NEW a, a = b[i - 1], NEW z, z = b[i], a \in Nat, z \in Nat,
             a < z, z <= m
      PROVE  cut[a + 1] = g[i] /\ cut[z] = g[i] /\ cut[z + 1] = g[i + 1]
  <2>1. /\ i \in 1..(n + 1) /\ i # n + 1 /\ i + 1 \in 1..(n + 1) /\ (i + 1) - 1 = i
        /\ a + 1 \in 1..(m + 1) /\ z \in 1..(m + 1) /\ z + 1 \in 1..(m + 1)
        /\ a < a + 1 /\ a + 1 <= z /\ z <= z /\ z < z + 1
    <3>1. /\ i \in 1..(n + 1) /\ i # n + 1 /\ i + 1 \in 1..(n + 1) /\ (i + 1) - 1 = i
      BY <1>2
    <3>2. a \in Nat /\ z \in Nat /\ a < z /\ z <= m /\ m \in Nat
      BY <1>3, <1>9
    <3>3. /\ a + 1 \in 1..(m + 1) /\ z \in 1..(m + 1) /\ z + 1 \in 1..(m + 1)
          /\ a < a + 1 /\ a + 1 <= z /\ z <= z /\ z < z + 1
      BY <3>2
    <3> QED
      BY <3>1, <3>3
  <2>2. In(glob, b, i, a + 1) /\ In(glob, b, i, z)
    BY <1>1, <1>9, <2>1 DEF In
  <2>3. In(glob, b, i + 1, z + 1)
    <3>1. CASE i = n
      <4>1. b[n] + 1 = z + 1
        BY <1>9, <3>1
      <4> QED
        BY <1>1, <1>9, <2>1, <3>1, <4>1 DEF In
    <3>2. CASE i # n
      <4>1. i + 1 \in 1..n /\ i + 1 # n + 1
        BY <1>2, <3>2
      <4>2. b[(i + 1) - 1] < b[i + 1] /\ b[i + 1] \in Nat
        BY <1>1, <4>1, MarksRise
      <4>3. PICK y : y = b[i + 1]
        OBVIOUS
      <4>4. z < y /\ y \in Nat
        BY <1>9, <2>1, <4>2, <4>3
      <4>5. z + 1 <= y
        BY <1>9, <4>4
      <4> QED
        BY <1>1, <1>9, <2>1, <4>1, <4>3, <4>5 DEF In
    <3> QED
      BY <3>1, <3>2
  <2> QED
    BY <1>7, <2>1, <2>2, <2>3
<1>10. ASSUME NEW x \in 1..m PROVE LikeStep(p, u, E, cut, x)
  <2>1. PICK i \in 1..n : b[i - 1] < x /\ x <= b[i]
    BY <1>1, PieceOf
  <2>2. PICK a, z, c : a = b[i - 1] /\ z = b[i] /\ c = glob[i]
    OBVIOUS
  <2>3. /\ a \in Nat /\ z \in Nat /\ a < z /\ z <= m
        /\ z = a + 1 \/ (z = a + 2 /\ Special(c))
        /\ LikeStep(p, u, E, cut, z) <=> GlobStep(c, u, cut[z], cut[z + 1])
        /\ Special(c) => (LikeStep(p, u, E, cut, a + 1) <=>
                            a + 1 < m /\ cut[(a + 1) + 1] = cut[a + 1])
    <3>1. a \in Nat /\ z \in Nat /\ a < z /\ z <= m /\ Asks(c, p, u, E, cut, a, z)
      BY <1>1, <2>2, PieceFacts
    <3> QED
      BY <1>1, <3>1 DEF Asks
  <2>4. cut[a + 1] = g[i] /\ cut[z] = g[i] /\ cut[z + 1] = g[i + 1]
    BY <1>9, <2>2, <2>3
  <2>5. CASE x = z
    <3>1. GlobStep(c, u, g[i], g[i + 1])
      BY <1>5, <2>2
    <3>2. GlobStep(c, u, cut[z], cut[z + 1])
      BY <2>4, <3>1
    <3> QED
      BY <2>3, <2>5, <3>2
  <2>6. CASE x # z
    <3>1. a < x /\ x <= z
      BY <2>1, <2>2
    <3>2. x = a + 1 /\ z = a + 2 /\ a + 1 < m /\ (a + 1) + 1 = z
      BY <1>3, <2>3, <2>6, <3>1
    <3>3. Special(c)
      BY <2>3, <3>2
    <3>4. cut[(a + 1) + 1] = cut[a + 1]
      BY <2>4, <3>2
    <3> QED
      BY <2>3, <3>2, <3>3, <3>4
  <2> QED
    BY <2>5, <2>6
<1>11. cut[1] = 0
  <2>1. PICK k : k = 1
    OBVIOUS
  <2>2. k \in 1..(n + 1) /\ k - 1 = 0 /\ k \in 1..(m + 1)
    BY <1>2, <1>3, <2>1
  <2>3. In(glob, b, k, k)
    <3>1. b[k - 1] < k
      BY <1>3, <2>1, <2>2
    <3>2. ASSUME k = n + 1 PROVE k = b[n] + 1
      BY <1>2, <1>3, <2>1, <3>2
    <3>3. ASSUME k # n + 1 PROVE k <= b[k]
      <4>1. k \in 1..n
        BY <1>2, <2>2, <3>3
      <4>2. b[k - 1] < b[k] /\ b[k] \in Nat /\ b[k - 1] \in Nat
        BY <1>1, <4>1, MarksRise
      <4>3. PICK y : y = b[k]
        OBVIOUS
      <4>4. 0 < y /\ y \in Nat
        BY <1>3, <2>2, <4>2, <4>3
      <4> QED
        BY <2>1, <4>3, <4>4
    <3> QED
      BY <1>1, <2>2, <3>1, <3>2, <3>3 DEF In
  <2> QED
    BY <1>5, <1>7, <2>1, <2>2, <2>3
<1>12. cut[m + 1] = w
  <2>1. PICK k, x : k = n + 1 /\ x = m + 1
    OBVIOUS
  <2>2. k \in 1..(n + 1) /\ k - 1 = n /\ x \in 1..(m + 1) /\ m < x
    BY <1>2, <1>3, <2>1
  <2>3. In(glob, b, k, x)
    BY <1>1, <1>3, <2>1, <2>2 DEF In
  <2> QED
    BY <1>5, <1>7, <2>1, <2>2, <2>3
<1> QED
  BY <1>1, <1>3, <1>4, <1>8, <1>10, <1>11, <1>12, LikeSteps

\* query.go:352-353: only "*" is a wildcard, whatever the glob and the url.
LEMMA LikeIs ==
  ASSUME NEW glob \in Text, NEW u, Len(u) \in Nat
  PROVE  Like(globToLike(glob), u) <=> Matches(glob, u)
BY MarksAre, LikeMatches, MatchesLike

-----------------------------------------------------------------------------
(* Queries.                                                                *)

\* A query for a glob, as QueriesExact asks it, in both orders.
GlobQuery(glob) == [AnyEntry EXCEPT !.glob = glob]
GlobList(glob) == [[AnyEntry EXCEPT !.glob = glob] EXCEPT !.ascending = TRUE]

\* What is asked, newest first.
LEMMA GlobQueryIs ==
  ASSUME NEW glob, NEW w, w = GlobQuery(glob)
  PROVE  w = [session |-> Empty, method |-> Empty, glob |-> glob, status |-> 0,
              mime |-> <<>>, limit |-> 0, offset |-> 0, ascending |-> FALSE]
  BY DEF GlobQuery, AnyEntry

\* What is asked, oldest first.
LEMMA GlobListIs ==
  ASSUME NEW glob, NEW w, w = GlobList(glob)
  PROVE  w = [session |-> Empty, method |-> Empty, glob |-> glob, status |-> 0,
              mime |-> <<>>, limit |-> 0, offset |-> 0, ascending |-> TRUE]
  BY DEF GlobList, AnyEntry

\* The rows whose url a glob matches.
Hits(q, glob) == {i \in 1..Len(q) : Matches(glob, q[i].row.url)}

\* The url of a row has a length.
LEMMA UrlLen ==
  ASSUME NEW st \in Rows
  PROVE  Len(st.row.url) \in Nat
<1>1. PICK s, json, tx : json = st.json /\ tx = st.tx /\ s = tx.req.url
  OBVIOUS
<1>2. tx \in Transactions /\ st.row.url = Through(json, s)
  BY <1>1, RowIs
<1>3. s \in Seq(STRING)
  BY <1>1, <1>2, InputsAssumption DEF Text
<1>4. Len(s) \in Nat /\ DOMAIN s = 1..Len(s)
  BY <1>3
<1>5. PICK t : t = JsonString(s)
  OBVIOUS
<1>6. t = [i \in 1..Len(s) |-> Rune(s[i])]
  BY <1>4, <1>5 DEF JsonString
<1>7. PICK C : C = {Rune(s[i]) : i \in 1..Len(s)}
  OBVIOUS
<1>8. t \in [1..Len(s) -> C]
  BY <1>6, <1>7
<1>9. Len(t) = Len(s)
  BY <1>4, <1>8, FunctionSeq
<1> QED
  BY <1>2, <1>4, <1>5, <1>9 DEF Through

\* A query for a glob finds them.
LEMMA GlobMatches ==
  ASSUME NEW glob \in Text, glob # <<>>, NEW q \in Seq(Rows), NEW w, w.session = Empty,
         w.method = Empty, w.glob = glob, w.status = 0, w.mime = <<>>
  PROVE  Matching(q, w) = At(q, Hits(q, glob))
<1>1. \A row : where(w, row) <=> Like(globToLike(glob), row.url)
  BY DEF where
<1>2. DOMAIN q = 1..Len(q) /\ \A i \in 1..Len(q) : q[i] \in Rows
  BY SeqIs
<1>3. ASSUME NEW i \in 1..Len(q)
      PROVE  where(w, q[i].row) <=> Matches(glob, q[i].row.url)
  <2>1. PICK u : u = q[i].row.url
    OBVIOUS
  <2>2. Len(u) \in Nat
    BY <1>2, <2>1, UrlLen
  <2>3. Like(globToLike(glob), u) <=> Matches(glob, u)
    BY <2>2, LikeIs
  <2> QED
    BY <1>1, <2>1, <2>3
<1>4. {i \in DOMAIN q : where(w, q[i].row)} = Hits(q, glob)
  BY <1>2, <1>3 DEF Hits
<1> QED
  BY <1>4 DEF Matching

\* A sequence from its end.
LEMMA ReverseIs ==
  ASSUME NEW S, NEW q \in Seq(S), NEW r, r = Reverse(q)
  PROVE  /\ r \in Seq(S) /\ Len(r) = Len(q)
         /\ \A i \in 1..Len(q) : r[i] = q[(Len(q) - i) + 1]
<1>1. PICK n : n = Len(q)
  OBVIOUS
<1>2. n \in Nat /\ \A i \in 1..n : q[i] \in S
  BY <1>1, SeqIs
<1>3. \A i \in 1..n : (n - i) + 1 \in 1..n
  BY <1>2
<1>4. r = [i \in 1..n |-> q[(n - i) + 1]]
  BY <1>1 DEF Reverse
<1>5. r \in [1..n -> S]
  BY <1>2, <1>3, <1>4
<1>6. r \in Seq(S) /\ Len(r) = n
  BY <1>2, <1>5, FunctionSeq
<1> QED
  BY <1>1, <1>4, <1>6

\* A list without a page, newest first.
LEMMA ListNewest ==
  ASSUME NEW S, NEW q, NEW w, Matching(q, w) \in Seq(S), w.limit = 0, w.offset = 0,
         w.ascending = FALSE
  PROVE  List(q, w) = Reverse(Matching(q, w))
<1>1. PICK m, r : m = Matching(q, w) /\ r = Reverse(m)
  OBVIOUS
<1>2. Ordered(w, m) = r
  BY <1>1 DEF Ordered
<1>3. ~Fails(w)
  BY DEF Fails
<1>4. List(q, w) = SubSeq(r, 0 + 1, Len(r))
  BY <1>1, <1>2, <1>3 DEF List
<1>5. 0 + 1 = 1 /\ r \in Seq(S)
  BY <1>1, ReverseIs
<1> QED
  BY <1>1, <1>4, <1>5, SubSeqAll

\* Their ids, too.
LEMMA IdsReverse ==
  ASSUME NEW q \in Seq(Rows)
  PROVE  Ids(Reverse(q)) = Reverse(Ids(q))
<1>1. PICK n, r, d, e, f : /\ n = Len(q) /\ r = Reverse(q) /\ d = Ids(q) /\ e = Ids(r)
                           /\ f = Reverse(d)
  OBVIOUS
<1>2. n \in Nat
  BY <1>1, SeqIs
<1>3. r \in Seq(Rows) /\ Len(r) = n /\ \A i \in 1..n : r[i] = q[(n - i) + 1]
  BY <1>1, ReverseIs
<1>4. d \in Seq(Nat) /\ Len(d) = n /\ \A i \in 1..n : d[i] = q[i].id
  BY <1>1, IdsAre
<1>5. e \in Seq(Nat) /\ Len(e) = n /\ \A i \in 1..n : e[i] = r[i].id
  BY <1>1, <1>3, IdsAre
<1>6. f \in Seq(Nat) /\ Len(f) = n /\ \A i \in 1..n : f[i] = d[(n - i) + 1]
  BY <1>1, <1>4, ReverseIs
<1>7. \A i \in 1..n : (n - i) + 1 \in 1..n
  BY <1>2
<1>8. ASSUME NEW i \in 1..n PROVE e[i] = f[i]
  <2>1. PICK j : j = (n - i) + 1
    OBVIOUS
  <2>2. j \in 1..n
    BY <1>7, <2>1
  <2>3. e[i] = r[i].id /\ r[i] = q[j] /\ f[i] = d[j]
    BY <1>3, <1>5, <1>6, <2>1
  <2>4. d[j] = q[j].id
    BY <1>4, <2>2
  <2> QED
    BY <2>3, <2>4
<1>9. Len(e) = Len(f) /\ \A i \in 1..Len(e) : e[i] = f[i]
  BY <1>5, <1>6, <1>8
<1>10. e = f
  BY <1>5, <1>6, <1>9, SeqEq
<1> QED
  BY <1>1, <1>10

\* The ids of the rows a query finds, in order.
LEMMA HitsAre ==
  ASSUME NEW glob, NEW q \in Seq(Rows), Increasing(q), NEW m, m = At(q, Hits(q, glob)),
         NEW ids, ids = Ids(m)
  PROVE  /\ m \in Seq(Rows) /\ Len(ids) = Len(m)
         /\ \A i, j \in DOMAIN ids : i < j => ids[i] < ids[j]
         /\ ToSet(ids) = {st.id : st \in {s \in ToSet(q) :
                            Matches(glob, Through(s.json, s.tx.req.url))}}
<1>1. PICK J : J = Hits(q, glob)
  OBVIOUS
<1>2. J \in SUBSET (1..Len(q))
  BY <1>1 DEF Hits
<1>3. DOMAIN q = 1..Len(q) /\ \A i \in 1..Len(q) : q[i] \in Rows
  BY SeqIs
<1>4. PICK a : /\ Lists(a, J) /\ m \in Seq(Rows) /\ Len(m) = Len(a)
               /\ \A i \in 1..Len(a) : m[i] = q[a[i]]
  BY <1>1, <1>2, AtLists
<1>5. /\ Len(a) \in Nat /\ J = {a[i] : i \in 1..Len(a)}
      /\ \A i \in 1..Len(a) : a[i] \in J /\ a[i] \in 1..Len(q)
      /\ \A i, j \in 1..Len(a) : i < j => a[i] < a[j]
  BY <1>2, <1>4 DEF Lists
<1>6. ids \in Seq(Nat) /\ Len(ids) = Len(m) /\ \A i \in 1..Len(m) : ids[i] = m[i].id
  BY <1>4, IdsAre
<1>7. DOMAIN ids = 1..Len(a) /\ \A i \in 1..Len(a) : ids[i] = q[a[i]].id
  BY <1>4, <1>6, SeqIs
<1>8. \A i, j \in DOMAIN ids : i < j => ids[i] < ids[j]
  <2> SUFFICES ASSUME NEW i \in 1..Len(a), NEW j \in 1..Len(a), i < j PROVE ids[i] < ids[j]
    BY <1>7
  <2>1. q[a[i]].id < q[a[j]].id
    BY <1>5 DEF Increasing
  <2> QED
    BY <1>7, <2>1
<1>9. \A j \in 1..Len(q) :
        j \in J <=> Matches(glob, Through(q[j].json, q[j].tx.req.url))
  BY <1>1, <1>3, RowIs DEF Hits
<1>10. PICK H : H = {s \in ToSet(q) : Matches(glob, Through(s.json, s.tx.req.url))}
  OBVIOUS
<1>11. ASSUME NEW x \in ToSet(ids) PROVE \E st \in H : x = st.id
  <2>1. PICK i \in 1..Len(a) : x = q[a[i]].id
    BY <1>7, <1>11 DEF ToSet
  <2>2. a[i] \in J /\ a[i] \in 1..Len(q)
    BY <1>5
  <2>3. q[a[i]] \in H
    BY <1>3, <1>9, <1>10, <2>2 DEF ToSet
  <2> QED
    BY <2>1, <2>3
<1>12. ASSUME NEW st \in H PROVE st.id \in ToSet(ids)
  <2>1. PICK j \in 1..Len(q) : st = q[j]
    BY <1>3, <1>10 DEF ToSet
  <2>2. j \in J
    BY <1>9, <1>10, <2>1
  <2>3. PICK i \in 1..Len(a) : j = a[i]
    BY <1>5, <2>2
  <2> QED
    BY <1>7, <2>1, <2>3 DEF ToSet
<1>13. ToSet(ids) = {st.id : st \in H}
  BY <1>11, <1>12
<1> QED
  BY <1>4, <1>6, <1>8, <1>10, <1>13

\* In every reachable state a list by URL glob has exactly the rows whose url the
\* glob matches with "*" as its only wildcard (globToLike and LIKE's escapes),
\* oldest first or newest first as asked, and Count counts them.
THEOREM QueriesAreExact == Spec => []QueriesExact
<1>1. ASSUME Inv PROVE QueriesExact
  <2>1. durable \in Seq(Rows) /\ Increasing(durable)
    BY <1>1 DEF Inv, StoresOK
  <2>2. ASSUME NEW glob \in Globs
        PROVE  /\ ToSet(Ids(List(durable, GlobList(glob)))) =
                    {st.id : st \in {s \in ToSet(durable) :
                       Matches(glob, Through(s.json, s.tx.req.url))}}
               /\ \A i, j \in DOMAIN Ids(List(durable, GlobList(glob))) :
                    i < j => Ids(List(durable, GlobList(glob)))[i]
                               < Ids(List(durable, GlobList(glob)))[j]
               /\ Ids(List(durable, GlobQuery(glob))) = Reverse(Ids(List(durable, GlobList(glob))))
               /\ Count(durable, GlobQuery(glob)) = Len(Ids(List(durable, GlobList(glob))))
    <3>1. glob \in Text /\ glob # <<>>
      BY InputsAssumption
    <3>2. PICK m, ids, v, w : /\ m = At(durable, Hits(durable, glob)) /\ ids = Ids(m)
                              /\ v = GlobList(glob) /\ w = GlobQuery(glob)
      OBVIOUS
    <3>3. v = [session |-> Empty, method |-> Empty, glob |-> glob, status |-> 0,
               mime |-> <<>>, limit |-> 0, offset |-> 0, ascending |-> TRUE]
      BY <3>2, GlobListIs
    <3>4. w = [session |-> Empty, method |-> Empty, glob |-> glob, status |-> 0,
               mime |-> <<>>, limit |-> 0, offset |-> 0, ascending |-> FALSE]
      BY <3>2, GlobQueryIs
    <3>5. /\ v.session = Empty /\ v.method = Empty /\ v.glob = glob /\ v.status = 0
          /\ v.mime = <<>> /\ v.limit = 0 /\ v.offset = 0
      BY <3>3
    <3>6. v.ascending = TRUE
      BY <3>3
    <3>7. /\ w.session = Empty /\ w.method = Empty /\ w.glob = glob /\ w.status = 0
          /\ w.mime = <<>> /\ w.limit = 0 /\ w.offset = 0
      BY <3>4
    <3>8. w.ascending = FALSE
      BY <3>4
    <3>9. /\ m \in Seq(Rows) /\ Len(ids) = Len(m)
          /\ \A i, j \in DOMAIN ids : i < j => ids[i] < ids[j]
          /\ ToSet(ids) = {st.id : st \in {s \in ToSet(durable) :
                             Matches(glob, Through(s.json, s.tx.req.url))}}
      BY <2>1, <3>2, HitsAre
    <3>10. Matching(durable, v) = m
      BY <2>1, <3>1, <3>2, <3>5, GlobMatches
    <3>11. Matching(durable, w) = m
      BY <2>1, <3>1, <3>2, <3>7, GlobMatches
    <3>12. List(durable, v) = m
      BY <3>5, <3>6, <3>9, <3>10, ListAll
    <3>13. List(durable, w) = Reverse(m)
      BY <3>7, <3>8, <3>9, <3>11, ListNewest
    <3>14. Ids(List(durable, w)) = Reverse(ids)
      BY <3>2, <3>9, <3>13, IdsReverse
    <3>15. Count(durable, w) = Len(ids)
      BY <3>9, <3>11 DEF Count
    <3>16. Ids(List(durable, v)) = ids
      BY <3>2, <3>12
    <3> QED
      BY <3>2, <3>9, <3>14, <3>15, <3>16
  <2> QED
    BY <2>2 DEF QueriesExact, GlobQuery, GlobList
<1>2. Inv => QueriesExact
  BY <1>1
<1> QED
  BY <1>2, ArchiveInvariant, PTL
=============================================================================
