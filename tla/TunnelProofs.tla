---------------------------- MODULE TunnelProofs ----------------------------
(***************************************************************************)
(* Theorems about Tunnel for any connections, hosts, requests, answers and *)
(* bounds: the leaf cache hands out one leaf per name, and the HTTP/1.1    *)
(* parser stays at the boundary of two requests whatever their framing and *)
(* wherever the stream is cut.                                             *)
(***************************************************************************)
EXTENDS Tunnel, OrderProofs, SequenceTheorems, TLAPS

-----------------------------------------------------------------------------
(* Sequences.                                                              *)

\* What is left after the first k elements.
LEMMA DropIs ==
  ASSUME NEW S, NEW q \in Seq(S), NEW k \in 0..Len(q)
  PROVE  /\ SubSeq(q, k + 1, Len(q)) \in Seq(S)
         /\ Len(SubSeq(q, k + 1, Len(q))) = Len(q) - k
         /\ \A i \in 1..(Len(q) - k) : SubSeq(q, k + 1, Len(q))[i] = q[k + i]
  OBVIOUS

\* The first piece of some kinds.
LEMMA FirstIs ==
  ASSUME NEW S, NEW q \in Seq(S), NEW from \in Nat \ {0}, NEW K, NEW f,
         f = First(q, from, K)
  PROVE  \/ f = 0 /\ \A j \in from..Len(q) : q[j].kind \notin K
         \/ /\ f \in from..Len(q) /\ q[f].kind \in K
            /\ \A j \in from..(f - 1) : q[j].kind \notin K
<1> DEFINE I == {i \in from..Len(q) : q[i].kind \in K}
<1>1. Len(q) \in Nat /\ I \in SUBSET Nat
  OBVIOUS
<1>2. f = IF I # {} THEN CHOOSE x \in I : \A y \in I : x =< y ELSE 0
  BY DEF First, SelectInSubSeq, Min
<1>3. CASE I = {}
  BY <1>2, <1>3
<1>4. CASE I # {}
  <2>1. \E x \in I : \A y \in I : x =< y
    BY <1>1, <1>4, Least
  <2>2. f \in I /\ \A y \in I : f =< y
    BY <1>2, <1>4, <2>1
  <2>3. \A j \in from..(f - 1) : q[j].kind \notin K
    <3>1. SUFFICES ASSUME NEW j \in from..(f - 1), q[j].kind \in K PROVE FALSE
      OBVIOUS
    <3>2. f \in Nat /\ f <= Len(q) /\ j \in from..Len(q) /\ ~(f <= j)
      BY <1>1, <2>2
    <3>3. j \in I
      BY <3>1, <3>2
    <3> QED
      BY <2>2, <3>2, <3>3
  <2> QED
    BY <2>2, <2>3
<1> QED
  BY <1>3, <1>4

\* ... where it is, when it is known ...
LEMMA FirstAt ==
  ASSUME NEW S, NEW q \in Seq(S), NEW from \in Nat \ {0}, NEW K,
         NEW i \in from..Len(q), q[i].kind \in K,
         \A j \in from..(i - 1) : q[j].kind \notin K
  PROVE  First(q, from, K) = i
<1> DEFINE f == First(q, from, K)
<1>1. \/ f = 0 /\ \A j \in from..Len(q) : q[j].kind \notin K
      \/ /\ f \in from..Len(q) /\ q[f].kind \in K
         /\ \A j \in from..(f - 1) : q[j].kind \notin K
  BY FirstIs
<1> HIDE DEF f
<1>2. f \in from..Len(q) /\ q[f].kind \in K /\ \A j \in from..(f - 1) : q[j].kind \notin K
  BY <1>1
<1>3. ~(f < i) /\ ~(i < f)
  BY <1>2
<1> QED
  BY <1>2, <1>3 DEF f

\* ... and when there is none.
LEMMA FirstNone ==
  ASSUME NEW S, NEW q \in Seq(S), NEW from \in Nat \ {0}, NEW K,
         \A j \in from..Len(q) : q[j].kind \notin K
  PROVE  First(q, from, K) = 0
  BY FirstIs

-----------------------------------------------------------------------------
(* The parser: what it returns.                                            *)

\* readHeaders ends at a blank line behind a request line and headers.
LEMMA ReadHeadersIs ==
  ASSUME NEW q \in Seq(Pieces), NEW e, NEW h, h = readHeaders(q, e),
         h.st = "ok"
  PROVE  /\ h.end \in 2..Len(q) /\ Len(q) \in Nat
         /\ q[1].kind \in Methods
         /\ q[h.end].kind = "blank"
         /\ \A j \in 2..(h.end - 1) : q[j].kind \in HeaderNames
<1> DEFINE K == Methods \union BodyKinds
           f == First(q, 2, K)
<1>1. Short(e).st # "ok" /\ Bad.st # "ok"
  BY DEF Short, Bad, More
<1>2. 2 \in Nat \ {0}
  OBVIOUS
<1>3. \/ f = 0 /\ \A j \in 2..Len(q) : q[j].kind \notin K
      \/ /\ f \in 2..Len(q) /\ q[f].kind \in K
         /\ \A j \in 2..(f - 1) : q[j].kind \notin K
  BY <1>2, FirstIs
<1>4. f # 0 /\ q[f].kind = "blank" /\ h = Got(f, 0) /\ (q # <<>> => q[1].kind \in Methods)
  BY <1>1 DEF readHeaders
<1> HIDE DEF f
<1>5. h.end = f
  BY <1>4 DEF Got
<1>6. Len(q) \in Nat /\ \A j \in 1..Len(q) : q[j] \in Pieces
  BY SeqIs
<1>7. q # <<>>
  BY <1>3, <1>4
<1>8. \A j \in 2..(f - 1) : q[j].kind \in HeaderNames
  <2>1. TAKE j \in 2..(f - 1)
  <2>2. j \in 1..Len(q)
    BY <1>3, <1>4, <1>6
  <2>3. q[j].kind \in HeaderNames \union K
    BY <1>6, <2>2 DEF Pieces
  <2> QED
    BY <1>3, <1>4, <2>3
<1> QED
  BY <1>3, <1>4, <1>5, <1>6, <1>7, <1>8

\* contentLength is a number.
LEMMA ContentLengthIs ==
  ASSUME NEW hs \in Seq(Pieces)
  PROVE  contentLength(hs) \in Nat
<1> DEFINE f == First(hs, 1, {"content-length"})
<1>1. 1 \in Nat \ {0}
  OBVIOUS
<1>2. f = 0 \/ f \in 1..Len(hs)
  BY <1>1, FirstIs
<1>3. contentLength(hs) = IF f = 0 THEN 0 ELSE hs[f].v
  BY DEF contentLength
<1> HIDE DEF f
<1>4. \A i \in 1..Len(hs) : hs[i] \in Pieces
  BY SeqIs
<1>5. \A x \in Pieces : x.v \in Nat
  BY DEF Pieces
<1> QED
  BY <1>2, <1>3, <1>4, <1>5

\* readBody takes pieces of the stream.
LEMMA ReadBodyIs ==
  ASSUME NEW q \in Seq(Pieces), NEW hs \in Seq(Pieces), NEW e,
         NEW b, b = readBody(q, hs, e), b.st = "ok"
  PROVE  b.end \in 0..Len(q) /\ b.body \in Nat
<1>1. Short(e).st # "ok" /\ Bad.st # "ok" /\ More.st # "ok"
  BY DEF Short, Bad, More
<1>2. Len(q) \in Nat
  OBVIOUS
<1>3. CASE hasChunked(hs)
  <2> DEFINE z == First(q, 1, Methods \union {"last", "blank", "octet"} \union HeaderNames)
             f == First(q, z + 1, {"blank"})
  <2>1. 1 \in Nat \ {0}
    OBVIOUS
  <2>2. z = 0 \/ z \in 1..Len(q)
    BY <2>1, FirstIs
  <2>3. b = readChunked(q, e)
    BY <1>3 DEF readBody
  <2>4. z # 0 /\ ((f # 0 /\ b = Got(f, z - 1)) \/ b = Got(Len(q), z - 1))
    BY <1>1, <2>3 DEF readChunked
  <2> HIDE DEF z
  <2>5. z + 1 \in Nat \ {0} /\ z - 1 \in Nat /\ z \in 1..Len(q)
    BY <1>2, <2>2, <2>4
  <2>6. f = 0 \/ f \in (z + 1)..Len(q)
    BY <2>5, FirstIs
  <2> HIDE DEF f
  <2>7. f # 0 => f \in 0..Len(q)
    BY <1>2, <2>5, <2>6
  <2> QED
    BY <1>2, <2>4, <2>5, <2>7 DEF Got
<1>4. CASE ~hasChunked(hs)
  <2> DEFINE n == contentLength(hs)
  <2>1. n \in Nat
    BY ContentLengthIs
  <2>2. n <= Len(q) /\ b = Got(n, n)
    BY <1>1, <1>4 DEF readBody
  <2> HIDE DEF n
  <2> QED
    BY <1>2, <2>1, <2>2 DEF Got
<1> QED
  BY <1>3, <1>4

-----------------------------------------------------------------------------
(* The encoder.                                                            *)

\* The kinds of pieces.
PieceTypes == HeaderNames \union Methods \union BodyKinds

\* A piece of one kind is not taken for one of another.
LEMMA KindsApart ==
  /\ \A k \in HeaderNames : k \notin Methods /\ k \notin BodyKinds
  /\ \A k \in Methods : k \notin BodyKinds /\ k \notin HeaderNames
  /\ \A k \in BodyKinds : k \in PieceTypes
  /\ \A k \in Methods : k \in PieceTypes
  /\ \A k \in HeaderNames : k \in PieceTypes
  /\ "content-type" \in HeaderNames
<1>1. \A k \in OtherNames : k \notin Methods /\ k \notin BodyKinds
  BY NamesAssumption
<1>2. \A k \in HeaderNames : k \notin Methods /\ k \notin BodyKinds
  BY <1>1 DEF HeaderNames, Framing, Methods, BodyKinds
<1>3. \A k \in Methods : k \notin BodyKinds
  BY DEF Methods, BodyKinds
<1>4. "content-type" \in HeaderNames
  BY NamesAssumption DEF HeaderNames
<1> QED
  BY <1>2, <1>3, <1>4 DEF PieceTypes

\* A piece has its kind and its value.
LEMMA PieceIs ==
  ASSUME NEW k \in PieceTypes, NEW v \in Nat
  PROVE  Piece(k, v) \in Pieces /\ Piece(k, v).kind = k /\ Piece(k, v).v = v
  BY DEF Piece, Pieces, PieceTypes

\* Copies are n times the same piece.
LEMMA CopiesIs ==
  ASSUME NEW x \in Pieces, NEW n \in Nat
  PROVE  /\ Copies(x, n) \in Seq(Pieces) /\ Len(Copies(x, n)) = n
         /\ \A i \in 1..n : Copies(x, n)[i] = x
  BY DEF Copies

\* The line, the headers and the blank line of a request.
HeadOf(r) == <<Piece(r.method, r.id)>> \o r.headers \o <<Piece("blank", 0)>>

\* What follows them.
BodyOf(r, t) ==
  IF r.chunked
  THEN Copies(Piece("chunk", 0), r.body) \o <<Piece("last", 0)>>
         \o Copies(Piece("content-type", 0), t) \o <<Piece("blank", 0)>>
  ELSE Copies(Piece("octet", 0), r.body)

\* The head of a request: its line, its headers, a blank line.
LEMMA HeadIs ==
  ASSUME NEW id \in Nat, NEW m \in Methods, NEW hs \in Seq(Pieces), NEW r,
         r.id = id, r.method = m, r.headers = hs
  PROVE  /\ HeadOf(r) \in Seq(Pieces) /\ Len(HeadOf(r)) = Len(hs) + 2
         /\ HeadOf(r)[1] = Piece(m, id)
         /\ HeadOf(r)[Len(hs) + 2] = Piece("blank", 0)
         /\ \A i \in 1..Len(hs) : HeadOf(r)[i + 1] = hs[i]
<1> DEFINE a == <<Piece(m, id)>>
           z == <<Piece("blank", 0)>>
<1>1. /\ a \in Seq(Pieces) /\ Len(a) = 1 /\ a[1] = Piece(m, id)
      /\ z \in Seq(Pieces) /\ Len(z) = 1 /\ z[1] = Piece("blank", 0)
  <2>1. Piece(m, id) \in Pieces /\ Piece("blank", 0) \in Pieces
    BY KindsApart, PieceIs DEF BodyKinds
  <2> QED
    BY <2>1
<1>2. HeadOf(r) = a \o hs \o z
  BY DEF HeadOf
<1> HIDE DEF a, z
<1> DEFINE b == a \o hs
<1>3. /\ b \in Seq(Pieces) /\ Len(b) = 1 + Len(hs)
      /\ \A i \in 1..(1 + Len(hs)) : b[i] = IF i <= 1 THEN a[i] ELSE hs[i - 1]
  <2>1. /\ b \in Seq(Pieces) /\ Len(b) = Len(a) + Len(hs)
        /\ \A i \in 1..(Len(a) + Len(hs)) :
             b[i] = IF i <= Len(a) THEN a[i] ELSE hs[i - Len(a)]
    BY <1>1, ConcatIs
  <2> HIDE DEF b
  <2> QED
    BY <1>1, <2>1
<1> HIDE DEF b
<1>4. /\ b \o z \in Seq(Pieces) /\ Len(b \o z) = Len(b) + Len(z)
      /\ \A i \in 1..(Len(b) + Len(z)) :
           (b \o z)[i] = IF i <= Len(b) THEN b[i] ELSE z[i - Len(b)]
  BY <1>1, <1>3, ConcatIs
<1> DEFINE w == b \o z
           n == Len(hs)
<1>5. n \in Nat
  OBVIOUS
<1>6. /\ w \in Seq(Pieces) /\ Len(w) = n + 2
      /\ \A i \in 1..(n + 2) : w[i] = IF i <= n + 1 THEN b[i] ELSE z[i - (n + 1)]
  BY <1>1, <1>3, <1>4, <1>5
<1> HIDE DEF w, n
<1>7. w[1] = a[1] /\ w[n + 2] = z[1]
  BY <1>3, <1>5, <1>6 DEF n
<1>8. \A i \in 1..n : w[i + 1] = hs[i]
  BY <1>3, <1>5, <1>6 DEF n
<1>9. HeadOf(r) = w
  BY <1>2 DEF w, b
<1> QED
  BY <1>1, <1>6, <1>7, <1>8, <1>9 DEF n

\* The length of a request's head.
LEMMA HeadLen ==
  ASSUME NEW r \in Request
  PROVE  Len(HeadOf(r)) = Len(r.headers) + 2
<1>1. PICK id \in Nat, m \in Methods, hs \in Seq(Pieces) :
        r.id = id /\ r.method = m /\ r.headers = hs
  BY DEF Request
<1> QED
  BY <1>1, HeadIs

\* The body of a request without chunks ...
LEMMA PlainBodyIs ==
  ASSUME NEW r \in Request, NEW t \in Nat, ~r.chunked
  PROVE  /\ BodyOf(r, t) \in Seq(Pieces) /\ Len(BodyOf(r, t)) = r.body
<1>1. Piece("octet", 0) \in Pieces /\ r.body \in Nat
  BY KindsApart, PieceIs DEF BodyKinds, Request
<1> QED
  BY <1>1, CopiesIs DEF BodyOf

\* ... and with chunks.
LEMMA ChunkedBodyIs ==
  ASSUME NEW r \in Request, NEW t \in Nat, r.chunked
  PROVE  /\ BodyOf(r, t) \in Seq(Pieces)
         /\ Len(BodyOf(r, t)) = r.body + t + 2
         /\ \A i \in 1..r.body : BodyOf(r, t)[i].kind = "chunk"
         /\ BodyOf(r, t)[r.body + 1].kind = "last"
         /\ \A i \in 1..t : BodyOf(r, t)[r.body + 1 + i].kind = "content-type"
         /\ BodyOf(r, t)[r.body + t + 2].kind = "blank"
<1> DEFINE n == r.body
           p == Piece("chunk", 0)
           l == Piece("last", 0)
           o == Piece("content-type", 0)
           z == Piece("blank", 0)
           a == Copies(p, n)
           b == <<l>>
           c == Copies(o, t)
           d == <<z>>
<1>1. n \in Nat
  BY DEF Request
<1>2. /\ p \in Pieces /\ l \in Pieces /\ o \in Pieces /\ z \in Pieces
      /\ p.kind = "chunk" /\ l.kind = "last" /\ o.kind = "content-type" /\ z.kind = "blank"
  BY KindsApart, PieceIs DEF BodyKinds
<1> HIDE DEF n, p, l, o, z
<1>3. /\ a \in Seq(Pieces) /\ Len(a) = n /\ \A i \in 1..n : a[i] = p
      /\ c \in Seq(Pieces) /\ Len(c) = t /\ \A i \in 1..t : c[i] = o
  BY <1>1, <1>2, CopiesIs
<1>4. /\ b \in Seq(Pieces) /\ Len(b) = 1 /\ b[1] = l
      /\ d \in Seq(Pieces) /\ Len(d) = 1 /\ d[1] = z
  BY <1>2
<1> HIDE DEF a, b, c, d
<1> DEFINE ab == a \o b
           abc == ab \o c
           w == abc \o d
<1>5. /\ ab \in Seq(Pieces) /\ Len(ab) = n + 1
      /\ \A i \in 1..(n + 1) : ab[i] = IF i <= n THEN a[i] ELSE b[i - n]
  <2>1. /\ ab \in Seq(Pieces) /\ Len(ab) = Len(a) + Len(b)
        /\ \A i \in 1..(Len(a) + Len(b)) :
             ab[i] = IF i <= Len(a) THEN a[i] ELSE b[i - Len(a)]
    BY <1>3, <1>4, ConcatIs
  <2> HIDE DEF ab
  <2> QED
    BY <1>3, <1>4, <2>1
<1> HIDE DEF ab
<1>6. /\ abc \in Seq(Pieces) /\ Len(abc) = Len(ab) + Len(c)
      /\ \A i \in 1..(Len(ab) + Len(c)) :
           abc[i] = IF i <= Len(ab) THEN ab[i] ELSE c[i - Len(ab)]
  BY <1>3, <1>5, ConcatIs
<1> HIDE DEF abc
<1>7. /\ w \in Seq(Pieces) /\ Len(w) = Len(abc) + Len(d)
      /\ \A i \in 1..(Len(abc) + Len(d)) :
           w[i] = IF i <= Len(abc) THEN abc[i] ELSE d[i - Len(abc)]
  BY <1>4, <1>6, ConcatIs
<1> HIDE DEF w
<1>8. Len(abc) = n + 1 + t /\ Len(w) = n + t + 2
  BY <1>1, <1>3, <1>4, <1>5, <1>6, <1>7
<1>9. \A i \in 1..n : w[i] = p
  BY <1>1, <1>3, <1>5, <1>6, <1>7, <1>8
<1>10. w[n + 1] = l
  BY <1>1, <1>3, <1>4, <1>5, <1>6, <1>7, <1>8
<1>11. \A i \in 1..t : w[n + 1 + i] = o
  BY <1>1, <1>3, <1>4, <1>5, <1>6, <1>7, <1>8
<1>12. w[n + t + 2] = z
  BY <1>1, <1>4, <1>7, <1>8
<1>13. BodyOf(r, t) = w
  BY DEF BodyOf, w, abc, ab, a, b, c, d, p, l, o, z, n
<1> QED
  BY <1>2, <1>7, <1>8, <1>9, <1>10, <1>11, <1>12, <1>13 DEF n

\* An encoded request is its head and its body.
LEMMA EncodeIs ==
  ASSUME NEW r \in Request, NEW t \in Nat
  PROVE  /\ Encode(r, t) = HeadOf(r) \o BodyOf(r, t)
         /\ HeadOf(r) \in Seq(Pieces) /\ BodyOf(r, t) \in Seq(Pieces)
         /\ Encode(r, t) \in Seq(Pieces)
<1>1. HeadOf(r) \in Seq(Pieces)
  BY HeadIs DEF Request
<1>2. BodyOf(r, t) \in Seq(Pieces)
  BY PlainBodyIs, ChunkedBodyIs
<1>3. Encode(r, t) = HeadOf(r) \o BodyOf(r, t)
  BY DEF Encode, HeadOf, BodyOf
<1> QED
  BY <1>1, <1>2, <1>3, ConcatIs

\* The pieces of an encoded request.
LEMMA EncodeLen ==
  ASSUME NEW r \in Request, NEW t \in Nat, NEW x, x = Encode(r, t)
  PROVE  /\ x \in Seq(Pieces) /\ Len(r.headers) \in Nat /\ r.headers \in Seq(Pieces)
         /\ Len(x) = Len(r.headers) + 2 + Len(BodyOf(r, t))
         /\ Len(BodyOf(r, t)) \in Nat /\ Len(x) >= Len(r.headers) + 2
         /\ \A i \in 1..(Len(r.headers) + 2) : x[i] = HeadOf(r)[i]
         /\ \A i \in 1..Len(BodyOf(r, t)) : x[Len(r.headers) + 2 + i] = BodyOf(r, t)[i]
<1> DEFINE a == HeadOf(r)
           b == BodyOf(r, t)
           n == Len(r.headers)
<1>1. x = a \o b /\ a \in Seq(Pieces) /\ b \in Seq(Pieces)
  BY EncodeIs
<1>2. Len(a) = n + 2 /\ n \in Nat /\ r.headers \in Seq(Pieces)
  BY HeadIs DEF Request
<1> HIDE DEF a, b, n
<1>3. /\ x \in Seq(Pieces) /\ Len(x) = Len(a) + Len(b)
      /\ \A i \in 1..(Len(a) + Len(b)) : x[i] = IF i <= Len(a) THEN a[i] ELSE b[i - Len(a)]
  BY <1>1, ConcatIs
<1> DEFINE m == Len(b)
<1>4. m \in Nat
  BY <1>1
<1> HIDE DEF m
<1>5. \A i \in 1..(n + 2 + m) : x[i] = IF i <= n + 2 THEN a[i] ELSE b[i - (n + 2)]
  BY <1>2, <1>3 DEF m
<1>6. \A i \in 1..(n + 2) : x[i] = a[i]
  BY <1>2, <1>4, <1>5
<1>7. \A i \in 1..m : x[n + 2 + i] = b[i]
  BY <1>2, <1>4, <1>5
<1>8. Len(x) = n + 2 + m /\ Len(x) >= n + 2
  BY <1>2, <1>3, <1>4 DEF m
<1> QED
  BY <1>2, <1>3, <1>4, <1>6, <1>7, <1>8 DEF a, b, n, m

-----------------------------------------------------------------------------
(* The types of the connections, and the leaf cache.                       *)

PCs == {"connect", "hello", "leaf", "mint", "handshake", "h1", "h2", "read",
        "body", "trip", "emit", "write", "closed"}

Mirrors == {"unknown", "built", "failed"}

ConnRecord ==
  [pc : PCs, name : Hosts \union {NoHost}, h2 : BOOLEAN, leaf : Leaf \union {None},
   mirror : Mirrors, taken : Nat, req : Request, resp : Response]

Messages == {Message(r) : r \in Response}

Typed ==
  /\ conn \in [Conns -> ConnRecord]
  /\ in \in [Conns -> Seq(Pieces)] /\ sent \in [Conns -> Seq(Request)]
  /\ out \in [Conns -> Seq(Messages)]
  /\ read \in [Conns -> Nat] /\ \A c \in Conns : read[c] <= Len(out[c])
  /\ gone \subseteq eof /\ eof \subseteq Conns
  /\ cache \in [Hosts -> Leaf \union {None}] /\ minted \in Nat

\* The mutex is held by the connection that mints, for a name that has no leaf
\* yet; a connection has no leaf before it asked for one, and cached leaves are
\* for the name they are cached under.
Leaves ==
  /\ \A c \in Conns : mu = c <=> conn[c].pc = "mint"
  /\ \A n \in Hosts : cache[n] # None => cache[n].name = n
  /\ \A c \in Conns : conn[c].pc = "mint" =>
       conn[c].name \in Hosts /\ cache[conn[c].name] = None
  /\ \A c \in Conns : conn[c].pc \in {"connect", "hello", "leaf", "mint"} =>
       conn[c].leaf = None
  /\ OneLeafPerName

\* The invariant says what TypeOK says.
LEMMA TypedTypeOK == Typed /\ Leaves => TypeOK
<1> SUFFICES ASSUME Typed, Leaves PROVE TypeOK
  OBVIOUS
<1>1. ASSUME NEW c \in Conns
      PROVE  /\ conn[c].pc \in PCs /\ conn[c].name \in Hosts \union {NoHost}
             /\ conn[c].taken \in Nat /\ conn[c].leaf \in Leaf \union {None}
             /\ conn[c].mirror \in Mirrors
             /\ conn[c].req \in Request /\ conn[c].resp \in Response
  BY DEF Typed, ConnRecord
<1>2. \A c \in Conns : in[c] \in Seq(Pieces) /\ read[c] \in 0..Len(out[c])
  BY DEF Typed
<1>3. \A c \in Conns : mu = c <=> conn[c].pc = "mint"
  BY DEF Leaves
<1>4. gone \subseteq eof /\ eof \subseteq Conns
      /\ cache \in [Hosts -> Leaf \union {None}] /\ minted \in Nat
  BY DEF Typed
<1> QED
  BY <1>1, <1>2, <1>3, <1>4 DEF TypeOK, PCs, Mirrors

\* The values that connections start with and go back to.
LEMMA FreshIs ==
  /\ NoRequest \in Request /\ errorResponse \in Response /\ Fresh \in ConnRecord
  /\ \A k \in ConnRecord : Closed(k) \in ConnRecord
<1>1. NoRequest \in Request
  BY DEF NoRequest, Request, Methods
<1>2. errorResponse \in Response
  <2>1. Piece("content-type", 0) \in Pieces
    BY KindsApart, PieceIs
  <2>2. <<Piece("content-type", 0)>> \in Seq(Pieces)
    BY <2>1
  <2> QED
    BY <2>2 DEF errorResponse, Response
<1>3. Fresh \in ConnRecord
  BY <1>1, <1>2 DEF Fresh, ConnRecord, PCs, Mirrors
<1>4. \A k \in ConnRecord : Closed(k) \in ConnRecord
  BY <1>1, <1>2 DEF Closed, Fresh, ConnRecord, PCs, Mirrors
<1> QED
  BY <1>1, <1>2, <1>3, <1>4

\* Leaving the variables of the other components alone.
LEMMA ConnTyped ==
  ASSUME Typed, NEW c \in Conns, NEW k \in ConnRecord,
         conn' = [conn EXCEPT ![c] = k],
         UNCHANGED <<in, client, cache, minted, out, read>>
  PROVE  Typed'
<1>1. conn' \in [Conns -> ConnRecord]
  BY DEF Typed
<1> QED
  BY <1>1 DEF Typed, client

\* A connection that goes on, with the leaf it has or without one, or closes.
LEMMA LeavesStep ==
  ASSUME Typed, Leaves, NEW c \in Conns, NEW k \in ConnRecord,
         conn' = [conn EXCEPT ![c] = k], UNCHANGED ca,
         conn[c].pc # "mint", k.pc # "mint",
         k.pc \in {"connect", "hello", "leaf"} => k.leaf = None,
         k.leaf # None => k.leaf = conn[c].leaf /\ k.name = conn[c].name
  PROVE  Leaves'
<1>1. \A d \in Conns : conn'[d] = IF d = c THEN k ELSE conn[d]
  BY DEF Typed
<1>2. mu' = mu /\ cache' = cache
  BY DEF ca
<1>3. \A d \in Conns : mu' = d <=> conn'[d].pc = "mint"
  BY <1>1, <1>2 DEF Leaves
<1>4. \A d \in Conns : conn'[d].pc = "mint" =>
        conn'[d].name \in Hosts /\ cache'[conn'[d].name] = None
  BY <1>1, <1>2 DEF Leaves
<1>5. \A d \in Conns : conn'[d].pc \in {"connect", "hello", "leaf", "mint"} =>
        conn'[d].leaf = None
  BY <1>1 DEF Leaves
<1>6. OneLeafPerName'
  BY <1>1, <1>2 DEF Leaves, OneLeafPerName
<1> QED
  BY <1>2, <1>3, <1>4, <1>5, <1>6 DEF Leaves

\* A closed connection has no leaf.
LEMMA CloseStep ==
  ASSUME Typed, Leaves, NEW c \in Conns, conn[c].pc # "mint", Close(c),
         UNCHANGED <<in, client, ca, out, read>>
  PROVE  Typed' /\ Leaves'
<1>1. Closed(conn[c]) \in ConnRecord
  BY FreshIs DEF Typed
<1>2. Closed(conn[c]).pc = "closed" /\ Closed(conn[c]).leaf = None
  BY DEF Closed, Fresh
<1>3. conn' = [conn EXCEPT ![c] = Closed(conn[c])]
  BY DEF Close, Typed
<1> QED
  BY <1>1, <1>2, <1>3, ConnTyped, LeavesStep DEF ca

\* The handshake up to the certificate.
LEMMA ReadConnectTyped ==
  ASSUME Typed, Leaves, NEW c \in Conns, NEW n \in Hosts \union {NoHost},
         ReadConnect(c, <<n, 443>>)
  PROVE  Typed' /\ Leaves'
<1>1. CASE c \in gone
  BY <1>1, CloseStep DEF ReadConnect
<1>2. CASE c \notin gone
  <2> DEFINE k == [conn[c] EXCEPT !.pc = "hello", !.name = n]
  <2>1. conn[c] \in ConnRecord /\ conn[c].pc = "connect" /\ conn[c].leaf = None
    BY DEF Typed, Leaves, ReadConnect
  <2>2. k \in ConnRecord /\ k.pc = "hello" /\ k.leaf = None
    BY <2>1 DEF ConnRecord, PCs
  <2>3. conn' = [conn EXCEPT ![c] = k]
    BY <1>2 DEF ReadConnect, stripPort, Typed
  <2> HIDE DEF k
  <2>4. UNCHANGED <<in, client, ca, cache, minted, out, read>>
    BY DEF ReadConnect, ca
  <2> QED
    BY <2>1, <2>2, <2>3, <2>4, ConnTyped, LeavesStep
<1> QED
  BY <1>1, <1>2

\* The ClientHello: the name may change, but there is no leaf yet.
LEMMA PeekClientHelloTyped ==
  ASSUME Typed, Leaves, NEW c \in Conns, NEW n \in Hosts \union {NoHost},
         NEW h2 \in BOOLEAN, PeekClientHello(c, n, h2)
  PROVE  Typed' /\ Leaves'
<1> DEFINE k == [conn[c] EXCEPT !.pc = "leaf", !.h2 = h2,
                                !.name = IF n = NoHost THEN @ ELSE n]
<1>1. conn[c] \in ConnRecord /\ conn[c].pc = "hello" /\ conn[c].leaf = None
  BY DEF Typed, Leaves, PeekClientHello
<1>2. k \in ConnRecord /\ k.pc = "leaf" /\ k.leaf = None
  BY <1>1 DEF ConnRecord, PCs
<1>3. conn' = [conn EXCEPT ![c] = k]
  BY DEF PeekClientHello, Typed
<1> HIDE DEF k
<1>4. UNCHANGED <<in, client, ca, cache, minted, out, read>>
  BY DEF PeekClientHello, ca
<1> QED
  BY <1>1, <1>2, <1>3, <1>4, ConnTyped, LeavesStep

\* The ways a connection ends before it is served, or after it was by H2Conn.
LEMMA EndsTyped ==
  ASSUME Typed, Leaves, NEW c \in Conns, GiveUp(c) \/ ServeH2Returns(c)
  PROVE  Typed' /\ Leaves'
<1>1. conn[c].pc # "mint" /\ Close(c) /\ UNCHANGED <<in, client, ca, out, read>>
  BY DEF GiveUp, ServeH2Returns
<1> QED
  BY <1>1, CloseStep

\* LeafFor hands out the cached leaf, or takes the mutex to mint one.
LEMMA LeafForTyped ==
  ASSUME Typed, Leaves, NEW c \in Conns, LeafFor(c)
  PROVE  Typed' /\ Leaves'
<1> DEFINE n == conn[c].name
<1>1. /\ conn[c] \in ConnRecord /\ conn[c].pc = "leaf" /\ conn[c].leaf = None
      /\ n \in Hosts \union {NoHost}
  BY DEF Typed, Leaves, LeafFor, ConnRecord
<1>2. UNCHANGED <<in, client, cache, minted, out, read>>
  BY DEF LeafFor
<1>3. CASE n = NoHost
  BY <1>1, <1>2, <1>3, CloseStep DEF LeafFor, ca
<1>4. CASE n # NoHost /\ cache[n] # None
  <2> DEFINE k == [conn[c] EXCEPT !.pc = "handshake", !.leaf = cache[n]]
  <2>1. n \in Hosts /\ cache[n] \in Leaf \union {None} /\ cache[n].name = n
    BY <1>1, <1>4 DEF Typed, Leaves
  <2>2. k \in ConnRecord /\ k.pc = "handshake" /\ k.leaf = cache[n] /\ k.name = n
    BY <1>1, <2>1 DEF ConnRecord, PCs
  <2>3. conn' = [conn EXCEPT ![c] = k] /\ mu' = mu
    BY <1>4 DEF LeafFor, Typed
  <2> HIDE DEF k
  <2>4. Typed'
    BY <1>2, <2>2, <2>3, ConnTyped
  <2>5. \A d \in Conns : conn'[d] = IF d = c THEN k ELSE conn[d]
    BY <2>3 DEF Typed
  <2>6. \A d \in Conns : mu' = d <=> conn'[d].pc = "mint"
    BY <1>1, <2>2, <2>3, <2>5 DEF Leaves
  <2>7. \A d \in Conns : conn'[d].pc = "mint" =>
          conn'[d].name \in Hosts /\ cache'[conn'[d].name] = None
    BY <1>2, <2>2, <2>5 DEF Leaves
  <2>8. \A d \in Conns : conn'[d].pc \in {"connect", "hello", "leaf", "mint"} =>
          conn'[d].leaf = None
    BY <2>2, <2>5 DEF Leaves
  <2>9. OneLeafPerName'
    BY <1>2, <2>1, <2>2, <2>5 DEF Leaves, OneLeafPerName
  <2> QED
    BY <1>2, <2>4, <2>6, <2>7, <2>8, <2>9 DEF Leaves
<1>5. CASE n # NoHost /\ cache[n] = None
  <2> DEFINE k == [conn[c] EXCEPT !.pc = "mint"]
  <2>1. n \in Hosts /\ mu = None /\ mu' = c
    BY <1>1, <1>5 DEF LeafFor
  <2>2. k \in ConnRecord /\ k.pc = "mint" /\ k.leaf = None /\ k.name = n
    BY <1>1 DEF ConnRecord, PCs
  <2>3. conn' = [conn EXCEPT ![c] = k]
    BY <1>5 DEF LeafFor, Goto, Typed
  <2> HIDE DEF k
  <2>4. Typed'
    BY <1>2, <2>2, <2>3, ConnTyped
  <2>5. \A d \in Conns : conn'[d] = IF d = c THEN k ELSE conn[d]
    BY <2>3 DEF Typed
  <2>6. \A d \in Conns : mu' = d <=> conn'[d].pc = "mint"
    BY <2>1, <2>2, <2>5, TunnelAssumption DEF Leaves
  <2>7. \A d \in Conns : conn'[d].pc = "mint" =>
          conn'[d].name \in Hosts /\ cache'[conn'[d].name] = None
    BY <1>2, <1>5, <2>1, <2>2, <2>5 DEF Leaves
  <2>8. \A d \in Conns : conn'[d].pc \in {"connect", "hello", "leaf", "mint"} =>
          conn'[d].leaf = None
    BY <2>2, <2>5 DEF Leaves
  <2>9. OneLeafPerName'
    BY <1>2, <2>2, <2>5 DEF Leaves, OneLeafPerName
  <2> QED
    BY <1>2, <2>4, <2>6, <2>7, <2>8, <2>9 DEF Leaves
<1> QED
  BY <1>3, <1>4, <1>5

\* mint: nobody has a leaf of the name that is minted for, so the cache entry
\* that is written was handed out to nobody.
LEMMA MintTyped ==
  ASSUME Typed, Leaves, NEW c \in Conns, NEW ok \in BOOLEAN, Mint(c, ok)
  PROVE  Typed' /\ Leaves'
<1> DEFINE n == conn[c].name
           leaf == [name |-> n, serial |-> minted]
           k == IF ok THEN [conn[c] EXCEPT !.pc = "handshake", !.leaf = leaf]
                      ELSE Closed(conn[c])
<1>1. /\ conn[c] \in ConnRecord /\ conn[c].pc = "mint" /\ n \in Hosts
      /\ cache[n] = None /\ mu = c /\ mu' = None
  BY DEF Typed, Leaves, Mint
<1>2. UNCHANGED <<in, client, out, read>>
  BY DEF Mint
<1>3. leaf \in Leaf /\ leaf.name = n
  BY <1>1 DEF Leaf, Typed
<1>4. /\ conn' = [conn EXCEPT ![c] = k]
      /\ ok => cache' = [cache EXCEPT ![n] = leaf] /\ minted' = minted + 1
      /\ ~ok => UNCHANGED <<cache, minted>>
  BY DEF Mint, Close, Typed
<1>5. /\ k \in ConnRecord /\ k.pc \in {"handshake", "closed"}
      /\ ok => k.leaf = leaf /\ k.name = n
      /\ ~ok => k.leaf = None
  <2>1. CASE ok
    <3>1. k = [conn[c] EXCEPT !.pc = "handshake", !.leaf = leaf]
      BY <2>1
    <3> HIDE DEF k, leaf
    <3> QED
      BY <1>1, <1>3, <2>1, <3>1 DEF ConnRecord, PCs
  <2>2. CASE ~ok
    <3>1. k = Closed(conn[c])
      BY <2>2
    <3>2. k \in ConnRecord
      BY <1>1, <3>1, FreshIs
    <3>3. k.pc = "closed" /\ k.leaf = None
      BY <3>1 DEF Closed, Fresh
    <3> QED
      BY <2>2, <3>2, <3>3
  <2> QED
    BY <2>1, <2>2
<1> HIDE DEF k, leaf
<1>6. \A d \in Conns : conn'[d] = IF d = c THEN k ELSE conn[d]
  BY <1>4 DEF Typed
<1>7. \A m \in Hosts : cache'[m] = IF ok /\ m = n THEN leaf ELSE cache[m]
  BY <1>4 DEF Typed
<1>8. Typed'
  <2>1. conn' \in [Conns -> ConnRecord]
    BY <1>4, <1>5 DEF Typed
  <2>2. minted' \in Nat
    BY <1>4 DEF Typed
  <2>3. cache' \in [Hosts -> Leaf \union {None}]
    <3>1. ok => cache' \in [Hosts -> Leaf \union {None}]
      BY <1>3, <1>4 DEF Typed
    <3>2. ~ok => cache' \in [Hosts -> Leaf \union {None}]
      BY <1>4 DEF Typed
    <3> QED
      BY <3>1, <3>2
  <2> QED
    BY <1>2, <2>1, <2>2, <2>3 DEF Typed, client
<1>9. \A d \in Conns : mu' = d <=> conn'[d].pc = "mint"
  BY <1>1, <1>5, <1>6, TunnelAssumption DEF Leaves
<1>10. \A d \in Conns : conn'[d].pc = "mint" =>
         conn'[d].name \in Hosts /\ cache'[conn'[d].name] = None
  BY <1>1, <1>5, <1>6 DEF Leaves
<1>11. \A d \in Conns : conn'[d].pc \in {"connect", "hello", "leaf", "mint"} =>
         conn'[d].leaf = None
  BY <1>5, <1>6 DEF Leaves
<1>12. \A m \in Hosts : cache'[m] # None => cache'[m].name = m
  BY <1>3, <1>7 DEF Leaves
<1>13. OneLeafPerName'
  <2> SUFFICES ASSUME NEW d \in Conns, conn'[d].leaf # None
               PROVE  /\ conn'[d].leaf.name = conn'[d].name
                      /\ cache'[conn'[d].name] = conn'[d].leaf
    BY DEF OneLeafPerName
  <2>1. CASE d = c
    BY <1>1, <1>3, <1>5, <1>6, <1>7, <2>1
  <2>2. CASE d # c
    <3>1. /\ conn'[d] = conn[d] /\ conn[d].leaf.name = conn[d].name
          /\ cache[conn[d].name] = conn[d].leaf
      BY <1>6, <2>2 DEF Leaves, OneLeafPerName
    <3>2. conn[d].name \in Hosts
      BY <3>1 DEF Typed, ConnRecord, Leaf
    <3>3. conn[d].name # n
      BY <1>1, <3>1
    <3> QED
      BY <1>7, <3>1, <3>2, <3>3
  <2> QED
    BY <2>1, <2>2
<1> QED
  BY <1>8, <1>9, <1>10, <1>11, <1>12, <1>13 DEF Leaves

\* The steps of a connection that serves, and the end of its handshake, keep
\* its leaf and the name it is for.
LEMMA ServingStep ==
  ASSUME Typed, Leaves, NEW c \in Conns, NEW k \in ConnRecord,
         conn' = [conn EXCEPT ![c] = k], UNCHANGED ca,
         conn[c].pc # "mint", k.pc \notin {"connect", "hello", "leaf", "mint"},
         k.leaf = conn[c].leaf, k.name = conn[c].name
  PROVE  Leaves'
  BY LeavesStep

\* An origin's answer as fhttp hands it on is a response, and without a body when
\* it answers HEAD.
LEMMA AnswerIs ==
  ASSUME NEW m, NEW r \in Response
  PROVE  /\ Answer(m, r) \in Response
         /\ m = "HEAD" /\ Answer(m, r).ok => Answer(m, r).body = 0
<1>1. CASE r.ok /\ m = "HEAD"
  <2>1. PICK a : a = [r EXCEPT !.body = 0]
    OBVIOUS
  <2>2. a \in Response /\ a.body = 0
    BY <2>1 DEF Response
  <2>3. Answer(m, r) = a
    BY <1>1, <2>1 DEF Answer
  <2> QED
    BY <2>2, <2>3
<1>2. CASE ~(r.ok /\ m = "HEAD")
  <2>1. Answer(m, r) = r
    BY <1>2 DEF Answer
  <2> QED
    BY <1>2, <2>1
<1> QED
  BY <1>1, <1>2

\* The handshake and serveH1 without the stream.
LEMMA ServeTyped ==
  ASSUME Typed, Leaves, NEW c \in Conns,
         \/ Handshake(c) \/ Emit(c)
         \/ \E ok \in BOOLEAN : ForConn(c, ok)
         \/ \E r \in Origin \union {errorResponse}, reached \in BOOLEAN :
              RoundTrip(c, r, reached)
  PROVE  Typed' /\ Leaves'
<1>1. conn[c] \in ConnRecord
  BY DEF Typed
<1>2. ASSUME Handshake(c) \/ Emit(c) PROVE Typed' /\ Leaves'
  <2>1. PICK l \in {"h1", "h2", "write"} : conn' = [conn EXCEPT ![c].pc = l]
    BY <1>2 DEF Handshake, Emit, Goto
  <2> DEFINE k == [conn[c] EXCEPT !.pc = l]
  <2>2. k \in ConnRecord /\ k.pc = l /\ k.leaf = conn[c].leaf /\ k.name = conn[c].name
    BY <1>1 DEF ConnRecord, PCs
  <2>3. conn' = [conn EXCEPT ![c] = k]
    BY <2>1 DEF Typed
  <2> HIDE DEF k
  <2>4. UNCHANGED <<in, client, ca, cache, minted, out, read>> /\ conn[c].pc # "mint"
    BY <1>2 DEF Handshake, Emit, ca
  <2> QED
    BY <2>2, <2>3, <2>4, ConnTyped, ServingStep
<1>3. ASSUME NEW ok \in BOOLEAN, ForConn(c, ok) PROVE Typed' /\ Leaves'
  <2>1. conn[c].pc = "h1" /\ UNCHANGED <<in, client, ca, cache, minted, out, read>>
    BY <1>3 DEF ForConn, ca
  <2>2. CASE ok
    <3> DEFINE k == [conn[c] EXCEPT !.pc = "read", !.mirror = "built"]
    <3>1. k \in ConnRecord /\ k.pc = "read" /\ k.leaf = conn[c].leaf /\ k.name = conn[c].name
      BY <1>1 DEF ConnRecord, PCs, Mirrors
    <3>2. conn' = [conn EXCEPT ![c] = k]
      BY <1>3, <2>2 DEF ForConn, Typed
    <3> HIDE DEF k
    <3> QED
      BY <2>1, <3>1, <3>2, ConnTyped, ServingStep
  <2>3. CASE ~ok
    <3> DEFINE d == [conn[c] EXCEPT !.mirror = "failed"]
               k == Closed(d)
    <3>1. d \in ConnRecord
      BY <1>1 DEF ConnRecord, Mirrors
    <3>2. conn' = [conn EXCEPT ![c] = k]
      BY <1>3, <2>3 DEF ForConn, Typed
    <3> HIDE DEF d
    <3>3. k \in ConnRecord
      BY <3>1, FreshIs
    <3>4. k.pc = "closed" /\ k.leaf = None
      BY DEF Closed, Fresh
    <3> HIDE DEF k
    <3> QED
      BY <2>1, <3>2, <3>3, <3>4, ConnTyped, LeavesStep
  <2> QED
    BY <2>2, <2>3
<1>4. ASSUME NEW r \in Origin \union {errorResponse}, NEW reached \in BOOLEAN,
             RoundTrip(c, r, reached)
      PROVE  Typed' /\ Leaves'
  <2>1. PICK a : a = Answer(conn[c].req.method, r)
    OBVIOUS
  <2> DEFINE k == [conn[c] EXCEPT !.pc = "emit", !.resp = a]
  <2>2. a \in Response
    <3>1. r \in Response
      BY PeersAssumption, FreshIs
    <3> QED
      BY <2>1, <3>1, AnswerIs
  <2>3. k \in ConnRecord /\ k.pc = "emit" /\ k.leaf = conn[c].leaf /\ k.name = conn[c].name
    BY <1>1, <2>2 DEF ConnRecord, PCs
  <2>4. conn' = [conn EXCEPT ![c] = k]
    BY <1>4, <2>1 DEF RoundTrip, Typed
  <2> HIDE DEF k
  <2>5. UNCHANGED <<in, client, ca, cache, minted, out, read>> /\ conn[c].pc # "mint"
    BY <1>4 DEF RoundTrip, ca
  <2> QED
    BY <2>3, <2>4, <2>5, ConnTyped, ServingStep
<1> QED
  BY <1>2, <1>3, <1>4

\* The response is written, or the client has vanished.
LEMMA WriteTyped ==
  ASSUME Typed, Leaves, NEW c \in Conns, WriteH1Response(c)
  PROVE  Typed' /\ Leaves'
<1>1. CASE c \in gone /\ Close(c) /\ UNCHANGED out
  BY <1>1, CloseStep DEF WriteH1Response
<1>2. CASE /\ conn' = [conn EXCEPT ![c].pc = "read", ![c].req = NoRequest,
                                   ![c].resp = errorResponse]
           /\ out' = [out EXCEPT ![c] = Append(@, Message(conn[c].resp))]
  <2> DEFINE k == [conn[c] EXCEPT !.pc = "read", !.req = NoRequest,
                                  !.resp = errorResponse]
             m == Message(conn[c].resp)
  <2>1. conn[c] \in ConnRecord /\ conn[c].pc = "write"
    BY DEF Typed, WriteH1Response
  <2>2. k \in ConnRecord /\ k.pc = "read" /\ k.leaf = conn[c].leaf /\ k.name = conn[c].name
    BY <2>1, FreshIs DEF ConnRecord, PCs
  <2>3. conn' = [conn EXCEPT ![c] = k]
    BY <1>2 DEF Typed
  <2>4. m \in Messages
    BY <2>1 DEF Messages, ConnRecord
  <2> HIDE DEF k, m
  <2>5. UNCHANGED <<in, client, ca, read>>
    BY DEF WriteH1Response
  <2>6. Leaves'
    BY <2>1, <2>2, <2>3, <2>5, ServingStep
  <2>7. conn' \in [Conns -> ConnRecord]
    BY <2>2, <2>3 DEF Typed
  <2>8. out' = [out EXCEPT ![c] = Append(out[c], m)]
    BY <1>2 DEF Typed, m
  <2>9. /\ out' \in [Conns -> Seq(Messages)]
        /\ \A d \in Conns : read[d] <= Len(out'[d])
    <3>1. out[c] \in Seq(Messages) /\ Len(out[c]) \in Nat
      BY DEF Typed
    <3>2. Append(out[c], m) \in Seq(Messages) /\ Len(Append(out[c], m)) = Len(out[c]) + 1
      BY <2>4, <3>1
    <3>3. \A d \in Conns : out'[d] = IF d = c THEN Append(out[c], m) ELSE out[d]
      BY <2>8 DEF Typed
    <3>4. out' \in [Conns -> Seq(Messages)]
      BY <2>8, <3>2 DEF Typed
    <3>5. read[c] \in Nat /\ read[c] <= Len(out[c])
      BY DEF Typed
    <3>6. read[c] <= Len(out'[c])
      <4>1. Len(out'[c]) = Len(out[c]) + 1
        BY <3>2, <3>3
      <4> QED
        BY <3>1, <3>5, <4>1
    <3> QED
      BY <3>3, <3>4, <3>6 DEF Typed
  <2> QED
    BY <2>5, <2>6, <2>7, <2>9 DEF Typed, client, ca
<1> QED
  BY <1>1, <1>2 DEF WriteH1Response

\* What the connection takes off the stream.
LEMMA StreamStep ==
  ASSUME Typed, Leaves, NEW c \in Conns, NEW k \in ConnRecord, NEW q \in Seq(Pieces),
         conn' = [conn EXCEPT ![c] = k], in' = [in EXCEPT ![c] = q],
         UNCHANGED <<client, ca, out, read>>,
         conn[c].pc # "mint", k.pc \notin {"connect", "hello", "leaf", "mint"},
         k.leaf = conn[c].leaf, k.name = conn[c].name
  PROVE  Typed' /\ Leaves'
<1>1. conn' \in [Conns -> ConnRecord] /\ in' \in [Conns -> Seq(Pieces)]
  BY DEF Typed
<1> QED
  BY <1>1, ServingStep DEF Typed, client, ca

\* readHeaders takes a head of pieces.
LEMMA HeadTaken ==
  ASSUME NEW q \in Seq(Pieces), NEW e, NEW h, h = readHeaders(q, e),
         h.st = "ok"
  PROVE  /\ q[1].v \in Nat /\ q[1].kind \in Methods
         /\ SubSeq(q, 2, h.end - 1) \in Seq(Pieces)
         /\ Len(SubSeq(q, 2, h.end - 1)) = h.end - 2
         /\ \A i \in 1..(h.end - 2) : SubSeq(q, 2, h.end - 1)[i] = q[i + 1]
         /\ SubSeq(q, h.end + 1, Len(q)) \in Seq(Pieces)
<1>1. h.end \in 2..Len(q) /\ Len(q) \in Nat /\ q[1].kind \in Methods
  BY ReadHeadersIs
<1>2. \A i \in 1..Len(q) : q[i] \in Pieces
  BY SeqIs
<1>3. q[1].v \in Nat
  BY <1>1, <1>2 DEF Pieces
<1> DEFINE n == h.end
<1>4. n \in 2..Len(q)
  BY <1>1
<1> HIDE DEF n
<1>5. /\ SubSeq(q, 2, n - 1) \in Seq(Pieces)
      /\ Len(SubSeq(q, 2, n - 1)) = n - 2
      /\ \A i \in 1..(n - 2) : SubSeq(q, 2, n - 1)[i] = q[i + 1]
  BY <1>1, <1>4
<1>6. SubSeq(q, n + 1, Len(q)) \in Seq(Pieces)
  BY <1>1, <1>4
<1> QED
  BY <1>1, <1>3, <1>5, <1>6 DEF n

\* A head or a body is taken, with its results named.
HeadRead(c, h, hs, k, r) ==
  /\ h = readHeaders(in[c], c \in eof) /\ h.st = "ok"
  /\ hs = SubSeq(in[c], 2, h.end - 1)
  /\ r = [id |-> in[c][1].v, method |-> in[c][1].kind, headers |-> hs, body |-> 0,
          chunked |-> hasChunked(hs)]
  /\ k = [conn[c] EXCEPT !.pc = "body", !.req = r]
  /\ r \in Request /\ k \in ConnRecord
  /\ conn' = [conn EXCEPT ![c] = k]
  /\ in' = [in EXCEPT ![c] = SubSeq(in[c], h.end + 1, Len(in[c]))]

BodyRead(c, b, k, r) ==
  /\ b = readBody(in[c], conn[c].req.headers, c \in eof) /\ b.st = "ok"
  /\ b.end \in 0..Len(in[c]) /\ b.body \in Nat
  /\ r = [conn[c].req EXCEPT !.body = b.body]
  /\ k = [conn[c] EXCEPT !.pc = "trip", !.taken = @ + 1, !.req = r]
  /\ r \in Request /\ k \in ConnRecord
  /\ conn' = [conn EXCEPT ![c] = k]
  /\ in' = [in EXCEPT ![c] = SubSeq(in[c], b.end + 1, Len(in[c]))]

\* ReadHead takes a head, or the connection closes.
LEMMA ReadHeadIs ==
  ASSUME Typed, NEW c \in Conns, ReadHead(c)
  PROVE  /\ conn[c].pc = "read" /\ UNCHANGED <<client, ca, log, origin, out, read>>
         /\ in[c] \in Seq(Pieces)
         /\ \/ Close(c) /\ UNCHANGED in
            \/ \E h, hs, k, r : HeadRead(c, h, hs, k, r)
<1>1. PICK h : h = readHeaders(in[c], c \in eof)
  OBVIOUS
<1>2. in[c] \in Seq(Pieces) /\ conn[c] \in ConnRecord
  BY DEF Typed
<1>3. conn[c].pc = "read" /\ UNCHANGED <<client, ca, log, origin, out, read>>
  BY DEF ReadHead
<1>4. CASE h.st # "ok"
  BY <1>1, <1>2, <1>3, <1>4 DEF ReadHead
<1>5. CASE h.st = "ok"
  <2>1. PICK hs : hs = SubSeq(in[c], 2, h.end - 1)
    OBVIOUS
  <2>2. in[c][1].v \in Nat /\ in[c][1].kind \in Methods /\ hs \in Seq(Pieces)
    BY <1>1, <1>2, <1>5, <2>1, HeadTaken
  <2>3. hasChunked(hs) \in BOOLEAN
    BY DEF hasChunked
  <2>4. PICK r : r = [id |-> in[c][1].v, method |-> in[c][1].kind, headers |-> hs,
                      body |-> 0, chunked |-> hasChunked(hs)]
    OBVIOUS
  <2>5. r \in Request
    BY <2>2, <2>3, <2>4 DEF Request
  <2>6. PICK k : k = [conn[c] EXCEPT !.pc = "body", !.req = r]
    OBVIOUS
  <2>7. k \in ConnRecord
    BY <1>2, <2>5, <2>6 DEF ConnRecord, PCs
  <2>8. /\ conn' = [conn EXCEPT ![c].pc = "body", ![c].req = r]
        /\ in' = [in EXCEPT ![c] = SubSeq(in[c], h.end + 1, Len(in[c]))]
    BY <1>1, <1>5, <2>1, <2>4 DEF ReadHead, Typed
  <2>9. conn' = [conn EXCEPT ![c] = k]
    BY <2>6, <2>8 DEF Typed
  <2>10. HeadRead(c, h, hs, k, r)
    BY <1>1, <1>5, <2>1, <2>4, <2>5, <2>6, <2>7, <2>8, <2>9 DEF HeadRead
  <2> QED
    BY <1>2, <1>3, <2>10
<1> QED
  BY <1>4, <1>5

\* ReadBody takes a body, or the connection closes.
LEMMA ReadBodyStep ==
  ASSUME Typed, NEW c \in Conns, ReadBody(c)
  PROVE  /\ conn[c].pc = "body" /\ UNCHANGED <<client, ca, log, origin, out, read>>
         /\ in[c] \in Seq(Pieces) /\ conn[c].req.headers \in Seq(Pieces)
         /\ \/ Close(c) /\ UNCHANGED in
            \/ \E b, k, r : BodyRead(c, b, k, r)
<1>1. PICK b : b = readBody(in[c], conn[c].req.headers, c \in eof)
  OBVIOUS
<1>2. /\ in[c] \in Seq(Pieces) /\ conn[c] \in ConnRecord /\ conn[c].req \in Request
      /\ conn[c].req.headers \in Seq(Pieces) /\ conn[c].taken \in Nat
  BY DEF Typed, ConnRecord, Request
<1>3. conn[c].pc = "body" /\ UNCHANGED <<client, ca, log, origin, out, read>>
  BY DEF ReadBody
<1>4. CASE b.st # "ok"
  BY <1>1, <1>2, <1>3, <1>4 DEF ReadBody
<1>5. CASE b.st = "ok"
  <2>1. b.end \in 0..Len(in[c]) /\ b.body \in Nat
    BY <1>1, <1>2, <1>5, ReadBodyIs
  <2>2. PICK r : r = [conn[c].req EXCEPT !.body = b.body]
    OBVIOUS
  <2>3. r \in Request
    BY <1>2, <2>1, <2>2 DEF Request
  <2>4. PICK k : k = [conn[c] EXCEPT !.pc = "trip", !.taken = @ + 1, !.req = r]
    OBVIOUS
  <2>5. k \in ConnRecord
    <3>1. conn[c].taken + 1 \in Nat
      BY <1>2
    <3>2. k = [conn[c] EXCEPT !.pc = "trip", !.taken = conn[c].taken + 1, !.req = r]
      BY <2>4
    <3> QED
      BY <1>2, <2>3, <3>1, <3>2 DEF ConnRecord, PCs
  <2>6. /\ conn' = [conn EXCEPT ![c].pc = "trip", ![c].taken = @ + 1, ![c].req.body = b.body]
        /\ in' = [in EXCEPT ![c] = SubSeq(in[c], b.end + 1, Len(in[c]))]
    BY <1>1, <1>5 DEF ReadBody, Typed
  <2>7. conn' = [conn EXCEPT ![c] = k]
    BY <1>2, <2>2, <2>4, <2>6 DEF Typed, ConnRecord, Request
  <2>8. BodyRead(c, b, k, r)
    BY <1>1, <1>5, <2>1, <2>2, <2>3, <2>4, <2>5, <2>6, <2>7 DEF BodyRead
  <2> QED
    BY <1>2, <1>3, <2>8
<1> QED
  BY <1>4, <1>5

\* Reading keeps the types and the leaves.
LEMMA ReadTyped ==
  ASSUME Typed, Leaves, NEW c \in Conns, ReadHead(c) \/ ReadBody(c)
  PROVE  Typed' /\ Leaves'
<1>1. CASE Close(c) /\ UNCHANGED in
  BY <1>1, CloseStep DEF ReadHead, ReadBody
<1>2. CASE ~(Close(c) /\ UNCHANGED in)
  <2>1. conn[c] \in ConnRecord
    BY DEF Typed
  <2>2. PICK k \in ConnRecord, q \in Seq(Pieces) :
          /\ conn' = [conn EXCEPT ![c] = k] /\ in' = [in EXCEPT ![c] = q]
          /\ UNCHANGED <<client, ca, out, read>> /\ conn[c].pc # "mint"
          /\ k.pc \in {"body", "trip"} /\ k.leaf = conn[c].leaf /\ k.name = conn[c].name
    <3>1. CASE ReadHead(c)
      <4>1. PICK h, hs, k, r : HeadRead(c, h, hs, k, r)
        BY <1>2, <3>1, ReadHeadIs
      <4>2. /\ h = readHeaders(in[c], c \in eof) /\ h.st = "ok" /\ k \in ConnRecord
            /\ k = [conn[c] EXCEPT !.pc = "body", !.req = r]
            /\ conn' = [conn EXCEPT ![c] = k]
            /\ in' = [in EXCEPT ![c] = SubSeq(in[c], h.end + 1, Len(in[c]))]
        BY <4>1 DEF HeadRead
      <4>3. in[c] \in Seq(Pieces) /\ SubSeq(in[c], h.end + 1, Len(in[c])) \in Seq(Pieces)
        BY <3>1, <4>2, ReadHeadIs, HeadTaken
      <4>4. k.pc = "body" /\ k.leaf = conn[c].leaf /\ k.name = conn[c].name
        BY <2>1, <4>2 DEF ConnRecord
      <4>5. UNCHANGED <<client, ca, out, read>> /\ conn[c].pc # "mint"
        BY <3>1 DEF ReadHead
      <4> QED
        BY <4>2, <4>3, <4>4, <4>5
    <3>2. CASE ReadBody(c)
      <4>1. PICK b, k, r : BodyRead(c, b, k, r)
        BY <1>2, <3>2, ReadBodyStep
      <4>2. /\ k \in ConnRecord /\ b.end \in 0..Len(in[c])
            /\ k = [conn[c] EXCEPT !.pc = "trip", !.taken = @ + 1, !.req = r]
            /\ conn' = [conn EXCEPT ![c] = k]
            /\ in' = [in EXCEPT ![c] = SubSeq(in[c], b.end + 1, Len(in[c]))]
        BY <4>1 DEF BodyRead
      <4>3. in[c] \in Seq(Pieces) /\ SubSeq(in[c], b.end + 1, Len(in[c])) \in Seq(Pieces)
        BY <3>2, <4>2, ReadBodyStep, DropIs
      <4>4. k.pc = "trip" /\ k.leaf = conn[c].leaf /\ k.name = conn[c].name
        BY <2>1, <4>2 DEF ConnRecord
      <4>5. UNCHANGED <<client, ca, out, read>> /\ conn[c].pc # "mint"
        BY <3>2 DEF ReadBody
      <4> QED
        BY <4>2, <4>3, <4>4, <4>5
    <3> QED
      BY <3>1, <3>2
  <2> QED
    BY <2>2, StreamStep
<1> QED
  BY <1>1, <1>2

\* The request the client numbers.
LEMMA NumberedIs ==
  ASSUME Typed, NEW c \in Conns, NEW s \in Shapes
  PROVE  /\ Numbered(s, c) \in Request /\ Framed(Numbered(s, c))
         /\ Numbered(s, c).id = Len(sent[c]) + 1
         /\ Numbered(s, c).headers = s.req.headers
         /\ s.trailers \in Nat
<1>1. s.req \in Request /\ Framed(s.req) /\ s.trailers \in Nat
  BY PeersAssumption
<1>2. Len(sent[c]) \in Nat
  BY DEF Typed
<1>3. Numbered(s, c) \in Request /\ Numbered(s, c).id = Len(sent[c]) + 1
  BY <1>1, <1>2 DEF Numbered, Request
<1>4. /\ Numbered(s, c).headers = s.req.headers /\ Numbered(s, c).body = s.req.body
      /\ Numbered(s, c).chunked = s.req.chunked
  BY <1>1 DEF Numbered, Request
<1>5. Framed(Numbered(s, c))
  BY <1>1, <1>4 DEF Framed
<1> QED
  BY <1>1, <1>3, <1>4, <1>5

\* A request that is cut short stops before its end, and not before its head is
\* complete unless it is all head.
LEMMA CutIs ==
  ASSUME Typed, NEW c \in Conns, NEW s \in Shapes, NEW k \in 1..MaxCut,
         SendCut(c, s, k), NEW x, x = Encode(Numbered(s, c), s.trailers)
  PROVE  x \in Seq(Pieces) /\ Len(x) \in Nat /\ k \in 1..(Len(x) - 1)
<1> DEFINE r == Numbered(s, c)
<1>1. r \in Request /\ s.trailers \in Nat /\ r.headers = s.req.headers
  BY NumberedIs
<1>2. x \in Seq(Pieces) /\ Len(x) \in Nat
  BY <1>1, EncodeIs
<1>3. Len(x) >= Len(r.headers) + 2 /\ Len(r.headers) \in Nat
  BY <1>1, EncodeLen
<1>4. k \in {Len(s.req.headers) + 2, Len(x) - 1} \ {Len(x)}
  BY DEF SendCut
<1>5. k \in Nat /\ k >= 1
  BY TunnelAssumption
<1> QED
  BY <1>1, <1>2, <1>3, <1>4, <1>5

\* The client leaves connections and leaves alone.
LEMMA ClientLeaves ==
  ASSUME Leaves, UNCHANGED <<conn, ca>>
  PROVE  Leaves'
  BY DEF Leaves, OneLeafPerName, ca

\* The client only changes its own side of a connection.
LEMMA ClientTyped ==
  ASSUME Typed, Leaves, NEW c \in Conns,
         \/ EndStream(c) \/ ClientRead(c)
         \/ \E s \in Shapes : Send(c, s) \/ \E k \in 1..MaxCut : SendCut(c, s, k)
         \/ \E lost \in BOOLEAN : Vanish(c, lost)
  PROVE  Typed' /\ Leaves'
<1>1. UNCHANGED <<conn, ca>>
  BY DEF EndStream, ClientRead, Send, SendCut, Vanish
<1>2. Leaves'
  BY <1>1, ClientLeaves
<1>3. ASSUME EndStream(c) PROVE Typed'
  BY <1>3 DEF EndStream, Typed, ca
<1>4. ASSUME ClientRead(c) PROVE Typed'
  <2>1. read[c] \in Nat /\ Len(out[c]) \in Nat /\ read[c] < Len(out[c])
    BY <1>4 DEF ClientRead, Typed
  <2>2. read' = [read EXCEPT ![c] = read[c] + 1]
    BY <1>4 DEF ClientRead
  <2>3. read' \in [Conns -> Nat] /\ \A d \in Conns : read'[d] <= Len(out[d])
    BY <2>1, <2>2 DEF Typed
  <2> QED
    BY <1>4, <2>3 DEF ClientRead, Typed, client, ca
<1>5. ASSUME NEW s \in Shapes, Send(c, s) PROVE Typed'
  <2> DEFINE r == Numbered(s, c)
             x == Encode(r, s.trailers)
  <2>1. r \in Request /\ s.trailers \in Nat
    BY NumberedIs
  <2>2. x \in Seq(Pieces)
    BY <2>1, EncodeIs
  <2>3. sent' = [sent EXCEPT ![c] = Append(@, r)] /\ in' = [in EXCEPT ![c] = @ \o x]
    BY <1>5 DEF Send
  <2> HIDE DEF r, x
  <2>4. sent' \in [Conns -> Seq(Request)]
    BY <2>1, <2>3 DEF Typed
  <2>5. in[c] \o x \in Seq(Pieces)
    BY <2>2, ConcatIs DEF Typed
  <2>6. in' \in [Conns -> Seq(Pieces)]
    BY <2>3, <2>5 DEF Typed
  <2> QED
    BY <1>5, <2>4, <2>6 DEF Send, Typed, ca
<1>6. ASSUME NEW s \in Shapes, NEW k \in 1..MaxCut, SendCut(c, s, k) PROVE Typed'
  <2> DEFINE r == Numbered(s, c)
             x == Encode(r, s.trailers)
             y == SubSeq(x, 1, k)
  <2>1. r \in Request /\ s.trailers \in Nat
    BY NumberedIs
  <2>2. x \in Seq(Pieces) /\ Len(x) \in Nat
    BY <2>1, EncodeIs
  <2>3. /\ sent' = [sent EXCEPT ![c] = Append(@, r)] \/ sent' = sent
        /\ in' = [in EXCEPT ![c] = @ \o y] /\ eof' = eof \union {c}
    BY <1>6 DEF SendCut
  <2>4. k \in 1..(Len(x) - 1)
    BY <1>6, CutIs
  <2> HIDE DEF r, x
  <2>5. sent' \in [Conns -> Seq(Request)]
    <3>1. Append(sent[c], r) \in Seq(Request)
      BY <2>1 DEF Typed
    <3>2. sent' = [sent EXCEPT ![c] = Append(sent[c], r)] \/ sent' = sent
      BY <2>3
    <3> QED
      BY <3>1, <3>2 DEF Typed
  <2>6. y \in Seq(Pieces)
    BY <2>2, <2>4
  <2> HIDE DEF y
  <2>7. in[c] \o y \in Seq(Pieces)
    BY <2>6, ConcatIs DEF Typed
  <2>8. in' \in [Conns -> Seq(Pieces)]
    BY <2>3, <2>7 DEF Typed
  <2> QED
    BY <1>6, <2>3, <2>5, <2>8 DEF SendCut, Typed, ca
<1>7. ASSUME NEW lost \in BOOLEAN, Vanish(c, lost) PROVE Typed'
  <2>1. in' \in [Conns -> Seq(Pieces)]
    BY <1>7 DEF Vanish, Typed
  <2>2. gone' \subseteq eof' /\ eof' \subseteq Conns
    BY <1>7 DEF Vanish, Typed
  <2> QED
    BY <1>7, <2>1, <2>2 DEF Vanish, Typed, ca
<1> QED
  BY <1>2, <1>3, <1>4, <1>5, <1>6, <1>7

\* Every step keeps the types and the leaves.
LEMMA TypedNext == Typed /\ Leaves /\ [Next]_vars => Typed' /\ Leaves'
<1> SUFFICES ASSUME Typed, Leaves, [Next]_vars PROVE Typed' /\ Leaves'
  OBVIOUS
<1>1. ASSUME UNCHANGED vars PROVE Typed' /\ Leaves'
  BY <1>1 DEF vars, client, ca, Typed, Leaves, OneLeafPerName
<1>2. ASSUME NEW c \in Conns, Serve(c) PROVE Typed' /\ Leaves'
  BY <1>2, LeafForTyped, ReadTyped, ServeTyped, WriteTyped, EndsTyped, MintTyped DEF Serve
<1>3. ASSUME NEW c \in Conns, Client(c) PROVE Typed' /\ Leaves'
  BY <1>3, ReadConnectTyped, PeekClientHelloTyped, ServeTyped, EndsTyped, ClientTyped
     DEF Client
<1> QED
  BY <1>1, <1>2, <1>3 DEF Next, Over

\* ... from the start.
LEMMA TypedInit == Init => Typed /\ Leaves
<1> SUFFICES ASSUME Init PROVE Typed /\ Leaves
  OBVIOUS
<1>1. conn = [c \in Conns |-> Fresh] /\ Fresh \in ConnRecord
  BY FreshIs DEF Init
<1>2. conn \in [Conns -> ConnRecord]
  BY <1>1
<1>3. /\ in \in [Conns -> Seq(Pieces)] /\ sent \in [Conns -> Seq(Request)]
      /\ out \in [Conns -> Seq(Messages)] /\ read \in [Conns -> Nat]
      /\ \A c \in Conns : read[c] <= Len(out[c])
  BY DEF Init
<1>4. Typed
  BY <1>2, <1>3 DEF Init, Typed
<1>5. \A c \in Conns : conn[c].pc = "connect" /\ conn[c].leaf = None
  BY <1>1 DEF Fresh
<1>6. Leaves
  BY <1>5, TunnelAssumption DEF Init, Leaves, OneLeafPerName
<1> QED
  BY <1>4, <1>6

\* Both hold in every reachable state.
LEMMA SpecTyped == Spec => [](Typed /\ Leaves)
<1>1. Init => Typed /\ Leaves
  BY TypedInit
<1>2. (Typed /\ Leaves) /\ [Next]_vars => (Typed /\ Leaves)'
  BY TypedNext
<1> QED
  BY <1>1, <1>2, PTL DEF Spec

\* proxy.go and ca.go: the connections and the Authority keep their types, and
\* the mutex of the leaf cache is held by exactly the connection that mints.
THEOREM TypeCorrect == Spec => []TypeOK
<1>1. Typed /\ Leaves => TypeOK
  BY TypedTypeOK
<1> QED
  BY <1>1, SpecTyped, PTL

\* LeafFor: whatever number of handshakes race for whatever names, they share
\* one leaf per name, for the name asked for, and no leaf that was handed out
\* is ever replaced in the cache.
THEOREM OneLeaf == Spec => []OneLeafPerName
<1>1. Typed /\ Leaves => OneLeafPerName
  BY DEF Leaves
<1> QED
  BY <1>1, SpecTyped, PTL

-----------------------------------------------------------------------------
(* The stream as a sequence of requests.                                   *)

\* The client's requests are numbered and framed.
Numbers(s) == \A k \in 1..Len(s) : s[k] \in Request /\ Framed(s[k]) /\ s[k].id = k

\* z is the start of request m + 1, which counts as sent only when all of it is
\* there but a part of the trailer section.
CutOf(z, m, s) ==
  \E r \in Request, t \in Nat, n \in Nat :
    /\ 1 <= n /\ n <= Len(Encode(r, t)) /\ Framed(r) /\ r.id = m + 1
    /\ z = SubSeq(Encode(r, t), 1, n)
    /\ m < Len(s) => r = s[m + 1]
    /\ m = Len(s) => n < Len(Encode(r, t)) /\ \A i \in 1..n : z[i].kind # "last"

\* q holds requests behind request a of s, one behind the other: g[k] is what
\* comes behind request k.  Before the end of the stream all of them are there;
\* behind it they may stop early, and within one.
Chain(s, e, a, q, m, g) ==
  /\ a <= m /\ m <= Len(s) /\ g[a] = q
  /\ \A k \in Nat : a <= k /\ k < m =>
       \E t \in Nat : g[k] = Encode(s[k + 1], t) \o g[k + 1]
  /\ \/ m = Len(s) /\ g[m] = <<>>
     \/ e /\ (g[m] = <<>> \/ CutOf(g[m], m, s))

Ahead(s, e, a, q) ==
  \E m \in Nat, g \in [Nat -> Seq(Pieces)] : Chain(s, e, a, q, m, g)

\* Numbers are ordered.
LEMMA NatOrder ==
  \A i, j \in Nat : (i <= j => i < j \/ i = j) /\ (i < j \/ j <= i) /\ (i < j => i <= j)
  OBVIOUS

\* Concatenation of pieces is associative.
LEMMA PiecesAssoc ==
  \A p, q, r \in Seq(Pieces) : (p \o q) \o r = p \o (q \o r)
  BY ConcatAssociative

\* Nothing is behind the last request, and nothing need be behind any other
\* when the stream has ended.
LEMMA AheadNone ==
  ASSUME NEW s \in Seq(Request), NEW e, NEW a \in Nat, a <= Len(s), e \/ a = Len(s)
  PROVE  Ahead(s, e, a, <<>>)
<1> DEFINE g == [k \in Nat |-> <<>>]
<1>1. g \in [Nat -> Seq(Pieces)] /\ g[a] = <<>>
  OBVIOUS
<1>2. \A k \in Nat : ~(a <= k /\ k < a)
  OBVIOUS
<1>3. a <= a
  OBVIOUS
<1> HIDE DEF g
<1>4. CASE a = Len(s)
  BY <1>1, <1>2, <1>3, <1>4 DEF Ahead, Chain
<1>5. CASE e
  BY <1>1, <1>2, <1>3, <1>5 DEF Ahead, Chain
<1> QED
  BY <1>4, <1>5

\* The end of the stream takes nothing away.
LEMMA AheadEof ==
  ASSUME NEW s, NEW e, NEW a, NEW q, Ahead(s, e, a, q)
  PROVE  Ahead(s, TRUE, a, q)
  BY DEF Ahead, Chain

\* What is next: a whole request, the start of one, or nothing.
LEMMA AheadNext ==
  ASSUME NEW s \in Seq(Request), NEW e, NEW a \in Nat, NEW q, Ahead(s, e, a, q)
  PROVE  /\ q \in Seq(Pieces) /\ a <= Len(s)
         /\ \/ q = <<>>
            \/ e /\ CutOf(q, a, s)
            \/ /\ a + 1 \in 1..Len(s)
               /\ \E t \in Nat, p \in Seq(Pieces) :
                    q = Encode(s[a + 1], t) \o p /\ Ahead(s, e, a + 1, p)
<1>1. PICK m \in Nat, g \in [Nat -> Seq(Pieces)] :
        /\ a <= m /\ m <= Len(s) /\ g[a] = q
        /\ \A k \in Nat : a <= k /\ k < m =>
             \E t \in Nat : g[k] = Encode(s[k + 1], t) \o g[k + 1]
        /\ \/ m = Len(s) /\ g[m] = <<>>
           \/ e /\ (g[m] = <<>> \/ CutOf(g[m], m, s))
  BY DEF Ahead, Chain
<1>2. q \in Seq(Pieces)
  BY <1>1
<1>3. Len(s) \in Nat
  OBVIOUS
<1>4. a <= Len(s)
  BY <1>1, <1>3
<1>5. CASE m = a
  BY <1>1, <1>2, <1>4, <1>5
<1>6. CASE m # a
  <2>1. a + 1 \in Nat /\ a <= a /\ a < m /\ a + 1 <= m
    BY <1>1, <1>6
  <2>2. PICK t \in Nat : g[a] = Encode(s[a + 1], t) \o g[a + 1]
    BY <1>1, <2>1
  <2>3. \A k \in Nat : a + 1 <= k /\ k < m => a <= k /\ k < m
    BY <2>1
  <2>4. Ahead(s, e, a + 1, g[a + 1])
    BY <1>1, <2>1, <2>3 DEF Ahead, Chain
  <2>5. g[a + 1] \in Seq(Pieces)
    BY <2>1
  <2>6. q = Encode(s[a + 1], t) \o g[a + 1]
    BY <1>1, <2>2
  <2>7. a + 1 \in 1..Len(s)
    BY <1>1, <1>3, <2>1
  <2> QED
    BY <1>2, <1>4, <2>4, <2>5, <2>6, <2>7
<1> QED
  BY <1>5, <1>6

\* What is sent behind everything goes behind everything.
LEMMA AheadThen ==
  ASSUME NEW s \in Seq(Request), NEW z \in Seq(Request), Len(s) <= Len(z),
         \A k \in 1..Len(s) : z[k] = s[k],
         NEW a \in Nat, NEW q, Ahead(s, FALSE, a, q),
         NEW e, NEW y \in Seq(Pieces), Ahead(z, e, Len(s), y)
  PROVE  Ahead(z, e, a, q \o y)
<1> DEFINE l == Len(s)
<1>1. l \in Nat
  OBVIOUS
<1>2. PICK g \in [Nat -> Seq(Pieces)] :
        /\ a <= l /\ g[a] = q /\ g[l] = <<>>
        /\ \A k \in Nat : a <= k /\ k < l =>
             \E t \in Nat : g[k] = Encode(s[k + 1], t) \o g[k + 1]
  BY DEF Ahead, Chain
<1>3. PICK m \in Nat, h \in [Nat -> Seq(Pieces)] :
        /\ l <= m /\ m <= Len(z) /\ h[l] = y
        /\ \A k \in Nat : l <= k /\ k < m =>
             \E t \in Nat : h[k] = Encode(z[k + 1], t) \o h[k + 1]
        /\ \/ m = Len(z) /\ h[m] = <<>>
           \/ e /\ (h[m] = <<>> \/ CutOf(h[m], m, z))
  BY DEF Ahead, Chain
<1> DEFINE w == [k \in Nat |-> IF k < l THEN g[k] \o y ELSE h[k]]
<1>4. \A k \in Nat : g[k] \in Seq(Pieces) /\ g[k] \o y \in Seq(Pieces) /\ h[k] \in Seq(Pieces)
  BY ConcatProperties
<1>5. w \in [Nat -> Seq(Pieces)]
  BY <1>4
<1>6. <<>> \o y = y
  BY ConcatEmptySeq
<1>7. \A k \in Nat : (k < l => w[k] = g[k] \o y) /\ (~(k < l) => w[k] = h[k])
  OBVIOUS
<1> HIDE DEF w, l
<1>8. \A k \in Nat : k <= l => w[k] = g[k] \o y
  <2>1. SUFFICES ASSUME NEW k \in Nat, k <= l PROVE w[k] = g[k] \o y
    OBVIOUS
  <2>2. CASE k < l
    BY <1>7, <2>2
  <2>3. CASE k = l
    BY <1>1, <1>2, <1>3, <1>6, <1>7, <2>3
  <2> QED
    BY <1>1, <2>1, <2>2, <2>3, NatOrder
<1>9. \A k \in Nat : l <= k => w[k] = h[k]
  BY <1>1, <1>7
<1>10. ASSUME NEW k \in Nat, a <= k, k < m
       PROVE  \E t \in Nat : w[k] = Encode(z[k + 1], t) \o w[k + 1]
  <2>1. CASE k < l
    <3>1. PICK t \in Nat : g[k] = Encode(s[k + 1], t) \o g[k + 1]
      BY <1>2, <1>10, <2>1
    <3>2. k + 1 \in 1..l /\ k + 1 \in Nat /\ k <= l /\ k + 1 <= l
      BY <1>1, <2>1
    <3>3. z[k + 1] = s[k + 1] /\ s[k + 1] \in Request
      BY <3>2, SeqIs DEF l
    <3>4. Encode(s[k + 1], t) \in Seq(Pieces)
      BY <3>3, EncodeIs
    <3>5. g[k + 1] \in Seq(Pieces)
      BY <1>4, <3>2
    <3>6. w[k] = g[k] \o y /\ w[k + 1] = g[k + 1] \o y
      BY <1>8, <3>2
    <3> DEFINE x == Encode(s[k + 1], t)
               u == g[k + 1]
    <3>7. x \in Seq(Pieces) /\ u \in Seq(Pieces) /\ g[k] = x \o u /\ w[k + 1] = u \o y
      BY <3>1, <3>4, <3>5, <3>6
    <3> HIDE DEF x, u
    <3>8. (x \o u) \o y = x \o (u \o y)
      BY <3>7, PiecesAssoc
    <3>9. w[k] = x \o w[k + 1]
      BY <3>6, <3>7, <3>8
    <3> QED
      BY <3>3, <3>9 DEF x
  <2>2. CASE l <= k
    <3>1. PICK t \in Nat : h[k] = Encode(z[k + 1], t) \o h[k + 1]
      BY <1>3, <1>10, <2>2
    <3>2. l <= k + 1 /\ k + 1 \in Nat
      BY <1>1, <2>2
    <3> QED
      BY <1>9, <2>2, <3>1, <3>2
  <2> QED
    BY <1>1, <2>1, <2>2, NatOrder
<1>11. w[m] = h[m] /\ w[a] = q \o y
  BY <1>2, <1>3, <1>8, <1>9
<1>12. a <= m
  BY <1>1, <1>2, <1>3
<1>13. Chain(z, e, a, q \o y, m, w)
  BY <1>3, <1>10, <1>11, <1>12 DEF Chain
<1> QED
  BY <1>5, <1>13 DEF Ahead

\* A whole request, sent behind everything.
LEMMA AheadSent ==
  ASSUME NEW s \in Seq(Request), NEW a \in Nat, NEW q, Ahead(s, FALSE, a, q),
         NEW r \in Request, NEW t \in Nat, NEW z, z = Append(s, r)
  PROVE  z \in Seq(Request) /\ Ahead(z, FALSE, a, q \o Encode(r, t))
<1> DEFINE x == Encode(r, t)
           l == Len(s)
           g == [k \in Nat |-> IF k = l THEN x ELSE <<>>]
<1>1. x \in Seq(Pieces)
  BY EncodeIs
<1>2. /\ l \in Nat /\ z \in Seq(Request) /\ Len(z) = l + 1 /\ z[l + 1] = r
      /\ \A k \in 1..l : z[k] = s[k]
  OBVIOUS
<1> HIDE DEF x, l
<1>3. g \in [Nat -> Seq(Pieces)] /\ g[l] = x /\ g[l + 1] = <<>>
  BY <1>1, <1>2
<1> HIDE DEF g
<1>4. x \o <<>> = x
  BY <1>1, ConcatEmptySeq
<1>5. \A k \in Nat : l <= k /\ k < l + 1 => k = l
  BY <1>2
<1>6. g[l] = Encode(z[l + 1], t) \o g[l + 1]
  BY <1>2, <1>3, <1>4 DEF x
<1>7. l + 1 \in Nat /\ l <= l + 1 /\ l + 1 <= Len(z)
  BY <1>2
<1>8. Ahead(z, FALSE, l, x)
  <2>1. \A k \in Nat : l <= k /\ k < l + 1 =>
          \E v \in Nat : g[k] = Encode(z[k + 1], v) \o g[k + 1]
    BY <1>5, <1>6
  <2>2. Chain(z, FALSE, l, x, l + 1, g)
    BY <1>2, <1>3, <1>7, <2>1 DEF Chain
  <2> QED
    BY <1>3, <1>7, <2>2 DEF Ahead
<1>9. Len(s) <= Len(z)
  BY <1>2 DEF l
<1> QED
  BY <1>1, <1>2, <1>8, <1>9, AheadThen DEF x, l

\* A request cut short, sent behind everything.
LEMMA AheadCutShort ==
  ASSUME NEW s \in Seq(Request), NEW a \in Nat, NEW q, Ahead(s, FALSE, a, q),
         NEW z \in Seq(Request), Len(s) <= Len(z), \A k \in 1..Len(s) : z[k] = s[k],
         NEW y \in Seq(Pieces), CutOf(y, Len(s), z)
  PROVE  Ahead(z, TRUE, a, q \o y)
<1> DEFINE l == Len(s)
           g == [k \in Nat |-> y]
<1>1. l \in Nat /\ g \in [Nat -> Seq(Pieces)] /\ g[l] = y
  OBVIOUS
<1>2. \A k \in Nat : ~(l <= k /\ k < l)
  BY <1>1
<1> HIDE DEF g, l
<1>3. l <= l /\ l <= Len(z) /\ CutOf(y, l, z)
  BY <1>1 DEF l
<1>4. Ahead(z, TRUE, l, y)
  BY <1>1, <1>2, <1>3 DEF Ahead, Chain
<1> QED
  BY <1>4, AheadThen DEF l

-----------------------------------------------------------------------------
(* The parser at the start of a request.                                   *)

\* q starts with the first n pieces of x, with all of them or with no more.
Leading(q, x, n) ==
  /\ 0 <= n /\ n <= Len(x) /\ n <= Len(q)
  /\ \A i \in 1..n : q[i] = x[i]
  /\ n < Len(x) => Len(q) = n

\* The pieces of a head.
LEMMA HeadKinds ==
  ASSUME NEW r \in Request, NEW t \in Nat, Framed(r), NEW x, x = Encode(r, t),
         NEW l, l = Len(r.headers)
  PROVE  /\ x \in Seq(Pieces) /\ l \in Nat /\ l + 2 <= Len(x) /\ Len(x) \in Nat
         /\ x[1] = Piece(r.method, r.id) /\ r.method \in Methods
         /\ x[l + 2].kind = "blank"
         /\ \A i \in 1..l : x[i + 1] = r.headers[i] /\ x[i + 1].kind \in HeaderNames
<1>1. /\ x \in Seq(Pieces) /\ l \in Nat /\ r.headers \in Seq(Pieces) /\ Len(x) >= l + 2
      /\ \A i \in 1..(l + 2) : x[i] = HeadOf(r)[i]
  BY EncodeLen
<1>2. /\ HeadOf(r)[1] = Piece(r.method, r.id) /\ r.method \in Methods
      /\ HeadOf(r)[l + 2] = Piece("blank", 0)
      /\ \A i \in 1..l : HeadOf(r)[i + 1] = r.headers[i]
  BY <1>1, HeadIs DEF Request
<1>3. Len(x) \in Nat /\ l + 2 <= Len(x)
  BY <1>1
<1>4. DOMAIN r.headers = 1..l
  BY <1>1, SeqIs
<1>5. \A i \in 1..l : r.headers[i].kind \in HeaderNames
  BY <1>4 DEF Framed
<1>6. Piece("blank", 0).kind = "blank"
  BY DEF Piece
<1>7. x[1] = HeadOf(r)[1] /\ x[l + 2] = HeadOf(r)[l + 2]
  BY <1>1
<1>8. \A i \in 1..l : x[i + 1] = HeadOf(r)[i + 1]
  BY <1>1
<1> QED
  BY <1>1, <1>2, <1>3, <1>5, <1>6, <1>7, <1>8

\* A reader has taken the head of request r off q, which has n pieces of it.
HeadEnded(h, r, q, n) ==
  /\ Len(r.headers) + 2 <= n /\ h.end = Len(r.headers) + 2
  /\ q[1] = Piece(r.method, r.id)

\* readHeaders stops behind the head of the request.
LEMMA HeadEnds ==
  ASSUME NEW r \in Request, NEW t \in Nat, Framed(r), NEW x, x = Encode(r, t),
         NEW q \in Seq(Pieces), NEW n \in Nat, 1 <= n, Leading(q, x, n), NEW e,
         NEW h, h = readHeaders(q, e), h.st = "ok"
  PROVE  HeadEnded(h, r, q, n)
<1>1. PICK l : l = Len(r.headers)
  OBVIOUS
<1>2. /\ x \in Seq(Pieces) /\ l \in Nat /\ l + 2 <= Len(x) /\ Len(x) \in Nat
      /\ x[1] = Piece(r.method, r.id)
      /\ x[l + 2].kind = "blank"
      /\ \A i \in 1..l : x[i + 1].kind \in HeaderNames
  BY <1>1, HeadKinds
<1> DEFINE f == h.end
<1>3. /\ f \in 2..Len(q) /\ Len(q) \in Nat /\ q[f].kind = "blank"
      /\ \A j \in 2..(f - 1) : q[j].kind \in HeaderNames
  BY ReadHeadersIs
<1>4. "blank" \notin HeaderNames
  BY KindsApart DEF BodyKinds
<1> HIDE DEF f
<1>5. n <= Len(x) /\ n <= Len(q) /\ (n < Len(x) => Len(q) = n) /\ \A i \in 1..n : q[i] = x[i]
  BY DEF Leading
<1>6. ~(l + 2 < f)
  <2>1. SUFFICES ASSUME l + 2 < f PROVE FALSE
    OBVIOUS
  <2>2. l + 2 \in 2..(f - 1)
    BY <1>2, <1>3, <2>1
  <2>3. CASE l + 2 <= n
    <3>1. l + 2 \in 1..n
      BY <1>2, <2>3
    <3> QED
      BY <1>2, <1>3, <1>4, <1>5, <2>2, <3>1
  <2>4. CASE n < l + 2
    BY <1>2, <1>3, <1>5, <2>1, <2>4
  <2> QED
    BY <1>2, <2>3, <2>4
<1>7. f <= n
  BY <1>2, <1>3, <1>5, <1>6
<1>8. ~(f < l + 2)
  <2>1. SUFFICES ASSUME f < l + 2 PROVE FALSE
    OBVIOUS
  <2>2. f - 1 \in 1..l /\ f - 1 + 1 = f /\ f \in 1..n
    BY <1>2, <1>3, <1>7, <2>1
  <2> QED
    BY <1>2, <1>3, <1>4, <1>5, <2>2
<1>9. f = l + 2 /\ 1 \in 1..n
  BY <1>2, <1>3, <1>6, <1>8
<1> QED
  BY <1>1, <1>2, <1>5, <1>7, <1>9 DEF f, HeadEnded

\* A reader has taken n pieces of q, all of body x or all but some trailers.
BodyTaken(b, r, x, q, n) ==
  /\ b.end = n /\ b.body = r.body
  /\ n < Len(x) => \E i \in 1..n : q[i].kind = "last"

\* A chunked body is read up to what is there of it.
LEMMA ChunkedBodyEnds ==
  ASSUME NEW r \in Request, NEW t \in Nat, Framed(r), r.chunked = TRUE, NEW x, x = BodyOf(r, t),
         NEW q \in Seq(Pieces), NEW n \in Nat, Leading(q, x, n), NEW e,
         NEW b, b = readBody(q, r.headers, e), b.st = "ok"
  PROVE  BodyTaken(b, r, x, q, n)
<1> DEFINE K == Methods \union {"last", "blank", "octet"} \union HeaderNames
           z == First(q, 1, K)
           f == First(q, z + 1, {"blank"})
           d == r.body
<1>1. d \in Nat
  BY DEF Request
<1>2. /\ x \in Seq(Pieces) /\ Len(x) = d + t + 2
      /\ \A i \in 1..d : x[i].kind = "chunk"
      /\ x[d + 1].kind = "last"
      /\ \A i \in 1..t : x[d + 1 + i].kind = "content-type"
      /\ x[d + t + 2].kind = "blank"
  <2>1. /\ BodyOf(r, t) \in Seq(Pieces)
        /\ Len(BodyOf(r, t)) = r.body + t + 2
        /\ \A i \in 1..r.body : BodyOf(r, t)[i].kind = "chunk"
        /\ BodyOf(r, t)[r.body + 1].kind = "last"
        /\ \A i \in 1..t : BodyOf(r, t)[r.body + 1 + i].kind = "content-type"
        /\ BodyOf(r, t)[r.body + t + 2].kind = "blank"
    BY ChunkedBodyIs
  <2> QED
    BY <2>1
<1>3. hasChunked(r.headers)
  BY DEF Framed
<1>4. Short(e).st # "ok" /\ Bad.st # "ok" /\ More.st # "ok"
  BY DEF Short, Bad, More
<1>5. b = readChunked(q, e)
  BY <1>3 DEF readBody
<1>6. /\ z # 0 /\ q[z].kind = "last"
      /\ \/ f # 0 /\ b = Got(f, z - 1)
         \/ f = 0 /\ b = Got(Len(q), z - 1)
  BY <1>4, <1>5 DEF readChunked
<1>7. "chunk" \notin K /\ "last" \in K
  BY KindsApart DEF BodyKinds
<1>8. /\ n <= Len(x) /\ n <= Len(q) /\ (n < Len(x) => Len(q) = n)
      /\ \A i \in 1..n : q[i] = x[i]
  BY DEF Leading
<1>9. Len(q) \in Nat /\ 1 \in Nat \ {0}
  OBVIOUS
<1> HIDE DEF d, K, f
<1>10. z = 0 \/ z \in 1..Len(q)
  BY <1>9, FirstIs
<1>11. d + 1 <= n
  <2>1. SUFFICES ASSUME n <= d PROVE FALSE
    BY <1>1
  <2> HIDE DEF z
  <2>2. z \in 1..n /\ z \in 1..d
    BY <1>1, <1>2, <1>6, <1>8, <1>9, <1>10, <2>1
  <2>3. q[z].kind = "chunk"
    BY <1>2, <1>8, <2>2
  <2> QED
    BY <1>6, <2>3
<1>12. z = d + 1
  <2>1. d + 1 \in 1..Len(q) /\ d + 1 \in 1..n
    BY <1>1, <1>8, <1>9, <1>11
  <2>2. q[d + 1].kind \in K
    BY <1>2, <1>7, <1>8, <2>1
  <2> DEFINE i == d + 1
  <2>3. i \in 1..Len(q)
    BY <2>1
  <2>4. q[i].kind \in K
    BY <2>2
  <2>5. \A j \in 1..(i - 1) : q[j].kind \notin K
    <3>1. TAKE j \in 1..(i - 1)
    <3>2. j \in 1..d /\ j \in 1..n
      BY <1>1, <1>11
    <3> QED
      BY <1>2, <1>7, <1>8, <3>2
  <2> HIDE DEF i
  <2>6. First(q, 1, K) = i
    BY <1>9, <2>3, <2>4, <2>5, FirstAt
  <2> QED
    BY <2>6 DEF i
<1> HIDE DEF z
<1>13. z + 1 \in Nat \ {0} /\ z + 1 = d + 2
  BY <1>1, <1>12
<1>14. \A j \in (d + 2)..n : j < d + t + 2 => q[j].kind = "content-type"
  <2>1. SUFFICES ASSUME NEW j \in (d + 2)..n, j < d + t + 2 PROVE q[j].kind = "content-type"
    OBVIOUS
  <2>2. j - (d + 1) \in 1..t /\ d + 1 + (j - (d + 1)) = j /\ j \in 1..n
    BY <1>1, <2>1
  <2> QED
    BY <1>2, <1>8, <2>2
<1>15. CASE n = Len(x)
  <2>1. n \in (z + 1)..Len(q) /\ n \in 1..n /\ n = d + t + 2
    BY <1>1, <1>2, <1>8, <1>9, <1>13, <1>15
  <2>2. q[n].kind \in {"blank"}
    BY <1>2, <1>8, <2>1
  <2>3. \A j \in (z + 1)..(n - 1) : q[j].kind \notin {"blank"}
    <3>1. TAKE j \in (z + 1)..(n - 1)
    <3>2. j \in (d + 2)..n /\ j < d + t + 2
      BY <1>1, <1>13, <2>1
    <3> QED
      BY <1>14, <3>2
  <2>4. f = n
    BY <1>13, <2>1, <2>2, <2>3, FirstAt DEF f
  <2>5. n # 0
    BY <1>1, <2>1
  <2>6. b = Got(n, z - 1)
    BY <1>6, <2>4, <2>5
  <2>7. z - 1 = d
    BY <1>1, <1>12
  <2>8. b.end = n /\ b.body = d
    BY <2>6, <2>7 DEF Got
  <2> QED
    BY <1>2, <1>15, <2>1, <2>8 DEF d, BodyTaken
<1>16. CASE n < Len(x)
  <2>1. Len(q) = n /\ n < d + t + 2
    BY <1>2, <1>8, <1>16
  <2>2. \A j \in (z + 1)..Len(q) : q[j].kind \notin {"blank"}
    <3>1. TAKE j \in (z + 1)..Len(q)
    <3>2. j \in (d + 2)..n /\ j < d + t + 2
      BY <1>1, <1>13, <2>1
    <3> QED
      BY <1>14, <3>2
  <2>3. f = 0
    BY <1>13, <2>2, FirstNone DEF f
  <2>4. b = Got(n, z - 1)
    BY <1>6, <2>1, <2>3
  <2>5. z - 1 = d /\ z \in 1..n
    BY <1>1, <1>11, <1>12
  <2>6. b.end = n /\ b.body = d
    BY <2>4, <2>5 DEF Got
  <2> QED
    BY <1>6, <2>5, <2>6 DEF d, BodyTaken
<1>17. n = Len(x) \/ n < Len(x)
  BY <1>1, <1>2, <1>8
<1> QED
  BY <1>15, <1>16, <1>17

\* readBody takes what is there of the body, which is all of it but a part of
\* the trailer section.
LEMMA BodyEnds ==
  ASSUME NEW r \in Request, NEW t \in Nat, Framed(r), NEW x, x = BodyOf(r, t),
         NEW q \in Seq(Pieces), NEW n \in Nat, Leading(q, x, n), NEW e,
         NEW b, b = readBody(q, r.headers, e), b.st = "ok"
  PROVE  BodyTaken(b, r, x, q, n)
<1>1. CASE r.chunked
  <2>1. r.chunked = TRUE
    BY <1>1 DEF Request
  <2> QED
    BY <2>1, ChunkedBodyEnds
<1>2. CASE ~r.chunked
  <2> DEFINE d == r.body
  <2>1. d \in Nat
    BY DEF Request
  <2>2. Len(x) = d
    BY <1>2, PlainBodyIs
  <2>3. ~hasChunked(r.headers) /\ contentLength(r.headers) = d
    BY <1>2 DEF Framed
  <2>4. Short(e).st # "ok"
    BY DEF Short, Bad, More
  <2>5. d <= Len(q) /\ b = Got(d, d)
    BY <2>3, <2>4 DEF readBody
  <2>6. n <= Len(x) /\ (n < Len(x) => Len(q) = n)
    BY DEF Leading
  <2> HIDE DEF d
  <2>7. n = d
    BY <2>1, <2>2, <2>5, <2>6
  <2>8. b.end = d /\ b.body = d
    BY <2>5 DEF Got
  <2> QED
    BY <2>1, <2>2, <2>7, <2>8 DEF d, BodyTaken
<1> QED
  BY <1>1, <1>2

\* A request without its body: what readHeaders has of it.
Headless(r) == [r EXCEPT !.body = 0]

\* The body of request a + 1 is next, with requests behind it, or the stream
\* stops within it.
Whole(s, e, a, k, q, t, p) ==
  /\ a + 1 \in 1..Len(s) /\ k = Headless(s[a + 1])
  /\ q = BodyOf(s[a + 1], t) \o p /\ Ahead(s, e, a + 1, p)

Stops(s, a, k, q, r, t, n) ==
  /\ a <= Len(s) /\ Framed(r) /\ r.id = a + 1 /\ k = Headless(r)
  /\ n <= Len(BodyOf(r, t)) /\ q = SubSeq(BodyOf(r, t), 1, n)
  /\ a < Len(s) => r = s[a + 1]
  /\ a = Len(s) => n < Len(BodyOf(r, t)) /\ \A i \in 1..n : q[i].kind # "last"

BodyAhead(s, e, a, k, q) ==
  \/ \E t \in Nat, p \in Seq(Pieces) : Whole(s, e, a, k, q, t, p)
  \/ e /\ \E r \in Request, t \in Nat, n \in Nat : Stops(s, a, k, q, r, t, n)

\* Dropping the first of two sequences, or cutting the second.
LEMMA DropFirst ==
  ASSUME NEW u \in Seq(Pieces), NEW v \in Seq(Pieces), NEW l, l = Len(u), NEW w, w = u \o v
  PROVE  SubSeq(w, l + 1, Len(w)) = v
<1>1. /\ w \in Seq(Pieces) /\ Len(w) = l + Len(v)
      /\ \A i \in 1..(l + Len(v)) : w[i] = IF i <= l THEN u[i] ELSE v[i - l]
  BY ConcatIs
<1>2. l \in Nat /\ Len(v) \in Nat
  OBVIOUS
<1>3. l \in 0..Len(w)
  BY <1>1, <1>2
<1> DEFINE y == SubSeq(w, l + 1, Len(w))
<1>4. /\ y \in Seq(Pieces) /\ Len(y) = Len(w) - l
      /\ \A i \in 1..(Len(w) - l) : y[i] = w[l + i]
  BY <1>1, <1>3, DropIs
<1> HIDE DEF y
<1>5. Len(y) = Len(v)
  BY <1>1, <1>2, <1>4
<1>6. ASSUME NEW i \in 1..Len(y) PROVE y[i] = v[i]
  <2>1. i \in 1..(Len(w) - l) /\ l + i \in 1..(l + Len(v)) /\ ~(l + i <= l) /\ (l + i) - l = i
    BY <1>2, <1>4, <1>5
  <2> QED
    BY <1>1, <1>4, <2>1
<1> QED
  BY <1>4, <1>5, <1>6, SeqEq DEF y

\* A beginning of u \o v that is longer than u.
LEMMA CutSecond ==
  ASSUME NEW u \in Seq(Pieces), NEW v \in Seq(Pieces), NEW l, l = Len(u),
         NEW n \in Nat, l <= n, n <= l + Len(v)
  PROVE  /\ SubSeq(u \o v, 1, n) = u \o SubSeq(v, 1, n - l)
         /\ SubSeq(v, 1, n - l) \in Seq(Pieces) /\ n - l \in Nat /\ n - l <= Len(v)
<1> DEFINE w == u \o v
           y == SubSeq(v, 1, n - l)
           a == SubSeq(w, 1, n)
           b == u \o y
<1>1. l \in Nat /\ Len(v) \in Nat /\ n - l \in Nat /\ n - l <= Len(v)
  OBVIOUS
<1>2. /\ w \in Seq(Pieces) /\ Len(w) = l + Len(v)
      /\ \A i \in 1..(l + Len(v)) : w[i] = IF i <= l THEN u[i] ELSE v[i - l]
  BY ConcatIs
<1>3. y \in Seq(Pieces) /\ Len(y) = n - l /\ \A i \in 1..(n - l) : y[i] = v[i]
  BY <1>1
<1> HIDE DEF w, y
<1>4. a \in Seq(Pieces) /\ Len(a) = n /\ \A i \in 1..n : a[i] = w[i]
  BY <1>1, <1>2
<1>5. /\ b \in Seq(Pieces) /\ Len(b) = Len(u) + Len(y)
      /\ \A i \in 1..(Len(u) + Len(y)) : b[i] = IF i <= Len(u) THEN u[i] ELSE y[i - Len(u)]
  BY <1>3, ConcatIs
<1> HIDE DEF a, b
<1>6. Len(b) = n /\ Len(u) + Len(y) = n
  BY <1>1, <1>3, <1>5
<1>7. ASSUME NEW i \in 1..Len(a) PROVE a[i] = b[i]
  <2>1. i \in 1..n /\ i \in 1..(l + Len(v)) /\ i \in 1..(Len(u) + Len(y))
    BY <1>1, <1>4, <1>6
  <2>2. CASE i <= l
    BY <1>2, <1>4, <1>5, <2>1, <2>2
  <2>3. CASE ~(i <= l)
    <3>1. i - l \in 1..(n - l)
      BY <1>1, <2>1, <2>3
    <3> QED
      BY <1>2, <1>3, <1>4, <1>5, <2>1, <2>3, <3>1
  <2> QED
    BY <2>2, <2>3
<1>8. a = b
  BY <1>4, <1>5, <1>6, <1>7, SeqEq
<1> QED
  BY <1>1, <1>3, <1>8 DEF a, b, w, y

\* The start of a stream of requests.
LEMMA FrontWhole ==
  ASSUME NEW x \in Seq(Pieces), NEW p \in Seq(Pieces), NEW q, q = x \o p
  PROVE  Leading(q, x, Len(x)) /\ Len(x) \in Nat
<1>1. /\ Len(q) = Len(x) + Len(p)
      /\ \A i \in 1..(Len(x) + Len(p)) : q[i] = IF i <= Len(x) THEN x[i] ELSE p[i - Len(x)]
  BY ConcatIs
<1>2. Len(x) \in Nat /\ Len(p) \in Nat
  OBVIOUS
<1>3. \A i \in 1..Len(x) : q[i] = x[i]
  BY <1>1, <1>2
<1>4. Len(x) <= Len(q) /\ 0 <= Len(x) /\ Len(x) <= Len(x) /\ ~(Len(x) < Len(x))
  BY <1>1, <1>2
<1> QED
  BY <1>2, <1>3, <1>4 DEF Leading

\* A cut request is a beginning of the whole one.
LEMMA FrontCut ==
  ASSUME NEW x \in Seq(Pieces), NEW n \in Nat, n <= Len(x), NEW q, q = SubSeq(x, 1, n)
  PROVE  Leading(q, x, n) /\ q \in Seq(Pieces) /\ Len(q) = n
<1>1. q \in Seq(Pieces) /\ Len(q) = n /\ \A i \in 1..n : q[i] = x[i]
  OBVIOUS
<1>2. 0 <= n /\ n <= n
  OBVIOUS
<1> QED
  BY <1>1, <1>2 DEF Leading

\* The headers readHeaders takes are the request's.
LEMMA HeadersTaken ==
  ASSUME NEW r \in Request, NEW t \in Nat, Framed(r), NEW x, x = Encode(r, t),
         NEW q \in Seq(Pieces), NEW n \in Nat, 1 <= n, Leading(q, x, n), NEW e,
         NEW h, h = readHeaders(q, e), h.st = "ok",
         NEW hs, hs = SubSeq(q, 2, h.end - 1), NEW k,
         k = [id |-> q[1].v, method |-> q[1].kind, headers |-> hs, body |-> 0,
              chunked |-> hasChunked(hs)]
  PROVE  k = Headless(r)
<1>1. PICK l : l = Len(r.headers)
  OBVIOUS
<1>2. l + 2 <= n /\ h.end = l + 2 /\ q[1] = Piece(r.method, r.id)
  <2>1. HeadEnded(h, r, q, n)
    BY HeadEnds
  <2> QED
    BY <1>1, <2>1 DEF HeadEnded
<1>3. /\ l \in Nat /\ r.headers \in Seq(Pieces)
      /\ \A i \in 1..l : x[i + 1] = r.headers[i]
  <2>1. r.headers \in Seq(Pieces) /\ l \in Nat
    BY <1>1 DEF Request
  <2>2. \A i \in 1..l : x[i + 1] = r.headers[i]
    BY <1>1, HeadKinds
  <2> QED
    BY <2>1, <2>2
<1>4. \A i \in 1..n : q[i] = x[i]
  BY DEF Leading
<1>5. h.end - 2 = l
  BY <1>2, <1>3
<1>6. hs \in Seq(Pieces) /\ Len(hs) = l /\ \A i \in 1..l : hs[i] = q[i + 1]
  BY <1>5, HeadTaken
<1>7. \A i \in 1..l : hs[i] = r.headers[i]
  <2>1. TAKE i \in 1..l
  <2>2. i + 1 \in 1..n
    BY <1>2, <1>3
  <2> QED
    BY <1>3, <1>4, <1>6, <2>2
<1>8. hs = r.headers
  BY <1>1, <1>3, <1>6, <1>7, SeqEq
<1>9. q[1].v = r.id /\ q[1].kind = r.method
  BY <1>2 DEF Piece
<1>10. hasChunked(hs) = r.chunked
  BY <1>8 DEF Framed
<1>11. k = [id |-> r.id, method |-> r.method, headers |-> r.headers, body |-> 0,
            chunked |-> r.chunked]
  BY <1>8, <1>9, <1>10
<1>12. Headless(r) = [id |-> r.id, method |-> r.method, headers |-> r.headers, body |-> 0,
                      chunked |-> r.chunked]
  BY DEF Headless, Request
<1> QED
  BY <1>11, <1>12

\* A head is taken off the stream.
LEMMA HeadStep ==
  ASSUME NEW s \in Seq(Request), Numbers(s), NEW e, NEW a \in Nat, NEW q, Ahead(s, e, a, q),
         NEW f, NEW h, h = readHeaders(q, f), h.st = "ok",
         NEW hs, hs = SubSeq(q, 2, h.end - 1), NEW k,
         k = [id |-> q[1].v, method |-> q[1].kind, headers |-> hs, body |-> 0,
              chunked |-> hasChunked(hs)]
  PROVE  BodyAhead(s, e, a, k, SubSeq(q, h.end + 1, Len(q)))
<1>1. /\ q \in Seq(Pieces) /\ a <= Len(s)
      /\ \/ q = <<>>
         \/ e /\ CutOf(q, a, s)
         \/ /\ a + 1 \in 1..Len(s)
            /\ \E t \in Nat, p \in Seq(Pieces) :
                 q = Encode(s[a + 1], t) \o p /\ Ahead(s, e, a + 1, p)
  BY AheadNext
<1> DEFINE y == SubSeq(q, h.end + 1, Len(q))
<1>2. q # <<>>
  <2>1. h.end \in 2..Len(q)
    BY <1>1, ReadHeadersIs
  <2> QED
    BY <2>1
<1>3. CASE e /\ CutOf(q, a, s)
  <2>1. PICK r \in Request, t \in Nat, n \in Nat :
          /\ 1 <= n /\ n <= Len(Encode(r, t)) /\ Framed(r) /\ r.id = a + 1
          /\ q = SubSeq(Encode(r, t), 1, n)
          /\ a < Len(s) => r = s[a + 1]
          /\ a = Len(s) => n < Len(Encode(r, t)) /\ \A i \in 1..n : q[i].kind # "last"
    BY <1>3 DEF CutOf
  <2> DEFINE x == Encode(r, t)
             u == HeadOf(r)
             v == BodyOf(r, t)
             l == Len(r.headers)
  <2>2. x = u \o v /\ u \in Seq(Pieces) /\ v \in Seq(Pieces) /\ x \in Seq(Pieces)
    BY EncodeIs
  <2>3. Len(x) = l + 2 + Len(v) /\ l \in Nat /\ Len(v) \in Nat
    BY EncodeLen
  <2>4. Len(u) = l + 2
    BY HeadLen
  <2>5. q = SubSeq(x, 1, n) /\ n <= Len(x) /\ 1 <= n
    BY <2>1
  <2>6. Leading(q, x, n) /\ Len(q) = n
    BY <2>2, <2>5, FrontCut
  <2>7. l + 2 <= n /\ h.end = l + 2
    <3>1. HeadEnded(h, r, q, n)
      BY <1>1, <2>1, <2>6, HeadEnds
    <3> QED
      BY <3>1 DEF HeadEnded
  <2>8. k = Headless(r)
    <3>1. x = Encode(r, t) /\ Framed(r) /\ 1 <= n /\ q \in Seq(Pieces) /\ Leading(q, x, n)
      BY <1>1, <2>1, <2>6
    <3> HIDE DEF x
    <3> QED
      BY <3>1, HeadersTaken
  <2> HIDE DEF x, u, v, l
  <2>9. /\ SubSeq(u \o v, 1, n) = u \o SubSeq(v, 1, n - (l + 2))
        /\ SubSeq(v, 1, n - (l + 2)) \in Seq(Pieces)
        /\ n - (l + 2) \in Nat /\ n - (l + 2) <= Len(v)
    <3> DEFINE w == l + 2
    <3>1. w = Len(u) /\ w <= n /\ n <= w + Len(v)
      BY <2>3, <2>4, <2>5, <2>7
    <3> HIDE DEF w
    <3>2. /\ SubSeq(u \o v, 1, n) = u \o SubSeq(v, 1, n - w)
          /\ SubSeq(v, 1, n - w) \in Seq(Pieces)
          /\ n - w \in Nat /\ n - w <= Len(v)
      BY <2>2, <3>1, CutSecond
    <3> QED
      BY <3>2 DEF w
  <2> DEFINE m == n - (l + 2)
             z == SubSeq(v, 1, m)
  <2>10. q = u \o z /\ z \in Seq(Pieces) /\ m \in Nat /\ m <= Len(v)
    BY <2>2, <2>5, <2>9
  <2>11. m < Len(v) <=> n < Len(x)
    BY <2>3, <2>9
  <2> HIDE DEF m
  <2>12. y = z
    <3> HIDE DEF z
    <3>1. PICK w : w = l + 2
      OBVIOUS
    <3>2. u \in Seq(Pieces) /\ z \in Seq(Pieces) /\ w = Len(u) /\ q = u \o z
      BY <2>2, <2>4, <2>10, <3>1
    <3>3. SubSeq(q, w + 1, Len(q)) = z
      BY <3>2, DropFirst
    <3> QED
      BY <2>7, <3>1, <3>3
  <2>13. a = Len(s) => m < Len(v) /\ \A i \in 1..m : y[i].kind # "last"
    <3>1. SUFFICES ASSUME a = Len(s)
                   PROVE  m < Len(v) /\ \A i \in 1..m : y[i].kind # "last"
      OBVIOUS
    <3>2. m < Len(v)
      BY <2>1, <2>11, <3>1 DEF x
    <3>3. ASSUME NEW i \in 1..m PROVE y[i].kind # "last"
      <4>1. l + 2 \in 0..Len(q) /\ i \in 1..(Len(q) - (l + 2)) /\ (l + 2) + i \in 1..n
        BY <2>3, <2>6, <2>7 DEF m
      <4>2. SubSeq(q, (l + 2) + 1, Len(q))[i] = q[(l + 2) + i]
        BY <1>1, <4>1, DropIs
      <4>3. y[i] = q[(l + 2) + i]
        BY <2>7, <4>2
      <4> QED
        BY <2>1, <3>1, <4>1, <4>3
    <3> QED
      BY <3>2, <3>3
  <2>14. Stops(s, a, k, y, r, t, m)
    BY <1>1, <2>1, <2>8, <2>10, <2>12, <2>13 DEF Stops, v
  <2> QED
    BY <1>3, <2>10, <2>14 DEF BodyAhead
<1>4. CASE /\ a + 1 \in 1..Len(s)
           /\ \E t \in Nat, p \in Seq(Pieces) :
                q = Encode(s[a + 1], t) \o p /\ Ahead(s, e, a + 1, p)
  <2>1. PICK t \in Nat, p \in Seq(Pieces) :
          q = Encode(s[a + 1], t) \o p /\ Ahead(s, e, a + 1, p)
    BY <1>4
  <2> DEFINE r == s[a + 1]
  <2>2. r \in Request /\ Framed(r)
    BY <1>4 DEF Numbers
  <2> HIDE DEF r
  <2> DEFINE x == Encode(r, t)
             u == HeadOf(r)
             v == BodyOf(r, t)
             l == Len(r.headers)
  <2>3. x = u \o v /\ u \in Seq(Pieces) /\ v \in Seq(Pieces) /\ x \in Seq(Pieces)
    BY <2>2, EncodeIs
  <2>4. Len(x) >= l + 2 /\ l \in Nat
    BY <2>2, EncodeLen
  <2>5. Len(u) = l + 2
    BY <2>2, HeadLen
  <2>6. q = x \o p
    BY <2>1 DEF r
  <2>7. Leading(q, x, Len(x)) /\ Len(x) \in Nat /\ 1 <= Len(x)
    <3>1. 1 <= Len(x)
      BY <2>3, <2>4
    <3> HIDE DEF x
    <3>2. Leading(q, x, Len(x)) /\ Len(x) \in Nat
      BY <2>3, <2>6, FrontWhole
    <3> QED
      BY <3>1, <3>2
  <2>8. h.end = l + 2
    <3>1. HeadEnded(h, r, q, Len(x))
      BY <1>1, <2>2, <2>7, HeadEnds
    <3> QED
      BY <3>1 DEF HeadEnded
  <2>9. k = Headless(r)
    BY <1>1, <2>2, <2>7, HeadersTaken
  <2> HIDE DEF x, u, v, l
  <2>10. q = u \o (v \o p) /\ v \o p \in Seq(Pieces)
    BY <2>3, <2>6, PiecesAssoc, ConcatProperties
  <2> DEFINE z == v \o p
  <2>11. y = z
    <3>1. q = u \o z /\ z \in Seq(Pieces)
      BY <2>10
    <3> HIDE DEF z
    <3>2. PICK w : w = l + 2
      OBVIOUS
    <3>3. u \in Seq(Pieces) /\ z \in Seq(Pieces) /\ w = Len(u) /\ q = u \o z
      BY <2>3, <2>5, <3>1, <3>2
    <3>4. SubSeq(q, w + 1, Len(q)) = z
      BY <3>3, DropFirst
    <3> QED
      BY <2>8, <3>2, <3>4
  <2>12. Whole(s, e, a, k, y, t, p)
    BY <1>4, <2>1, <2>9, <2>11 DEF Whole, r, v
  <2> QED
    BY <2>12 DEF BodyAhead
<1> QED
  BY <1>1, <1>2, <1>3, <1>4

\* The reader took request w and is at end b of q, behind it.
Served(s, e, a, w, q, b) ==
  /\ a + 1 \in 1..Len(s) /\ w = s[a + 1]
  /\ Ahead(s, e, a + 1, SubSeq(q, b.end + 1, Len(q)))

\* A body is taken off the stream: the request is one the client sent, and what
\* is left is what comes behind it.
LEMMA BodyStep ==
  ASSUME NEW s \in Seq(Request), Numbers(s), NEW e, NEW a \in Nat, NEW q \in Seq(Pieces),
         NEW k, BodyAhead(s, e, a, k, q),
         NEW f, NEW b, b = readBody(q, k.headers, f), b.st = "ok",
         NEW w, w = [k EXCEPT !.body = b.body]
  PROVE  Served(s, e, a, w, q, b)
<1>1. \A r \in Request : /\ Headless(r).headers = r.headers
                         /\ \A d : d = r.body => [Headless(r) EXCEPT !.body = d] = r
  BY DEF Headless, Request
<1>2. CASE \E t \in Nat, p \in Seq(Pieces) : Whole(s, e, a, k, q, t, p)
  <2>1. PICK t \in Nat, p \in Seq(Pieces) : Whole(s, e, a, k, q, t, p)
    BY <1>2
  <2> DEFINE r == s[a + 1]
             v == BodyOf(r, t)
  <2>2. /\ a + 1 \in 1..Len(s) /\ k = Headless(r)
        /\ q = v \o p /\ Ahead(s, e, a + 1, p)
    BY <2>1 DEF Whole
  <2>3. r \in Request /\ Framed(r)
    BY <2>2 DEF Numbers
  <2> HIDE DEF r
  <2>4. v \in Seq(Pieces)
    BY <2>3, EncodeIs
  <2>5. Leading(q, v, Len(v)) /\ Len(v) \in Nat
    BY <2>2, <2>4, FrontWhole
  <2>6. k.headers = r.headers
    BY <1>1, <2>2, <2>3
  <2>7. BodyTaken(b, r, v, q, Len(v))
    BY <2>3, <2>5, <2>6, BodyEnds
  <2>8. b.end = Len(v) /\ b.body = r.body
    BY <2>7 DEF BodyTaken
  <2> HIDE DEF v
  <2>9. SubSeq(q, b.end + 1, Len(q)) = p
    BY <2>2, <2>4, <2>8, DropFirst
  <2>10. [k EXCEPT !.body = b.body] = r
    BY <1>1, <2>2, <2>3, <2>8
  <2> QED
    BY <2>2, <2>9, <2>10 DEF r, Served
<1>3. CASE e /\ \E r \in Request, t \in Nat, n \in Nat : Stops(s, a, k, q, r, t, n)
  <2>1. PICK r \in Request, t \in Nat, n \in Nat : Stops(s, a, k, q, r, t, n)
    BY <1>3
  <2> DEFINE v == BodyOf(r, t)
  <2>2. /\ a <= Len(s) /\ Framed(r) /\ k = Headless(r)
        /\ n <= Len(v) /\ q = SubSeq(v, 1, n)
        /\ a < Len(s) => r = s[a + 1]
        /\ a = Len(s) => n < Len(v) /\ \A i \in 1..n : q[i].kind # "last"
    BY <2>1 DEF Stops
  <2>3. v \in Seq(Pieces)
    BY EncodeIs
  <2>4. Leading(q, v, n) /\ Len(q) = n
    BY <2>2, <2>3, FrontCut
  <2>5. k.headers = r.headers
    BY <1>1, <2>2
  <2>6. BodyTaken(b, r, v, q, n)
    BY <2>2, <2>4, <2>5, BodyEnds
  <2>7. b.end = n /\ b.body = r.body /\ (n < Len(v) => \E i \in 1..n : q[i].kind = "last")
    BY <2>6 DEF BodyTaken
  <2>8. a # Len(s) /\ Len(s) \in Nat
    BY <2>2, <2>7
  <2>9. a < Len(s) /\ a + 1 \in 1..Len(s) /\ a + 1 \in Nat /\ a + 1 <= Len(s)
    BY <2>2, <2>8
  <2>10. [k EXCEPT !.body = b.body] = s[a + 1]
    BY <1>1, <2>2, <2>7, <2>9
  <2>11. SubSeq(q, b.end + 1, Len(q)) = <<>>
    <3>1. n \in 0..Len(q)
      BY <2>4
    <3>2. SubSeq(q, n + 1, Len(q)) \in Seq(Pieces) /\ Len(SubSeq(q, n + 1, Len(q))) = Len(q) - n
      BY <3>1, DropIs
    <3>3. Len(SubSeq(q, n + 1, Len(q))) = 0
      BY <2>4, <3>2
    <3>4. SubSeq(q, n + 1, Len(q)) = <<>>
      BY <3>2, <3>3, EmptySeq
    <3> QED
      BY <2>7, <3>4
  <2>12. Ahead(s, e, a + 1, <<>>)
    BY <1>3, <2>9, AheadNone
  <2> QED
    BY <2>9, <2>10, <2>11, <2>12 DEF Served
<1> QED
  BY <1>2, <1>3 DEF BodyAhead

\* Behind a body that has not ended the client sends on.
LEMMA BodyThen ==
  ASSUME NEW s \in Seq(Request), Numbers(s), NEW a \in Nat, NEW k, NEW q,
         BodyAhead(s, FALSE, a, k, q),
         NEW z \in Seq(Request), Len(s) <= Len(z), \A i \in 1..Len(s) : z[i] = s[i],
         NEW e, NEW y \in Seq(Pieces), Ahead(z, e, Len(s), y)
  PROVE  BodyAhead(z, e, a, k, q \o y)
<1>1. PICK t \in Nat, p \in Seq(Pieces) : Whole(s, FALSE, a, k, q, t, p)
  BY DEF BodyAhead
<1> DEFINE r == s[a + 1]
           v == BodyOf(r, t)
<1>2. a + 1 \in 1..Len(s) /\ k = Headless(r) /\ q = v \o p /\ Ahead(s, FALSE, a + 1, p)
  BY <1>1 DEF Whole
<1>3. r \in Request /\ z[a + 1] = r /\ a + 1 \in Nat /\ a + 1 \in 1..Len(z)
  BY <1>2 DEF Numbers
<1> HIDE DEF r
<1>4. v \in Seq(Pieces)
  BY <1>3, EncodeIs
<1> HIDE DEF v
<1>5. q \o y = v \o (p \o y)
  BY <1>2, <1>4, PiecesAssoc
<1>6. p \o y \in Seq(Pieces)
  BY ConcatProperties
<1>7. Ahead(z, e, a + 1, p \o y)
  BY <1>2, <1>3, AheadThen
<1>8. Whole(z, e, a, k, q \o y, t, p \o y)
  BY <1>2, <1>3, <1>5, <1>7 DEF Whole, v, r
<1> QED
  BY <1>6, <1>8 DEF BodyAhead

\* A stream that ended keeps what it has of the body ...
LEMMA BodyEof ==
  ASSUME NEW s, NEW e, NEW a, NEW k, NEW q, BodyAhead(s, e, a, k, q)
  PROVE  BodyAhead(s, TRUE, a, k, q)
<1>1. ASSUME NEW t, NEW p, Whole(s, e, a, k, q, t, p) PROVE Whole(s, TRUE, a, k, q, t, p)
  BY <1>1, AheadEof DEF Whole
<1> QED
  BY <1>1 DEF BodyAhead

\* ... or loses it.
LEMMA BodyLost ==
  ASSUME NEW s \in Seq(Request), Numbers(s), NEW e, NEW a \in Nat, NEW k, NEW q,
         BodyAhead(s, e, a, k, q)
  PROVE  BodyAhead(s, TRUE, a, k, <<>>)
<1>1. \A x \in Seq(Pieces) : <<>> = SubSeq(x, 1, 0) /\ 0 <= Len(x)
  BY SubSeqEmpty
<1>2. CASE \E t \in Nat, p \in Seq(Pieces) : Whole(s, e, a, k, q, t, p)
  <2>1. PICK t \in Nat, p \in Seq(Pieces) : Whole(s, e, a, k, q, t, p)
    BY <1>2
  <2> DEFINE r == s[a + 1]
             v == BodyOf(r, t)
  <2>2. a + 1 \in 1..Len(s) /\ k = Headless(r)
    BY <2>1 DEF Whole
  <2>3. r \in Request /\ Framed(r) /\ r.id = a + 1
    BY <2>2 DEF Numbers
  <2>4. v \in Seq(Pieces)
    BY <2>3, EncodeIs
  <2>5. a < Len(s) /\ a <= Len(s) /\ a # Len(s)
    BY <2>2
  <2>6. Stops(s, a, k, <<>>, r, t, 0)
    BY <1>1, <2>2, <2>3, <2>4, <2>5 DEF Stops
  <2> QED
    BY <2>3, <2>6 DEF BodyAhead
<1>3. CASE \E r \in Request, t \in Nat, n \in Nat : Stops(s, a, k, q, r, t, n)
  <2>1. PICK r \in Request, t \in Nat, n \in Nat : Stops(s, a, k, q, r, t, n)
    BY <1>3
  <2> DEFINE v == BodyOf(r, t)
  <2>2. /\ a <= Len(s) /\ Framed(r) /\ r.id = a + 1 /\ k = Headless(r)
        /\ a < Len(s) => r = s[a + 1]
        /\ a = Len(s) => n < Len(v)
    BY <2>1 DEF Stops
  <2>3. v \in Seq(Pieces) /\ Len(v) \in Nat
    BY EncodeIs
  <2>4. a = Len(s) => 0 < Len(v)
    BY <2>2, <2>3
  <2>5. \A i \in 1..0 : <<>>[i].kind # "last"
    OBVIOUS
  <2>6. Stops(s, a, k, <<>>, r, t, 0)
    BY <1>1, <2>2, <2>3, <2>4, <2>5 DEF Stops
  <2> QED
    BY <2>6 DEF BodyAhead
<1> QED
  BY <1>2, <1>3 DEF BodyAhead

\* A stream of requests starts with the line of the next one.
LEMMA LineFirst ==
  ASSUME NEW s \in Seq(Request), Numbers(s), NEW e, NEW a \in Nat, NEW q,
         Ahead(s, e, a, q), q # <<>>
  PROVE  q[1].kind \in Methods /\ q[1].v = a + 1
<1>1. /\ q \in Seq(Pieces) /\ a <= Len(s)
      /\ \/ q = <<>>
         \/ e /\ CutOf(q, a, s)
         \/ /\ a + 1 \in 1..Len(s)
            /\ \E t \in Nat, p \in Seq(Pieces) :
                 q = Encode(s[a + 1], t) \o p /\ Ahead(s, e, a + 1, p)
  BY AheadNext
<1>2. PICK r \in Request, t \in Nat, n \in Nat :
        Framed(r) /\ r.id = a + 1 /\ 1 <= n /\ Leading(q, Encode(r, t), n)
  <2>1. CASE CutOf(q, a, s)
    <3>1. PICK r \in Request, t \in Nat, n \in Nat :
            /\ 1 <= n /\ n <= Len(Encode(r, t)) /\ Framed(r) /\ r.id = a + 1
            /\ q = SubSeq(Encode(r, t), 1, n)
      BY <2>1 DEF CutOf
    <3>2. Encode(r, t) \in Seq(Pieces)
      BY EncodeIs
    <3>3. Leading(q, Encode(r, t), n)
      BY <3>1, <3>2, FrontCut
    <3> QED
      BY <3>1, <3>3
  <2>2. CASE /\ a + 1 \in 1..Len(s)
             /\ \E t \in Nat, p \in Seq(Pieces) :
                  q = Encode(s[a + 1], t) \o p /\ Ahead(s, e, a + 1, p)
    <3>1. PICK t \in Nat, p \in Seq(Pieces) : q = Encode(s[a + 1], t) \o p
      BY <2>2
    <3> DEFINE r == s[a + 1]
    <3>2. r \in Request /\ Framed(r) /\ r.id = a + 1
      BY <2>2 DEF Numbers
    <3> HIDE DEF r
    <3> DEFINE x == Encode(r, t)
    <3>3. x \in Seq(Pieces) /\ q = x \o p
      BY <3>1, <3>2, EncodeIs DEF r
    <3>4. Len(x) >= Len(r.headers) + 2 /\ Len(r.headers) \in Nat
      BY <3>2, EncodeLen
    <3>5. 1 <= Len(x)
      BY <3>3, <3>4
    <3> HIDE DEF x
    <3>6. Leading(q, x, Len(x)) /\ Len(x) \in Nat
      BY <3>3, FrontWhole
    <3> QED
      BY <3>2, <3>5, <3>6 DEF x
  <2> QED
    BY <1>1, <2>1, <2>2
<1>3. Encode(r, t)[1] = Piece(r.method, r.id) /\ r.method \in Methods
  BY <1>2, HeadKinds
<1>4. 1 \in 1..n
  BY <1>2
<1>5. q[1] = Encode(r, t)[1]
  BY <1>2, <1>4 DEF Leading
<1> QED
  BY <1>2, <1>3, <1>5 DEF Piece

-----------------------------------------------------------------------------
(* The parser and its stream.                                              *)

\* A connection has all that was sent and not read ahead of it.
Stream(c, e) ==
  conn[c].pc # "closed" =>
    /\ conn[c].pc # "body" => Ahead(sent[c], e, conn[c].taken, in[c])
    /\ conn[c].pc = "body" =>
         BodyAhead(sent[c], e, conn[c].taken, conn[c].req, in[c])

\* The request that is served is the last one that was taken, as it was sent.
Serving == {"trip", "emit", "write"}

Requests(c) ==
  /\ Numbers(sent[c]) /\ conn[c].taken <= Len(sent[c])
  /\ conn[c].pc \in Serving =>
       conn[c].taken \in 1..Len(sent[c]) /\ conn[c].req = sent[c][conn[c].taken]

PipeOf(c) ==
  Requests(c) /\ (c \in eof => Stream(c, TRUE)) /\ (c \notin eof => Stream(c, FALSE))

Pipe == \A c \in Conns : PipeOf(c)

\* Only the connection a step is about matters.
LEMMA PipeStep ==
  ASSUME Typed, Pipe, NEW c \in Conns, PipeOf(c)',
         \A d \in Conns : d # c =>
           /\ conn'[d] = conn[d] /\ in'[d] = in[d] /\ sent'[d] = sent[d]
           /\ d \in eof' <=> d \in eof
  PROVE  Pipe'
<1>1. ASSUME NEW d \in Conns, d # c PROVE PipeOf(d)'
  <2>1. /\ conn'[d] = conn[d] /\ in'[d] = in[d] /\ sent'[d] = sent[d]
        /\ d \in eof' <=> d \in eof
    BY <1>1
  <2>2. PipeOf(d)
    BY DEF Pipe
  <2> QED
    BY <2>1, <2>2 DEF PipeOf, Requests, Stream
<1> QED
  BY <1>1 DEF Pipe

\* A connection goes on without reading, or closes.
Onward(c) ==
  /\ \A d \in Conns : d # c => conn'[d] = conn[d]
  /\ conn'[c].taken = conn[c].taken
  /\ \/ conn'[c].pc = "closed"
     \/ /\ conn[c].pc \notin {"closed", "body"} /\ conn'[c].pc \notin {"closed", "body"}
        /\ conn'[c].pc \in Serving =>
             conn[c].pc \in Serving /\ conn'[c].req = conn[c].req

\* Steps that read nothing leave the pipeline as it is.
LEMMA PipeConn ==
  ASSUME Typed, Pipe, NEW c \in Conns, Onward(c), UNCHANGED <<in, sent, eof>>
  PROVE  Pipe'
<1>1. PipeOf(c)
  BY DEF Pipe
<1>2. Requests(c)'
  BY <1>1 DEF PipeOf, Requests, Serving, Onward
<1>3. (c \in eof' => Stream(c, TRUE)') /\ (c \notin eof' => Stream(c, FALSE)')
  BY <1>1 DEF PipeOf, Stream, Onward
<1>4. PipeOf(c)'
  BY <1>2, <1>3 DEF PipeOf
<1>5. \A d \in Conns : d # c =>
        /\ conn'[d] = conn[d] /\ in'[d] = in[d] /\ sent'[d] = sent[d]
        /\ d \in eof' <=> d \in eof
  BY DEF Onward
<1> QED
  BY <1>4, <1>5, PipeStep

\* The steps that do not read.
LEMMA CloseOnward ==
  ASSUME Typed, NEW c \in Conns, Close(c)
  PROVE  Onward(c)
<1>1. \A d \in Conns : d # c => conn'[d] = conn[d]
  BY DEF Close, Typed
<1>2. conn'[c] = Closed(conn[c])
  BY DEF Close, Typed
<1>3. conn'[c].pc = "closed" /\ conn'[c].taken = conn[c].taken
  BY <1>2 DEF Closed, Fresh
<1> QED
  BY <1>1, <1>3 DEF Onward

\* The steps of handle and serveH1 that read nothing of a request.
LEMMA ServeOnward ==
  ASSUME Typed, NEW c \in Conns,
         \/ \E n \in Hosts \union {NoHost} : ReadConnect(c, <<n, 443>>)
         \/ \E n \in Hosts \union {NoHost}, h2 \in BOOLEAN : PeekClientHello(c, n, h2)
         \/ GiveUp(c) \/ LeafFor(c) \/ Handshake(c) \/ ServeH2Returns(c)
         \/ Emit(c) \/ WriteH1Response(c)
         \/ \E ok \in BOOLEAN : Mint(c, ok) \/ ForConn(c, ok)
         \/ \E r \in Origin \union {errorResponse}, reached \in BOOLEAN :
              RoundTrip(c, r, reached)
  PROVE  Onward(c) /\ UNCHANGED <<in, sent, eof>>
<1>1. conn[c] \in ConnRecord
  BY DEF Typed
<1>2. CASE Close(c)
  <2>1. UNCHANGED <<in, sent, eof>>
    BY DEF ReadConnect, PeekClientHello, GiveUp, LeafFor, Handshake, ServeH2Returns,
           Emit, WriteH1Response, Mint, ForConn, RoundTrip, client
  <2> QED
    BY <1>2, <2>1, CloseOnward
<1>3. ASSUME NEW n, ReadConnect(c, <<n, 443>>), ~Close(c)
      PROVE  Onward(c) /\ UNCHANGED <<in, sent, eof>>
  <2>1. /\ \A d \in Conns : d # c => conn'[d] = conn[d]
        /\ conn'[c].pc = "hello" /\ conn'[c].taken = conn[c].taken
    BY <1>1, <1>3 DEF ReadConnect, Typed, ConnRecord
  <2> QED
    BY <1>3, <2>1 DEF Onward, Serving, ReadConnect, client
<1>4. ASSUME NEW n, NEW h2, PeekClientHello(c, n, h2)
      PROVE  Onward(c) /\ UNCHANGED <<in, sent, eof>>
  <2>1. /\ \A d \in Conns : d # c => conn'[d] = conn[d]
        /\ conn'[c].pc = "leaf" /\ conn'[c].taken = conn[c].taken
    BY <1>1, <1>4 DEF PeekClientHello, Typed, ConnRecord
  <2> QED
    BY <1>4, <2>1 DEF Onward, Serving, PeekClientHello, client
<1>5. ASSUME LeafFor(c), ~Close(c) PROVE Onward(c) /\ UNCHANGED <<in, sent, eof>>
  <2>1. /\ \A d \in Conns : d # c => conn'[d] = conn[d]
        /\ conn'[c].pc \in {"handshake", "mint"} /\ conn'[c].taken = conn[c].taken
    BY <1>1, <1>5 DEF LeafFor, Goto, Typed, ConnRecord
  <2> QED
    BY <1>5, <2>1 DEF Onward, Serving, LeafFor, client
<1>6. ASSUME NEW ok \in BOOLEAN, Mint(c, ok), ~Close(c)
      PROVE  Onward(c) /\ UNCHANGED <<in, sent, eof>>
  <2>1. /\ \A d \in Conns : d # c => conn'[d] = conn[d]
        /\ conn'[c].pc = "handshake" /\ conn'[c].taken = conn[c].taken
    BY <1>1, <1>6 DEF Mint, Typed, ConnRecord
  <2> QED
    BY <1>6, <2>1 DEF Onward, Serving, Mint, client
<1>7. ASSUME Handshake(c) PROVE Onward(c) /\ UNCHANGED <<in, sent, eof>>
  <2>1. /\ \A d \in Conns : d # c => conn'[d] = conn[d]
        /\ conn'[c].pc \in {"h1", "h2"} /\ conn'[c].taken = conn[c].taken
    BY <1>1, <1>7 DEF Handshake, Goto, Typed, ConnRecord
  <2> QED
    BY <1>7, <2>1 DEF Onward, Serving, Handshake, client
<1>8. ASSUME NEW ok \in BOOLEAN, ForConn(c, ok)
      PROVE  Onward(c) /\ UNCHANGED <<in, sent, eof>>
  <2>1. \A d \in Conns : d # c => conn'[d] = conn[d]
    BY <1>8 DEF ForConn, Typed
  <2>2. conn'[c].pc \in {"read", "closed"} /\ conn'[c].taken = conn[c].taken
    BY <1>1, <1>8 DEF ForConn, Typed, ConnRecord, Closed, Fresh
  <2> QED
    BY <1>8, <2>1, <2>2 DEF Onward, Serving, ForConn, client
<1>9. ASSUME NEW r, NEW reached, RoundTrip(c, r, reached)
      PROVE  Onward(c) /\ UNCHANGED <<in, sent, eof>>
  <2>1. /\ \A d \in Conns : d # c => conn'[d] = conn[d]
        /\ conn'[c].pc = "emit" /\ conn'[c].taken = conn[c].taken
        /\ conn'[c].req = conn[c].req
    BY <1>1, <1>9 DEF RoundTrip, Typed, ConnRecord
  <2> QED
    BY <1>9, <2>1 DEF Onward, Serving, RoundTrip, client
<1>10. ASSUME Emit(c) PROVE Onward(c) /\ UNCHANGED <<in, sent, eof>>
  <2>1. /\ \A d \in Conns : d # c => conn'[d] = conn[d]
        /\ conn'[c].pc = "write" /\ conn'[c].taken = conn[c].taken
        /\ conn'[c].req = conn[c].req
    BY <1>1, <1>10 DEF Emit, Goto, Typed, ConnRecord
  <2> QED
    BY <1>10, <2>1 DEF Onward, Serving, Emit, client
<1>11. ASSUME WriteH1Response(c), ~Close(c) PROVE Onward(c) /\ UNCHANGED <<in, sent, eof>>
  <2>1. /\ \A d \in Conns : d # c => conn'[d] = conn[d]
        /\ conn'[c].pc = "read" /\ conn'[c].taken = conn[c].taken
    BY <1>1, <1>11 DEF WriteH1Response, Typed, ConnRecord
  <2> QED
    BY <1>11, <2>1 DEF Onward, Serving, WriteH1Response, client
<1> QED
  BY <1>2, <1>3, <1>4, <1>5, <1>6, <1>7, <1>8, <1>9, <1>10, <1>11
     DEF GiveUp, ServeH2Returns

\* ReadHead leaves the reader at the body of the request ...
LEMMA PipeHead ==
  ASSUME Typed, Pipe, NEW c \in Conns, ReadHead(c)
  PROVE  Pipe'
<1>1. /\ conn[c].pc = "read" /\ UNCHANGED <<sent, eof>> /\ in[c] \in Seq(Pieces)
      /\ \/ Close(c) /\ UNCHANGED in
         \/ \E h, hs, k, r : HeadRead(c, h, hs, k, r)
  BY ReadHeadIs DEF client
<1>2. CASE Close(c) /\ UNCHANGED in
  BY <1>1, <1>2, CloseOnward, PipeConn
<1>3. CASE \E h, hs, k, r : HeadRead(c, h, hs, k, r)
  <2>1. PICK h, hs, k, r : HeadRead(c, h, hs, k, r)
    BY <1>3
  <2>2. /\ h = readHeaders(in[c], c \in eof) /\ h.st = "ok"
        /\ hs = SubSeq(in[c], 2, h.end - 1)
        /\ r = [id |-> in[c][1].v, method |-> in[c][1].kind, headers |-> hs, body |-> 0,
                chunked |-> hasChunked(hs)]
        /\ k = [conn[c] EXCEPT !.pc = "body", !.req = r]
        /\ conn' = [conn EXCEPT ![c] = k]
        /\ in' = [in EXCEPT ![c] = SubSeq(in[c], h.end + 1, Len(in[c]))]
    BY <2>1 DEF HeadRead
  <2>3. PipeOf(c) /\ conn[c] \in ConnRecord /\ sent[c] \in Seq(Request)
    BY DEF Pipe, Typed
  <2>4. k.pc = "body" /\ k.req = r /\ k.taken = conn[c].taken /\ conn[c].taken \in Nat
    BY <2>2, <2>3 DEF ConnRecord
  <2>5. Requests(c) /\ Numbers(sent[c])
    BY <2>3 DEF PipeOf, Requests
  <2>6. /\ conn'[c] = k /\ in'[c] = SubSeq(in[c], h.end + 1, Len(in[c]))
        /\ \A d \in Conns : d # c => conn'[d] = conn[d] /\ in'[d] = in[d]
    BY <2>2 DEF Typed
  <2>7. ASSUME NEW e, Stream(c, e)
        PROVE  BodyAhead(sent[c], e, conn[c].taken, r, in'[c])
    <3>1. Ahead(sent[c], e, conn[c].taken, in[c])
      BY <1>1, <2>7 DEF Stream
    <3>2. PICK s, a, q : s = sent[c] /\ a = conn[c].taken /\ q = in[c]
      OBVIOUS
    <3>3. /\ s \in Seq(Request) /\ Numbers(s) /\ a \in Nat /\ Ahead(s, e, a, q)
          /\ h.st = "ok" /\ hs = SubSeq(q, 2, h.end - 1)
          /\ r = [id |-> q[1].v, method |-> q[1].kind, headers |-> hs, body |-> 0,
                  chunked |-> hasChunked(hs)]
      BY <2>2, <2>3, <2>4, <2>5, <3>1, <3>2
    <3>4. PICK f : h = readHeaders(q, f)
      BY <2>2, <3>2
    <3>5. BodyAhead(s, e, a, r, SubSeq(q, h.end + 1, Len(q)))
      BY <3>3, <3>4, HeadStep
    <3> QED
      BY <2>6, <3>2, <3>5
  <2>8. Requests(c)'
    BY <1>1, <2>4, <2>5, <2>6 DEF Requests, Serving
  <2>9. PipeOf(c)'
    BY <1>1, <2>3, <2>4, <2>6, <2>7, <2>8 DEF PipeOf, Stream
  <2> QED
    BY <1>1, <2>6, <2>9, PipeStep
<1> QED
  BY <1>1, <1>2, <1>3

\* ... and ReadBody at the start of the request behind it.
LEMMA PipeBody ==
  ASSUME Typed, Pipe, NEW c \in Conns, ReadBody(c)
  PROVE  Pipe'
<1>1. /\ conn[c].pc = "body" /\ UNCHANGED <<sent, eof>> /\ in[c] \in Seq(Pieces)
      /\ \/ Close(c) /\ UNCHANGED in
         \/ \E b, k, r : BodyRead(c, b, k, r)
  BY ReadBodyStep DEF client
<1>2. CASE Close(c) /\ UNCHANGED in
  BY <1>1, <1>2, CloseOnward, PipeConn
<1>3. CASE \E b, k, r : BodyRead(c, b, k, r)
  <2>1. PICK b, k, r : BodyRead(c, b, k, r)
    BY <1>3
  <2>2. /\ b = readBody(in[c], conn[c].req.headers, c \in eof) /\ b.st = "ok"
        /\ r = [conn[c].req EXCEPT !.body = b.body]
        /\ k = [conn[c] EXCEPT !.pc = "trip", !.taken = @ + 1, !.req = r]
        /\ conn' = [conn EXCEPT ![c] = k]
        /\ in' = [in EXCEPT ![c] = SubSeq(in[c], b.end + 1, Len(in[c]))]
    BY <2>1 DEF BodyRead
  <2>3. PipeOf(c) /\ conn[c] \in ConnRecord /\ sent[c] \in Seq(Request)
    BY DEF Pipe, Typed
  <2>4. k.pc = "trip" /\ k.req = r /\ k.taken = conn[c].taken + 1 /\ conn[c].taken \in Nat
    BY <2>2, <2>3 DEF ConnRecord
  <2>5. Requests(c) /\ Numbers(sent[c])
    BY <2>3 DEF PipeOf, Requests
  <2>6. /\ conn'[c] = k /\ in'[c] = SubSeq(in[c], b.end + 1, Len(in[c]))
        /\ \A d \in Conns : d # c => conn'[d] = conn[d] /\ in'[d] = in[d]
    BY <2>2 DEF Typed
  <2>7. ASSUME NEW e, Stream(c, e)
        PROVE  /\ k.taken \in 1..Len(sent[c]) /\ r = sent[c][k.taken]
               /\ Ahead(sent[c], e, k.taken, in'[c])
    <3>1. BodyAhead(sent[c], e, conn[c].taken, conn[c].req, in[c])
      BY <1>1, <2>7 DEF Stream
    <3>2. PICK s, a, p, q :
            s = sent[c] /\ a = conn[c].taken /\ p = conn[c].req /\ q = in[c]
      OBVIOUS
    <3>3. /\ s \in Seq(Request) /\ Numbers(s) /\ a \in Nat /\ q \in Seq(Pieces)
          /\ BodyAhead(s, e, a, p, q) /\ b.st = "ok"
      BY <1>1, <2>2, <2>3, <2>4, <2>5, <3>1, <3>2
    <3>4. PICK f : b = readBody(q, p.headers, f)
      BY <2>2, <3>2
    <3>5. r = [p EXCEPT !.body = b.body]
      BY <2>2, <3>2
    <3>6. Served(s, e, a, r, q, b)
      BY <3>3, <3>4, <3>5, BodyStep
    <3> QED
      BY <2>2, <2>4, <2>6, <3>2, <3>6 DEF Served
  <2>8. k.taken \in 1..Len(sent[c]) /\ r = sent[c][k.taken] /\ k.taken <= Len(sent[c])
    <3>1. k.taken \in 1..Len(sent[c]) /\ r = sent[c][k.taken]
      BY <2>3, <2>7 DEF PipeOf
    <3> QED
      BY <2>3, <3>1
  <2>9. Requests(c)'
    BY <1>1, <2>4, <2>5, <2>6, <2>8 DEF Requests, Serving
  <2>10. PipeOf(c)'
    BY <1>1, <2>3, <2>4, <2>6, <2>7, <2>9 DEF PipeOf, Stream
  <2> QED
    BY <1>1, <2>6, <2>10, PipeStep
<1> QED
  BY <1>1, <1>2, <1>3

\* A request sent later changes none of the earlier ones.
\* z is s, of length l, and r.
Grown(s, l, r, z) ==
  /\ z \in Seq(Request) /\ Numbers(z) /\ Len(z) = l + 1 /\ l <= Len(z) /\ l \in Nat
  /\ z[l + 1] = r /\ \A k \in 1..l : z[k] = s[k]

\* The next request of the client continues the numbering.
LEMMA NumbersAppend ==
  ASSUME NEW s \in Seq(Request), Numbers(s), NEW l, l = Len(s), NEW r \in Request,
         Framed(r), r.id = l + 1
  PROVE  Grown(s, l, r, Append(s, r)) /\ Ahead(s, FALSE, l, <<>>)
<1>1. PICK z : z = Append(s, r)
  OBVIOUS
<1>2. z \in Seq(Request) /\ Len(z) = Len(s) + 1 /\ Len(s) \in Nat
  BY <1>1
<1>3. z[Len(s) + 1] = r /\ \A k \in 1..Len(s) : z[k] = s[k]
  BY <1>1
<1>4. \A k \in 1..(Len(s) + 1) : k \in 1..Len(s) \/ k = Len(s) + 1
  BY <1>2
<1>5. Numbers(z)
  BY <1>2, <1>3, <1>4 DEF Numbers
<1>6. Len(s) <= Len(z)
  BY <1>2
<1>7. Ahead(s, FALSE, l, <<>>)
  <2>1. l <= Len(s)
    BY <1>2
  <2> QED
    BY <1>2, <2>1, AheadNone
<1> QED
  BY <1>1, <1>2, <1>3, <1>5, <1>6, <1>7 DEF Grown

\* ... so the request that is served stays the one that was sent.
LEMMA RequestsGrow ==
  ASSUME Typed, NEW c \in Conns, Requests(c), UNCHANGED conn,
         NEW z \in Seq(Request), Numbers(z), Len(sent[c]) <= Len(z),
         \A k \in 1..Len(sent[c]) : z[k] = sent[c][k], sent'[c] = z
  PROVE  Requests(c)'
<1>1. Len(sent[c]) \in Nat /\ Len(z) \in Nat /\ conn[c].taken \in Nat
  BY DEF Typed, ConnRecord
<1>2. conn[c].taken <= Len(z)
  BY <1>1 DEF Requests
<1>3. conn[c].pc \in Serving =>
        conn[c].taken \in 1..Len(z) /\ conn[c].req = z[conn[c].taken]
  BY <1>1 DEF Requests
<1> QED
  BY <1>2, <1>3 DEF Requests

\* Bytes y, sent behind everything, go behind everything.
LEMMA StreamThen ==
  ASSUME Typed, NEW c \in Conns, Requests(c), Stream(c, FALSE), UNCHANGED conn,
         NEW z \in Seq(Request), Len(sent[c]) <= Len(z),
         \A k \in 1..Len(sent[c]) : z[k] = sent[c][k], sent'[c] = z,
         NEW e, NEW y \in Seq(Pieces), Ahead(z, e, Len(sent[c]), y), in'[c] = in[c] \o y
  PROVE  Stream(c, e)'
<1>1. PICK s, a, q, k : s = sent[c] /\ a = conn[c].taken /\ q = in[c] /\ k = conn[c].req
  OBVIOUS
<1>2. /\ s \in Seq(Request) /\ Numbers(s) /\ a \in Nat
      /\ Len(s) <= Len(z) /\ \A i \in 1..Len(s) : z[i] = s[i]
      /\ Ahead(z, e, Len(s), y)
  BY <1>1 DEF Typed, ConnRecord, Requests
<1>3. ASSUME Ahead(s, FALSE, a, q) PROVE Ahead(z, e, a, q \o y)
  BY <1>2, <1>3, AheadThen
<1>4. ASSUME BodyAhead(s, FALSE, a, k, q) PROVE BodyAhead(z, e, a, k, q \o y)
  BY <1>2, <1>4, BodyThen
<1> QED
  BY <1>1, <1>3, <1>4 DEF Stream

\* Send appends a whole request to the stream.
LEMMA PipeSend ==
  ASSUME Typed, Pipe, NEW c \in Conns, NEW s \in Shapes, Send(c, s)
  PROVE  Pipe'
<1>1. PICK r, x : r = Numbered(s, c) /\ x = Encode(r, s.trailers)
  OBVIOUS
<1>2. r \in Request /\ Framed(r) /\ r.id = Len(sent[c]) + 1 /\ s.trailers \in Nat
  BY <1>1, NumberedIs
<1>3. x \in Seq(Pieces)
  BY <1>1, <1>2, EncodeIs
<1>4. /\ sent' = [sent EXCEPT ![c] = Append(@, r)] /\ in' = [in EXCEPT ![c] = @ \o x]
      /\ c \notin eof /\ UNCHANGED <<conn, eof>>
  BY <1>1 DEF Send
<1>5. /\ sent'[c] = Append(sent[c], r) /\ in'[c] = in[c] \o x
      /\ \A d \in Conns : d # c => in'[d] = in[d] /\ sent'[d] = sent[d]
  BY <1>4 DEF Typed
<1>6. PipeOf(c) /\ sent[c] \in Seq(Request)
  BY DEF Pipe, Typed
<1>7. Requests(c) /\ Numbers(sent[c]) /\ Stream(c, FALSE)
  BY <1>4, <1>6 DEF PipeOf, Requests
<1>8. PICK z, l : z = Append(sent[c], r) /\ l = Len(sent[c])
  OBVIOUS
<1>9. Grown(sent[c], l, r, z) /\ Ahead(sent[c], FALSE, l, <<>>)
  BY <1>2, <1>6, <1>7, <1>8, NumbersAppend
<1>10. /\ z \in Seq(Request) /\ Numbers(z) /\ Len(z) = l + 1 /\ l <= Len(z)
      /\ z[l + 1] = r /\ \A k \in 1..l : z[k] = sent[c][k]
  BY <1>9 DEF Grown
<1>11. Requests(c)'
  BY <1>4, <1>5, <1>7, <1>8, <1>10, RequestsGrow
<1>12. Ahead(z, FALSE, l, x)
  <2>1. l \in Nat
    BY <1>6, <1>8
  <2>2. Ahead(z, FALSE, l, <<>> \o x)
    BY <1>9, <1>1, <1>2, <1>6, <1>8, <2>1, AheadSent
  <2>3. <<>> \o x = x
    BY <1>3
  <2> QED
    BY <2>2, <2>3
<1>13. Stream(c, FALSE)'
  BY <1>3, <1>4, <1>5, <1>7, <1>8, <1>10, <1>12, StreamThen
<1>14. PipeOf(c)'
  BY <1>4, <1>11, <1>13 DEF PipeOf
<1> QED
  BY <1>4, <1>5, <1>14, PipeStep

\* SendCut appends the start of one and ends the stream.
LEMMA PipeSendCut ==
  ASSUME Typed, Pipe, NEW c \in Conns, NEW s \in Shapes, NEW k \in 1..MaxCut,
         SendCut(c, s, k)
  PROVE  Pipe'
<1>1. PICK r, t, x, y, l : /\ r = Numbered(s, c) /\ t = s.trailers /\ x = Encode(r, t)
                           /\ y = SubSeq(x, 1, k) /\ l = Len(sent[c])
  OBVIOUS
<1>2. r \in Request /\ Framed(r) /\ r.id = l + 1 /\ t \in Nat /\ l \in Nat
  BY <1>1, NumberedIs DEF Typed
<1>3. x \in Seq(Pieces) /\ Len(x) \in Nat /\ k \in 1..(Len(x) - 1)
  BY <1>1, CutIs
<1>4. y \in Seq(Pieces) /\ Len(y) = k
  BY <1>1, <1>3
<1>5. /\ sent' = IF First(y, 1, {"last"}) # 0
                 THEN [sent EXCEPT ![c] = Append(@, r)] ELSE sent
      /\ in' = [in EXCEPT ![c] = @ \o y]
      /\ c \notin eof /\ eof' = eof \union {c} /\ UNCHANGED conn
  BY <1>1 DEF SendCut
<1>6. PipeOf(c) /\ sent[c] \in Seq(Request)
  BY DEF Pipe, Typed
<1>7. Requests(c) /\ Numbers(sent[c]) /\ Stream(c, FALSE)
  BY <1>5, <1>6 DEF PipeOf, Requests
<1>8. Grown(sent[c], l, r, Append(sent[c], r)) /\ Ahead(sent[c], FALSE, l, <<>>)
  BY <1>1, <1>2, <1>6, <1>7, NumbersAppend
<1>9. PICK z : /\ z \in Seq(Request) /\ Numbers(z) /\ l <= Len(z)
               /\ \A i \in 1..l : z[i] = sent[c][i]
               /\ sent'[c] = z /\ \A d \in Conns : d # c => sent'[d] = sent[d]
               /\ l < Len(z) => r = z[l + 1]
               /\ l = Len(z) => \A i \in 1..k : y[i].kind # "last"
  <2>1. CASE First(y, 1, {"last"}) # 0
    <3>1. PICK z : z = Append(sent[c], r)
      OBVIOUS
    <3>2. /\ z \in Seq(Request) /\ Numbers(z) /\ Len(z) = l + 1 /\ l <= Len(z)
          /\ z[l + 1] = r /\ \A i \in 1..l : z[i] = sent[c][i]
      BY <1>8, <3>1 DEF Grown
    <3>3. sent'[c] = z /\ \A d \in Conns : d # c => sent'[d] = sent[d]
      BY <1>5, <2>1, <3>1 DEF Typed
    <3>4. l # Len(z)
      BY <1>2, <3>2
    <3> QED
      BY <3>2, <3>3, <3>4
  <2>2. CASE First(y, 1, {"last"}) = 0
    <3>1. \A i \in 1..k : y[i].kind # "last"
      <4>1. PICK f, K : f = First(y, 1, K) /\ f = 0 /\ K = {"last"}
        BY <2>2
      <4>2. 1 \in Nat \ {0}
        OBVIOUS
      <4>3. \/ f = 0 /\ \A j \in 1..Len(y) : y[j].kind \notin K
            \/ f \in 1..Len(y)
        BY <1>4, <4>1, <4>2, FirstIs
      <4>4. \A j \in 1..Len(y) : y[j].kind \notin K
        BY <4>1, <4>3
      <4> QED
        BY <1>4, <4>1, <4>4
    <3>2. sent' = sent
      BY <1>5, <2>2
    <3>3. l <= Len(sent[c]) /\ ~(l < Len(sent[c]))
      BY <1>1, <1>2
    <3> QED
      BY <1>1, <1>6, <1>7, <3>1, <3>2, <3>3
  <2> QED
    BY <2>1, <2>2
<1>10. in'[c] = in[c] \o y /\ \A d \in Conns : d # c => in'[d] = in[d]
  BY <1>5 DEF Typed
<1>11. Requests(c)'
  BY <1>1, <1>5, <1>7, <1>9, RequestsGrow
<1>12. CutOf(y, l, z)
  <2>1. k \in Nat /\ 1 <= k /\ k <= Len(x) /\ k < Len(x)
    BY <1>3
  <2> QED
    BY <1>1, <1>2, <1>9, <2>1 DEF CutOf
<1>13. Ahead(z, TRUE, l, y)
  <2>1. Ahead(z, TRUE, l, <<>> \o y)
    BY <1>8, <1>1, <1>2, <1>4, <1>6, <1>9, <1>12, AheadCutShort
  <2>2. <<>> \o y = y
    BY <1>4
  <2> QED
    BY <2>1, <2>2
<1>14. Stream(c, TRUE)'
  <2>1. PICK e : e = TRUE
    OBVIOUS
  <2>2. /\ Len(sent[c]) <= Len(z) /\ \A i \in 1..Len(sent[c]) : z[i] = sent[c][i]
        /\ Ahead(z, e, Len(sent[c]), y) /\ UNCHANGED conn
    BY <1>1, <1>5, <1>9, <1>13, <2>1
  <2>3. Stream(c, e)'
    BY <1>4, <1>7, <1>9, <1>10, <2>2, StreamThen
  <2> QED
    BY <2>1, <2>3
<1>15. PipeOf(c)'
  BY <1>5, <1>11, <1>14 DEF PipeOf
<1>16. \A d \in Conns : d # c => (d \in eof' <=> d \in eof) /\ conn'[d] = conn[d]
  BY <1>5
<1> QED
  BY <1>9, <1>10, <1>15, <1>16, PipeStep

\* The end of the stream leaves what is in it, or loses all of it.
LEMMA PipeEnds ==
  ASSUME Typed, Pipe, NEW c \in Conns,
         EndStream(c) \/ \E lost \in BOOLEAN : Vanish(c, lost)
  PROVE  Pipe'
<1>1. /\ UNCHANGED <<conn, sent>> /\ eof' = eof \union {c}
      /\ in' = in \/ in' = [in EXCEPT ![c] = <<>>]
  BY DEF EndStream, Vanish
<1>2. PipeOf(c)
  BY DEF Pipe
<1>3. PICK e : Stream(c, e)
  BY <1>2 DEF PipeOf
<1>4. PICK s, a, q, k : s = sent[c] /\ a = conn[c].taken /\ q = in[c] /\ k = conn[c].req
  OBVIOUS
<1>5. s \in Seq(Request) /\ Numbers(s) /\ a \in Nat /\ a <= Len(s)
  BY <1>2, <1>4 DEF Typed, ConnRecord, PipeOf, Requests
<1>6. ASSUME Ahead(s, e, a, q) PROVE Ahead(s, TRUE, a, q) /\ Ahead(s, TRUE, a, <<>>)
  BY <1>5, <1>6, AheadEof, AheadNone
<1>7. ASSUME BodyAhead(s, e, a, k, q)
      PROVE  BodyAhead(s, TRUE, a, k, q) /\ BodyAhead(s, TRUE, a, k, <<>>)
  <2>1. BodyAhead(s, TRUE, a, k, q)
    BY <1>7, BodyEof
  <2>2. BodyAhead(s, TRUE, a, k, <<>>)
    BY <1>5, <1>7, BodyLost
  <2> QED
    BY <2>1, <2>2
<1>8. /\ in'[c] = q \/ in'[c] = <<>>
      /\ \A d \in Conns : d # c => in'[d] = in[d]
  BY <1>1, <1>4 DEF Typed
<1>9. Stream(c, TRUE)'
  BY <1>1, <1>3, <1>4, <1>6, <1>7, <1>8 DEF Stream
<1>10. PipeOf(c)'
  BY <1>1, <1>2, <1>9 DEF PipeOf, Requests
<1>11. \A d \in Conns : d # c => (d \in eof' <=> d \in eof)
  BY <1>1
<1> QED
  BY <1>1, <1>8, <1>10, <1>11, PipeStep

\* Every step keeps the streams ...
LEMMA PipeNext == Typed /\ Pipe /\ [Next]_vars => Pipe'
<1> SUFFICES ASSUME Typed, Pipe, [Next]_vars PROVE Pipe'
  OBVIOUS
<1>1. ASSUME UNCHANGED <<conn, in, sent, eof>> PROVE Pipe'
  BY <1>1 DEF Pipe, PipeOf, Requests, Stream
<1>2. ASSUME NEW c \in Conns, Serve(c) PROVE Pipe'
  <2>1. CASE ReadHead(c)
    BY <2>1, PipeHead
  <2>2. CASE ReadBody(c)
    BY <2>2, PipeBody
  <2>3. CASE ~(ReadHead(c) \/ ReadBody(c))
    <3>1. Onward(c) /\ UNCHANGED <<in, sent, eof>>
      BY <1>2, <2>3, ServeOnward DEF Serve
    <3> QED
      BY <3>1, PipeConn
  <2> QED
    BY <2>1, <2>2, <2>3
<1>3. ASSUME NEW c \in Conns, Client(c) PROVE Pipe'
  <2>1. CASE ClientRead(c)
    BY <1>1, <2>1 DEF ClientRead, client
  <2>2. CASE EndStream(c) \/ \E lost \in BOOLEAN : Vanish(c, lost)
    BY <2>2, PipeEnds
  <2>3. ASSUME NEW s \in Shapes, Send(c, s) PROVE Pipe'
    BY <2>3, PipeSend
  <2>4. ASSUME NEW s \in Shapes, NEW k \in 1..MaxCut, SendCut(c, s, k) PROVE Pipe'
    BY <2>4, PipeSendCut
  <2>5. CASE \/ \E n \in Hosts \union {NoHost} : ReadConnect(c, <<n, 443>>)
             \/ \E n \in Hosts \union {NoHost}, h2 \in BOOLEAN : PeekClientHello(c, n, h2)
             \/ Handshake(c) \/ GiveUp(c)
    <3>1. Onward(c) /\ UNCHANGED <<in, sent, eof>>
      BY <2>5, ServeOnward
    <3> QED
      BY <3>1, PipeConn
  <2> QED
    BY <1>3, <2>1, <2>2, <2>3, <2>4, <2>5 DEF Client
<1> QED
  BY <1>1, <1>2, <1>3 DEF Next, Over, vars, client

\* ... from the start.
LEMMA PipeInit == Init => Pipe
<1> SUFFICES ASSUME Init, NEW c \in Conns PROVE PipeOf(c)
  BY DEF Pipe
<1>1. conn[c].pc = "connect" /\ conn[c].taken = 0 /\ sent[c] = <<>> /\ in[c] = <<>> /\ eof = {}
  BY DEF Init, Fresh
<1>2. PICK s, a : s = <<>> /\ a = 0
  OBVIOUS
<1>3. s \in Seq(Request) /\ a \in Nat /\ a <= Len(s) /\ a = Len(s)
  BY <1>2
<1>4. Numbers(s)
  BY <1>2, <1>3 DEF Numbers
<1>5. Ahead(s, FALSE, a, <<>>)
  BY <1>3, AheadNone
<1>6. Requests(c)
  BY <1>1, <1>2, <1>3, <1>4 DEF Requests, Serving
<1>7. Stream(c, FALSE)
  BY <1>1, <1>2, <1>5 DEF Stream
<1> QED
  BY <1>1, <1>6, <1>7 DEF PipeOf

\* The streams are whole in every reachable state.
LEMMA SpecPipe == Spec => [](Typed /\ Leaves /\ Pipe)
<1>1. Init => Pipe
  BY PipeInit
<1>2. Typed /\ Pipe /\ [Next]_vars => Pipe'
  BY PipeNext
<1> QED
  BY <1>1, <1>2, SpecTyped, PTL DEF Spec

\* readBody, readChunked and readHeaders: however the client frames its
\* requests, sends them ahead, cuts one short or vanishes, every read leaves
\* the reader at the request line that follows the one that was taken.
THEOREM Pipeline == Spec => []PipelineIntact
<1>1. Typed /\ Pipe => PipelineIntact
  <2> SUFFICES ASSUME Typed, Pipe, NEW c \in Conns, conn[c].pc = "read", in[c] # <<>>
               PROVE  in[c][1].kind \in Methods /\ in[c][1].v = conn[c].taken + 1
    BY DEF PipelineIntact
  <2>1. PipeOf(c)
    BY DEF Pipe
  <2>2. PICK e : Stream(c, e)
    BY <2>1 DEF PipeOf
  <2>3. Ahead(sent[c], e, conn[c].taken, in[c])
    BY <2>2 DEF Stream
  <2>4. sent[c] \in Seq(Request) /\ Numbers(sent[c]) /\ conn[c].taken \in Nat
    BY <2>1 DEF Typed, ConnRecord, PipeOf, Requests
  <2> QED
    BY <2>3, <2>4, LineFirst
<1> QED
  BY <1>1, SpecPipe, PTL

-----------------------------------------------------------------------------
(* The headers that are passed on.                                         *)

\* They are headers, and no framing ones.
LEMMA EndToEndIs ==
  ASSUME NEW hs \in Seq(Pieces), NEW x, x = EndToEnd(hs)
  PROVE  /\ x \in Seq(Pieces) /\ Len(x) \in Nat
         /\ \A i \in 1..Len(x) : ~isHopByHop(x[i].kind)
<1>1. PICK J : J = {i \in DOMAIN hs : ~isHopByHop(hs[i].kind)}
  OBVIOUS
<1>2. J \in SUBSET (1..Len(hs)) /\ x = At(hs, J)
  BY <1>1, SeqIs DEF EndToEnd
<1>3. x \in Seq(Pieces) /\ Len(x) \in Nat /\ \A i \in 1..Len(x) : \E j \in J : x[i] = hs[j]
  BY <1>2, AtIs
<1>4. \A j \in J : ~isHopByHop(hs[j].kind)
  BY <1>1
<1> QED
  BY <1>3, <1>4

\* Of headers without framing ones, and two framing ones behind them, the former
\* are passed on.
LEMMA EndToEndBut ==
  ASSUME NEW x \in Seq(Pieces), \A i \in 1..Len(x) : ~isHopByHop(x[i].kind),
         NEW p \in Pieces, isHopByHop(p.kind), NEW z \in Pieces, isHopByHop(z.kind)
  PROVE  EndToEnd(x \o <<p, z>>) = x
<1>1. PICK q, n : q = x \o <<p, z>> /\ n = Len(x)
  OBVIOUS
<1>2. /\ n \in Nat /\ q \in Seq(Pieces) /\ Len(q) = n + 2 /\ q[n + 1] = p /\ q[n + 2] = z
      /\ \A i \in 1..n : q[i] = x[i]
  BY <1>1
<1>3. DOMAIN q = 1..(n + 2) /\ n <= Len(q)
  BY <1>2
<1>4. {i \in DOMAIN q : ~isHopByHop(q[i].kind)} = 1..n
  <2>1. \A i \in 1..n : i \in 1..(n + 2) /\ ~isHopByHop(q[i].kind)
    BY <1>1, <1>2
  <2>2. \A i \in 1..(n + 2) : i \in 1..n \/ i = n + 1 \/ i = n + 2
    BY <1>2
  <2> QED
    BY <1>2, <1>3, <2>1, <2>2
<1>5. At(q, 1..n) = SubSeq(q, 1, n)
  BY <1>2, <1>3, AtFirst
<1>6. SubSeq(q, 1, n) \in Seq(Pieces) /\ Len(SubSeq(q, 1, n)) = n
      /\ \A i \in 1..n : SubSeq(q, 1, n)[i] = q[i]
  BY <1>2, <1>3
<1>7. SubSeq(q, 1, n) = x
  BY <1>1, <1>2, <1>6, SeqEq
<1> QED
  BY <1>1, <1>4, <1>5, <1>7 DEF EndToEnd

\* A message declares the length of its body, once.
Lengthy(m) ==
  \A x \in DOMAIN m.headers : m.headers[x].kind = "content-length" => m.headers[x].v = m.body

\* Message and isHopByHop: the client reads off a message the response it was
\* made of, whatever lengths and encodings the origin declared.
LEMMA MessageIs ==
  ASSUME NEW r \in Response
  PROVE  /\ Message(r).ok = r.ok /\ Message(r).body = r.body /\ Lengthy(Message(r))
         /\ \A k : View(k, r) \in Response /\ View(k, Message(r)) = View(k, r)
<1>1. r.ok \in BOOLEAN /\ r.headers \in Seq(Pieces) /\ r.body \in Nat
  BY DEF Response
<1>2. PICK x, p, z : /\ x = EndToEnd(r.headers) /\ p = Piece("content-length", r.body)
                     /\ z = Piece("connection", 0)
  OBVIOUS
<1>3. /\ x \in Seq(Pieces) /\ Len(x) \in Nat
      /\ \A i \in 1..Len(x) : ~isHopByHop(x[i].kind)
  BY <1>1, <1>2, EndToEndIs
<1>4. /\ p \in Pieces /\ p.kind = "content-length" /\ p.v = r.body
      /\ z \in Pieces /\ z.kind = "connection"
  BY <1>1, <1>2, PieceIs DEF PieceTypes, HeaderNames, Framing
<1>5. isHopByHop(p.kind) /\ isHopByHop(z.kind)
  BY <1>4 DEF isHopByHop
<1>6. EndToEnd(x \o <<p, z>>) = x
  BY <1>3, <1>4, <1>5, EndToEndBut
<1>7. PICK m, q : m = Message(r) /\ q = x \o <<p, z>>
  OBVIOUS
<1>8. m = [ok |-> r.ok, body |-> r.body, headers |-> q]
  BY <1>2, <1>7 DEF Message
<1>9. \A i \in DOMAIN q : q[i].kind = "content-length" => q[i].v = r.body
  <2>1. /\ DOMAIN q = 1..(Len(x) + 2) /\ q[Len(x) + 1] = p /\ q[Len(x) + 2] = z
        /\ \A i \in 1..Len(x) : q[i] = x[i]
    BY <1>3, <1>4, <1>7
  <2>2. \A i \in 1..(Len(x) + 2) : i \in 1..Len(x) \/ i = Len(x) + 1 \/ i = Len(x) + 2
    BY <1>3
  <2> QED
    BY <1>3, <1>4, <2>1, <2>2 DEF isHopByHop
<1>10. m.ok = r.ok /\ m.body = r.body /\ m.headers = q
  BY <1>8
<1>11. Lengthy(m)
  BY <1>9, <1>10 DEF Lengthy
<1>12. ASSUME NEW k PROVE View(k, r) \in Response /\ View(k, m) = View(k, r)
  <2>1. PICK b \in Nat : b = IF k = "HEAD" THEN 0 ELSE r.body
    BY <1>1
  <2>2. View(k, r) = [ok |-> r.ok, body |-> b, headers |-> x]
    BY <1>2, <2>1 DEF View
  <2>3. EndToEnd(m.headers) = x
    BY <1>6, <1>7, <1>10
  <2>4. View(k, m) = [ok |-> r.ok, body |-> b, headers |-> x]
    BY <1>10, <2>1, <2>3 DEF View
  <2> QED
    BY <1>1, <1>3, <2>2, <2>4 DEF Response
<1> QED
  BY <1>7, <1>10, <1>11, <1>12

-----------------------------------------------------------------------------
(* What the steps of a connection do to its exchanges.                     *)

\* An origin's answer to HEAD has no body.
Bodiless(method, r) == method = "HEAD" /\ r.ok => r.body = 0

\* Before the first read.
Before == {"connect", "hello", "leaf", "mint", "handshake", "h1", "h2"}

\* The exchanges of the other connections stay as they are.
Others(c) ==
  \A d \in Conns : d # c =>
    conn'[d] = conn[d] /\ sent'[d] = sent[d] /\ out'[d] = out[d] /\ read'[d] = read[d]

\* z is s, or s and one more request within the bound n.
Longer(s, z, n) ==
  \/ z = s
  \/ /\ z \in Seq(Request) /\ Len(z) = Len(s) + 1 /\ Len(z) <= n
     /\ \A k \in 1..Len(s) : z[k] = s[k]

\* Nothing happens to an exchange.
Quiet(c) ==
  /\ Others(c) /\ UNCHANGED <<log, out, read>> /\ Longer(sent[c], sent'[c], MaxReqs[c])
  /\ conn'[c].taken = conn[c].taken /\ conn'[c].mirror = conn[c].mirror
  /\ \/ conn'[c].pc = "closed" \/ conn'[c] = conn[c]
     \/ conn[c].pc \in Before /\ conn'[c].pc \in Before
     \/ conn[c].pc = "read" /\ conn'[c].pc = "body"
     \/ /\ conn[c].pc = "trip" /\ conn'[c].pc = "emit"
        /\ Bodiless(conn'[c].req.method, conn'[c].resp)

\* The mirror is built, or not.
Decides(c) ==
  /\ Others(c) /\ UNCHANGED <<log, out, read, sent>>
  /\ conn[c].pc = "h1" /\ conn'[c].taken = conn[c].taken
  /\ \/ conn'[c].pc = "read" /\ conn'[c].mirror = "built"
     \/ conn'[c].pc = "closed" /\ conn'[c].mirror = "failed"

\* A request is complete.
Takes(c) ==
  /\ Others(c) /\ UNCHANGED <<log, out, read, sent>>
  /\ conn[c].pc = "body" /\ conn'[c].pc = "trip"
  /\ conn'[c].taken = conn[c].taken + 1 /\ conn'[c].mirror = conn[c].mirror

\* It is recorded.
Records(c) ==
  /\ Others(c) /\ UNCHANGED <<out, read, sent>>
  /\ conn[c].pc = "emit" /\ conn'[c] = [conn[c] EXCEPT !.pc = "write"]
  /\ log' = Append(log, [conn |-> c, request |-> conn[c].req, response |-> conn[c].resp])

\* Its answer is written.
Answers(c) ==
  /\ Others(c) /\ UNCHANGED <<log, read, sent>>
  /\ conn[c].pc = "write" /\ conn'[c].pc = "read"
  /\ conn'[c].taken = conn[c].taken /\ conn'[c].mirror = conn[c].mirror
  /\ out'[c] = Append(out[c], Message(conn[c].resp))

\* The client reads one.
Delivers(c) ==
  /\ Others(c) /\ UNCHANGED <<conn, log, out, sent>>
  /\ read[c] < Len(out[c]) /\ read'[c] = read[c] + 1

\* Closing is quiet.
LEMMA CloseQuiet ==
  ASSUME Typed, NEW c \in Conns, Close(c), UNCHANGED <<log, out, read, sent>>
  PROVE  Quiet(c)
<1>1. \A d \in Conns : d # c => conn'[d] = conn[d]
  BY DEF Close, Typed
<1>2. conn'[c] = Closed(conn[c])
  BY DEF Close, Typed
<1>3. /\ conn'[c].pc = "closed" /\ conn'[c].taken = conn[c].taken
      /\ conn'[c].mirror = conn[c].mirror
  BY <1>2 DEF Closed, Fresh
<1> QED
  BY <1>1, <1>3 DEF Quiet, Others, Longer

\* The steps of handle before the requests.
LEMMA HandshakeViews ==
  ASSUME Typed, NEW c \in Conns,
         \/ \E n \in Hosts \union {NoHost} : ReadConnect(c, <<n, 443>>)
         \/ \E n \in Hosts \union {NoHost}, h2 \in BOOLEAN : PeekClientHello(c, n, h2)
         \/ GiveUp(c) \/ LeafFor(c) \/ Handshake(c) \/ ServeH2Returns(c)
         \/ \E ok \in BOOLEAN : Mint(c, ok)
  PROVE  Quiet(c)
<1>1. conn[c] \in ConnRecord
  BY DEF Typed
<1>2. UNCHANGED <<log, out, read, sent>>
  BY DEF ReadConnect, PeekClientHello, GiveUp, LeafFor, Handshake, ServeH2Returns,
         Mint, client
<1>3. CASE Close(c)
  BY <1>2, <1>3, CloseQuiet
<1>4. ASSUME /\ \A d \in Conns : d # c => conn'[d] = conn[d]
             /\ conn[c].pc \in Before /\ conn'[c].pc \in Before
             /\ conn'[c].taken = conn[c].taken /\ conn'[c].mirror = conn[c].mirror
      PROVE  Quiet(c)
  BY <1>2, <1>4 DEF Quiet, Others, Longer
<1>5. ASSUME NEW n, ReadConnect(c, <<n, 443>>), ~Close(c) PROVE Quiet(c)
  <2>1. /\ \A d \in Conns : d # c => conn'[d] = conn[d]
        /\ conn[c].pc = "connect" /\ conn'[c].pc = "hello"
        /\ conn'[c].taken = conn[c].taken /\ conn'[c].mirror = conn[c].mirror
    BY <1>1, <1>5 DEF ReadConnect, Typed, ConnRecord
  <2> QED
    BY <1>4, <2>1 DEF Before
<1>6. ASSUME NEW n, NEW h2, PeekClientHello(c, n, h2) PROVE Quiet(c)
  <2>1. /\ \A d \in Conns : d # c => conn'[d] = conn[d]
        /\ conn[c].pc = "hello" /\ conn'[c].pc = "leaf"
        /\ conn'[c].taken = conn[c].taken /\ conn'[c].mirror = conn[c].mirror
    BY <1>1, <1>6 DEF PeekClientHello, Typed, ConnRecord
  <2> QED
    BY <1>4, <2>1 DEF Before
<1>7. ASSUME LeafFor(c), ~Close(c) PROVE Quiet(c)
  <2>1. /\ \A d \in Conns : d # c => conn'[d] = conn[d]
        /\ conn[c].pc = "leaf" /\ conn'[c].pc \in {"handshake", "mint"}
        /\ conn'[c].taken = conn[c].taken /\ conn'[c].mirror = conn[c].mirror
    BY <1>1, <1>7 DEF LeafFor, Goto, Typed, ConnRecord
  <2> QED
    BY <1>4, <2>1 DEF Before
<1>8. ASSUME NEW ok \in BOOLEAN, Mint(c, ok), ~Close(c) PROVE Quiet(c)
  <2>1. /\ \A d \in Conns : d # c => conn'[d] = conn[d]
        /\ conn[c].pc = "mint" /\ conn'[c].pc = "handshake"
        /\ conn'[c].taken = conn[c].taken /\ conn'[c].mirror = conn[c].mirror
    BY <1>1, <1>8 DEF Mint, Typed, ConnRecord
  <2> QED
    BY <1>4, <2>1 DEF Before
<1>9. ASSUME Handshake(c) PROVE Quiet(c)
  <2>1. /\ \A d \in Conns : d # c => conn'[d] = conn[d]
        /\ conn[c].pc = "handshake" /\ conn'[c].pc \in {"h1", "h2"}
        /\ conn'[c].taken = conn[c].taken /\ conn'[c].mirror = conn[c].mirror
    BY <1>1, <1>9 DEF Handshake, Goto, Typed, ConnRecord
  <2> QED
    BY <1>4, <2>1 DEF Before
<1> QED
  BY <1>3, <1>5, <1>6, <1>7, <1>8, <1>9 DEF GiveUp, ServeH2Returns

\* The steps of serveH1.
LEMMA ServeViews ==
  ASSUME Typed, NEW c \in Conns,
         \/ ReadHead(c) \/ ReadBody(c) \/ Emit(c) \/ WriteH1Response(c)
         \/ \E ok \in BOOLEAN : ForConn(c, ok)
         \/ \E r \in Origin \union {errorResponse}, reached \in BOOLEAN :
              RoundTrip(c, r, reached)
  PROVE  Quiet(c) \/ Decides(c) \/ Takes(c) \/ Records(c) \/ Answers(c)
<1>1. conn[c] \in ConnRecord
  BY DEF Typed
<1>2. ASSUME ReadHead(c) PROVE Quiet(c)
  <2>1. /\ conn[c].pc = "read" /\ UNCHANGED <<log, out, read, sent>>
        /\ Close(c) \/ \E h, hs, k, r : HeadRead(c, h, hs, k, r)
    BY <1>2, ReadHeadIs DEF client
  <2>2. ASSUME NEW h, NEW hs, NEW k, NEW r, HeadRead(c, h, hs, k, r) PROVE Quiet(c)
    <3>1. /\ \A d \in Conns : d # c => conn'[d] = conn[d]
          /\ conn'[c].pc = "body"
          /\ conn'[c].taken = conn[c].taken /\ conn'[c].mirror = conn[c].mirror
      BY <1>1, <2>2 DEF HeadRead, Typed, ConnRecord
    <3> QED
      BY <2>1, <3>1 DEF Quiet, Others, Longer
  <2> QED
    BY <2>1, <2>2, CloseQuiet
<1>3. ASSUME ReadBody(c) PROVE Quiet(c) \/ Takes(c)
  <2>1. /\ conn[c].pc = "body" /\ UNCHANGED <<log, out, read, sent>>
        /\ Close(c) \/ \E b, k, r : BodyRead(c, b, k, r)
    BY <1>3, ReadBodyStep DEF client
  <2>2. ASSUME NEW b, NEW k, NEW r, BodyRead(c, b, k, r) PROVE Takes(c)
    <3>1. k = [conn[c] EXCEPT !.pc = "trip", !.taken = @ + 1, !.req = r]
          /\ conn' = [conn EXCEPT ![c] = k]
      BY <2>2 DEF BodyRead
    <3>2. /\ k.pc = "trip" /\ k.taken = conn[c].taken + 1 /\ k.mirror = conn[c].mirror
      BY <1>1, <3>1 DEF ConnRecord
    <3>3. conn'[c] = k /\ \A d \in Conns : d # c => conn'[d] = conn[d]
      BY <3>1 DEF Typed
    <3> QED
      BY <2>1, <3>2, <3>3 DEF Takes, Others
  <2> QED
    BY <2>1, <2>2, CloseQuiet
<1>4. ASSUME Emit(c) PROVE Records(c)
  <2>1. /\ \A d \in Conns : d # c => conn'[d] = conn[d]
        /\ conn'[c] = [conn[c] EXCEPT !.pc = "write"]
    BY <1>4 DEF Emit, Goto, Typed
  <2> QED
    BY <1>4, <2>1 DEF Emit, Records, Others, client
<1>5. ASSUME WriteH1Response(c) PROVE Quiet(c) \/ Answers(c)
  <2>1. UNCHANGED <<log, read, sent>> /\ conn[c].pc = "write"
    BY <1>5 DEF WriteH1Response, client
  <2>2. CASE Close(c) /\ UNCHANGED out
    BY <2>1, <2>2, CloseQuiet
  <2>3. CASE /\ conn' = [conn EXCEPT ![c].pc = "read", ![c].req = NoRequest,
                                     ![c].resp = errorResponse]
             /\ out' = [out EXCEPT ![c] = Append(@, Message(conn[c].resp))]
    <3>1. /\ \A d \in Conns : d # c => conn'[d] = conn[d]
          /\ conn'[c].pc = "read"
          /\ conn'[c].taken = conn[c].taken /\ conn'[c].mirror = conn[c].mirror
      BY <1>1, <2>3 DEF Typed, ConnRecord
    <3>2. /\ out'[c] = Append(out[c], Message(conn[c].resp))
          /\ \A d \in Conns : d # c => out'[d] = out[d]
      BY <2>3 DEF Typed
    <3> QED
      BY <2>1, <3>1, <3>2 DEF Answers, Others
  <2> QED
    BY <1>5, <2>2, <2>3 DEF WriteH1Response
<1>6. ASSUME NEW ok \in BOOLEAN, ForConn(c, ok) PROVE Decides(c)
  <2>1. \A d \in Conns : d # c => conn'[d] = conn[d]
    BY <1>6 DEF ForConn, Typed
  <2>2. /\ conn[c].pc = "h1" /\ conn'[c].taken = conn[c].taken
        /\ \/ conn'[c].pc = "read" /\ conn'[c].mirror = "built"
           \/ conn'[c].pc = "closed" /\ conn'[c].mirror = "failed"
    <3>1. conn'[c] = IF ok THEN [conn[c] EXCEPT !.pc = "read", !.mirror = "built"]
                           ELSE Closed([conn[c] EXCEPT !.mirror = "failed"])
      BY <1>6 DEF ForConn, Typed
    <3>2. conn[c].pc = "h1"
      BY <1>6 DEF ForConn
    <3>3. CASE ok
      BY <1>1, <3>1, <3>2, <3>3 DEF ConnRecord
    <3>4. CASE ~ok
      <4>1. PICK k : k = [conn[c] EXCEPT !.mirror = "failed"]
        OBVIOUS
      <4>2. k.mirror = "failed" /\ k.taken = conn[c].taken
        BY <1>1, <4>1 DEF ConnRecord
      <4>3. conn'[c] = Closed(k)
        BY <3>1, <3>4, <4>1
      <4>4. conn'[c].pc = "closed" /\ conn'[c].mirror = k.mirror /\ conn'[c].taken = k.taken
        BY <4>3 DEF Closed, Fresh
      <4> QED
        BY <3>2, <4>2, <4>4
    <3> QED
      BY <3>3, <3>4
  <2> QED
    BY <1>6, <2>1, <2>2 DEF ForConn, Decides, Others, client
<1>7. ASSUME NEW r \in Origin \union {errorResponse}, NEW reached, RoundTrip(c, r, reached)
      PROVE  Quiet(c)
  <2>1. PICK a : a = Answer(conn[c].req.method, r)
    OBVIOUS
  <2>2. /\ \A d \in Conns : d # c => conn'[d] = conn[d]
        /\ conn[c].pc = "trip" /\ conn'[c].pc = "emit"
        /\ conn'[c].taken = conn[c].taken /\ conn'[c].mirror = conn[c].mirror
        /\ conn'[c].req = conn[c].req /\ conn'[c].resp = a
    BY <1>1, <1>7, <2>1 DEF RoundTrip, Typed, ConnRecord
  <2>3. r \in Response
    BY PeersAssumption, FreshIs
  <2>4. Bodiless(conn[c].req.method, a)
    BY <2>1, <2>3, AnswerIs DEF Bodiless
  <2>5. Bodiless(conn'[c].req.method, conn'[c].resp)
    BY <2>2, <2>4
  <2> QED
    BY <1>7, <2>2, <2>5 DEF RoundTrip, Quiet, Others, Longer, client
<1> QED
  BY <1>2, <1>3, <1>4, <1>5, <1>6, <1>7

\* The steps of the client.
LEMMA ClientViews ==
  ASSUME Typed, NEW c \in Conns,
         \/ EndStream(c) \/ ClientRead(c)
         \/ \E s \in Shapes : Send(c, s) \/ \E k \in 1..MaxCut : SendCut(c, s, k)
         \/ \E lost \in BOOLEAN : Vanish(c, lost)
  PROVE  Quiet(c) \/ Delivers(c)
<1>1. CASE ClientRead(c)
  <2>1. read[c] < Len(out[c]) /\ read' = [read EXCEPT ![c] = @ + 1]
    BY <1>1 DEF ClientRead
  <2>2. read'[c] = read[c] + 1 /\ \A d \in Conns : d # c => read'[d] = read[d]
    BY <2>1 DEF Typed
  <2> QED
    BY <1>1, <2>1, <2>2 DEF ClientRead, Delivers, Others, client
<1>2. CASE EndStream(c) \/ \E lost \in BOOLEAN : Vanish(c, lost)
  BY <1>2 DEF EndStream, Vanish, Quiet, Others, Longer
<1>3. ASSUME NEW s \in Shapes, Send(c, s) \/ \E k \in 1..MaxCut : SendCut(c, s, k)
      PROVE  Quiet(c)
  <2>1. PICK r, l : r = Numbered(s, c) /\ l = Len(sent[c])
    OBVIOUS
  <2>2. r \in Request /\ l \in Nat /\ sent[c] \in Seq(Request) /\ MaxReqs[c] \in Nat
    BY <2>1, NumberedIs, TunnelAssumption DEF Typed
  <2>3. /\ UNCHANGED <<conn, log, out, read>> /\ l < MaxReqs[c]
        /\ sent' = sent \/ sent' = [sent EXCEPT ![c] = Append(@, r)]
    BY <1>3, <2>1 DEF Send, SendCut
  <2>4. PICK z : z = Append(sent[c], r)
    OBVIOUS
  <2>5. /\ z \in Seq(Request) /\ Len(z) = l + 1 /\ l + 1 <= MaxReqs[c]
        /\ \A k \in 1..l : z[k] = sent[c][k]
    BY <2>1, <2>2, <2>3, <2>4
  <2>6. /\ \A d \in Conns : d # c => sent'[d] = sent[d]
        /\ sent'[c] = sent[c] \/ sent'[c] = z
    BY <2>3, <2>4 DEF Typed
  <2>7. Longer(sent[c], sent'[c], MaxReqs[c])
    BY <2>1, <2>5, <2>6 DEF Longer
  <2> QED
    BY <2>3, <2>6, <2>7 DEF Quiet, Others
<1> QED
  BY <1>1, <1>2, <1>3

\* Every step is one of these, or changes nothing.
LEMMA Views ==
  ASSUME Typed, [Next]_vars
  PROVE  \/ UNCHANGED <<conn, sent, log, out, read>>
         \/ \E c \in Conns : \/ Quiet(c) \/ Decides(c) \/ Takes(c)
                             \/ Records(c) \/ Answers(c) \/ Delivers(c)
<1>1. ASSUME NEW c \in Conns, Serve(c)
      PROVE  Quiet(c) \/ Decides(c) \/ Takes(c) \/ Records(c) \/ Answers(c)
  <2>1. CASE LeafFor(c) \/ ServeH2Returns(c) \/ \E ok \in BOOLEAN : Mint(c, ok)
    BY <2>1, HandshakeViews
  <2>2. CASE ~(LeafFor(c) \/ ServeH2Returns(c) \/ \E ok \in BOOLEAN : Mint(c, ok))
    BY <1>1, <2>2, ServeViews DEF Serve
  <2> QED
    BY <2>1, <2>2
<1>2. ASSUME NEW c \in Conns, Client(c) PROVE Quiet(c) \/ Delivers(c)
  <2>1. CASE \/ EndStream(c) \/ ClientRead(c)
             \/ \E s \in Shapes : Send(c, s) \/ \E k \in 1..MaxCut : SendCut(c, s, k)
             \/ \E lost \in BOOLEAN : Vanish(c, lost)
    BY <2>1, ClientViews
  <2>2. CASE \/ \E n \in Hosts \union {NoHost} : ReadConnect(c, <<n, 443>>)
             \/ \E n \in Hosts \union {NoHost}, h2 \in BOOLEAN : PeekClientHello(c, n, h2)
             \/ Handshake(c) \/ GiveUp(c)
    BY <2>2, HandshakeViews
  <2> QED
    BY <1>2, <2>1, <2>2 DEF Client
<1> QED
  BY <1>1, <1>2 DEF Next, Over, vars, client

-----------------------------------------------------------------------------
(* Requests taken, recorded and answered.                                  *)

LogEntry == [conn : Conns, request : Request, response : Response]

\* Answers are written for the requests taken, the last one excepted while it
\* is served; a mirror was built before the first one was read.
Stage(c) ==
  /\ Len(sent[c]) <= MaxReqs[c] /\ Len(out[c]) <= conn[c].taken
  /\ conn[c].pc \in {"read", "body"} => Len(out[c]) = conn[c].taken
  /\ conn[c].pc \in Serving => conn[c].taken = Len(out[c]) + 1
  /\ conn[c].pc \in {"read", "body"} \union Serving => conn[c].mirror = "built"
  /\ conn[c].pc \in Before => conn[c].mirror = "unknown" /\ conn[c].taken = 0

\* What is recorded was taken, the last request only once it is to be written.
Logged(c) ==
  /\ \A i \in 1..Len(log) : log[i].conn = c =>
       /\ log[i].request.id <= conn[c].taken
       /\ conn[c].pc \in {"trip", "emit"} => log[i].request.id < conn[c].taken
  /\ conn[c].pc = "write" => \E i \in 1..Len(log) :
       log[i] = [conn |-> c, request |-> conn[c].req, response |-> conn[c].resp]

Books == log \in Seq(LogEntry) /\ \A c \in Conns : Stage(c) /\ Logged(c)

\* log goes on with records of connection c, if any.
Continues(c) ==
  /\ log' \in Seq(LogEntry)
  /\ \A i \in 1..Len(log) : i \in 1..Len(log') /\ log'[i] = log[i]
  /\ \A i \in 1..Len(log') : i \in 1..Len(log) \/ log'[i].conn = c

\* Only the connection a step is about matters.
LEMMA BooksStep ==
  ASSUME Typed, Books, NEW c \in Conns, Others(c), Continues(c), Stage(c)', Logged(c)'
  PROVE  Books'
<1>1. ASSUME NEW d \in Conns, d # c PROVE Stage(d)' /\ Logged(d)'
  <2>1. conn'[d] = conn[d] /\ sent'[d] = sent[d] /\ out'[d] = out[d]
    BY <1>1 DEF Others
  <2>2. Stage(d) /\ Logged(d)
    BY DEF Books
  <2>3. Stage(d)'
    BY <2>1, <2>2 DEF Stage
  <2>4. \A i \in 1..Len(log') : log'[i].conn = d => i \in 1..Len(log) /\ log'[i] = log[i]
    BY <1>1 DEF Continues
  <2>5. Logged(d)'
    BY <2>1, <2>2, <2>4 DEF Logged, Continues
  <2> QED
    BY <2>3, <2>5
<1> QED
  BY <1>1 DEF Books, Continues

\* A log that stays as it is continues.
LEMMA SameLog ==
  ASSUME Books, NEW c, UNCHANGED log
  PROVE  Continues(c)
  BY DEF Books, Continues

\* The numbers of a connection.
LEMMA NumbersAre ==
  ASSUME Typed, NEW c \in Conns
  PROVE  /\ conn[c] \in ConnRecord /\ conn[c].taken \in Nat /\ conn[c].pc \in PCs
         /\ sent[c] \in Seq(Request) /\ Len(sent[c]) \in Nat
         /\ out[c] \in Seq(Messages) /\ Len(out[c]) \in Nat
         /\ read[c] \in Nat /\ MaxReqs[c] \in Nat
  BY TunnelAssumption DEF Typed, ConnRecord

\* Quiet steps.
LEMMA QuietBooks ==
  ASSUME Typed, Books, NEW c \in Conns, Quiet(c)
  PROVE  Books'
<1>1. /\ Others(c) /\ UNCHANGED <<log, out, read>> /\ Longer(sent[c], sent'[c], MaxReqs[c])
      /\ conn'[c].taken = conn[c].taken /\ conn'[c].mirror = conn[c].mirror
  BY DEF Quiet
<1>2. Stage(c) /\ Logged(c)
  BY DEF Books
<1>3. Len(sent'[c]) <= MaxReqs[c]
  BY <1>1, <1>2 DEF Longer, Stage
<1>4. CASE conn'[c].pc = "closed"
  <2>1. Stage(c)' /\ Logged(c)'
    BY <1>1, <1>2, <1>3, <1>4 DEF Stage, Logged, Serving, Before
  <2> QED
    BY <1>1, <2>1, SameLog, BooksStep
<1>5. CASE conn'[c] = conn[c]
  <2>1. Stage(c)' /\ Logged(c)'
    BY <1>1, <1>2, <1>3, <1>5 DEF Stage, Logged
  <2> QED
    BY <1>1, <2>1, SameLog, BooksStep
<1>6. CASE \/ conn[c].pc \in Before /\ conn'[c].pc \in Before
           \/ conn[c].pc = "read" /\ conn'[c].pc = "body"
           \/ conn[c].pc = "trip" /\ conn'[c].pc = "emit"
  <2>1. Stage(c)'
    BY <1>1, <1>2, <1>3, <1>6 DEF Stage, Serving, Before
  <2>2. Logged(c)'
    BY <1>1, <1>2, <1>6 DEF Logged, Before
  <2> QED
    BY <1>1, <2>1, <2>2, SameLog, BooksStep
<1> QED
  BY <1>4, <1>5, <1>6 DEF Quiet

\* The mirror is decided, a request is taken.
LEMMA TakesBooks ==
  ASSUME Typed, Books, NEW c \in Conns, Decides(c) \/ Takes(c)
  PROVE  Books'
<1>1. Others(c) /\ UNCHANGED <<log, out, read, sent>>
  BY DEF Decides, Takes
<1>2. Stage(c) /\ Logged(c)
  BY DEF Books
<1>3. conn[c].taken \in Nat /\ Len(out[c]) \in Nat
  BY NumbersAre
<1>4. CASE Decides(c)
  <2>1. conn[c].taken = 0 /\ Len(out[c]) = 0
    BY <1>2, <1>3, <1>4 DEF Decides, Stage, Before
  <2>2. Stage(c)' /\ Logged(c)'
    BY <1>1, <1>2, <1>4, <2>1 DEF Decides, Stage, Logged, Serving, Before
  <2> QED
    BY <1>1, <2>2, SameLog, BooksStep
<1>5. CASE Takes(c)
  <2>1. /\ conn[c].pc = "body" /\ conn'[c].pc = "trip" /\ conn'[c].mirror = "built"
        /\ conn'[c].taken = conn[c].taken + 1 /\ conn[c].taken = Len(out[c])
    BY <1>2, <1>5 DEF Takes, Stage
  <2>2. Stage(c)'
    BY <1>1, <1>2, <1>3, <2>1 DEF Stage, Serving, Before
  <2>3. \A i \in 1..Len(log) : log[i].conn = c =>
          log[i].request.id <= conn'[c].taken /\ log[i].request.id < conn'[c].taken
    <3>1. \A i \in 1..Len(log) : log[i] \in LogEntry
      BY SeqIs DEF Books
    <3>2. \A i \in 1..Len(log) : log[i].request.id \in Nat
      BY <3>1 DEF LogEntry, Request
    <3>3. \A i \in 1..Len(log) : log[i].conn = c => log[i].request.id <= conn[c].taken
      BY <1>2 DEF Logged
    <3> QED
      BY <1>3, <2>1, <3>2, <3>3
  <2>4. Logged(c)'
    BY <1>1, <2>1, <2>3 DEF Logged
  <2> QED
    BY <1>1, <2>2, <2>4, SameLog, BooksStep
<1> QED
  BY <1>4, <1>5

\* A request is recorded.
LEMMA RecordsBooks ==
  ASSUME Typed, Pipe, Books, NEW c \in Conns, Records(c)
  PROVE  Books'
<1>1. PICK x, k : /\ x = [conn |-> c, request |-> conn[c].req, response |-> conn[c].resp]
                  /\ k = [conn[c] EXCEPT !.pc = "write"]
  OBVIOUS
<1>2. /\ Others(c) /\ UNCHANGED <<out, read, sent>> /\ log' = Append(log, x)
      /\ conn'[c] = k /\ conn[c].pc = "emit"
  BY <1>1 DEF Records
<1>3. /\ k.pc = "write" /\ k.taken = conn[c].taken /\ k.mirror = conn[c].mirror
      /\ k.req = conn[c].req /\ k.resp = conn[c].resp
      /\ conn[c].req \in Request /\ conn[c].resp \in Response
  BY <1>1, NumbersAre DEF ConnRecord
<1>4. x \in LogEntry /\ x.conn = c /\ x.request = conn[c].req
  BY <1>1, <1>3 DEF LogEntry
<1>5. log \in Seq(LogEntry) /\ Stage(c) /\ Logged(c)
  BY DEF Books
<1>6. PICK l : l = Len(log)
  OBVIOUS
<1>7. /\ l \in Nat /\ log' \in Seq(LogEntry) /\ Len(log') = l + 1 /\ log'[l + 1] = x
      /\ \A i \in 1..l : log'[i] = log[i]
  BY <1>2, <1>4, <1>5, <1>6
<1>8. /\ \A i \in 1..l : i \in 1..(l + 1)
      /\ \A i \in 1..(l + 1) : i \in 1..l \/ i = l + 1
      /\ l + 1 \in 1..(l + 1)
  BY <1>7
<1>9. Continues(c)
  BY <1>4, <1>6, <1>7, <1>8 DEF Continues
<1>10. Stage(c)'
  BY <1>2, <1>3, <1>5 DEF Stage, Serving, Before
<1>11. conn[c].req.id = conn[c].taken /\ conn[c].taken \in Nat
  <2>1. Requests(c)
    BY DEF Pipe, PipeOf
  <2> QED
    BY <1>2, <2>1, NumbersAre DEF Requests, Numbers, Serving
<1>12. \A i \in 1..Len(log') : log'[i].conn = c => log'[i].request.id <= conn'[c].taken
  BY <1>2, <1>3, <1>4, <1>5, <1>6, <1>7, <1>8, <1>11 DEF Logged
<1>13. \E i \in 1..Len(log') :
         log'[i] = [conn |-> c, request |-> conn'[c].req, response |-> conn'[c].resp]
  BY <1>1, <1>2, <1>3, <1>7, <1>8
<1>14. Logged(c)'
  BY <1>2, <1>3, <1>12, <1>13 DEF Logged
<1> QED
  BY <1>2, <1>9, <1>10, <1>14, BooksStep

\* Its answer is written.
LEMMA AnswersBooks ==
  ASSUME Typed, Books, NEW c \in Conns, Answers(c)
  PROVE  Books'
<1>1. /\ Others(c) /\ UNCHANGED <<log, read, sent>>
      /\ conn[c].pc = "write" /\ conn'[c].pc = "read"
      /\ conn'[c].taken = conn[c].taken /\ conn'[c].mirror = conn[c].mirror
      /\ out'[c] = Append(out[c], Message(conn[c].resp))
  BY DEF Answers
<1>2. Stage(c) /\ Logged(c)
  BY DEF Books
<1>3. conn[c].taken \in Nat /\ Len(out[c]) \in Nat /\ out[c] \in Seq(Messages)
  BY NumbersAre
<1>4. Message(conn[c].resp) \in Messages
  BY NumbersAre DEF Messages, ConnRecord
<1>5. Len(out'[c]) = Len(out[c]) + 1
  BY <1>1, <1>3, <1>4
<1>6. conn[c].taken = Len(out[c]) + 1 /\ conn[c].mirror = "built"
  BY <1>1, <1>2 DEF Stage, Serving
<1>7. Stage(c)'
  BY <1>1, <1>2, <1>3, <1>5, <1>6 DEF Stage, Serving, Before
<1>8. Logged(c)'
  BY <1>1, <1>2 DEF Logged
<1> QED
  BY <1>1, <1>7, <1>8, SameLog, BooksStep

\* Every step keeps the books ...
LEMMA BooksNext == Typed /\ Pipe /\ Books /\ [Next]_vars => Books'
<1> SUFFICES ASSUME Typed, Pipe, Books, [Next]_vars PROVE Books'
  OBVIOUS
<1>1. CASE UNCHANGED <<conn, sent, log, out, read>>
  BY <1>1 DEF Books, Stage, Logged
<1>2. ASSUME NEW c \in Conns, Delivers(c) PROVE Books'
  BY <1>2 DEF Delivers, Books, Stage, Logged
<1>3. ASSUME NEW c \in Conns,
             Quiet(c) \/ Decides(c) \/ Takes(c) \/ Records(c) \/ Answers(c)
      PROVE  Books'
  BY <1>3, QuietBooks, TakesBooks, RecordsBooks, AnswersBooks
<1> QED
  BY <1>1, <1>2, <1>3, Views

\* ... from the start.
LEMMA BooksInit == Init => Books
<1> SUFFICES ASSUME Init PROVE Books
  OBVIOUS
<1>1. log = <<>>
  BY DEF Init
<1>2. log \in Seq(LogEntry) /\ Len(log) = 0
  BY <1>1
<1>3. ASSUME NEW c \in Conns PROVE Stage(c) /\ Logged(c)
  <2>1. /\ conn[c].pc = "connect" /\ conn[c].taken = 0 /\ conn[c].mirror = "unknown"
        /\ sent[c] = <<>> /\ out[c] = <<>>
    BY DEF Init, Fresh
  <2>2. Len(sent[c]) = 0 /\ Len(out[c]) = 0 /\ MaxReqs[c] \in Nat
    BY <2>1, TunnelAssumption
  <2> QED
    BY <1>2, <2>1, <2>2 DEF Stage, Logged, Serving, Before
<1> QED
  BY <1>2, <1>3 DEF Books

\* The books are right in every reachable state.
LEMMA SpecBooks == Spec => [](Typed /\ Pipe /\ Books)
<1>1. Init => Books
  BY BooksInit
<1>2. Typed /\ Pipe /\ Books /\ [Next]_vars => Books'
  BY BooksNext
<1> QED
  BY <1>1, <1>2, SpecPipe, PTL DEF Spec

-----------------------------------------------------------------------------
(* Answers to HEAD.                                                        *)

\* Those that come from an origin are without a body.
Heads ==
  \A c \in Conns :
    /\ conn[c].pc \in {"emit", "write"} => Bodiless(conn[c].req.method, conn[c].resp)
    /\ \A i \in 1..Len(out[c]) : Bodiless(sent[c][i].method, out[c][i])

\* There are no more answers than requests.
LEMMA AnsweredSent ==
  ASSUME Typed, Pipe, Books, NEW c \in Conns
  PROVE  \A i \in 1..Len(out[c]) : i \in 1..Len(sent[c])
<1>1. /\ Len(out[c]) <= conn[c].taken /\ conn[c].taken <= Len(sent[c])
  BY DEF Books, Stage, Pipe, PipeOf, Requests
<1>2. Len(out[c]) \in Nat /\ conn[c].taken \in Nat /\ Len(sent[c]) \in Nat
  BY NumbersAre
<1> QED
  BY <1>1, <1>2

\* Only the connection a step is about matters.
LEMMA HeadsStep ==
  ASSUME Heads, NEW c \in Conns, Others(c),
         conn'[c].pc \in {"emit", "write"} => Bodiless(conn'[c].req.method, conn'[c].resp),
         \A i \in 1..Len(out'[c]) : Bodiless(sent'[c][i].method, out'[c][i])
  PROVE  Heads'
<1>1. ASSUME NEW d \in Conns, d # c
      PROVE  /\ conn'[d].pc \in {"emit", "write"} =>
                  Bodiless(conn'[d].req.method, conn'[d].resp)
             /\ \A i \in 1..Len(out'[d]) : Bodiless(sent'[d][i].method, out'[d][i])
  <2>1. conn'[d] = conn[d] /\ sent'[d] = sent[d] /\ out'[d] = out[d]
    BY <1>1 DEF Others
  <2> QED
    BY <2>1 DEF Heads
<1> QED
  BY <1>1 DEF Heads

\* Every step keeps it so ...
LEMMA HeadsNext == Typed /\ Pipe /\ Books /\ Heads /\ [Next]_vars => Heads'
<1> SUFFICES ASSUME Typed, Pipe, Books, Heads, [Next]_vars PROVE Heads'
  OBVIOUS
<1>1. CASE UNCHANGED <<conn, sent, log, out, read>>
  BY <1>1 DEF Heads, Bodiless
<1>2. ASSUME NEW c \in Conns, Delivers(c) PROVE Heads'
  BY <1>2 DEF Delivers, Heads, Bodiless
<1>3. ASSUME NEW c \in Conns
      PROVE  /\ conn[c].pc \in {"emit", "write"} => Bodiless(conn[c].req.method, conn[c].resp)
             /\ \A i \in 1..Len(out[c]) : Bodiless(sent[c][i].method, out[c][i])
  BY DEF Heads
<1>4. ASSUME NEW c \in Conns, Quiet(c) PROVE Heads'
  <2>1. Others(c) /\ out' = out /\ Longer(sent[c], sent'[c], MaxReqs[c])
    BY <1>4 DEF Quiet
  <2>2. \A i \in 1..Len(sent[c]) : sent'[c][i] = sent[c][i]
    BY <2>1 DEF Longer
  <2>3. \A i \in 1..Len(out'[c]) : Bodiless(sent'[c][i].method, out'[c][i])
    BY <1>3, <2>1, <2>2, AnsweredSent
  <2>4. conn'[c].pc \in {"emit", "write"} => Bodiless(conn'[c].req.method, conn'[c].resp)
    BY <1>3, <1>4 DEF Quiet, Before
  <2> QED
    BY <2>1, <2>3, <2>4, HeadsStep
<1>5. ASSUME NEW c \in Conns, Decides(c) \/ Takes(c) PROVE Heads'
  <2>1. /\ Others(c) /\ UNCHANGED <<out, sent>>
        /\ conn'[c].pc \in {"read", "closed", "trip"}
    BY <1>5 DEF Decides, Takes
  <2> QED
    BY <1>3, <2>1, HeadsStep
<1>6. ASSUME NEW c \in Conns, Records(c) PROVE Heads'
  <2>1. /\ Others(c) /\ UNCHANGED <<out, sent>> /\ conn[c].pc = "emit"
        /\ conn'[c] = [conn[c] EXCEPT !.pc = "write"]
    BY <1>6 DEF Records
  <2>2. conn'[c].req = conn[c].req /\ conn'[c].resp = conn[c].resp
    BY <2>1, NumbersAre DEF ConnRecord
  <2> QED
    BY <1>3, <2>1, <2>2, HeadsStep
<1>7. ASSUME NEW c \in Conns, Answers(c) PROVE Heads'
  <2>1. PICK r, n : r = conn[c].resp /\ n = Len(out[c])
    OBVIOUS
  <2>2. /\ Others(c) /\ sent' = sent /\ conn[c].pc = "write" /\ conn'[c].pc = "read"
        /\ out'[c] = Append(out[c], Message(r))
    BY <1>7, <2>1 DEF Answers
  <2>3. /\ r \in Response /\ out[c] \in Seq(Messages) /\ n \in Nat
    BY <2>1, NumbersAre DEF ConnRecord
  <2>4. Message(r) \in Messages
    BY <2>3 DEF Messages
  <2>5. /\ Len(out'[c]) = n + 1 /\ out'[c][n + 1] = Message(r)
        /\ \A i \in 1..n : out'[c][i] = out[c][i]
    BY <2>1, <2>2, <2>3, <2>4
  <2>6. \A i \in 1..(n + 1) : i \in 1..n \/ i = n + 1
    BY <2>3
  <2>7. conn[c].taken = n + 1 /\ conn[c].req = sent[c][n + 1]
    <3>1. conn[c].taken = n + 1
      BY <2>1, <2>2 DEF Books, Stage, Serving
    <3>2. conn[c].req = sent[c][conn[c].taken]
      BY <2>2 DEF Pipe, PipeOf, Requests, Serving
    <3> QED
      BY <3>1, <3>2
  <2>8. Bodiless(sent[c][n + 1].method, r)
    BY <1>3, <2>1, <2>2, <2>7
  <2>9. Bodiless(sent[c][n + 1].method, Message(r))
    BY <2>3, <2>8, MessageIs, Zenon DEF Bodiless
  <2>10. \A i \in 1..Len(out'[c]) : Bodiless(sent'[c][i].method, out'[c][i])
    <3>1. TAKE i \in 1..Len(out'[c])
    <3>2. CASE i = n + 1
      BY <2>2, <2>5, <2>9, <3>2
    <3>3. CASE i \in 1..n
      BY <1>3, <2>1, <2>2, <2>5, <3>3
    <3> QED
      BY <2>5, <2>6, <3>2, <3>3
  <2> QED
    BY <2>2, <2>10, HeadsStep
<1> QED
  BY <1>1, <1>2, <1>4, <1>5, <1>6, <1>7, Views

\* ... from the start.
LEMMA HeadsInit == Init => Heads
<1> SUFFICES ASSUME Init, NEW c \in Conns
             PROVE  conn[c].pc = "connect" /\ Len(out[c]) = 0
  BY DEF Heads
<1>1. conn[c] = Fresh /\ out[c] = <<>>
  BY DEF Init
<1> QED
  BY <1>1 DEF Fresh

\* What a client makes of an answer while no HEAD before it has failed.
SeenRight ==
  \A c \in Conns : \A i \in 1..Len(out[c]) : ~HeadFailed(c, i) =>
    /\ Seen(c, i) = View(sent[c][i].method, out[c][i])
    /\ Seen(c, i) \in Response

\* It is in step with the proxy.
LEMMA SeenIs == Typed /\ Pipe /\ Books /\ Heads => SeenRight
<1> SUFFICES ASSUME Typed, Pipe, Books, Heads, NEW c \in Conns, NEW i \in 1..Len(out[c]),
                    ~HeadFailed(c, i)
             PROVE  /\ Seen(c, i) = View(sent[c][i].method, out[c][i])
                    /\ Seen(c, i) \in Response
  BY DEF SeenRight
<1>1. out[c] \in Seq(Messages) /\ Len(out[c]) \in Nat
  BY NumbersAre
<1>2. InStep(c, i)
  <2> SUFFICES ASSUME NEW j \in 1..(i - 1), sent[c][j].method = "HEAD"
               PROVE  out[c][j].body = 0
    BY DEF InStep
  <2>1. out[c][j].ok
    BY DEF HeadFailed
  <2>2. j \in 1..Len(out[c])
    BY <1>1
  <2>3. Bodiless(sent[c][j].method, out[c][j])
    BY <2>2 DEF Heads
  <2> QED
    BY <2>1, <2>3 DEF Bodiless
<1>3. PICK r \in Response : out[c][i] = Message(r)
  BY <1>1 DEF Messages
<1>4. PICK m : m = out[c][i]
  OBVIOUS
<1>5. Lengthy(m)
  BY <1>3, <1>4, MessageIs
<1>6. Seen(c, i) = View(sent[c][i].method, m)
  BY <1>2, <1>4, <1>5 DEF Seen, Lengthy
<1>7. View(sent[c][i].method, m) \in Response
  BY <1>3, <1>4, MessageIs
<1> QED
  BY <1>4, <1>6, <1>7

\* The books and the readings are right in every reachable state.
LEMMA SpecHeads == Spec => [](Typed /\ Pipe /\ Books /\ SeenRight)
<1>1. Init => Heads
  BY HeadsInit
<1>2. Typed /\ Pipe /\ Books /\ Heads /\ [Next]_vars => Heads'
  BY HeadsNext
<1>3. Typed /\ Pipe /\ Books /\ Heads => SeenRight
  BY SeenIs
<1> QED
  BY <1>1, <1>2, <1>3, SpecBooks, PTL DEF Spec

-----------------------------------------------------------------------------
(* The refinement of Exchange.                                             *)

\* The state of Exchange, as Tunnel maps it.
AskedOf(e) == IF e[2] <= conn[e[1]].taken THEN sent[e[1]][e[2]] ELSE None
ReplyOf(e) ==
  IF e[2] <= Len(out[e[1]]) /\ ~HeadFailed(e[1], e[2]) THEN Seen(e[1], e[2]) ELSE None
GotOf(e)   ==
  IF e[2] <= read[e[1]] /\ ~HeadFailed(e[1], e[2]) THEN Seen(e[1], e[2]) ELSE None

ExMirror == [e \in Exchanges |-> conn[e[1]].mirror]
ExAsked  == [e \in Exchanges |-> AskedOf(e)]
ExLog    == [i \in DOMAIN log |->
               [of |-> <<log[i].conn, log[i].request.id>>, request |-> log[i].request,
                response |-> View(log[i].request.method, log[i].response)]]
ExReply  == Readings([c \in Conns |-> Len(out[c])])
ExGot    == Readings(read)

\* The readings of an exchange.
Mapped ==
  /\ ExReply = [e \in Exchanges |-> ReplyOf(e)]
  /\ ExGot = [e \in Exchanges |-> GotOf(e)]

\* They are those of Tunnel's mapping.
LEMMA MappedIs == Mapped
<1>1. \A e \in Exchanges : e[1] \in Conns
  BY DEF Exchanges
<1> QED
  BY <1>1 DEF Mapped, ExReply, ExGot, ReplyOf, GotOf, Readings

\* An answer that stays, and those before it, are read as before.
LEMMA SeenStays ==
  ASSUME NEW c, NEW i \in Nat, 1 <= i,
         \A j \in 1..i : sent'[c][j] = sent[c][j] /\ out'[c][j] = out[c][j]
  PROVE  (HeadFailed(c, i)' <=> HeadFailed(c, i)) /\ Seen(c, i)' = Seen(c, i)
<1>1. i \in 1..i /\ \A j \in 1..(i - 1) : j \in 1..i
  OBVIOUS
<1>2. HeadFailed(c, i)' <=> HeadFailed(c, i)
  BY <1>1 DEF HeadFailed
<1>3. InStep(c, i)' <=> InStep(c, i)
  BY <1>1 DEF InStep
<1>4. sent'[c][i] = sent[c][i] /\ out'[c][i] = out[c][i]
  BY <1>1
<1>5. Seen(c, i)' = Seen(c, i)
  BY <1>3, <1>4 DEF Seen, View, Garbled
<1> QED
  BY <1>2, <1>5

\* Exchanges are pairs of a connection and the number of a request.
LEMMA ExchangesAre ==
  /\ \A e \in Exchanges :
       /\ e[1] \in Conns /\ e[2] \in Nat /\ 1 <= e[2] /\ e[2] <= MaxReqs[e[1]]
       /\ e = <<e[1], e[2]>>
  /\ \A c \in Conns : \A n \in Nat : 1 <= n /\ n <= MaxReqs[c] => <<c, n>> \in Exchanges
<1>1. \A c \in Conns : MaxReqs[c] \in Nat
  BY TunnelAssumption
<1>2. ASSUME NEW e \in Exchanges
      PROVE  /\ e[1] \in Conns /\ e[2] \in Nat /\ 1 <= e[2] /\ e[2] <= MaxReqs[e[1]]
             /\ e = <<e[1], e[2]>>
  <2>1. PICK c \in Conns : e \in {c} \X (1..MaxReqs[c])
    BY DEF Exchanges
  <2>2. e[1] = c /\ e[2] \in 1..MaxReqs[c] /\ e = <<e[1], e[2]>>
    BY <2>1
  <2> QED
    BY <1>1, <2>2
<1>3. ASSUME NEW c \in Conns, NEW n \in Nat, 1 <= n, n <= MaxReqs[c]
      PROVE  <<c, n>> \in Exchanges
  <2>1. n \in 1..MaxReqs[c]
    BY <1>1, <1>3
  <2>2. <<c, n>> \in {c} \X (1..MaxReqs[c])
    BY <2>1
  <2> QED
    BY <2>2 DEF Exchanges
<1> QED
  BY <1>2, <1>3

\* Exchanges of other connections stay as they are.
LEMMA OthersStay ==
  ASSUME NEW c \in Conns, Others(c), NEW e \in Exchanges, e[1] # c
  PROVE  /\ conn'[e[1]] = conn[e[1]] /\ AskedOf(e)' = AskedOf(e)
         /\ ReplyOf(e)' = ReplyOf(e) /\ GotOf(e)' = GotOf(e)
<1>1. /\ conn'[e[1]] = conn[e[1]] /\ sent'[e[1]] = sent[e[1]]
      /\ out'[e[1]] = out[e[1]] /\ read'[e[1]] = read[e[1]]
  BY ExchangesAre DEF Others
<1>2. (HeadFailed(e[1], e[2])' <=> HeadFailed(e[1], e[2])) /\ Seen(e[1], e[2])' = Seen(e[1], e[2])
  BY <1>1, ExchangesAre, SeenStays
<1> QED
  BY <1>1, <1>2 DEF AskedOf, ReplyOf, GotOf

\* So do those of a connection whose answers and answered requests stay.
LEMMA AnswersStay ==
  ASSUME Typed, Pipe, Books, NEW c \in Conns, NEW e \in Exchanges, e[1] = c, e[2] <= Len(out[c]),
         \A j \in 1..Len(sent[c]) : sent'[c][j] = sent[c][j],
         \A j \in 1..Len(out[c]) : out'[c][j] = out[c][j]
  PROVE  (HeadFailed(c, e[2])' <=> HeadFailed(c, e[2])) /\ Seen(c, e[2])' = Seen(c, e[2])
<1>1. e[2] \in Nat /\ 1 <= e[2] /\ Len(out[c]) \in Nat
  BY ExchangesAre, NumbersAre
<1>2. \A j \in 1..e[2] : j \in 1..Len(out[c])
  BY <1>1
<1> QED
  BY <1>1, <1>2, AnsweredSent, SeenStays

\* A quiet step changes nothing.
LEMMA QuietImplements ==
  ASSUME Typed, Pipe, Books, NEW c \in Conns, Quiet(c)
  PROVE  UNCHANGED Ex!vars
<1>1. /\ Others(c) /\ UNCHANGED <<log, out, read>> /\ Longer(sent[c], sent'[c], MaxReqs[c])
      /\ conn'[c].taken = conn[c].taken /\ conn'[c].mirror = conn[c].mirror
  BY DEF Quiet
<1>2. conn[c].taken <= Len(sent[c]) /\ conn[c].taken \in Nat /\ Len(sent[c]) \in Nat
  BY NumbersAre DEF Pipe, PipeOf, Requests
<1>3. \A k \in 1..Len(sent[c]) : sent'[c][k] = sent[c][k]
  BY <1>1 DEF Longer
<1>4. ASSUME NEW e \in Exchanges
      PROVE  /\ conn'[e[1]].mirror = conn[e[1]].mirror /\ AskedOf(e)' = AskedOf(e)
             /\ ReplyOf(e)' = ReplyOf(e) /\ GotOf(e)' = GotOf(e)
  <2>1. CASE e[1] = c
    <3>1. e[2] \in Nat /\ 1 <= e[2]
      BY ExchangesAre
    <3>2. e[2] <= conn[c].taken => sent'[c][e[2]] = sent[c][e[2]]
      BY <1>2, <1>3, <3>1
    <3>3. read[c] \in Nat /\ read[c] <= Len(out[c]) /\ Len(out[c]) \in Nat
      BY NumbersAre DEF Typed
    <3>4. e[2] <= Len(out[c]) => /\ HeadFailed(c, e[2])' <=> HeadFailed(c, e[2])
                                 /\ Seen(c, e[2])' = Seen(c, e[2])
      BY <1>1, <1>3, <2>1, AnswersStay
    <3>5. e[2] <= read[c] => e[2] <= Len(out[c])
      BY <3>1, <3>3
    <3> QED
      BY <1>1, <2>1, <3>2, <3>4, <3>5 DEF AskedOf, ReplyOf, GotOf
  <2>2. CASE e[1] # c
    BY <1>1, <2>2, OthersStay
  <2> QED
    BY <2>1, <2>2
<1>5. ExMirror' = ExMirror /\ ExAsked' = ExAsked /\ ExReply' = ExReply /\ ExGot' = ExGot
  <2>1. Mapped /\ Mapped'
    BY MappedIs, PTL
  <2> QED
    BY <1>4, <2>1 DEF ExMirror, ExAsked, Mapped
<1>6. ExLog' = ExLog
  BY <1>1 DEF ExLog
<1> QED
  BY <1>5, <1>6 DEF Ex!vars, ExMirror, ExAsked, ExLog, ExReply, ExGot, AskedOf

\* A step that leaves requests and answers alone.
LEMMA SameSeen ==
  ASSUME UNCHANGED <<out, sent>>, NEW e \in Exchanges
  PROVE  ReplyOf(e)' = ReplyOf(e) /\ (read'[e[1]] = read[e[1]] => GotOf(e)' = GotOf(e))
<1>1. (HeadFailed(e[1], e[2])' <=> HeadFailed(e[1], e[2])) /\ Seen(e[1], e[2])' = Seen(e[1], e[2])
  BY ExchangesAre, SeenStays
<1> QED
  BY <1>1 DEF ReplyOf, GotOf

\* ForConn decides the mirror of all exchanges of a connection.
LEMMA DecidesImplements ==
  ASSUME Typed, Books, NEW c \in Conns, Decides(c)
  PROVE  Ex!Decide
<1>1. /\ Others(c) /\ UNCHANGED <<log, out, read, sent>>
      /\ conn[c].pc = "h1" /\ conn'[c].taken = conn[c].taken
      /\ conn'[c].mirror \in {"built", "failed"}
  BY DEF Decides
<1>2. conn[c].mirror = "unknown"
  BY <1>1 DEF Books, Stage, Before
<1>3. ASSUME NEW e \in Exchanges
      PROVE  /\ conn[e[1]].mirror # "unknown" => conn'[e[1]].mirror = conn[e[1]].mirror
             /\ conn'[e[1]].mirror \in {"unknown", "built", "failed"}
             /\ AskedOf(e)' = AskedOf(e) /\ ReplyOf(e)' = ReplyOf(e) /\ GotOf(e)' = GotOf(e)
  <2>1. CASE e[1] = c
    BY <1>1, <1>2, <2>1, SameSeen DEF AskedOf
  <2>2. CASE e[1] # c
    <3>1. conn'[e[1]] = conn[e[1]]
      BY <1>1, <2>2, OthersStay
    <3>2. conn[e[1]].mirror \in {"unknown", "built", "failed"}
      BY ExchangesAre, NumbersAre DEF ConnRecord, Mirrors
    <3> QED
      BY <1>1, <2>2, <3>1, <3>2, OthersStay
  <2> QED
    BY <2>1, <2>2
<1>4. /\ ExMirror' \in [Exchanges -> {"unknown", "built", "failed"}]
      /\ \A e \in Exchanges : ExMirror[e] # "unknown" => ExMirror'[e] = ExMirror[e]
  BY <1>3 DEF ExMirror
<1>5. ExAsked' = ExAsked /\ ExReply' = ExReply /\ ExGot' = ExGot /\ ExLog' = ExLog
  <2>1. Mapped /\ Mapped'
    BY MappedIs, PTL
  <2> QED
    BY <1>1, <1>3, <2>1 DEF ExAsked, ExLog, Mapped
<1> QED
  BY <1>4, <1>5 DEF Ex!Decide, ExMirror, ExAsked, ExLog, ExReply, ExGot, AskedOf

\* ReadBody completes a request.
LEMMA TakesImplements ==
  ASSUME Typed, Typed', Pipe, Pipe', Books, Books', NEW c \in Conns, Takes(c)
  PROVE  \E e \in Exchanges : Ex!Ask(e)
<1>1. /\ Others(c) /\ UNCHANGED <<log, out, read, sent>>
      /\ conn'[c].taken = conn[c].taken + 1 /\ conn'[c].mirror = conn[c].mirror
  BY DEF Takes
<1>2. PICK n, e : n = conn[c].taken + 1 /\ e = <<c, n>>
  OBVIOUS
<1>3. /\ conn[c].taken \in Nat /\ sent[c] \in Seq(Request) /\ Len(sent[c]) \in Nat
      /\ MaxReqs[c] \in Nat
  BY NumbersAre
<1>4. n <= Len(sent[c]) /\ Len(sent[c]) <= MaxReqs[c]
  <2>1. Requests(c)'
    BY DEF Pipe, PipeOf
  <2> QED
    BY <1>1, <1>2, <2>1 DEF Requests, Books, Stage
<1>5. /\ n \in Nat /\ 1 <= n /\ n <= MaxReqs[c] /\ n \in 1..Len(sent[c])
      /\ ~(n <= conn[c].taken) /\ n <= conn'[c].taken
  BY <1>1, <1>2, <1>3, <1>4
<1>6. e \in Exchanges /\ e[1] = c /\ e[2] = n
  BY <1>2, <1>5, ExchangesAre
<1>7. AskedOf(e) = None /\ AskedOf(e)' = sent[c][n] /\ sent[c][n] \in Request
  BY <1>1, <1>3, <1>5, <1>6 DEF AskedOf
<1>8. ASSUME NEW f \in Exchanges, f # e
      PROVE  /\ conn'[f[1]].mirror = conn[f[1]].mirror /\ AskedOf(f)' = AskedOf(f)
             /\ ReplyOf(f)' = ReplyOf(f) /\ GotOf(f)' = GotOf(f)
  <2>1. CASE f[1] = c
    <3>1. f[2] \in Nat /\ f[2] # n
      BY <1>2, <1>8, <2>1, ExchangesAre
    <3>2. f[2] <= conn'[c].taken <=> f[2] <= conn[c].taken
      BY <1>1, <1>2, <1>3, <3>1
    <3> QED
      BY <1>1, <2>1, <3>2, SameSeen DEF AskedOf
  <2>2. CASE f[1] # c
    BY <1>1, <2>2, OthersStay
  <2> QED
    BY <2>1, <2>2
<1>9. conn'[e[1]].mirror = conn[e[1]].mirror /\ ReplyOf(e)' = ReplyOf(e) /\ GotOf(e)' = GotOf(e)
  BY <1>1, <1>6, SameSeen
<1>10. ExMirror' = ExMirror /\ ExReply' = ExReply /\ ExGot' = ExGot /\ ExLog' = ExLog
  <2>1. Mapped /\ Mapped'
    BY MappedIs, PTL
  <2> QED
    BY <1>1, <1>8, <1>9, <2>1 DEF ExMirror, ExLog, Mapped
<1>11. /\ ExAsked[e] = None /\ ExAsked'[e] \in Request
       /\ ExAsked' = [ExAsked EXCEPT ![e] = ExAsked'[e]]
  BY <1>6, <1>7, <1>8 DEF ExAsked
<1>12. Ex!Ask(e)
  BY <1>10, <1>11 DEF Ex!Ask, ExMirror, ExAsked, ExLog, ExReply, ExGot, AskedOf
<1> QED
  BY <1>6, <1>12

\* What Exchange sees of a record.
Entry(x) == [of |-> <<x.conn, x.request.id>>, request |-> x.request,
             response |-> View(x.request.method, x.response)]
Entries == [of : Conns \X Nat, request : Request, response : Response]

\* It is an entry.
LEMMA EntryIs ==
  ASSUME NEW x \in LogEntry
  PROVE  Entry(x) \in Entries
<1>1. x.conn \in Conns /\ x.request \in Request /\ x.response \in Response
  BY DEF LogEntry
<1>2. x.request.id \in Nat
  BY <1>1 DEF Request
<1>3. View(x.request.method, x.response) \in Response
  BY <1>1, MessageIs
<1> QED
  BY <1>1, <1>2, <1>3 DEF Entry, Entries

\* The log of Exchange is a sequence, as long as the log.
LEMMA ExLogIs ==
  ASSUME log \in Seq(LogEntry)
  PROVE  /\ ExLog \in Seq(Entries) /\ Len(ExLog) = Len(log) /\ Len(log) \in Nat
         /\ \A i \in 1..Len(log) : ExLog[i] = Entry(log[i]) /\ log[i] \in LogEntry
<1>1. Len(log) \in Nat /\ DOMAIN log = 1..Len(log) /\ \A i \in 1..Len(log) : log[i] \in LogEntry
  OBVIOUS
<1>2. ExLog = [i \in 1..Len(log) |-> Entry(log[i])]
  BY <1>1 DEF ExLog, Entry
<1>3. ExLog \in [1..Len(log) -> Entries]
  BY <1>1, <1>2, EntryIs
<1>4. ExLog \in Seq(Entries) /\ Len(ExLog) = Len(log)
  BY <1>1, <1>3, FunctionSeq
<1> QED
  BY <1>1, <1>2, <1>4

\* The request a connection serves is an exchange, taken and not yet answered.
Open(c, e) ==
  /\ e \in Exchanges /\ e = <<c, conn[c].taken>> /\ e[1] = c /\ e[2] = conn[c].taken
  /\ AskedOf(e) = conn[c].req /\ AskedOf(e) # None /\ ReplyOf(e) = None
  /\ conn[c].req.id = conn[c].taken /\ conn[c].mirror = "built"

\* So it is from the moment it was taken until its answer is written.
LEMMA OpenIs ==
  ASSUME Typed, Pipe, Books, NEW c \in Conns, conn[c].pc \in Serving
  PROVE  Open(c, <<c, conn[c].taken>>)
<1>1. PICK n, e : n = conn[c].taken /\ e = <<c, n>>
  OBVIOUS
<1>2. /\ n \in 1..Len(sent[c]) /\ conn[c].req = sent[c][n] /\ Numbers(sent[c])
  BY <1>1 DEF Pipe, PipeOf, Requests
<1>3. Len(sent[c]) <= MaxReqs[c] /\ n = Len(out[c]) + 1 /\ conn[c].mirror = "built"
  BY <1>1 DEF Books, Stage
<1>4. /\ n \in Nat /\ Len(sent[c]) \in Nat /\ MaxReqs[c] \in Nat /\ Len(out[c]) \in Nat
      /\ conn[c].req \in Request
  BY <1>1, NumbersAre DEF ConnRecord
<1>5. 1 <= n /\ n <= MaxReqs[c] /\ n <= conn[c].taken /\ ~(n <= Len(out[c]))
  BY <1>1, <1>2, <1>3, <1>4
<1>6. e \in Exchanges /\ e[1] = c /\ e[2] = n
  BY <1>1, <1>4, <1>5, ExchangesAre
<1>7. AskedOf(e) = conn[c].req /\ AskedOf(e) # None
  BY <1>2, <1>4, <1>5, <1>6, PeersAssumption DEF AskedOf
<1>8. ReplyOf(e) = None
  BY <1>5, <1>6 DEF ReplyOf
<1>9. conn[c].req.id = n
  BY <1>2 DEF Numbers
<1> QED
  BY <1>1, <1>3, <1>6, <1>7, <1>8, <1>9 DEF Open

\* Emit records a request.
LEMMA RecordsImplements ==
  ASSUME Typed, Pipe, Books, Books', NEW c \in Conns, Records(c)
  PROVE  \E e \in Exchanges : Ex!Record(e)
<1>1. PICK x : x = [conn |-> c, request |-> conn[c].req, response |-> conn[c].resp]
  OBVIOUS
<1>2. /\ Others(c) /\ UNCHANGED <<out, read, sent>> /\ conn[c].pc = "emit"
      /\ conn'[c] = [conn[c] EXCEPT !.pc = "write"] /\ log' = Append(log, x)
  BY <1>1 DEF Records
<1>3. PICK e : e = <<c, conn[c].taken>>
  OBVIOUS
<1>4. Open(c, e)
  BY <1>2, <1>3, OpenIs DEF Serving
<1>5. conn[c].req \in Request /\ conn[c].resp \in Response /\ conn[c] \in ConnRecord
  BY NumbersAre DEF ConnRecord
<1>6. x \in LogEntry /\ x.conn = c /\ x.request = conn[c].req /\ x.response = conn[c].resp
  BY <1>1, <1>5 DEF LogEntry
<1>7. log \in Seq(LogEntry) /\ log' \in Seq(LogEntry)
  BY DEF Books
<1>8. PICK l : l = Len(log)
  OBVIOUS
<1>9. /\ l \in Nat /\ Len(log') = l + 1 /\ log'[l + 1] = x
      /\ \A i \in 1..l : log'[i] = log[i]
  BY <1>2, <1>6, <1>7, <1>8
<1>10. /\ ExLog \in Seq(Entries) /\ Len(ExLog) = l
       /\ \A i \in 1..l : ExLog[i] = Entry(log[i]) /\ log[i] \in LogEntry
  BY <1>7, <1>8, ExLogIs
<1>11. /\ ExLog' \in Seq(Entries) /\ Len(ExLog') = l + 1
       /\ \A i \in 1..(l + 1) : ExLog'[i] = Entry(log'[i])
  <2>1. (log \in Seq(LogEntry))' =>
          (/\ ExLog \in Seq(Entries) /\ Len(ExLog) = Len(log) /\ Len(log) \in Nat
           /\ \A i \in 1..Len(log) : ExLog[i] = Entry(log[i]) /\ log[i] \in LogEntry)'
    BY ExLogIs, PTL
  <2> QED
    BY <1>7, <1>9, <2>1 DEF Entry, View
<1>12. PICK v, z : /\ v = View(conn[c].req.method, conn[c].resp)
                   /\ z = [of |-> e, request |-> AskedOf(e), response |-> v]
  OBVIOUS
<1>13. Entry(x) = z
  BY <1>4, <1>6, <1>12 DEF Entry, Open
<1>14. z \in Entries /\ v \in Response
  BY <1>5, <1>6, <1>12, <1>13, EntryIs, MessageIs
<1>15. /\ ExLog'[l + 1] = z /\ \A i \in 1..l : ExLog'[i] = ExLog[i]
  <2>1. l + 1 \in 1..(l + 1) /\ \A i \in 1..l : i \in 1..(l + 1)
    BY <1>9
  <2> QED
    BY <1>9, <1>10, <1>11, <1>13, <2>1
<1>16. ExLog' = Append(ExLog, z)
  BY <1>10, <1>11, <1>14, <1>15, AppendIs
<1>17. \A i \in 1..Len(ExLog) : ExLog[i].of # e
  <2> SUFFICES ASSUME NEW i \in 1..l PROVE ExLog[i].of # e
    BY <1>10
  <2>1. log[i].conn = c => log[i].request.id < conn[c].taken
    BY <1>2, <1>8 DEF Books, Logged
  <2>2. ExLog[i].of = <<log[i].conn, log[i].request.id>>
    BY <1>10 DEF Entry
  <2>3. conn[c].taken \in Nat
    BY NumbersAre
  <2> QED
    BY <1>3, <2>1, <2>2, <2>3
<1>18. ASSUME NEW f \in Exchanges
       PROVE  /\ conn'[f[1]].mirror = conn[f[1]].mirror /\ AskedOf(f)' = AskedOf(f)
              /\ ReplyOf(f)' = ReplyOf(f) /\ GotOf(f)' = GotOf(f)
  <2>1. CASE f[1] = c
    <3>1. conn'[c].mirror = conn[c].mirror /\ conn'[c].taken = conn[c].taken
      BY <1>2, <1>5 DEF ConnRecord
    <3> QED
      BY <1>2, <2>1, <3>1, SameSeen DEF AskedOf
  <2>2. CASE f[1] # c
    BY <1>2, <2>2, OthersStay
  <2> QED
    BY <2>1, <2>2
<1>19. ExMirror' = ExMirror /\ ExAsked' = ExAsked /\ ExReply' = ExReply /\ ExGot' = ExGot
  <2>1. Mapped /\ Mapped'
    BY MappedIs, PTL
  <2> QED
    BY <1>18, <2>1 DEF ExMirror, ExAsked, Mapped
<1>20. ExMirror[e] = "built" /\ ExAsked[e] # None /\ ExReply[e] = None /\ ExAsked[e] = AskedOf(e)
  BY <1>4, MappedIs DEF Open, ExMirror, ExAsked, Mapped
<1>21. /\ ExLog'[Len(ExLog) + 1].response \in Response
       /\ ExLog' = Append(ExLog, [of |-> e, request |-> ExAsked[e],
                                  response |-> ExLog'[Len(ExLog) + 1].response])
       /\ Len(ExLog') = Len(ExLog) + 1
  BY <1>10, <1>11, <1>12, <1>14, <1>15, <1>16, <1>20
<1>22. Ex!Record(e)
  BY <1>17, <1>19, <1>20, <1>21
     DEF Ex!Record, Ex!Recorded, ExMirror, ExAsked, ExLog, ExReply, ExGot, AskedOf
<1> QED
  BY <1>4, <1>22 DEF Open

\* WriteH1Response answers it, with the recorded response, unless a HEAD before
\* it has failed.
LEMMA AnswersImplements ==
  ASSUME Typed, Pipe, Books, SeenRight', NEW c \in Conns, Answers(c)
  PROVE  UNCHANGED Ex!vars \/ \E e \in Exchanges : Ex!Reply(e)
<1>1. /\ Others(c) /\ UNCHANGED <<log, read, sent>> /\ conn[c].pc = "write"
      /\ conn'[c].taken = conn[c].taken /\ conn'[c].mirror = conn[c].mirror
      /\ out'[c] = Append(out[c], Message(conn[c].resp))
  BY DEF Answers
<1>2. PICK n, e : n = conn[c].taken /\ e = <<c, conn[c].taken>>
  OBVIOUS
<1>3. Open(c, e) /\ e \in Exchanges /\ e[1] = c /\ e[2] = n
  BY <1>1, <1>2, OpenIs DEF Serving, Open
<1>4. PICK r : r = conn[c].resp
  OBVIOUS
<1>5. /\ r \in Response /\ out[c] \in Seq(Messages) /\ Len(out[c]) \in Nat /\ read[c] \in Nat
      /\ n \in Nat /\ read[c] <= Len(out[c])
  BY <1>2, <1>4, NumbersAre DEF ConnRecord, Typed
<1>6. n = Len(out[c]) + 1
  BY <1>1, <1>2 DEF Books, Stage, Serving
<1>7. PICK m : m = Message(r)
  OBVIOUS
<1>8. m \in Messages
  BY <1>5, <1>7 DEF Messages
<1>9. /\ Len(out'[c]) = n /\ out'[c][n] = m /\ \A k \in 1..Len(out[c]) : out'[c][k] = out[c][k]
  BY <1>1, <1>4, <1>5, <1>6, <1>7, <1>8
<1>10. PICK v : v = View(conn[c].req.method, r)
  OBVIOUS
<1>11. ReplyOf(e)' = IF HeadFailed(c, n)' THEN None ELSE v
  <2>1. n \in 1..Len(out'[c]) /\ n <= Len(out'[c])
    BY <1>5, <1>6, <1>9
  <2>2. ~HeadFailed(c, n)' => Seen(c, n)' = View(sent[c][n].method, out[c][n])'
    BY <2>1 DEF SeenRight
  <2>3. View(sent[c][n].method, out[c][n])' = View(sent'[c][n].method, m)
    BY <1>9 DEF View
  <2>4. sent'[c][n] = conn[c].req
    BY <1>1, <1>2 DEF Pipe, PipeOf, Requests, Serving
  <2>5. View(conn[c].req.method, m) = v
    BY <1>5, <1>7, <1>10, MessageIs
  <2>6. ~HeadFailed(c, n)' => Seen(c, n)' = v
    BY <2>2, <2>3, <2>4, <2>5
  <2> QED
    BY <1>3, <2>1, <2>6 DEF ReplyOf
<1>12. log \in Seq(LogEntry) /\ Logged(c)
  BY DEF Books
<1>13. PICK i \in 1..Len(log) : log[i] = [conn |-> c, request |-> conn[c].req, response |-> r]
  BY <1>1, <1>4, <1>12 DEF Logged
<1>14. i \in 1..Len(ExLog) /\ ExLog[i].of = e /\ ExLog[i].response = v
  <2>1. Len(ExLog) = Len(log) /\ ExLog[i] = Entry(log[i])
    BY <1>12, ExLogIs
  <2>2. /\ log[i].conn = c /\ log[i].request.id = n /\ log[i].response = r
        /\ log[i].request = conn[c].req
    BY <1>2, <1>3, <1>13 DEF Open
  <2> QED
    BY <1>2, <1>10, <2>1, <2>2 DEF Entry
<1>15. ASSUME NEW f \in Exchanges
       PROVE  /\ conn'[f[1]].mirror = conn[f[1]].mirror /\ AskedOf(f)' = AskedOf(f)
              /\ GotOf(f)' = GotOf(f) /\ (f # e => ReplyOf(f)' = ReplyOf(f))
  <2>1. CASE f[1] = c
    <3>1. f[2] \in Nat /\ 1 <= f[2] /\ (f # e => f[2] # n)
      BY <1>2, <2>1, ExchangesAre
    <3>2. /\ f[2] <= read[c] => f[2] <= Len(out[c])
          /\ f # e => (f[2] <= Len(out'[c]) <=> f[2] <= Len(out[c]))
      BY <1>5, <1>6, <1>9, <3>1
    <3>3. AskedOf(f)' = AskedOf(f)
      BY <1>1, <2>1 DEF AskedOf
    <3>4. f[2] <= Len(out[c]) => /\ HeadFailed(c, f[2])' <=> HeadFailed(c, f[2])
                                 /\ Seen(c, f[2])' = Seen(c, f[2])
      BY <1>1, <1>9, <2>1, AnswersStay
    <3>5. GotOf(f)' = GotOf(f)
      BY <1>1, <2>1, <3>2, <3>4 DEF GotOf
    <3>6. f # e => ReplyOf(f)' = ReplyOf(f)
      BY <1>1, <2>1, <3>2, <3>4 DEF ReplyOf
    <3> QED
      BY <1>1, <2>1, <3>3, <3>5, <3>6
  <2>2. CASE f[1] # c
    BY <1>1, <2>2, OthersStay
  <2> QED
    BY <2>1, <2>2
<1>16. Mapped /\ Mapped'
  BY MappedIs, PTL
<1>17. ExMirror' = ExMirror /\ ExAsked' = ExAsked /\ ExGot' = ExGot /\ ExLog' = ExLog
  BY <1>1, <1>15, <1>16 DEF ExMirror, ExAsked, ExLog, Mapped
<1>18. ExReply' = [ExReply EXCEPT ![e] = IF HeadFailed(c, n)' THEN None ELSE v]
  BY <1>3, <1>11, <1>15, <1>16 DEF Mapped
<1>19. ExAsked[e] # None /\ ExReply[e] = None
  BY <1>3, <1>16 DEF Open, ExAsked, Mapped
<1>20. CASE ~HeadFailed(c, n)'
  <2>1. \E j \in 1..Len(ExLog) :
          ExLog[j].of = e /\ ExReply' = [ExReply EXCEPT ![e] = ExLog[j].response]
    BY <1>14, <1>18, <1>20
  <2>2. Ex!Reply(e)
    BY <1>17, <1>19, <2>1
       DEF Ex!Reply, ExMirror, ExAsked, ExLog, ExReply, ExGot, AskedOf
  <2> QED
    BY <1>3, <2>2
<1>21. CASE HeadFailed(c, n)'
  <2>1. ExReply' = ExReply
    BY <1>18, <1>19, <1>16, <1>21 DEF Mapped
  <2> QED
    BY <1>17, <2>1 DEF Ex!vars, ExMirror, ExAsked, ExLog, ExReply, ExGot, AskedOf
<1> QED
  BY <1>20, <1>21

\* ClientRead delivers the answer to the next request.
LEMMA DeliversImplements ==
  ASSUME Typed, Pipe, Books, SeenRight, NEW c \in Conns, Delivers(c)
  PROVE  UNCHANGED Ex!vars \/ \E e \in Exchanges : Ex!Deliver(e)
<1>1. /\ Others(c) /\ UNCHANGED <<conn, log, out, sent>>
      /\ read[c] < Len(out[c]) /\ read'[c] = read[c] + 1
  BY DEF Delivers
<1>2. PICK n, e : n = read[c] + 1 /\ e = <<c, n>>
  OBVIOUS
<1>3. /\ read[c] \in Nat /\ out[c] \in Seq(Messages) /\ Len(out[c]) \in Nat
      /\ conn[c].taken \in Nat /\ Len(sent[c]) \in Nat /\ MaxReqs[c] \in Nat
  BY NumbersAre
<1>4. /\ Len(out[c]) <= conn[c].taken /\ conn[c].taken <= Len(sent[c])
      /\ Len(sent[c]) <= MaxReqs[c]
  BY DEF Books, Stage, Pipe, PipeOf, Requests
<1>5. /\ n \in Nat /\ 1 <= n /\ n <= MaxReqs[c] /\ n <= Len(out[c]) /\ n \in 1..Len(out[c])
      /\ ~(n <= read[c]) /\ n <= read'[c]
  BY <1>1, <1>2, <1>3, <1>4
<1>6. e \in Exchanges /\ e[1] = c /\ e[2] = n
  BY <1>2, <1>5, ExchangesAre
<1>7. Mapped /\ Mapped'
  BY MappedIs, PTL
<1>8. ReplyOf(e) = IF HeadFailed(c, n) THEN None ELSE Seen(c, n)
  BY <1>5, <1>6 DEF ReplyOf
<1>9. GotOf(e) = None
  BY <1>5, <1>6 DEF GotOf
<1>10. GotOf(e)' = ReplyOf(e)
  <2>1. (HeadFailed(c, n)' <=> HeadFailed(c, n)) /\ Seen(c, n)' = Seen(c, n)
    BY <1>1, <1>5, SeenStays
  <2> QED
    BY <1>5, <1>6, <1>8, <2>1 DEF GotOf
<1>11. ASSUME NEW f \in Exchanges
       PROVE  /\ conn'[f[1]].mirror = conn[f[1]].mirror /\ AskedOf(f)' = AskedOf(f)
              /\ ReplyOf(f)' = ReplyOf(f) /\ (f # e => GotOf(f)' = GotOf(f))
  <2>1. CASE f[1] = c
    <3>1. f[2] \in Nat /\ (f # e => f[2] # n)
      BY <1>2, <2>1, ExchangesAre
    <3>2. f # e => (f[2] <= read'[c] <=> f[2] <= read[c])
      BY <1>1, <1>2, <1>3, <3>1
    <3>3. (HeadFailed(c, f[2])' <=> HeadFailed(c, f[2])) /\ Seen(c, f[2])' = Seen(c, f[2])
      BY <1>1, ExchangesAre, SeenStays
    <3> QED
      BY <1>1, <2>1, <3>2, <3>3 DEF AskedOf, ReplyOf, GotOf
  <2>2. CASE f[1] # c
    BY <1>1, <2>2, OthersStay
  <2> QED
    BY <2>1, <2>2
<1>12. ExMirror' = ExMirror /\ ExAsked' = ExAsked /\ ExReply' = ExReply /\ ExLog' = ExLog
  BY <1>1, <1>7, <1>11 DEF ExMirror, ExAsked, ExLog, Mapped
<1>13. ExGot[e] = None /\ ExReply[e] = ReplyOf(e)
  BY <1>6, <1>7, <1>9 DEF Mapped
<1>14. ExGot' = [ExGot EXCEPT ![e] = ExReply[e]]
  BY <1>6, <1>7, <1>10, <1>11, <1>13 DEF Mapped
<1>15. CASE ~HeadFailed(c, n)
  <2>1. ReplyOf(e) # None
    BY <1>5, <1>8, <1>15, PeersAssumption DEF SeenRight
  <2>2. Ex!Deliver(e)
    BY <1>12, <1>13, <1>14, <2>1
       DEF Ex!Deliver, ExMirror, ExAsked, ExLog, ExReply, ExGot, AskedOf
  <2> QED
    BY <1>6, <2>2
<1>16. CASE HeadFailed(c, n)
  <2>1. ExReply[e] = None
    BY <1>8, <1>13, <1>16
  <2>2. ExGot' = ExGot
    BY <1>7, <1>13, <1>14, <2>1 DEF Mapped
  <2> QED
    BY <1>12, <2>2 DEF Ex!vars, ExMirror, ExAsked, ExLog, ExReply, ExGot, AskedOf
<1> QED
  BY <1>15, <1>16

\* serveH1 implements Exchange: every request a client has sent whole is taken
\* and recorded once, as it was sent, before its answer is written, and the
\* client reads off the i-th answer the response recorded with its i-th request,
\* however it pipelines, cuts its stream or vanishes.  Nothing is claimed of the
\* answers behind a HEAD whose round trip failed (conn.go:94-107): errorResponse
\* has a body, which the client of a HEAD does not expect.
THEOREM Implements == Spec => TunnelImplementsExchange
<1>1. Init => Ex!Init
  <2> SUFFICES ASSUME Init PROVE Ex!Init
    OBVIOUS
  <2>1. log = <<>>
    BY DEF Init
  <2>2. ASSUME NEW c \in Conns
        PROVE  /\ conn[c].taken = 0 /\ conn[c].mirror = "unknown"
               /\ Len(out[c]) = 0 /\ read[c] = 0
    <3>1. conn[c] = Fresh /\ out[c] = <<>> /\ read[c] = 0
      BY DEF Init
    <3> QED
      BY <3>1 DEF Fresh
  <2>3. ASSUME NEW e \in Exchanges
        PROVE  /\ conn[e[1]].mirror = "unknown"
               /\ AskedOf(e) = None /\ ReplyOf(e) = None /\ GotOf(e) = None
    <3>1. e[1] \in Conns /\ e[2] \in Nat /\ ~(e[2] <= 0)
      BY ExchangesAre
    <3> QED
      BY <2>2, <3>1 DEF AskedOf, ReplyOf, GotOf
  <2>4. log \in Seq(LogEntry) /\ Len(log) = 0
    BY <2>1
  <2>5. ExLog = <<>>
    BY <2>4, ExLogIs
  <2>6. /\ ExMirror = [e \in Exchanges |-> "unknown"]
        /\ ExAsked = Ex!Unset /\ ExReply = Ex!Unset /\ ExGot = Ex!Unset
    BY <2>3, MappedIs DEF ExMirror, ExAsked, Mapped, Ex!Unset
  <2> QED
    BY <2>5, <2>6 DEF Ex!Init, ExMirror, ExAsked, ExLog, ExReply, ExGot, AskedOf
<1>2. Typed /\ Pipe /\ Books /\ SeenRight /\ (Typed /\ Pipe /\ Books /\ SeenRight)' /\ [Next]_vars
        => [Ex!Next]_Ex!vars
  <2> SUFFICES ASSUME Typed, Pipe, Books, SeenRight, Typed', Pipe', Books', SeenRight',
                      [Next]_vars
               PROVE  Ex!Next \/ UNCHANGED Ex!vars
    OBVIOUS
  <2>1. CASE UNCHANGED <<conn, sent, log, out, read>>
    <3>1. ASSUME NEW e \in Exchanges
          PROVE  /\ AskedOf(e)' = AskedOf(e) /\ ReplyOf(e)' = ReplyOf(e)
                 /\ GotOf(e)' = GotOf(e)
      BY <2>1, SameSeen DEF AskedOf
    <3>2. Mapped /\ Mapped'
      BY MappedIs, PTL
    <3>3. ExReply' = ExReply /\ ExGot' = ExGot
      BY <3>1, <3>2 DEF Mapped
    <3>4. ExLog' = ExLog /\ ExMirror' = ExMirror /\ ExAsked' = ExAsked
      BY <2>1, <3>1 DEF ExLog, ExMirror, ExAsked
    <3> QED
      BY <3>3, <3>4 DEF Ex!vars, ExMirror, ExAsked, ExLog, ExReply, ExGot, AskedOf
  <2>2. ASSUME NEW c \in Conns, Quiet(c) PROVE UNCHANGED Ex!vars
    BY <2>2, QuietImplements
  <2>3. ASSUME NEW c \in Conns, Decides(c) PROVE Ex!Next
    BY <2>3, DecidesImplements DEF Ex!Next
  <2>4. ASSUME NEW c \in Conns, Takes(c) PROVE Ex!Next
    BY <2>4, TakesImplements DEF Ex!Next
  <2>5. ASSUME NEW c \in Conns, Records(c) PROVE Ex!Next
    BY <2>5, RecordsImplements DEF Ex!Next
  <2>6. ASSUME NEW c \in Conns, Answers(c) PROVE Ex!Next \/ UNCHANGED Ex!vars
    BY <2>6, AnswersImplements DEF Ex!Next
  <2>7. ASSUME NEW c \in Conns, Delivers(c) PROVE Ex!Next \/ UNCHANGED Ex!vars
    BY <2>7, DeliversImplements DEF Ex!Next
  <2> QED
    BY <2>1, <2>2, <2>3, <2>4, <2>5, <2>6, <2>7, Views
<1> QED
  BY <1>1, <1>2, SpecHeads, PTL DEF Spec, Ex!Spec, TunnelImplementsExchange

-----------------------------------------------------------------------------
(* What the origin is sent.                                                *)

\* i begins the headers of its name, or continues them.
Begins(hs, i) == \A j \in 1..(i - 1) : hs[j].kind # hs[i].kind

\* b[i] is where the headers of the name at i end.
Ends(hs, b) ==
  /\ b \in [0..Len(hs) -> 0..Len(hs)] /\ b[0] = 0
  /\ \A i \in 1..Len(hs) :
       /\ i <= b[i] /\ hs[b[i]].kind = hs[i].kind
       /\ \A j \in 1..Len(hs) : b[i] < j => hs[j].kind # hs[i].kind

\* Headers of one name are next to each other.
Grouped(hs) ==
  \A i, j \in 1..Len(hs) : hs[i].kind = hs[j].kind => \A x \in i..j : hs[x].kind = hs[i].kind

\* There are such ends.
LEMMA EndsExist ==
  ASSUME NEW hs \in Seq(Pieces)
  PROVE  \E b : Ends(hs, b)
<1>1. PICK n : n = Len(hs)
  OBVIOUS
<1>2. n \in Nat
  BY <1>1
<1> DEFINE P(i, e) == /\ e \in 1..n /\ i <= e /\ hs[e].kind = hs[i].kind
                      /\ \A j \in 1..n : e < j => hs[j].kind # hs[i].kind
<1>3. ASSUME NEW i \in 1..n PROVE \E e \in 1..n : P(i, e)
  <2>1. PICK B : B = {d \in 0..n : n - d \in 1..n /\ hs[n - d].kind = hs[i].kind}
    OBVIOUS
  <2>2. B \in SUBSET Nat /\ n - i \in B
    <3>1. n - i \in 0..n /\ n - (n - i) = i
      BY <1>2
    <3>2. \A d \in 0..n : d \in Nat
      BY <1>2
    <3> QED
      BY <2>1, <3>1, <3>2
  <2>3. PICK d \in B : \A x \in B : d <= x
    BY <2>2, Least
  <2>4. d \in 0..n /\ n - d \in 1..n /\ hs[n - d].kind = hs[i].kind /\ d <= n - i
    BY <2>1, <2>2, <2>3
  <2>5. i <= n - d
    BY <1>2, <2>4
  <2>6. ASSUME NEW j \in 1..n, n - d < j PROVE hs[j].kind # hs[i].kind
    <3>1. n - j \in 0..n /\ n - (n - j) = j /\ ~(d <= n - j)
      BY <1>2, <2>4, <2>6
    <3> QED
      BY <2>1, <2>3, <3>1
  <2> QED
    BY <2>4, <2>5, <2>6
<1>4. PICK b : b = [i \in 0..n |-> IF i = 0 THEN 0 ELSE CHOOSE e \in 1..n : P(i, e)]
  OBVIOUS
<1>5. \A i \in 1..n : P(i, b[i])
  <2> SUFFICES ASSUME NEW i \in 1..n PROVE P(i, b[i])
    OBVIOUS
  <2>1. i \in 0..n /\ i # 0
    BY <1>2
  <2>2. b[i] = CHOOSE e \in 1..n : P(i, e)
    BY <1>4, <2>1
  <2> HIDE DEF P
  <2> QED
    BY <1>3, <2>2
<1>6. b \in [0..n -> 0..n] /\ b[0] = 0
  <2>1. \A i \in 0..n : b[i] \in 0..n
    <3> SUFFICES ASSUME NEW i \in 0..n PROVE b[i] \in 0..n
      OBVIOUS
    <3>1. CASE i = 0
      BY <1>2, <1>4, <3>1
    <3>2. CASE i # 0
      <4>1. i \in 1..n
        BY <1>2, <3>2
      <4>2. b[i] \in 1..n
        BY <1>5, <4>1
      <4> QED
        BY <1>2, <4>2
    <3> QED
      BY <3>1, <3>2
  <2> HIDE DEF P
  <2>2. 0 \in 0..n
    BY <1>2
  <2>3. b = [i \in 0..n |-> b[i]]
    BY <1>4
  <2> QED
    BY <1>4, <2>1, <2>2, <2>3
<1> QED
  BY <1>1, <1>5, <1>6 DEF Ends

\* Where the headers of a name begin, those of the names before end; inside, the
\* end is the same.
LEMMA EndsBefore ==
  ASSUME NEW hs \in Seq(Pieces), Grouped(hs), NEW b, Ends(hs, b), NEW i \in 1..Len(hs)
  PROVE  /\ b[i] \in i..Len(hs) /\ b[i - 1] \in 0..Len(hs)
         /\ Begins(hs, i) => b[i - 1] = i - 1
         /\ ~Begins(hs, i) => b[i - 1] = b[i]
<1>1. PICK n : n = Len(hs)
  OBVIOUS
<1>2. n \in Nat /\ i \in Nat /\ i <= n /\ 1 <= i /\ i \in 0..n /\ i - 1 \in 0..n
  BY <1>1
<1>3. b[i] \in 0..n /\ b[i - 1] \in 0..n /\ b[0] = 0
  BY <1>1, <1>2 DEF Ends
<1>4. i <= b[i] /\ hs[b[i]].kind = hs[i].kind /\ \A j \in 1..n : b[i] < j => hs[j].kind # hs[i].kind
  BY <1>1 DEF Ends
<1>5. i # 1 =>
        /\ i - 1 \in 1..n /\ i - 1 <= b[i - 1] /\ hs[b[i - 1]].kind = hs[i - 1].kind
        /\ \A j \in 1..n : b[i - 1] < j => hs[j].kind # hs[i - 1].kind
  <2>1. i # 1 => i - 1 \in 1..n
    BY <1>2
  <2> QED
    BY <1>1, <2>1 DEF Ends
<1>6. \A x, y \in 1..n : hs[x].kind = hs[y].kind => \A z \in x..y : hs[z].kind = hs[x].kind
  BY <1>1 DEF Grouped
<1>7. ASSUME Begins(hs, i) PROVE b[i - 1] = i - 1
  <2>1. CASE i = 1
    BY <1>3, <2>1
  <2>2. CASE i # 1
    <3>1. hs[i - 1].kind # hs[i].kind
      <4>1. i - 1 \in 1..(i - 1)
        BY <1>2, <2>2
      <4> QED
        BY <1>7, <4>1 DEF Begins
    <3>2. CASE b[i - 1] = i - 1
      BY <3>2
    <3>3. CASE b[i - 1] # i - 1
      <4>1. b[i - 1] \in 1..n /\ i \in (i - 1)..b[i - 1]
        BY <1>2, <1>3, <1>5, <2>2, <3>3
      <4>2. hs[i].kind = hs[i - 1].kind
        BY <1>5, <1>6, <2>2, <4>1
      <4> QED
        BY <3>1, <4>2
    <3> QED
      BY <3>2, <3>3
  <2> QED
    BY <2>1, <2>2
<1>8. ASSUME ~Begins(hs, i) PROVE b[i - 1] = b[i]
  <2>1. PICK j \in 1..(i - 1) : hs[j].kind = hs[i].kind
    BY <1>8 DEF Begins
  <2>2. j \in 1..n /\ i # 1 /\ i - 1 \in j..i
    BY <1>2
  <2>3. hs[i - 1].kind = hs[i].kind
    BY <1>1, <1>6, <2>1, <2>2
  <2>4. b[i] \in 1..n /\ b[i - 1] \in 1..n
    BY <1>2, <1>3, <1>4, <1>5, <2>2
  <2>5. ~(b[i] < b[i - 1]) /\ ~(b[i - 1] < b[i])
    BY <1>4, <1>5, <2>2, <2>3, <2>4
  <2> QED
    BY <1>3, <2>5
<1> QED
  BY <1>1, <1>2, <1>3, <1>4, <1>7, <1>8

\* The headers of a name are those from where it begins to its end.
LEMMA ValuesAre ==
  ASSUME NEW hs \in Seq(Pieces), Grouped(hs), NEW b, Ends(hs, b), NEW i \in 1..Len(hs),
         Begins(hs, i)
  PROVE  Values(hs, hs[i].kind) = SubSeq(hs, i, b[i])
<1>1. PICK n, e : n = Len(hs) /\ e = b[i]
  OBVIOUS
<1>2. n \in Nat /\ i \in Nat /\ 1 <= i /\ e \in i..n /\ DOMAIN hs = 1..n
  BY <1>1, EndsBefore
<1>3. hs[e].kind = hs[i].kind /\ \A j \in 1..n : e < j => hs[j].kind # hs[i].kind
  BY <1>1 DEF Ends
<1>4. \A x \in i..e : hs[x].kind = hs[i].kind
  <2>1. e \in 1..n
    BY <1>2
  <2> QED
    BY <1>1, <1>3, <2>1 DEF Grouped
<1>5. ASSUME NEW j \in 1..n, hs[j].kind = hs[i].kind PROVE j \in i..e
  <2>1. ~(e < j)
    BY <1>3, <1>5
  <2>2. ~(j < i)
    <3>1. j < i => j \in 1..(i - 1)
      BY <1>2
    <3> QED
      BY <1>5, <3>1 DEF Begins
  <2> QED
    BY <1>2, <2>1, <2>2
<1>6. {j \in DOMAIN hs : hs[j].kind = hs[i].kind} = i..e
  <2>1. \A j \in i..e : j \in 1..n
    BY <1>2
  <2> QED
    BY <1>2, <1>4, <1>5, <2>1
<1>7. At(hs, i..e) = SubSeq(hs, i, e)
  <2>1. i \in Nat \ {0} /\ e \in Nat /\ i <= e + 1 /\ e <= Len(hs)
    BY <1>1, <1>2
  <2> QED
    BY <2>1, AtInterval
<1> QED
  BY <1>1, <1>6, <1>7 DEF Values

\* What is written at place i, and behind the headers.
Part(hr, i) ==
  IF \E j \in 1..(i - 1) : hr.order[j] = hr.order[i] THEN <<>>
  ELSE hr.header[hr.order[i]] \o Own(hr, hr.order[i])

Rest(hr, k) == IF \E i \in DOMAIN hr.order : hr.order[i] = k THEN <<>> ELSE Own(hr, k)

\* A length is sent with the request.
Measured(r) == ~r.chunked /\ (r.body > 0 \/ r.method = "POST")

\* Tidy, of the names of the headers.
TidyNames(k, r) ==
  /\ \A i, j \in DOMAIN k : k[i] = k[j] =>
       (\A x \in i..j : k[x] = k[i]) /\ (i = j \/ k[i] \notin Framing)
  /\ \A i \in DOMAIN k : k[i] \in {"host", "transfer-encoding"} => r.headers[i].v = 0
  /\ \E i \in DOMAIN k : k[i] = "host"
  /\ (\E i \in DOMAIN k : k[i] = "content-length") <=> Measured(r)

\* Headers that the transport writes come once.
Once(hs) ==
  \A i, j \in 1..Len(hs) : hs[i].kind = hs[j].kind /\ hs[i].kind \in Framing => i = j

\* The host and the coding have the value that the transport writes.
Bare(hs) ==
  \A i \in 1..Len(hs) : hs[i].kind \in {"host", "transfer-encoding"} => hs[i].v = 0

\* What the transport writes in any case has a place among the headers.
Placed(hs, r) ==
  /\ \E i \in 1..Len(hs) : hs[i].kind = "host"
  /\ (\E i \in 1..Len(hs) : hs[i].kind = "content-length") <=> Measured(r)

\* Of a tidy request, headers of one name are next to each other, and those of
\* the transport come once.
LEMMA TidyIs ==
  ASSUME NEW r \in Request, Tidy(r), NEW hs, hs = r.headers
  PROVE  /\ hs \in Seq(Pieces) /\ Len(hs) \in Nat /\ DOMAIN hs = 1..Len(hs)
         /\ Grouped(hs) /\ Once(hs) /\ Bare(hs) /\ Placed(hs, r)
<1>1. hs \in Seq(Pieces) /\ Len(hs) \in Nat /\ DOMAIN hs = 1..Len(hs)
  BY DEF Request
<1>2. PICK n, k : n = Len(hs) /\ k = [i \in DOMAIN hs |-> hs[i].kind]
  OBVIOUS
<1>3. DOMAIN k = 1..n /\ \A i \in 1..n : k[i] = hs[i].kind
  BY <1>1, <1>2
<1>4. TidyNames(k, r)
  <2>1. TidyNames([i \in DOMAIN r.headers |-> r.headers[i].kind], r)
    BY DEF Tidy, TidyNames, Measured
  <2> QED
    BY <1>2, <2>1
<1>5. \A i, j \in 1..n : \A x \in i..j : x \in 1..n
  BY <1>1, <1>2
<1>6. ASSUME NEW i \in 1..n, NEW j \in 1..n, hs[i].kind = hs[j].kind
      PROVE  /\ \A x \in i..j : hs[x].kind = hs[i].kind
             /\ i = j \/ hs[i].kind \notin Framing
  <2>1. k[i] = k[j] /\ k[i] = hs[i].kind
    BY <1>3, <1>6
  <2>2. (\A x \in i..j : k[x] = k[i]) /\ (i = j \/ k[i] \notin Framing)
    BY <1>3, <1>4, <2>1 DEF TidyNames
  <2> QED
    BY <1>3, <1>5, <2>1, <2>2
<1>7. Grouped(hs)
  BY <1>2, <1>6 DEF Grouped
<1>8. ASSUME NEW i \in 1..n
      PROVE  hs[i].kind \in {"host", "transfer-encoding"} => hs[i].v = 0
  BY <1>3, <1>4 DEF TidyNames
<1>9. Once(hs)
  BY <1>2, <1>6 DEF Once
<1>10. Bare(hs)
  BY <1>2, <1>8 DEF Bare
<1>11. Placed(hs, r)
  BY <1>2, <1>3, <1>4 DEF Placed, TidyNames
<1> QED
  BY <1>1, <1>7, <1>9, <1>10, <1>11

\* What is written for the i-th name is the run of headers that ends there.
PartAt(hr, hs, b, i) == Part(hr, i) = SubSeq(hs, b[i - 1] + 1, b[i])

\* hr is request r, whose headers are hs, ready for the transport.
Built(hr, r, hs) ==
  /\ hr.te = r.chunked /\ hr.length = (IF r.chunked THEN 0 ELSE r.body)
  /\ hr.order = [j \in 1..Len(hs) |-> hs[j].kind]
  /\ \A k \in HeaderNames : hr.header[k] = IF k \in Framing THEN <<>> ELSE Values(hs, k)
  /\ SendsLength(hr) <=> Measured(r)

\* The request buildRequest makes.
LEMMA BuiltIs ==
  ASSUME NEW r \in Request, NEW hs, hs = r.headers, NEW hr, hr = buildRequest(r, FALSE)
  PROVE  Built(hr, r, hs)
<1>1. r.chunked \in BOOLEAN /\ r.headers \in Seq(Pieces) /\ DOMAIN hs = 1..Len(hs)
  BY DEF Request
<1>2. hr.te = r.chunked
  BY <1>1 DEF buildRequest
<1>3. hr.length = (IF r.chunked THEN 0 ELSE r.body) /\ hr.method = r.method
  BY <1>1 DEF buildRequest
<1>4. hr.order = [j \in 1..Len(hs) |-> hs[j].kind]
  BY <1>1 DEF buildRequest
<1>5. \A k \in HeaderNames : framedByTransport(k, FALSE) <=> k \in Framing
  BY DEF framedByTransport, Framing
<1>6. \A k \in HeaderNames : hr.header[k] = IF k \in Framing THEN <<>> ELSE Values(hs, k)
  BY <1>5 DEF buildRequest
<1>7. SendsLength(hr) <=> Measured(r)
  BY <1>1, <1>2, <1>3 DEF SendsLength, Measured
<1> QED
  BY <1>2, <1>3, <1>4, <1>6, <1>7 DEF Built

\* The headers of one name of a tidy request, as they are written.
LEMMA PartIs ==
  ASSUME NEW r \in Request, Framed(r), Tidy(r), NEW hs, hs = r.headers,
         NEW b, Ends(hs, b), NEW i \in 1..Len(hs), NEW hr, hr = buildRequest(r, FALSE)
  PROVE  PartAt(hr, hs, b, i)
<1>1. PICK n, k : n = Len(hs) /\ k = hs[i].kind
  OBVIOUS
<1>2. /\ hs \in Seq(Pieces) /\ n \in Nat /\ DOMAIN hs = 1..n /\ r.body \in Nat
      /\ r.chunked \in BOOLEAN
  BY <1>1 DEF Request
<1>3. hs[i] \in Pieces /\ k \in HeaderNames
  BY <1>1, <1>2 DEF Framed
<1>4. /\ hr.te = r.chunked /\ hr.length = (IF r.chunked THEN 0 ELSE r.body)
      /\ hr.order = [j \in 1..n |-> hs[j].kind]
      /\ hr.header[k] = IF k \in Framing THEN <<>> ELSE Values(hs, k)
      /\ SendsLength(hr) <=> Measured(r)
  <2>1. Built(hr, r, hs)
    BY BuiltIs
  <2>2. SendsLength(hr) <=> Measured(r)
    BY <2>1, Zenon DEF Built
  <2>3. hr.te = r.chunked /\ hr.length = (IF r.chunked THEN 0 ELSE r.body)
    BY <2>1, Zenon DEF Built
  <2>4. hr.header[k] = IF k \in Framing THEN <<>> ELSE Values(hs, k)
    BY <1>3, <2>1, Zenon DEF Built
  <2>5. hr.order = [j \in 1..n |-> hs[j].kind]
    BY <1>1, <2>1, Zenon DEF Built
  <2> QED
    BY <2>2, <2>3, <2>4, <2>5
<1>5. \A j \in 1..n : hr.order[j] = hs[j].kind
  BY <1>4
<1>6. /\ \A x, y \in 1..n : hs[x].kind = hs[y].kind /\ hs[x].kind \in Framing => x = y
      /\ k \in {"host", "transfer-encoding"} => hs[i].v = 0
      /\ k = "content-length" => Measured(r)
  <2>1. Once(hs) /\ Bare(hs) /\ Placed(hs, r)
    BY TidyIs
  <2>2. \A x, y \in 1..n : hs[x].kind = hs[y].kind /\ hs[x].kind \in Framing => x = y
    BY <1>1, <2>1 DEF Once
  <2>3. /\ k \in {"host", "transfer-encoding"} => hs[i].v = 0
        /\ k = "content-length" => Measured(r)
    BY <1>1, <2>1 DEF Bare, Placed
  <2> QED
    BY <2>2, <2>3
<1>7. Grouped(hs)
  BY TidyIs
<1>8. /\ b[i] \in i..n /\ b[i - 1] \in 0..n
      /\ Begins(hs, i) => b[i - 1] = i - 1
      /\ ~Begins(hs, i) => b[i - 1] = b[i]
  BY <1>1, <1>2, <1>7, EndsBefore
<1>9. (\E j \in 1..(i - 1) : hr.order[j] = hr.order[i]) <=> ~Begins(hs, i)
  <2>1. \A j \in 1..(i - 1) : j \in 1..n
    BY <1>1, <1>2
  <2> QED
    BY <1>1, <1>5, <2>1 DEF Begins
<1>10. ASSUME ~Begins(hs, i) PROVE Part(hr, i) = SubSeq(hs, b[i - 1] + 1, b[i])
  <2>1. Part(hr, i) = <<>>
    BY <1>9, <1>10 DEF Part
  <2>2. b[i] \in Nat /\ b[i - 1] = b[i]
    BY <1>8, <1>10
  <2>3. SubSeq(hs, b[i] + 1, b[i]) = <<>>
    BY <1>2, <2>2
  <2> QED
    BY <2>1, <2>2, <2>3
<1>11. ASSUME Begins(hs, i) PROVE Part(hr, i) = SubSeq(hs, b[i - 1] + 1, b[i])
  <2>1. Part(hr, i) = hr.header[k] \o Own(hr, k)
    BY <1>1, <1>5, <1>9, <1>11 DEF Part
  <2>2. b[i - 1] + 1 = i /\ i \in Nat /\ b[i] \in Nat /\ b[i] <= n
    BY <1>2, <1>8, <1>11
  <2>3. CASE k \notin Framing
    <3>1. hr.header[k] = SubSeq(hs, i, b[i])
      <4>1. Values(hs, k) = SubSeq(hs, i, b[i])
        BY <1>1, <1>2, <1>7, <1>11, ValuesAre
      <4> QED
        BY <1>4, <2>3, <4>1
    <3>2. Own(hr, k) = <<>>
      BY <2>3 DEF Own, Framing
    <3>3. SubSeq(hs, i, b[i]) \in Seq(Pieces)
      BY <1>1, <1>2, <1>8, <2>2
    <3>4. SubSeq(hs, i, b[i]) \o <<>> = SubSeq(hs, i, b[i])
      BY <3>3
    <3> QED
      BY <2>1, <2>2, <3>1, <3>2, <3>4
  <2>4. CASE k \in Framing
    <3>1. b[i] = i
      <4>1. b[i] \in 1..n /\ hs[b[i]].kind = hs[i].kind
        BY <1>1, <1>2, <1>8 DEF Ends
      <4> QED
        BY <1>1, <1>6, <2>4, <4>1
    <3>2. hr.header[k] = <<>>
      BY <1>4, <2>4
    <3>3. Own(hr, k) = <<hs[i]>>
      <4>1. hs[i] = Piece(hs[i].kind, hs[i].v)
        BY <1>3 DEF Piece, Pieces
      <4>2. CASE k = "host"
        BY <1>1, <1>6, <4>1, <4>2 DEF Own
      <4>3. CASE k = "transfer-encoding"
        <5>1. hasChunked(hs)
          <6>1. PICK f, K : K = {"transfer-encoding"} /\ f = First(hs, 1, K)
            OBVIOUS
          <6>2. f = 0 => \A j \in 1..Len(hs) : hs[j].kind \notin K
            <7>1. 1 \in Nat \ {0}
              OBVIOUS
            <7> QED
              BY <1>2, <6>1, <7>1, FirstIs
          <6> QED
            BY <1>1, <4>3, <6>1, <6>2 DEF hasChunked
        <5>2. hr.te
          BY <1>4, <5>1 DEF Framed
        <5> QED
          BY <1>1, <1>6, <4>1, <4>3, <5>2 DEF Own
      <4>4. CASE k = "content-length"
        <5>1. ~r.chunked /\ SendsLength(hr)
          BY <1>4, <1>6, <4>4 DEF Measured
        <5>2. First(hs, 1, {"content-length"}) = i
          <6>1. \A j \in 1..(i - 1) : hs[j].kind \notin {"content-length"}
            BY <1>1, <1>11, <4>4 DEF Begins
          <6>2. 1 \in Nat \ {0} /\ hs[i].kind \in {"content-length"} /\ i \in 1..Len(hs)
            BY <1>1, <4>4
          <6> QED
            BY <1>2, <6>1, <6>2, FirstAt
        <5>3. contentLength(hs) = hs[i].v
          BY <1>1, <1>2, <5>2 DEF contentLength
        <5>4. hr.length = hs[i].v /\ hr.te = FALSE
          BY <1>2, <1>4, <5>1, <5>3 DEF Framed
        <5> QED
          BY <1>1, <4>1, <4>4, <5>1, <5>4 DEF Own
      <4> QED
        BY <2>4, <4>2, <4>3, <4>4 DEF Framing
    <3>4. SubSeq(hs, i, i) = <<hs[i]>>
      <4>1. PICK u : u = SubSeq(hs, i, i)
        OBVIOUS
      <4>2. i \in Nat \ {0} /\ i \in Nat /\ i <= i + 1 /\ i <= Len(hs) /\ i - i + 1 = 1
            /\ i + 1 - 1 = i
        BY <1>1, <1>2
      <4>3. u \in Seq(Pieces) /\ Len(u) = 1 /\ u[1] = hs[i]
        <5>1. /\ u \in Seq(Pieces) /\ Len(u) = i - i + 1
              /\ \A x \in 1..(i - i + 1) : u[x] = hs[i + x - 1]
          BY <1>2, <4>1, <4>2, SubSeqIs
        <5> QED
          BY <4>2, <5>1
      <4>4. u = <<hs[i]>>
        BY <1>3, <4>3
      <4> QED
        BY <4>1, <4>4
    <3>5. <<>> \o <<hs[i]>> = <<hs[i]>>
      BY <1>3
    <3> QED
      BY <2>1, <2>2, <3>1, <3>2, <3>3, <3>4, <3>5
  <2> QED
    BY <2>3, <2>4
<1>12. Part(hr, i) = SubSeq(hs, b[i - 1] + 1, b[i])
  BY <1>10, <1>11
<1> QED
  BY <1>12 DEF PartAt

\* buildRequest and the transport's writer send a tidy request as it came.
LEMMA WriteTidy ==
  ASSUME NEW r \in Request, Framed(r), Tidy(r), NEW hr, hr = buildRequest(r, FALSE)
  PROVE  WriteHeaders(hr) = r.headers
<1>1. PICK hs, n : hs = r.headers /\ n = Len(hs)
  OBVIOUS
<1>2. hs \in Seq(Pieces) /\ n \in Nat /\ DOMAIN hs = 1..n
  BY <1>1 DEF Request
<1>3. PICK b : Ends(hs, b)
  BY <1>2, EndsExist
<1>4. PICK q : q = [i \in 1..n |-> Part(hr, i)]
  OBVIOUS
<1>5. /\ hr.order = [j \in 1..n |-> hs[j].kind] /\ DOMAIN hr.order = 1..n
      /\ SendsLength(hr) <=> Measured(r)
  <2>1. Built(hr, r, hs)
    BY <1>1, BuiltIs
  <2>2. SendsLength(hr) <=> Measured(r)
    BY <2>1, Zenon DEF Built
  <2>3. hr.order = [j \in 1..n |-> hs[j].kind]
    BY <1>1, <2>1, Zenon DEF Built
  <2> QED
    BY <2>2, <2>3
<1>6. WriteHeaders(hr) = FlattenSeq(q) \o Rest(hr, "host") \o Rest(hr, "content-length")
  BY <1>4, <1>5 DEF WriteHeaders, Part, Rest
<1>7. Len(q) = n /\ (n = 0 => q = <<>>)
  <2>1. DOMAIN q = 1..n /\ Len(q) = n
    BY <1>2, <1>4
  <2>2. n = 0 => 1..n = {}
    OBVIOUS
  <2>3. n = 0 => q = [i \in {} |-> Part(hr, i)]
    BY <1>4, <2>2
  <2> QED
    BY <2>1, <2>3
<1>8. \A i \in 1..n : q[i] = SubSeq(hs, b[i - 1] + 1, b[i])
  <2> SUFFICES ASSUME NEW i \in 1..n PROVE q[i] = SubSeq(hs, b[i - 1] + 1, b[i])
    OBVIOUS
  <2>1. i \in 1..Len(hs) /\ hs = r.headers
    BY <1>1
  <2>2. PartAt(hr, hs, b, i)
    BY <1>3, <2>1, PartIs
  <2>3. q[i] = Part(hr, i)
    BY <1>4
  <2> QED
    BY <2>2, <2>3 DEF PartAt
<1>9. Grouped(hs)
  <2>1. hs = r.headers
    BY <1>1
  <2> QED
    BY <2>1, TidyIs
<1>10. \A i \in 1..n : b[i - 1] <= b[i]
  <2> SUFFICES ASSUME NEW i \in 1..n PROVE b[i - 1] <= b[i]
    OBVIOUS
  <2>1. /\ b[i] \in i..n /\ b[i - 1] \in 0..n
        /\ Begins(hs, i) => b[i - 1] = i - 1
        /\ ~Begins(hs, i) => b[i - 1] = b[i]
    BY <1>1, <1>2, <1>3, <1>9, EndsBefore
  <2> QED
    BY <1>2, <2>1
<1>11. b \in [0..n -> 0..Len(hs)] /\ b[0] = 0 /\ b[n] = Len(hs)
  <2>1. b \in [0..n -> 0..Len(hs)] /\ b[0] = 0
    BY <1>1, <1>3 DEF Ends
  <2>2. n # 0 => b[n] \in n..n
    <3>1. n # 0 => n \in 1..n
      BY <1>2
    <3> QED
      BY <1>1, <1>2, <1>3, <1>9, <3>1, EndsBefore
  <2> QED
    BY <1>1, <1>2, <2>1, <2>2
<1>12. FlattenSeq(q) = hs
  BY <1>2, <1>7, <1>8, <1>10, <1>11, FlattenParts
<1>13. Rest(hr, "host") = <<>> /\ Rest(hr, "content-length") = <<>>
  <2>1. Placed(hs, r)
    BY <1>1, TidyIs
  <2>2. \A i \in 1..n : hr.order[i] = hs[i].kind
    BY <1>5
  <2>3. \E i \in DOMAIN hr.order : hr.order[i] = "host"
    BY <1>1, <1>5, <2>1, <2>2 DEF Placed
  <2>4. (\E i \in DOMAIN hr.order : hr.order[i] = "content-length") \/ ~SendsLength(hr)
    BY <1>1, <1>5, <2>1, <2>2 DEF Placed
  <2>5. ~SendsLength(hr) => Own(hr, "content-length") = <<>>
    BY DEF Own
  <2> QED
    BY <2>3, <2>4, <2>5 DEF Rest
<1>14. hs \o <<>> = hs
  BY <1>2
<1> QED
  BY <1>1, <1>6, <1>12, <1>13, <1>14

\* An origin was sent a request of the connection, faithfully.
Faithful(o, s) ==
  /\ o.req \in 1..Len(s) /\ o.body = s[o.req].body /\ o.te = s[o.req].chunked
  /\ Tidy(s[o.req]) => o.headers = s[o.req].headers

Origins(c) ==
  /\ \E S : origin[c] \in Seq(S)
  /\ \A i \in 1..Len(origin[c]) : Faithful(origin[c][i], sent[c])

\* What was sent stays sent.
LEMMA SentStays ==
  ASSUME Typed, [Next]_vars, NEW c \in Conns
  PROVE  \A k \in 1..Len(sent[c]) : k \in 1..Len(sent'[c]) /\ sent'[c][k] = sent[c][k]
<1>1. CASE UNCHANGED sent
  BY <1>1
<1>2. ASSUME NEW d \in Conns, Quiet(d)
      PROVE  \A k \in 1..Len(sent[c]) : k \in 1..Len(sent'[c]) /\ sent'[c][k] = sent[c][k]
  <2>1. CASE c = d
    <3>1. Longer(sent[c], sent'[c], MaxReqs[c])
      BY <1>2, <2>1 DEF Quiet
    <3>2. Len(sent[c]) \in Nat
      BY NumbersAre
    <3> QED
      BY <3>1, <3>2 DEF Longer
  <2>2. CASE c # d
    BY <1>2, <2>2 DEF Quiet, Others
  <2> QED
    BY <2>1, <2>2
<1>3. ASSUME NEW d \in Conns,
             Decides(d) \/ Takes(d) \/ Records(d) \/ Answers(d) \/ Delivers(d)
      PROVE  UNCHANGED sent
  BY <1>3 DEF Decides, Takes, Records, Answers, Delivers
<1> QED
  BY <1>1, <1>2, <1>3, Views

\* What RoundTrip sends for a connection.
SentOn(c) ==
  [req |-> conn[c].taken, headers |-> WriteHeaders(buildRequest(conn[c].req, FALSE)),
   body |-> buildRequest(conn[c].req, FALSE).body,
   te |-> buildRequest(conn[c].req, FALSE).te]

\* Only RoundTrip sends something to an origin.
LEMMA OriginViews ==
  ASSUME [Next]_vars
  PROVE  \/ UNCHANGED origin
         \/ \E c \in Conns : /\ conn[c].pc = "trip" /\ UNCHANGED sent
                             /\ origin' = [origin EXCEPT ![c] = Append(@, SentOn(c))]
<1>1. ASSUME NEW c \in Conns, NEW r, NEW reached \in BOOLEAN, RoundTrip(c, r, reached)
      PROVE  \/ UNCHANGED origin
             \/ /\ conn[c].pc = "trip" /\ UNCHANGED sent
                /\ origin' = [origin EXCEPT ![c] = Append(@, SentOn(c))]
  BY <1>1 DEF RoundTrip, SentOn, client
<1>2. ASSUME NEW c \in Conns,
             \/ LeafFor(c) \/ ReadHead(c) \/ ReadBody(c) \/ Emit(c)
             \/ WriteH1Response(c) \/ ServeH2Returns(c)
             \/ \E ok \in BOOLEAN : Mint(c, ok) \/ ForConn(c, ok)
      PROVE  UNCHANGED origin
  BY <1>2 DEF LeafFor, ReadHead, ReadBody, Emit, WriteH1Response, ServeH2Returns, Mint, ForConn
<1>3. ASSUME NEW c \in Conns, Client(c) PROVE UNCHANGED origin
  BY <1>3 DEF Client, ReadConnect, PeekClientHello, Handshake, GiveUp, EndStream, ClientRead,
              Send, SendCut, Vanish
<1>4. CASE UNCHANGED vars
  BY <1>4 DEF vars
<1> QED
  BY <1>1, <1>2, <1>3, <1>4 DEF Next, Serve, Over

\* It is the request the connection serves.
LEMMA SentOnIs ==
  ASSUME Typed, Pipe, NEW c \in Conns, conn[c].pc = "trip"
  PROVE  Faithful(SentOn(c), sent[c])
<1>1. PICK r, n, hr : /\ r = conn[c].req /\ n = conn[c].taken
                      /\ hr = buildRequest(conn[c].req, FALSE)
  OBVIOUS
<1>2. n \in 1..Len(sent[c]) /\ r = sent[c][n] /\ r \in Request /\ Framed(r)
  BY <1>1 DEF Pipe, PipeOf, Requests, Serving, Numbers
<1>3. r.chunked \in BOOLEAN
  BY <1>2 DEF Request
<1>4. hr.body = r.body /\ hr.te = r.chunked
  BY <1>1, <1>3 DEF buildRequest
<1>5. Tidy(r) => WriteHeaders(hr) = r.headers
  BY <1>1, <1>2, WriteTidy
<1>6. PICK o : o = SentOn(c)
  OBVIOUS
<1>7. o.req = n /\ o.headers = WriteHeaders(hr) /\ o.body = hr.body /\ o.te = hr.te
  BY <1>1, <1>6 DEF SentOn
<1> QED
  BY <1>2, <1>4, <1>5, <1>6, <1>7 DEF Faithful

\* Every step keeps it.
LEMMA OriginsNext ==
  Typed /\ Pipe /\ (\A c \in Conns : Origins(c)) /\ [Next]_vars => (\A c \in Conns : Origins(c))'
<1> SUFFICES ASSUME Typed, Pipe, \A c \in Conns : Origins(c), [Next]_vars, NEW d \in Conns
             PROVE  Origins(d)'
  OBVIOUS
<1>1. ASSUME NEW o, Faithful(o, sent[d]) PROVE Faithful(o, sent'[d])
  BY <1>1, SentStays DEF Faithful
<1>2. CASE origin'[d] = origin[d]
  <2>1. /\ \E S : origin'[d] \in Seq(S)
        /\ \A i \in 1..Len(origin'[d]) : Faithful(origin'[d][i], sent'[d])
    BY <1>1, <1>2 DEF Origins
  <2> QED
    BY <2>1 DEF Origins
<1>3. CASE origin'[d] # origin[d]
  <2>1. PICK S : origin[d] \in Seq(S)
    BY DEF Origins
  <2>2. conn[d].pc = "trip" /\ UNCHANGED sent /\ origin'[d] = Append(origin[d], SentOn(d))
    <3>1. PICK c \in Conns : /\ conn[c].pc = "trip" /\ UNCHANGED sent
                             /\ origin' = [origin EXCEPT ![c] = Append(@, SentOn(c))]
      BY <1>3, OriginViews
    <3>2. c = d
      BY <1>3, <3>1
    <3> QED
      BY <1>3, <3>1, <3>2
  <2>3. PICK o, q, T : o = SentOn(d) /\ q = origin[d] /\ T = S \union {o}
    OBVIOUS
  <2>4. Faithful(o, sent[d])
    BY <2>2, <2>3, SentOnIs
  <2>5. q \in Seq(T) /\ o \in T
    BY <2>1, <2>3
  <2>6. PICK z : z = Append(q, o)
    OBVIOUS
  <2>7. /\ z \in Seq(T) /\ Len(q) \in Nat /\ Len(z) = Len(q) + 1 /\ z[Len(q) + 1] = o
        /\ \A i \in 1..Len(q) : z[i] = q[i]
    BY <2>5, <2>6
  <2>8. \A i \in 1..(Len(q) + 1) : i \in 1..Len(q) \/ i = Len(q) + 1
    BY <2>7
  <2>9. \A i \in 1..Len(z) : Faithful(z[i], sent[d])
    BY <2>3, <2>4, <2>7, <2>8 DEF Origins
  <2>10. origin'[d] = z /\ sent' = sent
    BY <2>2, <2>3, <2>6
  <2>11. /\ \E R : origin'[d] \in Seq(R)
         /\ \A i \in 1..Len(origin'[d]) : Faithful(origin'[d][i], sent'[d])
    BY <2>7, <2>9, <2>10
  <2> QED
    BY <2>11 DEF Origins
<1> QED
  BY <1>2, <1>3

\* RoundTrip and buildRequest: however a client pipelines, an origin is sent, for
\* each request, its body and its framing and, when headers of one name are
\* together and those that the transport writes there once, its headers in its
\* order, wherever Host and Content-Length stand among them.
THEOREM OriginsServed == Spec => []OriginFaithful
<1>1. Init => \A c \in Conns : Origins(c)
  <2> SUFFICES ASSUME Init, NEW c \in Conns PROVE Origins(c)
    OBVIOUS
  <2>1. origin[c] = <<>>
    BY DEF Init
  <2>2. origin[c] \in Seq({}) /\ Len(origin[c]) = 0
    BY <2>1
  <2> QED
    BY <2>2 DEF Origins
<1>2. Typed /\ Pipe /\ (\A c \in Conns : Origins(c)) /\ [Next]_vars
        => (\A c \in Conns : Origins(c))'
  BY OriginsNext
<1>3. (\A c \in Conns : Origins(c)) => OriginFaithful
  <2> SUFFICES ASSUME \A c \in Conns : Origins(c), NEW c \in Conns, NEW i \in DOMAIN origin[c]
               PROVE  /\ origin[c][i].body = sent[c][origin[c][i].req].body
                      /\ origin[c][i].te = sent[c][origin[c][i].req].chunked
                      /\ Tidy(sent[c][origin[c][i].req]) =>
                           origin[c][i].headers = sent[c][origin[c][i].req].headers
    BY DEF OriginFaithful
  <2>1. PICK S : origin[c] \in Seq(S)
    BY DEF Origins
  <2>2. i \in 1..Len(origin[c])
    BY <2>1
  <2> QED
    BY <2>2 DEF Origins, Faithful
<1> QED
  BY <1>1, <1>2, <1>3, SpecPipe, PTL DEF Spec
=============================================================================
