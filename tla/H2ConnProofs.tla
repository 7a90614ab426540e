---------------------------- MODULE H2ConnProofs ----------------------------
(***************************************************************************)
(* Theorems about H2Conn for any set of streams, any bounds and any        *)
(* window.  The invariant Inv says where each stream is: on the map, next  *)
(* to be dispatched, or owned by its handler, never two of them; that is   *)
(* what makes the wait group exact and the write lock exclusive.  On it    *)
(* rests what the client sees: transactions are recorded with the          *)
(* fingerprint of the mirror, no credit is lost, responses arrive whole    *)
(* and in order, and the connection implements Exchange.                   *)
(***************************************************************************)
EXTENDS H2Exchange, FiniteSetTheorems, SequenceTheorems, TLAPS

\* A handler has the values its program counter says it has.
HandlerData ==
  \A s \in Streams :
    /\ h[s].pc # "idle" => h[s].req # None /\ h[s].snap # None
    /\ h[s].pc \in {"emit", "lock", "headers", "data", "done"}
         => h[s].resp # None

\* The loop has something to finish only while it is reading, and the stream
\* it is about to dispatch is complete.
LoopBusy ==
  /\ loop # "reading" => todo = <<>> /\ next = None
  /\ next # None => sent[next].state = "ended"

\* wmu is held exactly by the handler that is writing its response.
LockOwner == \A s \in Streams : h[s].pc \in {"headers", "data"} <=> wmu = s

\* Only one handler is inside the sync.Once, and only while it is running.
OnceOwner ==
  /\ \A s \in Streams : h[s].pc = "building" => once = "running"
  /\ \A s, t \in Streams :
       h[s].pc = "building" /\ h[t].pc = "building" => s = t

\* The wait group and the return of ServeHTTP2.
Counted ==
  /\ wg = Cardinality(Active)
  /\ loop = "returned" => Active = {}
  /\ loop = "preface" => Active = {} /\ \A s \in Streams : streams[s] = None

Inv == TypeOK /\ HandlerData /\ LoopBusy /\ LockOwner /\ StreamTableExact
         /\ OnceOwner /\ Counted

-----------------------------------------------------------------------------
\* The handlers alive are a finite set of streams.
LEMMA ActiveFinite == IsFiniteSet(Active)
  BY StreamsAssumption, FS_Subset DEF Active

\* Starting a handler adds one to the number of live handlers ...
LEMMA ActiveStarts ==
  ASSUME NEW s \in Streams, s \notin Active, Active' = Active \union {s}
  PROVE  Cardinality(Active') = Cardinality(Active) + 1
  BY ActiveFinite, FS_AddElement

\* ... and ending one takes one away.
LEMMA ActiveEnds ==
  ASSUME NEW s \in Streams, s \in Active, Active' = Active \ {s}
  PROVE  Cardinality(Active') = Cardinality(Active) - 1
  BY ActiveFinite, FS_RemoveElement

\* The initial state satisfies the invariant.
LEMMA InvInit == Init => Inv
<1> SUFFICES ASSUME Init PROVE Inv
  OBVIOUS
<1>1. TypeOK
  <2>1. fp \in Fingerprint
    BY BoundsAssumption DEF Init, Fingerprint
  <2>2. cli \in Client /\ hist \in History /\ sent \in [Streams -> SentOn]
    BY BoundsAssumption DEF Init, Client, History, SentOn
  <2>3. /\ todo \in Seq(Frame) /\ out \in Seq(Frame)
        /\ emitted \in Seq(Transaction)
    BY DEF Init
  <2>4. h \in [Streams -> Handler]
    BY DEF Init, Handler, Pc
  <2> QED
    BY <2>1, <2>2, <2>3, <2>4 DEF Init, TypeOK
<1>2. Active = {}
  BY DEF Init, Active
<1>3. Counted
  BY <1>2, FS_EmptySet DEF Counted, Init
<1>4. HandlerData /\ LoopBusy /\ LockOwner /\ StreamTableExact /\ OnceOwner
  BY StreamsAssumption
     DEF Init, HandlerData, LoopBusy, LockOwner, StreamTableExact, OnceOwner
<1> QED
  BY <1>1, <1>3, <1>4 DEF Inv

-----------------------------------------------------------------------------
(* How the parts of the invariant that count handlers follow a handler.    *)

\* The start: the loop hands over stream s, which had no handler.
LEMMA HandlerStarts ==
  ASSUME Inv, NEW s \in Streams, NEW st \in Captured, loop = "reading",
         h[s].pc = "idle", dispatch(s, st, fp'), fp' \in Fingerprint,
         UNCHANGED <<loop, wmu, once>>
  PROVE  /\ h' \in [Streams -> Handler] /\ wg' \in Nat
         /\ streams' \in [Streams -> Captured \union {None}]
         /\ h'[s].pc = "ready" /\ streams'[s] = None
         /\ \A t \in Streams \ {s} : h'[t] = h[t] /\ streams'[t] = streams[t]
         /\ HandlerData' /\ LockOwner' /\ OnceOwner' /\ Counted'
<1>0. TypeOK
  BY DEF Inv
<1>1. /\ h' \in [Streams -> Handler] /\ h'[s].pc = "ready"
      /\ h'[s].req = st /\ h'[s].snap = fp' /\ h'[s].resp = h[s].resp
  BY <1>0 DEF TypeOK, dispatch, Handler, Pc
<1>2. /\ streams' \in [Streams -> Captured \union {None}] /\ streams'[s] = None
      /\ \A t \in Streams \ {s} : h'[t] = h[t] /\ streams'[t] = streams[t]
  BY <1>0 DEF TypeOK, dispatch
<1>3. st # None /\ fp' # None
  BY NoneAssumption
<1>4. HandlerData'
  BY <1>1, <1>2, <1>3 DEF HandlerData, Inv
<1>5. LockOwner' /\ OnceOwner'
  BY <1>1, <1>2 DEF LockOwner, OnceOwner, Inv
<1>6. Counted'
  <2>1. s \notin Active /\ Active' = Active \union {s}
    BY <1>1, <1>2 DEF Active
  <2>2. wg' = wg + 1
    BY DEF dispatch
  <2> QED
    BY <2>1, <2>2, ActiveStarts DEF Counted, Inv
<1> QED
  BY <1>0, <1>1, <1>2, <1>4, <1>5, <1>6 DEF TypeOK, dispatch

\* Between its start and its end a handler leaves the loop's state alone.
LEMMA HandlerMoves ==
  ASSUME Inv, NEW s \in Streams,
         h[s].pc \notin {"idle", "done"}, h'[s].pc \notin {"idle", "done"},
         \A t \in Streams \ {s} : h'[t] = h[t],
         UNCHANGED <<loop, todo, next, streams, wg, sent>>
  PROVE  LoopBusy' /\ StreamTableExact' /\ Counted'
<1>1. Active' = Active
  BY DEF Active
<1>2. Counted'
  BY <1>1 DEF Counted, Inv
<1>3. LoopBusy' /\ StreamTableExact'
  BY DEF LoopBusy, StreamTableExact, Inv
<1> QED
  BY <1>2, <1>3

\* The end: the handler unlocks and leaves the wait group.
LEMMA HandlerEnds ==
  ASSUME Inv, NEW s \in Streams, h[s].pc \in {"headers", "data"},
         h'[s].pc = "done", h'[s].req = h[s].req, h'[s].snap = h[s].snap,
         h'[s].resp = h[s].resp, \A t \in Streams \ {s} : h'[t] = h[t],
         finish, UNCHANGED <<loop, todo, next, streams, sent, once>>
  PROVE  /\ HandlerData' /\ LoopBusy' /\ LockOwner' /\ StreamTableExact'
         /\ OnceOwner' /\ Counted' /\ wg' \in Nat
<1>1. s \in Active /\ Active' = Active \ {s}
  BY DEF Active
<1>2. Cardinality(Active') = Cardinality(Active) - 1
  BY <1>1, ActiveEnds
<1>3. IsFiniteSet(Active')
  BY <1>1, ActiveFinite, FS_Subset
<1>4. wg' = Cardinality(Active')
  BY <1>2 DEF Inv, Counted, finish
<1>5. wg' \in Nat
  BY <1>3, <1>4, FS_CardinalityType
<1>6. Counted'
  BY <1>1, <1>4 DEF Counted, Inv
<1>7. LockOwner'
  BY StreamsAssumption DEF LockOwner, Inv, finish
<1>8. HandlerData' /\ LoopBusy' /\ StreamTableExact' /\ OnceOwner'
  BY DEF HandlerData, LoopBusy, StreamTableExact, OnceOwner, Inv
<1> QED
  BY <1>5, <1>6, <1>7, <1>8

-----------------------------------------------------------------------------
(* The read loop preserves the invariant.                                  *)

\* The preface starts the loop or ends the call; no handler exists yet.
LEMMA PrefaceInv ==
  ASSUME Inv, NEW good \in BOOLEAN, ReadPreface(good)
  PROVE  Inv'
<1>1. out' \in Seq(Frame)
  BY DEF Inv, TypeOK, ReadPreface, Ctl, Frame
<1>2. TypeOK'
  BY <1>1 DEF Inv, TypeOK, ReadPreface, serve
<1>3. Counted'
  BY DEF Inv, Counted, Active, ReadPreface
<1>4. /\ HandlerData' /\ LoopBusy' /\ LockOwner' /\ StreamTableExact'
      /\ OnceOwner'
  BY DEF Inv, HandlerData, LoopBusy, LockOwner, StreamTableExact, OnceOwner,
         ReadPreface, serve
<1> QED
  BY <1>2, <1>3, <1>4 DEF Inv

\* A connection-level frame changes the fingerprint, todo and the history.
LEMMA CtlInv ==
  ASSUME Inv, NEW f \in Fingerprint, NEW t \in Seq(Frame), ReadCtl(f, t)
  PROVE  Inv'
<1>1. hist' \in History
  <2> DEFINE l == hist.late \/ (hist.first # None /\ f # fp)
  <2>1. l \in BOOLEAN
    OBVIOUS
  <2>2. hist' = [hist EXCEPT !.ctl = @ + 1, !.late = l]
    BY DEF ReadCtl
  <2>3. hist \in History
    BY DEF Inv, TypeOK
  <2>4. hist.ctl + 1 \in Nat
    BY <2>3 DEF History
  <2> DEFINE n == hist.ctl + 1
  <2>5. hist' = [hist EXCEPT !.ctl = n, !.late = l]
    BY <2>2
  <2> HIDE DEF l, n
  <2> QED
    BY <2>1, <2>3, <2>4, <2>5, Zenon DEF History, n
<1>2. TypeOK'
  BY <1>1 DEF Inv, TypeOK, ReadCtl, write, serve
<1>3. Counted'
  BY DEF Inv, Counted, Active, ReadCtl
<1>4. /\ HandlerData' /\ LoopBusy' /\ LockOwner' /\ StreamTableExact'
      /\ OnceOwner'
  BY DEF Inv, HandlerData, LoopBusy, LockOwner, StreamTableExact, OnceOwner,
         ReadCtl, CanRead, AtRead, write, serve
<1> QED
  BY <1>2, <1>3, <1>4 DEF Inv

\* SETTINGS, WINDOW_UPDATE, PRIORITY and PING preserve the invariant.
LEMMA CtlFramesInv ==
  ASSUME Inv,
         ReadSettings \/ ReadWindowUpdate \/ ReadPriority \/ ReadPing
  PROVE  Inv'
<1>1. fp \in Fingerprint /\ <<>> \in Seq(Frame)
  BY DEF Inv, TypeOK
<1>2. CASE ReadSettings
  <2>1. /\ [fp EXCEPT !.settings = @ + 1] \in Fingerprint
        /\ <<Ctl("ack")>> \in Seq(Frame)
    BY <1>1 DEF Fingerprint, Ctl, Frame
  <2> QED
    BY <1>2, <2>1, CtlInv DEF ReadSettings
<1>3. CASE ReadWindowUpdate
  <2>1. (fp.connectionFlow + 1) % FlowModulus \in 0..(FlowModulus - 1)
    BY <1>1, BoundsAssumption DEF Fingerprint
  <2>2. [fp EXCEPT !.connectionFlow = (@ + 1) % FlowModulus] \in Fingerprint
    BY <1>1, <2>1 DEF Fingerprint
  <2> QED
    BY <1>1, <1>3, <2>2, CtlInv DEF ReadWindowUpdate
<1>4. CASE ReadPriority
  <2>1. [fp EXCEPT !.priorities = @ + 1] \in Fingerprint
    BY <1>1 DEF Fingerprint
  <2> QED
    BY <1>1, <1>4, <2>1, CtlInv DEF ReadPriority
<1>5. CASE ReadPing
  <2>1. <<Ctl("pong")>> \in Seq(Frame)
    BY DEF Ctl, Frame
  <2> QED
    BY <1>1, <1>5, <2>1, CtlInv DEF ReadPing
<1> QED
  BY <1>2, <1>3, <1>4, <1>5

\* A header block: the stream joins the map, or its handler starts.
LEMMA BlockInv ==
  ASSUME Inv, NEW s \in Streams, NEW b \in Block, NEW end \in BOOLEAN,
         ReadBlock(s, b, end), sent[s].state \in {"idle", "open"},
         sent' \in [Streams -> SentOn],
         sent'[s].state = IF end THEN "ended" ELSE "open",
         \A t \in Streams \ {s} : sent'[t] = sent[t]
  PROVE  Inv'
<1> DEFINE st == [block |-> b, body |-> 0]
<1>1. fp' \in Fingerprint
  <2>1. fp \in Fingerprint
    BY DEF Inv, TypeOK
  <2>2. captureHeaders(b) \in Fingerprint
    BY <2>1 DEF captureHeaders, Fingerprint
  <2> QED
    BY <2>2 DEF ReadBlock
<1>2. st \in Captured /\ st # None
  BY NoneAssumption DEF Captured
<1>3. hist' \in History
  BY DEF Inv, TypeOK, ReadBlock, History
<1>4. h[s].pc = "idle" /\ next = None /\ loop = "reading"
  BY DEF Inv, StreamTableExact, ReadBlock, CanRead, AtRead
<1>5. UNCHANGED <<loop, todo, next, wmu, enc, out, once, mirror, emitted, cli,
                  gone>>
  BY DEF ReadBlock, write, serve
<1>6. LoopBusy'
  BY <1>4, <1>5, StreamsAssumption DEF LoopBusy, Inv
<1>7. CASE end
  <2>1. dispatch(s, st, fp')
    BY <1>7 DEF ReadBlock
  <2>2. /\ h' \in [Streams -> Handler] /\ wg' \in Nat
        /\ streams' \in [Streams -> Captured \union {None}]
        /\ h'[s].pc = "ready" /\ streams'[s] = None
        /\ \A t \in Streams \ {s} : h'[t] = h[t] /\ streams'[t] = streams[t]
        /\ HandlerData' /\ LockOwner' /\ OnceOwner' /\ Counted'
    BY <1>1, <1>2, <1>4, <1>5, <2>1, HandlerStarts
  <2>3. TypeOK'
    BY <1>1, <1>3, <1>5, <2>2 DEF Inv, TypeOK
  <2>4. StreamTableExact'
    BY <1>4, <1>5, <1>7, <2>2, StreamsAssumption DEF Inv, StreamTableExact
  <2> QED
    BY <1>6, <2>2, <2>3, <2>4 DEF Inv
<1>8. CASE ~end
  <2>1. keep(s, st)
    BY <1>8 DEF ReadBlock
  <2>2. /\ UNCHANGED <<wg, h>> /\ streams'[s] = st
        /\ streams' \in [Streams -> Captured \union {None}]
        /\ \A t \in Streams \ {s} : streams'[t] = streams[t]
    BY <1>2, <2>1 DEF keep, Inv, TypeOK
  <2>3. TypeOK'
    BY <1>1, <1>3, <1>5, <2>2 DEF Inv, TypeOK
  <2>4. StreamTableExact'
    BY <1>2, <1>4, <1>5, <1>8, <2>2, StreamsAssumption
       DEF Inv, StreamTableExact
  <2>5. Counted'
    BY <1>4, <1>5, <2>2 DEF Inv, Counted, Active
  <2>6. HandlerData' /\ LockOwner' /\ OnceOwner'
    BY <1>5, <2>2 DEF Inv, HandlerData, LockOwner, OnceOwner
  <2> QED
    BY <1>6, <2>3, <2>4, <2>5, <2>6 DEF Inv
<1> QED
  BY <1>7, <1>8

\* The HEADERS that open a request preserve the invariant.
LEMMA HeadersInv ==
  ASSUME Inv, NEW s \in Streams, NEW bare \in BareBlocks, NEW end \in BOOLEAN,
         ReadHeaders(s, bare, end)
  PROVE  Inv'
<1> DEFINE b == [stream |-> s, trailers |-> FALSE, bare |-> bare]
<1>1. b \in Block /\ ReadBlock(s, b, end)
  BY BoundsAssumption DEF Block, ReadHeaders
<1>2. sent \in [Streams -> SentOn]
  BY DEF Inv, TypeOK
<1>3. /\ sent' \in [Streams -> SentOn]
      /\ sent'[s].state = IF end THEN "ended" ELSE "open"
      /\ \A t \in Streams \ {s} : sent'[t] = sent[t]
  BY <1>2 DEF ReadHeaders, SentOn
<1> QED
  BY <1>1, <1>3, BlockInv DEF ReadHeaders

\* Trailers replace the stream on the map and start its handler.
LEMMA TrailersInv ==
  ASSUME Inv, NEW s \in Streams, ReadTrailers(s)
  PROVE  Inv'
<1> DEFINE b == [stream |-> s, trailers |-> TRUE, bare |-> FALSE]
<1>1. b \in Block /\ ReadBlock(s, b, TRUE)
  BY DEF Block, ReadTrailers
<1>2. sent \in [Streams -> SentOn]
  BY DEF Inv, TypeOK
<1>3. /\ sent' \in [Streams -> SentOn] /\ sent'[s].state = "ended"
      /\ \A t \in Streams \ {s} : sent'[t] = sent[t]
  BY <1>2 DEF ReadTrailers, SentOn
<1>4. sent[s].state = "open"
  BY DEF ReadTrailers
<1> QED
  BY <1>1, <1>3, <1>4, BlockInv

\* A DATA frame: the body grows, and the handler starts if nothing is owed.
LEMMA DataInv ==
  ASSUME Inv, NEW s \in Streams, NEW n \in 0..1, NEW pad \in 0..1,
         NEW end \in BOOLEAN, ReadData(s, n, pad, end)
  PROVE  Inv'
<1> DEFINE st == [streams[s] EXCEPT !.body = @ + n]
<1>0. TypeOK
  BY DEF Inv
<1>1. st \in Captured /\ st # None
  <2>1. streams[s] \in Captured
    BY <1>0 DEF ReadData, TypeOK
  <2> QED
    BY <2>1, NoneAssumption DEF Captured
<1>2. /\ sent' \in [Streams -> SentOn]
      /\ sent'[s].state = IF end THEN "ended" ELSE "open"
      /\ \A t \in Streams \ {s} : sent'[t] = sent[t]
  <2>1. sent \in [Streams -> SentOn]
    BY <1>0 DEF TypeOK
  <2>2. /\ sent' = [sent EXCEPT ![s].state = IF end THEN "ended" ELSE @,
                                ![s].body = @ + n, ![s].pad = @ + pad]
        /\ sent[s].state = "open"
    BY DEF ReadData
  <2>3. sent[s] \in SentOn /\ n \in Nat /\ pad \in Nat
    BY <2>1
  <2> DEFINE nb == sent[s].body + n
             np == sent[s].pad + pad
             ns == IF end THEN "ended" ELSE "open"
             x == [sent[s] EXCEPT !.state = ns, !.body = nb, !.pad = np]
  <2>4. x \in SentOn /\ x.state = ns
    <3>1. nb \in Nat /\ np \in Nat
      BY <2>3 DEF SentOn
    <3>2. ns \in {"idle", "open", "ended", "reset"}
      OBVIOUS
    <3> HIDE DEF nb, np, ns
    <3> QED
      BY <2>3, <3>1, <3>2, Zenon DEF SentOn
  <2>5. sent' = [sent EXCEPT ![s] = x]
    BY <2>1, <2>2
  <2> HIDE DEF x
  <2> QED
    BY <2>1, <2>4, <2>5
<1>3. cli' \in Client
  <2>1. cli \in Client
    BY <1>0 DEF TypeOK
  <2>2. /\ cli' = [cli EXCEPT !.win = @ - (n + pad), !.swin[s] = @ - (n + pad)]
        /\ n + pad <= cli.win /\ n + pad <= cli.swin[s]
    BY DEF ReadData
  <2>3. cli.win - (n + pad) \in Nat /\ cli.swin[s] - (n + pad) \in Nat
    BY <2>1, <2>2 DEF Client
  <2> QED
    BY <2>1, <2>2, <2>3 DEF Client
<1>4. h[s].pc = "idle" /\ next = None /\ loop = "reading"
  BY DEF Inv, StreamTableExact, ReadData, CanRead, AtRead
<1>5. UNCHANGED <<loop, fp, wmu, enc, out, once, mirror, emitted, gone>>
  BY DEF ReadData, write, serve
<1>6. hist' \in History
  <2>1. hist \in History /\ hist' = [hist EXCEPT !.pad = @ + pad]
    BY <1>0 DEF TypeOK, ReadData
  <2>2. hist.pad + pad \in Nat
    BY <2>1 DEF History
  <2> DEFINE x == hist.pad + pad
  <2>3. hist' = [hist EXCEPT !.pad = x]
    BY <2>1
  <2> HIDE DEF x
  <2> QED
    BY <2>1, <2>2, <2>3, Zenon DEF History, x
<1>7. CASE n > 0 \/ ~end
  <2>1. keep(s, st)
    BY <1>7 DEF ReadData
  <2>2. /\ UNCHANGED <<wg, h>> /\ streams'[s] = st
        /\ streams' \in [Streams -> Captured \union {None}]
        /\ \A t \in Streams \ {s} : streams'[t] = streams[t]
    BY <1>0, <1>1, <2>1 DEF keep, TypeOK
  <2>3. /\ next' = IF end THEN s ELSE None
        /\ todo' \in Seq(Frame)
    <3>1. Wupd(None, n) \in Frame /\ Wupd(s, n) \in Frame
      BY DEF Wupd, Frame
    <3>2. credits(s, n) \in Seq(Frame)
      BY <3>1 DEF credits
    <3> QED
      BY <1>0, <1>4, <1>7, <3>2 DEF ReadData, TypeOK
  <2>4. TypeOK'
    BY <1>0, <1>2, <1>3, <1>5, <1>6, <2>2, <2>3 DEF TypeOK
  <2>5. StreamTableExact'
    BY <1>1, <1>2, <1>4, <1>5, <2>2, <2>3, StreamsAssumption
       DEF Inv, StreamTableExact
  <2>6. LoopBusy'
    BY <1>2, <1>4, <1>5, <2>3, StreamsAssumption DEF LoopBusy
  <2>7. Counted'
    BY <1>4, <1>5, <2>2 DEF Inv, Counted, Active
  <2>8. HandlerData' /\ LockOwner' /\ OnceOwner'
    BY <1>5, <2>2 DEF Inv, HandlerData, LockOwner, OnceOwner
  <2> QED
    BY <2>4, <2>5, <2>6, <2>7, <2>8 DEF Inv
<1>8. CASE ~(n > 0) /\ end
  <2>1. dispatch(s, st, fp') /\ UNCHANGED <<todo, next>>
    BY <1>5, <1>8 DEF ReadData
  <2>2. /\ h' \in [Streams -> Handler] /\ wg' \in Nat
        /\ streams' \in [Streams -> Captured \union {None}]
        /\ h'[s].pc = "ready" /\ streams'[s] = None
        /\ \A t \in Streams \ {s} : h'[t] = h[t] /\ streams'[t] = streams[t]
        /\ HandlerData' /\ LockOwner' /\ OnceOwner' /\ Counted'
    <3>1. fp' \in Fingerprint
      BY <1>0, <1>5 DEF TypeOK
    <3> QED
      BY <1>1, <1>4, <1>5, <2>1, <3>1, HandlerStarts
  <2>3. TypeOK'
    BY <1>0, <1>2, <1>3, <1>5, <1>6, <2>1, <2>2 DEF TypeOK
  <2>4. StreamTableExact'
    BY <1>2, <1>4, <1>8, <2>1, <2>2, StreamsAssumption
       DEF Inv, StreamTableExact
  <2>5. LoopBusy'
    BY <1>4, <1>5, <2>1 DEF LoopBusy
  <2> QED
    BY <2>2, <2>3, <2>4, <2>5 DEF Inv
<1> QED
  BY <1>7, <1>8

\* RST_STREAM takes an incomplete request off the map.
LEMMA RSTStreamInv ==
  ASSUME Inv, NEW s \in Streams, ReadRSTStream(s)
  PROVE  Inv'
<1>1. /\ sent' \in [Streams -> SentOn] /\ sent'[s].state = "reset"
      /\ \A t \in Streams \ {s} : sent'[t] = sent[t]
  <2>1. sent \in [Streams -> SentOn]
    BY DEF Inv, TypeOK
  <2> QED
    BY <2>1 DEF ReadRSTStream, SentOn
<1>2. /\ streams' \in [Streams -> Captured \union {None}] /\ streams'[s] = None
      /\ \A t \in Streams \ {s} : streams'[t] = streams[t]
  BY DEF Inv, TypeOK, ReadRSTStream
<1>3. h[s].pc = "idle" /\ next = None /\ loop = "reading"
  BY DEF Inv, StreamTableExact, ReadRSTStream, CanRead, AtRead
<1>4. UNCHANGED <<loop, todo, next, fp, wg, wmu, enc, out, h, once, mirror,
                  emitted, cli, gone, hist>>
  BY DEF ReadRSTStream, write, serve
<1>5. TypeOK'
  BY <1>1, <1>2, <1>4 DEF Inv, TypeOK
<1>6. StreamTableExact' /\ LoopBusy'
  BY <1>1, <1>2, <1>3, <1>4, StreamsAssumption
     DEF Inv, StreamTableExact, LoopBusy
<1>7. Counted'
  BY <1>3, <1>4 DEF Inv, Counted, Active
<1>8. HandlerData' /\ LockOwner' /\ OnceOwner'
  BY <1>4 DEF Inv, HandlerData, LockOwner, OnceOwner
<1> QED
  BY <1>5, <1>6, <1>7, <1>8 DEF Inv

\* The steps of the loop that touch neither a stream nor a handler.
LEMMA LoopInv ==
  ASSUME Inv, ReadStop \/ LoopWrite \/ LoopReturn
  PROVE  Inv'
<1>1. UNCHANGED <<next, fp, streams, wg, wmu, enc, h, once, mirror, emitted,
                  sent, cli, gone, hist>>
  BY DEF ReadStop, LoopWrite, LoopReturn, write, serve
<1>2. todo' \in Seq(Frame) /\ out' \in Seq(Frame)
  <2>1. todo \in Seq(Frame) /\ out \in Seq(Frame)
    BY DEF Inv, TypeOK
  <2>2. CASE LoopWrite
    <3>1. Head(todo) \in Frame /\ Tail(todo) \in Seq(Frame)
      BY <2>1, <2>2 DEF LoopWrite
    <3>2. Append(out, Head(todo)) \in Seq(Frame)
      BY <2>1, <3>1
    <3> QED
      BY <2>1, <2>2, <3>1, <3>2 DEF LoopWrite
  <2>3. CASE ReadStop \/ LoopReturn
    BY <2>1, <2>3 DEF ReadStop, LoopReturn, write
  <2> QED
    BY <2>2, <2>3
<1>3. TypeOK'
  BY <1>1, <1>2 DEF Inv, TypeOK, ReadStop, LoopWrite, LoopReturn
<1>4. LoopBusy'
  BY <1>1 DEF Inv, LoopBusy, ReadStop, AtRead, LoopWrite, LoopReturn
<1>5. Counted'
  <2>1. wg = 0 => Active = {}
    BY ActiveFinite, FS_EmptySet DEF Inv, Counted
  <2>2. Active' = Active
    BY <1>1 DEF Active
  <2> QED
    BY <1>1, <2>1, <2>2
       DEF Inv, Counted, ReadStop, AtRead, LoopWrite, LoopReturn
<1>6. HandlerData' /\ LockOwner' /\ OnceOwner' /\ StreamTableExact'
  BY <1>1 DEF Inv, HandlerData, LockOwner, OnceOwner, StreamTableExact
<1> QED
  BY <1>3, <1>4, <1>5, <1>6 DEF Inv

\* The dispatch after the window updates starts the handler of next.
LEMMA DispatchInv ==
  ASSUME Inv, LoopDispatch
  PROVE  Inv'
<1> DEFINE s == next
<1>0. TypeOK
  BY DEF Inv
<1>1. /\ s \in Streams /\ loop = "reading" /\ sent[s].state = "ended"
      /\ h[s].pc = "idle"
  BY DEF Inv, TypeOK, LoopBusy, StreamTableExact, LoopDispatch
<1>2. streams[s] \in Captured
  BY <1>0, <1>1 DEF Inv, StreamTableExact, TypeOK
<1>3. UNCHANGED <<loop, todo, fp, wmu, enc, out, once, mirror, emitted, sent,
                  cli, gone, hist>>
  BY DEF LoopDispatch, write, serve
<1>4. fp' \in Fingerprint /\ dispatch(s, streams[s], fp') /\ next' = None
  BY <1>0, <1>3 DEF TypeOK, LoopDispatch
<1>5. /\ h' \in [Streams -> Handler] /\ wg' \in Nat
      /\ streams' \in [Streams -> Captured \union {None}]
      /\ h'[s].pc = "ready" /\ streams'[s] = None
      /\ \A t \in Streams \ {s} : h'[t] = h[t] /\ streams'[t] = streams[t]
      /\ HandlerData' /\ LockOwner' /\ OnceOwner' /\ Counted'
  <2> HIDE DEF s
  <2> QED
    BY <1>1, <1>2, <1>3, <1>4, HandlerStarts
<1>6. TypeOK'
  BY <1>0, <1>3, <1>4, <1>5 DEF TypeOK
<1>7. StreamTableExact' /\ LoopBusy'
  BY <1>1, <1>3, <1>4, <1>5, StreamsAssumption
     DEF Inv, StreamTableExact, LoopBusy
<1> QED
  BY <1>5, <1>6, <1>7 DEF Inv

-----------------------------------------------------------------------------
(* The handlers preserve the invariant.                                    *)

\* What RoundTrip returns, and errorResponse, are responses.
LEMMA ResponseTypes ==
  ASSUME NEW r \in OriginResponses \union {errorResponse}
  PROVE  r \in Response /\ r # None
<1>1. ErrLen \in Nat /\ RespLens \subseteq Nat
  BY BoundsAssumption
<1>2. errorResponse \in Response
  BY <1>1, Zenon DEF errorResponse, Response
<1>3. CASE r \in OriginResponses
  <2>1. r \in Response
    BY <1>1, <1>3, Zenon DEF OriginResponses, Response
  <2> QED
    BY <2>1, NoneAssumption
<1> QED
  BY <1>2, <1>3, NoneAssumption

\* Entering once.Do: the handler becomes the one that builds.
LEMMA OnceBeginInv ==
  ASSUME Inv, NEW s \in Streams, OnceBegin(s)
  PROVE  Inv'
<1>0. TypeOK
  BY DEF Inv
<1>1. /\ h' \in [Streams -> Handler] /\ h'[s].pc = "building"
      /\ h'[s].req = h[s].req /\ h'[s].snap = h[s].snap
      /\ h'[s].resp = h[s].resp /\ \A t \in Streams \ {s} : h'[t] = h[t]
  BY <1>0 DEF TypeOK, OnceBegin, Handler, Pc
<1>2. h[s].pc = "ready" /\ once = "new" /\ once' = "running"
  BY DEF OnceBegin
<1>3. UNCHANGED <<loop, todo, next, fp, streams, wg, wmu, enc, out, mirror,
                  emitted, sent, cli, gone, hist>>
  BY DEF OnceBegin, conn, write
<1>4. TypeOK'
  BY <1>0, <1>1, <1>2, <1>3 DEF TypeOK
<1>5. LoopBusy' /\ StreamTableExact' /\ Counted'
  BY <1>1, <1>2, <1>3, HandlerMoves
<1>6. HandlerData' /\ LockOwner' /\ OnceOwner'
  BY <1>1, <1>2, <1>3 DEF Inv, HandlerData, LockOwner, OnceOwner
<1> QED
  BY <1>4, <1>5, <1>6 DEF Inv

\* The build ends: no handler is building any more.
LEMMA OnceEndInv ==
  ASSUME Inv, NEW s \in Streams, NEW ok \in BOOLEAN, OnceEnd(s, ok)
  PROVE  Inv'
<1>0. TypeOK
  BY DEF Inv
<1>1. /\ h' \in [Streams -> Handler] /\ h'[s].pc = "ready"
      /\ h'[s].req = h[s].req /\ h'[s].snap = h[s].snap
      /\ h'[s].resp = h[s].resp /\ \A t \in Streams \ {s} : h'[t] = h[t]
  BY <1>0 DEF TypeOK, OnceEnd, Handler, Pc
<1>2. h[s].pc = "building" /\ once' \in {"built", "failed"}
  BY DEF OnceEnd
<1>3. UNCHANGED <<loop, todo, next, fp, streams, wg, wmu, enc, out, emitted,
                  sent, cli, gone, hist>>
  BY DEF OnceEnd, conn, write
<1>4. mirror' \in Fingerprint \union {None}
  BY <1>0 DEF TypeOK, OnceEnd, Handler
<1>5. TypeOK'
  BY <1>0, <1>1, <1>2, <1>3, <1>4 DEF TypeOK
<1>6. LoopBusy' /\ StreamTableExact' /\ Counted'
  BY <1>1, <1>2, <1>3, HandlerMoves
<1>7. HandlerData' /\ LockOwner' /\ OnceOwner'
  BY <1>1, <1>2, <1>3 DEF Inv, HandlerData, LockOwner, OnceOwner
<1> QED
  BY <1>5, <1>6, <1>7 DEF Inv

\* Past once.Do a handler goes on to the round trip or to the error answer.
LEMMA OnceDoneInv ==
  ASSUME Inv, NEW s \in Streams, OnceDone(s)
  PROVE  Inv'
<1>0. TypeOK
  BY DEF Inv
<1>1. errorResponse \in Response /\ errorResponse # None
  BY ResponseTypes
<1>2. /\ h' \in [Streams -> Handler] /\ h'[s].req = h[s].req
      /\ h'[s].snap = h[s].snap /\ \A t \in Streams \ {s} : h'[t] = h[t]
      /\ \/ h'[s].pc = "roundtrip" /\ h'[s].resp = h[s].resp
         \/ h'[s].pc = "lock" /\ h'[s].resp = errorResponse
  <2>1. h \in [Streams -> Handler]
    BY <1>0 DEF TypeOK
  <2>2. CASE h' = [h EXCEPT ![s].pc = "roundtrip"]
    BY <2>1, <2>2 DEF Handler, Pc
  <2>3. CASE h' = [h EXCEPT ![s].pc = "lock", ![s].resp = errorResponse]
    BY <1>1, <2>1, <2>3 DEF Handler, Pc
  <2> QED
    BY <2>2, <2>3 DEF OnceDone
<1>3. h[s].pc = "ready"
  BY DEF OnceDone
<1>4. UNCHANGED <<loop, todo, next, fp, streams, wg, wmu, enc, out, once,
                  mirror, emitted, sent, cli, gone, hist>>
  BY DEF OnceDone, conn, write, serve
<1>5. TypeOK'
  BY <1>0, <1>2, <1>4 DEF TypeOK
<1>6. LoopBusy' /\ StreamTableExact' /\ Counted'
  BY <1>2, <1>3, <1>4, HandlerMoves
<1>7. HandlerData' /\ LockOwner' /\ OnceOwner'
  BY <1>1, <1>2, <1>3, <1>4 DEF Inv, HandlerData, LockOwner, OnceOwner
<1> QED
  BY <1>5, <1>6, <1>7 DEF Inv

\* The round trip gives the handler its response.
LEMMA RoundTripInv ==
  ASSUME Inv, NEW s \in Streams,
         NEW r \in OriginResponses \union {errorResponse}, RoundTrip(s, r)
  PROVE  Inv'
<1>0. TypeOK
  BY DEF Inv
<1>1. r \in Response /\ r # None
  BY ResponseTypes
<1>2. /\ h' \in [Streams -> Handler] /\ h'[s].pc = "emit" /\ h'[s].resp = r
      /\ h'[s].req = h[s].req /\ h'[s].snap = h[s].snap
      /\ \A t \in Streams \ {s} : h'[t] = h[t]
  BY <1>0, <1>1 DEF TypeOK, RoundTrip, Handler, Pc
<1>3. h[s].pc = "roundtrip"
  BY DEF RoundTrip
<1>4. UNCHANGED <<loop, todo, next, fp, streams, wg, wmu, enc, out, once,
                  mirror, emitted, sent, cli, gone, hist>>
  BY DEF RoundTrip, conn, write, serve
<1>5. TypeOK'
  BY <1>0, <1>2, <1>4 DEF TypeOK
<1>6. LoopBusy' /\ StreamTableExact' /\ Counted'
  BY <1>2, <1>3, <1>4, HandlerMoves
<1>7. HandlerData' /\ LockOwner' /\ OnceOwner'
  BY <1>1, <1>2, <1>3, <1>4 DEF Inv, HandlerData, LockOwner, OnceOwner
<1> QED
  BY <1>5, <1>6, <1>7 DEF Inv

\* Recording appends a well-typed transaction.
LEMMA EmitInv ==
  ASSUME Inv, NEW s \in Streams, Emit(s)
  PROVE  Inv'
<1>0. TypeOK
  BY DEF Inv
<1>1. /\ h' \in [Streams -> Handler] /\ h'[s].pc = "lock"
      /\ h'[s].req = h[s].req /\ h'[s].snap = h[s].snap
      /\ h'[s].resp = h[s].resp /\ \A t \in Streams \ {s} : h'[t] = h[t]
  BY <1>0 DEF TypeOK, Emit, Handler, Pc
<1>2. h[s].pc = "emit"
  BY DEF Emit
<1>3. UNCHANGED <<loop, todo, next, fp, streams, wg, wmu, enc, out, once,
                  mirror, sent, cli, gone, hist>>
  BY DEF Emit, conn, write
<1>4. emitted' \in Seq(Transaction)
  <2> DEFINE tx == [stream |-> s, h2 |-> h[s].snap, request |-> h[s].req,
                    response |-> h[s].resp]
  <2>1. /\ h[s].snap \in Fingerprint /\ h[s].req \in Captured
        /\ h[s].resp \in Response
    BY <1>0, <1>2 DEF TypeOK, Handler, Inv, HandlerData
  <2>2. tx \in Transaction
    BY <2>1 DEF Transaction
  <2> QED
    BY <1>0, <2>2 DEF TypeOK, Emit
<1>5. TypeOK'
  BY <1>0, <1>1, <1>3, <1>4 DEF TypeOK
<1>6. LoopBusy' /\ StreamTableExact' /\ Counted'
  BY <1>1, <1>2, <1>3, HandlerMoves
<1>7. HandlerData' /\ LockOwner' /\ OnceOwner'
  BY <1>1, <1>2, <1>3 DEF Inv, HandlerData, LockOwner, OnceOwner
<1> QED
  BY <1>5, <1>6, <1>7 DEF Inv

\* writeResponse takes the free write lock: one owner afterwards.
LEMMA RespLockInv ==
  ASSUME Inv, NEW s \in Streams, RespLock(s)
  PROVE  Inv'
<1>0. TypeOK
  BY DEF Inv
<1>1. h[s].pc = "lock" /\ wmu = None /\ wmu' = s
  BY DEF RespLock
<1>2. h[s].resp.len \in Nat
  <2>1. h[s].resp \in Response
    BY <1>0, <1>1 DEF TypeOK, Handler, Inv, HandlerData
  <2> QED
    BY <2>1 DEF Response
<1>3. /\ h' \in [Streams -> Handler] /\ h'[s].pc = "headers"
      /\ h'[s].req = h[s].req /\ h'[s].snap = h[s].snap
      /\ h'[s].resp = h[s].resp /\ \A t \in Streams \ {s} : h'[t] = h[t]
  BY <1>0, <1>2 DEF TypeOK, RespLock, Handler, Pc
<1>4. UNCHANGED <<loop, todo, next, fp, streams, wg, out, once, mirror,
                  emitted, sent, cli, gone, hist>>
  BY DEF RespLock, conn, serve
<1>5. TypeOK'
  BY <1>0, <1>1, <1>3, <1>4 DEF TypeOK, RespLock
<1>6. LoopBusy' /\ StreamTableExact' /\ Counted'
  BY <1>1, <1>3, <1>4, HandlerMoves
<1>7. HandlerData' /\ LockOwner' /\ OnceOwner'
  BY <1>1, <1>3, <1>4, StreamsAssumption
     DEF Inv, HandlerData, LockOwner, OnceOwner
<1> QED
  BY <1>5, <1>6, <1>7 DEF Inv

\* A step that writes a response: it stays in the write section or ends.
LEMMA WriteInv ==
  ASSUME Inv, NEW s \in Streams, h[s].pc \in {"headers", "data"},
         h' \in [Streams -> Handler], h'[s].req = h[s].req,
         h'[s].snap = h[s].snap, h'[s].resp = h[s].resp,
         \A t \in Streams \ {s} : h'[t] = h[t], out' \in Seq(Frame),
         \/ h'[s].pc = "done" /\ finish
         \/ h'[s].pc = "data" /\ UNCHANGED <<wmu, wg>>,
         UNCHANGED <<loop, todo, next, fp, streams, enc, serve, sent, cli,
                     gone, hist>>
  PROVE  Inv'
<1>0. TypeOK
  BY DEF Inv
<1>1. UNCHANGED <<once, mirror, emitted>>
  BY DEF serve
<1>2. CASE h'[s].pc = "done" /\ finish
  <2>1. /\ HandlerData' /\ LoopBusy' /\ LockOwner' /\ StreamTableExact'
        /\ OnceOwner' /\ Counted' /\ wg' \in Nat
    BY <1>1, <1>2, HandlerEnds
  <2>2. TypeOK'
    BY <1>0, <1>1, <1>2, <2>1 DEF TypeOK, finish
  <2> QED
    BY <2>1, <2>2 DEF Inv
<1>3. CASE h'[s].pc = "data" /\ UNCHANGED <<wmu, wg>>
  <2>1. TypeOK'
    BY <1>0, <1>1, <1>3 DEF TypeOK
  <2>2. LoopBusy' /\ StreamTableExact' /\ Counted'
    BY <1>3, HandlerMoves
  <2>3. HandlerData' /\ LockOwner' /\ OnceOwner'
    BY <1>1, <1>3 DEF Inv, HandlerData, LockOwner, OnceOwner
  <2> QED
    BY <2>1, <2>2, <2>3 DEF Inv
<1> QED
  BY <1>2, <1>3

\* Writing HEADERS keeps the lock, or ends the handler of an empty body.
LEMMA RespHeadersInv ==
  ASSUME Inv, NEW s \in Streams, RespHeaders(s)
  PROVE  Inv'
<1>0. TypeOK
  BY DEF Inv
<1>1. /\ h' \in [Streams -> Handler] /\ h'[s].req = h[s].req
      /\ h'[s].snap = h[s].snap /\ h'[s].resp = h[s].resp
      /\ \A t \in Streams \ {s} : h'[t] = h[t]
  BY <1>0 DEF TypeOK, RespHeaders, Handler, Pc
<1>2. \/ h'[s].pc = "done" /\ finish
      \/ h'[s].pc = "data" /\ UNCHANGED <<wmu, wg>>
  BY <1>0 DEF TypeOK, RespHeaders, Handler, Pc
<1>3. out' \in Seq(Frame)
  <2> DEFINE end == h[s].left = 0
             f == [type |-> "headers", stream |-> s, hpack |-> enc,
                   end |-> end]
  <2>1. end \in BOOLEAN /\ enc \in Nat /\ out \in Seq(Frame)
    BY <1>0 DEF TypeOK
  <2>2. out' = Append(out, f)
    BY DEF RespHeaders
  <2> HIDE DEF end
  <2>3. f \in [type : {"headers"}, stream : Streams, hpack : Nat,
               end : BOOLEAN]
    BY <2>1, Zenon
  <2>4. f \in Frame
    BY <2>3 DEF Frame
  <2> QED
    BY <2>1, <2>2, <2>4
<1>4. UNCHANGED <<loop, todo, next, fp, streams, enc, serve, sent, cli, gone,
                  hist>> /\ h[s].pc = "headers"
  BY DEF RespHeaders
<1> QED
  BY <1>1, <1>2, <1>3, <1>4, WriteInv

\* Writing DATA keeps the lock until the last frame.
LEMMA RespDataInv ==
  ASSUME Inv, NEW s \in Streams, RespData(s)
  PROVE  Inv'
<1> DEFINE end == LastChunk(h[s].left)
           n == IF end THEN h[s].left ELSE MaxFrame
<1>0. TypeOK
  BY DEF Inv
<1>1. h[s] \in Handler /\ n \in Nat /\ h[s].left - n \in Nat
  BY <1>0, BoundsAssumption DEF TypeOK, Handler, LastChunk
<1>2. /\ h' \in [Streams -> Handler] /\ h'[s].req = h[s].req
      /\ h'[s].snap = h[s].snap /\ h'[s].resp = h[s].resp
      /\ h'[s].pc = IF end THEN "done" ELSE "data"
      /\ \A t \in Streams \ {s} : h'[t] = h[t]
  <2>1. h' = [h EXCEPT ![s].pc = IF end THEN "done" ELSE "data",
                       ![s].left = @ - n]
    BY DEF RespData
  <2> HIDE DEF end, n
  <2> QED
    BY <1>0, <1>1, <2>1 DEF TypeOK, Handler, Pc
<1>3. IF end THEN finish ELSE UNCHANGED <<wmu, wg>>
  BY DEF RespData
<1>4. out' \in Seq(Frame)
  <2> DEFINE f == [type |-> "data", stream |-> s, n |-> n, end |-> end]
  <2>1. end \in BOOLEAN /\ out \in Seq(Frame)
    BY <1>0 DEF TypeOK, LastChunk
  <2>2. out' = Append(out, f)
    BY DEF RespData
  <2> HIDE DEF end, n
  <2>3. f \in [type : {"data"}, stream : Streams, n : Nat, end : BOOLEAN]
    BY <1>1, <2>1, Zenon
  <2>4. f \in Frame
    BY <2>3 DEF Frame
  <2> QED
    BY <2>1, <2>2, <2>4
<1>5. UNCHANGED <<loop, todo, next, fp, streams, enc, serve, sent, cli, gone,
                  hist>> /\ h[s].pc = "data"
  BY DEF RespData
<1> HIDE DEF end, n
<1> QED
  BY <1>2, <1>3, <1>4, <1>5, WriteInv

\* A failed write ends the handler, which unlocks.
LEMMA RespFailInv ==
  ASSUME Inv, NEW s \in Streams, RespFail(s)
  PROVE  Inv'
<1>0. TypeOK
  BY DEF Inv
<1>1. /\ h' \in [Streams -> Handler] /\ h'[s].req = h[s].req
      /\ h'[s].snap = h[s].snap /\ h'[s].resp = h[s].resp
      /\ h'[s].pc = "done" /\ \A t \in Streams \ {s} : h'[t] = h[t]
  BY <1>0 DEF TypeOK, RespFail, Handler, Pc
<1>2. out' \in Seq(Frame) /\ finish /\ h[s].pc \in {"headers", "data"}
  BY <1>0 DEF TypeOK, RespFail
<1>3. UNCHANGED <<loop, todo, next, fp, streams, enc, serve, sent, cli, gone,
                  hist>>
  BY DEF RespFail
<1> QED
  BY <1>1, <1>2, <1>3, WriteInv

-----------------------------------------------------------------------------
(* The client preserves the invariant, and so does every step.             *)

\* Receiving a frame keeps the client's state well typed.
LEMMA ReceivedType ==
  ASSUME NEW f \in Frame, cli \in Client
  PROVE  Received(f) \in Client
<1>1. CASE f.type = "wupd"
  <2>1. f.n \in Nat /\ f.stream \in Streams \union {None}
    BY <1>1 DEF Frame
  <2>2. /\ f.stream = None => Received(f) = [cli EXCEPT !.win = @ + f.n]
        /\ f.stream # None =>
             Received(f) = [cli EXCEPT !.swin[f.stream] = @ + f.n]
    BY <1>1 DEF Received
  <2> QED
    BY <2>1, <2>2 DEF Client
<1> DEFINE cur == IF f.end THEN None ELSE f.stream
           ans == IF f.end THEN cli.answered \union {f.stream}
                  ELSE cli.answered
<1>2. CASE f.type = "headers"
  <2>1. f.stream \in Streams
    BY <1>2 DEF Frame
  <2>2. cur \in Streams \union {None} /\ ans \in SUBSET Streams
    BY <2>1 DEF Client
  <2>3. Received(f) = [cli EXCEPT !.decoded = @ + 1, !.cur = cur,
                                  !.answered = ans]
    BY <1>2 DEF Received
  <2> DEFINE d == cli.decoded + 1
  <2>4. d \in Nat
    BY DEF Client
  <2>5. Received(f) = [cli EXCEPT !.decoded = d, !.cur = cur, !.answered = ans]
    BY <2>3
  <2> HIDE DEF cur, ans, d
  <2> QED
    BY <2>2, <2>4, <2>5, Zenon DEF Client
<1>3. CASE f.type = "data"
  <2>1. f.stream \in Streams /\ f.n \in Nat
    BY <1>3 DEF Frame
  <2>2. cur \in Streams \union {None} /\ ans \in SUBSET Streams
    BY <2>1 DEF Client
  <2>3. Received(f) = [cli EXCEPT !.got[f.stream] = @ + f.n, !.cur = cur,
                                  !.answered = ans]
    BY <1>3 DEF Received
  <2> DEFINE g == [cli.got EXCEPT ![f.stream] = @ + f.n]
  <2>4. g \in [Streams -> Nat]
    BY <2>1 DEF Client
  <2>5. Received(f) = [cli EXCEPT !.got = g, !.cur = cur, !.answered = ans]
    BY <2>3
  <2> HIDE DEF cur, ans, g
  <2> QED
    BY <2>2, <2>4, <2>5, Zenon DEF Client
<1>4. CASE f.type \notin {"wupd", "headers", "data"}
  BY <1>4 DEF Received
<1> QED
  BY <1>1, <1>2, <1>3, <1>4

\* The client reading, or vanishing, leaves the connection alone.
LEMMA ClientInv ==
  ASSUME Inv, ClientRead \/ ClientGone
  PROVE  Inv'
<1>1. UNCHANGED <<loop, todo, next, fp, streams, wg, wmu, enc, h, once, mirror,
                  emitted, sent, hist>>
  BY DEF ClientRead, ClientGone, conn, serve
<1>2. cli' \in Client /\ out' \in Seq(Frame) /\ gone' \in BOOLEAN
  <2>0. cli \in Client /\ out \in Seq(Frame) /\ gone \in BOOLEAN
    BY DEF Inv, TypeOK
  <2>1. CASE ClientRead
    <3>1. Head(out) \in Frame /\ Tail(out) \in Seq(Frame)
      BY <2>0, <2>1 DEF ClientRead
    <3> QED
      BY <2>0, <2>1, <3>1, ReceivedType DEF ClientRead
  <2>2. CASE ClientGone
    BY <2>0, <2>2 DEF ClientGone
  <2> QED
    BY <2>1, <2>2
<1>3. TypeOK'
  BY <1>1, <1>2 DEF Inv, TypeOK
<1>4. Counted'
  BY <1>1 DEF Inv, Counted, Active
<1>5. /\ HandlerData' /\ LoopBusy' /\ LockOwner' /\ StreamTableExact'
      /\ OnceOwner'
  BY <1>1 DEF Inv, HandlerData, LoopBusy, LockOwner, StreamTableExact,
              OnceOwner
<1> QED
  BY <1>3, <1>4, <1>5 DEF Inv

\* A stuttering step preserves the invariant.
LEMMA StutterInv ==
  ASSUME Inv, UNCHANGED vars
  PROVE  Inv'
<1>1. TypeOK'
  BY DEF Inv, TypeOK, vars, conn, write, serve
<1>2. Counted'
  BY DEF Inv, Counted, Active, vars, conn
<1>3. /\ HandlerData' /\ LoopBusy' /\ LockOwner' /\ StreamTableExact'
      /\ OnceOwner'
  BY DEF Inv, HandlerData, LoopBusy, LockOwner, StreamTableExact, OnceOwner,
         vars, conn, write, serve
<1> QED
  BY <1>1, <1>2, <1>3 DEF Inv

\* Every step of the connection preserves the invariant.
LEMMA InvNext == Inv /\ [Next]_vars => Inv'
<1> SUFFICES ASSUME Inv, [Next]_vars PROVE Inv'
  OBVIOUS
<1>1. CASE LoopStep
  BY <1>1, PrefaceInv, LoopInv, DispatchInv DEF LoopStep
<1>2. CASE ReadStep
  <2>1. CASE ReadSettings \/ ReadWindowUpdate \/ ReadPriority \/ ReadPing
    BY <2>1, CtlFramesInv
  <2>2. CASE ReadStop
    BY <2>2, LoopInv
  <2>3. CASE \E s \in Streams :
               \/ \E bare \in BareBlocks, end \in BOOLEAN :
                    ReadHeaders(s, bare, end)
               \/ ReadTrailers(s)
               \/ \E n, pad \in 0..1, end \in BOOLEAN :
                    ReadData(s, n, pad, end)
               \/ ReadRSTStream(s)
    BY <2>3, HeadersInv, TrailersInv, DataInv, RSTStreamInv
  <2> QED
    BY <1>2, <2>1, <2>2, <2>3 DEF ReadStep
<1>3. CASE \E s \in Streams : HandlerStep(s)
  <2>1. PICK s \in Streams : HandlerStep(s)
    BY <1>3
  <2> QED
    BY <2>1, OnceBeginInv, OnceEndInv, OnceDoneInv, RoundTripInv, EmitInv,
       RespLockInv, RespHeadersInv, RespDataInv, RespFailInv
       DEF HandlerStep
<1>4. CASE ClientRead \/ ClientGone
  BY <1>4, ClientInv
<1>5. CASE Over \/ UNCHANGED vars
  BY <1>5, StutterInv DEF Over
<1> QED
  BY <1>1, <1>2, <1>3, <1>4, <1>5 DEF Next

-----------------------------------------------------------------------------
\* The inductive invariant holds in every reachable state, whatever the
\* streams, the bodies, the windows and the socket buffer.
THEOREM Invariant == Spec => []Inv
  BY InvInit, InvNext, PTL DEF Spec

\* Every variable keeps its type: the wait-group counter and the client's
\* windows never become negative, and no transaction is recorded without its
\* request, fingerprint and response.
THEOREM TypeCorrect == Spec => []TypeOK
<1>1. Inv => TypeOK
  BY DEF Inv
<1> QED
  BY <1>1, Invariant, PTL

\* stop drains: the wait group counts exactly the live handlers, so none can
\* write to the framer after ServeHTTP2 has returned to its caller.
THEOREM Drained == Spec => []DrainedOnReturn
<1>1. Inv => DrainedOnReturn
  <2> SUFFICES ASSUME Inv PROVE DrainedOnReturn
    OBVIOUS
  <2>1. Active = {} => wmu = None
    BY DEF Inv, TypeOK, LockOwner, Active
  <2> QED
    BY <2>1 DEF Inv, Counted, DrainedOnReturn
<1> QED
  BY <1>1, Invariant, PTL

\* The streams map holds exactly the incomplete requests, and a cancelled
\* request never gets a handler.
THEOREM StreamTable == Spec => []StreamTableExact
<1>1. Inv => StreamTableExact
  BY DEF Inv
<1> QED
  BY <1>1, Invariant, PTL

\* The sync.Once of serveH2: a second handler never rebuilds or replaces the
\* mirror.
THEOREM BuiltOnce == Spec => MirrorBuiltOnce
<1>1. ASSUME Inv, [Next]_vars, once \in {"built", "failed"}
      PROVE  UNCHANGED <<once, mirror>>
  <2>1. CASE LoopStep
    BY <2>1 DEF LoopStep, ReadPreface, LoopWrite, LoopDispatch, LoopReturn, serve
  <2>2. CASE ReadStep
    <3>1. CASE ReadSettings \/ ReadWindowUpdate \/ ReadPriority \/ ReadPing
      BY <3>1 DEF ReadSettings, ReadWindowUpdate, ReadPriority, ReadPing,
                  ReadCtl, serve
    <3>2. CASE ReadStop
      BY <3>2 DEF ReadStop, serve
    <3>3. ASSUME NEW s \in Streams, NEW bare, NEW end, NEW n, NEW pad,
                 \/ ReadHeaders(s, bare, end) \/ ReadTrailers(s)
                 \/ ReadData(s, n, pad, end) \/ ReadRSTStream(s)
          PROVE  UNCHANGED <<once, mirror>>
      BY <3>3 DEF ReadHeaders, ReadTrailers, ReadBlock, ReadData,
                  ReadRSTStream, serve
    <3> QED
      BY <2>2, <3>1, <3>2, <3>3 DEF ReadStep
  <2>3. ASSUME NEW s \in Streams, HandlerStep(s)
        PROVE  UNCHANGED <<once, mirror>>
    <3>1. h[s].pc # "building" /\ once # "new"
      BY <1>1 DEF Inv, OnceOwner
    <3> QED
      BY <2>3, <3>1
         DEF HandlerStep, OnceBegin, OnceEnd, OnceDone, RoundTrip, Emit,
             RespLock, RespHeaders, RespData, RespFail, serve
  <2>4. CASE ClientRead \/ ClientGone \/ Over \/ UNCHANGED vars
    BY <2>4 DEF ClientRead, ClientGone, Over, vars, serve
  <2> QED
    BY <1>1, <2>1, <2>2, <2>3, <2>4 DEF Next
<1>2. Inv /\ [Next]_vars
        => ((once \in {"built", "failed"}) => UNCHANGED <<once, mirror>>)
  BY <1>1
<1> QED
  BY <1>2, Invariant, PTL DEF Spec, MirrorBuiltOnce

-----------------------------------------------------------------------------
(* The fingerprint.                                                        *)

\* The mirror exists exactly after a build that succeeded, and a request gets
\* past once.Do only then.
MirrorBuilt ==
  /\ once = "built" <=> mirror # None
  /\ \A s \in Streams : h[s].pc \in {"roundtrip", "emit"} => once = "built"

\* Before the first header block nothing is asked, built or recorded.
BeforeFirst ==
  hist.first = None =>
    mirror = None /\ emitted = <<>> /\ \A s \in Streams : sent[s].state = "idle"

\* Nothing comes late: the fingerprint was complete with the first block.
Settled == ~hist.late /\ hist.first # None /\ ~hist.first.bare

\* Then every snapshot, the mirror and every record is that fingerprint.
OneFingerprint ==
  Settled =>
    /\ fp.pseudoOrder # None /\ fp.headerOrder # None
    /\ mirror # None => mirror = fp
    /\ \A s \in Streams : h[s].pc # "idle" => h[s].snap = fp
    /\ \A i \in 1..Len(emitted) : emitted[i].h2 = fp /\ mirror = fp

\* All that is known of the fingerprint.
FpInv == MirrorBuilt /\ BeforeFirst /\ OneFingerprint

\* The connection-level frames and the steps that leave the fingerprint alone.
LEMMA FpCtl ==
  ASSUME Inv, FpInv, NEW f \in Fingerprint, NEW t, ReadCtl(f, t)
  PROVE  FpInv'
<1>1. /\ UNCHANGED <<h, once, mirror, emitted, sent>> /\ fp' = f
      /\ hist' = [hist EXCEPT !.ctl = @ + 1,
                              !.late = @ \/ (hist.first # None /\ f # fp)]
  BY DEF ReadCtl, serve
<1>2. hist \in History
  BY DEF Inv, TypeOK
<1>3. /\ hist'.first = hist.first
      /\ hist'.late <=> hist.late \/ (hist.first # None /\ f # fp)
  BY <1>1, <1>2 DEF History
<1>4. MirrorBuilt' /\ BeforeFirst'
  BY <1>1, <1>3 DEF FpInv, MirrorBuilt, BeforeFirst
<1>5. Settled' => Settled /\ fp' = fp
  BY <1>1, <1>3 DEF Settled
<1>6. OneFingerprint'
  BY <1>1, <1>5 DEF FpInv, OneFingerprint
<1> QED
  BY <1>4, <1>6 DEF FpInv

\* A new handler has the fingerprint of the moment.
LEMMA FpDispatch ==
  ASSUME Inv, FpInv, NEW s \in Streams, NEW st, dispatch(s, st, fp),
         UNCHANGED <<fp, once, mirror, emitted>>, hist'.first = hist.first,
         hist'.late <=> hist.late, hist.first # None
  PROVE  FpInv'
<1>1. /\ h'[s].pc = "ready" /\ h'[s].snap = fp
      /\ \A t \in Streams \ {s} : h'[t] = h[t]
  BY DEF Inv, TypeOK, Handler, dispatch
<1>2. MirrorBuilt' /\ BeforeFirst'
  BY <1>1 DEF FpInv, MirrorBuilt, BeforeFirst
<1>3. Settled' <=> Settled
  BY DEF Settled
<1>4. OneFingerprint'
  BY <1>1, <1>3 DEF FpInv, OneFingerprint
<1> QED
  BY <1>2, <1>4 DEF FpInv

\* A header block: the first one completes the fingerprint of a client that is
\* not bare, and later ones change nothing then.
LEMMA FpBlock ==
  ASSUME Inv, FpInv, NEW s \in Streams, NEW b \in Block, NEW end \in BOOLEAN,
         ReadBlock(s, b, end), b.trailers => hist.first # None
  PROVE  FpInv'
<1> DEFINE st == [block |-> b, body |-> 0]
<1>1. /\ fp' = captureHeaders(b) /\ UNCHANGED <<once, mirror, emitted>>
      /\ hist' = [hist EXCEPT !.first = IF @ = None THEN b ELSE @]
      /\ IF end THEN dispatch(s, st, fp') ELSE UNCHANGED h
  BY DEF ReadBlock, serve, keep
<1>2. hist \in History /\ fp \in Fingerprint /\ b # None
  BY NoneAssumption DEF Inv, TypeOK
<1>3. /\ hist'.first = IF hist.first = None THEN b ELSE hist.first
      /\ hist'.late = hist.late
  BY <1>1, <1>2 DEF History
<1>4. /\ fp'.pseudoOrder = IF fp.pseudoOrder = None /\ ~b.trailers THEN b ELSE fp.pseudoOrder
      /\ fp'.headerOrder = IF fp.headerOrder = None /\ ~b.bare THEN b ELSE fp.headerOrder
      /\ fp.pseudoOrder # None /\ fp.headerOrder # None => fp' = fp
  BY <1>1, <1>2 DEF captureHeaders, Fingerprint
<1>5. /\ \A t \in Streams \ {s} : h'[t] = h[t]
      /\ h'[s] = h[s] \/ (h'[s].pc = "ready" /\ h'[s].snap = fp')
  BY <1>1 DEF dispatch, Inv, TypeOK, Handler
<1>6. hist'.first # None
  BY <1>2, <1>3
<1>7. MirrorBuilt' /\ BeforeFirst'
  BY <1>1, <1>5, <1>6 DEF FpInv, MirrorBuilt, BeforeFirst
<1>8. CASE hist.first = None
  <2>1. mirror = None /\ emitted = <<>> /\ \A t \in Streams : h[t].pc = "idle"
    BY <1>8 DEF FpInv, BeforeFirst, Inv, StreamTableExact
  <2>2. \A t \in Streams : h'[t].pc # "idle" => h'[t].snap = fp'
    BY <1>5, <2>1
  <2>3. hist'.first = b /\ ~b.trailers
    BY <1>3, <1>8
  <2>4. Settled' => fp'.pseudoOrder # None /\ fp'.headerOrder # None
    BY <1>2, <1>4, <2>3 DEF Settled
  <2>5. \A i \in 1..Len(emitted) : FALSE
    BY <2>1
  <2>6. OneFingerprint'
    BY <1>1, <2>1, <2>2, <2>4, <2>5 DEF OneFingerprint
  <2> QED
    BY <1>7, <2>6 DEF FpInv
<1>9. CASE hist.first # None
  <2>1. Settled' => Settled /\ fp' = fp
    BY <1>3, <1>4, <1>9 DEF Settled, FpInv, OneFingerprint
  <2>2. OneFingerprint'
    BY <1>1, <1>5, <2>1 DEF FpInv, OneFingerprint
  <2> QED
    BY <1>7, <2>2 DEF FpInv
<1> QED
  BY <1>8, <1>9

\* The other frames, and the dispatch after DATA.
LEMMA FpLoop ==
  ASSUME Inv, FpInv,
         \/ \E good \in BOOLEAN : ReadPreface(good)
         \/ LoopWrite \/ LoopDispatch \/ LoopReturn \/ ReadStop
         \/ \E s \in Streams : ReadRSTStream(s)
         \/ \E s \in Streams : \E n, pad \in 0..1, end \in BOOLEAN : ReadData(s, n, pad, end)
  PROVE  FpInv'
<1>1. CASE \/ \E good \in BOOLEAN : ReadPreface(good)
           \/ LoopWrite \/ LoopReturn \/ ReadStop
  BY <1>1 DEF ReadPreface, LoopWrite, LoopReturn, ReadStop, write, serve,
              FpInv, MirrorBuilt, BeforeFirst, OneFingerprint, Settled
<1>2. CASE LoopDispatch
  <2>1. next \in Streams /\ sent[next].state = "ended"
    BY <1>2 DEF LoopDispatch, Inv, TypeOK, LoopBusy
  <2>2. hist.first # None
    BY <2>1 DEF FpInv, BeforeFirst
  <2>3. /\ dispatch(next, streams[next], fp)
        /\ UNCHANGED <<fp, once, mirror, emitted, hist>>
    BY <1>2 DEF LoopDispatch, serve
  <2> QED
    BY <2>1, <2>2, <2>3, FpDispatch
<1>3. ASSUME NEW s \in Streams, ReadRSTStream(s) PROVE FpInv'
  <2>1. sent[s].state = "open" /\ UNCHANGED <<fp, h, once, mirror, emitted, hist>>
    BY <1>3 DEF ReadRSTStream, serve
  <2>2. hist.first # None
    BY <2>1 DEF FpInv, BeforeFirst
  <2> QED
    BY <2>1, <2>2 DEF FpInv, MirrorBuilt, BeforeFirst, OneFingerprint, Settled
<1>4. ASSUME NEW s \in Streams, NEW n \in 0..1, NEW pad \in 0..1, NEW end \in BOOLEAN,
             ReadData(s, n, pad, end)
      PROVE  FpInv'
  <2>1. /\ sent[s].state = "open" /\ UNCHANGED <<fp, once, mirror, emitted>>
        /\ hist' = [hist EXCEPT !.pad = @ + pad]
    BY <1>4 DEF ReadData, serve
  <2>2. hist.first # None
    BY <2>1 DEF FpInv, BeforeFirst
  <2>3. hist'.first = hist.first /\ hist'.late = hist.late
    BY <2>1 DEF Inv, TypeOK, History
  <2>4. CASE UNCHANGED h
    BY <2>1, <2>2, <2>3, <2>4
       DEF FpInv, MirrorBuilt, BeforeFirst, OneFingerprint, Settled
  <2>5. CASE dispatch(s, [streams[s] EXCEPT !.body = @ + n], fp)
    BY <2>1, <2>2, <2>3, <2>5, FpDispatch
  <2> QED
    BY <1>4, <2>4, <2>5 DEF ReadData, keep
<1> QED
  BY <1>1, <1>2, <1>3, <1>4

\* A handler builds the mirror from its snapshot and records it.
LEMMA FpHandler ==
  ASSUME Inv, FpInv, NEW s \in Streams, HandlerStep(s)
  PROVE  FpInv'
<1>1. h \in [Streams -> Handler] /\ UNCHANGED <<fp, hist, sent>>
  BY DEF Inv, TypeOK, HandlerStep, OnceBegin, OnceEnd, OnceDone, RoundTrip, Emit,
         RespLock, RespHeaders, RespData, RespFail, conn
<1>2. /\ \A t \in Streams \ {s} : h'[t] = h[t]
      /\ h[s].pc # "idle" /\ h'[s].snap = h[s].snap
  BY <1>1 DEF HandlerStep, OnceBegin, OnceEnd, OnceDone, RoundTrip, Emit, RespLock,
              RespHeaders, RespData, RespFail, Handler
<1>3. hist.first # None
  BY <1>2 DEF FpInv, BeforeFirst, Inv, StreamTableExact
<1>4. BeforeFirst'
  BY <1>1, <1>3 DEF BeforeFirst
<1>5. Settled' <=> Settled
  BY <1>1 DEF Settled
<1>6. ASSUME NEW ok \in BOOLEAN, OnceEnd(s, ok) PROVE FpInv'
  <2>1. /\ h'[s].pc = "ready" /\ h[s].pc = "building" /\ UNCHANGED emitted
        /\ once' = IF ok THEN "built" ELSE "failed"
        /\ mirror' = IF ok THEN h[s].snap ELSE None
    BY <1>1, <1>6 DEF OnceEnd, Handler
  <2>2. once = "running" /\ h[s].snap # None
    BY <2>1 DEF Inv, OnceOwner, HandlerData
  <2>3. mirror = None /\ \A t \in Streams : h[t].pc \notin {"roundtrip", "emit"}
    BY <2>2 DEF FpInv, MirrorBuilt
  <2>4. MirrorBuilt'
    BY <1>2, <2>1, <2>2, <2>3 DEF MirrorBuilt
  <2>5. OneFingerprint'
    <3>1. SUFFICES ASSUME Settled PROVE OneFingerprint'
      BY <1>5 DEF OneFingerprint
    <3>2. /\ h[s].snap = fp /\ fp # None
          /\ \A i \in 1..Len(emitted) : emitted[i].h2 = fp /\ mirror = fp
      BY <1>2, <3>1, NoneAssumption DEF FpInv, OneFingerprint, Inv, TypeOK
    <3>3. \A i \in 1..Len(emitted) : FALSE
      BY <2>3, <3>2
    <3> QED
      BY <1>1, <1>2, <2>1, <3>1, <3>2, <3>3 DEF FpInv, OneFingerprint
  <2> QED
    BY <1>4, <2>4, <2>5 DEF FpInv
<1>7. ASSUME Emit(s) PROVE FpInv'
  <2>1. /\ h'[s].pc = "lock" /\ h[s].pc = "emit" /\ UNCHANGED <<once, mirror>>
    BY <1>1, <1>7 DEF Emit, Handler
  <2>2. PICK x : /\ x.h2 = h[s].snap /\ emitted' = Append(emitted, x)
    BY <1>7 DEF Emit
  <2>3. emitted \in Seq(Transaction)
    BY DEF Inv, TypeOK
  <2>4. \A i \in 1..Len(emitted') : \/ i \in 1..Len(emitted) /\ emitted'[i] = emitted[i]
                                    \/ emitted'[i] = x
    BY <2>2, <2>3
  <2>5. mirror # None
    BY <2>1 DEF FpInv, MirrorBuilt
  <2>6. MirrorBuilt'
    BY <1>2, <2>1 DEF FpInv, MirrorBuilt
  <2>7. OneFingerprint'
    BY <1>1, <1>2, <1>5, <2>1, <2>2, <2>4, <2>5 DEF FpInv, OneFingerprint
  <2> QED
    BY <1>4, <2>6, <2>7 DEF FpInv
<1>8. CASE ~(Emit(s) \/ \E ok \in BOOLEAN : OnceEnd(s, ok))
  <2>1. /\ UNCHANGED <<mirror, emitted>>
        /\ once' = once \/ (once = "new" /\ once' = "running")
        /\ h'[s].pc \in {"roundtrip", "emit"} => once' = "built"
    BY <1>1, <1>8 DEF HandlerStep, OnceBegin, OnceDone, RoundTrip, RespLock,
         RespHeaders, RespData, RespFail, serve, Handler, FpInv, MirrorBuilt
  <2>2. MirrorBuilt'
    BY <1>2, <2>1 DEF FpInv, MirrorBuilt
  <2>3. OneFingerprint'
    BY <1>1, <1>2, <1>5, <2>1 DEF FpInv, OneFingerprint
  <2> QED
    BY <1>4, <2>2, <2>3 DEF FpInv
<1> QED
  BY <1>6, <1>7, <1>8

\* Every step keeps the fingerprint ...
LEMMA FpNext == Inv /\ FpInv /\ [Next]_vars => FpInv'
<1> SUFFICES ASSUME Inv, FpInv, [Next]_vars PROVE FpInv'
  OBVIOUS
<1>1. CASE ClientRead \/ ClientGone \/ UNCHANGED vars
  <2>1. UNCHANGED <<fp, h, once, mirror, emitted, sent, hist>>
    BY <1>1 DEF ClientRead, ClientGone, vars, conn, serve
  <2> QED
    BY <2>1 DEF FpInv, MirrorBuilt, BeforeFirst, OneFingerprint, Settled
<1>2. ASSUME NEW s \in Streams, HandlerStep(s) PROVE FpInv'
  BY <1>2, FpHandler
<1>3. CASE LoopStep
  BY <1>3, FpLoop DEF LoopStep
<1>4. CASE ReadSettings \/ ReadWindowUpdate \/ ReadPriority \/ ReadPing
  <2>1. fp \in Fingerprint
    BY DEF Inv, TypeOK
  <2>2. /\ [fp EXCEPT !.settings = @ + 1] \in Fingerprint
        /\ [fp EXCEPT !.priorities = @ + 1] \in Fingerprint
    BY <2>1 DEF Fingerprint
  <2>3. [fp EXCEPT !.connectionFlow = (@ + 1) % FlowModulus] \in Fingerprint
    <3>1. (fp.connectionFlow + 1) % FlowModulus \in 0..(FlowModulus - 1)
      BY <2>1, BoundsAssumption DEF Fingerprint
    <3> QED
      BY <2>1, <3>1 DEF Fingerprint
  <2> QED
    BY <1>4, <2>1, <2>2, <2>3, FpCtl
       DEF ReadSettings, ReadWindowUpdate, ReadPriority, ReadPing
<1>5. ASSUME NEW s \in Streams, NEW bare \in BareBlocks, NEW end \in BOOLEAN,
             ReadHeaders(s, bare, end)
      PROVE  FpInv'
  <2>1. PICK b : b = [stream |-> s, trailers |-> FALSE, bare |-> bare]
    OBVIOUS
  <2>2. b \in Block /\ ~b.trailers /\ ReadBlock(s, b, end)
    BY <1>5, <2>1, BoundsAssumption DEF Block, ReadHeaders
  <2> QED
    BY <2>2, FpBlock
<1>6. ASSUME NEW s \in Streams, ReadTrailers(s) PROVE FpInv'
  <2>1. PICK b : b = [stream |-> s, trailers |-> TRUE, bare |-> FALSE]
    OBVIOUS
  <2>2. b \in Block /\ ReadBlock(s, b, TRUE) /\ sent[s].state = "open"
    BY <1>6, <2>1 DEF Block, ReadTrailers
  <2>3. hist.first # None
    BY <2>2 DEF FpInv, BeforeFirst
  <2> QED
    BY <2>2, <2>3, FpBlock
<1>7. CASE ReadStep
  BY <1>4, <1>5, <1>6, <1>7, FpLoop DEF ReadStep
<1> QED
  BY <1>1, <1>2, <1>3, <1>7 DEF Next, Over

\* ... from the start.
LEMMA FpInit == Init => FpInv
  BY DEF Init, FpInv, MirrorBuilt, BeforeFirst, OneFingerprint, Settled

\* It holds in every reachable state.
LEMMA SpecFp == Spec => [](Inv /\ FpInv)
<1>1. Init => Inv /\ FpInv
  BY InvInit, FpInit
<1>2. (Inv /\ FpInv) /\ [Next]_vars => (Inv /\ FpInv)'
  BY InvNext, FpNext
<1> QED
  BY <1>1, <1>2, PTL DEF Spec

\* dispatch's snapshots and proxy.go's once.Do: for a client that sends its
\* connection-level frames before its first request, every transaction of any
\* number of concurrent streams is recorded with the fingerprint its mirror was
\* built from, whichever handler built it.
THEOREM Fingerprints == Spec => []StableFingerprint
<1>1. FpInv => StableFingerprint
  BY DEF FpInv, OneFingerprint, Settled, StableFingerprint
<1> QED
  BY <1>1, SpecFp, PTL

-----------------------------------------------------------------------------
(* The frames on their way to the client.                                  *)

\* What the client knows of the responses.
Known == [cur : Streams \union {None}, decoded : Nat, got : [Streams -> Nat],
          answered : SUBSET Streams]

\* What it knows now.
Knows == [cur |-> cli.cur, decoded |-> cli.decoded, got |-> cli.got,
          answered |-> cli.answered]

\* What it knows once it has received frame f.
After(v, f) ==
  CASE f.type = "headers" ->
         [v EXCEPT !.decoded = @ + 1, !.cur = IF f.end THEN None ELSE f.stream,
                   !.answered = IF f.end THEN @ \union {f.stream} ELSE @]
    [] f.type = "data" ->
         [v EXCEPT !.got[f.stream] = @ + f.n, !.cur = IF f.end THEN None ELSE f.stream,
                   !.answered = IF f.end THEN @ \union {f.stream} ELSE @]
    [] OTHER -> v

\* A frame of a response is the next one of the response that is being read,
\* and the last one completes it.
Accepts(v, f) ==
  /\ f.type = "headers" => v.cur = None /\ f.hpack = v.decoded + 1
  /\ f.type = "data" => v.cur = f.stream /\ f.n <= MaxFrame
  /\ f.type \in {"headers", "data"} =>
       /\ f.stream \notin v.answered
       /\ h[f.stream].pc \in {"headers", "data", "done"}
       /\ f.end => h[f.stream].pc = "done" /\ After(v, f).got[f.stream] = h[f.stream].resp.len

\* What the client knows when it has received all that was written.
Written(v) ==
  /\ \A s \in Streams : v.cur = s <=> h[s].pc = "data"
  /\ \A s \in Streams : s \in v.answered <=> h[s].pc = "done"
  /\ \A s \in Streams : h[s].pc = "headers" => v.decoded + 1 = enc
  /\ (\A s \in Streams : h[s].pc # "headers") => v.decoded = enc
  /\ \A s \in Streams :
       /\ h[s].pc \in {"headers", "data"} => v.got[s] + h[s].left = h[s].resp.len
       /\ h[s].pc \notin {"headers", "data", "done"} => v.got[s] = 0

\* g[i] is what the client knows after i frames.
Trail(g) ==
  /\ g[0] = Knows
  /\ \A i \in 1..Len(out) : Accepts(g[i - 1], out[i]) /\ g[i] = After(g[i - 1], out[i])
  /\ Written(g[Len(out)])

\* The frames in the socket are the beginning of what a client can read.
OutInv ==
  /\ ~gone => \E g \in [Nat -> Known] : Trail(g)
  /\ gone => out = <<>>
  /\ \A s \in cli.answered : h[s].pc = "done"
  /\ \A i \in 1..Len(todo) : todo[i].type \notin {"headers", "data"}

\* A handler that has begun to write goes on with the same response.
Kept ==
  \A s \in Streams :
    /\ h[s].pc \in {"headers", "data", "done"} =>
         h'[s].pc \in {"headers", "data", "done"} /\ h'[s].resp = h[s].resp
    /\ h[s].pc = "done" => h'[s].pc = "done"

\* What the client knows is well typed.
LEMMA KnowsIs ==
  ASSUME cli \in Client
  PROVE  Knows \in Known
  BY DEF Client, Known, Knows

\* What it knows stays well typed.
LEMMA AfterIs ==
  ASSUME NEW v \in Known, NEW f \in Frame
  PROVE  After(v, f) \in Known
<1> DEFINE c == IF f.end THEN None ELSE f.stream
           a == IF f.end THEN v.answered \union {f.stream} ELSE v.answered
<1>1. CASE f.type = "headers"
  <2>1. f.stream \in Streams
    BY <1>1 DEF Frame
  <2>2. c \in Streams \union {None} /\ a \in SUBSET Streams
    BY <2>1 DEF Known
  <2> DEFINE d == v.decoded + 1
  <2>3. d \in Nat
    BY DEF Known
  <2>4. After(v, f) = [v EXCEPT !.decoded = d, !.cur = c, !.answered = a]
    BY <1>1 DEF After
  <2> HIDE DEF c, a, d
  <2> QED
    BY <2>2, <2>3, <2>4, Zenon DEF Known
<1>2. CASE f.type = "data"
  <2>1. f.stream \in Streams /\ f.n \in Nat
    BY <1>2 DEF Frame
  <2>2. c \in Streams \union {None} /\ a \in SUBSET Streams
    BY <2>1 DEF Known
  <2> DEFINE d == [v.got EXCEPT ![f.stream] = @ + f.n]
  <2>3. d \in [Streams -> Nat]
    BY <2>1 DEF Known
  <2>4. After(v, f) = [v EXCEPT !.got = d, !.cur = c, !.answered = a]
    BY <1>2 DEF After
  <2> HIDE DEF c, a, d
  <2> QED
    BY <2>2, <2>3, <2>4, Zenon DEF Known
<1>3. CASE f.type \notin {"headers", "data"}
  BY <1>3 DEF After
<1> QED
  BY <1>1, <1>2, <1>3

\* A frame that is accepted stays accepted while its handler goes on.
LEMMA AcceptsKept ==
  ASSUME NEW v, NEW f \in Frame, Accepts(v, f), Kept
  PROVE  Accepts(v, f)'
<1>1. f.type \in {"headers", "data"} => f.stream \in Streams
  BY DEF Frame
<1> QED
  BY <1>1 DEF Accepts, Kept

\* Nothing is written or received.
LEMMA TrailSame ==
  ASSUME NEW g, Trail(g), out \in Seq(Frame), Kept, UNCHANGED out, Knows' = Knows,
         Written(g[Len(out)])'
  PROVE  Trail(g)'
<1>1. ASSUME NEW i \in 1..Len(out) PROVE Accepts(g[i - 1], out[i])'
  <2>1. out[i] \in Frame /\ Accepts(g[i - 1], out[i])
    BY DEF Trail
  <2> QED
    BY <2>1, AcceptsKept
<1> QED
  BY <1>1 DEF Trail

\* A frame is written.
LEMMA TrailAppend ==
  ASSUME NEW g \in [Nat -> Known], Trail(g), out \in Seq(Frame), Kept,
         NEW f \in Frame, out' = Append(out, f), Knows' = Knows,
         NEW v, v = g[Len(out)], Accepts(v, f)', Written(After(v, f))'
  PROVE  \E k \in [Nat -> Known] : Trail(k)'
<1>0. PICK l, w, k : l = Len(out) /\ w = After(v, f) /\ k = [g EXCEPT ![l + 1] = w]
  OBVIOUS
<1>1. l \in Nat /\ Len(out') = l + 1 /\ out'[l + 1] = f /\ \A i \in 1..l : out'[i] = out[i]
  BY <1>0
<1>2. v \in Known /\ w \in Known
  BY <1>0, <1>1, AfterIs
<1>3. /\ k \in [Nat -> Known] /\ k[l + 1] = w
      /\ \A i \in Nat : i # l + 1 => k[i] = g[i]
  BY <1>0, <1>1, <1>2
<1>4. k[0] = Knows'
  BY <1>1, <1>3 DEF Trail
<1>5. ASSUME NEW i \in 1..(l + 1)
      PROVE  Accepts(k[i - 1], out[i])' /\ k[i] = After(k[i - 1], out'[i])
  <2>1. CASE i = l + 1
    <3>1. k[i - 1] = v /\ k[i] = w /\ out'[i] = f
      BY <1>1, <1>3, <2>1
    <3> QED
      BY <1>0, <3>1
  <2>2. CASE i # l + 1
    <3>1. i \in 1..l /\ i - 1 \in Nat /\ i \in Nat /\ i - 1 # l + 1
      BY <1>1, <2>2
    <3>2. k[i - 1] = g[i - 1] /\ k[i] = g[i] /\ out'[i] = out[i] /\ out[i] \in Frame
      BY <1>1, <1>3, <2>2, <3>1
    <3>3. PICK x, u : x \in Frame /\ x = out[i] /\ u = g[i - 1]
      BY <3>2
    <3>4. Accepts(u, x) /\ g[i] = After(u, x)
      BY <1>0, <3>1, <3>3 DEF Trail
    <3>5. Accepts(u, x)'
      BY <3>3, <3>4, AcceptsKept
    <3> QED
      BY <3>2, <3>3, <3>4, <3>5
  <2> QED
    BY <2>1, <2>2
<1>6. Written(k[l + 1])'
  BY <1>0, <1>3
<1>7. Trail(k)'
  BY <1>1, <1>4, <1>5, <1>6 DEF Trail
<1> QED
  BY <1>3, <1>7

\* Received does to the client what After says.
LEMMA ReceivedKnows ==
  ASSUME NEW f \in Frame, cli \in Client, cli' = Received(f)
  PROVE  Knows' = After(Knows, f)
<1>1. CASE f.type = "wupd"
  <2>1. \/ cli' = [cli EXCEPT !.win = @ + f.n]
        \/ cli' = [cli EXCEPT !.swin[f.stream] = @ + f.n]
    BY <1>1 DEF Received
  <2>2. /\ cli'.cur = cli.cur /\ cli'.decoded = cli.decoded /\ cli'.got = cli.got
        /\ cli'.answered = cli.answered
    BY <2>1 DEF Client
  <2> QED
    BY <1>1, <2>2 DEF Knows, After
<1> DEFINE c == IF f.end THEN None ELSE f.stream
           a == IF f.end THEN cli.answered \union {f.stream} ELSE cli.answered
<1>2. CASE f.type = "headers"
  <2>1. cli' = [cli EXCEPT !.decoded = @ + 1, !.cur = c, !.answered = a]
    BY <1>2 DEF Received
  <2>2. After(Knows, f) = [Knows EXCEPT !.decoded = @ + 1, !.cur = c, !.answered = a]
    BY <1>2 DEF After, Knows
  <2> HIDE DEF c, a
  <2>3. /\ cli'.cur = c /\ cli'.decoded = cli.decoded + 1 /\ cli'.got = cli.got
        /\ cli'.answered = a
    BY <2>1 DEF Client
  <2> QED
    BY <2>2, <2>3 DEF Knows
<1>3. CASE f.type = "data"
  <2> DEFINE d == [cli.got EXCEPT ![f.stream] = @ + f.n]
  <2>1. cli' = [cli EXCEPT !.got = d, !.cur = c, !.answered = a]
    BY <1>3 DEF Received
  <2>2. After(Knows, f) = [Knows EXCEPT !.got = d, !.cur = c, !.answered = a]
    BY <1>3 DEF After, Knows
  <2> HIDE DEF c, a, d
  <2>3. /\ cli'.cur = c /\ cli'.decoded = cli.decoded /\ cli'.got = d
        /\ cli'.answered = a
    BY <2>1 DEF Client
  <2> QED
    BY <2>2, <2>3 DEF Knows
<1>4. CASE f.type \notin {"wupd", "headers", "data"}
  BY <1>4 DEF Received, After, Knows
<1> QED
  BY <1>1, <1>2, <1>3, <1>4

\* A frame is received.
LEMMA TrailRead ==
  ASSUME NEW g \in [Nat -> Known], Trail(g), out \in Seq(Frame), out # <<>>,
         out' = Tail(out), UNCHANGED <<h, enc>>, Knows' = After(Knows, Head(out))
  PROVE  \E k \in [Nat -> Known] : Trail(k)'
<1>0. PICK l, k : l = Len(out) /\ k = [i \in Nat |-> g[i + 1]]
  OBVIOUS
<1>1. /\ l \in Nat /\ 1 \in 1..l /\ Len(out') = l - 1 /\ l - 1 \in Nat
      /\ \A i \in 1..(l - 1) : out'[i] = out[i + 1]
      /\ Head(out) = out[1]
  BY <1>0
<1>2. k \in [Nat -> Known] /\ \A i \in Nat : k[i] = g[i + 1]
  BY <1>0
<1>3. k[0] = Knows'
  BY <1>0, <1>1, <1>2 DEF Trail
<1>4. ASSUME NEW i \in 1..(l - 1)
      PROVE  Accepts(k[i - 1], out[i])' /\ k[i] = After(k[i - 1], out'[i])
  <2>1. i + 1 \in 1..l /\ i - 1 \in Nat /\ i \in Nat /\ (i + 1) - 1 = i /\ (i - 1) + 1 = i
    BY <1>1
  <2>2. Accepts(g[i], out[i + 1]) /\ g[i + 1] = After(g[i], out[i + 1])
    BY <1>0, <2>1 DEF Trail
  <2>3. k[i - 1] = g[i] /\ k[i] = g[i + 1] /\ out'[i] = out[i + 1]
    BY <1>1, <1>2, <2>1
  <2>4. PICK x, u : x = out[i + 1] /\ u = g[i]
    OBVIOUS
  <2>5. Accepts(u, x)'
    BY <2>2, <2>4 DEF Accepts
  <2> QED
    BY <2>2, <2>3, <2>4, <2>5
<1>5. Written(k[l - 1])'
  <2>1. k[l - 1] = g[l]
    BY <1>1, <1>2
  <2>2. PICK u : u = g[l]
    OBVIOUS
  <2>3. Written(u)
    BY <1>0, <2>2 DEF Trail
  <2>4. Written(u)'
    BY <2>3 DEF Written
  <2> QED
    BY <2>1, <2>2, <2>4
<1>6. Trail(k)'
  BY <1>1, <1>3, <1>4, <1>5 DEF Trail
<1> QED
  BY <1>2, <1>6

\* The client reads or vanishes.
LEMMA OutClient ==
  ASSUME Inv, OutInv, ClientRead \/ ClientGone
  PROVE  OutInv'
<1>1. UNCHANGED <<h, enc, todo>> /\ ~gone
  BY DEF ClientRead, ClientGone, conn
<1>2. out \in Seq(Frame) /\ cli \in Client
  BY DEF Inv, TypeOK
<1>3. CASE ClientGone
  BY <1>1, <1>3 DEF ClientGone, OutInv
<1>4. CASE ClientRead
  <2>1. PICK g \in [Nat -> Known] : Trail(g)
    BY <1>1 DEF OutInv
  <2>2. out # <<>> /\ out' = Tail(out) /\ cli' = Received(Head(out)) /\ gone' = gone
    BY <1>4 DEF ClientRead
  <2>3. PICK f \in Frame : f = Head(out) /\ f = out[1] /\ 1 \in 1..Len(out)
    BY <1>2, <2>2
  <2>4. Knows' = After(Knows, f)
    BY <1>2, <2>2, <2>3, ReceivedKnows
  <2>5. \E k \in [Nat -> Known] : Trail(k)'
    BY <1>1, <1>2, <2>1, <2>2, <2>3, <2>4, TrailRead
  <2>6. Accepts(Knows, f)
    BY <2>1, <2>3 DEF Trail
  <2>7. \A s \in cli'.answered : s \in cli.answered \/ h[s].pc = "done"
    <3>1. \A s \in After(Knows, f).answered : s \in Knows.answered \/ h[s].pc = "done"
      <4>1. CASE f.type \notin {"headers", "data"}
        BY <4>1 DEF After
      <4>2. CASE f.type \in {"headers", "data"}
        <5>1. /\ After(Knows, f).answered =
                   IF f.end THEN Knows.answered \union {f.stream} ELSE Knows.answered
              /\ f.end => h[f.stream].pc = "done"
          BY <2>6, <4>2 DEF After, Accepts, Knows
        <5> QED
          BY <5>1
      <4> QED
        BY <4>1, <4>2
    <3> QED
      BY <2>4, <3>1 DEF Knows
  <2> QED
    BY <1>1, <2>2, <2>5, <2>7 DEF OutInv
<1> QED
  BY <1>3, <1>4

\* Control frames say nothing of a response.
LEMMA CtlAccepted ==
  ASSUME NEW v, NEW f, f.type \notin {"headers", "data"}
  PROVE  Accepts(v, f) /\ After(v, f) = v
  BY DEF Accepts, After

\* Where a handler has begun to write.
Writing == {"headers", "data", "done"}

\* Steps of handlers that do not write yet.
Quiet ==
  /\ \A s \in Streams : h'[s] = h[s] \/ (h[s].pc \notin Writing /\ h'[s].pc \notin Writing)
  /\ UNCHANGED <<enc, gone>> /\ Knows' = Knows
  /\ \A i \in 1..Len(todo') : todo'[i].type \notin {"headers", "data"}

\* They leave what is being written alone.
LEMMA QuietKept ==
  ASSUME Quiet
  PROVE  Kept /\ \A v : Written(v) => Written(v)'
<1>1. Kept
  BY DEF Quiet, Kept, Writing
<1>2. ASSUME NEW v, Written(v) PROVE Written(v)'
  <2>1. UNCHANGED enc
    BY DEF Quiet
  <2>2. ASSUME NEW s \in Streams
        PROVE  /\ v.cur = s <=> h'[s].pc = "data"
               /\ s \in v.answered <=> h'[s].pc = "done"
               /\ h'[s].pc = "headers" <=> h[s].pc = "headers"
               /\ h'[s].pc \in {"headers", "data"} => v.got[s] + h'[s].left = h'[s].resp.len
               /\ h'[s].pc \notin {"headers", "data", "done"} => v.got[s] = 0
    BY <1>2 DEF Quiet, Writing, Written
  <2> QED
    BY <1>2, <2>1, <2>2 DEF Written
<1> QED
  BY <1>1, <1>2

\* Nothing is written.
LEMMA OutQuiet ==
  ASSUME Inv, OutInv, Quiet, UNCHANGED out
  PROVE  OutInv'
<1>1. Kept /\ \A v : Written(v) => Written(v)'
  BY QuietKept
<1>2. out \in Seq(Frame) /\ Knows' = Knows /\ UNCHANGED gone
  BY DEF Inv, TypeOK, Quiet
<1>3. ASSUME ~gone PROVE \E g \in [Nat -> Known] : Trail(g)'
  <2>1. PICK g \in [Nat -> Known] : Trail(g)
    BY <1>3 DEF OutInv
  <2>2. PICK v : v = g[Len(out)]
    OBVIOUS
  <2>3. Written(v)'
    BY <1>1, <2>1, <2>2 DEF Trail
  <2>4. Written(g[Len(out)])'
    BY <2>2, <2>3
  <2>5. Trail(g)'
    BY <1>1, <1>2, <2>1, <2>4, TrailSame
  <2> QED
    BY <2>5
<1>4. \A s \in cli'.answered : h'[s].pc = "done"
  <2>1. cli'.answered = cli.answered /\ cli.answered \subseteq Streams
    BY <1>2 DEF Knows, Inv, TypeOK, Client
  <2> QED
    BY <1>1, <2>1 DEF OutInv, Kept
<1> QED
  BY <1>2, <1>3, <1>4 DEF OutInv, Quiet

\* A control frame is written.
LEMMA OutCtl ==
  ASSUME Inv, OutInv, Quiet, NEW f \in Frame, f.type \notin {"headers", "data"},
         ~gone, out' = Append(out, f)
  PROVE  OutInv'
<1>1. Kept /\ \A v : Written(v) => Written(v)'
  BY QuietKept
<1>2. out \in Seq(Frame) /\ Knows' = Knows /\ UNCHANGED gone
  BY DEF Inv, TypeOK, Quiet
<1>3. PICK g \in [Nat -> Known] : Trail(g)
  BY DEF OutInv
<1>4. PICK v : v = g[Len(out)]
  OBVIOUS
<1>5. After(v, f) = v
  BY CtlAccepted
<1>6. Accepts(v, f)'
  BY DEF Accepts
<1>7. Written(v)'
  BY <1>1, <1>3, <1>4 DEF Trail
<1>8. Written(After(v, f))'
  BY <1>5, <1>7
<1>9. \E k \in [Nat -> Known] : Trail(k)'
  BY <1>1, <1>2, <1>3, <1>4, <1>6, <1>8, TrailAppend
<1>10. \A s \in cli'.answered : h'[s].pc = "done"
  <2>1. cli'.answered = cli.answered /\ cli.answered \subseteq Streams
    BY <1>2 DEF Knows, Inv, TypeOK, Client
  <2> QED
    BY <1>1, <2>1 DEF OutInv, Kept
<1> QED
  BY <1>2, <1>9, <1>10 DEF OutInv, Quiet

\* The loop writes control frames only.
LEMMA OutLoop ==
  ASSUME Inv, OutInv, LoopStep \/ ReadStep
  PROVE  OutInv'
<1>0. /\ h \in [Streams -> Handler] /\ todo \in Seq(Frame) /\ out \in Seq(Frame)
      /\ \A i \in 1..Len(todo) : todo[i].type \notin {"headers", "data"}
  BY DEF Inv, TypeOK, OutInv
<1>1. ASSUME NEW good \in BOOLEAN, ReadPreface(good) PROVE OutInv'
  <2>1. Quiet
    BY <1>0, <1>1 DEF ReadPreface, Quiet, Knows
  <2>2. Ctl("settings") \in Frame /\ Ctl("settings").type \notin {"headers", "data"}
    BY DEF Ctl, Frame
  <2>3. UNCHANGED out \/ (~gone /\ out' = Append(out, Ctl("settings")))
    BY <1>1 DEF ReadPreface
  <2> QED
    BY <2>1, <2>2, <2>3, OutQuiet, OutCtl
<1>2. CASE LoopWrite
  <2>1. UNCHANGED <<h, enc, gone, cli>> /\ todo # <<>> /\ todo' = Tail(todo)
    BY <1>2 DEF LoopWrite
  <2>2. \A i \in 1..Len(todo') : todo'[i].type \notin {"headers", "data"}
    <3>1. \A i \in 1..Len(todo') : i + 1 \in 1..Len(todo) /\ todo'[i] = todo[i + 1]
      BY <1>0, <2>1
    <3> QED
      BY <1>0, <3>1
  <2>3. Quiet
    BY <2>1, <2>2 DEF Quiet, Knows
  <2>4. Head(todo) \in Frame /\ Head(todo).type \notin {"headers", "data"}
    <3>1. Head(todo) = todo[1] /\ 1 \in 1..Len(todo)
      BY <1>0, <2>1
    <3> QED
      BY <1>0, <3>1
  <2>5. UNCHANGED out \/ (~gone /\ out' = Append(out, Head(todo)))
    BY <1>2 DEF LoopWrite
  <2> QED
    BY <2>3, <2>4, <2>5, OutQuiet, OutCtl
<1>3. CASE LoopReturn \/ ReadStop \/ \E s \in Streams : ReadRSTStream(s)
  <2>1. Quiet /\ UNCHANGED out
    BY <1>0, <1>3 DEF LoopReturn, ReadStop, ReadRSTStream, write, Quiet, Knows
  <2> QED
    BY <2>1, OutQuiet
<1>4. CASE LoopDispatch
  <2>1. next \in Streams /\ h[next].pc = "idle"
    BY <1>4 DEF LoopDispatch, Inv, TypeOK, StreamTableExact
  <2>2. Quiet /\ UNCHANGED out
    BY <1>0, <1>4, <2>1 DEF LoopDispatch, dispatch, write, Quiet, Knows, Writing, Handler
  <2> QED
    BY <2>2, OutQuiet
<1>5. ASSUME NEW f, NEW t, ReadCtl(f, t),
             \A i \in 1..Len(t) : t[i].type \notin {"headers", "data"}
      PROVE  OutInv'
  <2>1. Quiet /\ UNCHANGED out
    BY <1>5 DEF ReadCtl, write, Quiet, Knows
  <2> QED
    BY <2>1, OutQuiet
<1>6. CASE ReadSettings \/ ReadWindowUpdate \/ ReadPriority \/ ReadPing
  <2>1. /\ \A i \in 1..Len(<<Ctl("ack")>>) : <<Ctl("ack")>>[i].type \notin {"headers", "data"}
        /\ \A i \in 1..Len(<<Ctl("pong")>>) : <<Ctl("pong")>>[i].type \notin {"headers", "data"}
        /\ \A i \in 1..Len(<<>>) : <<>>[i].type \notin {"headers", "data"}
    BY DEF Ctl
  <2> QED
    BY <1>5, <1>6, <2>1 DEF ReadSettings, ReadWindowUpdate, ReadPriority, ReadPing
<1>7. ASSUME NEW s \in Streams, NEW b, NEW end \in BOOLEAN, ReadBlock(s, b, end),
             sent[s].state \in {"idle", "open"}
      PROVE  OutInv'
  <2>1. h[s].pc = "idle"
    BY <1>7 DEF Inv, StreamTableExact
  <2>2. Quiet /\ UNCHANGED out
    BY <1>0, <1>7, <2>1
       DEF ReadBlock, dispatch, keep, write, Quiet, Knows, Writing, Handler
  <2> QED
    BY <2>2, OutQuiet
<1>8. ASSUME NEW s \in Streams, NEW n \in 0..1, NEW pad \in 0..1, NEW end \in BOOLEAN,
             ReadData(s, n, pad, end)
      PROVE  OutInv'
  <2>1. h[s].pc = "idle"
    BY <1>8 DEF ReadData, Inv, StreamTableExact
  <2>2. \A i \in 1..Len(credits(s, n)) : credits(s, n)[i].type \notin {"headers", "data"}
    BY DEF credits, Wupd
  <2>3. \A i \in 1..Len(todo') : todo'[i].type \notin {"headers", "data"}
    BY <1>0, <1>8, <2>2 DEF ReadData
  <2>4. Knows' = Knows
    BY <1>8 DEF ReadData, Knows, Inv, TypeOK, Client
  <2>5. /\ \A t \in Streams : h'[t] = h[t] \/ (h[t].pc \notin Writing /\ h'[t].pc \notin Writing)
        /\ UNCHANGED <<enc, gone, out>>
    BY <1>0, <1>8, <2>1 DEF ReadData, dispatch, keep, write, Writing, Handler
  <2>6. Quiet
    BY <2>3, <2>4, <2>5 DEF Quiet
  <2> QED
    BY <2>5, <2>6, OutQuiet
<1> QED
  BY <1>1, <1>2, <1>3, <1>4, <1>6, <1>7, <1>8
     DEF LoopStep, ReadStep, ReadHeaders, ReadTrailers

\* A handler writes frame f: the client will accept it, and then knows all that
\* was written.
LEMMA OutWrite ==
  ASSUME Inv, OutInv, Kept, NEW f \in Frame, ~gone, out' = Append(out, f),
         UNCHANGED <<cli, gone, todo>>,
         \A v \in Known : Written(v) => Accepts(v, f)' /\ Written(After(v, f))'
  PROVE  OutInv'
<1>1. PICK g \in [Nat -> Known] : Trail(g)
  BY DEF OutInv
<1>2. out \in Seq(Frame) /\ Knows' = Knows
  BY DEF Inv, TypeOK, Knows
<1>3. PICK v \in Known : v = g[Len(out)]
  BY <1>2
<1>4. Accepts(v, f)' /\ Written(After(v, f))'
  BY <1>1, <1>3 DEF Trail
<1>5. \E k \in [Nat -> Known] : Trail(k)'
  BY <1>1, <1>2, <1>3, <1>4, TrailAppend
<1>6. cli.answered \subseteq Streams
  BY DEF Inv, TypeOK, Client
<1> QED
  BY <1>5, <1>6 DEF OutInv, Kept

\* The steps of a handler before it has the lock.
LEMMA OutHandlerQuiet ==
  ASSUME Inv, OutInv, NEW s \in Streams,
         \/ OnceBegin(s) \/ OnceDone(s) \/ Emit(s)
         \/ \E ok \in BOOLEAN : OnceEnd(s, ok)
         \/ \E r \in OriginResponses \union {errorResponse} : RoundTrip(s, r)
  PROVE  OutInv'
<1>0. /\ h \in [Streams -> Handler] /\ UNCHANGED <<out, enc, gone, cli, todo>>
      /\ \A i \in 1..Len(todo) : todo[i].type \notin {"headers", "data"}
  BY DEF Inv, TypeOK, OutInv, OnceBegin, OnceDone, Emit, OnceEnd, RoundTrip, conn, write
<1>1. /\ \A t \in Streams \ {s} : h'[t] = h[t]
      /\ h[s].pc \notin Writing /\ h'[s].pc \notin Writing
  BY <1>0 DEF OnceBegin, OnceDone, Emit, OnceEnd, RoundTrip, Handler, Writing
<1>2. Quiet
  BY <1>0, <1>1 DEF Quiet, Knows
<1> QED
  BY <1>0, <1>2, OutQuiet

\* RespLock: nobody is writing, and the encoded block is the next one.
LEMMA OutLock ==
  ASSUME Inv, OutInv, NEW s \in Streams, RespLock(s)
  PROVE  OutInv'
<1>0. /\ h \in [Streams -> Handler] /\ UNCHANGED <<out, gone, cli, todo>>
      /\ out \in Seq(Frame) /\ Knows' = Knows /\ enc' = enc + 1 /\ wmu = None
  BY DEF Inv, TypeOK, RespLock, conn, Knows
<1>1. \A t \in Streams : h[t].pc \notin {"headers", "data"}
  BY <1>0, StreamsAssumption DEF Inv, LockOwner
<1>2. /\ \A t \in Streams \ {s} : h'[t] = h[t]
      /\ h[s].pc = "lock" /\ h'[s].pc = "headers"
      /\ h'[s].left = h[s].resp.len /\ h'[s].resp = h[s].resp
  BY <1>0 DEF RespLock, Handler
<1>3. h[s].resp.len \in Nat
  BY <1>0, <1>2 DEF Inv, HandlerData, Handler, Response
<1>4. Kept
  BY <1>2 DEF Kept
<1>5. ASSUME NEW v \in Known, Written(v) PROVE Written(v)'
  <2>1. v.decoded = enc /\ v.got[s] = 0 /\ v.decoded + 1 = enc'
    BY <1>0, <1>1, <1>2, <1>5 DEF Written
  <2>2. v.got[s] + h'[s].left = h'[s].resp.len
    BY <1>2, <1>3, <2>1
  <2> QED
    BY <1>1, <1>2, <1>5, <2>1, <2>2 DEF Written
<1>6. ASSUME ~gone PROVE \E g \in [Nat -> Known] : Trail(g)'
  <2>1. PICK g \in [Nat -> Known] : Trail(g)
    BY <1>6 DEF OutInv
  <2>2. PICK v \in Known : v = g[Len(out)]
    BY <1>0
  <2>3. Written(v)'
    BY <1>5, <2>1, <2>2 DEF Trail
  <2>4. Written(g[Len(out)])'
    BY <1>0, <2>2, <2>3
  <2>5. Trail(g)'
    BY <1>0, <1>4, <2>1, <2>4, TrailSame
  <2> QED
    BY <2>5
<1>7. cli.answered \subseteq Streams
  BY DEF Inv, TypeOK, Client
<1> QED
  BY <1>0, <1>4, <1>6, <1>7 DEF OutInv, Kept

\* RespHeaders: the block that was encoded last, of the handler with the lock.
LEMMA OutHeaders ==
  ASSUME Inv, OutInv, NEW s \in Streams, RespHeaders(s)
  PROVE  OutInv'
<1>0. /\ h \in [Streams -> Handler] /\ UNCHANGED <<gone, cli, todo, enc>> /\ ~gone
      /\ h[s].pc = "headers" /\ h[s].left \in Nat /\ enc \in Nat
  BY DEF Inv, TypeOK, RespHeaders, Handler
<1>1. PICK end, f : /\ end \in BOOLEAN /\ (end <=> h[s].left = 0)
                  /\ f = [type |-> "headers", stream |-> s, hpack |-> enc, end |-> end]
  OBVIOUS
<1>2. /\ out' = Append(out, f)
      /\ h' = [h EXCEPT ![s].pc = IF end THEN "done" ELSE "data"]
  BY <1>1 DEF RespHeaders
<1>3. f \in Frame
  BY <1>0, <1>1 DEF Frame
<1>4. /\ \A t \in Streams \ {s} : h'[t] = h[t]
      /\ h'[s].pc = (IF end THEN "done" ELSE "data")
      /\ h'[s].left = h[s].left /\ h'[s].resp = h[s].resp
  BY <1>0, <1>2 DEF Handler
<1>5. Kept
  BY <1>0, <1>4 DEF Kept
<1>6. \A t \in Streams \ {s} : h[t].pc \notin {"headers", "data"}
  BY <1>0 DEF Inv, LockOwner
<1>7. ASSUME NEW v \in Known, Written(v) PROVE Accepts(v, f)' /\ Written(After(v, f))'
  <2>1. /\ v.cur = None /\ v.decoded + 1 = enc /\ s \notin v.answered
        /\ v.got[s] + h[s].left = h[s].resp.len
    BY <1>0, <1>6, <1>7 DEF Written, Known
  <2>2. PICK w : w = After(v, f)
    OBVIOUS
  <2>3. /\ w.cur = (IF end THEN None ELSE s) /\ w.decoded = enc /\ w.got = v.got
        /\ w.answered = IF end THEN v.answered \union {s} ELSE v.answered
    BY <1>1, <2>1, <2>2 DEF After, Known
  <2>4. end => w.got[s] = h[s].resp.len
    <3>1. v.got[s] \in Nat
      BY DEF Known
    <3> QED
      BY <1>1, <2>1, <2>3, <3>1
  <2>5. Accepts(v, f)'
    BY <1>0, <1>1, <1>4, <2>1, <2>2, <2>4 DEF Accepts
  <2>6. Written(w)'
    <3>1. \A t \in Streams : w.cur = t <=> h'[t].pc = "data"
      BY <1>4, <1>6, <2>3, StreamsAssumption
    <3>2. \A t \in Streams : t \in w.answered <=> h'[t].pc = "done"
      BY <1>4, <1>7, <2>1, <2>3 DEF Written
    <3>3. \A t \in Streams : h'[t].pc # "headers"
      BY <1>4, <1>6
    <3>4. \A t \in Streams :
            /\ h'[t].pc \in {"headers", "data"} => w.got[t] + h'[t].left = h'[t].resp.len
            /\ h'[t].pc \notin {"headers", "data", "done"} => w.got[t] = 0
      BY <1>4, <1>6, <1>7, <2>1, <2>3 DEF Written
    <3> QED
      BY <1>0, <2>3, <3>1, <3>2, <3>3, <3>4 DEF Written
  <2> QED
    BY <2>2, <2>5, <2>6
<1> QED
  BY <1>0, <1>2, <1>3, <1>5, <1>7, OutWrite

\* RespData: the next part of the body, and END_STREAM with the last one.
LEMMA OutData ==
  ASSUME Inv, OutInv, NEW s \in Streams, RespData(s)
  PROVE  OutInv'
<1>0. /\ h \in [Streams -> Handler] /\ UNCHANGED <<gone, cli, todo, enc>> /\ ~gone
      /\ h[s].pc = "data" /\ h[s].left \in Nat /\ MaxFrame \in Nat
  BY BoundsAssumption DEF Inv, TypeOK, RespData, Handler
<1>1. PICK end, n, f :
        /\ end \in BOOLEAN /\ (end <=> h[s].left <= MaxFrame)
        /\ n = IF end THEN h[s].left ELSE MaxFrame
        /\ f = [type |-> "data", stream |-> s, n |-> n, end |-> end]
  OBVIOUS
<1>2. /\ out' = Append(out, f)
      /\ h' = [h EXCEPT ![s].pc = IF end THEN "done" ELSE "data", ![s].left = @ - n]
  <2>1. PICK e, m : /\ e = LastChunk(h[s].left)
                    /\ m = IF e THEN h[s].left ELSE MaxFrame
                    /\ out' = Append(out, [type |-> "data", stream |-> s, n |-> m, end |-> e])
                    /\ h' = [h EXCEPT ![s].pc = IF e THEN "done" ELSE "data", ![s].left = @ - m]
    BY DEF RespData
  <2>2. e = end
    BY <1>0, <1>1, <2>1 DEF LastChunk
  <2> QED
    BY <1>1, <2>1, <2>2
<1>3. /\ n \in Nat /\ n <= MaxFrame /\ h[s].left - n \in Nat /\ f \in Frame
      /\ end \in BOOLEAN /\ (end => n = h[s].left)
  <2>1. end \in BOOLEAN /\ (end <=> h[s].left <= MaxFrame)
    BY <1>1
  <2>2. n \in Nat /\ n <= MaxFrame /\ h[s].left - n \in Nat /\ (end => n = h[s].left)
    BY <1>0, <1>1, <2>1
  <2> QED
    BY <1>1, <2>1, <2>2 DEF Frame
<1>4. /\ \A t \in Streams \ {s} : h'[t] = h[t]
      /\ h'[s].pc = (IF end THEN "done" ELSE "data")
      /\ h'[s].left = h[s].left - n /\ h'[s].resp = h[s].resp
  BY <1>0, <1>2 DEF Handler
<1>5. Kept
  BY <1>0, <1>4 DEF Kept
<1>6. \A t \in Streams \ {s} : h[t].pc \notin {"headers", "data"}
  BY <1>0 DEF Inv, LockOwner
<1>7. ASSUME NEW v \in Known, Written(v) PROVE Accepts(v, f)' /\ Written(After(v, f))'
  <2>1. /\ v.cur = s /\ v.decoded = enc /\ s \notin v.answered
        /\ v.got[s] + h[s].left = h[s].resp.len /\ v.got[s] \in Nat
    BY <1>0, <1>6, <1>7 DEF Written, Known
  <2>2. PICK w : w = After(v, f)
    OBVIOUS
  <2>3. /\ w.cur = (IF end THEN None ELSE s) /\ w.decoded = enc
        /\ w.got[s] = v.got[s] + n /\ \A t \in Streams \ {s} : w.got[t] = v.got[t]
        /\ w.answered = IF end THEN v.answered \union {s} ELSE v.answered
    BY <1>1, <2>1, <2>2 DEF After, Known
  <2>4. end => w.got[s] = h[s].resp.len
    BY <1>3, <2>1, <2>3
  <2>5. Accepts(v, f)'
    BY <1>0, <1>1, <1>3, <1>4, <2>1, <2>2, <2>4 DEF Accepts
  <2>6. Written(w)'
    <3>1. \A t \in Streams : w.cur = t <=> h'[t].pc = "data"
      BY <1>4, <1>6, <2>3, StreamsAssumption
    <3>2. \A t \in Streams : t \in w.answered <=> h'[t].pc = "done"
      BY <1>4, <1>7, <2>1, <2>3 DEF Written
    <3>3. \A t \in Streams : h'[t].pc # "headers"
      BY <1>4, <1>6
    <3>4. w.got[s] + h'[s].left = h'[s].resp.len
      BY <1>0, <1>3, <1>4, <2>1, <2>3
    <3>5. \A t \in Streams :
            /\ h'[t].pc \in {"headers", "data"} => w.got[t] + h'[t].left = h'[t].resp.len
            /\ h'[t].pc \notin {"headers", "data", "done"} => w.got[t] = 0
      BY <1>4, <1>6, <1>7, <2>3, <3>4 DEF Written
    <3> QED
      BY <1>0, <2>3, <3>1, <3>2, <3>3, <3>5 DEF Written
  <2> QED
    BY <2>2, <2>5, <2>6
<1> QED
  BY <1>0, <1>2, <1>3, <1>5, <1>7, OutWrite

\* RespFail: the client has vanished.
LEMMA OutFail ==
  ASSUME Inv, OutInv, NEW s \in Streams, RespFail(s)
  PROVE  OutInv'
<1>1. /\ h \in [Streams -> Handler] /\ UNCHANGED <<gone, cli, todo, out>> /\ gone
      /\ cli.answered \subseteq Streams
  BY DEF Inv, TypeOK, RespFail, Client
<1>2. \A t \in Streams : h[t].pc = "done" => h'[t].pc = "done"
  BY <1>1 DEF RespFail, Handler
<1> QED
  BY <1>1, <1>2 DEF OutInv

\* Every step keeps the frames in order ...
LEMMA OutNext == Inv /\ OutInv /\ [Next]_vars => OutInv'
<1> SUFFICES ASSUME Inv, OutInv, [Next]_vars PROVE OutInv'
  OBVIOUS
<1>1. CASE LoopStep \/ ReadStep
  BY <1>1, OutLoop
<1>2. CASE ClientRead \/ ClientGone
  BY <1>2, OutClient
<1>3. CASE UNCHANGED vars
  <2>1. Quiet /\ UNCHANGED out
    BY <1>3 DEF vars, conn, write, Quiet, Knows, OutInv
  <2> QED
    BY <2>1, OutQuiet
<1>4. ASSUME NEW s \in Streams, HandlerStep(s) PROVE OutInv'
  BY <1>4, OutHandlerQuiet, OutLock, OutHeaders, OutData, OutFail DEF HandlerStep
<1> QED
  BY <1>1, <1>2, <1>3, <1>4 DEF Next, Over

\* ... from the start.
LEMMA OutInit == Init => OutInv
<1> SUFFICES ASSUME Init PROVE OutInv
  OBVIOUS
<1>1. cli \in Client /\ Knows \in Known
  BY InvInit, KnowsIs DEF Inv, TypeOK
<1>2. PICK g : g = [i \in Nat |-> Knows]
  OBVIOUS
<1>3. g \in [Nat -> Known] /\ g[0] = Knows
  BY <1>1, <1>2
<1>4. /\ \A s \in Streams : h[s].pc = "idle"
      /\ Knows.cur = None /\ Knows.decoded = 0 /\ Knows.answered = {} /\ enc = 0
      /\ \A s \in Streams : Knows.got[s] = 0
  BY DEF Init, Knows
<1>5. Written(Knows)
  BY <1>4, StreamsAssumption DEF Written
<1>6. Trail(g)
  BY <1>3, <1>5 DEF Trail, Init
<1> QED
  BY <1>3, <1>6 DEF OutInv, Init

\* They are in order in every reachable state.
LEMMA SpecOut == Spec => [](Inv /\ FpInv /\ OutInv)
<1>1. Init => OutInv
  BY OutInit
<1>2. Inv /\ OutInv /\ [Next]_vars => OutInv'
  BY OutNext
<1> QED
  BY <1>1, <1>2, SpecFp, PTL DEF Spec

\* writeResponse and the write lock: whatever handlers and control frames
\* compete for the socket, the client decodes the header blocks in the order
\* they were encoded, no frame splits another response, and none is too long.
THEOREM Responses == Spec => []ResponsesInOrder
<1>1. Inv /\ OutInv => ResponsesInOrder
  <2> SUFFICES ASSUME Inv, OutInv, out # <<>> PROVE Fits(Head(out))
    BY DEF ResponsesInOrder
  <2>1. out \in Seq(Frame) /\ ~gone
    BY DEF Inv, TypeOK, OutInv
  <2>2. PICK g \in [Nat -> Known] : Trail(g)
    BY <2>1 DEF OutInv
  <2>3. Head(out) = out[1] /\ 1 \in 1..Len(out)
    BY <2>1
  <2>4. Accepts(Knows, Head(out))
    BY <2>2, <2>3 DEF Trail
  <2> QED
    BY <2>4 DEF Accepts, Fits, Knows
<1> QED
  BY <1>1, SpecOut, PTL

-----------------------------------------------------------------------------
(* Flow control.                                                           *)

\* The positions of the window updates are finitely many.
LEMMA UpdatesFinite ==
  ASSUME NEW q \in Seq(Frame), NEW s
  PROVE  IsFiniteSet(Updates(q, s)) /\ Cardinality(Updates(q, s)) \in Nat
<1>1. IsFiniteSet(1..Len(q))
  BY FS_Interval
<1>2. Updates(q, s) \in SUBSET (1..Len(q))
  BY DEF Updates
<1>3. IsFiniteSet(Updates(q, s))
  BY <1>1, <1>2, FS_Subset
<1> QED
  BY <1>3, FS_CardinalityType

\* Other frames are no window updates.
LEMMA UpdatesOf ==
  ASSUME NEW q, NEW s, \A i \in 1..Len(q) : q[i] # Wupd(s, 1)
  PROVE  Cardinality(Updates(q, s)) = 0
<1>1. Updates(q, s) = {}
  BY DEF Updates
<1> QED
  BY <1>1, FS_EmptySet

\* A window update that is written is one more to be read ...
LEMMA UpdatesAppend ==
  ASSUME NEW q \in Seq(Frame), NEW f \in Frame, NEW s
  PROVE  Cardinality(Updates(Append(q, f), s)) =
           Cardinality(Updates(q, s)) + (IF f = Wupd(s, 1) THEN 1 ELSE 0)
<1>1. PICK r : r = Append(q, f)
  OBVIOUS
<1>2. /\ Len(r) = Len(q) + 1 /\ r[Len(q) + 1] = f /\ Len(q) \in Nat
      /\ \A i \in 1..Len(q) : r[i] = q[i]
  BY <1>1
<1>3. Updates(r, s) = Updates(q, s) \union (IF f = Wupd(s, 1) THEN {Len(q) + 1} ELSE {})
  BY <1>2 DEF Updates
<1>4. Len(q) + 1 \notin Updates(q, s)
  BY <1>2 DEF Updates
<1>5. IsFiniteSet(Updates(q, s)) /\ Cardinality(Updates(q, s)) \in Nat
  BY UpdatesFinite
<1>6. CASE f = Wupd(s, 1)
  <2>1. Updates(r, s) = Updates(q, s) \union {Len(q) + 1}
    BY <1>3, <1>6
  <2>2. Cardinality(Updates(r, s)) = Cardinality(Updates(q, s)) + 1
    BY <1>4, <1>5, <2>1, FS_AddElement
  <2> QED
    BY <1>1, <1>6, <2>2
<1>7. CASE f # Wupd(s, 1)
  <2>1. Updates(r, s) = Updates(q, s)
    BY <1>3, <1>7
  <2> QED
    BY <1>1, <1>5, <1>7, <2>1
<1> QED
  BY <1>6, <1>7

\* ... and one that is read is one less.
LEMMA UpdatesTail ==
  ASSUME NEW q \in Seq(Frame), q # <<>>, NEW s
  PROVE  Cardinality(Updates(q, s)) =
           Cardinality(Updates(Tail(q), s)) + (IF Head(q) = Wupd(s, 1) THEN 1 ELSE 0)
<1>1. PICK r : r = Tail(q)
  OBVIOUS
<1>2. /\ Len(q) = Len(r) + 1 /\ Len(r) \in Nat /\ q[1] = Head(q) /\ r \in Seq(Frame)
      /\ \A i \in 1..Len(r) : r[i] = q[i + 1]
  BY <1>1
<1>3. PICK U, V : U = Updates(r, s) /\ V = Updates(q, s) \ {1}
  OBVIOUS
<1>4. /\ \A i \in U : i \in Nat /\ i + 1 \in V
      /\ \A j \in V : j - 1 \in U /\ (j - 1) + 1 = j
  BY <1>2, <1>3 DEF Updates
<1>5. IsFiniteSet(U) /\ IsFiniteSet(Updates(q, s))
  BY <1>2, <1>3, UpdatesFinite
<1>6. Cardinality(V) = Cardinality(U)
  <2>1. PICK m : m = [i \in U |-> i + 1]
    OBVIOUS
  <2>2. m \in [U -> V] /\ \A i, j \in U : m[i] = m[j] => i = j
    BY <1>4, <2>1
  <2>3. \A j \in V : j - 1 \in U /\ m[j - 1] = j
    BY <1>4, <2>1
  <2>4. ExistsBijection(U, V)
    <3>1. m \in Injection(U, V) /\ m \in Surjection(U, V)
      BY <2>2, <2>3 DEF Injection, IsInjective, Surjection
    <3> QED
      BY <3>1 DEF ExistsBijection, Bijection
  <2> QED
    BY <1>5, <2>4, FS_Bijection
<1>7. 1 \in Updates(q, s) <=> Head(q) = Wupd(s, 1)
  BY <1>2 DEF Updates
<1>8. Cardinality(V) = Cardinality(Updates(q, s)) - (IF Head(q) = Wupd(s, 1) THEN 1 ELSE 0)
  <2>1. Cardinality(Updates(q, s)) \in Nat
    BY UpdatesFinite
  <2>2. Cardinality(Updates(q, s) \ {1}) =
          IF 1 \in Updates(q, s) THEN Cardinality(Updates(q, s)) - 1
          ELSE Cardinality(Updates(q, s))
    BY <1>5, FS_RemoveElement
  <2>3. CASE Head(q) = Wupd(s, 1)
    BY <1>3, <1>7, <2>2, <2>3
  <2>4. CASE Head(q) # Wupd(s, 1)
    BY <1>3, <1>7, <2>1, <2>2, <2>4
  <2> QED
    BY <2>3, <2>4
<1>9. Cardinality(Updates(q, s)) \in Nat /\ Cardinality(U) \in Nat
  BY <1>2, <1>3, UpdatesFinite
<1> QED
  BY <1>1, <1>3, <1>6, <1>8, <1>9

\* Every window update returns one unit.
Units(q) == \A i \in 1..Len(q) : q[i].type = "wupd" => q[i].n = 1

CreditInv == Units(todo) /\ Units(out) /\ CreditConserved

\* The frames that are no window updates.
Other == {f \in Frame : f.type # "wupd"}

\* Queue r holds as many window updates as q.
SameUpdates(q, r) ==
  /\ Units(r)
  /\ \A s \in Streams \union {None} :
       Cardinality(Updates(r, s)) = Cardinality(Updates(q, s))

\* The windows, the padding and the updates under way stay as they are.
Balanced ==
  /\ Units(todo)' /\ Units(out)'
  /\ cli'.win = cli.win /\ cli'.swin = cli.swin /\ hist'.pad = hist.pad
  /\ \A s \in Streams : sent'[s].pad = sent[s].pad
  /\ ~gone' => ~gone /\ \A s \in Streams \union {None} : Owed(s)' = Owed(s)

\* Then no credit is lost.
LEMMA CreditBalanced ==
  ASSUME CreditInv, Balanced
  PROVE  CreditInv'
  BY DEF CreditInv, CreditConserved, Balanced

\* A step that writes at most one frame that is no window update, and leaves
\* the windows alone.
LEMMA CreditOther ==
  ASSUME Inv, CreditInv, UNCHANGED <<cli, gone>>, hist'.pad = hist.pad,
         \A s \in Streams : sent'[s].pad = sent[s].pad,
         todo' = todo \/ (todo = <<>> /\ \E f \in Other : todo' = <<f>>),
         out' = out \/ \E f \in Other : out' = Append(out, f)
  PROVE  CreditInv'
<1>1. todo \in Seq(Frame) /\ out \in Seq(Frame) /\ Units(todo) /\ Units(out)
  BY DEF Inv, TypeOK, CreditInv
<1>2. \A f \in Other : f \in Frame /\ \A s : f # Wupd(s, 1)
  BY DEF Other, Wupd
<1>3. SameUpdates(todo, todo')
  <2>1. CASE todo' = todo
    BY <1>1, <2>1 DEF SameUpdates
  <2>2. ASSUME todo = <<>>, NEW f \in Other, todo' = <<f>> PROVE SameUpdates(todo, todo')
    <3>1. Len(todo') = 1 /\ todo'[1] = f /\ Len(todo) = 0
      BY <2>2
    <3>2. Units(todo')
      BY <3>1 DEF Units, Other
    <3>3. ASSUME NEW s \in Streams \union {None}
          PROVE  Cardinality(Updates(todo', s)) = Cardinality(Updates(todo, s))
      <4>1. \A i \in 1..Len(todo') : todo'[i] # Wupd(s, 1)
        BY <1>2, <3>1
      <4>2. \A i \in 1..Len(todo) : todo[i] # Wupd(s, 1)
        BY <3>1
      <4> QED
        BY <4>1, <4>2, UpdatesOf
    <3> QED
      BY <3>2, <3>3 DEF SameUpdates
  <2> QED
    BY <2>1, <2>2
<1>4. SameUpdates(out, out')
  <2>1. CASE out' = out
    BY <1>1, <2>1 DEF SameUpdates
  <2>2. ASSUME NEW f \in Other, out' = Append(out, f) PROVE SameUpdates(out, out')
    <3>1. \A i \in 1..Len(out') : out'[i] = f \/ (i \in 1..Len(out) /\ out'[i] = out[i])
      BY <1>1, <2>2
    <3>2. Units(out')
      BY <1>1, <3>1 DEF Units, Other
    <3>3. ASSUME NEW s \in Streams \union {None}
          PROVE  Cardinality(Updates(out', s)) = Cardinality(Updates(out, s))
      <4>1. Cardinality(Updates(out', s)) = Cardinality(Updates(out, s)) + 0
        BY <1>1, <1>2, <2>2, UpdatesAppend
      <4> QED
        BY <1>1, <4>1, UpdatesFinite
    <3> QED
      BY <3>2, <3>3 DEF SameUpdates
  <2> QED
    BY <2>1, <2>2
<1>5. Balanced
  BY <1>3, <1>4 DEF Balanced, Owed, SameUpdates, Units
<1> QED
  BY <1>5, CreditBalanced

\* LoopWrite: a window update leaves todo and enters the socket.
LEMMA CreditWrite ==
  ASSUME Inv, CreditInv, LoopWrite
  PROVE  CreditInv'
<1>1. /\ todo \in Seq(Frame) /\ out \in Seq(Frame) /\ Units(todo) /\ Units(out)
      /\ todo # <<>> /\ todo' = Tail(todo) /\ UNCHANGED <<cli, gone, hist, sent>>
      /\ out' = IF gone THEN out ELSE Append(out, Head(todo))
  BY DEF Inv, TypeOK, CreditInv, LoopWrite
<1>2. PICK f : f = Head(todo)
  OBVIOUS
<1>3. /\ f \in Frame /\ f = todo[1] /\ 1 \in 1..Len(todo)
      /\ \A i \in 1..Len(todo') : i + 1 \in 1..Len(todo) /\ todo'[i] = todo[i + 1]
  BY <1>1, <1>2
<1>4. Units(todo')
  BY <1>1, <1>3 DEF Units
<1>5. Units(out')
  <2>1. \A i \in 1..Len(out') : out'[i] = f \/ (i \in 1..Len(out) /\ out'[i] = out[i])
    BY <1>1, <1>2, <1>3
  <2> QED
    BY <1>1, <1>3, <2>1 DEF Units
<1>6. ASSUME ~gone, NEW s \in Streams \union {None} PROVE Owed(s)' = Owed(s)
  <2>1. PICK k : k = IF f = Wupd(s, 1) THEN 1 ELSE 0
    OBVIOUS
  <2>2. Cardinality(Updates(todo, s)) = Cardinality(Updates(todo', s)) + k
    BY <1>1, <1>2, <2>1, UpdatesTail
  <2>3. Cardinality(Updates(out', s)) = Cardinality(Updates(out, s)) + k
    BY <1>1, <1>2, <1>3, <1>6, <2>1, UpdatesAppend
  <2>4. todo' \in Seq(Frame) /\ k \in Nat
    BY <1>1, <2>1
  <2>5. Cardinality(Updates(todo', s)) \in Nat /\ Cardinality(Updates(out, s)) \in Nat
    BY <1>1, <2>4, UpdatesFinite
  <2> QED
    BY <2>2, <2>3, <2>4, <2>5 DEF Owed
<1>7. Balanced
  BY <1>1, <1>4, <1>5, <1>6 DEF Balanced, Units
<1> QED
  BY <1>7, CreditBalanced

\* ClientRead: a window update that is read is credit the client has again.
LEMMA CreditRead ==
  ASSUME Inv, CreditInv, ClientRead
  PROVE  CreditInv'
<1>1. /\ todo \in Seq(Frame) /\ out \in Seq(Frame) /\ Units(todo) /\ Units(out)
      /\ out # <<>> /\ out' = Tail(out) /\ UNCHANGED <<todo, gone, hist, sent>>
      /\ cli' = Received(Head(out)) /\ ~gone /\ cli \in Client
  BY DEF Inv, TypeOK, CreditInv, ClientRead, conn
<1>2. PICK f : f = Head(out)
  OBVIOUS
<1>3. /\ f \in Frame /\ f = out[1] /\ 1 \in 1..Len(out)
      /\ \A i \in 1..Len(out') : i + 1 \in 1..Len(out) /\ out'[i] = out[i + 1]
  BY <1>1, <1>2
<1>4. Units(out)' /\ Units(todo)'
  BY <1>1, <1>3 DEF Units
<1>5. ASSUME NEW s \in Streams \union {None}
      PROVE  /\ Owed(s) = Owed(s)' + (IF f = Wupd(s, 1) THEN 1 ELSE 0)
             /\ Owed(s)' \in Nat
  <2>1. PICK k : k = IF f = Wupd(s, 1) THEN 1 ELSE 0
    OBVIOUS
  <2>2. Cardinality(Updates(out, s)) = Cardinality(Updates(out', s)) + k
    BY <1>1, <1>2, <2>1, UpdatesTail
  <2>3. out' \in Seq(Frame) /\ k \in Nat
    BY <1>1, <2>1
  <2>4. Cardinality(Updates(out', s)) \in Nat /\ Cardinality(Updates(todo, s)) \in Nat
    BY <1>1, <2>3, UpdatesFinite
  <2> QED
    BY <1>1, <2>1, <2>2, <2>3, <2>4 DEF Owed
<1>6. CASE f.type # "wupd"
  <2>1. \A s : f # Wupd(s, 1)
    BY <1>6 DEF Wupd
  <2>2. \A s \in Streams \union {None} : Owed(s)' = Owed(s)
    BY <1>5, <2>1
  <2>3. cli'.win = cli.win /\ cli'.swin = cli.swin
    BY <1>1, <1>2, <1>6 DEF Received, Client
  <2>4. Balanced
    BY <1>1, <1>4, <2>2, <2>3 DEF Balanced
  <2> QED
    BY <2>4, CreditBalanced
<1>7. CASE f.type = "wupd"
  <2>1. f = Wupd(f.stream, 1) /\ f.n = 1 /\ f.stream \in Streams \union {None}
    BY <1>1, <1>3, <1>7 DEF Units, Frame, Wupd
  <2>2. \A s \in Streams \union {None} : f = Wupd(s, 1) <=> f.stream = s
    BY <2>1 DEF Wupd
  <2>3. CreditConserved
    BY DEF CreditInv
  <2>4. /\ cli.win \in Nat /\ \A s \in Streams : cli.swin[s] \in Nat /\ sent[s].pad \in Nat
        /\ hist.pad \in Nat
    BY DEF Inv, TypeOK, Client, SentOn, History
  <2>5. CASE f.stream = None
    <3>1. cli'.win = cli.win + 1 /\ cli'.swin = cli.swin
      BY <1>1, <1>2, <1>7, <2>1, <2>5 DEF Received, Client
    <3>2. Owed(None) = Owed(None)' + 1 /\ Owed(None)' \in Nat
      BY <1>5, <2>1, <2>5
    <3>3. \A s \in Streams : Owed(s)' = Owed(s)
      BY <1>5, <2>2, <2>5, StreamsAssumption
    <3>4. cli'.win + Owed(None)' + hist'.pad = Window
      <4>1. cli.win + Owed(None) + hist.pad = Window
        BY <1>1, <2>3 DEF CreditConserved
      <4>2. PICK a, b, c : a = cli.win /\ b = Owed(None)' /\ c = hist.pad
        OBVIOUS
      <4>3. a \in Nat /\ b \in Nat /\ c \in Nat /\ a + (b + 1) + c = Window
        BY <2>4, <3>2, <4>1, <4>2
      <4>4. (a + 1) + b + c = Window
        BY <4>3
      <4> QED
        BY <1>1, <3>1, <4>2, <4>4
    <3> QED
      BY <1>1, <1>4, <2>3, <3>1, <3>3, <3>4 DEF CreditInv, CreditConserved
  <2>6. CASE f.stream # None
    <3>1. PICK t \in Streams : t = f.stream
      BY <2>1, <2>6
    <3>2. /\ cli'.win = cli.win /\ cli'.swin[t] = cli.swin[t] + 1
          /\ \A s \in Streams \ {t} : cli'.swin[s] = cli.swin[s]
      BY <1>1, <1>2, <1>7, <2>1, <2>6, <3>1 DEF Received, Client
    <3>3. Owed(t) = Owed(t)' + 1 /\ Owed(t)' \in Nat
      BY <1>5, <2>1, <3>1
    <3>4. \A s \in (Streams \union {None}) \ {t} : Owed(s)' = Owed(s)
      BY <1>5, <2>2, <3>1
    <3>5. cli'.swin[t] + Owed(t)' + sent'[t].pad = Window
      <4>1. cli.swin[t] + Owed(t) + sent[t].pad = Window
        BY <1>1, <2>3 DEF CreditConserved
      <4>2. PICK a, b, c : a = cli.swin[t] /\ b = Owed(t)' /\ c = sent[t].pad
        OBVIOUS
      <4>3. a \in Nat /\ b \in Nat /\ c \in Nat /\ a + (b + 1) + c = Window
        BY <2>4, <3>3, <4>1, <4>2
      <4>4. (a + 1) + b + c = Window
        BY <4>3
      <4> QED
        BY <1>1, <3>2, <4>2, <4>4
    <3>6. \A s \in Streams : cli'.swin[s] + Owed(s)' + sent'[s].pad = Window
      BY <1>1, <2>3, <3>2, <3>4, <3>5 DEF CreditConserved
    <3>7. cli'.win + Owed(None)' + hist'.pad = Window
      BY <1>1, <2>3, <3>1, <3>2, <3>4, StreamsAssumption DEF CreditConserved
    <3> QED
      BY <1>4, <3>6, <3>7 DEF CreditInv, CreditConserved
  <2> QED
    BY <2>5, <2>6
<1> QED
  BY <1>6, <1>7

\* ReadData: the bytes are credited back on both windows, the padding is not.
LEMMA CreditData ==
  ASSUME Inv, CreditInv, NEW s \in Streams, NEW n \in 0..1, NEW pad \in 0..1,
         NEW end \in BOOLEAN, ReadData(s, n, pad, end)
  PROVE  CreditInv'
<1>1. /\ todo = <<>> /\ UNCHANGED <<out, gone>> /\ ~gone
      /\ sent' = [sent EXCEPT ![s].state = IF end THEN "ended" ELSE @,
                              ![s].body = @ + n, ![s].pad = @ + pad]
      /\ cli' = [cli EXCEPT !.win = @ - (n + pad), !.swin[s] = @ - (n + pad)]
      /\ hist' = [hist EXCEPT !.pad = @ + pad]
      /\ todo' = IF n > 0 THEN credits(s, n) ELSE todo
  BY DEF ReadData, CanRead, AtRead, write
<1>2. /\ cli \in Client /\ sent \in [Streams -> SentOn] /\ hist \in History
      /\ out \in Seq(Frame) /\ Units(out)
  BY DEF Inv, TypeOK, CreditInv
<1>3. /\ cli'.win = cli.win - (n + pad) /\ cli'.swin[s] = cli.swin[s] - (n + pad)
      /\ \A t \in Streams \ {s} : cli'.swin[t] = cli.swin[t]
  BY <1>1, <1>2 DEF Client
<1>4. /\ hist'.pad = hist.pad + pad /\ sent'[s].pad = sent[s].pad + pad
      /\ \A t \in Streams \ {s} : sent'[t].pad = sent[t].pad
  BY <1>1, <1>2 DEF History, SentOn
<1>5. /\ cli.win \in Nat /\ cli.swin[s] \in Nat /\ sent[s].pad \in Nat
      /\ hist.pad \in Nat
  BY <1>2 DEF Client, SentOn, History
<1>6. ASSUME NEW t \in Streams \union {None}
      PROVE  /\ Cardinality(Updates(todo, t)) = 0
             /\ Cardinality(Updates(todo', t)) = IF t \in {s, None} THEN n ELSE 0
  <2>1. \A i \in 1..Len(todo) : todo[i] # Wupd(t, 1)
    BY <1>1
  <2>2. CASE n = 0
    <3>1. todo' = todo
      BY <1>1, <2>2
    <3> QED
      BY <2>1, <2>2, <3>1, UpdatesOf
  <2>3. CASE n = 1
    <3>1. todo' = <<Wupd(None, 1), Wupd(s, 1)>>
      BY <1>1, <2>3 DEF credits
    <3>2. Len(todo') = 2 /\ todo'[1] = Wupd(None, 1) /\ todo'[2] = Wupd(s, 1)
      BY <3>1
    <3>3. \A x, y : Wupd(x, 1) = Wupd(y, 1) <=> x = y
      BY DEF Wupd
    <3>4. CASE t = s
      <4>1. Updates(todo', t) = {2}
        BY <3>2, <3>3, <3>4, StreamsAssumption DEF Updates
      <4> QED
        BY <2>1, <2>3, <3>4, <4>1, UpdatesOf, FS_Singleton
    <3>5. CASE t = None
      <4>1. Updates(todo', t) = {1}
        BY <3>2, <3>3, <3>5, StreamsAssumption DEF Updates
      <4> QED
        BY <2>1, <2>3, <3>5, <4>1, UpdatesOf, FS_Singleton
    <3>6. CASE t \notin {s, None}
      <4>1. \A i \in 1..Len(todo') : todo'[i] # Wupd(t, 1)
        BY <3>2, <3>3, <3>6
      <4> QED
        BY <2>1, <3>6, <4>1, UpdatesOf
    <3> QED
      BY <3>4, <3>5, <3>6
  <2> QED
    BY <2>2, <2>3
<1>7. ASSUME NEW t \in Streams \union {None}
      PROVE  /\ Owed(t)' = Owed(t) + (IF t \in {s, None} THEN n ELSE 0)
             /\ Owed(t) \in Nat
  <2>1. PICK k, u : /\ k = Cardinality(Updates(out, t))
                    /\ u = IF t \in {s, None} THEN n ELSE 0
    OBVIOUS
  <2>2. k \in Nat /\ u \in Nat
    BY <1>2, <2>1, UpdatesFinite
  <2>3. Owed(t) = 0 + k /\ Owed(t)' = u + k
    BY <1>1, <1>6, <2>1 DEF Owed
  <2> QED
    BY <2>1, <2>2, <2>3
<1>8. Units(out)' /\ Units(todo)'
  <2>1. \A i \in 1..Len(todo') : todo'[i].n = 1
    BY <1>1 DEF credits, Wupd
  <2> QED
    BY <1>1, <1>2, <2>1 DEF Units
<1>9. ASSUME NEW a \in Nat, NEW b \in Nat, NEW c \in Nat, a + b + c = Window
      PROVE  (a - (n + pad)) + (b + n) + (c + pad) = Window
  BY <1>9
<1>10. CreditConserved
  BY DEF CreditInv
<1>11. cli'.win + Owed(None)' + hist'.pad = Window
  <2>1. cli.win + Owed(None) + hist.pad = Window
    BY <1>1, <1>10 DEF CreditConserved
  <2>2. Owed(None)' = Owed(None) + n /\ Owed(None) \in Nat
    BY <1>7
  <2> QED
    BY <1>3, <1>4, <1>5, <1>9, <2>1, <2>2
<1>12. cli'.swin[s] + Owed(s)' + sent'[s].pad = Window
  <2>1. cli.swin[s] + Owed(s) + sent[s].pad = Window
    BY <1>1, <1>10 DEF CreditConserved
  <2>2. Owed(s)' = Owed(s) + n /\ Owed(s) \in Nat
    BY <1>7
  <2> QED
    BY <1>3, <1>4, <1>5, <1>9, <2>1, <2>2
<1>13. ASSUME NEW t \in Streams, t # s
       PROVE  cli'.swin[t] + Owed(t)' + sent'[t].pad = Window
  <2>1. cli.swin[t] + Owed(t) + sent[t].pad = Window
    BY <1>1, <1>10 DEF CreditConserved
  <2>2. t \notin {s, None}
    BY <1>13, StreamsAssumption
  <2>3. Owed(t)' = Owed(t)
    BY <1>7, <2>2
  <2> QED
    BY <1>3, <1>4, <1>13, <2>1, <2>3
<1> QED
  BY <1>8, <1>11, <1>12, <1>13 DEF CreditInv, CreditConserved

\* Every step keeps the books ...
LEMMA CreditNext == Inv /\ CreditInv /\ [Next]_vars => CreditInv'
<1> SUFFICES ASSUME Inv, CreditInv, [Next]_vars PROVE CreditInv'
  OBVIOUS
<1>1. /\ sent \in [Streams -> SentOn] /\ hist \in History /\ enc \in Nat
      /\ h \in [Streams -> Handler] /\ MaxFrame \in Nat
  BY BoundsAssumption DEF Inv, TypeOK
<1>2. Ctl("ack") \in Other /\ Ctl("pong") \in Other /\ Ctl("settings") \in Other
  BY DEF Ctl, Other, Frame
<1>3. ASSUME NEW f, NEW t, ReadCtl(f, t), t = <<>> \/ \E x \in Other : t = <<x>>
      PROVE  CreditInv'
  <2>1. /\ UNCHANGED <<cli, gone, sent, out>> /\ todo = <<>> /\ todo' = t
        /\ hist' = [hist EXCEPT !.ctl = @ + 1,
                                !.late = @ \/ (hist.first # None /\ f # fp)]
    BY <1>3 DEF ReadCtl, CanRead, AtRead, write
  <2>2. hist'.pad = hist.pad
    BY <1>1, <2>1 DEF History
  <2> QED
    BY <1>3, <2>1, <2>2, CreditOther
<1>4. CASE ReadSettings \/ ReadWindowUpdate \/ ReadPriority \/ ReadPing
  BY <1>2, <1>3, <1>4 DEF ReadSettings, ReadWindowUpdate, ReadPriority, ReadPing
<1>5. CASE \/ \E good \in BOOLEAN : ReadPreface(good)
           \/ LoopDispatch \/ LoopReturn \/ ReadStop \/ UNCHANGED vars
  <2>1. /\ UNCHANGED <<cli, gone, sent, todo, hist>>
        /\ out' = out \/ out' = Append(out, Ctl("settings"))
    BY <1>5 DEF ReadPreface, LoopDispatch, LoopReturn, ReadStop, write, vars, conn
  <2> QED
    BY <1>2, <2>1, CreditOther
<1>6. ASSUME NEW s \in Streams, ReadRSTStream(s) PROVE CreditInv'
  <2>1. /\ UNCHANGED <<cli, gone, todo, out, hist>>
        /\ sent' = [sent EXCEPT ![s].state = "reset"]
    BY <1>6 DEF ReadRSTStream, write
  <2>2. \A t \in Streams : sent'[t].pad = sent[t].pad
    BY <1>1, <2>1 DEF SentOn
  <2> QED
    BY <2>1, <2>2, CreditOther
<1>7. ASSUME NEW s \in Streams, NEW b, NEW end, ReadBlock(s, b, end),
             \A t \in Streams : sent'[t].pad = sent[t].pad
      PROVE  CreditInv'
  <2>1. /\ UNCHANGED <<cli, gone, todo, out>>
        /\ hist' = [hist EXCEPT !.first = IF @ = None THEN b ELSE @]
    BY <1>7 DEF ReadBlock, write
  <2>2. hist'.pad = hist.pad
    BY <1>1, <2>1 DEF History
  <2> QED
    BY <1>7, <2>1, <2>2, CreditOther
<1>8. ASSUME NEW s \in Streams, NEW bare, NEW end, ReadHeaders(s, bare, end) PROVE CreditInv'
  <2>1. \A t \in Streams : sent'[t].pad = sent[t].pad
    BY <1>1, <1>8 DEF ReadHeaders, SentOn
  <2> QED
    BY <1>7, <1>8, <2>1 DEF ReadHeaders
<1>9. ASSUME NEW s \in Streams, ReadTrailers(s) PROVE CreditInv'
  <2>1. \A t \in Streams : sent'[t].pad = sent[t].pad
    BY <1>1, <1>9 DEF ReadTrailers, SentOn
  <2> QED
    BY <1>7, <1>9, <2>1 DEF ReadTrailers
<1>10. CASE ReadStep
  BY <1>4, <1>5, <1>6, <1>8, <1>9, <1>10, CreditData DEF ReadStep
<1>11. CASE LoopStep
  BY <1>5, <1>11, CreditWrite DEF LoopStep
<1>12. ASSUME NEW s \in Streams, HandlerStep(s) PROVE CreditInv'
  <2>1. UNCHANGED <<cli, gone, sent, todo, hist>>
    BY <1>12 DEF HandlerStep, OnceBegin, OnceEnd, OnceDone, RoundTrip, Emit, RespLock,
                 RespHeaders, RespData, RespFail, conn
  <2>2. CASE RespHeaders(s)
    <3>1. PICK e : /\ e = (h[s].left = 0)
                   /\ out' = Append(out, [type |-> "headers", stream |-> s, hpack |-> enc, end |-> e])
      BY <2>2 DEF RespHeaders
    <3>2. [type |-> "headers", stream |-> s, hpack |-> enc, end |-> e] \in Other
      BY <1>1, <3>1 DEF Other, Frame
    <3> QED
      BY <2>1, <3>1, <3>2, CreditOther
  <2>3. CASE RespData(s)
    <3>1. PICK e, m : /\ e = LastChunk(h[s].left)
                      /\ m = IF e THEN h[s].left ELSE MaxFrame
                      /\ out' = Append(out, [type |-> "data", stream |-> s, n |-> m, end |-> e])
      BY <2>3 DEF RespData
    <3>2. m \in Nat
      BY <1>1, <3>1 DEF Handler
    <3>3. [type |-> "data", stream |-> s, n |-> m, end |-> e] \in Other
      BY <1>1, <3>1, <3>2 DEF Other, Frame, LastChunk
    <3> QED
      BY <2>1, <3>1, <3>3, CreditOther
  <2>4. CASE UNCHANGED out
    BY <2>1, <2>4, CreditOther
  <2> QED
    BY <1>12, <2>2, <2>3, <2>4
       DEF HandlerStep, OnceBegin, OnceEnd, OnceDone, RoundTrip, Emit, RespLock, RespFail, write
<1>13. CASE ClientRead
  BY <1>13, CreditRead
<1>14. CASE ClientGone
  <2>1. gone' /\ out' = <<>> /\ UNCHANGED todo
    BY <1>14 DEF ClientGone, conn
  <2> QED
    BY <2>1 DEF CreditInv, CreditConserved, Units
<1> QED
  BY <1>5, <1>10, <1>11, <1>12, <1>13, <1>14 DEF Next, Over

\* ... from the start.
LEMMA CreditInit == Init => CreditInv
<1> SUFFICES ASSUME Init PROVE CreditInv
  OBVIOUS
<1>1. todo = <<>> /\ out = <<>> /\ cli.win = Window /\ hist.pad = 0
  BY DEF Init
<1>2. \A s \in Streams : cli.swin[s] = Window /\ sent[s].pad = 0
  BY DEF Init
<1>3. Len(<<>>) = 0
  OBVIOUS
<1>4. \A s : Cardinality(Updates(<<>>, s)) = 0
  BY <1>3, UpdatesOf
<1>5. \A s : Owed(s) = 0
  BY <1>1, <1>4 DEF Owed
<1>6. Units(todo) /\ Units(out)
  BY <1>1 DEF Units
<1> QED
  BY <1>1, <1>2, <1>5, <1>6, BoundsAssumption DEF CreditInv, CreditConserved

\* windowUpdate after DATA: whatever the interleaving of streams, control
\* frames and responses, and whatever is still to be written or read, the
\* windows of the client lose nothing but the padding.
THEOREM Credit == Spec => []CreditConserved
<1>1. Inv /\ CreditInv /\ [Next]_vars => CreditInv'
  BY CreditNext
<1>2. CreditInv => CreditConserved
  BY DEF CreditInv
<1> QED
  BY <1>1, <1>2, CreditInit, Invariant, PTL DEF Spec

-----------------------------------------------------------------------------
(* The refinement of Exchange.                                             *)

\* c is the request the client has sent on s so far, without trailers.
AsSent(c, s) ==
  c = [block |-> [stream |-> s, trailers |-> FALSE, bare |-> c.block.bare],
       body |-> sent[s].body]

\* What is captured of a stream, and then dispatched, is what was sent.
ReqOf(s) ==
  /\ sent[s].state = "idle" => sent[s].body = 0 /\ ~sent[s].trailers
  /\ streams[s] # None => AsSent(streams[s], s) /\ ~sent[s].trailers
  /\ h[s].pc # "idle" => sent[s].trailers \/ AsSent(h[s].req, s)

Requests == \A s \in Streams : ReqOf(s)

\* A handler that is about to answer has recorded its response, unless there
\* is no mirror; only such handlers have recorded.
Records ==
  /\ \A i \in 1..Len(emitted) :
       h[emitted[i].stream].pc \in {"lock", "headers", "data", "done"}
  /\ \A s \in Streams : h[s].pc = "lock" =>
       \/ \E i \in 1..Len(emitted) :
            emitted[i].stream = s /\ emitted[i].response = h[s].resp
       \/ once = "failed" /\ h[s].resp = errorResponse

\* The loop leaves stream s and its handler alone ...
Rests(s) ==
  /\ h'[s] = h[s]
  /\ h[s].pc # "idle" =>
       sent'[s].body = sent[s].body /\ sent'[s].trailers = sent[s].trailers

\* ... or dispatches its request.
Asks(s) == h[s].pc = "idle" /\ h'[s].pc = "ready" /\ h'[s].req \in Captured

\* What a step of the loop does to the exchanges.
LoopView ==
  /\ UNCHANGED <<once, mirror, emitted>>
  /\ cli'.answered = cli.answered /\ cli'.got = cli.got
  /\ \/ \A s \in Streams : Rests(s)
     \/ \E s \in Streams : Asks(s) /\ \A t \in Streams \ {s} : Rests(t)

\* A stream on which nothing is sent, and whose handler keeps its request.
LEMMA ReqKept ==
  ASSUME NEW s, ReqOf(s), sent'[s] = sent[s],
         streams'[s] = streams[s] \/ streams'[s] = None,
         h'[s].pc = "idle" <=> h[s].pc = "idle", h'[s].req = h[s].req
  PROVE  ReqOf(s)'
  BY DEF ReqOf, AsSent

\* The loop's steps that touch no request.
LEMMA ViewQuiet ==
  ASSUME Inv, Requests,
         \/ \E good \in BOOLEAN : ReadPreface(good)
         \/ LoopWrite \/ LoopReturn \/ ReadStop
         \/ \E f, t : ReadCtl(f, t)
  PROVE  LoopView /\ Requests'
<1>1. UNCHANGED <<once, mirror, emitted, cli, h, sent, streams>>
  BY DEF ReadPreface, LoopWrite, LoopReturn, ReadStop, ReadCtl, write, serve
<1> QED
  BY <1>1, ReqKept DEF LoopView, Rests, Requests

\* A step of the loop on stream s, whose handler does not run yet, which makes
\* what is captured of it st: kept on the map, or dispatched.
LEMMA ViewStream ==
  ASSUME Inv, Requests, NEW s \in Streams, h[s].pc = "idle", NEW st \in Captured,
         NEW f, dispatch(s, st, f) \/ keep(s, st),
         UNCHANGED <<once, mirror, emitted>>, cli'.answered = cli.answered,
         cli'.got = cli.got, \A t \in Streams \ {s} : sent'[t] = sent[t],
         sent'[s].state # "idle",
         \/ AsSent(st, s)' /\ ~sent'[s].trailers
         \/ sent'[s].trailers /\ dispatch(s, st, f)
  PROVE  LoopView /\ Requests'
<1>1. /\ h \in [Streams -> Handler] /\ streams \in [Streams -> Captured \union {None}]
      /\ st # None
  BY NoneAssumption DEF Inv, TypeOK
<1>2. \A t \in Streams \ {s} : h'[t] = h[t] /\ streams'[t] = streams[t]
  BY <1>1 DEF dispatch, keep
<1>3. ASSUME NEW t \in Streams, t # s PROVE ReqOf(t)' /\ Rests(t)
  BY <1>2, <1>3, ReqKept DEF Requests, Rests
<1>4. CASE dispatch(s, st, f)
  <2>1. h'[s].pc = "ready" /\ h'[s].req = st /\ streams'[s] = None
    BY <1>1, <1>4 DEF dispatch, Handler
  <2>2. ReqOf(s)' /\ Asks(s)
    BY <2>1 DEF ReqOf, Asks
  <2> QED
    BY <1>3, <2>2 DEF LoopView, Requests
<1>5. CASE keep(s, st) /\ AsSent(st, s)' /\ ~sent'[s].trailers
  <2>1. h' = h /\ streams'[s] = st
    BY <1>1, <1>5 DEF keep
  <2>2. ReqOf(s)' /\ Rests(s)
    BY <1>5, <2>1 DEF ReqOf, Rests
  <2> QED
    BY <1>3, <2>2 DEF LoopView, Requests
<1> QED
  BY <1>4, <1>5

\* The frames of a request.
LEMMA ViewRead ==
  ASSUME Inv, Requests, NEW s \in Streams,
         \/ \E bare \in BareBlocks, end \in BOOLEAN : ReadHeaders(s, bare, end)
         \/ ReadTrailers(s)
         \/ \E n, pad \in 0..1, end \in BOOLEAN : ReadData(s, n, pad, end)
         \/ ReadRSTStream(s)
  PROVE  LoopView /\ Requests'
<1>0. /\ sent \in [Streams -> SentOn] /\ streams \in [Streams -> Captured \union {None}]
      /\ cli \in Client /\ ReqOf(s) /\ h \in [Streams -> Handler]
  BY DEF Inv, TypeOK, Requests
<1>1. ASSUME NEW bare \in BareBlocks, NEW end \in BOOLEAN, ReadHeaders(s, bare, end)
      PROVE  LoopView /\ Requests'
  <2>1. PICK b, st, f : /\ b = [stream |-> s, trailers |-> FALSE, bare |-> bare]
                        /\ st = [block |-> b, body |-> 0] /\ f = fp'
    OBVIOUS
  <2>2. /\ sent[s].state = "idle" /\ UNCHANGED <<once, mirror, emitted, cli>>
        /\ sent' = [sent EXCEPT ![s].state = IF end THEN "ended" ELSE "open"]
        /\ dispatch(s, st, f) \/ keep(s, st)
    BY <1>1, <2>1 DEF ReadHeaders, ReadBlock, serve
  <2>3. /\ sent'[s].body = 0 /\ ~sent'[s].trailers /\ sent'[s].state # "idle"
        /\ \A t \in Streams \ {s} : sent'[t] = sent[t]
    BY <1>0, <2>2 DEF SentOn, ReqOf
  <2>4. b \in Block /\ st \in Captured
    BY <2>1, BoundsAssumption DEF Block, Captured
  <2>5. AsSent(st, s)'
    BY <2>1, <2>3 DEF AsSent
  <2>6. h[s].pc = "idle"
    BY <2>2 DEF Inv, StreamTableExact
  <2> QED
    BY <2>2, <2>3, <2>4, <2>5, <2>6, ViewStream
<1>2. ASSUME ReadTrailers(s) PROVE LoopView /\ Requests'
  <2>1. PICK b, st, f : /\ b = [stream |-> s, trailers |-> TRUE, bare |-> FALSE]
                        /\ st = [block |-> b, body |-> 0] /\ f = fp'
    OBVIOUS
  <2>2. /\ sent[s].state = "open" /\ UNCHANGED <<once, mirror, emitted, cli>>
        /\ sent' = [sent EXCEPT ![s].state = "ended", ![s].trailers = TRUE]
        /\ dispatch(s, st, f)
    BY <1>2, <2>1 DEF ReadTrailers, ReadBlock, serve
  <2>3. /\ sent'[s].trailers /\ sent'[s].state # "idle"
        /\ \A t \in Streams \ {s} : sent'[t] = sent[t]
    BY <1>0, <2>2 DEF SentOn
  <2>4. b \in Block /\ st \in Captured
    BY <2>1 DEF Block, Captured
  <2>5. h[s].pc = "idle"
    BY <2>2 DEF Inv, StreamTableExact
  <2> QED
    BY <2>2, <2>3, <2>4, <2>5, ViewStream
<1>3. ASSUME NEW n \in 0..1, NEW pad \in 0..1, NEW end \in BOOLEAN,
             ReadData(s, n, pad, end)
      PROVE  LoopView /\ Requests'
  <2>1. PICK st : st = [streams[s] EXCEPT !.body = @ + n]
    OBVIOUS
  <2>2. /\ sent[s].state = "open" /\ streams[s] # None /\ UNCHANGED <<once, mirror, emitted>>
        /\ sent' = [sent EXCEPT ![s].state = IF end THEN "ended" ELSE @,
                                ![s].body = @ + n, ![s].pad = @ + pad]
        /\ cli' = [cli EXCEPT !.win = @ - (n + pad), !.swin[s] = @ - (n + pad)]
        /\ dispatch(s, st, fp) \/ keep(s, st)
    BY <1>3, <2>1 DEF ReadData, serve
  <2>3. cli'.answered = cli.answered /\ cli'.got = cli.got
    BY <1>0, <2>2 DEF Client
  <2>4. /\ sent'[s].body = sent[s].body + n /\ sent'[s].trailers = sent[s].trailers
        /\ sent'[s].state # "idle" /\ \A t \in Streams \ {s} : sent'[t] = sent[t]
    BY <1>0, <2>2 DEF SentOn
  <2>5. AsSent(streams[s], s) /\ ~sent[s].trailers /\ streams[s] \in Captured
    BY <1>0, <2>2 DEF ReqOf
  <2>6. st \in Captured /\ st.block = streams[s].block /\ st.body = streams[s].body + n
    BY <2>1, <2>5 DEF Captured
  <2>7. streams[s].body = sent[s].body
    BY <2>5 DEF AsSent
  <2>8. streams[s].block = [stream |-> s, trailers |-> FALSE, bare |-> streams[s].block.bare]
    <3>1. PICK x, y, b : /\ x = streams[s] /\ y = x.block.bare
                         /\ b = [stream |-> s, trailers |-> FALSE, bare |-> y]
      OBVIOUS
    <3>2. x = [block |-> b, body |-> sent[s].body]
      BY <2>5, <3>1 DEF AsSent
    <3>3. x.block = b
      BY <3>2
    <3> QED
      BY <3>1, <3>3
  <2>9. st = [block |-> st.block, body |-> st.body]
    BY <2>6 DEF Captured
  <2>10. AsSent(st, s)'
    BY <2>4, <2>6, <2>7, <2>8, <2>9 DEF AsSent
  <2>11. h[s].pc = "idle"
    BY <2>2 DEF Inv, StreamTableExact
  <2> QED
    BY <2>2, <2>3, <2>4, <2>5, <2>6, <2>10, <2>11, ViewStream
<1>4. ASSUME ReadRSTStream(s) PROVE LoopView /\ Requests'
  <2>1. /\ sent[s].state = "open" /\ UNCHANGED <<once, mirror, emitted, cli, h>>
        /\ sent' = [sent EXCEPT ![s].state = "reset"]
        /\ streams' = [streams EXCEPT ![s] = None]
    BY <1>4 DEF ReadRSTStream, serve
  <2>2. h[s].pc = "idle"
    BY <2>1 DEF Inv, StreamTableExact
  <2>3. /\ sent'[s].state = "reset" /\ streams'[s] = None
        /\ \A t \in Streams \ {s} : sent'[t] = sent[t] /\ streams'[t] = streams[t]
    BY <1>0, <2>1 DEF SentOn
  <2>4. \A t \in Streams : ReqOf(t)' /\ Rests(t)
    <3>1. ReqOf(s)' /\ Rests(s)
      BY <2>1, <2>2, <2>3 DEF ReqOf, Rests
    <3>2. ASSUME NEW t \in Streams \ {s} PROVE ReqOf(t)' /\ Rests(t)
      BY <2>1, <2>3, ReqKept DEF Requests, Rests
    <3> QED
      BY <3>1, <3>2
  <2> QED
    BY <2>1, <2>4 DEF LoopView, Requests
<1> QED
  BY <1>1, <1>2, <1>3, <1>4

\* LoopDispatch: the body is complete.
LEMMA ViewDispatch ==
  ASSUME Inv, Requests, LoopDispatch
  PROVE  LoopView /\ Requests'
<1>1. /\ next \in Streams /\ UNCHANGED <<once, mirror, emitted, cli, sent>>
      /\ dispatch(next, streams[next], fp)
  BY DEF Inv, TypeOK, LoopDispatch, serve
<1>2. PICK s, st : s \in Streams /\ s = next /\ st = streams[s]
  BY <1>1
<1>3. h[s].pc = "idle" /\ sent[s].state = "ended" /\ st # None
  BY <1>1, <1>2, StreamsAssumption DEF Inv, StreamTableExact, LoopBusy
<1>4. st \in Captured /\ AsSent(st, s) /\ ~sent[s].trailers
  BY <1>2, <1>3 DEF Inv, TypeOK, Requests, ReqOf
<1>5. AsSent(st, s)' /\ ~sent'[s].trailers
  BY <1>1, <1>4 DEF AsSent
<1> QED
  BY <1>1, <1>2, <1>3, <1>4, <1>5, ViewStream

\* Every step of the loop.
LEMMA LoopViews ==
  ASSUME Inv, Requests, LoopStep \/ ReadStep
  PROVE  LoopView /\ Requests'
<1>1. CASE ReadSettings \/ ReadWindowUpdate \/ ReadPriority \/ ReadPing
  <2>1. \E f, t : ReadCtl(f, t)
    BY <1>1 DEF ReadSettings, ReadWindowUpdate, ReadPriority, ReadPing
  <2> QED
    BY <2>1, ViewQuiet
<1> QED
  BY <1>1, ViewQuiet, ViewRead, ViewDispatch DEF LoopStep, ReadStep

\* The loop's steps keep the records.
LEMMA RecordsLoop ==
  ASSUME Inv, Records, LoopView
  PROVE  Records'
<1>1. UNCHANGED <<once, emitted>> /\ emitted \in Seq(Transaction)
  BY DEF LoopView, Inv, TypeOK
<1>2. \A s \in Streams :
        h'[s] = h[s] \/ (h[s].pc = "idle" /\ h'[s].pc = "ready")
  BY DEF LoopView, Rests, Asks
<1>3. \A i \in 1..Len(emitted) : emitted[i].stream \in Streams
  <2>1. \A i \in 1..Len(emitted) : emitted[i] \in Transaction
    BY <1>1
  <2> QED
    BY <2>1 DEF Transaction
<1> QED
  BY <1>1, <1>2, <1>3 DEF Records

\* A handler keeps its request, and the others are left alone.
LEMMA HandlerKeeps ==
  ASSUME Inv, NEW s \in Streams, HandlerStep(s)
  PROVE  /\ UNCHANGED <<sent, streams, cli>> /\ h \in [Streams -> Handler]
         /\ \A t \in Streams \ {s} : h'[t] = h[t]
         /\ h[s].pc \notin {"idle", "done"} /\ h'[s].pc # "idle" /\ h'[s].req = h[s].req
  BY DEF Inv, TypeOK, Handler, HandlerStep, OnceBegin, OnceEnd, OnceDone, RoundTrip, Emit,
         RespLock, RespHeaders, RespData, RespFail, conn

\* So it keeps the requests ...
LEMMA RequestsHandler ==
  ASSUME Inv, Requests, NEW s \in Streams, HandlerStep(s)
  PROVE  Requests'
<1>1. ASSUME NEW t \in Streams PROVE ReqOf(t)'
  <2>1. /\ sent'[t] = sent[t] /\ streams'[t] = streams[t] /\ h'[t].req = h[t].req
        /\ h'[t].pc = "idle" <=> h[t].pc = "idle"
    BY HandlerKeeps
  <2> QED
    BY <2>1, ReqKept DEF Requests
<1> QED
  BY <1>1 DEF Requests

\* ... and the records.
LEMMA RecordsHandler ==
  ASSUME Inv, Records, NEW s \in Streams, HandlerStep(s)
  PROVE  Records'
<1>1. /\ h \in [Streams -> Handler] /\ emitted \in Seq(Transaction)
      /\ \A t \in Streams \ {s} : h'[t] = h[t]
  BY HandlerKeeps DEF Inv, TypeOK
<1>2. \A i \in 1..Len(emitted) : emitted[i].stream \in Streams
  <2>1. \A i \in 1..Len(emitted) : emitted[i] \in Transaction
    BY <1>1
  <2> QED
    BY <2>1 DEF Transaction
<1>3. CASE Emit(s)
  <2>1. PICK x : /\ x.stream = s /\ x.response = h[s].resp /\ emitted' = Append(emitted, x)
    BY <1>3 DEF Emit
  <2>2. h'[s].pc = "lock" /\ h'[s].resp = h[s].resp /\ h[s].pc = "emit" /\ once' = once
    BY <1>1, <1>3 DEF Emit, Handler
  <2>3. /\ Len(emitted') = Len(emitted) + 1 /\ emitted'[Len(emitted) + 1] = x
        /\ \A i \in 1..Len(emitted) : emitted'[i] = emitted[i] /\ i \in 1..Len(emitted')
        /\ Len(emitted) + 1 \in 1..Len(emitted')
        /\ \A i \in 1..Len(emitted') : i \in 1..Len(emitted) \/ i = Len(emitted) + 1
    BY <1>1, <2>1
  <2>4. \A i \in 1..Len(emitted') : h'[emitted'[i].stream].pc \in {"lock", "headers", "data", "done"}
    BY <1>1, <1>2, <2>1, <2>2, <2>3 DEF Records
  <2>5. ASSUME NEW t \in Streams, h'[t].pc = "lock"
        PROVE  \/ \E i \in 1..Len(emitted') :
                    emitted'[i].stream = t /\ emitted'[i].response = h'[t].resp
               \/ once' = "failed" /\ h'[t].resp = errorResponse
    <3>1. CASE t = s
      BY <2>1, <2>2, <2>3, <3>1
    <3>2. CASE t # s
      BY <1>1, <2>2, <2>3, <2>5, <3>2 DEF Records
    <3> QED
      BY <3>1, <3>2
  <2> QED
    BY <2>4, <2>5 DEF Records
<1>4. ASSUME NEW ok \in BOOLEAN, OnceEnd(s, ok) PROVE Records'
  <2>1. h[s].pc = "building" /\ h'[s].pc = "ready" /\ UNCHANGED emitted
    BY <1>1, <1>4 DEF OnceEnd, Handler
  <2>2. once = "running"
    BY <2>1 DEF Inv, OnceOwner
  <2> QED
    BY <1>1, <1>2, <2>1, <2>2 DEF Records
<1>5. CASE ~(Emit(s) \/ \E ok \in BOOLEAN : OnceEnd(s, ok))
  <2>1. /\ UNCHANGED emitted /\ (once' = once \/ once = "new")
        /\ h'[s].pc = "lock" => once' = "failed" /\ h'[s].resp = errorResponse
        /\ h[s].pc \in {"lock", "headers", "data", "done"} =>
             h'[s].pc \in {"lock", "headers", "data", "done"}
    BY <1>1, <1>5 DEF HandlerStep, OnceBegin, OnceDone, RoundTrip, RespLock, RespHeaders,
                      RespData, RespFail, serve, Handler
  <2> QED
    BY <1>1, <1>2, <2>1 DEF Records
<1> QED
  BY <1>3, <1>4, <1>5

\* Both hold in every reachable state.
LEMMA SpecExchange == Spec => [](Inv /\ FpInv /\ OutInv /\ Requests /\ Records)
<1>1. Init => Requests /\ Records
  <2> SUFFICES ASSUME Init PROVE Requests /\ Records
    OBVIOUS
  <2>1. /\ emitted = <<>>
        /\ \A s \in Streams : /\ h[s].pc = "idle" /\ streams[s] = None /\ sent[s].body = 0
                              /\ sent[s].trailers = FALSE
    BY DEF Init
  <2> QED
    BY <2>1 DEF Requests, ReqOf, Records
<1>2. Inv /\ Requests /\ Records /\ [Next]_vars => Requests' /\ Records'
  <2> SUFFICES ASSUME Inv, Requests, Records, [Next]_vars PROVE Requests' /\ Records'
    OBVIOUS
  <2>1. CASE LoopStep \/ ReadStep
    BY <2>1, LoopViews, RecordsLoop
  <2>2. ASSUME NEW s \in Streams, HandlerStep(s) PROVE Requests' /\ Records'
    BY <2>2, RequestsHandler, RecordsHandler
  <2>3. CASE ClientRead \/ ClientGone \/ UNCHANGED vars
    <3>1. UNCHANGED <<h, sent, streams, once, emitted>>
      BY <2>3 DEF ClientRead, ClientGone, vars, conn, serve
    <3> QED
      BY <3>1 DEF Requests, ReqOf, AsSent, Records
  <2> QED
    BY <2>1, <2>2, <2>3 DEF Next, Over
<1> QED
  BY <1>1, <1>2, SpecOut, PTL DEF Spec

\* The state of Exchange, as H2Exchange maps it.
Mirrors == [s \in Streams |-> IF once \in {"built", "failed"} THEN once ELSE "unknown"]
Askeds  == [s \in Streams |-> AskedOn(s)]
Log     == [i \in DOMAIN emitted |->
              [of |-> emitted[i].stream, request |-> emitted[i].request,
               response |-> emitted[i].response]]
Replies == [s \in Streams |-> ReplyOn(s)]
Gots    == [s \in Streams |-> GotOn(s)]

\* A sequence that continues another one by one element.
LEMMA AppendIs ==
  ASSUME NEW S, NEW p \in Seq(S), NEW q \in Seq(S), NEW x \in S,
         Len(q) = Len(p) + 1, q[Len(p) + 1] = x, \A i \in 1..Len(p) : q[i] = p[i]
  PROVE  q = Append(p, x)
<1>1. /\ Append(p, x) \in Seq(S) /\ Len(Append(p, x)) = Len(q)
      /\ \A i \in 1..Len(q) : Append(p, x)[i] = q[i]
  OBVIOUS
<1> QED
  BY <1>1, SeqEqual

\* A function on 1..n is a sequence.
LEMMA FunctionSeq ==
  ASSUME NEW S, NEW n \in Nat, NEW f \in [1..n -> S]
  PROVE  f \in Seq(S) /\ Len(f) = n
  OBVIOUS

\* The log is a sequence, as long as emitted.
LEMMA LogIs ==
  ASSUME emitted \in Seq(Transaction)
  PROVE  /\ Log \in Seq([of : Streams, request : Captured, response : Response])
         /\ Len(Log) = Len(emitted)
         /\ \A i \in 1..Len(emitted) :
              /\ Log[i].of = emitted[i].stream /\ Log[i].request = emitted[i].request
              /\ Log[i].response = emitted[i].response
<1>1. Len(emitted) \in Nat /\ DOMAIN emitted = 1..Len(emitted)
  OBVIOUS
<1>2. \A i \in 1..Len(emitted) : emitted[i] \in Transaction
  OBVIOUS
<1>3. \A i \in 1..Len(emitted) :
        /\ emitted[i].stream \in Streams /\ emitted[i].request \in Captured
        /\ emitted[i].response \in Response
  BY <1>2 DEF Transaction
<1>4. Log \in [1..Len(emitted) -> [of : Streams, request : Captured, response : Response]]
  BY <1>1, <1>3 DEF Log
<1>5. /\ Log \in Seq([of : Streams, request : Captured, response : Response])
      /\ Len(Log) = Len(emitted)
  BY <1>1, <1>4, FunctionSeq
<1> QED
  BY <1>1, <1>5 DEF Log

\* What was asked is what the handler has.
LEMMA AskedIs ==
  ASSUME Requests, NEW s \in Streams
  PROVE  AskedOn(s) = IF h[s].pc = "idle" THEN None ELSE h[s].req
  BY DEF Requests, ReqOf, AsSent, AskedOn

\* The loop: a request is asked, or nothing changes.
LEMMA LoopImplements ==
  ASSUME Inv, OutInv, Requests, Requests', LoopView
  PROVE  (\E s \in Streams : Ex!Ask(s)) \/ UNCHANGED Ex!vars
<1>1. /\ Mirrors' = Mirrors /\ Log' = Log
      /\ cli'.answered = cli.answered /\ cli'.got = cli.got
  BY DEF LoopView, Mirrors, Log
<1>2. ASSUME NEW t \in Streams, Rests(t)
      PROVE  /\ AskedOn(t)' = AskedOn(t) /\ ReplyOn(t)' = ReplyOn(t)
             /\ GotOn(t)' = GotOn(t)
  BY <1>1, <1>2 DEF Rests, AskedOn, ReplyOn, GotOn
<1>3. CASE \A t \in Streams : Rests(t)
  <2>1. Askeds' = Askeds /\ Replies' = Replies /\ Gots' = Gots
    BY <1>2, <1>3 DEF Askeds, Replies, Gots
  <2> QED
    BY <1>1, <2>1 DEF Ex!vars, Mirrors, Askeds, Log, Replies, Gots
<1>4. ASSUME NEW s \in Streams, Asks(s), \A t \in Streams \ {s} : Rests(t)
      PROVE  Ex!Ask(s)
  <2>1. AskedOn(s) = None /\ AskedOn(s)' = h'[s].req /\ h'[s].req \in Captured
    <3>1. AskedOn(s)' = IF h'[s].pc = "idle" THEN None ELSE h'[s].req
      BY DEF Requests, ReqOf, AsSent, AskedOn
    <3> QED
      BY <1>4, <3>1 DEF Asks, AskedOn
  <2>2. ReplyOn(s)' = ReplyOn(s)
    BY <1>4 DEF Asks, ReplyOn
  <2>3. GotOn(s)' = GotOn(s)
    <3>1. s \notin cli.answered
      BY <1>4 DEF Asks, OutInv
    <3> QED
      BY <1>1, <3>1 DEF GotOn
  <2>4. Replies' = Replies /\ Gots' = Gots
    BY <1>2, <1>4, <2>2, <2>3 DEF Replies, Gots
  <2>5. Askeds' = [Askeds EXCEPT ![s] = Askeds'[s]]
    BY <1>2, <1>4, <2>1 DEF Askeds
  <2>6. Askeds[s] = None /\ Askeds'[s] \in Captured
    BY <2>1 DEF Askeds
  <2> QED
    BY <1>1, <2>4, <2>5, <2>6 DEF Ex!Ask, Mirrors, Askeds, Log, Replies, Gots
<1> QED
  BY <1>3, <1>4 DEF LoopView

\* A handler's step changes neither the requests nor what the client has.
LEMMA HandlerView ==
  ASSUME Inv, OutInv, NEW s \in Streams, HandlerStep(s)
  PROVE  /\ Askeds' = Askeds /\ Gots' = Gots
         /\ \A t \in Streams \ {s} : ReplyOn(t)' = ReplyOn(t)
<1>1. ASSUME NEW t \in Streams
      PROVE  AskedOn(t)' = AskedOn(t) /\ GotOn(t)' = GotOn(t)
  <2>1. /\ UNCHANGED <<sent, cli>> /\ h'[t].req = h[t].req
        /\ h'[t].pc = "idle" <=> h[t].pc = "idle"
    BY HandlerKeeps
  <2>2. t \in cli.answered => h'[t] = h[t]
    BY HandlerKeeps DEF OutInv
  <2> QED
    BY <2>1, <2>2 DEF AskedOn, GotOn
<1>2. \A t \in Streams \ {s} : ReplyOn(t)' = ReplyOn(t)
  BY HandlerKeeps DEF ReplyOn
<1> QED
  BY <1>1, <1>2 DEF Askeds, Gots

\* OnceEnd decides the mirror.
LEMMA DecideImplements ==
  ASSUME Inv, OutInv, NEW s \in Streams, NEW ok \in BOOLEAN, OnceEnd(s, ok)
  PROVE  Ex!Decide
<1>1. HandlerStep(s) /\ UNCHANGED emitted /\ h[s].pc = "building"
  BY DEF HandlerStep, OnceEnd
<1>2. once = "running" /\ once' \in {"built", "failed"}
  BY <1>1 DEF OnceEnd, Inv, OnceOwner
<1>3. ReplyOn(s)' = ReplyOn(s)
  BY <1>1 DEF OnceEnd, ReplyOn, Inv, TypeOK, Handler
<1>4. Askeds' = Askeds /\ Gots' = Gots /\ Replies' = Replies /\ Log' = Log
  BY <1>1, <1>3, HandlerView DEF Replies, Log
<1>5. /\ Mirrors' \in [Streams -> {"unknown", "built", "failed"}]
      /\ \A t \in Streams : Mirrors[t] = "unknown"
  BY <1>2 DEF Mirrors
<1> QED
  BY <1>4, <1>5 DEF Ex!Decide, Mirrors, Askeds, Log, Replies, Gots

\* Emit records, with the response the handler has.
LEMMA RecordImplements ==
  ASSUME Inv, FpInv, OutInv, Requests, Records, NEW s \in Streams, Emit(s)
  PROVE  Ex!Record(s)
<1>1. /\ HandlerStep(s) /\ UNCHANGED once /\ h[s].pc = "emit" /\ h'[s].pc = "lock"
      /\ h \in [Streams -> Handler] /\ emitted \in Seq(Transaction)
  BY DEF HandlerStep, Emit, Inv, TypeOK, Handler
<1>2. ReplyOn(s) = None /\ ReplyOn(s)' = None
  BY <1>1 DEF ReplyOn
<1>3. /\ Askeds' = Askeds /\ Gots' = Gots /\ Mirrors' = Mirrors
      /\ Replies' = Replies /\ Replies[s] = None
  BY <1>1, <1>2, HandlerView DEF Replies, Mirrors
<1>4. Mirrors[s] = "built"
  BY <1>1 DEF FpInv, MirrorBuilt, Mirrors
<1>5. Askeds[s] = h[s].req /\ h[s].req # None
  BY <1>1, AskedIs DEF Askeds, Inv, HandlerData
<1>6. h[s].resp \in Response
  BY <1>1 DEF Inv, HandlerData, Handler
<1>7. PICK x : /\ x = [stream |-> s, h2 |-> h[s].snap, request |-> h[s].req, response |-> h[s].resp]
               /\ emitted' = Append(emitted, x)
  BY DEF Emit
<1>8. PICK n, e, r : /\ n = Len(emitted) /\ r = h[s].resp
                     /\ e = [of |-> s, request |-> h[s].req, response |-> r]
  OBVIOUS
<1>9. PICK S : S = [of : Streams, request : Captured, response : Response]
  OBVIOUS
<1>10. /\ n \in Nat /\ Len(emitted') = n + 1 /\ n + 1 \in 1..(n + 1)
       /\ \A i \in 1..n : i \in 1..(n + 1)
       /\ emitted'[n + 1] = x /\ \A i \in 1..n : emitted'[i] = emitted[i]
  BY <1>1, <1>7, <1>8
<1>11. Log \in Seq(S) /\ Len(Log) = n
  BY <1>1, <1>8, <1>9, LogIs
<1>12. emitted' \in Seq(Transaction)
  BY <1>1, InvNext DEF Inv, TypeOK, Next
<1>13. Log' \in Seq(S) /\ Len(Log') = n + 1
  <2>1. (emitted \in Seq(Transaction))' =>
          (Log \in Seq([of : Streams, request : Captured, response : Response])
             /\ Len(Log) = Len(emitted))'
    BY LogIs, PTL
  <2> QED
    BY <1>9, <1>10, <1>12, <2>1
<1>14. Log'[n + 1] = e /\ \A i \in 1..n : Log'[i] = Log[i]
  <2>1. DOMAIN emitted = 1..n /\ DOMAIN emitted' = 1..(n + 1)
    BY <1>1, <1>8, <1>10, <1>12
  <2> QED
    BY <1>7, <1>8, <1>10, <2>1 DEF Log
<1>15. e \in S
  BY <1>1, <1>5, <1>6, <1>8, <1>9 DEF Handler
<1>16. Log' = Append(Log, e)
  BY <1>11, <1>13, <1>14, <1>15, AppendIs
<1>17. \A i \in 1..n : Log[i].of # s
  BY <1>1, <1>8, LogIs DEF Records
<1>18. e.response \in Response /\ e = [of |-> s, request |-> Askeds[s], response |-> e.response]
  BY <1>5, <1>6, <1>8
<1> HIDE DEF Log, Askeds
<1>19. /\ Len(Log') = Len(Log) + 1 /\ Log'[Len(Log) + 1].response \in Response
       /\ Log' = Append(Log, [of |-> s, request |-> Askeds[s],
                              response |-> Log'[Len(Log) + 1].response])
  BY <1>11, <1>13, <1>14, <1>16, <1>18
<1>20. ~\E i \in 1..Len(Log) : Log[i].of = s
  BY <1>11, <1>17
<1>21. Askeds[s] # None
  BY <1>5
<1> QED
  BY <1>3, <1>4, <1>19, <1>20, <1>21
     DEF Ex!Record, Ex!Recorded, Mirrors, Askeds, Log, Replies, Gots

\* RespLock: the handler answers with what it recorded, or refuses.
LEMMA ReplyImplements ==
  ASSUME Inv, OutInv, Requests, Records, NEW s \in Streams, RespLock(s)
  PROVE  Ex!Reply(s)
<1>1. /\ HandlerStep(s) /\ UNCHANGED <<once, emitted>> /\ h[s].pc = "lock"
      /\ h'[s].pc = "headers" /\ h'[s].resp = h[s].resp
      /\ emitted \in Seq(Transaction)
  BY DEF HandlerStep, RespLock, serve, Inv, TypeOK, Handler
<1>2. ReplyOn(s) = None /\ ReplyOn(s)' = h[s].resp
  BY <1>1 DEF ReplyOn
<1>3. /\ Askeds' = Askeds /\ Gots' = Gots /\ Mirrors' = Mirrors /\ Log' = Log
      /\ Replies[s] = None
      /\ Replies' = [Replies EXCEPT ![s] = h[s].resp]
  BY <1>1, <1>2, HandlerView DEF Replies, Mirrors, Log
<1>4. Askeds[s] = h[s].req /\ h[s].req # None
  BY <1>1, AskedIs DEF Askeds, Inv, HandlerData
<1>5. \/ \E i \in 1..Len(emitted) : emitted[i].stream = s /\ emitted[i].response = h[s].resp
      \/ once = "failed" /\ h[s].resp = errorResponse
  BY <1>1 DEF Records
<1>6. \/ \E i \in 1..Len(Log) :
           Log[i].of = s /\ Replies' = [Replies EXCEPT ![s] = Log[i].response]
      \/ Mirrors[s] = "failed" /\ Replies' = [Replies EXCEPT ![s] = errorResponse]
  <2>1. CASE once = "failed" /\ h[s].resp = errorResponse
    BY <1>3, <2>1 DEF Mirrors
  <2>2. ASSUME NEW i \in 1..Len(emitted), emitted[i].stream = s,
               emitted[i].response = h[s].resp
        PROVE  i \in 1..Len(Log) /\ Log[i].of = s /\ Log[i].response = h[s].resp
    BY <1>1, <2>2, LogIs
  <2> QED
    BY <1>3, <1>5, <2>1, <2>2
<1>7. Askeds[s] # None
  BY <1>4
<1> QED
  BY <1>3, <1>6, <1>7 DEF Ex!Reply, Mirrors, Askeds, Log, Replies, Gots

\* Every other step of a handler changes nothing for the exchanges.
LEMMA HandlerImplements ==
  ASSUME Inv, FpInv, OutInv, Requests, Records, NEW s \in Streams, HandlerStep(s)
  PROVE  Ex!Next \/ UNCHANGED Ex!vars
<1>1. ASSUME NEW ok \in BOOLEAN, OnceEnd(s, ok) PROVE Ex!Next
  BY <1>1, DecideImplements DEF Ex!Next
<1>2. CASE Emit(s)
  BY <1>2, RecordImplements DEF Ex!Next
<1>3. CASE RespLock(s)
  BY <1>3, ReplyImplements DEF Ex!Next
<1>4. CASE OnceBegin(s) \/ OnceDone(s) \/ RespHeaders(s) \/ RespData(s) \/ RespFail(s)
           \/ \E r \in OriginResponses \union {errorResponse} : RoundTrip(s, r)
  <2>1. h \in [Streams -> Handler] /\ UNCHANGED emitted
    BY <1>4 DEF Inv, TypeOK, OnceBegin, OnceDone, RoundTrip, RespHeaders, RespData,
                RespFail, serve
  <2>2. ReplyOn(s)' = ReplyOn(s)
    BY <1>4, <2>1 DEF OnceBegin, OnceDone, RoundTrip, RespHeaders, RespData, RespFail,
                      ReplyOn, Handler
  <2>3. once' = once \/ (once = "new" /\ once' = "running")
    BY <1>4 DEF OnceBegin, OnceDone, RoundTrip, RespHeaders, RespData, RespFail, serve
  <2>4. Mirrors' = Mirrors /\ Log' = Log
    BY <2>1, <2>3 DEF Mirrors, Log
  <2>5. Askeds' = Askeds /\ Gots' = Gots /\ Replies' = Replies
    BY <2>2, HandlerView DEF Replies
  <2> QED
    BY <2>4, <2>5 DEF Ex!vars, Mirrors, Askeds, Log, Replies, Gots
<1> QED
  BY <1>1, <1>2, <1>3, <1>4 DEF HandlerStep

\* ClientRead: the last frame of a response delivers it.
LEMMA ReadImplements ==
  ASSUME Inv, OutInv, ClientRead
  PROVE  (\E s \in Streams : Ex!Deliver(s)) \/ UNCHANGED Ex!vars
<1>1. /\ UNCHANGED <<h, once, emitted, sent>> /\ cli' = Received(Head(out)) /\ ~gone
      /\ out \in Seq(Frame) /\ out # <<>> /\ cli \in Client /\ h \in [Streams -> Handler]
  BY DEF ClientRead, serve, Inv, TypeOK
<1>2. PICK f, v : f = Head(out) /\ v = Knows
  OBVIOUS
<1>3. f \in Frame /\ Accepts(v, f)
  <2>1. PICK g \in [Nat -> Known] : Trail(g)
    BY <1>1 DEF OutInv
  <2>2. Head(out) = out[1] /\ 1 \in 1..Len(out) /\ out[1] \in Frame
    BY <1>1
  <2> QED
    BY <1>2, <2>1, <2>2 DEF Trail
<1>4. Knows' = After(v, f)
  BY <1>1, <1>2, <1>3, ReceivedKnows
<1>5. /\ Mirrors' = Mirrors /\ Log' = Log /\ Askeds' = Askeds /\ Replies' = Replies
  BY <1>1 DEF Mirrors, Log, Askeds, AskedOn, Replies, ReplyOn
<1>6. PICK w : w = After(v, f)
  OBVIOUS
<1>7. /\ cli'.answered = w.answered /\ cli'.got = w.got
      /\ cli.answered = v.answered /\ cli.got = v.got /\ v \in Known
  BY <1>1, <1>2, <1>4, <1>6, KnowsIs DEF Knows
<1>8. CASE f.type \notin {"headers", "data"}
  <2>1. cli'.answered = cli.answered /\ cli'.got = cli.got
    BY <1>6, <1>7, <1>8 DEF After
  <2>2. Gots' = Gots
    BY <1>1, <2>1 DEF Gots, GotOn
  <2> QED
    BY <1>5, <2>2 DEF Ex!vars, Mirrors, Askeds, Log, Replies, Gots
<1>9. CASE f.type \in {"headers", "data"}
  <2>1. PICK s \in Streams : s = f.stream
    BY <1>3, <1>9 DEF Frame
  <2>2. /\ w.answered = IF f.end THEN v.answered \union {s} ELSE v.answered
        /\ \A t \in Streams \ {s} : w.got[t] = v.got[t]
    BY <1>6, <1>7, <1>9, <2>1 DEF After, Known
  <2>3. /\ s \notin v.answered
        /\ f.end => h[s].pc = "done" /\ w.got[s] = h[s].resp.len
    BY <1>3, <1>6, <1>9, <2>1 DEF Accepts
  <2>4. \A t \in Streams \ {s} : GotOn(t)' = GotOn(t)
    BY <1>1, <1>7, <2>2 DEF GotOn
  <2>5. GotOn(s) = None
    BY <1>7, <2>3 DEF GotOn
  <2>6. CASE ~f.end
    <3>1. GotOn(s)' = None
      BY <1>7, <2>2, <2>3, <2>6 DEF GotOn
    <3>2. Gots' = Gots
      BY <2>4, <2>5, <3>1 DEF Gots
    <3> QED
      BY <1>5, <3>2 DEF Ex!vars, Mirrors, Askeds, Log, Replies, Gots
  <2>7. CASE f.end
    <3>1. h[s].pc = "done" /\ h[s].resp \in Response
      BY <1>1, <2>3, <2>7 DEF Inv, HandlerData, Handler
    <3>2. GotOn(s)' = [ok |-> h[s].resp.ok, len |-> h[s].resp.len]
      BY <1>1, <1>7, <2>2, <2>3, <2>7 DEF GotOn
    <3>3. GotOn(s)' = h[s].resp
      BY <3>1, <3>2 DEF Response
    <3>4. Replies[s] = h[s].resp /\ Replies[s] # None
      BY <3>1, NoneAssumption DEF Replies, ReplyOn
    <3>5. Gots[s] = None /\ Gots' = [Gots EXCEPT ![s] = Replies[s]]
      BY <2>4, <2>5, <3>3, <3>4 DEF Gots
    <3>6. Ex!Deliver(s)
      BY <1>5, <3>4, <3>5 DEF Ex!Deliver, Mirrors, Askeds, Log, Replies, Gots
    <3> QED
      BY <3>6
  <2> QED
    BY <2>6, <2>7
<1> QED
  BY <1>8, <1>9

\* ServeHTTP2 and serveH2 implement Exchange: every step of the loop, of a
\* handler and of the client is one of Exchange's, or a stutter.
THEOREM Implements == Spec => ImplementsExchange
<1>1. Init => Ex!Init
  <2> SUFFICES ASSUME Init PROVE Ex!Init
    OBVIOUS
  <2>1. /\ once = "new" /\ emitted = <<>> /\ cli.answered = {}
        /\ \A s \in Streams : h[s].pc = "idle"
    BY DEF Init
  <2>2. \A s \in Streams : AskedOn(s) = None /\ ReplyOn(s) = None /\ GotOn(s) = None
    BY <2>1 DEF AskedOn, ReplyOn, GotOn
  <2>3. emitted \in Seq(Transaction) /\ Len(emitted) = 0
    BY <2>1
  <2>4. Log = <<>>
    BY <2>3, LogIs
  <2> QED
    BY <2>1, <2>2, <2>4 DEF Ex!Init, Ex!Unset, Log
<1>2. Inv /\ FpInv /\ OutInv /\ Requests /\ Records /\ Requests' /\ [Next]_vars
        => [Ex!Next]_Ex!vars
  <2> SUFFICES ASSUME Inv, FpInv, OutInv, Requests, Records, Requests', [Next]_vars
               PROVE  Ex!Next \/ UNCHANGED Ex!vars
    OBVIOUS
  <2>1. CASE LoopStep \/ ReadStep
    BY <2>1, LoopViews, LoopImplements DEF Ex!Next
  <2>2. ASSUME NEW s \in Streams, HandlerStep(s) PROVE Ex!Next \/ UNCHANGED Ex!vars
    BY <2>2, HandlerImplements
  <2>3. CASE ClientRead
    BY <2>3, ReadImplements DEF Ex!Next
  <2>4. CASE ClientGone \/ UNCHANGED vars
    <3>1. UNCHANGED <<h, once, emitted, sent, cli>>
      BY <2>4 DEF ClientGone, vars, conn, serve
    <3> QED
      BY <3>1 DEF Ex!vars, AskedOn, ReplyOn, GotOn
  <2> QED
    BY <2>1, <2>2, <2>3, <2>4 DEF Next, Over
<1> QED
  BY <1>1, <1>2, SpecExchange, PTL DEF Spec, Ex!Spec, ImplementsExchange
=============================================================================
