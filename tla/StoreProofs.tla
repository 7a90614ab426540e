---------------------------- MODULE StoreProofs -----------------------------
(***************************************************************************)
(* Theorems about Store for any clients, sessions, child tables and bounds:*)
(* the tables stay whole whatever fails between two statements, and a read *)
(* is in order and complete for every entry still stored.  With a single   *)
(* writer a save replaces the stored copy, and the store implements        *)
(* SessionStore.                                                           *)
(***************************************************************************)
EXTENDS Store, OrderProofs, FiniteSetTheorems, SequenceTheorems, TLAPS

-----------------------------------------------------------------------------
(* Sessions as sequences.                                                  *)

\* The ids of session s.
IdSet(s) == {e.id : e \in Of(s)}

\* A session is the sorted sequence of its ids.
LEMMA IdsSorted == ASSUME NEW s PROVE Ids(s) = Sorted(IdSet(s))
  BY DEF Ids, IdSet

-----------------------------------------------------------------------------
(* Plans.                                                                  *)

ReadKinds == {"has", "getlog", "select", "close", "load"}
Kinds     == {"putlog", "insert", "delete", "count"} \union ReadKinds

Renaming  == [kind : {"rename"}, session : Sessions, new : Sessions]
Statement == [kind : Kinds, session : Sessions] \union Renaming

\* The transaction of a rename follows the count of its new name at once.
Guarded(p) ==
  \A i \in 1..Len(p) : p[i].kind = "rename" =>
    /\ p[i].session # p[i].new
    /\ i = 1 \/ (i = 2 /\ p[1] = Stmt("count", p[2].new))

\* Selected rows are loaded later.
Followed(p) ==
  \A i \in 1..Len(p) : p[i].kind = "select" =>
    \E j \in (i + 1)..Len(p) : p[j].kind = "load"

\* What is left of a save of n statements on session s.
SavePlan(p, s, n) ==
  /\ n \in Nat /\ n >= 3 /\ Len(p) <= n
  /\ \A i \in 1..Len(p) :
       p[i] = Stmt(IF n - Len(p) + i = 1 THEN "delete"
                   ELSE IF n - Len(p) + i = 2 THEN "putlog" ELSE "insert", s)

\* The statements of a plan.
LEMMA StatementIs ==
  ASSUME NEW x \in Statement
  PROVE  /\ x.session \in Sessions
         /\ x.kind \in Kinds \union {"rename"}
         /\ x.kind = "rename" => x.new \in Sessions
  BY DEF Statement, Renaming, Kinds, ReadKinds

\* Once its head has run, a plan goes on as one.
LEMMA TailPlan ==
  ASSUME NEW p \in Seq(Statement), p # <<>>, Guarded(p), Followed(p)
  PROVE  /\ Len(p) \in Nat /\ Len(p) > 0 /\ Head(p) = p[1] /\ Head(p) \in Statement
         /\ Tail(p) \in Seq(Statement) /\ Len(Tail(p)) = Len(p) - 1
         /\ \A i \in 1..(Len(p) - 1) : Tail(p)[i] = p[i + 1]
         /\ Guarded(Tail(p)) /\ Followed(Tail(p))
<1>1. /\ Len(p) \in Nat /\ Len(p) > 0 /\ Head(p) = p[1] /\ Head(p) \in Statement
      /\ Tail(p) \in Seq(Statement) /\ Len(Tail(p)) = Len(p) - 1
      /\ \A i \in 1..(Len(p) - 1) : Tail(p)[i] = p[i + 1]
  OBVIOUS
<1>2. Guarded(Tail(p))
  <2>1. SUFFICES ASSUME NEW i \in 1..(Len(p) - 1), p[i + 1].kind = "rename"
                 PROVE  /\ p[i + 1].session # p[i + 1].new
                        /\ i = 1
    BY <1>1 DEF Guarded
  <2>2. i + 1 \in 1..Len(p) /\ i + 1 # 1
    BY <1>1
  <2> QED
    BY <2>1, <2>2 DEF Guarded
<1>3. Followed(Tail(p))
  <2>1. SUFFICES ASSUME NEW i \in 1..(Len(p) - 1), p[i + 1].kind = "select"
                 PROVE  \E j \in (i + 1)..(Len(p) - 1) : p[j + 1].kind = "load"
    BY <1>1 DEF Followed
  <2>2. i + 1 \in 1..Len(p)
    BY <1>1
  <2>3. PICK j \in (i + 2)..Len(p) : p[j].kind = "load"
    BY <2>1, <2>2 DEF Followed
  <2>4. j - 1 \in (i + 1)..(Len(p) - 1) /\ (j - 1) + 1 = j
    BY <1>1
  <2> QED
    BY <2>3, <2>4
<1> QED
  BY <1>1, <1>2, <1>3

\* A plan of statements of given kinds has its types.
LEMMA StmtIs ==
  ASSUME NEW k \in Kinds, NEW s \in Sessions
  PROVE  /\ Stmt(k, s) \in Statement /\ Stmt(k, s).kind = k
         /\ Stmt(k, s).session = s
  BY DEF Stmt, Statement

\* A plan without a rename or a select.
LEMMA PlainPlan ==
  ASSUME NEW p \in Seq(Statement),
         \A i \in 1..Len(p) : p[i].kind \notin {"rename", "select"}
  PROVE  Guarded(p) /\ Followed(p)
  BY DEF Guarded, Followed

\* The inserts of an import.
LEMMA InsertsAre ==
  ASSUME NEW s \in Sessions, NEW n \in Nat
  PROVE  /\ Inserts(s, n) \in Seq(Statement) /\ Len(Inserts(s, n)) = n
         /\ \A i \in 1..n : Inserts(s, n)[i] = Stmt("insert", s)
<1>1. Stmt("insert", s) \in Statement
  BY StmtIs DEF Kinds
<1> QED
  BY <1>1 DEF Inserts

\* Store.Import.
LEMMA ImportPlan ==
  ASSUME NEW s \in Sessions, NEW n \in Nat, NEW p, p = Import(s, n)
  PROVE  /\ p \in Seq(Statement) /\ p # <<>> /\ Guarded(p) /\ Followed(p)
         /\ Head(p).kind # "rename"
<1>1. Stmt("putlog", s) \in Statement /\ Stmt("putlog", s).kind = "putlog"
  BY StmtIs DEF Kinds
<1>2. Stmt("insert", s).kind = "insert"
  BY StmtIs DEF Kinds
<1>3. /\ p \in Seq(Statement) /\ Len(p) = n + 1
      /\ p[1] = Stmt("putlog", s)
      /\ \A i \in 2..Len(p) : p[i] = Stmt("insert", s)
  BY <1>1, InsertsAre DEF Import
<1>4. \A i \in 1..Len(p) : p[i].kind \notin {"rename", "select"}
  BY <1>1, <1>2, <1>3
<1> QED
  BY <1>1, <1>3, <1>4, PlainPlan

\* cmdSave.
LEMMA SavePlanIs ==
  ASSUME NEW s \in Sessions, NEW n \in Nat, n >= 1, NEW p, p = Save(s, n)
  PROVE  /\ p \in Seq(Statement) /\ p # <<>> /\ Guarded(p) /\ Followed(p)
         /\ Head(p).kind # "rename"
         /\ SavePlan(p, s, Len(p)) /\ p[Len(p)].session = s
<1>1. /\ Stmt("putlog", s) \in Statement /\ Stmt("putlog", s).kind = "putlog"
      /\ Stmt("delete", s) \in Statement /\ Stmt("delete", s).kind = "delete"
  BY StmtIs DEF Kinds
<1>2. Stmt("insert", s).kind = "insert" /\ Stmt("insert", s).session = s
  BY StmtIs DEF Kinds
<1>3. /\ p \in Seq(Statement) /\ Len(p) = n + 2
      /\ p[1] = Stmt("delete", s) /\ p[2] = Stmt("putlog", s)
      /\ \A i \in 3..Len(p) : p[i] = Stmt("insert", s)
  <2> DEFINE q == <<Stmt("delete", s), Stmt("putlog", s)>>
  <2>1. q \in Seq(Statement) /\ Len(q) = 2 /\ q[1] = Stmt("delete", s) /\ q[2] = Stmt("putlog", s)
    BY <1>1
  <2>2. p = q \o Inserts(s, n)
    BY DEF Save
  <2>3. /\ Inserts(s, n) \in Seq(Statement) /\ Len(Inserts(s, n)) = n
        /\ \A i \in 1..n : Inserts(s, n)[i] = Stmt("insert", s)
    BY InsertsAre
  <2> HIDE DEF q
  <2>4. /\ p \in Seq(Statement) /\ Len(p) = 2 + n
        /\ \A i \in 1..(2 + n) :
             p[i] = IF i <= 2 THEN q[i] ELSE Inserts(s, n)[i - 2]
    <3> DEFINE b == Inserts(s, n)
    <3>1. b \in Seq(Statement) /\ Len(b) = n
      BY <2>3
    <3> HIDE DEF b
    <3>2. /\ q \o b \in Seq(Statement) /\ Len(q \o b) = Len(q) + Len(b)
          /\ \A i \in 1..(Len(q) + Len(b)) :
               (q \o b)[i] = IF i <= Len(q) THEN q[i] ELSE b[i - Len(q)]
      BY <2>1, <3>1, ConcatIs
    <3>3. p = q \o b /\ Len(q) = 2
      BY <2>1, <2>2 DEF b
    <3>4. /\ p \in Seq(Statement) /\ Len(p) = 2 + n
          /\ \A i \in 1..(2 + n) : p[i] = IF i <= 2 THEN q[i] ELSE b[i - 2]
      BY <3>1, <3>2, <3>3
    <3> QED
      BY <3>4 DEF b
  <2>5. \A i \in 3..(2 + n) : p[i] = Stmt("insert", s)
    BY <2>3, <2>4
  <2>6. p[1] = q[1] /\ p[2] = q[2]
    BY <2>4
  <2> QED
    BY <2>1, <2>4, <2>5, <2>6
<1>4. \A i \in 1..Len(p) : p[i].kind \notin {"rename", "select"}
  BY <1>1, <1>2, <1>3
<1>5. SavePlan(p, s, Len(p))
  BY <1>3 DEF SavePlan
<1>6. p[Len(p)].session = s
  BY <1>2, <1>3
<1> QED
  BY <1>1, <1>3, <1>4, <1>5, <1>6, PlainPlan

\* RenameSession.
LEMMA RenamePlan ==
  ASSUME NEW old \in Sessions, NEW new \in Sessions, old # new,
         NEW p, p = Rename(old, new)
  PROVE  /\ p \in Seq(Statement) /\ p # <<>> /\ Guarded(p) /\ Followed(p)
         /\ Head(p).kind # "rename"
<1> DEFINE r == [kind |-> "rename", session |-> old, new |-> new]
<1>1. Stmt("count", new) \in Statement /\ Stmt("count", new).kind = "count"
  BY StmtIs DEF Kinds
<1>2. /\ r \in Statement /\ r.kind = "rename" /\ r.session = old /\ r.new = new
  BY DEF Statement, Renaming
<1>3. p = <<Stmt("count", new), r>>
  BY DEF Rename
<1> HIDE DEF r
<1>4. p \in Seq(Statement) /\ Len(p) = 2 /\ p[1] = Stmt("count", new) /\ p[2] = r
  BY <1>1, <1>2, <1>3
<1>5. Guarded(p)
  BY <1>1, <1>2, <1>4 DEF Guarded
<1>6. Followed(p)
  BY <1>1, <1>2, <1>4 DEF Followed
<1>7. p # <<>> /\ Head(p) = p[1]
  BY <1>4
<1> QED
  BY <1>1, <1>4, <1>5, <1>6, <1>7

\* DeleteSession.
LEMMA DeletePlan ==
  ASSUME NEW s \in Sessions, NEW p, p = Delete(s)
  PROVE  /\ p \in Seq(Statement) /\ p # <<>> /\ Guarded(p) /\ Followed(p)
         /\ Head(p).kind # "rename"
<1>1. Stmt("delete", s) \in Statement /\ Stmt("delete", s).kind = "delete"
  BY StmtIs DEF Kinds
<1>2. p \in Seq(Statement) /\ Len(p) = 1 /\ p[1] = Stmt("delete", s)
  BY <1>1 DEF Delete
<1> QED
  BY <1>1, <1>2, PlainPlan

\* What a writer starts.
LEMMA WriterPlans ==
  ASSUME NEW o \in WriterOps
  PROVE  /\ o.op \in {"import", "save", "rename", "delete"}
         /\ o.plan \in Seq(Statement) /\ o.plan # <<>>
         /\ Guarded(o.plan) /\ Followed(o.plan)
         /\ Head(o.plan).kind # "rename"
         /\ o.op = "save" =>
              SavePlan(o.plan, o.plan[Len(o.plan)].session, Len(o.plan))
<1>1. MaxImport \in Nat
  BY StoreAssumption
<1>2. CASE o \in [op : {"import"}, plan : {Import(s, n) : s \in Sessions, n \in 0..MaxImport}]
  <2>1. PICK s \in Sessions, n \in 0..MaxImport : o.plan = Import(s, n)
    BY <1>2
  <2>2. o.op = "import" /\ n \in Nat
    BY <1>1, <1>2
  <2> QED
    BY <2>1, <2>2, ImportPlan
<1>3. CASE o \in [op : {"save"}, plan : {Save(s, n) : s \in Sessions, n \in 1..MaxImport}]
  <2>1. PICK s \in Sessions, n \in 1..MaxImport : o.plan = Save(s, n)
    BY <1>3
  <2>2. o.op = "save" /\ n \in Nat /\ n >= 1
    BY <1>1, <1>3
  <2> QED
    BY <2>1, <2>2, SavePlanIs
<1>4. CASE o \in [op : {"rename"}, plan : {Rename(p[1], p[2]) : p \in
                      {p \in Sessions \X Sessions : p[1] # p[2]}}]
  <2>1. PICK p \in {p \in Sessions \X Sessions : p[1] # p[2]} : o.plan = Rename(p[1], p[2])
    BY <1>4
  <2>2. o.op = "rename" /\ p[1] \in Sessions /\ p[2] \in Sessions /\ p[1] # p[2]
    BY <1>4
  <2> QED
    BY <2>1, <2>2, RenamePlan
<1>5. CASE o \in [op : {"delete"}, plan : {Delete(s) : s \in Sessions}]
  <2>1. PICK s \in Sessions : o.plan = Delete(s)
    BY <1>5
  <2>2. o.op = "delete"
    BY <1>5
  <2> QED
    BY <2>1, <2>2, DeletePlan
<1> QED
  BY <1>2, <1>3, <1>4, <1>5 DEF WriterOps

\* List.
LEMMA ListPlan ==
  ASSUME NEW s \in Sessions
  PROVE  /\ \A k \in ReadKinds : Stmt(k, s) \in Statement /\ Stmt(k, s).kind = k
         /\ List(s) \in Seq(Statement) /\ Len(List(s)) = 3
         /\ List(s)[1].kind = "select" /\ List(s)[2].kind = "close"
         /\ List(s)[3].kind = "load"
<1>1. \A k \in ReadKinds : Stmt(k, s) \in Statement /\ Stmt(k, s).kind = k
  BY StmtIs DEF Kinds
<1> QED
  BY <1>1 DEF List, ReadKinds

\* What a reader starts.
LEMMA ReaderPlans ==
  ASSUME NEW o \in ReaderOps
  PROVE  /\ o.op \in {"session", "export"}
         /\ o.plan \in Seq(Statement) /\ o.plan # <<>>
         /\ Guarded(o.plan) /\ Followed(o.plan)
         /\ \A i \in 1..Len(o.plan) : o.plan[i].kind \in ReadKinds
         /\ \E i \in 1..Len(o.plan) : o.plan[i].kind = "load"
<1>1. CASE o \in [op : {"session"}, plan : {Session(s) : s \in Sessions}]
  <2>1. PICK s \in Sessions : o.plan = Session(s)
    BY <1>1
  <2> DEFINE p == o.plan
  <2> DEFINE a == <<Stmt("has", s), Stmt("getlog", s)>>
  <2>2. /\ a \in Seq(Statement) /\ Len(a) = 2
        /\ a[1].kind = "has" /\ a[2].kind = "getlog"
    BY ListPlan DEF ReadKinds
  <2> HIDE DEF a
  <2>3. /\ p \in Seq(Statement) /\ Len(p) = 5
        /\ p[1].kind = "has" /\ p[2].kind = "getlog" /\ p[3].kind = "select"
        /\ p[4].kind = "close" /\ p[5].kind = "load"
    <3> DEFINE b == List(s)
    <3> HIDE DEF b
    <3>1. p = a \o b
      BY <2>1 DEF Session, a, b
    <3>2. /\ a \in Seq(Statement) /\ b \in Seq(Statement)
          /\ Len(a) = 2 /\ Len(b) = 3
      BY <2>2, ListPlan DEF b
    <3>3. /\ a \o b \in Seq(Statement) /\ Len(a \o b) = Len(a) + Len(b)
          /\ \A i \in 1..(Len(a) + Len(b)) :
               (a \o b)[i] = IF i <= Len(a) THEN a[i] ELSE b[i - Len(a)]
      BY <3>2, ConcatIs
    <3>4. /\ Len(p) = 5 /\ p \in Seq(Statement)
          /\ \A i \in 1..5 : p[i] = IF i <= 2 THEN a[i] ELSE b[i - 2]
      BY <3>1, <3>2, <3>3
    <3> HIDE DEF p
    <3>5. p[1] = a[1] /\ p[2] = a[2] /\ p[3] = b[1] /\ p[4] = b[2] /\ p[5] = b[3]
      BY <3>4
    <3> QED
      BY <2>2, <3>4, <3>5, ListPlan DEF b
  <2>4. \A i \in 1..Len(p) : i \in {1, 2, 3, 4, 5}
    BY <2>3
  <2>5. o.op = "session"
    BY <1>1
  <2> HIDE DEF p
  <2>6. Guarded(p)
    BY <2>3, <2>4 DEF Guarded
  <2>7. Followed(p)
    <3>1. 5 \in (3 + 1)..Len(p)
      BY <2>3
    <3> QED
      BY <2>3, <2>4, <3>1 DEF Followed
  <2>8. \A i \in 1..Len(p) : p[i].kind \in ReadKinds
    BY <2>3, <2>4 DEF ReadKinds
  <2>9. 5 \in 1..Len(p) /\ p[5].kind = "load" /\ p # <<>>
    BY <2>3
  <2> QED
    BY <2>3, <2>5, <2>6, <2>7, <2>8, <2>9 DEF p
<1>2. CASE o \in [op : {"export"}, plan : {Export(s) : s \in Sessions}]
  <2>1. PICK s \in Sessions : o.plan = Export(s)
    BY <1>2
  <2> DEFINE p == o.plan
  <2> DEFINE a == <<Stmt("getlog", s)>>
  <2>2. a \in Seq(Statement) /\ Len(a) = 1 /\ a[1].kind = "getlog"
    BY ListPlan DEF ReadKinds
  <2> HIDE DEF a
  <2>3. /\ p \in Seq(Statement) /\ Len(p) = 4
        /\ p[1].kind = "select" /\ p[2].kind = "close" /\ p[3].kind = "load"
        /\ p[4].kind = "getlog"
    <3> DEFINE b == List(s)
    <3> HIDE DEF b
    <3>1. p = b \o a
      BY <2>1 DEF Export, a, b
    <3>2. /\ b \in Seq(Statement) /\ a \in Seq(Statement)
          /\ Len(b) = 3 /\ Len(a) = 1
      BY <2>2, ListPlan DEF b
    <3>3. /\ b \o a \in Seq(Statement) /\ Len(b \o a) = Len(b) + Len(a)
          /\ \A i \in 1..(Len(b) + Len(a)) :
               (b \o a)[i] = IF i <= Len(b) THEN b[i] ELSE a[i - Len(b)]
      BY <3>2, ConcatIs
    <3>4. /\ Len(p) = 4 /\ p \in Seq(Statement)
          /\ \A i \in 1..4 : p[i] = IF i <= 3 THEN b[i] ELSE a[i - 3]
      BY <3>1, <3>2, <3>3
    <3> HIDE DEF p
    <3>5. p[1] = b[1] /\ p[2] = b[2] /\ p[3] = b[3] /\ p[4] = a[1]
      BY <3>4
    <3> QED
      BY <2>2, <3>4, <3>5, ListPlan DEF b
  <2>4. \A i \in 1..Len(p) : i \in {1, 2, 3, 4}
    BY <2>3
  <2>5. o.op = "export"
    BY <1>2
  <2> HIDE DEF p
  <2>6. Guarded(p)
    BY <2>3, <2>4 DEF Guarded
  <2>7. Followed(p)
    <3>1. 3 \in (1 + 1)..Len(p)
      BY <2>3
    <3> QED
      BY <2>3, <2>4, <3>1 DEF Followed
  <2>8. \A i \in 1..Len(p) : p[i].kind \in ReadKinds
    BY <2>3, <2>4 DEF ReadKinds
  <2>9. 3 \in 1..Len(p) /\ p[3].kind = "load" /\ p # <<>>
    BY <2>3
  <2> QED
    BY <2>3, <2>5, <2>6, <2>7, <2>8, <2>9 DEF p
<1> QED
  BY <1>1, <1>2 DEF ReaderOps

-----------------------------------------------------------------------------
(* The invariant.                                                          *)

Row == [id : Nat, kids : SUBSET ChildTables, tables : SUBSET ChildTables]

Ops == {"none", "import", "save", "rename", "delete", "session", "export"}

ClientRecord ==
  [op : Ops, on : Sessions \union {"none"}, size : Nat,
   plan : Seq(Statement), status : {"ok", "error", "exists", "notfound"},
   from : Nat, rows : Seq(Row), started : Nat]

\* The tables: ids are given once, and rows are whole.
Tables ==
  /\ entries \subseteq [id : 1..MaxId, session : Sessions]
  /\ IsFiniteSet(entries)
  /\ lastId \in 0..MaxId /\ logs \subseteq Sessions
  /\ \A e \in entries : e.id <= lastId
  /\ \A e, f \in entries : e.id = f.id => e = f
  /\ RowsWhole

\* The plan of a client; a reader changes nothing.
Planned(c) ==
  /\ Guarded(cl[c].plan) /\ Followed(cl[c].plan)
  /\ cl[c].status # "ok" => cl[c].plan = <<>>
  /\ c \in Readers => \A i \in 1..Len(cl[c].plan) : cl[c].plan[i].kind \in ReadKinds

\* The rows a client has read: in order, and whole as far as they are read.
Reading(c) ==
  /\ \A i, j \in DOMAIN cl[c].rows : i < j => cl[c].rows[i].id < cl[c].rows[j].id
  /\ \A i \in DOMAIN cl[c].rows : cl[c].rows[i].id <= lastId
  /\ \A i \in DOMAIN cl[c].rows : \A e \in entries :
       e.id = cl[c].rows[i].id => cl[c].rows[i].kids = cl[c].rows[i].tables

\* A read that has nothing left to load has loaded everything.
Loading(c) ==
  cl[c].op \in {"session", "export"} /\ cl[c].status = "ok" =>
    \/ \E i \in 1..Len(cl[c].plan) : cl[c].plan[i].kind = "load"
    \/ \A i \in DOMAIN cl[c].rows : cl[c].rows[i].tables = ChildTables

Inv ==
  /\ Tables /\ cursor \subseteq Clients
  /\ cl \in [Clients -> ClientRecord]
  /\ \A c \in Clients : Planned(c) /\ Reading(c) /\ Loading(c)

\* No id that was given before comes back.
NoOldIds ==
  /\ lastId' \in Nat /\ lastId <= lastId'
  /\ \A e \in entries' : e.id <= lastId => \E f \in entries : f.id = e.id

\* Only client c moves.
OnlyMoves(c) ==
  /\ cl' \in [Clients -> ClientRecord]
  /\ \A d \in Clients \ {c} : cl'[d] = cl[d]

-----------------------------------------------------------------------------
(* Steps.                                                                  *)

\* The fields of a client.
LEMMA ClientIs ==
  ASSUME cl \in [Clients -> ClientRecord], NEW c \in Clients
  PROVE  /\ cl[c] \in ClientRecord /\ cl[c].plan \in Seq(Statement)
         /\ cl[c].rows \in Seq(Row) /\ cl[c].from \in Nat /\ cl[c].size \in Nat
  BY DEF ClientRecord

\* The rows a client has read.
LEMMA RowsAre ==
  ASSUME NEW r \in Seq(Row)
  PROVE  /\ DOMAIN r = 1..Len(r) /\ Len(r) \in Nat /\ r \in [1..Len(r) -> Row]
         /\ \A i \in DOMAIN r : /\ r[i] \in Row /\ r[i].id \in Nat
                                /\ r[i].kids \in SUBSET ChildTables
                                /\ r[i].tables \in SUBSET ChildTables
<1>1. DOMAIN r = 1..Len(r) /\ Len(r) \in Nat /\ r \in [1..Len(r) -> Row]
  BY SeqIs
<1>2. \A x \in Row : /\ x.id \in Nat /\ x.kids \in SUBSET ChildTables
                     /\ x.tables \in SUBSET ChildTables
  BY DEF Row
<1> QED
  BY <1>1, <1>2

\* One client's record changes.
LEMMA ClientStep ==
  ASSUME cl \in [Clients -> ClientRecord], NEW c \in Clients,
         NEW r \in ClientRecord, cl' = [cl EXCEPT ![c] = r]
  PROVE  OnlyMoves(c) /\ cl'[c] = r
  BY DEF OnlyMoves

\* The rows a client has read stay good while the tables change.
LEMMA ReadingStays ==
  ASSUME Inv, NEW d \in Clients, NoOldIds, cl'[d].rows = cl[d].rows
  PROVE  Reading(d)'
<1> DEFINE r == cl[d].rows
<1>1. r \in Seq(Row) /\ lastId \in Nat /\ lastId' \in Nat /\ lastId <= lastId'
  BY ClientIs, StoreAssumption DEF Inv, Tables, NoOldIds
<1>2. \A i \in DOMAIN r : r[i].id \in Nat
  BY <1>1, RowsAre
<1>3. /\ \A i, j \in DOMAIN r : i < j => r[i].id < r[j].id
      /\ \A i \in DOMAIN r : r[i].id <= lastId
      /\ \A i \in DOMAIN r : \A e \in entries : e.id = r[i].id => r[i].kids = r[i].tables
  BY DEF Inv, Reading
<1> HIDE DEF r
<1>4. \A i \in DOMAIN r : r[i].id <= lastId'
  BY <1>1, <1>2, <1>3
<1>5. \A i \in DOMAIN r : \A e \in entries' : e.id = r[i].id => r[i].kids = r[i].tables
  <2>1. SUFFICES ASSUME NEW i \in DOMAIN r, NEW e \in entries', e.id = r[i].id
                 PROVE  r[i].kids = r[i].tables
    OBVIOUS
  <2>2. PICK f \in entries : f.id = e.id
    BY <1>3, <2>1 DEF NoOldIds
  <2> QED
    BY <1>3, <2>1, <2>2
<1>6. cl'[d].rows = r
  BY DEF r
<1> QED
  BY <1>3, <1>4, <1>5, <1>6 DEF Reading

\* What is left to show of a step of client c.
LEMMA StepInv ==
  ASSUME Inv, NEW c \in Clients, OnlyMoves(c), NoOldIds, Tables',
         cursor' \subseteq Clients, Planned(c)', Reading(c)', Loading(c)'
  PROVE  Inv'
<1>1. \A d \in Clients \ {c} : Planned(d)' /\ Reading(d)' /\ Loading(d)'
  <2>1. TAKE d \in Clients \ {c}
  <2>2. cl'[d] = cl[d]
    BY DEF OnlyMoves
  <2>3. Planned(d) /\ Loading(d)
    BY DEF Inv
  <2>4. Reading(d)'
    BY <2>2, ReadingStays
  <2> QED
    BY <2>2, <2>3, <2>4 DEF Planned, Loading
<1>2. \A d \in Clients : Planned(d)' /\ Reading(d)' /\ Loading(d)'
  BY <1>1
<1> QED
  BY <1>2 DEF Inv, OnlyMoves

\* Nothing changes in the tables.
LEMMA SameTables ==
  ASSUME Inv, UNCHANGED db
  PROVE  Tables' /\ NoOldIds
<1>1. lastId \in Nat
  BY StoreAssumption DEF Inv, Tables
<1> QED
  BY <1>1 DEF Inv, Tables, NoOldIds, db, RowsWhole

\* A statement that succeeded: the plan goes on.
LEMMA AdvanceIs ==
  ASSUME Inv, NEW c \in Clients, cl[c].plan # <<>>, Advance(c)
  PROVE  /\ OnlyMoves(c) /\ Planned(c)'
         /\ cl'[c] = [cl[c] EXCEPT !.plan = Tail(cl[c].plan)]
         /\ cl[c].status = "ok" /\ cl'[c].status = "ok"
         /\ cl'[c].plan = Tail(cl[c].plan) /\ cl'[c].rows = cl[c].rows
         /\ cl'[c].op = cl[c].op /\ cl'[c].on = cl[c].on
         /\ cl'[c].size = cl[c].size /\ cl'[c].from = cl[c].from
<1> DEFINE p == cl[c].plan
           r == [cl[c] EXCEPT !.plan = Tail(p)]
<1>1. cl[c] \in ClientRecord /\ p \in Seq(Statement) /\ cl \in [Clients -> ClientRecord]
  BY ClientIs DEF Inv
<1>2. Guarded(p) /\ Followed(p) /\ cl[c].status = "ok"
  BY DEF Inv, Planned
<1>3. /\ Tail(p) \in Seq(Statement) /\ Guarded(Tail(p)) /\ Followed(Tail(p))
      /\ Len(Tail(p)) = Len(p) - 1 /\ Len(p) \in Nat
      /\ \A i \in 1..(Len(p) - 1) : Tail(p)[i] = p[i + 1]
  BY <1>1, <1>2, TailPlan
<1>4. r \in ClientRecord
  BY <1>1, <1>3 DEF ClientRecord
<1>5. /\ r.status = "ok" /\ r.plan = Tail(p) /\ r.rows = cl[c].rows
      /\ r.op = cl[c].op /\ r.on = cl[c].on
      /\ r.size = cl[c].size /\ r.from = cl[c].from
  BY <1>1, <1>2 DEF ClientRecord
<1>6. cl' = [cl EXCEPT ![c] = r]
  BY <1>1 DEF Advance
<1> HIDE DEF r
<1>7. OnlyMoves(c) /\ cl'[c] = r
  BY <1>1, <1>4, <1>6, ClientStep
<1>8. Planned(c)'
  <2>1. c \in Readers => \A i \in 1..Len(Tail(p)) : Tail(p)[i].kind \in ReadKinds
    <3>1. \A i \in 1..Len(Tail(p)) : i + 1 \in 1..Len(p) /\ Tail(p)[i] = p[i + 1]
      BY <1>3
    <3>2. c \in Readers => \A i \in 1..Len(p) : p[i].kind \in ReadKinds
      BY DEF Inv, Planned
    <3> QED
      BY <3>1, <3>2
  <2> QED
    BY <2>1, <1>3, <1>5, <1>7 DEF Planned
<1> QED
  BY <1>2, <1>5, <1>7, <1>8 DEF r

\* ... and its rows stay read, unless it gives up loading them.
LEMMA AdvanceInv ==
  ASSUME Inv, NEW c \in Clients, cl[c].plan # <<>>, Advance(c), NoOldIds, Tables',
         cursor' \subseteq Clients,
         Head(cl[c].plan).kind = "load" =>
           \A i \in DOMAIN cl[c].rows : cl[c].rows[i].tables = ChildTables
  PROVE  Inv'
<1> DEFINE p == cl[c].plan
<1>1. /\ OnlyMoves(c) /\ Planned(c)' /\ cl[c].status = "ok"
      /\ cl'[c].plan = Tail(p) /\ cl'[c].rows = cl[c].rows
      /\ cl'[c].op = cl[c].op
  BY AdvanceIs
<1>2. Reading(c)'
  BY <1>1, ReadingStays
<1>3. /\ Len(Tail(p)) = Len(p) - 1 /\ Len(p) \in Nat /\ Head(p) = p[1]
      /\ \A i \in 1..(Len(p) - 1) : Tail(p)[i] = p[i + 1]
  <2>1. p \in Seq(Statement) /\ Guarded(p) /\ Followed(p)
    BY ClientIs DEF Inv, Planned
  <2> QED
    BY <2>1, TailPlan
<1>4. Loading(c)'
  <2>1. SUFFICES ASSUME cl[c].op \in {"session", "export"},
                        ~ \A i \in DOMAIN cl[c].rows : cl[c].rows[i].tables = ChildTables
                 PROVE  \E i \in 1..Len(Tail(p)) : Tail(p)[i].kind = "load"
    BY <1>1 DEF Loading
  <2>2. PICK i \in 1..Len(p) : p[i].kind = "load"
    BY <1>1, <2>1 DEF Inv, Loading
  <2>3. i # 1
    BY <1>3, <2>1, <2>2
  <2>4. i - 1 \in 1..Len(Tail(p)) /\ Tail(p)[i - 1] = p[i]
    BY <1>3, <2>3
  <2> QED
    BY <2>2, <2>4
<1> QED
  BY <1>1, <1>2, <1>4, StepInv

\* Putting the metadata of a session.
LEMMA PutLogInv == ASSUME Inv, NEW c \in Clients, PutLog(c) PROVE Inv'
<1>1. cl[c].plan # <<>> /\ Head(cl[c].plan).kind = "putlog" /\ Advance(c)
  BY DEF PutLog, Runs
<1>2. Target(c) \in Sessions
  BY <1>1, ClientIs, StatementIs, TailPlan DEF Inv, Planned, Target
<1>3. lastId \in Nat
  BY StoreAssumption DEF Inv, Tables
<1>4. Tables' /\ NoOldIds
  BY <1>2, <1>3 DEF PutLog, Inv, Tables, NoOldIds, RowsWhole
<1> QED
  BY <1>1, <1>4, AdvanceInv DEF PutLog, Inv

\* Insert: the entry and its child rows together.
LEMMA InsertInv == ASSUME Inv, NEW c \in Clients, Insert(c) PROVE Inv'
<1>1. cl[c].plan # <<>> /\ Head(cl[c].plan).kind = "insert" /\ Advance(c)
  BY DEF Insert, Runs
<1>2. Target(c) \in Sessions
  BY <1>1, ClientIs, StatementIs, TailPlan DEF Inv, Planned, Target
<1>3. MaxId \in Nat /\ lastId \in Nat /\ lastId < MaxId /\ lastId' = lastId + 1
  BY StoreAssumption DEF Inv, Tables, Insert
<1> DEFINE new == [id |-> lastId + 1, session |-> Target(c)]
<1>4. new \in [id : 1..MaxId, session : Sessions]
  BY <1>2, <1>3
<1>5. entries' = entries \union {new} /\ new.id = lastId + 1
  BY DEF Insert
<1>6. \A e \in entries : e.id \in Nat /\ e.id <= lastId /\ e.id # lastId + 1
  BY <1>3 DEF Inv, Tables
<1> HIDE DEF new
<1>7. IsFiniteSet(entries')
  BY <1>5, FS_AddElement DEF Inv, Tables
<1>8. /\ \A e \in entries' : e.id <= lastId'
      /\ \A e, f \in entries' : e.id = f.id => e = f
  BY <1>3, <1>5, <1>6 DEF Inv, Tables
<1>9. RowsWhole'
  <2>1. {e.id : e \in entries'} = {e.id : e \in entries} \union {lastId + 1}
    BY <1>5
  <2>2. kids' = kids \union [id : {lastId + 1}, table : ChildTables]
    BY DEF Insert
  <2>3. kids = [id : {e.id : e \in entries}, table : ChildTables]
    BY DEF Inv, Tables, RowsWhole
  <2>4. \A A, B : [id : A \union B, table : ChildTables]
                  = [id : A, table : ChildTables] \union [id : B, table : ChildTables]
    OBVIOUS
  <2> QED
    BY <2>1, <2>2, <2>3, <2>4 DEF RowsWhole
<1>10. Tables'
  <2>1. entries' \subseteq [id : 1..MaxId, session : Sessions]
    BY <1>4, <1>5 DEF Inv, Tables
  <2>2. logs' = logs /\ lastId' \in 0..MaxId
    BY <1>3 DEF Insert
  <2> QED
    BY <1>7, <1>8, <1>9, <2>1, <2>2 DEF Inv, Tables
<1>11. NoOldIds
  <2>1. \A e \in entries' : e.id <= lastId => e \in entries
    BY <1>3, <1>5
  <2> QED
    BY <1>3, <2>1 DEF NoOldIds
<1> QED
  BY <1>1, <1>10, <1>11, AdvanceInv DEF Insert, Inv

\* DeleteSession: an entry and its child rows together.
LEMMA DeleteSessionInv == ASSUME Inv, NEW c \in Clients, DeleteSession(c) PROVE Inv'
<1>1. cl[c].plan # <<>> /\ Head(cl[c].plan).kind = "delete" /\ Advance(c)
  BY DEF DeleteSession, Runs
<1> DEFINE gone == Of(Target(c))
<1>2. /\ entries' = entries \ gone /\ gone \subseteq entries
      /\ kids' = {k \in kids : \A e \in gone : e.id # k.id}
      /\ logs' = logs \ {Target(c)} /\ lastId' = lastId /\ cursor' = cursor
  BY DEF DeleteSession, Of
<1>3. lastId \in Nat
  BY StoreAssumption DEF Inv, Tables
<1> HIDE DEF gone
<1>4. IsFiniteSet(entries')
  BY <1>2, FS_Subset DEF Inv, Tables
<1>5. RowsWhole'
  <2>1. kids = [id : {e.id : e \in entries}, table : ChildTables]
    BY DEF Inv, Tables, RowsWhole
  <2>2. \A e, f \in entries : e.id = f.id => e = f
    BY DEF Inv, Tables
  <2>3. \A x : (x \in {e.id : e \in entries} /\ \A e \in gone : e.id # x)
               <=> x \in {e.id : e \in entries \ gone}
    BY <1>2, <2>2
  <2>4. \A A, B : [id : B, table : ChildTables]
                  = {k \in [id : A, table : ChildTables] : \A e \in gone : e.id # k.id}
                 \/ ~ \A x : (x \in A /\ \A e \in gone : e.id # x) <=> x \in B
    OBVIOUS
  <2> QED
    BY <1>2, <2>1, <2>3, <2>4 DEF RowsWhole
<1>6. Tables' /\ NoOldIds
  BY <1>2, <1>3, <1>4, <1>5 DEF Inv, Tables, NoOldIds
<1> QED
  BY <1>1, <1>2, <1>6, AdvanceInv DEF Inv

\* An operation ends with an error or a refusal.
LEMMA EndsIs ==
  ASSUME Inv, NEW c \in Clients, NEW x \in {"error", "exists", "notfound"},
         cl' = [cl EXCEPT ![c].plan = <<>>, ![c].status = x]
  PROVE  /\ OnlyMoves(c) /\ Planned(c)' /\ Loading(c)'
         /\ cl'[c].rows = cl[c].rows /\ cl'[c].plan = <<>> /\ cl'[c].status = x
         /\ cl'[c].op = cl[c].op /\ cl'[c].on = cl[c].on
         /\ cl'[c].size = cl[c].size /\ cl'[c].from = cl[c].from
<1> DEFINE r == [cl[c] EXCEPT !.plan = <<>>, !.status = x]
<1>1. cl[c] \in ClientRecord /\ cl \in [Clients -> ClientRecord]
  BY ClientIs DEF Inv
<1>2. r \in ClientRecord
  <2>1. <<>> \in Seq(Statement) /\ x \in {"ok", "error", "exists", "notfound"}
    OBVIOUS
  <2> QED
    BY <1>1, <2>1 DEF ClientRecord
<1>3. /\ r.status = x /\ r.plan = <<>> /\ r.rows = cl[c].rows
      /\ r.op = cl[c].op /\ r.on = cl[c].on /\ r.size = cl[c].size
      /\ r.from = cl[c].from
  BY <1>1 DEF ClientRecord
<1>4. cl' = [cl EXCEPT ![c] = r]
  BY <1>1
<1> HIDE DEF r
<1>5. OnlyMoves(c) /\ cl'[c] = r
  BY <1>1, <1>2, <1>4, ClientStep
<1>6. Guarded(<<>>) /\ Followed(<<>>) /\ 1..Len(<<>>) = {}
  BY DEF Guarded, Followed
<1>7. Planned(c)'
  BY <1>3, <1>5, <1>6 DEF Planned
<1>8. Loading(c)'
  BY <1>3, <1>5 DEF Loading
<1> QED
  BY <1>3, <1>5, <1>7, <1>8

\* An operation ends early, with an error or because of what it found.
LEMMA EndsInv ==
  ASSUME Inv, NEW c \in Clients, NEW x \in {"error", "exists", "notfound"},
         cl' = [cl EXCEPT ![c].plan = <<>>, ![c].status = x],
         UNCHANGED db, cursor' \subseteq Clients
  PROVE  Inv'
<1>1. Tables' /\ NoOldIds
  BY SameTables
<1>2. OnlyMoves(c) /\ Planned(c)' /\ Loading(c)' /\ cl'[c].rows = cl[c].rows
  BY EndsIs
<1>3. Reading(c)'
  BY <1>1, <1>2, ReadingStays
<1> QED
  BY <1>1, <1>2, <1>3, StepInv

\* The count before a rename.
LEMMA CountNewInv == ASSUME Inv, NEW c \in Clients, CountNew(c) PROVE Inv'
<1>1. cl[c].plan # <<>> /\ Head(cl[c].plan).kind = "count" /\ UNCHANGED <<db, cursor>>
  BY DEF CountNew, Runs
<1>2. Tables' /\ NoOldIds /\ cursor' \subseteq Clients
  BY <1>1, SameTables DEF Inv
<1>3. CASE Advance(c)
  BY <1>1, <1>2, <1>3, AdvanceInv
<1>4. CASE cl' = [cl EXCEPT ![c].plan = <<>>, ![c].status = "exists"]
  BY <1>1, <1>2, <1>4, EndsInv
<1> QED
  BY <1>3, <1>4 DEF CountNew

\* HasSession.
LEMMA HasSessionInv == ASSUME Inv, NEW c \in Clients, HasSession(c) PROVE Inv'
<1>1. cl[c].plan # <<>> /\ Head(cl[c].plan).kind = "has" /\ UNCHANGED <<db, cursor>>
  BY DEF HasSession, Runs
<1>2. Tables' /\ NoOldIds /\ cursor' \subseteq Clients
  BY <1>1, SameTables DEF Inv
<1>3. CASE Advance(c)
  BY <1>1, <1>2, <1>3, AdvanceInv
<1>4. CASE cl' = [cl EXCEPT ![c].plan = <<>>, ![c].status = "notfound"]
  BY <1>1, <1>2, <1>4, EndsInv
<1> QED
  BY <1>3, <1>4 DEF HasSession

\* GetLog.
LEMMA GetLogInv == ASSUME Inv, NEW c \in Clients, GetLog(c) PROVE Inv'
<1>1. /\ cl[c].plan # <<>> /\ Head(cl[c].plan).kind = "getlog"
      /\ Advance(c) /\ UNCHANGED <<db, cursor>>
  BY DEF GetLog, Runs
<1>2. Tables' /\ NoOldIds /\ cursor' \subseteq Clients
  BY <1>1, SameTables DEF Inv
<1> QED
  BY <1>1, <1>2, AdvanceInv

\* rows.Close.
LEMMA CloseRowsInv == ASSUME Inv, NEW c \in Clients, CloseRows(c) PROVE Inv'
<1>1. /\ cl[c].plan # <<>> /\ Head(cl[c].plan).kind = "close"
      /\ Advance(c) /\ UNCHANGED db /\ cursor' = cursor \ {c}
  BY DEF CloseRows
<1>2. Tables' /\ NoOldIds /\ cursor' \subseteq Clients
  BY <1>1, SameTables DEF Inv
<1> QED
  BY <1>1, <1>2, AdvanceInv

\* List returns when every child row is loaded.
LEMMA LoadDoneInv == ASSUME Inv, NEW c \in Clients, LoadDone(c) PROVE Inv'
<1>1. /\ cl[c].plan # <<>> /\ Advance(c) /\ UNCHANGED <<db, cursor>>
      /\ \A i \in DOMAIN cl[c].rows : cl[c].rows[i].tables = ChildTables
  BY DEF LoadDone
<1>2. Tables' /\ NoOldIds /\ cursor' \subseteq Clients
  BY <1>1, SameTables DEF Inv
<1> QED
  BY <1>1, <1>2, AdvanceInv

\* A statement fails.
LEMMA FailInv == ASSUME Inv, NEW c \in Clients, Fail(c) PROVE Inv'
<1>1. cursor' \subseteq Clients /\ UNCHANGED db
  BY DEF Fail, Inv
<1> QED
  BY <1>1, EndsInv DEF Fail

\* The transaction of a rename: entries keep their ids and child rows.
LEMMA RenameTxInv == ASSUME Inv, NEW c \in Clients, RenameTx(c) PROVE Inv'
<1>1. cl[c].plan # <<>> /\ Head(cl[c].plan).kind = "rename" /\ Advance(c)
  BY DEF RenameTx, Runs
<1> DEFINE old == Target(c)
           new == Head(cl[c].plan).new
           Moved(e) == [e EXCEPT !.session = new]
<1>2. old \in Sessions /\ new \in Sessions
  BY <1>1, ClientIs, StatementIs, TailPlan DEF Inv, Planned, Target
<1>3. /\ entries' = (entries \ Of(old)) \union {Moved(e) : e \in Of(old)}
      /\ logs' = LogsRenamed(old, new)
      /\ kids' = kids /\ lastId' = lastId /\ cursor' = cursor
  BY DEF RenameTx, EntriesRenamed
<1>4. lastId \in Nat
  BY StoreAssumption DEF Inv, Tables
<1> HIDE DEF old, new
<1>5. \A e \in entries : /\ Moved(e) \in [id : 1..MaxId, session : Sessions]
                         /\ Moved(e).id = e.id
  BY <1>2 DEF Inv, Tables
<1>6. Of(old) \subseteq entries
  BY DEF Of
<1> HIDE DEF Moved
<1>7. \A f \in entries' : \E e \in entries : f.id = e.id /\ f \in {e, Moved(e)}
  BY <1>3, <1>5, <1>6
<1>8. \A e \in entries : \E f \in entries' : f.id = e.id
  BY <1>3, <1>5, <1>6
<1>9. \A f, g \in entries' : f.id = g.id => f = g
  <2>1. SUFFICES ASSUME NEW f \in entries', NEW g \in entries', f.id = g.id PROVE f = g
    OBVIOUS
  <2>2. \A e, h \in entries : e.id = h.id => e = h
    BY DEF Inv, Tables
  <2> QED
    BY <1>3, <1>5, <1>6, <2>1, <2>2
<1>10. entries' \subseteq [id : 1..MaxId, session : Sessions]
  BY <1>3, <1>5, <1>6 DEF Inv, Tables
<1>11. IsFiniteSet(entries')
  <2> DEFINE ident == [e \in entries' |-> e.id]
  <2>1. ident \in Injection(entries', 1..MaxId)
    BY <1>9, <1>10 DEF Injection, IsInjective
  <2>2. IsFiniteSet(1..MaxId)
    BY StoreAssumption, FS_Interval
  <2> QED
    BY <2>1, <2>2, FS_Injection
<1>12. \A f \in entries' : f.id <= lastId
  BY <1>7 DEF Inv, Tables
<1>13. RowsWhole'
  <2>1. {e.id : e \in entries'} = {e.id : e \in entries}
    BY <1>7, <1>8
  <2> QED
    BY <1>3, <2>1 DEF Inv, Tables, RowsWhole
<1>14. logs' \subseteq Sessions
  BY <1>2, <1>3 DEF LogsRenamed, Inv, Tables
<1>15. Tables'
  BY <1>3, <1>11, <1>9, <1>10, <1>12, <1>13, <1>14 DEF Inv, Tables
<1>16. NoOldIds
  BY <1>3, <1>4, <1>7 DEF NoOldIds
<1> QED
  BY <1>1, <1>3, <1>15, <1>16, AdvanceInv DEF Inv

\* The ids of a session, in order.
LEMMA IdsAre ==
  ASSUME Tables, NEW s
  PROVE  /\ IdSet(s) \in SUBSET Nat /\ IsFiniteSet(IdSet(s))
         /\ \A x \in IdSet(s) : x <= lastId
         /\ Ids(s) \in Seq(IdSet(s))
         /\ \A i, j \in DOMAIN Ids(s) : i < j => Ids(s)[i] < Ids(s)[j]
<1>1. lastId \in Nat /\ IdSet(s) \in SUBSET Nat /\ \A x \in IdSet(s) : x <= lastId
  BY StoreAssumption DEF Tables, IdSet, Of
<1>2. IsFiniteSet(IdSet(s))
  BY <1>1, FS_BoundedSetOfNaturals
<1>3. Ids(s) = Sorted(IdSet(s))
  BY IdsSorted
<1>4. /\ Ids(s) \in Seq(IdSet(s)) /\ Len(Ids(s)) = Cardinality(IdSet(s))
      /\ \A i, j \in 1..Cardinality(IdSet(s)) : i < j => Ids(s)[i] < Ids(s)[j]
  BY <1>1, <1>2, <1>3, SortedIs
<1>5. DOMAIN Ids(s) = 1..Cardinality(IdSet(s))
  BY <1>4, SeqIs
<1> QED
  BY <1>1, <1>2, <1>4, <1>5

\* The SELECT of List: rows in order, nothing of them loaded.
LEMMA SelectInv == ASSUME Inv, NEW c \in Clients, Select(c) PROVE Inv'
<1> DEFINE p == cl[c].plan
           q == Ids(Target(c))
           rs == [i \in DOMAIN q |-> [id |-> q[i], kids |-> {}, tables |-> {}]]
           r == [cl[c] EXCEPT !.plan = Tail(p), !.rows = rs]
<1>1. p # <<>> /\ Head(p).kind = "select" /\ UNCHANGED db /\ cursor' = cursor \union {c}
  BY DEF Select, Runs
<1>2. /\ cl[c] \in ClientRecord /\ p \in Seq(Statement)
      /\ cl \in [Clients -> ClientRecord] /\ Guarded(p) /\ Followed(p)
      /\ cl[c].status = "ok"
      /\ c \in Readers => \A i \in 1..Len(p) : p[i].kind \in ReadKinds
  BY <1>1, ClientIs DEF Inv, Planned
<1>3. /\ Len(p) \in Nat /\ Len(p) > 0 /\ Head(p) = p[1]
      /\ Tail(p) \in Seq(Statement) /\ Len(Tail(p)) = Len(p) - 1
      /\ \A i \in 1..(Len(p) - 1) : Tail(p)[i] = p[i + 1]
      /\ Guarded(Tail(p)) /\ Followed(Tail(p))
  BY <1>1, <1>2, TailPlan
<1>4. /\ q \in Seq(IdSet(Target(c))) /\ IdSet(Target(c)) \in SUBSET Nat
      /\ \A x \in IdSet(Target(c)) : x <= lastId
      /\ \A i, j \in DOMAIN q : i < j => q[i] < q[j]
  BY IdsAre DEF Inv
<1>5. DOMAIN q = 1..Len(q) /\ Len(q) \in Nat /\ \A i \in DOMAIN q : q[i] \in Nat /\ q[i] <= lastId
  BY <1>4, SeqIs
<1> HIDE DEF q
<1>6. /\ rs \in [1..Len(q) -> Row] /\ DOMAIN rs = DOMAIN q
      /\ \A i \in DOMAIN rs : rs[i].id = q[i] /\ rs[i].kids = rs[i].tables
  BY <1>5 DEF Row
<1>7. rs \in Seq(Row)
  BY <1>5, <1>6
<1> HIDE DEF rs
<1>8. r \in ClientRecord
  BY <1>2, <1>3, <1>7 DEF ClientRecord
<1>9. r.plan = Tail(p) /\ r.rows = rs /\ r.status = "ok" /\ r.op = cl[c].op
  BY <1>2 DEF ClientRecord
<1>10. cl' = [cl EXCEPT ![c] = r]
  BY <1>2 DEF Select, rs, q
<1> HIDE DEF r
<1>11. OnlyMoves(c) /\ cl'[c] = r
  BY <1>2, <1>8, <1>10, ClientStep
<1>12. Tables' /\ NoOldIds /\ cursor' \subseteq Clients /\ lastId' = lastId
  BY <1>1, SameTables DEF Inv, db
<1>13. Planned(c)'
  <2>1. \A i \in 1..Len(Tail(p)) : i + 1 \in 1..Len(p) /\ Tail(p)[i] = p[i + 1]
    BY <1>3
  <2>2. c \in Readers => \A i \in 1..Len(Tail(p)) : Tail(p)[i].kind \in ReadKinds
    BY <1>2, <2>1
  <2> QED
    BY <1>3, <1>9, <1>11, <2>2 DEF Planned
<1>14. Reading(c)'
  BY <1>4, <1>5, <1>6, <1>9, <1>11, <1>12 DEF Reading
<1>15. Loading(c)'
  <2>1. 1 \in 1..Len(p) /\ p[1].kind = "select"
    BY <1>1, <1>3
  <2>2. PICK j \in (1 + 1)..Len(p) : p[j].kind = "load"
    BY <1>2, <2>1 DEF Followed
  <2>3. j - 1 \in 1..Len(Tail(p)) /\ Tail(p)[j - 1] = p[j]
    BY <1>3
  <2> QED
    BY <1>9, <1>11, <2>2, <2>3 DEF Loading
<1> QED
  BY <1>11, <1>12, <1>13, <1>14, <1>15, StepInv

\* One query for the child rows of one entry.
LEMMA LoadChildrenInv ==
  ASSUME Inv, NEW c \in Clients, NEW t \in ChildTables, NEW n \in DOMAIN cl[c].rows,
         LoadChildren(c, n, t)
  PROVE  Inv'
<1> DEFINE rs == cl[c].rows
           x == rs[n]
           found == IF [id |-> x.id, table |-> t] \in kids THEN {t} ELSE {}
           y == [x EXCEPT !.tables = @ \union {t}, !.kids = @ \union found]
           rs2 == [rs EXCEPT ![n] = y]
           r == [cl[c] EXCEPT !.rows = rs2]
<1>1. /\ cl[c] \in ClientRecord /\ cl \in [Clients -> ClientRecord]
      /\ rs \in Seq(Row)
  BY ClientIs DEF Inv
<1>2. /\ DOMAIN rs = 1..Len(rs) /\ Len(rs) \in Nat /\ rs \in [1..Len(rs) -> Row]
      /\ \A i \in DOMAIN rs : /\ rs[i] \in Row /\ rs[i].id \in Nat
                              /\ rs[i].kids \in SUBSET ChildTables
                              /\ rs[i].tables \in SUBSET ChildTables
  BY <1>1, RowsAre
<1>3. cl' = [cl EXCEPT ![c] = r]
  <2> DEFINE y1 == [x EXCEPT !.tables = x.tables \union {t}]
             rs1 == [rs EXCEPT ![n] = y1]
             r1 == [cl[c] EXCEPT !.rows = rs1]
             cl1 == [cl EXCEPT ![c] = r1]
             y2 == [y1 EXCEPT !.kids = y1.kids \union found]
  <2>1. cl' = [cl1 EXCEPT ![c] = [cl1[c] EXCEPT !.rows = [cl1[c].rows EXCEPT
                 ![n] = [cl1[c].rows[n] EXCEPT !.kids =
                           cl1[c].rows[n].kids \union found]]]]
    BY DEF LoadChildren
  <2>2. cl1[c] = r1
    BY <1>1
  <2>3. r1.rows = rs1
    BY <1>1 DEF ClientRecord
  <2>4. rs1[n] = y1
    BY <1>2
  <2>5. y2 = y
    BY <1>2 DEF Row
  <2> HIDE DEF y1, y2, y, cl1, r1, rs1
  <2>6. cl' = [cl1 EXCEPT ![c] = [r1 EXCEPT !.rows = [rs1 EXCEPT ![n] = y]]]
    BY <2>1, <2>2, <2>3, <2>4, <2>5 DEF y2
  <2>7. [rs1 EXCEPT ![n] = y] = rs2
    BY <1>2 DEF rs1
  <2> HIDE DEF rs2
  <2>8. [r1 EXCEPT !.rows = rs2] = r
    BY <1>1 DEF r1, ClientRecord
  <2> HIDE DEF r
  <2>9. [cl1 EXCEPT ![c] = r] = [cl EXCEPT ![c] = r]
    BY <1>1 DEF cl1
  <2> QED
    BY <2>6, <2>7, <2>8, <2>9
<1>4. /\ y \in Row /\ y.id = x.id /\ y.tables = x.tables \union {t}
      /\ y.kids = x.kids \union found
  BY <1>2 DEF Row
<1>5. \A e \in entries : e.id = x.id => found = {t}
  BY DEF Inv, Tables, RowsWhole
<1> HIDE DEF y
<1>6. /\ rs2 \in [1..Len(rs) -> Row] /\ rs2[n] = y /\ DOMAIN rs2 = DOMAIN rs
      /\ \A i \in DOMAIN rs \ {n} : rs2[i] = rs[i]
  BY <1>2, <1>4
<1>7. rs2 \in Seq(Row)
  BY <1>2, <1>6
<1> HIDE DEF rs2
<1>8. r \in ClientRecord
  BY <1>1, <1>7 DEF ClientRecord
<1>9. r.plan = cl[c].plan /\ r.rows = rs2 /\ r.status = cl[c].status /\ r.op = cl[c].op
  BY <1>1 DEF ClientRecord
<1> HIDE DEF r
<1>10. OnlyMoves(c) /\ cl'[c] = r
  BY <1>1, <1>3, <1>8, ClientStep
<1>11. /\ Tables' /\ NoOldIds /\ cursor' \subseteq Clients
       /\ lastId' = lastId /\ entries' = entries
  BY SameTables DEF Inv, db, LoadChildren
<1>12. Planned(c)'
  BY <1>9, <1>10 DEF Inv, Planned
<1>13. Reading(c)'
  <2>1. /\ \A i, j \in DOMAIN rs : i < j => rs[i].id < rs[j].id
        /\ \A i \in DOMAIN rs : rs[i].id <= lastId
        /\ \A i \in DOMAIN rs : \A e \in entries :
             e.id = rs[i].id => rs[i].kids = rs[i].tables
    BY DEF Inv, Reading
  <2>2. \A i \in DOMAIN rs2 : rs2[i].id = rs[i].id
    BY <1>4, <1>6
  <2>3. \A i \in DOMAIN rs2 : \A e \in entries :
          e.id = rs2[i].id => rs2[i].kids = rs2[i].tables
    BY <1>4, <1>5, <1>6, <2>1
  <2> HIDE DEF rs
  <2>4. /\ \A i, j \in DOMAIN rs2 : i < j => rs2[i].id < rs2[j].id
        /\ \A i \in DOMAIN rs2 : rs2[i].id <= lastId
    BY <1>6, <2>1, <2>2
  <2> QED
    BY <1>9, <1>10, <1>11, <2>3, <2>4 DEF Reading
<1>14. Loading(c)'
  <2>1. \A i \in DOMAIN rs : rs[i].tables = ChildTables => rs2[i].tables = ChildTables
    BY <1>4, <1>6
  <2>2. Loading(c)
    BY DEF Inv
  <2> QED
    BY <1>6, <1>9, <1>10, <2>1, <2>2 DEF Loading
<1> QED
  BY <1>10, <1>11, <1>12, <1>13, <1>14, StepInv

\* A client starts an operation.
LEMMA StartInv ==
  ASSUME Inv, NEW c \in Clients, NEW o, Start(c, o), o.op \in Ops,
         o.plan \in Seq(Statement), o.plan # <<>>, Guarded(o.plan), Followed(o.plan),
         c \in Readers => \A i \in 1..Len(o.plan) : o.plan[i].kind \in ReadKinds,
         o.op \in {"session", "export"} =>
           \E i \in 1..Len(o.plan) : o.plan[i].kind = "load"
  PROVE  /\ Inv' /\ OnlyMoves(c)
         /\ cl'[c].op = o.op /\ cl'[c].plan = o.plan /\ cl'[c].size = Len(o.plan)
         /\ cl'[c].on = o.plan[Len(o.plan)].session
         /\ cl'[c].from = lastId /\ cl'[c].status = "ok"
<1> DEFINE p == o.plan
           r == [op |-> o.op, on |-> p[Len(p)].session, size |-> Len(p), plan |-> p,
                 status |-> "ok", from |-> lastId, rows |-> <<>>,
                 started |-> cl[c].started + 1]
<1>1. /\ cl[c] \in ClientRecord /\ cl \in [Clients -> ClientRecord]
      /\ cl[c].started \in Nat /\ lastId \in Nat
  BY ClientIs, StoreAssumption DEF Inv, ClientRecord, Tables
<1>2. Len(p) \in Nat /\ p[Len(p)] \in Statement
  OBVIOUS
<1>3. r \in ClientRecord
  <2>1. <<>> \in Seq(Row) /\ p[Len(p)].session \in Sessions
    BY <1>2, StatementIs
  <2> QED
    BY <1>1, <1>2, <2>1 DEF ClientRecord
<1>4. cl' = [cl EXCEPT ![c] = r]
  BY DEF Start
<1>5. OnlyMoves(c) /\ cl'[c] = r
  <2> HIDE DEF r
  <2> QED
    BY <1>1, <1>3, <1>4, ClientStep
<1>6. Tables' /\ NoOldIds /\ cursor' \subseteq Clients
  BY SameTables DEF Inv, Start
<1>7. Planned(c)'
  BY <1>5 DEF Planned
<1>8. Reading(c)'
  BY <1>5 DEF Reading
<1>9. Loading(c)'
  BY <1>5 DEF Loading
<1> QED
  BY <1>5, <1>6, <1>7, <1>8, <1>9, StepInv

\* The empty store.
LEMMA InvInit == Init => Inv
<1>1. SUFFICES ASSUME Init PROVE Inv
  OBVIOUS
<1>2. Idle \in ClientRecord
  <2>1. <<>> \in Seq(Row) /\ <<>> \in Seq(Statement) /\ 0 \in Nat
    OBVIOUS
  <2>2. "none" \in Ops /\ "none" \in Sessions \union {"none"}
    BY DEF Ops
  <2> QED
    BY <2>1, <2>2 DEF Idle, ClientRecord
<1>3. cl \in [Clients -> ClientRecord] /\ \A c \in Clients : cl[c] = Idle
  BY <1>1, <1>2 DEF Init
<1>4. Tables
  BY <1>1, StoreAssumption, FS_EmptySet DEF Init, Tables, RowsWhole
<1>5. \A c \in Clients : Planned(c) /\ Reading(c) /\ Loading(c)
  BY <1>3 DEF Idle, Planned, Guarded, Followed, Reading, Loading
<1> QED
  BY <1>1, <1>3, <1>4, <1>5 DEF Inv, Init

\* Every step keeps the invariant.
LEMMA InvNext == Inv /\ [Next]_vars => Inv'
<1> SUFFICES ASSUME Inv, [Next]_vars PROVE Inv'
  OBVIOUS
<1>1. \A c \in Clients : c \in Writers \/ c \in Readers
  BY DEF Clients
<1>2. ASSUME NEW c \in Writers, NEW o \in WriterOps, Start(c, o) PROVE Inv'
  <2>1. c \in Clients /\ c \notin Readers
    BY StoreAssumption DEF Clients
  <2>2. /\ o.op \in {"import", "save", "rename", "delete"}
        /\ o.plan \in Seq(Statement) /\ o.plan # <<>>
        /\ Guarded(o.plan) /\ Followed(o.plan)
    BY WriterPlans
  <2>3. o.op \in Ops /\ o.op \notin {"session", "export"}
    BY <2>2 DEF Ops
  <2> QED
    BY <1>2, <2>1, <2>2, <2>3, StartInv
<1>3. ASSUME NEW c \in Readers, NEW o \in ReaderOps, Start(c, o) PROVE Inv'
  <2>1. c \in Clients
    BY DEF Clients
  <2>2. /\ o.op \in {"session", "export"}
        /\ o.plan \in Seq(Statement) /\ o.plan # <<>>
        /\ Guarded(o.plan) /\ Followed(o.plan)
        /\ \A i \in 1..Len(o.plan) : o.plan[i].kind \in ReadKinds
        /\ \E i \in 1..Len(o.plan) : o.plan[i].kind = "load"
    BY ReaderPlans
  <2>3. o.op \in Ops
    BY <2>2 DEF Ops
  <2> QED
    BY <1>3, <2>1, <2>2, <2>3, StartInv
<1>4. ASSUME NEW c \in Clients, Stmts(c) PROVE Inv'
  BY <1>4, PutLogInv, InsertInv, DeleteSessionInv, CountNewInv, RenameTxInv,
     HasSessionInv, GetLogInv, SelectInv, CloseRowsInv, LoadDoneInv,
     LoadChildrenInv DEF Stmts
<1>5. ASSUME NEW c \in Clients, Fail(c) PROVE Inv'
  BY <1>5, FailInv
<1>6. CASE UNCHANGED vars
  BY <1>6 DEF vars, Inv, Tables, RowsWhole, Planned, Reading, Loading
<1>7. CASE Quiet
  BY <1>6, <1>7 DEF Quiet
<1> QED
  BY <1>2, <1>3, <1>4, <1>5, <1>6, <1>7 DEF Next

-----------------------------------------------------------------------------
(* Theorems.                                                               *)

\* The invariant holds in every reachable state.
LEMMA SpecInv == Spec => []Inv
  BY InvInit, InvNext, PTL DEF Spec

\* Whatever the clients do, ids stay unique and the tables keep their types.
THEOREM TypeCorrect == Spec => []TypeOK
<1>1. Inv => TypeOK
  <2>1. SUFFICES ASSUME Inv PROVE TypeOK
    OBVIOUS
  <2>2. 1..MaxId \subseteq EntryIds /\ lastId \in EntryIds
    BY <2>1 DEF EntryIds, Inv, Tables
  <2>3. entries \subseteq [id : EntryIds, session : Sessions]
    BY <2>1, <2>2 DEF Inv, Tables
  <2>4. kids \subseteq [id : EntryIds, table : ChildTables]
    BY <2>1, <2>3 DEF Inv, Tables, RowsWhole
  <2>5. \A c \in Clients : cl[c].status \in {"ok", "error", "exists", "notfound"}
    BY <2>1 DEF Inv, ClientRecord
  <2> QED
    BY <2>1, <2>2, <2>3, <2>4, <2>5 DEF TypeOK, Inv, Tables
<1> QED
  BY <1>1, SpecInv, PTL

\* Insert and DeleteSession: with any number of writers, and whatever fails,
\* an entry and its child rows come and go together.
THEOREM Whole == Spec => []RowsWhole
<1>1. Inv => RowsWhole
  BY DEF Inv, Tables
<1> QED
  BY <1>1, SpecInv, PTL

\* List: with any number of writers at work between its statements, a read is
\* in insertion order and has every child row of the entries still stored.
THEOREM Reads == Spec => []ReadsFaithful
<1>1. Inv => ReadsFaithful
  <2>1. SUFFICES ASSUME Inv, NEW c \in Readers, Returned(c, {"session", "export"})
                 PROVE  /\ \A i, j \in DOMAIN cl[c].rows :
                             i < j => cl[c].rows[i].id < cl[c].rows[j].id
                        /\ \A i \in DOMAIN cl[c].rows : \A e \in entries :
                             e.id = cl[c].rows[i].id => cl[c].rows[i].kids = ChildTables
    BY DEF ReadsFaithful
  <2>2. c \in Clients
    BY DEF Clients
  <2>3. \A i \in DOMAIN cl[c].rows : cl[c].rows[i].tables = ChildTables
    <3>1. 1..Len(<<>>) = {}
      OBVIOUS
    <3> QED
      BY <2>1, <2>2, <3>1 DEF Inv, Loading, Returned
  <2> QED
    BY <2>1, <2>2, <2>3 DEF Inv, Reading
<1> QED
  BY <1>1, SpecInv, PTL

-----------------------------------------------------------------------------
(* A single writer.                                                        *)

\* The durable store of one process: only the REPL writes.
OneWriter == \A c, d \in Writers : c = d

\* When the transaction of a rename runs, the new name is still free.
Free(c) ==
  cl[c].plan # <<>> /\ Head(cl[c].plan).kind = "rename" =>
    Of(Head(cl[c].plan).new) = {}

\* How far a save is, and what of it is stored.
Saved(c) ==
  cl[c].op = "save" =>
    LET done == cl[c].size - Len(cl[c].plan)
        set  == Of(cl[c].on)
    IN  /\ cl[c].on \in Sessions /\ cl[c].from <= lastId
        /\ IF cl[c].status = "ok"
           THEN /\ SavePlan(cl[c].plan, cl[c].on, cl[c].size)
                /\ done = 0 => lastId = cl[c].from
                /\ done > 0 => /\ \A e \in set : e.id > cl[c].from
                               /\ Cardinality(set) = IF done <= 2 THEN 0 ELSE done - 2
           ELSE \/ \A e \in set : e.id > cl[c].from
                \/ \A e \in set : e.id <= cl[c].from

Alone == Inv /\ \A c \in Writers : Free(c) /\ Saved(c)

\* What is left of a save, once its head has run.
LEMMA SaveTail ==
  ASSUME NEW p \in Seq(Statement), p # <<>>, NEW s \in Sessions, NEW n,
         SavePlan(p, s, n)
  PROVE  /\ SavePlan(Tail(p), s, n) /\ Len(Tail(p)) = Len(p) - 1
         /\ Len(p) \in Nat /\ n \in Nat /\ n >= 3 /\ Len(p) <= n /\ Len(p) > 0
         /\ Head(p).session = s
         /\ Head(p).kind \in {"delete", "putlog", "insert"}
         /\ Head(p).kind = "delete" <=> n - Len(p) = 0
         /\ Head(p).kind = "putlog" <=> n - Len(p) = 1
         /\ Head(p).kind = "insert" <=> n - Len(p) >= 2
<1>1. /\ Len(p) \in Nat /\ Len(p) > 0 /\ Head(p) = p[1] /\ Len(Tail(p)) = Len(p) - 1
      /\ \A i \in 1..(Len(p) - 1) : Tail(p)[i] = p[i + 1]
  OBVIOUS
<1>2. n \in Nat /\ n >= 3 /\ Len(p) <= n
  BY DEF SavePlan
<1> DEFINE m == Len(p)
           K(i) == IF i = 1 THEN "delete" ELSE IF i = 2 THEN "putlog" ELSE "insert"
<1>3. \A i \in 1..m : p[i] = Stmt(K(n - m + i), s)
  BY DEF SavePlan
<1>4. SavePlan(Tail(p), s, n)
  <2>1. \A i \in 1..(m - 1) : i + 1 \in 1..m /\ n - m + (i + 1) = n - (m - 1) + i
    BY <1>1, <1>2
  <2> HIDE DEF K
  <2>2. \A i \in 1..(m - 1) : Tail(p)[i] = Stmt(K(n - (m - 1) + i), s)
    BY <1>1, <1>3, <2>1
  <2>3. m - 1 <= n
    BY <1>1, <1>2
  <2> QED
    BY <1>1, <1>2, <2>2, <2>3 DEF SavePlan, K
<1>5. Head(p) = Stmt(K(n - m + 1), s)
  BY <1>1, <1>3
<1>6. Head(p).session = s /\ Head(p).kind = K(n - m + 1)
  BY <1>5 DEF Stmt
<1> HIDE DEF K
<1> DEFINE d == n - m
<1>7. d \in Nat
  BY <1>1, <1>2
<1> HIDE DEF d
<1>8. \A x \in Nat : /\ K(x + 1) \in {"delete", "putlog", "insert"}
                     /\ K(x + 1) = "delete" <=> x = 0
                     /\ K(x + 1) = "putlog" <=> x = 1
                     /\ K(x + 1) = "insert" <=> x >= 2
  BY DEF K
<1>9. Head(p).kind = K(d + 1)
  BY <1>6 DEF d
<1>10. /\ Head(p).kind \in {"delete", "putlog", "insert"}
       /\ Head(p).kind = "delete" <=> d = 0
       /\ Head(p).kind = "putlog" <=> d = 1
       /\ Head(p).kind = "insert" <=> d >= 2
  BY <1>7, <1>8, <1>9
<1> QED
  BY <1>1, <1>2, <1>4, <1>6, <1>10 DEF d

\* The head of a plan is a rename only after its count.
LEMMA FreeNext ==
  ASSUME Inv, NEW c \in Writers, cl[c].plan # <<>>, cl'[c].plan = Tail(cl[c].plan),
         Head(cl[c].plan).kind = "count" =>
           Of(Head(cl[c].plan).session) = {} /\ entries' = entries
  PROVE  Free(c)'
<1> DEFINE p == cl[c].plan
<1>1. c \in Clients
  BY DEF Clients
<1>2. cl'[c].plan = Tail(p)
  OBVIOUS
<1>3. p \in Seq(Statement) /\ Guarded(p) /\ Followed(p)
  BY <1>1, ClientIs DEF Inv, Planned
<1>4. /\ Len(p) \in Nat /\ Len(Tail(p)) = Len(p) - 1 /\ Head(p) = p[1]
      /\ Tail(p) \in Seq(Statement)
      /\ \A i \in 1..(Len(p) - 1) : Tail(p)[i] = p[i + 1]
  BY <1>3, TailPlan
<1>5. SUFFICES ASSUME Tail(p) # <<>>, Head(Tail(p)).kind = "rename"
               PROVE  {e \in entries' : e.session = Head(Tail(p)).new} = {}
  BY <1>2 DEF Free, Of
<1>6. Head(Tail(p)) = p[2] /\ 2 \in 1..Len(p)
  <2>1. Head(Tail(p)) = Tail(p)[1] /\ Len(Tail(p)) > 0
    BY <1>4, <1>5
  <2> QED
    BY <1>4, <2>1
<1>7. p[1] = Stmt("count", p[2].new)
  BY <1>3, <1>5, <1>6 DEF Guarded
<1>8. Head(p).kind = "count" /\ Head(p).session = p[2].new
  BY <1>4, <1>7 DEF Stmt
<1> QED
  BY <1>6, <1>8 DEF Of

\* Where a save is, by the statement it runs next.
LEMMA SaveHead ==
  ASSUME Inv, NEW c \in Writers, Saved(c), cl[c].op = "save", cl[c].plan # <<>>,
         NEW done, done = cl[c].size - Len(cl[c].plan)
  PROVE  /\ c \in Clients /\ cl[c].status = "ok" /\ cl[c].on \in Sessions
         /\ cl[c].from \in Nat /\ cl[c].from <= lastId /\ lastId \in Nat
         /\ done \in Nat /\ cl[c].size - Len(Tail(cl[c].plan)) = done + 1
         /\ SavePlan(Tail(cl[c].plan), cl[c].on, cl[c].size)
         /\ Target(c) = cl[c].on
         /\ Head(cl[c].plan).kind \in {"delete", "putlog", "insert"}
         /\ Head(cl[c].plan).kind = "delete" => done = 0
         /\ Head(cl[c].plan).kind = "putlog" => done = 1
         /\ Head(cl[c].plan).kind = "insert" => done >= 2
         /\ done = 0 => lastId = cl[c].from
         /\ done > 0 => /\ \A e \in Of(cl[c].on) : e.id > cl[c].from
                        /\ Cardinality(Of(cl[c].on)) = IF done <= 2 THEN 0 ELSE done - 2
<1> DEFINE p == cl[c].plan
           n == cl[c].size
           s == cl[c].on
<1>1. /\ c \in Clients
  BY DEF Clients
<1>2. p \in Seq(Statement) /\ cl[c].from \in Nat /\ lastId \in Nat
  BY <1>1, ClientIs, StoreAssumption DEF Inv, Tables
<1>3. cl[c].status = "ok"
  BY <1>1 DEF Inv, Planned
<1>4. /\ s \in Sessions /\ cl[c].from <= lastId /\ SavePlan(p, s, n)
      /\ done = 0 => lastId = cl[c].from
      /\ done > 0 => /\ \A e \in Of(s) : e.id > cl[c].from
                     /\ Cardinality(Of(s)) = IF done <= 2 THEN 0 ELSE done - 2
  BY <1>3 DEF Saved
<1>5. /\ SavePlan(Tail(p), s, n) /\ Len(Tail(p)) = Len(p) - 1
      /\ Len(p) \in Nat /\ n \in Nat /\ n >= 3 /\ Len(p) <= n /\ Len(p) > 0
      /\ Head(p).session = s
      /\ Head(p).kind \in {"delete", "putlog", "insert"}
      /\ Head(p).kind = "delete" <=> n - Len(p) = 0
      /\ Head(p).kind = "putlog" <=> n - Len(p) = 1
      /\ Head(p).kind = "insert" <=> n - Len(p) >= 2
  BY <1>2, <1>4, SaveTail
<1>6. done \in Nat /\ n - Len(Tail(p)) = done + 1
  <2>1. \A x, y \in Nat : y <= x => x - y \in Nat /\ x - (y - 1) = (x - y) + 1
    OBVIOUS
  <2> QED
    BY <1>5, <2>1
<1> QED
  BY <1>1, <1>2, <1>3, <1>4, <1>5, <1>6 DEF Target

\* A statement of a save succeeds.
LEMMA SavedNext ==
  ASSUME Inv, NEW c \in Writers, Saved(c), cl[c].op = "save", cl[c].plan # <<>>,
         Advance(c), lastId' \in Nat, cl[c].from <= lastId',
         NEW done, done = cl[c].size - Len(cl[c].plan),
         NEW set, set = {e \in entries' : e.session = cl[c].on},
         \A e \in set : e.id > cl[c].from,
         Cardinality(set) = IF done <= 1 THEN 0 ELSE done - 1
  PROVE  Saved(c)'
<1>1. /\ c \in Clients /\ done \in Nat /\ cl[c].on \in Sessions
      /\ cl[c].size - Len(Tail(cl[c].plan)) = done + 1
      /\ SavePlan(Tail(cl[c].plan), cl[c].on, cl[c].size)
  BY SaveHead
<1>2. /\ cl'[c].status = "ok" /\ cl'[c].plan = Tail(cl[c].plan)
      /\ cl'[c].op = cl[c].op /\ cl'[c].on = cl[c].on
      /\ cl'[c].size = cl[c].size /\ cl'[c].from = cl[c].from
  BY <1>1, AdvanceIs
<1>3. Of(cl[c].on)' = {e \in entries' : e.session = cl'[c].on}
  BY DEF Of
<1>4. cl'[c].size - Len(cl'[c].plan) = done + 1
  BY <1>1, <1>2
<1>5. done + 1 > 0 /\ done + 1 # 0
      /\ (IF done + 1 <= 2 THEN 0 ELSE done + 1 - 2) = IF done <= 1 THEN 0 ELSE done - 1
  BY <1>1
<1> QED
  BY <1>1, <1>2, <1>3, <1>4, <1>5 DEF Saved

\* The writer is not concerned.
LEMMA WriterStays ==
  ASSUME Alone, NEW c \in Writers, cl'[c] = cl[c], entries' = entries, lastId' = lastId
  PROVE  Free(c)' /\ Saved(c)'
  BY DEF Alone, Free, Saved, Of

\* A writer that has ended its operation has none to free.
LEMMA EndsFree ==
  ASSUME NEW c \in Writers, cl'[c].plan = <<>>
  PROVE  Free(c)'
  BY DEF Free

\* A reader changes nothing but its own state.
LEMMA ReaderStep ==
  ASSUME Inv, NEW d \in Readers, Stmts(d) \/ Fail(d)
  PROVE  /\ entries' = entries /\ lastId' = lastId
         /\ \A c \in Clients \ {d} : cl'[c] = cl[c]
<1>1. d \in Clients
  BY DEF Clients
<1>2. cl[d].plan # <<>> => Head(cl[d].plan).kind \in ReadKinds
  <2>1. SUFFICES ASSUME cl[d].plan # <<>> PROVE Head(cl[d].plan).kind \in ReadKinds
    OBVIOUS
  <2>2. cl[d].plan \in Seq(Statement) /\ Guarded(cl[d].plan) /\ Followed(cl[d].plan)
    BY <1>1, ClientIs DEF Inv, Planned
  <2>3. Head(cl[d].plan) = cl[d].plan[1] /\ 1 \in 1..Len(cl[d].plan)
    BY <2>1, <2>2, TailPlan
  <2> QED
    BY <1>1, <2>3 DEF Inv, Planned
<1>3. ~PutLog(d) /\ ~Insert(d) /\ ~DeleteSession(d) /\ ~CountNew(d) /\ ~RenameTx(d)
  BY <1>2 DEF PutLog, Insert, DeleteSession, CountNew, RenameTx, Runs, ReadKinds
<1>4. cl \in [Clients -> ClientRecord]
  BY DEF Inv
<1>5. CASE Fail(d)
  BY <1>4, <1>5 DEF Fail, db
<1>6. CASE HasSession(d)
  BY <1>4, <1>6 DEF HasSession, Advance, db
<1>7. CASE GetLog(d)
  BY <1>4, <1>7 DEF GetLog, Advance, db
<1>8. CASE Select(d)
  BY <1>4, <1>8 DEF Select, db
<1>9. CASE CloseRows(d)
  BY <1>4, <1>9 DEF CloseRows, Advance, db
<1>10. CASE LoadDone(d)
  BY <1>4, <1>10 DEF LoadDone, Advance, db
<1>11. ASSUME NEW t \in ChildTables, NEW i \in DOMAIN cl[d].rows, LoadChildren(d, i, t)
       PROVE  /\ entries' = entries /\ lastId' = lastId
              /\ \A c \in Clients \ {d} : cl'[c] = cl[c]
  BY <1>4, <1>11 DEF LoadChildren, db
<1> QED
  BY <1>3, <1>5, <1>6, <1>7, <1>8, <1>9, <1>10, <1>11 DEF Stmts

\* The writer's own steps: the metadata of a session.
LEMMA WriterPutLog ==
  ASSUME Inv, NEW c \in Writers, Saved(c), PutLog(c)
  PROVE  Free(c)' /\ Saved(c)'
<1>1. /\ cl[c].plan # <<>> /\ Head(cl[c].plan).kind = "putlog" /\ Advance(c)
      /\ entries' = entries /\ lastId' = lastId
  BY DEF PutLog, Runs
<1>2. c \in Clients
  BY DEF Clients
<1>3. Free(c)'
  BY <1>1, <1>2, AdvanceIs, FreeNext
<1>4. CASE cl[c].op = "save"
  <2> DEFINE done == cl[c].size - Len(cl[c].plan)
             set  == {e \in entries' : e.session = cl[c].on}
  <2>1. /\ cl[c].from <= lastId /\ lastId \in Nat /\ done = 1
        /\ \A e \in Of(cl[c].on) : e.id > cl[c].from
        /\ Cardinality(Of(cl[c].on)) = 0
    BY <1>1, <1>4, SaveHead
  <2>2. set = Of(cl[c].on)
    BY <1>1 DEF Of
  <2> HIDE DEF done, set
  <2>3. /\ \A e \in set : e.id > cl[c].from
        /\ Cardinality(set) = IF done <= 1 THEN 0 ELSE done - 1
    BY <2>1, <2>2
  <2> QED
    BY <1>1, <1>3, <1>4, <2>1, <2>3, SavedNext DEF done, set
<1>5. CASE cl[c].op # "save"
  BY <1>1, <1>2, <1>3, <1>5, AdvanceIs DEF Saved
<1> QED
  BY <1>4, <1>5

\* ... one more entry ...
LEMMA WriterInsert ==
  ASSUME Inv, NEW c \in Writers, Saved(c), Insert(c)
  PROVE  Free(c)' /\ Saved(c)'
<1>1. /\ cl[c].plan # <<>> /\ Head(cl[c].plan).kind = "insert" /\ Advance(c)
      /\ entries' = entries \union {[id |-> lastId + 1, session |-> Target(c)]}
      /\ lastId' = lastId + 1
  BY DEF Insert, Runs
<1>2. c \in Clients
  BY DEF Clients
<1>3. Free(c)'
  BY <1>1, <1>2, AdvanceIs, FreeNext
<1>4. CASE cl[c].op = "save"
  <2> DEFINE done == cl[c].size - Len(cl[c].plan)
             old  == Of(cl[c].on)
             new  == [id |-> lastId + 1, session |-> cl[c].on]
             set  == {e \in entries' : e.session = cl[c].on}
  <2>1. /\ cl[c].from <= lastId /\ lastId \in Nat /\ cl[c].from \in Nat
        /\ done \in Nat /\ done >= 2
        /\ Target(c) = cl[c].on
        /\ \A e \in old : e.id > cl[c].from
        /\ Cardinality(old) = IF done <= 2 THEN 0 ELSE done - 2
    BY <1>1, <1>4, SaveHead
  <2>2. set = old \union {new}
    BY <1>1, <2>1 DEF Of
  <2>3. new \notin old
    <3>1. \A e \in old : e.id \in Nat /\ e.id <= lastId
      BY DEF Inv, Tables, Of
    <3>2. new.id = lastId + 1 /\ ~(lastId + 1 <= lastId)
      BY <2>1
    <3> QED
      BY <3>1, <3>2
  <2>4. new.id > cl[c].from
    BY <2>1
  <2>5. IsFiniteSet(old)
    <3>1. old \in SUBSET entries
      BY DEF Of
    <3> QED
      BY <3>1, FS_Subset DEF Inv, Tables
  <2> HIDE DEF done, set, old, new
  <2>6. Cardinality(set) = Cardinality(old) + 1
    BY <2>2, <2>3, <2>5, FS_AddElement
  <2>7. Cardinality(set) = IF done <= 1 THEN 0 ELSE done - 1
    BY <2>1, <2>6
  <2>8. \A e \in set : e.id > cl[c].from
    BY <2>1, <2>2, <2>4
  <2>9. lastId' \in Nat /\ cl[c].from <= lastId'
    BY <1>1, <2>1
  <2> QED
    BY <1>1, <1>3, <1>4, <2>7, <2>8, <2>9, SavedNext DEF done, set
<1>5. CASE cl[c].op # "save"
  BY <1>1, <1>2, <1>3, <1>5, AdvanceIs DEF Saved
<1> QED
  BY <1>4, <1>5

\* ... a session is removed ...
LEMMA WriterDelete ==
  ASSUME Inv, NEW c \in Writers, Saved(c), DeleteSession(c)
  PROVE  Free(c)' /\ Saved(c)'
<1>1. /\ cl[c].plan # <<>> /\ Head(cl[c].plan).kind = "delete" /\ Advance(c)
      /\ entries' = entries \ Of(Target(c)) /\ lastId' = lastId
  BY DEF DeleteSession, Runs
<1>2. c \in Clients
  BY DEF Clients
<1>3. Free(c)'
  BY <1>1, <1>2, AdvanceIs, FreeNext
<1>4. CASE cl[c].op = "save"
  <2> DEFINE done == cl[c].size - Len(cl[c].plan)
             set  == {e \in entries' : e.session = cl[c].on}
  <2>1. /\ cl[c].from <= lastId /\ lastId \in Nat /\ done = 0 /\ Target(c) = cl[c].on
    BY <1>1, <1>4, SaveHead
  <2>2. set = {}
    BY <1>1, <2>1 DEF Of
  <2> HIDE DEF done, set
  <2>3. Cardinality(set) = IF done <= 1 THEN 0 ELSE done - 1
    BY <2>1, <2>2, FS_EmptySet
  <2> QED
    BY <1>1, <1>3, <1>4, <2>1, <2>2, <2>3, SavedNext DEF done, set
<1>5. CASE cl[c].op # "save"
  BY <1>1, <1>2, <1>3, <1>5, AdvanceIs DEF Saved
<1> QED
  BY <1>4, <1>5

\* ... statements that no save has ...
LEMMA WriterOther ==
  ASSUME Inv, NEW c \in Writers, Saved(c), cl[c].plan # <<>>,
         cl'[c].plan = Tail(cl[c].plan), cl'[c].op = cl[c].op,
         Head(cl[c].plan).kind \notin {"putlog", "insert", "delete"},
         Head(cl[c].plan).kind = "count" =>
           Of(Head(cl[c].plan).session) = {} /\ entries' = entries
  PROVE  Free(c)' /\ Saved(c)'
<1>1. cl[c].op # "save"
  BY SaveHead
<1>2. Saved(c)'
  BY <1>1 DEF Saved
<1> QED
  BY <1>2, FreeNext

\* ... and a statement that fails or refuses.
LEMMA WriterEnds ==
  ASSUME Inv, NEW c \in Writers, Saved(c), cl[c].plan # <<>>,
         NEW x \in {"error", "exists", "notfound"},
         cl' = [cl EXCEPT ![c].plan = <<>>, ![c].status = x],
         entries' = entries, lastId' = lastId
  PROVE  Free(c)' /\ Saved(c)'
<1>1. c \in Clients
  BY DEF Clients
<1>2. /\ cl'[c].plan = <<>> /\ cl'[c].status = x
      /\ cl'[c].op = cl[c].op /\ cl'[c].on = cl[c].on
      /\ cl'[c].size = cl[c].size /\ cl'[c].from = cl[c].from
  BY <1>1, EndsIs
<1>3. Free(c)'
  BY <1>2, EndsFree
<1>4. CASE cl[c].op = "save"
  <2> DEFINE done == cl[c].size - Len(cl[c].plan)
             set  == Of(cl[c].on)
  <2>1. /\ cl[c].on \in Sessions /\ cl[c].from <= lastId /\ lastId \in Nat
        /\ done \in Nat
        /\ done = 0 => lastId = cl[c].from
        /\ done > 0 => \A e \in set : e.id > cl[c].from
    BY <1>4, SaveHead
  <2>2. \A e \in set : e.id <= lastId
    BY DEF Inv, Tables, Of
  <2>3. (\A e \in set : e.id > cl[c].from) \/ (\A e \in set : e.id <= cl[c].from)
    <3>1. done = 0 \/ done > 0
      BY <2>1
    <3> QED
      BY <2>1, <2>2, <3>1
  <2>4. set = {e \in entries' : e.session = cl'[c].on}
    BY <1>2 DEF Of
  <2>5. x # "ok"
    OBVIOUS
  <2> HIDE DEF done, set
  <2> QED
    BY <1>2, <1>3, <2>1, <2>3, <2>4, <2>5 DEF Saved, Of
<1>5. CASE cl[c].op # "save"
  BY <1>2, <1>3, <1>5 DEF Saved
<1> QED
  BY <1>4, <1>5

\* The statements of a writer.
LEMMA WriterStep ==
  ASSUME Alone, NEW c \in Writers, Stmts(c) \/ Fail(c)
  PROVE  Free(c)' /\ Saved(c)'
<1>1. Inv /\ Saved(c) /\ Free(c) /\ c \in Clients
  BY DEF Alone, Clients
<1>2. cl \in [Clients -> ClientRecord] /\ cl[c] \in ClientRecord
  BY <1>1, ClientIs DEF Inv
<1>3. ASSUME cl[c].plan # <<>>, Advance(c),
             Head(cl[c].plan).kind \notin {"putlog", "insert", "delete", "count"}
      PROVE  Free(c)' /\ Saved(c)'
  BY <1>1, <1>3, AdvanceIs, WriterOther
<1>4. CASE Fail(c)
  BY <1>1, <1>4, WriterEnds DEF Fail, db
<1>5. CASE CountNew(c)
  <2>1. /\ cl[c].plan # <<>> /\ Head(cl[c].plan).kind = "count"
        /\ entries' = entries /\ lastId' = lastId
    BY <1>5 DEF CountNew, Runs, db
  <2>2. CASE Of(Target(c)) = {}
    BY <1>1, <1>5, <2>1, <2>2, AdvanceIs, WriterOther DEF CountNew, Target
  <2>3. CASE Of(Target(c)) # {}
    BY <1>1, <1>5, <2>1, <2>3, WriterEnds DEF CountNew
  <2> QED
    BY <2>2, <2>3
<1>6. CASE HasSession(c)
  <2>1. /\ cl[c].plan # <<>> /\ Head(cl[c].plan).kind = "has"
        /\ entries' = entries /\ lastId' = lastId
    BY <1>6 DEF HasSession, Runs, db
  <2>2. CASE Advance(c)
    BY <1>3, <2>1, <2>2
  <2>3. CASE cl' = [cl EXCEPT ![c].plan = <<>>, ![c].status = "notfound"]
    BY <1>1, <2>1, <2>3, WriterEnds
  <2> QED
    BY <1>6, <2>2, <2>3 DEF HasSession
<1>7. CASE Select(c)
  <2>1. /\ cl[c].plan # <<>> /\ Head(cl[c].plan).kind = "select"
    BY <1>7 DEF Select, Runs
  <2>2. cl'[c].plan = Tail(cl[c].plan) /\ cl'[c].op = cl[c].op
    BY <1>1, <1>2, <1>7 DEF Select, ClientRecord
  <2> QED
    BY <1>1, <2>1, <2>2, WriterOther
<1>8. ASSUME NEW t \in ChildTables, NEW i \in DOMAIN cl[c].rows, LoadChildren(c, i, t)
      PROVE  Free(c)' /\ Saved(c)'
  <2>1. /\ cl[c].plan # <<>> /\ Head(cl[c].plan).kind = "load"
        /\ entries' = entries
    BY <1>8 DEF LoadChildren, Runs, db
  <2>2. cl'[c].plan = cl[c].plan /\ cl'[c].op = cl[c].op
    BY <1>1, <1>2, <1>8 DEF LoadChildren, ClientRecord
  <2>3. cl[c].op # "save"
    BY <1>1, <2>1, SaveHead
  <2> QED
    BY <2>1, <2>2, <2>3 DEF Free, Saved
<1>9. CASE RenameTx(c)
  BY <1>3, <1>9 DEF RenameTx, Runs
<1>10. CASE GetLog(c) \/ CloseRows(c) \/ LoadDone(c)
  BY <1>3, <1>10 DEF GetLog, CloseRows, LoadDone, Runs
<1> QED
  BY <1>1, <1>4, <1>5, <1>6, <1>7, <1>8, <1>9, <1>10, WriterPutLog, WriterInsert,
     WriterDelete DEF Stmts

\* One writer: true at the start ...
LEMMA AloneInit == Init => Alone
<1>1. SUFFICES ASSUME Init PROVE Alone
  OBVIOUS
<1>2. \A c \in Writers : cl[c] = Idle
  BY <1>1 DEF Init, Clients
<1> QED
  BY <1>1, <1>2, InvInit DEF Alone, Free, Saved, Idle

\* ... and kept by every step.
LEMMA AloneNext == OneWriter /\ Alone /\ [Next]_vars => Alone'
<1> SUFFICES ASSUME OneWriter, Alone, [Next]_vars PROVE Alone'
  OBVIOUS
<1>1. Inv /\ Inv'
  BY InvNext DEF Alone
<1>2. SUFFICES \A c \in Writers : Free(c)' /\ Saved(c)'
  BY <1>1 DEF Alone
<1>3. ASSUME NEW c \in Writers, NEW o \in WriterOps, Start(c, o)
      PROVE  Free(c)' /\ Saved(c)'
  <2>1. c \in Clients /\ c \notin Readers
    BY StoreAssumption DEF Clients
  <2>2. /\ o.op \in {"import", "save", "rename", "delete"}
        /\ o.plan \in Seq(Statement) /\ o.plan # <<>>
        /\ Guarded(o.plan) /\ Followed(o.plan) /\ Head(o.plan).kind # "rename"
        /\ o.op = "save" =>
             SavePlan(o.plan, o.plan[Len(o.plan)].session, Len(o.plan))
    BY WriterPlans
  <2>3. o.op \in Ops /\ o.op \notin {"session", "export"}
    BY <2>2 DEF Ops
  <2>4. /\ cl'[c].op = o.op /\ cl'[c].plan = o.plan /\ cl'[c].size = Len(o.plan)
        /\ cl'[c].on = o.plan[Len(o.plan)].session
        /\ cl'[c].from = lastId /\ cl'[c].status = "ok"
    BY <1>1, <1>3, <2>1, <2>2, <2>3, StartInv
  <2>5. Free(c)'
    BY <2>2, <2>4 DEF Free
  <2>6. lastId' = lastId /\ lastId \in Nat
    BY <1>1, <1>3, StoreAssumption DEF Start, db, Inv, Tables
  <2>7. Len(o.plan) \in Nat /\ o.plan[Len(o.plan)].session \in Sessions
    <3>1. Len(o.plan) \in Nat /\ o.plan[Len(o.plan)] \in Statement
      BY <2>2
    <3> QED
      BY <3>1, StatementIs
  <2>8. Saved(c)'
    <3>1. \A n \in Nat : n - n = 0 /\ ~(n - n > 0)
      OBVIOUS
    <3>2. cl'[c].size - Len(cl'[c].plan) = 0
      BY <2>4, <2>7, <3>1
    <3> QED
      BY <2>2, <2>4, <2>6, <2>7, <3>2 DEF Saved
  <2> QED
    BY <2>5, <2>8
<1>4. ASSUME NEW d \in Readers, NEW o, Start(d, o), NEW c \in Writers
      PROVE  Free(c)' /\ Saved(c)'
  <2>1. c # d /\ c \in Clients
    BY StoreAssumption DEF Clients
  <2>2. cl'[c] = cl[c] /\ entries' = entries /\ lastId' = lastId
    BY <1>1, <1>4, <2>1 DEF Start, db, Inv
  <2> QED
    BY <2>2, WriterStays
<1>5. ASSUME NEW d \in Readers, Stmts(d) \/ Fail(d), NEW c \in Writers
      PROVE  Free(c)' /\ Saved(c)'
  <2>1. c # d /\ c \in Clients
    BY StoreAssumption DEF Clients
  <2> QED
    BY <1>1, <1>5, <2>1, ReaderStep, WriterStays
<1>6. ASSUME NEW c \in Writers, Stmts(c) \/ Fail(c)
      PROVE  Free(c)' /\ Saved(c)'
  BY <1>6, WriterStep
<1>7. CASE UNCHANGED vars
  BY <1>7, WriterStays DEF vars
<1>8. CASE Quiet
  BY <1>7, <1>8 DEF Quiet
<1> QED
  BY <1>3, <1>4, <1>5, <1>6, <1>7, <1>8 DEF Next, Clients, OneWriter

\* cmdSave: with one writer, the stored session is the old copy or a beginning
\* of the new one, whatever fails when, and the whole snapshot in the end.
THEOREM Overwrites == OneWriter => (Spec => []SaveOverwrites)
<1> SUFFICES ASSUME OneWriter PROVE Spec => []SaveOverwrites
  OBVIOUS
<1>1. Alone => SaveOverwrites
  <2>1. SUFFICES ASSUME Alone, NEW c \in Writers, cl[c].op = "save",
                        NEW fresh, fresh = {e \in Of(cl[c].on) : e.id > cl[c].from}
                 PROVE  /\ fresh \in {{}, Of(cl[c].on)}
                        /\ Returned(c, {"save"}) =>
                             fresh = Of(cl[c].on) /\ Cardinality(fresh) = cl[c].size - 2
    BY DEF SaveOverwrites
  <2>2. c \in Clients /\ Inv /\ Saved(c)
    BY <2>1 DEF Alone, Clients
  <2>3. cl[c].from \in Nat /\ lastId \in Nat /\ cl[c].size \in Nat /\ cl[c].plan \in Seq(Statement)
    BY <2>2, ClientIs, StoreAssumption DEF Inv, Tables
  <2>4. \A e \in Of(cl[c].on) : e.id \in Nat /\ e.id <= lastId
    BY <2>2 DEF Inv, Tables, Of
  <2>5. (\A e \in Of(cl[c].on) : e.id > cl[c].from) \/ (\A e \in Of(cl[c].on) : e.id <= cl[c].from)
    <3>1. CASE cl[c].status = "ok"
      <4>1. cl[c].size - Len(cl[c].plan) = 0 \/ cl[c].size - Len(cl[c].plan) > 0
        BY <2>1, <2>2, <2>3, <3>1 DEF Saved, SavePlan
      <4> QED
        BY <2>1, <2>2, <2>4, <3>1, <4>1 DEF Saved
    <3>2. CASE cl[c].status # "ok"
      BY <2>1, <2>2, <3>2 DEF Saved
    <3> QED
      BY <3>1, <3>2
  <2>6. fresh \in {{}, Of(cl[c].on)}
    BY <2>1, <2>3, <2>4, <2>5
  <2>7. ASSUME Returned(c, {"save"})
        PROVE  fresh = Of(cl[c].on) /\ Cardinality(fresh) = cl[c].size - 2
    <3>1. cl[c].status = "ok" /\ Len(cl[c].plan) = 0
      BY <2>7 DEF Returned
    <3>2. cl[c].size >= 3 /\ cl[c].size - Len(cl[c].plan) = cl[c].size
      BY <2>1, <2>2, <2>3, <3>1 DEF Saved, SavePlan
    <3>3. /\ \A e \in Of(cl[c].on) : e.id > cl[c].from
          /\ Cardinality(Of(cl[c].on)) = cl[c].size - 2
      BY <2>1, <2>2, <2>3, <3>1, <3>2 DEF Saved
    <3>4. fresh = Of(cl[c].on)
      BY <2>1, <3>3
    <3> QED
      BY <3>3, <3>4
  <2> QED
    BY <2>6, <2>7
<1>2. Alone /\ [Next]_vars => Alone'
  BY AloneNext
<1> QED
  BY <1>1, <1>2, AloneInit, PTL DEF Spec

-----------------------------------------------------------------------------
(* SessionStore.                                                           *)

\* The sessions, as SessionStore sees them.
Stored == [s \in Sessions |-> Ids(s)]

\* The ids of a set of entries under one name.
IdsUnder(E, s) == {e.id : e \in {f \in E : f.session = s}}

\* A session before and after a step.
LEMMA IdsThen ==
  ASSUME NEW s
  PROVE  /\ Ids(s) = Sorted(IdsUnder(entries, s))
         /\ Ids(s)' = Sorted(IdsUnder(entries', s))
  BY DEF Ids, Of, IdsUnder

\* The abstract store's next state, from the ids of each session.
LEMMA StoredThen ==
  ASSUME NEW f, DOMAIN f = Sessions, f = [s \in Sessions |-> f[s]],
         \A s \in Sessions : Sorted(IdsUnder(entries', s)) = f[s]
  PROVE  Stored' = f
<1>1. Stored' = [s \in Sessions |-> Ids(s)']
  BY DEF Stored
<1>2. \A s \in Sessions : Ids(s)' = f[s]
  BY IdsThen
<1> QED
  BY <1>1, <1>2

\* A step that changes no entry is a stutter.
LEMMA Stutters ==
  ASSUME entries' = entries, lastId' = lastId
  PROVE  UNCHANGED <<Stored, lastId>>
<1>1. \A s \in Sessions : Ids(s)' = Ids(s)
  BY DEF Ids, Of
<1> QED
  BY <1>1 DEF Stored

\* Insert adds an entry at the end of its session.
LEMMA InsertAdds ==
  ASSUME Inv, NEW c \in Clients, Insert(c)
  PROVE  \E t \in Sessions : /\ lastId' = lastId + 1
                             /\ Stored' = [Stored EXCEPT ![t] = Append(@, lastId')]
<1> DEFINE t == Target(c)
           x == lastId + 1
           f == [Stored EXCEPT ![t] = Append(@, x)]
<1>1. /\ cl[c].plan # <<>> /\ lastId' = x
      /\ entries' = entries \union {[id |-> x, session |-> t]}
  BY DEF Insert, Runs
<1>2. t \in Sessions
  BY <1>1, ClientIs, StatementIs, TailPlan DEF Inv, Planned, Target
<1>3. lastId \in Nat /\ x \in Nat
  BY StoreAssumption DEF Inv, Tables
<1> HIDE DEF t, x
<1>4. \A s \in Sessions : IdsUnder(entries', s) =
        IF s = t THEN IdsUnder(entries, s) \union {x} ELSE IdsUnder(entries, s)
  <2> DEFINE new == [id |-> x, session |-> t]
  <2>1. entries' = entries \union {new} /\ new.id = x /\ new.session = t
    BY <1>1
  <2> HIDE DEF new
  <2>2. TAKE s \in Sessions
  <2>3. {g \in entries' : g.session = s} =
          IF s = t THEN {g \in entries : g.session = s} \union {new}
                   ELSE {g \in entries : g.session = s}
    BY <2>1
  <2> QED
    BY <2>1, <2>3 DEF IdsUnder
<1>5. /\ IdsUnder(entries, t) \in SUBSET Nat /\ IsFiniteSet(IdsUnder(entries, t))
      /\ \A y \in IdsUnder(entries, t) : y < x
  <2>1. IdsUnder(entries, t) = IdSet(t)
    BY DEF IdsUnder, IdSet, Of
  <2>2. /\ IdSet(t) \in SUBSET Nat /\ IsFiniteSet(IdSet(t))
        /\ \A y \in IdSet(t) : y <= lastId
    BY IdsAre DEF Inv
  <2>3. \A y \in Nat : y <= lastId => y < x
    BY <1>3 DEF x
  <2> QED
    BY <2>1, <2>2, <2>3
<1>6. Sorted(IdsUnder(entries', t)) = Append(Ids(t), x)
  BY <1>2, <1>3, <1>4, <1>5, SortedAppend, IdsThen
<1>7. \A s \in Sessions : Sorted(IdsUnder(entries', s)) = f[s]
  BY <1>2, <1>4, <1>6, IdsThen DEF Stored
<1>8. Stored' = f
  BY <1>7, StoredThen DEF Stored
<1> QED
  BY <1>1, <1>2, <1>8 DEF x

\* DeleteSession removes a session.
LEMMA DeleteRemoves ==
  ASSUME Inv, NEW c \in Clients, DeleteSession(c)
  PROVE  \E t \in Sessions : /\ Stored' = [Stored EXCEPT ![t] = <<>>]
                             /\ lastId' = lastId
<1> DEFINE t == Target(c)
           f == [Stored EXCEPT ![t] = <<>>]
<1>1. /\ cl[c].plan # <<>> /\ lastId' = lastId
      /\ entries' = entries \ {e \in entries : e.session = t}
  BY DEF DeleteSession, Runs, Of
<1>2. t \in Sessions
  BY <1>1, ClientIs, StatementIs, TailPlan DEF Inv, Planned, Target
<1> HIDE DEF t
<1>3. \A s \in Sessions : IdsUnder(entries', s) =
        IF s = t THEN {} ELSE IdsUnder(entries, s)
  BY <1>1 DEF IdsUnder
<1>4. \A s \in Sessions : Sorted(IdsUnder(entries', s)) = f[s]
  BY <1>2, <1>3, SortedEmpty, IdsThen DEF Stored
<1>5. Stored' = f
  BY <1>4, StoredThen DEF Stored
<1> QED
  BY <1>1, <1>2, <1>5

\* The transaction of a rename moves a session, as the new name is free.
LEMMA RenameMoves ==
  ASSUME Inv, NEW c \in Clients, Free(c), RenameTx(c)
  PROVE  \E old, new \in Sessions :
           /\ Stored[new] = <<>>
           /\ Stored' = [Stored EXCEPT ![new] = Stored[old], ![old] = <<>>]
           /\ lastId' = lastId
<1> DEFINE p == cl[c].plan
           old == Target(c)
           new == Head(p).new
           f == [Stored EXCEPT ![new] = Stored[old], ![old] = <<>>]
           Moved(e) == [e EXCEPT !.session = new]
<1>1. /\ p # <<>> /\ Head(p).kind = "rename" /\ lastId' = lastId
      /\ entries' = (entries \ Of(old)) \union {Moved(e) : e \in Of(old)}
  BY DEF RenameTx, Runs, EntriesRenamed
<1>2. p \in Seq(Statement) /\ Guarded(p) /\ Followed(p)
  BY ClientIs DEF Inv, Planned
<1>3. Len(p) \in Nat /\ Len(p) > 0 /\ Head(p) = p[1] /\ Head(p) \in Statement
  BY <1>1, <1>2, TailPlan
<1>4. old \in Sessions /\ new \in Sessions
  BY <1>1, <1>3, StatementIs DEF Target
<1>5. old # new
  <2>1. 1 \in 1..Len(p)
    BY <1>3
  <2> QED
    BY <1>1, <1>2, <1>3, <2>1 DEF Guarded, Target
<1>6. Of(new) = {}
  BY <1>1 DEF Free
<1> HIDE DEF old, new
<1>7. \A e \in entries : Moved(e).id = e.id /\ Moved(e).session = new
  BY DEF Inv, Tables
<1> HIDE DEF Moved
<1>8. \A e : e \in Of(old) <=> e \in entries /\ e.session = old
  BY DEF Of
<1>9. \A e \in entries : e.session # new
  BY <1>6 DEF Of
<1>10. IdsUnder(entries', new) = IdsUnder(entries, old)
  <2>1. \A g : g \in entries' /\ g.session = new <=> g \in {Moved(e) : e \in Of(old)}
    BY <1>1, <1>7, <1>8, <1>9
  <2> QED
    BY <1>7, <1>8, <2>1 DEF IdsUnder
<1>11. IdsUnder(entries', old) = {}
  <2>1. \A g \in entries' : g.session # old
    BY <1>1, <1>5, <1>7, <1>8
  <2> QED
    BY <2>1 DEF IdsUnder
<1>12. \A s \in Sessions \ {old, new} : IdsUnder(entries', s) = IdsUnder(entries, s)
  <2>1. TAKE s \in Sessions \ {old, new}
  <2>2. \A g : (g \in entries' /\ g.session = s) <=> (g \in entries /\ g.session = s)
    BY <1>1, <1>7, <1>8
  <2> QED
    BY <2>2 DEF IdsUnder
<1>13. IdsUnder(entries, new) = {}
  BY <1>9 DEF IdsUnder
<1>14. Stored[new] = <<>>
  BY <1>4, <1>13, SortedEmpty, IdsThen DEF Stored
<1>15. \A s \in Sessions : Sorted(IdsUnder(entries', s)) = f[s]
  BY <1>4, <1>5, <1>10, <1>11, <1>12, SortedEmpty, IdsThen DEF Stored
<1>16. Stored' = f
  BY <1>15, StoredThen DEF Stored
<1> QED
  BY <1>1, <1>4, <1>14, <1>16

\* Every step is one of SessionStore's, or a stutter.
LEMMA StepImplements ==
  ASSUME Alone, [Next]_vars
  PROVE  [SS!Next]_<<Stored, lastId>>
<1> USE DEF Stored
<1>1. Inv
  BY DEF Alone
<1>2. ASSUME NEW c \in Writers, Insert(c) PROVE SS!Next
  <2>1. c \in Clients
    BY DEF Clients
  <2>2. PICK t \in Sessions : /\ lastId' = lastId + 1
                              /\ Stored' = [Stored EXCEPT ![t] = Append(@, lastId')]
    BY <1>1, <1>2, <2>1, InsertAdds
  <2>3. SS!Add(t)
    BY <2>2 DEF SS!Add
  <2> QED
    BY <2>3 DEF SS!Next
<1>3. ASSUME NEW c \in Writers, DeleteSession(c) PROVE SS!Next
  <2>1. c \in Clients
    BY DEF Clients
  <2>2. PICK t \in Sessions : /\ Stored' = [Stored EXCEPT ![t] = <<>>]
                              /\ lastId' = lastId
    BY <1>1, <1>3, <2>1, DeleteRemoves
  <2>3. SS!Remove(t)
    BY <2>2 DEF SS!Remove
  <2> QED
    BY <2>3 DEF SS!Next
<1>4. ASSUME NEW c \in Writers, RenameTx(c) PROVE SS!Next
  <2>1. c \in Clients /\ Free(c)
    BY DEF Clients, Alone
  <2>2. PICK old, new \in Sessions :
          /\ Stored[new] = <<>>
          /\ Stored' = [Stored EXCEPT ![new] = Stored[old], ![old] = <<>>]
          /\ lastId' = lastId
    BY <1>1, <1>4, <2>1, RenameMoves
  <2>3. SS!Move(old, new)
    BY <2>2 DEF SS!Move
  <2> QED
    BY <2>3 DEF SS!Next
<1>5. ASSUME NEW c \in Writers, Stmts(c) \/ Fail(c)
      PROVE  SS!Next \/ (entries' = entries /\ lastId' = lastId)
  BY <1>2, <1>3, <1>4, <1>5 DEF Stmts, Fail, PutLog, CountNew, HasSession, GetLog,
     Select, CloseRows, LoadDone, LoadChildren, db
<1>6. ASSUME NEW c \in Readers, Stmts(c) \/ Fail(c)
      PROVE  entries' = entries /\ lastId' = lastId
  BY <1>1, <1>6, ReaderStep
<1>7. ASSUME NEW c, NEW o, Start(c, o) PROVE entries' = entries /\ lastId' = lastId
  BY <1>7 DEF Start, db
<1>8. SS!Next \/ (entries' = entries /\ lastId' = lastId)
  BY <1>5, <1>6, <1>7 DEF Next, Clients, Quiet, vars
<1> QED
  BY <1>8, Stutters

\* With one writer the store is SessionStore: whatever fails half way, an
\* import, a save, a rename and a delete only append, remove or move sessions.
THEOREM Implements == OneWriter => (Spec => ImplementsSessionStore)
<1> SUFFICES ASSUME OneWriter PROVE Spec => SS!Spec
  BY DEF ImplementsSessionStore
<1>1. Init => SS!Init
  <2>1. SUFFICES ASSUME Init PROVE SS!Init
    OBVIOUS
  <2>2. \A s \in Sessions : Ids(s) = <<>>
    <3>1. TAKE s \in Sessions
    <3>2. IdsUnder(entries, s) = {}
      BY <2>1 DEF Init, IdsUnder
    <3> QED
      BY <3>2, SortedEmpty, IdsThen
  <2> QED
    BY <2>1, <2>2 DEF SS!Init, Init
<1>2. Alone /\ [Next]_vars => [SS!Next]_<<Stored, lastId>>
  BY StepImplements
<1>3. Alone /\ [Next]_vars => Alone'
  BY AloneNext
<1> QED
  BY <1>1, <1>2, <1>3, AloneInit, PTL DEF Spec, SS!Spec, Stored
=============================================================================
