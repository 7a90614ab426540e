------------------------------- MODULE Store --------------------------------
(***************************************************************************)
(* The durable store (internal/store) under concurrent clients: the REPL's *)
(* writing commands and the readers of package reader, on one SQL          *)
(* database.                                                               *)
(*                                                                         *)
(* An operation is the sequence of its statements, its plan; a statement   *)
(* or a transaction is one atomic step (SQLite serialises writers), and    *)
(* between two of them any other client may run.  Statements share the     *)
(* connection pool; only the entry cursor of List outlives its statement.  *)
(* A statement may fail (a locked file, a cancelled context, a killed      *)
(* process): a transaction is rolled back and the operation ends there.    *)
(*                                                                         *)
(* An entry is told apart by its id alone; each of the five child tables   *)
(* holds rows of every entry.                                              *)
(***************************************************************************)
EXTENDS Order, Sequences

CONSTANTS
  Writers, Readers,  \* the clients
  Sessions,          \* session ids
  ChildTables,       \* the tables whose rows belong to an entry
  PoolSize,          \* connections: 1 for SQLite (SetMaxOpenConns)
  MaxImport,         \* bound: entries of one import or save
  MaxId,             \* bound: entries ever inserted
  MaxWrites, MaxReads  \* bounds: operations a writer and a reader start

Clients == Writers \union Readers

ASSUME StoreAssumption ==
  /\ IsFiniteSet(Clients) /\ Writers \intersect Readers = {}
  /\ PoolSize \in Nat \ {0}
  /\ MaxImport \in Nat /\ MaxId \in Nat
  /\ MaxWrites \in Nat /\ MaxReads \in Nat

VARIABLES
  entries,  \* rows of the entries table: [id, session]
  kids,     \* rows of the child tables: [id, table]
  logs,     \* sessions with a row in the logs table
  lastId,   \* AUTOINCREMENT / BIGSERIAL: ids are never reused
  cl,       \* the clients: operation, remaining plan, what it has read
  cursor    \* clients whose entry cursor holds a connection

vars == <<entries, kids, logs, lastId, cl, cursor>>
db   == <<entries, kids, logs, lastId>>

-----------------------------------------------------------------------------
(* The operations as plans.                                                *)

Of(s) == {e \in entries : e.session = s}

\* Mutant: ORDER BY id DESC, the default order.
MutIds(s) ==
  LET ids == Sorted({e.id : e \in Of(s)})
  IN  [i \in DOMAIN ids |-> ids[Len(ids) + 1 - i]]

\* The ids of session s in insertion order (ORDER BY id ASC).
Ids(s) == Sorted({e.id : e \in Of(s)})

Stmt(k, s)   == [kind |-> k, session |-> s]
Inserts(s, n) == [i \in 1..n |-> Stmt("insert", s)]

\* Store.Import: the log metadata, then the entries one by one.
Import(s, n) == <<Stmt("putlog", s)>> \o Inserts(s, n)

\* Mutant: save does not remove the stored copy first.
MutSave(s, n) == <<Stmt("putlog", s)>> \o Inserts(s, n)

\* cmdSave: replace the stored copy by the snapshot of n entries.
Save(s, n) == <<Stmt("delete", s), Stmt("putlog", s)>> \o Inserts(s, n)

\* Mutant: the rename does not look for entries under the new name.
MutRename(old, new) == <<[kind |-> "rename", session |-> old, new |-> new]>>

\* RenameSession: the check is outside the transaction.
Rename(old, new) ==
  <<Stmt("count", new), [kind |-> "rename", session |-> old, new |-> new]>>

Delete(s) == <<Stmt("delete", s)>>

\* Mutant: child rows are loaded while the entry cursor is open.
MutList(s) == <<Stmt("select", s), Stmt("load", s), Stmt("close", s)>>

\* List: read the entry rows, close the cursor, then load the child rows.
List(s) == <<Stmt("select", s), Stmt("close", s), Stmt("load", s)>>

\* Reader.Session: three separate reads.
Session(s) == <<Stmt("has", s), Stmt("getlog", s)>> \o List(s)

\* Store.Export: the entries, then the log metadata.
Export(s) == List(s) \o <<Stmt("getlog", s)>>

WriterOps ==
  [op : {"import"}, plan : {Import(s, n) : s \in Sessions, n \in 0..MaxImport}]
    \union [op : {"save"},
            plan : {Save(s, n) : s \in Sessions, n \in 1..MaxImport}]
    \union [op : {"rename"},
            plan : {Rename(p[1], p[2]) : p \in
                      {p \in Sessions \X Sessions : p[1] # p[2]}}]
    \union [op : {"delete"}, plan : {Delete(s) : s \in Sessions}]
ReaderOps ==
  [op : {"session"}, plan : {Session(s) : s \in Sessions}]
    \union [op : {"export"}, plan : {Export(s) : s \in Sessions}]

\* A client between operations: what it last did, and what it read.  from is
\* the last id before the operation, on the session it is about.
Idle == [op |-> "none", on |-> "none", size |-> 0, plan |-> <<>>,
         status |-> "ok", from |-> 0, rows |-> <<>>, started |-> 0]

Init ==
  /\ entries = {} /\ kids = {} /\ logs = {} /\ lastId = 0
  /\ cl = [c \in Clients |-> Idle]
  /\ cursor = {}

-----------------------------------------------------------------------------
MaxOps(c) == IF c \in Writers THEN MaxWrites ELSE MaxReads

\* A client starts an operation; a read starts with no rows.
Start(c, o) ==
  /\ cl[c].plan = <<>>
  /\ cl[c].started < MaxOps(c)
  /\ cl' = [cl EXCEPT ![c] = [op |-> o.op, on |-> o.plan[Len(o.plan)].session,
                              size |-> Len(o.plan), plan |-> o.plan,
                              status |-> "ok", from |-> lastId, rows |-> <<>>,
                              started |-> @.started + 1]]
  /\ UNCHANGED <<db, cursor>>

\* Client c runs a statement of kind k on a free connection.
Runs(c, k) ==
  /\ cl[c].plan # <<>> /\ Head(cl[c].plan).kind = k
  /\ Cardinality(cursor) < PoolSize

\* The statement succeeded: go on with the plan.
Advance(c) == cl' = [cl EXCEPT ![c].plan = Tail(@)]

Target(c) == Head(cl[c].plan).session

PutLog(c) ==
  /\ Runs(c, "putlog")
  /\ logs' = logs \union {Target(c)}
  /\ Advance(c)
  /\ UNCHANGED <<entries, kids, lastId, cursor>>

\* Mutant: the child rows are written outside the transaction, and lost.
MutInsert(c) ==
  /\ Runs(c, "insert") /\ lastId < MaxId
  /\ lastId' = lastId + 1
  /\ entries' = entries \union {[id |-> lastId + 1, session |-> Target(c)]}
  /\ Advance(c)
  /\ UNCHANGED <<kids, logs, cursor>>

\* Insert: the entry and its child rows in one transaction.
Insert(c) ==
  /\ Runs(c, "insert") /\ lastId < MaxId
  /\ lastId' = lastId + 1
  /\ entries' = entries \union {[id |-> lastId + 1, session |-> Target(c)]}
  /\ kids' = kids \union [id : {lastId + 1}, table : ChildTables]
  /\ Advance(c)
  /\ UNCHANGED <<logs, cursor>>

\* DeleteSession: child rows, entries and log in one transaction.
DeleteSession(c) ==
  /\ Runs(c, "delete")
  /\ LET gone == Of(Target(c))
     IN  /\ kids' = {k \in kids : \A e \in gone : e.id # k.id}
         /\ entries' = entries \ gone
  /\ logs' = logs \ {Target(c)}
  /\ Advance(c)
  /\ UNCHANGED <<lastId, cursor>>

\* The Count of RenameSession: refuse if the new name has entries.
CountNew(c) ==
  /\ Runs(c, "count")
  /\ IF Of(Target(c)) = {}
     THEN Advance(c)
     ELSE cl' = [cl EXCEPT ![c].plan = <<>>, ![c].status = "exists"]
  /\ UNCHANGED <<db, cursor>>

\* Drop an orphan log of the new name, then move the log of the old one.
LogsRenamed(old, new) ==
  IF old \in logs THEN (logs \ {old}) \union {new} ELSE logs \ {new}

\* Mutant: the rows are copied, not moved.
MutEntriesRenamed(old, new) ==
  entries \union {[e EXCEPT !.session = new] : e \in Of(old)}

EntriesRenamed(old, new) ==
  (entries \ Of(old)) \union {[e EXCEPT !.session = new] : e \in Of(old)}

\* The transaction of RenameSession.
RenameTx(c) ==
  /\ Runs(c, "rename")
  /\ LET old == Target(c)
         new == Head(cl[c].plan).new
     IN  /\ entries' = EntriesRenamed(old, new)
         /\ logs' = LogsRenamed(old, new)
  /\ Advance(c)
  /\ UNCHANGED <<kids, lastId, cursor>>

\* HasSession: Reader.Session returns ErrNotFound without entries.
HasSession(c) ==
  /\ Runs(c, "has")
  /\ IF Of(Target(c)) # {}
     THEN Advance(c)
     ELSE cl' = [cl EXCEPT ![c].plan = <<>>, ![c].status = "notfound"]
  /\ UNCHANGED <<db, cursor>>

GetLog(c) ==
  /\ Runs(c, "getlog")
  /\ Advance(c)
  /\ UNCHANGED <<db, cursor>>

\* The SELECT of List and the scan of its rows; the cursor stays open.
Select(c) ==
  /\ Runs(c, "select")
  /\ cl' = [cl EXCEPT ![c].plan = Tail(@),
                      ![c].rows = [i \in DOMAIN Ids(Target(c)) |->
                         [id |-> Ids(Target(c))[i], kids |-> {}, tables |-> {}]]]
  /\ cursor' = cursor \union {c}
  /\ UNCHANGED db

\* rows.Close() gives the connection back.
CloseRows(c) ==
  /\ cl[c].plan # <<>> /\ Head(cl[c].plan).kind = "close"
  /\ cursor' = cursor \ {c}
  /\ Advance(c)
  /\ UNCHANGED db

\* loadChildren: one query per entry and child table, in order; the tables of
\* one entry are all read before those of the next.
LoadChildren(c, i, t) ==
  /\ Runs(c, "load")
  /\ i \in DOMAIN cl[c].rows /\ t \notin cl[c].rows[i].tables
  /\ \A j \in 1..(i - 1) : cl[c].rows[j].tables = ChildTables
  /\ cl' = [cl EXCEPT
       ![c].rows[i].tables = @ \union {t},
       ![c].rows[i].kids =
          @ \union (IF [id |-> cl[c].rows[i].id, table |-> t] \in kids
                    THEN {t} ELSE {})]
  /\ UNCHANGED <<db, cursor>>

\* Every child row is loaded: List returns.
LoadDone(c) ==
  /\ cl[c].plan # <<>> /\ Head(cl[c].plan).kind = "load"
  /\ \A i \in DOMAIN cl[c].rows : cl[c].rows[i].tables = ChildTables
  /\ Advance(c)
  /\ UNCHANGED <<db, cursor>>

\* The current statement fails (a transaction rolls back): the operation
\* returns its error and its cursor is closed.
Fail(c) ==
  /\ cl[c].plan # <<>>
  /\ cl' = [cl EXCEPT ![c].plan = <<>>, ![c].status = "error"]
  /\ cursor' = cursor \ {c}
  /\ UNCHANGED db

Stmts(c) ==
  \/ PutLog(c) \/ Insert(c) \/ DeleteSession(c) \/ CountNew(c) \/ RenameTx(c)
  \/ HasSession(c) \/ GetLog(c) \/ Select(c) \/ CloseRows(c) \/ LoadDone(c)
  \/ \E t \in ChildTables, i \in DOMAIN cl[c].rows : LoadChildren(c, i, t)

\* All operations of the bounded run are over.
Quiet ==
  /\ \A c \in Clients : cl[c].plan = <<>> /\ cl[c].started = MaxOps(c)
  /\ UNCHANGED vars

Next ==
  \/ \E c \in Writers, o \in WriterOps : Start(c, o)
  \/ \E c \in Readers, o \in ReaderOps : Start(c, o)
  \/ \E c \in Clients : Stmts(c) \/ Fail(c)
  \/ Quiet

Spec == Init /\ [][Next]_vars

\* Clients keep running: a statement that has a connection ends (database/sql
\* serves waiting callers in order), and an insert over the id bound fails.
FairSpec == Spec /\ \A c \in Clients : WF_vars(Stmts(c) \/ (lastId = MaxId /\ Fail(c)))

-----------------------------------------------------------------------------
(* Properties.                                                             *)

EntryIds == 0..MaxId

\* The tables and the clients keep their types, and ids stay unique.
TypeOK ==
  /\ entries \subseteq [id : EntryIds, session : Sessions]
  /\ kids \subseteq [id : EntryIds, table : ChildTables]
  /\ logs \subseteq Sessions /\ lastId \in EntryIds
  /\ \A e, f \in entries : e.id = f.id => e = f
  /\ cursor \subseteq Clients
  /\ \A c \in Clients : cl[c].status \in {"ok", "error", "exists", "notfound"}

\* Whatever operation fails or is interrupted, every stored entry has all its
\* child rows, and no child row outlives its entry.
RowsWhole ==
  kids = [id : {e.id : e \in entries}, table : ChildTables]

\* What a finished operation of client c returned.
Returned(c, ops) == cl[c].op \in ops /\ cl[c].plan = <<>> /\ cl[c].status = "ok"

\* A finished read has its entries in insertion order, and an entry that is
\* still stored was read with all its child rows.
ReadsFaithful ==
  \A c \in Readers : Returned(c, {"session", "export"}) =>
    LET r == cl[c].rows
    IN  /\ \A i, j \in DOMAIN r : i < j => r[i].id < r[j].id
        /\ \A i \in DOMAIN r : \A e \in entries :
             e.id = r[i].id => r[i].kids = ChildTables

\* With one writer, a save never mixes the old stored copy with the new one,
\* even when it fails half way, and a save that succeeds stored its snapshot.
SaveOverwrites ==
  \A c \in Writers : cl[c].op = "save" =>
    LET fresh == {e \in Of(cl[c].on) : e.id > cl[c].from}
    IN  /\ fresh \in {{}, Of(cl[c].on)}
        /\ Returned(c, {"save"}) =>
             fresh = Of(cl[c].on) /\ Cardinality(fresh) = cl[c].size - 2

SS == INSTANCE SessionStore WITH
  stored <- [s \in Sessions |-> Ids(s)],
  last   <- lastId

\* With one writer, every import, save, rename and delete, whole or failed half
\* way, is a sequence of appends, whole removals and moves to a free name: no
\* operation reorders, duplicates, merges or loses part of a session.
ImplementsSessionStore == SS!Spec

\* Every operation ends: nobody waits for ever for the single connection.
OperationsEnd == \A c \in Clients : cl[c].plan # <<>> ~> cl[c].plan = <<>>

-----------------------------------------------------------------------------
(* What the repository says and the code does not do.                      *)

\* sessions.go:64-65: a rename that moves entries never adds them to a session
\* that has some already, so it merges no two sessions and clobbers none.
RenameNeverMerges ==
  [][\A c \in Writers : RenameTx(c) /\ Of(Head(cl[c].plan).session) # {} =>
       Of(Head(cl[c].plan).new) = {}]_vars

\* store.go:124-125: "a reader never sees a partially materialized entry".
NoPartialEntry ==
  \A c \in Readers : Returned(c, {"session", "export"}) =>
    \A i \in DOMAIN cl[c].rows : cl[c].rows[i].kids = ChildTables
=============================================================================
