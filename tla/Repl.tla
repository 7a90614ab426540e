-------------------------------- MODULE Repl --------------------------------
(***************************************************************************)
(* The REPL (internal/repl): its commands, the captures they start, stop   *)
(* and resume, the proxy's serve goroutine and live connections, which     *)
(* record into a capture's in-memory store (internal/session), and the     *)
(* durable store that outlives the process.                                *)
(*                                                                         *)
(* Commands run one at a time on the prompt's thread; the serve goroutine  *)
(* and the connections run beside them.  The process may be killed at any  *)
(* moment.  A refused command (wrong id, already running, nothing to save) *)
(* prints a message and changes nothing; show, sessions, export and cert   *)
(* only read.  Durable operations are those of Store, here with one        *)
(* client: an entry is the n-th one of capture cap, or an imported one.    *)
(***************************************************************************)
EXTENDS Integers, Sequences, FiniteSets

CONSTANTS
  Sessions,    \* session ids
  MaxRuns,     \* bound: captures ever started
  MaxEntries,  \* bound: entries recorded by one capture
  MaxConns,    \* bound: live connections of one capture
  MaxImport    \* bound: entries stored under one session by imports

ASSUME ReplAssumption ==
  /\ MaxRuns \in Nat /\ MaxEntries \in Nat /\ MaxConns \in Nat
  /\ MaxImport \in Nat

VARIABLES
  caps,     \* every capture ever started, in order
  cur,      \* REPL.current: index into caps, or 0
  pc,       \* the prompt's thread: prompt, stopping, saving, importing, exited
  job,      \* the save or import in progress, or why the thread stops
  durable   \* entries of the durable store, by session

vars == <<caps, cur, pc, job, durable>>

Imported == [cap |-> 0, n |-> 0]
NoJob    == [on |-> "none", left |-> <<>>, fresh |-> FALSE, exit |-> FALSE]

\* startCapture: an open in-memory store, and the serve goroutine running.
NewCapture(id) ==
  [id |-> id, mem |-> 0, open |-> TRUE, running |-> TRUE, serve |-> "up",
   serveErr |-> 0, conns |-> 0]

Current == caps[cur]
Running == cur # 0 /\ Current.running

\* The process ends: stores, listeners and connections go with it.
Dead == [k \in DOMAIN caps |->
           [caps[k] EXCEPT !.open = FALSE, !.running = FALSE, !.serve = "down",
                           !.serveErr = 0, !.conns = 0]]

Init ==
  /\ caps = <<>> /\ cur = 0 /\ pc = "prompt" /\ job = NoJob
  /\ durable = [s \in Sessions |-> <<>>]

-----------------------------------------------------------------------------
(* Captures.                                                               *)

\* Mutant: run does not look whether a capture is active.
MutMayRun == TRUE

\* cmdRun refuses while the current capture is running.
MayRun == ~Running

\* close: the in-memory store is released (the capture is already stopped).
Closed == IF cur = 0 THEN caps ELSE [caps EXCEPT ![cur].open = FALSE]

\* cmdRun: close a stopped capture, then start the new one, which may fail
\* (no such address): the old one is gone all the same.
Run(id, ok) ==
  /\ pc = "prompt" /\ MayRun /\ Len(caps) < MaxRuns
  /\ caps' = IF ok THEN Append(Closed, NewCapture(id)) ELSE Closed
  /\ cur' = IF ok THEN Len(caps) + 1 ELSE 0
  /\ UNCHANGED <<pc, job, durable>>

\* Mutant: stop forgets to close the listener before it waits.
MutStopped(k) == [caps EXCEPT ![k].running = FALSE]

\* stop, up to the wait for the serve goroutine: running is cleared and the
\* listener closed.
Stopped(k) ==
  [caps EXCEPT ![k].running = FALSE,
               ![k].serve = IF @ = "up" THEN "closing" ELSE @]

\* cmdStop of the running capture.
Stop ==
  /\ pc = "prompt" /\ Running
  /\ caps' = Stopped(cur)
  /\ pc' = "stopping"
  /\ UNCHANGED <<cur, job, durable>>

\* Mutant: stop also releases the in-memory store.
MutStopDone ==
  [caps EXCEPT ![cur].serveErr = @ - 1, ![cur].serve = "down",
               ![cur].open = FALSE]

StopDone == [caps EXCEPT ![cur].serveErr = @ - 1, ![cur].serve = "down"]

\* The receive from serveErr; on the way out the capture is then closed.
StopEnd ==
  /\ pc = "stopping" /\ Current.serveErr > 0
  /\ IF job.exit
     THEN caps' = Dead /\ cur' = 0 /\ pc' = "exited"
     ELSE caps' = StopDone /\ pc' = "prompt" /\ UNCHANGED cur
  /\ job' = NoJob
  /\ UNCHANGED durable

\* cmdResume of the stopped capture: serve again on the pinned address, which
\* may be taken; then it stays stopped.
Resume(ok) ==
  /\ pc = "prompt" /\ cur # 0 /\ ~Running
  /\ caps' = IF ok THEN [caps EXCEPT ![cur].running = TRUE, ![cur].serve = "up",
                                     ![cur].serveErr = 0]
             ELSE caps
  /\ UNCHANGED <<cur, pc, job, durable>>

\* quit or end of input: stop a running capture, close it, leave.
Quit ==
  /\ pc = "prompt"
  /\ IF Running
     THEN /\ caps' = Stopped(cur) /\ pc' = "stopping"
          /\ job' = [NoJob EXCEPT !.exit = TRUE] /\ UNCHANGED cur
     ELSE caps' = Dead /\ cur' = 0 /\ pc' = "exited" /\ UNCHANGED job
  /\ UNCHANGED durable

\* The process is killed, or started again after it ended.
Restart ==
  /\ caps' = Dead /\ cur' = 0 /\ pc' = "prompt" /\ job' = NoJob
  /\ UNCHANGED durable

-----------------------------------------------------------------------------
(* The proxy's goroutines.                                                 *)

\* Mutant: the accept loop goes on after it reported an error.
MutServeReturns(k) ==
  /\ caps[k].serve \in {"up", "closing"}
  /\ caps' = [caps EXCEPT ![k].serveErr = @ + 1]
  /\ UNCHANGED <<cur, pc, job, durable>>

\* The serve goroutine returns once its listener is closed, or because Accept
\* failed on its own; either way it sends into the buffered channel.
ServeReturns(k) ==
  /\ caps[k].serve \in {"up", "closing"}
  /\ caps' = [caps EXCEPT ![k].serve = "down", ![k].serveErr = @ + 1]
  /\ UNCHANGED <<cur, pc, job, durable>>

Accept(k) ==
  /\ caps[k].serve = "up" /\ caps[k].conns < MaxConns
  /\ caps' = [caps EXCEPT ![k].conns = @ + 1]
  /\ UNCHANGED <<cur, pc, job, durable>>

\* A connection completes a transaction: record inserts it into the store of
\* its own capture; the error of a closed store is ignored.
Record(k) ==
  /\ caps[k].conns > 0 /\ caps[k].mem < MaxEntries
  /\ caps' = [caps EXCEPT ![k].mem = IF caps[k].open THEN @ + 1 ELSE @]
  /\ UNCHANGED <<cur, pc, job, durable>>

ConnEnds(k) ==
  /\ caps[k].conns > 0
  /\ caps' = [caps EXCEPT ![k].conns = @ - 1]
  /\ UNCHANGED <<cur, pc, job, durable>>

-----------------------------------------------------------------------------
(* The durable store.                                                      *)

\* cmdSave: snapshot the live session, if it has entries.
Save ==
  /\ pc = "prompt" /\ cur # 0 /\ Current.mem > 0
  /\ pc' = "saving"
  /\ job' = [NoJob EXCEPT !.on = Current.id,
               !.left = [i \in 1..Current.mem |-> [cap |-> cur, n |-> i]]]
  /\ UNCHANGED <<caps, cur, durable>>

\* Mutant: the stored copy is kept.
MutSaveDelete ==
  /\ pc = "saving" /\ ~job.fresh
  /\ job' = [job EXCEPT !.fresh = TRUE]
  /\ UNCHANGED <<caps, cur, pc, durable>>

\* DeleteSession of the stored copy.
SaveDelete ==
  /\ pc = "saving" /\ ~job.fresh
  /\ durable' = [durable EXCEPT ![job.on] = <<>>]
  /\ job' = [job EXCEPT !.fresh = TRUE]
  /\ UNCHANGED <<caps, cur, pc>>

\* cmdImport: PutLog, then an insert per entry of the document.
Import(s, n) ==
  /\ pc = "prompt" /\ Len(durable[s]) + n <= MaxImport
  /\ pc' = "importing"
  /\ job' = [NoJob EXCEPT !.on = s, !.left = [i \in 1..n |-> Imported],
                          !.fresh = TRUE]
  /\ UNCHANGED <<caps, cur, durable>>

\* The next insert of a save or an import.
InsertNext ==
  /\ pc \in {"saving", "importing"} /\ job.fresh /\ job.left # <<>>
  /\ durable' = [durable EXCEPT ![job.on] = Append(@, Head(job.left))]
  /\ job' = [job EXCEPT !.left = Tail(@)]
  /\ UNCHANGED <<caps, cur, pc>>

\* The command ends: every entry is stored, or a statement failed.
JobEnds ==
  /\ pc \in {"saving", "importing"}
  /\ pc' = "prompt" /\ job' = NoJob
  /\ UNCHANGED <<caps, cur, durable>>

\* cmdRename: refused when the new name has entries.
Rename(old, new) ==
  /\ pc = "prompt" /\ old # new /\ durable[new] = <<>>
  /\ durable' = [durable EXCEPT ![new] = durable[old], ![old] = <<>>]
  /\ UNCHANGED <<caps, cur, pc, job>>

\* cmdDelete.
Delete(s) ==
  /\ pc = "prompt"
  /\ durable' = [durable EXCEPT ![s] = <<>>]
  /\ UNCHANGED <<caps, cur, pc, job>>

-----------------------------------------------------------------------------
Next ==
  \/ \E s \in Sessions, ok \in BOOLEAN : Run(s, ok)
  \/ Stop \/ StopEnd \/ Quit \/ Restart
  \/ \E ok \in BOOLEAN : Resume(ok)
  \/ \E k \in DOMAIN caps :
       ServeReturns(k) \/ Accept(k) \/ Record(k) \/ ConnEnds(k)
  \/ Save \/ SaveDelete \/ InsertNext \/ JobEnds
  \/ \E s \in Sessions, n \in 0..MaxImport : Import(s, n)
  \/ \E s, t \in Sessions : Rename(s, t)
  \/ \E s \in Sessions : Delete(s)

Spec == Init /\ [][Next]_vars

\* Accept fails as soon as the listener is closed, and the prompt's thread
\* receives what was sent.
FairSpec ==
  /\ Spec
  /\ WF_vars(StopEnd)
  /\ WF_vars(\E k \in DOMAIN caps : caps[k].serve = "closing" /\ ServeReturns(k))

-----------------------------------------------------------------------------
(* Properties.                                                             *)

Capture ==
  [id : Sessions, mem : 0..MaxEntries, open : BOOLEAN, running : BOOLEAN,
   serve : {"up", "closing", "down"}, serveErr : 0..1, conns : 0..MaxConns]

Entry == [cap : 0..MaxRuns, n : 0..MaxEntries]

\* Captures, the prompt and the stored sessions keep their types; serveErr,
\* a channel of capacity one, never holds two results.
TypeOK ==
  /\ caps \in Seq(Capture)
  /\ cur \in 0..Len(caps)
  /\ pc \in {"prompt", "stopping", "saving", "importing", "exited"}
  /\ \A s \in Sessions : durable[s] \in Seq(Entry)

\* At most one proxy accepts connections, and it is the capture the prompt
\* calls running.
OneListener == \A k \in DOMAIN caps : caps[k].serve = "up" => k = cur /\ Running

\* The in-memory session of the current capture stays queryable, running or
\* stopped, until it is replaced; no other in-memory store stays open.
OnlyCurrentOpen == \A k \in DOMAIN caps : caps[k].open <=> k = cur

\* The stored copy of a session is an unbroken beginning of one capture, in
\* the order it was recorded, then imported entries: re-running save, failing
\* half way, renaming or being killed never duplicates or mixes entries.
DurableFaithful ==
  \A s \in Sessions :
    LET q == durable[s]
    IN  \E m \in 0..Len(q), k \in 0..Len(caps) :
          /\ \A i \in 1..m : q[i] = [cap |-> k, n |-> i]
          /\ m > 0 => k > 0 /\ m <= caps[k].mem
          /\ \A i \in (m + 1)..Len(q) : q[i] = Imported

\* Stopping always comes back to the user, even when the serve goroutine had
\* died before.
StopReturns == pc = "stopping" ~> pc \in {"prompt", "exited"}
=============================================================================
