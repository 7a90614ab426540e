----------------------------- MODULE ReplProofs -----------------------------
(***************************************************************************)
(* Theorems about Repl for any sessions and any bounds: at most one proxy  *)
(* listens, only the current capture's store is open, the channel of the   *)
(* serve goroutine never overflows, and the durable store holds unbroken   *)
(* beginnings of captures, whatever is stopped, killed or failed when.     *)
(***************************************************************************)
EXTENDS Repl, SequenceTheorems, TLAPS

\* The job of the prompt's thread.
JobRecord ==
  [on : Sessions \union {"none"}, left : Seq(Entry), fresh : BOOLEAN, exit : BOOLEAN]

\* The bound on captures, and the types of the durable store and of the job.
Typed ==
  /\ TypeOK
  /\ Len(caps) <= MaxRuns
  /\ durable \in [Sessions -> Seq(Entry)]
  /\ job \in JobRecord
  /\ pc \in {"saving", "importing"} => job.on \in Sessions

\* A serve goroutine that has not returned has sent nothing yet.
NotSent ==
  \A k \in DOMAIN caps : caps[k].serve \in {"up", "closing"} => caps[k].serveErr = 0

\* What a save has stored so far, and what it has left, are one capture.
Stored == IF job.fresh THEN Len(durable[job.on]) ELSE 0

Saving ==
  pc = "saving" =>
    /\ cur # 0
    /\ \A i \in 1..Len(job.left) : job.left[i] = [cap |-> cur, n |-> Stored + i]
    /\ Stored + Len(job.left) <= caps[cur].mem
    /\ job.fresh => \A i \in 1..Len(durable[job.on]) :
                      durable[job.on][i] = [cap |-> cur, n |-> i]

\* An import only appends entries of its document.
Importing ==
  pc = "importing" =>
    job.fresh /\ \A i \in 1..Len(job.left) : job.left[i] = Imported

\* The thread waits only for a capture that is there.
Waiting == pc = "stopping" => cur # 0

\* q is a beginning of one of the captures C, then imported entries.
Copy(q, C) ==
  \E m \in 0..Len(q), k \in 0..Len(C) :
    /\ \A i \in 1..m : q[i] = [cap |-> k, n |-> i]
    /\ m > 0 => k > 0 /\ m <= C[k].mem
    /\ \A i \in (m + 1)..Len(q) : q[i] = Imported

Inv ==
  /\ Typed /\ NotSent /\ Saving /\ Importing /\ Waiting
  /\ OneListener /\ OnlyCurrentOpen
  /\ \A s \in Sessions : Copy(durable[s], caps)

-----------------------------------------------------------------------------
(* Sequences.                                                              *)

\* A function on 1..n is a sequence of length n.
LEMMA SeqOf ==
  ASSUME NEW S, NEW n \in Nat, NEW q \in [1..n -> S]
  PROVE  q \in Seq(S) /\ Len(q) = n /\ DOMAIN q = 1..n
  OBVIOUS

\* A sequence is a function on the numbers up to its length.
LEMMA SeqIs ==
  ASSUME NEW S, NEW q \in Seq(S)
  PROVE  q \in [1..Len(q) -> S] /\ Len(q) \in Nat /\ DOMAIN q = 1..Len(q)
  OBVIOUS

\* A copy stays one while captures are added and record more.
LEMMA CopyGrows ==
  ASSUME NEW q, NEW C, NEW D, Copy(q, C), Len(C) \in Nat, Len(D) \in Nat,
         Len(C) <= Len(D), \A k \in 1..Len(C) : C[k].mem \in Nat /\ D[k].mem \in Nat /\ C[k].mem <= D[k].mem
  PROVE  Copy(q, D)
<1>1. PICK m \in 0..Len(q), k \in 0..Len(C) :
        /\ \A i \in 1..m : q[i] = [cap |-> k, n |-> i]
        /\ m > 0 => k > 0 /\ m <= C[k].mem
        /\ \A i \in (m + 1)..Len(q) : q[i] = Imported
  BY DEF Copy
<1>2. k \in 0..Len(D)
  OBVIOUS
<1>3. m > 0 => k > 0 /\ m <= D[k].mem
  BY <1>1
<1> QED
  BY <1>1, <1>2, <1>3 DEF Copy

\* Nothing stored is a copy.
LEMMA CopyEmpty == ASSUME NEW C, Len(C) \in Nat PROVE Copy(<<>>, C)
  BY DEF Copy

\* An imported entry may follow any copy ...
LEMMA CopyImport ==
  ASSUME NEW C, NEW S, NEW q \in Seq(S), Imported \in S, Copy(q, C)
  PROVE  Copy(Append(q, Imported), C)
<1>1. PICK m \in 0..Len(q), k \in 0..Len(C) :
        /\ \A i \in 1..m : q[i] = [cap |-> k, n |-> i]
        /\ m > 0 => k > 0 /\ m <= C[k].mem
        /\ \A i \in (m + 1)..Len(q) : q[i] = Imported
  BY DEF Copy
<1>2. /\ Len(Append(q, Imported)) = Len(q) + 1
      /\ \A i \in 1..Len(q) : Append(q, Imported)[i] = q[i]
      /\ Append(q, Imported)[Len(q) + 1] = Imported
  OBVIOUS
<1>3. m \in 0..Len(Append(q, Imported))
  BY <1>2
<1>4. \A i \in 1..m : Append(q, Imported)[i] = [cap |-> k, n |-> i]
  BY <1>1, <1>2
<1>5. \A i \in (m + 1)..Len(Append(q, Imported)) : Append(q, Imported)[i] = Imported
  BY <1>1, <1>2
<1> QED
  BY <1>1, <1>3, <1>4, <1>5 DEF Copy

\* ... and a capture's own next entry its own beginning.
LEMMA CopyNext ==
  ASSUME NEW C, NEW S, NEW q \in Seq(S), NEW k \in 1..Len(C), Len(C) \in Nat,
         C[k].mem \in Nat,
         Len(q) + 1 <= C[k].mem,
         \A i \in 1..Len(q) : q[i] = [cap |-> k, n |-> i],
         [cap |-> k, n |-> Len(q) + 1] \in S
  PROVE  LET r == Append(q, [cap |-> k, n |-> Len(q) + 1])
         IN  Copy(r, C) /\ \A i \in 1..Len(r) : r[i] = [cap |-> k, n |-> i]
<1> DEFINE e == [cap |-> k, n |-> Len(q) + 1]
           r == Append(q, e)
<1>1. /\ Len(r) = Len(q) + 1 /\ r[Len(q) + 1] = e
      /\ \A i \in 1..Len(q) : r[i] = q[i]
  OBVIOUS
<1>2. \A i \in 1..Len(r) : r[i] = [cap |-> k, n |-> i]
  BY <1>1
<1>3. Copy(r, C)
  <2>1. Len(r) \in 0..Len(r) /\ k \in 0..Len(C) /\ k > 0 /\ Len(r) <= C[k].mem
    BY <1>1
  <2>2. \A i \in (Len(r) + 1)..Len(r) : r[i] = Imported
    BY <1>1
  <2> HIDE DEF r
  <2> QED
    BY <1>2, <2>1, <2>2 DEF Copy
<1> QED
  BY <1>2, <1>3

-----------------------------------------------------------------------------
(* How the captures change.                                                *)

\* The captures as a function on their numbers, which Inv knows.
LEMMA CapsAre ==
  ASSUME Inv
  PROVE  /\ caps \in [1..Len(caps) -> Capture] /\ Len(caps) \in Nat
         /\ DOMAIN caps = 1..Len(caps)
         /\ cur \in 0..Len(caps)
         /\ cur # 0 => cur \in DOMAIN caps
         /\ \A k \in 1..Len(caps) : caps[k].mem \in Nat
<1>1. caps \in Seq(Capture) /\ cur \in 0..Len(caps)
  BY DEF Inv, Typed, TypeOK
<1>2. /\ caps \in [1..Len(caps) -> Capture] /\ Len(caps) \in Nat
      /\ DOMAIN caps = 1..Len(caps)
  BY <1>1, SeqIs
<1>3. \A k \in 1..Len(caps) : caps[k].mem \in Nat
  <2> SUFFICES ASSUME NEW k \in 1..Len(caps) PROVE caps[k].mem \in Nat
    OBVIOUS
  <2>1. caps[k] \in Capture
    BY <1>2
  <2> QED
    BY <2>1, ReplAssumption DEF Capture
<1> QED
  BY <1>1, <1>2, <1>3

\* One capture becomes e, which has recorded no less.
LEMMA OneCapture ==
  ASSUME Inv, NEW k \in DOMAIN caps, NEW e \in Capture, e.mem >= caps[k].mem,
         caps' = [caps EXCEPT ![k] = e]
  PROVE  /\ caps' \in Seq(Capture) /\ Len(caps') = Len(caps)
         /\ DOMAIN caps' = DOMAIN caps /\ caps'[k] = e
         /\ \A j \in DOMAIN caps \ {k} : caps'[j] = caps[j]
         /\ \A j \in DOMAIN caps : caps'[j].mem >= caps[j].mem
         /\ \A s \in Sessions : Copy(durable[s], caps')
<1>1. /\ caps \in [1..Len(caps) -> Capture] /\ Len(caps) \in Nat
      /\ DOMAIN caps = 1..Len(caps)
      /\ \A j \in 1..Len(caps) : caps[j].mem \in Nat
  BY CapsAre
<1>2. /\ caps' \in [1..Len(caps) -> Capture] /\ caps'[k] = e
      /\ \A j \in DOMAIN caps \ {k} : caps'[j] = caps[j]
  BY <1>1
<1>3. caps' \in Seq(Capture) /\ Len(caps') = Len(caps) /\ DOMAIN caps' = DOMAIN caps
  BY <1>1, <1>2, SeqOf
<1>4. e.mem \in Nat
  BY ReplAssumption DEF Capture
<1>5. \A j \in 1..Len(caps) :
        caps[j].mem \in Nat /\ caps'[j].mem \in Nat /\ caps[j].mem <= caps'[j].mem
  BY <1>1, <1>2, <1>4
<1>6. \A s \in Sessions : Copy(durable[s], caps')
  <2> SUFFICES ASSUME NEW s \in Sessions PROVE Copy(durable[s], caps')
    OBVIOUS
  <2>1. Copy(durable[s], caps)
    BY DEF Inv
  <2>2. Len(caps) \in Nat /\ Len(caps') \in Nat /\ Len(caps) <= Len(caps')
    BY <1>1, <1>3
  <2> QED
    BY <2>1, <2>2, <1>5, CopyGrows
<1> QED
  BY <1>1, <1>2, <1>3, <1>5, <1>6

\* The process ends: every capture is closed and keeps what it recorded.
LEMMA AllDead ==
  ASSUME Inv, caps' = Dead
  PROVE  /\ caps' \in Seq(Capture) /\ Len(caps') = Len(caps)
         /\ DOMAIN caps' = DOMAIN caps
         /\ \A k \in DOMAIN caps :
              ~caps'[k].open /\ caps'[k].serve = "down" /\ caps'[k].serveErr = 0
         /\ \A s \in Sessions : Copy(durable[s], caps')
<1>1. /\ caps \in [1..Len(caps) -> Capture] /\ Len(caps) \in Nat
      /\ DOMAIN caps = 1..Len(caps)
      /\ \A j \in 1..Len(caps) : caps[j].mem \in Nat
  BY CapsAre
<1>2. \A k \in 1..Len(caps) :
        /\ caps'[k] \in Capture /\ caps'[k].mem = caps[k].mem
        /\ ~caps'[k].open /\ caps'[k].serve = "down" /\ caps'[k].serveErr = 0
  <2> SUFFICES ASSUME NEW k \in 1..Len(caps)
               PROVE  /\ caps'[k] \in Capture /\ caps'[k].mem = caps[k].mem
                      /\ ~caps'[k].open /\ caps'[k].serve = "down"
                      /\ caps'[k].serveErr = 0
    OBVIOUS
  <2>1. caps[k] \in Capture
    BY <1>1
  <2>2. caps'[k] = [caps[k] EXCEPT !.open = FALSE, !.running = FALSE, !.serve = "down",
                                   !.serveErr = 0, !.conns = 0]
    BY <1>1 DEF Dead
  <2>3. 0 \in 0..1 /\ 0 \in 0..MaxConns
    BY ReplAssumption
  <2> QED
    BY <2>1, <2>2, <2>3 DEF Capture
<1>3. caps' \in [1..Len(caps) -> Capture]
  BY <1>1, <1>2 DEF Dead
<1>4. caps' \in Seq(Capture) /\ Len(caps') = Len(caps) /\ DOMAIN caps' = DOMAIN caps
  BY <1>1, <1>3, SeqOf
<1>5. \A s \in Sessions : Copy(durable[s], caps')
  <2> SUFFICES ASSUME NEW s \in Sessions PROVE Copy(durable[s], caps')
    OBVIOUS
  <2>1. Copy(durable[s], caps)
    BY DEF Inv
  <2>2. Len(caps) \in Nat /\ Len(caps') \in Nat /\ Len(caps) <= Len(caps')
    BY <1>1, <1>4
  <2>3. \A j \in 1..Len(caps) :
          caps[j].mem \in Nat /\ caps'[j].mem \in Nat /\ caps[j].mem <= caps'[j].mem
    BY <1>1, <1>2
  <2> QED
    BY <2>1, <2>2, <2>3, CopyGrows
<1> QED
  BY <1>1, <1>2, <1>4, <1>5

\* What a step of one capture keeps, when the prompt stays with its capture: a
\* listener only for the running current capture, stores as they were, and no
\* result of a goroutine that goes on.
LEMMA CaptureStep ==
  ASSUME Inv, NEW k \in DOMAIN caps, NEW e \in Capture, e.mem >= caps[k].mem,
         e.open = caps[k].open,
         e.serve \in {"up", "closing"} => e.serveErr = 0,
         e.serve = "up" => k = cur /\ e.running,
         caps' = [caps EXCEPT ![k] = e], UNCHANGED <<cur, durable>>
  PROVE  /\ caps' \in Seq(Capture) /\ Len(caps') = Len(caps)
         /\ DOMAIN caps' = DOMAIN caps
         /\ \A j \in DOMAIN caps : caps'[j].mem >= caps[j].mem
         /\ NotSent' /\ OneListener' /\ OnlyCurrentOpen'
         /\ \A s \in Sessions : Copy(durable'[s], caps')
<1>1. /\ caps' \in Seq(Capture) /\ Len(caps') = Len(caps)
      /\ DOMAIN caps' = DOMAIN caps /\ caps'[k] = e
      /\ \A j \in DOMAIN caps \ {k} : caps'[j] = caps[j]
      /\ \A j \in DOMAIN caps : caps'[j].mem >= caps[j].mem
      /\ \A s \in Sessions : Copy(durable[s], caps')
  BY OneCapture
<1>2. 0 \notin DOMAIN caps
  BY CapsAre
<1>3. NotSent'
  BY <1>1 DEF NotSent, Inv
<1>4. OnlyCurrentOpen'
  BY <1>1 DEF OnlyCurrentOpen, Inv
<1>5. OneListener'
  BY <1>1, <1>2 DEF OneListener, Running, Current, Inv
<1> QED
  BY <1>1, <1>3, <1>4, <1>5

\* The other parts follow when the prompt's job does not change.
LEMMA JobStays ==
  ASSUME Inv, caps' \in Seq(Capture), Len(caps') = Len(caps),
         \A j \in DOMAIN caps : caps'[j].mem >= caps[j].mem,
         UNCHANGED <<cur, pc, job, durable>>
  PROVE  Typed' /\ Saving' /\ Importing' /\ Waiting'
<1>1. Typed' /\ Importing' /\ Waiting'
  BY DEF Inv, Typed, TypeOK, Importing, Waiting
<1>2. Stored' = Stored
  BY DEF Stored
<1>3. Saving'
  <2> SUFFICES ASSUME pc = "saving" PROVE Saving'
    BY DEF Saving
  <2>1. cur \in DOMAIN caps
    BY CapsAre DEF Inv, Saving
  <2>2. caps'[cur].mem \in Nat
    <3>1. caps'[cur] \in Capture
      BY <2>1, CapsAre
    <3> QED
      BY <3>1, ReplAssumption DEF Capture
  <2>3. Stored + Len(job.left) <= caps'[cur].mem
    <3>1. Stored \in Nat /\ Len(job.left) \in Nat /\ caps[cur].mem \in Nat
      BY <2>1, CapsAre DEF Stored, Inv, Typed, JobRecord
    <3> QED
      BY <2>1, <2>2, <3>1 DEF Inv, Saving
  <2> QED
    BY <1>2, <2>3 DEF Inv, Saving
<1> QED
  BY <1>1, <1>3

\* The absent job, and the job of leaving, have the type of jobs.
LEMMA NoJobType == NoJob \in JobRecord /\ [NoJob EXCEPT !.exit = TRUE] \in JobRecord
<1>1. <<>> \in Seq(Entry)
  OBVIOUS
<1>2. NoJob \in JobRecord
  BY <1>1 DEF NoJob, JobRecord
<1> QED
  BY <1>2 DEF JobRecord

-----------------------------------------------------------------------------
(* The goroutines.                                                         *)

\* The serve goroutine ends and sends its error once.
LEMMA ServeReturnsInv == ASSUME Inv, NEW k \in DOMAIN caps, ServeReturns(k) PROVE Inv'
<1> DEFINE e == [caps[k] EXCEPT !.serve = "down", !.serveErr = @ + 1]
<1>1. caps[k] \in Capture /\ caps[k].serveErr = 0
  BY CapsAre DEF ServeReturns, Inv, NotSent
<1>2. e \in Capture /\ e.mem = caps[k].mem /\ e.open = caps[k].open /\ e.serve = "down"
  <2>1. caps[k].serveErr + 1 \in 0..1
    BY <1>1
  <2> QED
    BY <1>1, <2>1 DEF Capture
<1>3. caps' = [caps EXCEPT ![k] = e] /\ UNCHANGED <<cur, pc, job, durable>>
  BY DEF ServeReturns
<1>4. e.mem >= caps[k].mem
  BY <1>2, CapsAre
<1> HIDE DEF e
<1> QED
  BY <1>2, <1>3, <1>4, CaptureStep, JobStays DEF Inv

\* The proxy accepts a connection while it serves.
LEMMA AcceptInv == ASSUME Inv, NEW k \in DOMAIN caps, Accept(k) PROVE Inv'
<1> DEFINE e == [caps[k] EXCEPT !.conns = @ + 1]
<1>1. caps[k] \in Capture /\ caps[k].serve = "up" /\ caps[k].conns < MaxConns
  BY CapsAre DEF Accept
<1>2. /\ e \in Capture /\ e.mem = caps[k].mem /\ e.open = caps[k].open
      /\ e.serve = caps[k].serve /\ e.serveErr = caps[k].serveErr
      /\ e.running = caps[k].running
  BY <1>1, ReplAssumption DEF Capture
<1>3. caps' = [caps EXCEPT ![k] = e] /\ UNCHANGED <<cur, pc, job, durable>>
  BY DEF Accept
<1>4. e.mem >= caps[k].mem
  BY <1>2, CapsAre
<1>5. e.serveErr = 0 /\ k = cur /\ e.running
  BY <1>1, <1>2 DEF Inv, NotSent, OneListener, Running, Current
<1> HIDE DEF e
<1> QED
  BY <1>2, <1>3, <1>4, <1>5, CaptureStep, JobStays DEF Inv

\* A connection records an entry, which a closed session drops.
LEMMA RecordInv == ASSUME Inv, NEW k \in DOMAIN caps, Record(k) PROVE Inv'
<1> DEFINE e == [caps[k] EXCEPT !.mem = IF caps[k].open THEN @ + 1 ELSE @]
<1>1. caps[k] \in Capture /\ caps[k].mem < MaxEntries /\ caps[k].mem \in Nat
  BY CapsAre DEF Record
<1>2. /\ e \in Capture /\ e.mem >= caps[k].mem /\ e.open = caps[k].open
      /\ e.serve = caps[k].serve /\ e.serveErr = caps[k].serveErr
      /\ e.running = caps[k].running
  BY <1>1, ReplAssumption DEF Capture
<1>3. caps' = [caps EXCEPT ![k] = e] /\ UNCHANGED <<cur, pc, job, durable>>
  BY DEF Record
<1>4. /\ e.serve \in {"up", "closing"} => e.serveErr = 0
      /\ e.serve = "up" => k = cur /\ e.running
  BY <1>2 DEF Inv, NotSent, OneListener, Running, Current
<1> HIDE DEF e
<1> QED
  BY <1>2, <1>3, <1>4, CaptureStep, JobStays DEF Inv

\* A connection ends.
LEMMA ConnEndsInv == ASSUME Inv, NEW k \in DOMAIN caps, ConnEnds(k) PROVE Inv'
<1> DEFINE e == [caps[k] EXCEPT !.conns = @ - 1]
<1>1. caps[k] \in Capture /\ caps[k].conns > 0 /\ caps[k].mem \in Nat
  BY CapsAre DEF ConnEnds
<1>2. /\ e \in Capture /\ e.mem = caps[k].mem /\ e.open = caps[k].open
      /\ e.serve = caps[k].serve /\ e.serveErr = caps[k].serveErr
      /\ e.running = caps[k].running
  BY <1>1, ReplAssumption DEF Capture
<1>3. caps' = [caps EXCEPT ![k] = e] /\ UNCHANGED <<cur, pc, job, durable>>
  BY DEF ConnEnds
<1>4. /\ e.serve \in {"up", "closing"} => e.serveErr = 0
      /\ e.serve = "up" => k = cur /\ e.running
      /\ e.mem >= caps[k].mem
  BY <1>1, <1>2 DEF Inv, NotSent, OneListener, Running, Current
<1> HIDE DEF e
<1> QED
  BY <1>2, <1>3, <1>4, CaptureStep, JobStays DEF Inv

-----------------------------------------------------------------------------
(* The prompt: captures.                                                   *)

\* stop and quit close the listener and wait for the serve goroutine.
LEMMA StopInv == ASSUME Inv, pc = "prompt", Running, caps' = Stopped(cur),
                        pc' = "stopping", job' \in {job, [NoJob EXCEPT !.exit = TRUE]},
                        UNCHANGED <<cur, durable>>
                 PROVE  Inv'
<1> DEFINE e == [caps[cur] EXCEPT !.running = FALSE,
                                  !.serve = IF @ = "up" THEN "closing" ELSE @]
<1>1. cur \in DOMAIN caps /\ caps[cur] \in Capture /\ caps[cur].mem \in Nat
  BY CapsAre DEF Running
<1>2. /\ e \in Capture /\ e.mem = caps[cur].mem /\ e.open = caps[cur].open
      /\ e.serve # "up" /\ e.serveErr = caps[cur].serveErr
      /\ e.serve = "closing" => caps[cur].serve \in {"up", "closing"}
  BY <1>1 DEF Capture
<1>3. caps' = [caps EXCEPT ![cur] = e]
  BY DEF Stopped
<1>4. /\ e.serve \in {"up", "closing"} => e.serveErr = 0
      /\ e.mem >= caps[cur].mem
  BY <1>1, <1>2 DEF Inv, NotSent
<1> HIDE DEF e
<1>5. /\ caps' \in Seq(Capture) /\ Len(caps') = Len(caps)
      /\ NotSent' /\ OneListener' /\ OnlyCurrentOpen'
      /\ \A s \in Sessions : Copy(durable'[s], caps')
  BY <1>1, <1>2, <1>3, <1>4, CaptureStep
<1>6. job' \in JobRecord
  BY NoJobType DEF Inv, Typed
<1>7. Typed'
  BY <1>5, <1>6 DEF Inv, Typed, TypeOK
<1>8. Saving' /\ Importing' /\ Waiting'
  BY <1>1, CapsAre DEF Saving, Importing, Waiting
<1> QED
  BY <1>5, <1>7, <1>8 DEF Inv

\* The process is over, or starts again: nothing is left but the store.
LEMMA DeadInv == ASSUME Inv, caps' = Dead, cur' = 0, pc' \in {"prompt", "exited"},
                        job' \in {job, NoJob}, UNCHANGED durable
                 PROVE  Inv'
<1>1. /\ caps' \in Seq(Capture) /\ Len(caps') = Len(caps)
      /\ DOMAIN caps' = DOMAIN caps
      /\ \A k \in DOMAIN caps :
           ~caps'[k].open /\ caps'[k].serve = "down" /\ caps'[k].serveErr = 0
      /\ \A s \in Sessions : Copy(durable[s], caps')
  BY AllDead
<1>2. DOMAIN caps = 1..Len(caps) /\ Len(caps) \in Nat
  BY CapsAre
<1>3. Typed'
  BY <1>1, <1>2, NoJobType DEF Inv, Typed, TypeOK
<1>4. NotSent' /\ OneListener' /\ OnlyCurrentOpen'
  BY <1>1, <1>2 DEF NotSent, OneListener, OnlyCurrentOpen
<1>5. Saving' /\ Importing' /\ Waiting'
  BY DEF Saving, Importing, Waiting
<1> QED
  BY <1>1, <1>3, <1>4, <1>5 DEF Inv

\* The goroutine has ended: back to the prompt, or the process exits.
LEMMA StopEndInv == ASSUME Inv, StopEnd PROVE Inv'
<1>1. CASE job.exit
  BY <1>1, DeadInv DEF StopEnd
<1>2. CASE ~job.exit
  <2> DEFINE e == [caps[cur] EXCEPT !.serveErr = @ - 1, !.serve = "down"]
  <2>1. cur \in DOMAIN caps /\ caps[cur] \in Capture /\ caps[cur].mem \in Nat
    BY CapsAre DEF StopEnd, Inv, Waiting
  <2>2. caps[cur].serveErr > 0 /\ caps[cur].serveErr \in 0..1
    BY <2>1 DEF StopEnd, Current, Capture
  <2>3. e \in Capture /\ e.mem = caps[cur].mem /\ e.open = caps[cur].open /\ e.serve = "down"
    <3>1. caps[cur].serveErr - 1 \in 0..1
      BY <2>2
    <3> QED
      BY <2>1, <3>1 DEF Capture
  <2>4. caps' = [caps EXCEPT ![cur] = e] /\ UNCHANGED <<cur, durable>>
    BY <1>2 DEF StopEnd, StopDone
  <2>5. e.mem >= caps[cur].mem
    BY <2>1, <2>3
  <2> HIDE DEF e
  <2>6. /\ caps' \in Seq(Capture) /\ Len(caps') = Len(caps)
        /\ NotSent' /\ OneListener' /\ OnlyCurrentOpen'
        /\ \A s \in Sessions : Copy(durable'[s], caps')
    BY <2>1, <2>3, <2>4, <2>5, CaptureStep
  <2>7. pc' = "prompt" /\ job' = NoJob
    BY <1>2 DEF StopEnd
  <2>8. Typed' /\ Saving' /\ Importing' /\ Waiting'
    BY <2>4, <2>6, <2>7, NoJobType DEF Inv, Typed, TypeOK, Saving, Importing, Waiting
  <2> QED
    BY <2>6, <2>8 DEF Inv
<1> QED
  BY <1>1, <1>2

\* resume listens again for the same session, or fails.
LEMMA ResumeInv == ASSUME Inv, NEW ok \in BOOLEAN, Resume(ok) PROVE Inv'
<1>1. CASE ok
  <2> DEFINE e == [caps[cur] EXCEPT !.running = TRUE, !.serve = "up", !.serveErr = 0]
  <2>1. cur \in DOMAIN caps /\ caps[cur] \in Capture /\ caps[cur].mem \in Nat
    BY CapsAre DEF Resume
  <2>2. /\ e \in Capture /\ e.mem = caps[cur].mem /\ e.open = caps[cur].open
        /\ e.serve = "up" /\ e.serveErr = 0 /\ e.running
    <3>1. 0 \in 0..1
      OBVIOUS
    <3>2. e \in Capture
      BY <2>1, <3>1 DEF Capture
    <3> QED
      BY <2>1, <3>2 DEF Capture
  <2>3. caps' = [caps EXCEPT ![cur] = e] /\ UNCHANGED <<cur, pc, job, durable>>
    BY <1>1 DEF Resume
  <2>4. e.mem >= caps[cur].mem
    BY <2>1, <2>2
  <2> HIDE DEF e
  <2> QED
    BY <2>1, <2>2, <2>3, <2>4, CaptureStep, JobStays DEF Inv
<1>2. CASE ~ok
  <2>1. UNCHANGED vars
    BY <1>2 DEF Resume, vars
  <2> QED
    BY <2>1 DEF vars, Inv, Typed, TypeOK, NotSent, Saving, Stored, Importing, Waiting,
                OneListener, Running, Current, OnlyCurrentOpen
<1> QED
  BY <1>1, <1>2

\* Closing the current capture closes the last open store.
LEMMA ClosedIs ==
  ASSUME Inv
  PROVE  /\ Closed \in [1..Len(caps) -> Capture]
         /\ \A k \in 1..Len(caps) :
              /\ ~Closed[k].open
              /\ Closed[k].mem = caps[k].mem /\ Closed[k].serve = caps[k].serve
              /\ Closed[k].serveErr = caps[k].serveErr
<1>1. /\ caps \in [1..Len(caps) -> Capture] /\ DOMAIN caps = 1..Len(caps)
      /\ 0 \notin 1..Len(caps) /\ (cur # 0 => cur \in 1..Len(caps))
  BY CapsAre
<1>2. \A k \in 1..Len(caps) : k # cur => ~caps[k].open
  BY <1>1 DEF Inv, OnlyCurrentOpen
<1>3. CASE cur = 0
  BY <1>1, <1>2, <1>3 DEF Closed
<1>4. CASE cur # 0
  <2> DEFINE e == [caps[cur] EXCEPT !.open = FALSE]
  <2>1. caps[cur] \in Capture
    BY <1>1, <1>4
  <2>2. /\ e \in Capture /\ ~e.open /\ e.mem = caps[cur].mem
        /\ e.serve = caps[cur].serve /\ e.serveErr = caps[cur].serveErr
    BY <2>1 DEF Capture
  <2>3. Closed = [caps EXCEPT ![cur] = e]
    BY <1>4 DEF Closed
  <2> HIDE DEF e
  <2> QED
    BY <1>1, <1>2, <1>4, <2>2, <2>3
<1> QED
  BY <1>3, <1>4

\* run closes the previous session and opens a new one, or fails.
LEMMA RunInv == ASSUME Inv, NEW id \in Sessions, NEW ok \in BOOLEAN, Run(id, ok) PROVE Inv'
<1> DEFINE n == Len(caps)
<1>1. /\ caps \in [1..n -> Capture] /\ DOMAIN caps = 1..n /\ n \in Nat
      /\ \A k \in 1..n : caps[k].mem \in Nat
  BY CapsAre
<1>2. /\ Closed \in [1..n -> Capture]
      /\ \A k \in 1..n :
           /\ ~Closed[k].open
           /\ Closed[k].mem = caps[k].mem /\ Closed[k].serve = caps[k].serve
           /\ Closed[k].serveErr = caps[k].serveErr
  BY ClosedIs
<1>3. Closed \in Seq(Capture) /\ Len(Closed) = n /\ DOMAIN Closed = 1..n
  BY <1>1, <1>2, SeqOf
<1>4. \A k \in 1..n : caps[k].serve # "up"
  BY <1>1 DEF Run, MayRun, Inv, OneListener
<1>5. UNCHANGED <<pc, job, durable>> /\ pc = "prompt"
  BY DEF Run
<1>6. Saving' /\ Importing' /\ Waiting'
  BY <1>5 DEF Saving, Importing, Waiting
<1>7. ASSUME caps' \in Seq(Capture), Len(caps') \in Nat, n <= Len(caps'),
             \A k \in 1..n : caps'[k].mem = caps[k].mem
      PROVE  \A s \in Sessions : Copy(durable'[s], caps')
  <2> SUFFICES ASSUME NEW s \in Sessions PROVE Copy(durable[s], caps')
    BY <1>5
  <2>1. Copy(durable[s], caps)
    BY DEF Inv
  <2>2. \A k \in 1..n : caps[k].mem \in Nat /\ caps'[k].mem \in Nat /\ caps[k].mem <= caps'[k].mem
    BY <1>1, <1>7
  <2> QED
    BY <1>1, <1>7, <2>1, <2>2, CopyGrows
<1>8. CASE ~ok
  <2>1. caps' = Closed /\ cur' = 0
    BY <1>8 DEF Run
  <2>2. Typed'
    BY <1>3, <1>5, <2>1 DEF Inv, Typed, TypeOK
  <2>3. NotSent' /\ OneListener' /\ OnlyCurrentOpen'
    BY <1>1, <1>2, <1>3, <1>4, <2>1 DEF Inv, NotSent, OneListener, OnlyCurrentOpen
  <2>4. \A s \in Sessions : Copy(durable'[s], caps')
    BY <1>1, <1>2, <1>3, <1>7, <2>1
  <2> QED
    BY <1>6, <2>2, <2>3, <2>4 DEF Inv
<1>9. CASE ok
  <2> DEFINE e == NewCapture(id)
  <2>1. caps' = Append(Closed, e) /\ cur' = n + 1 /\ n < MaxRuns
    BY <1>9 DEF Run
  <2>2. /\ e \in Capture /\ e.open /\ e.running /\ e.serveErr = 0
    <3>1. 0 \in 0..1 /\ 0 \in 0..MaxEntries /\ 0 \in 0..MaxConns
      BY ReplAssumption
    <3> QED
      BY <3>1 DEF NewCapture, Capture
  <2> HIDE DEF e
  <2>3. /\ caps' \in Seq(Capture) /\ Len(caps') = n + 1 /\ DOMAIN caps' = 1..(n + 1)
        /\ caps'[n + 1] = e /\ \A k \in 1..n : caps'[k] = Closed[k]
    BY <1>1, <1>3, <2>1, <2>2
  <2>4. Typed'
    BY <1>1, <1>5, <2>1, <2>3, ReplAssumption DEF Inv, Typed, TypeOK
  <2>5. \A k \in 1..(n + 1) : k = n + 1 \/ k \in 1..n
    BY <1>1
  <2>6. NotSent'
    BY <1>1, <1>2, <2>2, <2>3, <2>5 DEF Inv, NotSent
  <2>7. OneListener'
    BY <1>1, <1>2, <1>4, <2>1, <2>2, <2>3, <2>5 DEF OneListener, Running, Current
  <2>8. OnlyCurrentOpen'
    BY <1>1, <1>2, <2>1, <2>2, <2>3, <2>5 DEF OnlyCurrentOpen
  <2>9. \A s \in Sessions : Copy(durable'[s], caps')
    BY <1>1, <1>2, <1>7, <2>3
  <2> QED
    BY <1>6, <2>4, <2>6, <2>7, <2>8, <2>9 DEF Inv
<1> QED
  BY <1>8, <1>9

-----------------------------------------------------------------------------
(* The prompt: the durable store.                                          *)

\* Commands on the durable store leave the captures alone.
LEMMA CapsStay ==
  ASSUME Inv, UNCHANGED <<caps, cur>>
  PROVE  NotSent' /\ OneListener' /\ OnlyCurrentOpen'
  BY DEF Inv, NotSent, OneListener, Running, Current, OnlyCurrentOpen

\* save takes the entries in memory for its job.
LEMMA SaveInv == ASSUME Inv, Save PROVE Inv'
<1> DEFINE left == [i \in 1..caps[cur].mem |-> [cap |-> cur, n |-> i]]
<1>1. /\ cur \in DOMAIN caps /\ caps[cur] \in Capture /\ caps[cur].mem \in Nat
      /\ cur \in 0..MaxRuns /\ caps[cur].mem \in 0..MaxEntries
  BY CapsAre, ReplAssumption DEF Save, Inv, Typed, Capture
<1>2. /\ left \in [1..caps[cur].mem -> Entry]
      /\ \A i \in 1..caps[cur].mem : left[i] = [cap |-> cur, n |-> i]
  BY <1>1, ReplAssumption DEF Entry
<1> HIDE DEF left
<1>3. left \in Seq(Entry) /\ Len(left) = caps[cur].mem
  BY <1>1, <1>2, SeqOf
<1>4. pc' = "saving" /\ UNCHANGED <<caps, cur, durable>>
  BY DEF Save
<1>5. /\ job'.left = left /\ job'.fresh = FALSE /\ job'.on = caps[cur].id
  BY DEF Save, NoJob, Current, left
<1>6. Typed'
  <2>1. job' \in JobRecord /\ job'.on \in Sessions
    BY <1>1, <1>3 DEF Save, NoJob, Current, left, JobRecord, Capture
  <2> QED
    BY <1>4, <2>1 DEF Inv, Typed, TypeOK
<1>7. Stored' = 0
  BY <1>5 DEF Stored
<1>8. Saving' /\ Importing' /\ Waiting'
  BY <1>1, <1>2, <1>3, <1>4, <1>5, <1>7, CapsAre DEF Saving, Importing, Waiting
<1> QED
  BY <1>4, <1>6, <1>8, CapsStay DEF Inv

\* save removes what was stored under the name.
LEMMA SaveDeleteInv == ASSUME Inv, SaveDelete PROVE Inv'
<1>1. pc = "saving" /\ job.on \in Sessions /\ job.fresh = FALSE
  BY DEF SaveDelete, Inv, Typed
<1>2. /\ durable' \in [Sessions -> Seq(Entry)] /\ durable'[job.on] = <<>>
      /\ \A s \in Sessions \ {job.on} : durable'[s] = durable[s]
  BY <1>1 DEF SaveDelete, Inv, Typed
<1>3. /\ UNCHANGED <<caps, cur, pc>> /\ job'.fresh = TRUE
      /\ job'.left = job.left /\ job'.on = job.on
  <2>1. job' = [job EXCEPT !.fresh = TRUE]
    BY DEF SaveDelete
  <2>2. job \in JobRecord
    BY DEF Inv, Typed
  <2> QED
    BY <2>1, <2>2 DEF SaveDelete, JobRecord
<1>4. Stored = 0 /\ Stored' = 0
  BY <1>1, <1>2, <1>3 DEF Stored
<1>5. Typed'
  BY <1>1, <1>2, <1>3 DEF Inv, Typed, TypeOK, SaveDelete, JobRecord
<1>6. Saving' /\ Importing' /\ Waiting'
  BY <1>1, <1>2, <1>3, <1>4 DEF Inv, Saving, Importing, Waiting
<1>7. \A s \in Sessions : Copy(durable'[s], caps')
  BY <1>2, <1>3, CopyEmpty, CapsAre DEF Inv
<1> QED
  BY <1>3, <1>5, <1>6, <1>7, CapsStay DEF Inv

\* import takes the entries of a document for its job.
LEMMA ImportInv ==
  ASSUME Inv, NEW s \in Sessions, NEW n \in 0..MaxImport, Import(s, n) PROVE Inv'
<1> DEFINE left == [i \in 1..n |-> Imported]
<1>1. Imported \in Entry /\ n \in Nat
  BY ReplAssumption DEF Imported, Entry
<1>2. left \in [1..n -> Entry]
  BY <1>1
<1>3. left \in Seq(Entry) /\ Len(left) = n /\ \A i \in 1..n : left[i] = Imported
  BY <1>1, <1>2, SeqOf
<1>4. /\ pc' = "importing" /\ UNCHANGED <<caps, cur, durable>>
      /\ job' = [NoJob EXCEPT !.on = s, !.left = left, !.fresh = TRUE]
  BY DEF Import
<1> HIDE DEF left
<1>5. /\ job' \in JobRecord /\ job'.on = s /\ job'.left = left /\ job'.fresh = TRUE
  BY <1>3, <1>4, NoJobType DEF JobRecord
<1>6. Typed'
  BY <1>4, <1>5 DEF Inv, Typed, TypeOK
<1>7. Saving' /\ Importing' /\ Waiting'
  BY <1>1, <1>3, <1>4, <1>5 DEF Saving, Importing, Waiting
<1> QED
  BY <1>4, <1>6, <1>7, CapsStay DEF Inv

\* A job stores its next entry.
LEMMA InsertNextInv == ASSUME Inv, InsertNext PROVE Inv'
<1> DEFINE on == job.on
           q  == durable[on]
           e  == Head(job.left)
<1>1. /\ pc \in {"saving", "importing"} /\ job.fresh /\ on \in Sessions
      /\ job \in JobRecord /\ job.left \in Seq(Entry) /\ job.left # <<>>
      /\ q \in Seq(Entry) /\ durable \in [Sessions -> Seq(Entry)]
      /\ UNCHANGED <<caps, cur, pc>>
  BY DEF InsertNext, Inv, Typed, JobRecord
<1>2. /\ e \in Entry /\ e = job.left[1] /\ Tail(job.left) \in Seq(Entry)
      /\ Len(Tail(job.left)) = Len(job.left) - 1
      /\ \A i \in 1..Len(Tail(job.left)) : Tail(job.left)[i] = job.left[i + 1]
      /\ Len(job.left) \in Nat /\ Len(job.left) > 0
  BY <1>1
<1>3. /\ durable' \in [Sessions -> Seq(Entry)] /\ durable'[on] = Append(q, e)
      /\ \A s \in Sessions \ {on} : durable'[s] = durable[s]
  BY <1>1, <1>2 DEF InsertNext
<1>4. /\ job' \in JobRecord /\ job'.left = Tail(job.left) /\ job'.on = on
      /\ job'.fresh = job.fresh
  <2>1. job' = [job EXCEPT !.left = Tail(job.left)]
    BY DEF InsertNext
  <2> QED
    BY <1>1, <1>2, <2>1 DEF JobRecord
<1>5. Typed'
  BY <1>1, <1>3, <1>4 DEF Inv, Typed, TypeOK
<1>6. Waiting'
  BY <1>1 DEF Waiting
<1>7. Importing'
  BY <1>1, <1>2, <1>4 DEF Inv, Importing
<1>8. Stored = Len(q) /\ Stored' = Len(q) + 1 /\ Len(q) \in Nat
  BY <1>1, <1>2, <1>3, <1>4 DEF Stored
<1>9. CASE pc = "importing"
  <2>1. e = Imported
    BY <1>2, <1>9 DEF Inv, Importing
  <2>2. Copy(durable'[on], caps)
    BY <1>1, <1>2, <1>3, <2>1, CopyImport DEF Inv
  <2>3. \A s \in Sessions : Copy(durable'[s], caps')
    BY <1>1, <1>3, <2>2 DEF Inv
  <2>4. Saving'
    BY <1>1, <1>9 DEF Saving
  <2> QED
    BY <1>1, <1>5, <1>6, <1>7, <2>3, <2>4, CapsStay DEF Inv
<1>10. CASE pc = "saving"
  <2>1. /\ cur # 0 /\ \A i \in 1..Len(job.left) : job.left[i] = [cap |-> cur, n |-> Len(q) + i]
        /\ Len(q) + Len(job.left) <= caps[cur].mem
        /\ \A i \in 1..Len(q) : q[i] = [cap |-> cur, n |-> i]
    BY <1>1, <1>8, <1>10 DEF Inv, Saving
  <2>2. e = [cap |-> cur, n |-> Len(q) + 1]
    BY <1>2, <2>1
  <2>3. cur \in 1..Len(caps) /\ Len(caps) \in Nat /\ caps[cur].mem \in Nat
    BY <2>1, CapsAre
  <2>0. \A x, y, m \in Nat : y > 0 /\ x + y <= m => x + 1 <= m /\ (x + 1) + (y - 1) <= m
    OBVIOUS
  <2>4. Len(q) + 1 <= caps[cur].mem /\ (Len(q) + 1) + (Len(job.left) - 1) <= caps[cur].mem
    <3> HIDE DEF q
    <3> QED
      BY <1>2, <1>8, <2>0, <2>1, <2>3
  <2> HIDE DEF q, e, on
  <2>5. /\ Copy(Append(q, e), caps)
        /\ \A i \in 1..Len(Append(q, e)) : Append(q, e)[i] = [cap |-> cur, n |-> i]
    <3>1. Len(q) + 1 <= caps[cur].mem
      BY <2>4
    <3> QED
      BY <1>1, <1>2, <2>1, <2>2, <2>3, <3>1, CopyNext
  <2>6. \A s \in Sessions : Copy(durable'[s], caps')
    BY <1>1, <1>3, <2>5 DEF Inv
  <2>7. Stored' + Len(job'.left) <= caps'[cur'].mem
    BY <1>1, <1>2, <1>4, <1>8, <2>4
  <2>8. \A i \in 1..Len(job'.left) : job'.left[i] = [cap |-> cur', n |-> Stored' + i]
    <3> SUFFICES ASSUME NEW i \in 1..(Len(job.left) - 1)
                 PROVE  job.left[i + 1] = [cap |-> cur, n |-> (Len(q) + 1) + i]
      BY <1>1, <1>2, <1>4, <1>8
    <3>1. i + 1 \in 1..Len(job.left) /\ Len(q) + (i + 1) = (Len(q) + 1) + i
      BY <1>2, <1>8
    <3> QED
      BY <2>1, <3>1
  <2>9. Saving'
    BY <1>1, <1>3, <1>4, <2>1, <2>5, <2>7, <2>8 DEF Saving
  <2> QED
    BY <1>1, <1>5, <1>6, <1>7, <2>6, <2>9, CapsStay DEF Inv
<1> QED
  BY <1>1, <1>9, <1>10

\* A job is done, or one of its inserts failed.
LEMMA JobEndsInv == ASSUME Inv, JobEnds PROVE Inv'
<1>1. pc' = "prompt" /\ job' = NoJob /\ UNCHANGED <<caps, cur, durable>>
  BY DEF JobEnds
<1>2. Typed' /\ Saving' /\ Importing' /\ Waiting'
  BY <1>1, NoJobType DEF Inv, Typed, TypeOK, Saving, Importing, Waiting
<1> QED
  BY <1>1, <1>2, CapsStay DEF Inv

\* rename moves a stored session to a free name.
LEMMA RenameInv ==
  ASSUME Inv, NEW old \in Sessions, NEW new \in Sessions, Rename(old, new) PROVE Inv'
<1>1. /\ pc = "prompt" /\ old # new /\ UNCHANGED <<caps, cur, pc, job>>
      /\ durable' = [durable EXCEPT ![new] = durable[old], ![old] = <<>>]
  BY DEF Rename
<1>2. /\ durable' \in [Sessions -> Seq(Entry)]
      /\ durable'[new] = durable[old] /\ durable'[old] = <<>>
      /\ \A s \in Sessions \ {old, new} : durable'[s] = durable[s]
  BY <1>1 DEF Inv, Typed
<1>3. Typed' /\ Saving' /\ Importing' /\ Waiting'
  BY <1>1, <1>2 DEF Inv, Typed, TypeOK, Saving, Importing, Waiting
<1>4. \A s \in Sessions : Copy(durable'[s], caps')
  BY <1>1, <1>2, CopyEmpty, CapsAre DEF Inv
<1> QED
  BY <1>1, <1>3, <1>4, CapsStay DEF Inv

\* rm removes a stored session.
LEMMA DeleteInv == ASSUME Inv, NEW t \in Sessions, Delete(t) PROVE Inv'
<1>1. /\ pc = "prompt" /\ UNCHANGED <<caps, cur, pc, job>>
      /\ durable' = [durable EXCEPT ![t] = <<>>]
  BY DEF Delete
<1>2. /\ durable' \in [Sessions -> Seq(Entry)] /\ durable'[t] = <<>>
      /\ \A s \in Sessions \ {t} : durable'[s] = durable[s]
  BY <1>1 DEF Inv, Typed
<1>3. Typed' /\ Saving' /\ Importing' /\ Waiting'
  BY <1>1, <1>2 DEF Inv, Typed, TypeOK, Saving, Importing, Waiting
<1>4. \A s \in Sessions : Copy(durable'[s], caps')
  BY <1>1, <1>2, CopyEmpty, CapsAre DEF Inv
<1> QED
  BY <1>1, <1>3, <1>4, CapsStay DEF Inv

-----------------------------------------------------------------------------
\* The invariant holds at the start ...
LEMMA InvInit == Init => Inv
<1> SUFFICES ASSUME Init PROVE Inv
  OBVIOUS
<1>1. caps \in Seq(Capture) /\ Len(caps) = 0 /\ DOMAIN caps = {}
  BY DEF Init
<1>2. durable \in [Sessions -> Seq(Entry)] /\ \A s \in Sessions : durable[s] = <<>>
  BY DEF Init
<1>3. Typed
  BY <1>1, <1>2, NoJobType, ReplAssumption DEF Init, Typed, TypeOK
<1>4. NotSent /\ OneListener /\ OnlyCurrentOpen
  BY <1>1 DEF NotSent, OneListener, OnlyCurrentOpen
<1>5. Saving /\ Importing /\ Waiting
  BY DEF Init, Saving, Importing, Waiting
<1>6. \A s \in Sessions : Copy(durable[s], caps)
  BY <1>1, <1>2, CopyEmpty
<1> QED
  BY <1>3, <1>4, <1>5, <1>6 DEF Inv

\* ... is kept by every step ...
LEMMA InvNext == Inv /\ [Next]_vars => Inv'
<1> SUFFICES ASSUME Inv, [Next]_vars PROVE Inv'
  OBVIOUS
<1>1. ASSUME Stop PROVE Inv'
  BY <1>1, StopInv DEF Stop
<1>2. ASSUME Quit PROVE Inv'
  <2>1. CASE Running
    BY <1>2, <2>1, StopInv DEF Quit
  <2>2. CASE ~Running
    BY <1>2, <2>2, DeadInv DEF Quit
  <2> QED
    BY <2>1, <2>2
<1>3. ASSUME Restart PROVE Inv'
  BY <1>3, DeadInv DEF Restart
<1>4. CASE UNCHANGED vars
  BY <1>4 DEF vars, Inv, Typed, TypeOK, NotSent, Saving, Stored, Importing, Waiting,
              OneListener, Running, Current, OnlyCurrentOpen
<1> QED
  BY <1>1, <1>2, <1>3, <1>4, RunInv, StopEndInv, ResumeInv, ServeReturnsInv, AcceptInv,
     RecordInv, ConnEndsInv, SaveInv, SaveDeleteInv, ImportInv, InsertNextInv,
     JobEndsInv, RenameInv, DeleteInv DEF Next

\* ... and so holds in every reachable state.
LEMMA SpecInv == Spec => []Inv
  BY InvInit, InvNext, PTL DEF Spec

-----------------------------------------------------------------------------
\* capture.go: whatever the prompt, the serve goroutines and crashes do, the
\* records keep their types and the channel of capacity one holds at most one
\* result, so the serve goroutine never blocks on it.
THEOREM TypeCorrect == Spec => []TypeOK
<1>1. Inv => TypeOK
  BY DEF Inv, Typed
<1> QED
  BY <1>1, SpecInv, PTL

\* repl.go cmdRun, cmdStop and cmdResume: at most one proxy accepts
\* connections, and it is the capture the prompt calls running.
THEOREM SingleListener == Spec => []OneListener
<1>1. Inv => OneListener
  BY DEF Inv
<1> QED
  BY <1>1, SpecInv, PTL

\* repl.go cmdRun and capture.go close: the in-memory store of the current
\* capture stays open until it is replaced, and no other one does.
THEOREM CurrentOpen == Spec => []OnlyCurrentOpen
<1>1. Inv => OnlyCurrentOpen
  BY DEF Inv
<1> QED
  BY <1>1, SpecInv, PTL

\* repl.go cmdSave, cmdImport, cmdRename and cmdDelete: a stored session is an
\* unbroken beginning of one capture and then imported entries, also after a
\* save that failed half way, a crash, or records that came during a save.
THEOREM DurableCopies == Spec => []DurableFaithful
<1>1. Inv => DurableFaithful
  BY DEF Inv, Copy, DurableFaithful
<1> QED
  BY <1>1, SpecInv, PTL
=============================================================================
