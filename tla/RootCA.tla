------------------------------- MODULE RootCA -------------------------------
(***************************************************************************)
(* The root CA's two files and the processes that load or create them when *)
(* they start (internal/ca, called by cmd/lebedev).  A root is identified   *)
(* by the call of Generate that made it; a certificate and a key match when *)
(* they are of the same root.                                              *)
(*                                                                         *)
(* os.WriteFile truncates the file and then writes it, so a process that is *)
(* killed, or whose write fails, in between leaves an empty file behind    *)
(* that exists but does not decode.  A part-written file, which does not   *)
(* decode either, is taken as empty.  Creating the directory only fails    *)
(* or not.                                                                 *)
(***************************************************************************)
EXTENDS Naturals, FiniteSets

CONSTANTS
  Procs,      \* processes that use the same two files
  MaxRoots,   \* bound: roots ever generated
  DiskFails   \* whether a read or a write may fail on its own

ASSUME RootCAAssumption == MaxRoots \in Nat /\ DiskFails \in BOOLEAN

VARIABLES
  cert, key,  \* the files: a root, Empty or Absent
  roots,      \* number of roots generated so far
  procs,      \* the processes: pc, and cert and key of their Authority
  served      \* history: the certificates of the roots processes came up with

vars == <<cert, key, roots, procs, served>>

Absent == MaxRoots + 1
Empty  == MaxRoots + 2
Root   == 1..MaxRoots
File   == Root \cup {Absent, Empty}

Down == [pc |-> "down", cert |-> Absent, key |-> Absent]

Init ==
  /\ cert = Absent /\ key = Absent /\ roots = 0
  /\ procs = [p \in Procs |-> Down]
  /\ served = {}

At(p, pc)     == procs[p].pc = pc
GoTo(p, pc)   == procs' = [procs EXCEPT ![p].pc = pc]
fileExists(f) == f # Absent

-----------------------------------------------------------------------------
(* LoadOrGenerate.                                                         *)

Start(p) ==
  /\ At(p, "down") /\ GoTo(p, "statCert")
  /\ UNCHANGED <<cert, key, roots, served>>

StatCert(p) ==
  /\ At(p, "statCert")
  /\ GoTo(p, IF fileExists(cert) THEN "statKey" ELSE "generate")
  /\ UNCHANGED <<cert, key, roots, served>>

\* Mutant: a new root although both files are there.
MutStatKey(p) ==
  /\ At(p, "statKey")
  /\ GoTo(p, "generate")
  /\ UNCHANGED <<cert, key, roots, served>>

StatKey(p) ==
  /\ At(p, "statKey")
  /\ GoTo(p, IF fileExists(key) THEN "readCert" ELSE "generate")
  /\ UNCHANGED <<cert, key, roots, served>>

\* Load: readCert, then readKey; neither looks at the other's result.
ReadCert(p) ==
  /\ At(p, "readCert")
  /\ procs' = [procs EXCEPT ![p].pc = IF cert \in Root THEN "readKey" ELSE "failed",
                            ![p].cert = cert]
  /\ UNCHANGED <<cert, key, roots, served>>

\* Mutant: a key file that does not decode is taken for a key.
MutReadKey(p) ==
  /\ At(p, "readKey")
  /\ procs' = [procs EXCEPT ![p].pc = "up", ![p].key = key]
  /\ served' = served \cup {procs[p].cert}
  /\ UNCHANGED <<cert, key, roots>>

ReadKey(p) ==
  /\ At(p, "readKey")
  /\ procs' = [procs EXCEPT ![p].pc = IF key \in Root THEN "up" ELSE "failed",
                            ![p].key = key]
  /\ served' = IF key \in Root THEN served \cup {procs[p].cert} ELSE served
  /\ UNCHANGED <<cert, key, roots>>

Generate(p) ==
  /\ At(p, "generate") /\ roots < MaxRoots
  /\ roots' = roots + 1
  /\ procs' = [procs EXCEPT ![p] = [pc |-> "saveCert", cert |-> roots', key |-> roots']]
  /\ UNCHANGED <<cert, key, served>>

\* Mutant: a certificate that is already there is kept.
MutSaveCert(p) ==
  /\ At(p, "saveCert")
  /\ cert' = IF fileExists(cert) THEN cert ELSE Empty
  /\ GoTo(p, IF fileExists(cert) THEN "saveKey" ELSE "writeCert")
  /\ UNCHANGED <<key, roots, served>>

\* Save: the certificate's file is truncated and written, then the key's.
SaveCert(p) ==
  /\ At(p, "saveCert")
  /\ cert' = Empty /\ GoTo(p, "writeCert")
  /\ UNCHANGED <<key, roots, served>>

WriteCert(p) ==
  /\ At(p, "writeCert")
  /\ cert' = procs[p].cert /\ GoTo(p, "saveKey")
  /\ UNCHANGED <<key, roots, served>>

SaveKey(p) ==
  /\ At(p, "saveKey")
  /\ key' = Empty /\ GoTo(p, "writeKey")
  /\ UNCHANGED <<cert, roots, served>>

WriteKey(p) ==
  /\ At(p, "writeKey")
  /\ key' = procs[p].key
  /\ GoTo(p, "up")
  /\ served' = served \cup {procs[p].cert}
  /\ UNCHANGED <<cert, roots>>

\* A read or a write of a file fails: main ends with the error.
Fail(p) ==
  /\ DiskFails
  /\ procs[p].pc \in {"readCert", "readKey", "saveCert", "writeCert", "saveKey", "writeKey"}
  /\ GoTo(p, "failed")
  /\ UNCHANGED <<cert, key, roots, served>>

\* The process is killed, quits, or is gone after it failed.
End(p) ==
  /\ ~At(p, "down")
  /\ procs' = [procs EXCEPT ![p] = Down]
  /\ UNCHANGED <<cert, key, roots, served>>

-----------------------------------------------------------------------------
Next ==
  \E p \in Procs :
    \/ Start(p) \/ StatCert(p) \/ StatKey(p) \/ ReadCert(p) \/ ReadKey(p)
    \/ Generate(p) \/ SaveCert(p) \/ WriteCert(p) \/ SaveKey(p) \/ WriteKey(p)
    \/ Fail(p) \/ End(p)

Spec == Init /\ [][Next]_vars

-----------------------------------------------------------------------------
(* Properties.                                                             *)

\* The files hold a root, nothing, or are not there; a process that is up has
\* both parts of an authority.
TypeOK ==
  /\ cert \in File /\ key \in File /\ roots \in 0..MaxRoots
  /\ procs \in [Procs -> [pc : {"down", "statCert", "statKey", "readCert", "readKey",
                                "generate", "saveCert", "writeCert", "saveKey",
                                "writeKey", "up", "failed"},
                          cert : File, key : File]]
  /\ \A p \in Procs : At(p, "up") => procs[p].cert \in Root /\ procs[p].key \in Root

\* The authority a process runs with signs with the key of its certificate,
\* whatever crash, failed write or half-finished first start came before:
\* Load never meets the halves of two roots.
PairMatches == \A p \in Procs : At(p, "up") => procs[p].cert = procs[p].key

\* README.md:176: "The CA is generated on first use and reused thereafter":
\* the root the user trusts is the root of every later start.  Two processes
\* that start for the first time together break this, as they break
\* PairMatches: nothing excludes them.
RootReused == Cardinality(served) <= 1
=============================================================================
