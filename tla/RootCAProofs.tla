---------------------------- MODULE RootCAProofs ----------------------------
(***************************************************************************)
(* Theorems about RootCA for any number of generations, with or without    *)
(* disk errors.  The types hold for any processes; that the pair on disk   *)
(* matches and is reused holds when the processes run one after the other, *)
(* wherever each of them is killed.                                        *)
(***************************************************************************)
EXTENDS RootCA, FiniteSetTheorems, TLAPS

\* A process holds the parts of an authority its position says it holds.
Parts ==
  \A p \in Procs :
    /\ procs[p].pc \in {"readKey", "up"} => procs[p].cert \in Root
    /\ procs[p].pc \in {"saveCert", "writeCert", "saveKey", "writeKey"} =>
         procs[p].cert \in Root /\ procs[p].key = procs[p].cert

\* The key is written after the certificate, so a key file that is there
\* belongs to the certificate, and a key that decodes is the certificate's.
KeyLast ==
  /\ key # Absent => cert \in Root
  /\ key \in Root => key = cert

\* Where the process that runs stands with the files.
OnDisk ==
  \A p \in Procs :
    /\ procs[p].pc \in {"generate", "saveCert", "writeCert", "saveKey"} => key = Absent
    /\ procs[p].pc = "writeKey" => key = Empty
    /\ procs[p].pc \in {"saveKey", "writeKey"} => cert = procs[p].cert
    /\ procs[p].pc = "readKey" => cert = procs[p].cert
    /\ procs[p].pc = "statKey" => cert # Absent

\* A root that was served is the root on disk, and complete.
ServedOnDisk == served # {} => key \in Root /\ served = {cert}

OneProc == \A p, q \in Procs : p = q

Types == TypeOK /\ Parts

Inv == Types /\ KeyLast /\ OnDisk /\ ServedOnDisk /\ PairMatches

-----------------------------------------------------------------------------
\* Absent and Empty are no roots and differ.
LEMMA Files == Absent \notin Root /\ Empty \notin Root /\ Absent # Empty
  BY RootCAAssumption DEF Absent, Empty, Root

\* Types hold at the start.
LEMMA TypesInit == Init => Types
  BY RootCAAssumption, Files
     DEF Init, Types, TypeOK, Parts, Down, File, At

\* Every step of any process keeps them.
LEMMA TypesNext == Types /\ [Next]_vars => Types'
<1> SUFFICES ASSUME Types, [Next]_vars PROVE Types'
  OBVIOUS
<1> USE RootCAAssumption, Files DEF Types, TypeOK, Parts, At, GoTo
<1>1. ASSUME NEW p \in Procs, Start(p) PROVE Types'
  BY <1>1 DEF Start
<1>2. ASSUME NEW p \in Procs, StatCert(p) PROVE Types'
  BY <1>2 DEF StatCert
<1>3. ASSUME NEW p \in Procs, StatKey(p) PROVE Types'
  BY <1>3 DEF StatKey
<1>4. ASSUME NEW p \in Procs, ReadCert(p) PROVE Types'
  BY <1>4 DEF ReadCert
<1>5. ASSUME NEW p \in Procs, ReadKey(p) PROVE Types'
  BY <1>5 DEF ReadKey
<1>6. ASSUME NEW p \in Procs, Generate(p) PROVE Types'
  BY <1>6 DEF Generate, File, Root
<1>7. ASSUME NEW p \in Procs, SaveCert(p) PROVE Types'
  BY <1>7 DEF SaveCert, File
<1>8. ASSUME NEW p \in Procs, WriteCert(p) PROVE Types'
  BY <1>8 DEF WriteCert
<1>9. ASSUME NEW p \in Procs, SaveKey(p) PROVE Types'
  BY <1>9 DEF SaveKey, File
<1>10. ASSUME NEW p \in Procs, WriteKey(p) PROVE Types'
  BY <1>10 DEF WriteKey
<1>11. ASSUME NEW p \in Procs, Fail(p) PROVE Types'
  BY <1>11 DEF Fail
<1>12. ASSUME NEW p \in Procs, End(p) PROVE Types'
  BY <1>12 DEF End, Down, File
<1>13. CASE UNCHANGED vars
  BY <1>13 DEF vars
<1> QED
  BY <1>1, <1>2, <1>3, <1>4, <1>5, <1>6, <1>7, <1>8, <1>9, <1>10, <1>11, <1>12,
     <1>13 DEF Next

-----------------------------------------------------------------------------
\* The full invariant at the start.
LEMMA InvInit == Init => Inv
  BY TypesInit, Files
     DEF Init, Inv, KeyLast, OnDisk, ServedOnDisk, PairMatches, Down, At

\* Every step of the one process keeps it.
LEMMA InvNext == OneProc /\ Inv /\ [Next]_vars => Inv'
<1> SUFFICES ASSUME OneProc, Inv, [Next]_vars PROVE Inv'
  OBVIOUS
<1>0. Types'
  BY TypesNext DEF Inv
<1> USE <1>0, Files
    DEF OneProc, Inv, Types, TypeOK, Parts, KeyLast, OnDisk, ServedOnDisk,
        PairMatches, At, GoTo
<1>1. ASSUME NEW p \in Procs, Start(p) PROVE Inv'
  BY <1>1 DEF Start
<1>2. ASSUME NEW p \in Procs, StatCert(p) PROVE Inv'
  BY <1>2 DEF StatCert, fileExists
<1>3. ASSUME NEW p \in Procs, StatKey(p) PROVE Inv'
  BY <1>3 DEF StatKey, fileExists
<1>4. ASSUME NEW p \in Procs, ReadCert(p) PROVE Inv'
  BY <1>4 DEF ReadCert
<1>5. ASSUME NEW p \in Procs, ReadKey(p) PROVE Inv'
  BY <1>5 DEF ReadKey
<1>6. ASSUME NEW p \in Procs, Generate(p) PROVE Inv'
  BY <1>6 DEF Generate
<1>7. ASSUME NEW p \in Procs, SaveCert(p) PROVE Inv'
  BY <1>7 DEF SaveCert
<1>8. ASSUME NEW p \in Procs, WriteCert(p) PROVE Inv'
  BY <1>8 DEF WriteCert
<1>9. ASSUME NEW p \in Procs, SaveKey(p) PROVE Inv'
  BY <1>9 DEF SaveKey
<1>10. ASSUME NEW p \in Procs, WriteKey(p) PROVE Inv'
  BY <1>10 DEF WriteKey
<1>11. ASSUME NEW p \in Procs, Fail(p) PROVE Inv'
  BY <1>11 DEF Fail
<1>12. ASSUME NEW p \in Procs, End(p) PROVE Inv'
  BY <1>12 DEF End, Down
<1>13. CASE UNCHANGED vars
  BY <1>13 DEF vars
<1> QED
  BY <1>1, <1>2, <1>3, <1>4, <1>5, <1>6, <1>7, <1>8, <1>9, <1>10, <1>11, <1>12,
     <1>13 DEF Next

-----------------------------------------------------------------------------
\* ca.go LoadOrGenerate: any number of processes keep the types of the files
\* and of the authorities they hold.
THEOREM TypeCorrect == Spec => []TypeOK
<1>1. Types => TypeOK
  BY DEF Types
<1> QED
  BY <1>1, TypesInit, TypesNext, PTL DEF Spec

\* ca.go Save and Load: with one process at a time, no crash or failed write
\* between the two files ever makes a later start combine the certificate of
\* one root with the key of another.
THEOREM Matching == OneProc => (Spec => []PairMatches)
<1> SUFFICES ASSUME OneProc PROVE Spec => []PairMatches
  OBVIOUS
<1>1. Inv /\ [Next]_vars => Inv'
  BY InvNext
<1>2. Inv => PairMatches
  BY DEF Inv
<1> QED
  BY <1>1, <1>2, InvInit, PTL DEF Spec

\* ca.go LoadOrGenerate and README.md:176: with one process at a time, every
\* start that comes up has the root of the first one that did.
THEOREM Reuse == OneProc => (Spec => []RootReused)
<1> SUFFICES ASSUME OneProc PROVE Spec => []RootReused
  OBVIOUS
<1>1. Inv /\ [Next]_vars => Inv'
  BY InvNext
<1>2. Inv => RootReused
  <2> SUFFICES ASSUME Inv PROVE RootReused
    OBVIOUS
  <2>1. Cardinality({}) = 0 /\ Cardinality({cert}) = 1
    BY FS_EmptySet, FS_Singleton
  <2>2. served = {} \/ served = {cert}
    BY DEF Inv, ServedOnDisk
  <2> QED
    BY <2>1, <2>2 DEF RootReused
<1> QED
  BY <1>1, <1>2, InvInit, PTL DEF Spec
=============================================================================
