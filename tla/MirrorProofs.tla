---------------------------- MODULE MirrorProofs ----------------------------
(***************************************************************************)
(* Theorems about Mirror for any number of concurrent round trips: the     *)
(* mutex and the lazily built client are consistent, an upgrade in force   *)
(* is honoured, and, when a connection addresses one authority, QUIC is    *)
(* never tried before that authority offered it.                           *)
(***************************************************************************)
EXTENDS Mirror, TLAPS

\* Only an h2 client asks for h3, observes Alt-Svc headers and races.
OnlyH2 ==
  /\ \A t \in Trips : trips[t].pc \in {"want", "race", "build", "observe"} => usedH2
  /\ \A t \in Trips : trips[t].via = "racing" => usedH2
  /\ ~usedH2 => ~advertised

\* The racing client is built once: nobody builds when it is there.
BuildOnce == \A t \in Trips : trips[t].pc = "build" => ~built

\* A trip is armed only while the advertisement is in force.
ArmedInForce == \A t \in Trips : trips[t].armed => advertised

\* A trip on its way to the racing client has an authority.
Addressed ==
  \A t \in Trips : trips[t].pc \in {"want", "race", "build", "send", "observe"} =>
    trips[t].auth \in Authorities

\* The advertisement comes from some authority, and so does whatever followed
\* from it.
Offered ==
  /\ advertised => heard # {}
  /\ \A t \in Trips : trips[t].pc \in {"race", "build"} \/ trips[t].via = "racing" =>
       heard # {} /\ trips[t].auth \in Authorities

Inv ==
  /\ TypeOK /\ OnlyH2 /\ BuildOnce /\ ArmedInForce /\ UpgradeHonoured
  /\ Addressed /\ Offered

-----------------------------------------------------------------------------

\* The initial state satisfies the invariant.
LEMMA InvInit == Init => Inv
<1> SUFFICES ASSUME Init PROVE Inv
  OBVIOUS
<1>1. Idle \in [pc : {"idle"}, auth : {None}, via : {"none"}, alt : {{}}, armed : {FALSE}]
  BY DEF Idle
<1>2. \A t \in Trips : trips[t] = Idle
  BY DEF Init
<1>3. TypeOK
  BY <1>1, <1>2, NoTripAssumption DEF Init, TypeOK, AltSvc, Trip
<1>4. OnlyH2 /\ BuildOnce /\ ArmedInForce /\ UpgradeHonoured /\ Addressed /\ Offered
  BY <1>1, <1>2 DEF Init, OnlyH2, BuildOnce, ArmedInForce, UpgradeHonoured, Addressed, Offered
<1> QED
  BY <1>3, <1>4 DEF Inv
\* Every step of RoundTrip keeps it, and so does a stuttering step.
LEMMA InvNext == Inv /\ [Next]_vars => Inv'
<1> SUFFICES ASSUME Inv, [Next]_vars PROVE Inv'
  OBVIOUS
<1> USE NoTripAssumption
<1>1. ASSUME NEW t \in Trips, NEW a \in Authorities, NEW ok \in BOOLEAN, Start(t, a, ok) PROVE Inv'
  <2>0. trips'[t] \in Trip
    BY <1>1 DEF Inv, TypeOK, Trip, Start, Idle, AltSvc
  <2>1. TypeOK'
    BY <1>1, <2>0 DEF Inv, TypeOK, Start, Idle, AltSvc
  <2>2. OnlyH2' /\ Addressed' /\ Offered'
    BY <1>1 DEF Inv, TypeOK, Trip, OnlyH2, Addressed, Offered, Start, Idle, AltSvc
  <2>3. BuildOnce' /\ ArmedInForce' /\ UpgradeHonoured'
    BY <1>1 DEF Inv, TypeOK, Trip, OnlyH2, BuildOnce, ArmedInForce, UpgradeHonoured, Start, Idle, AltSvc
  <2> QED
    BY <2>1, <2>2, <2>3 DEF Inv
<1>2. ASSUME NEW t \in Trips, WantH3(t) PROVE Inv'
  <2>0. trips'[t] \in Trip
    BY <1>2 DEF Inv, TypeOK, Trip, WantH3
  <2>1. TypeOK'
    BY <1>2, <2>0 DEF Inv, TypeOK, WantH3
  <2>2. OnlyH2' /\ Addressed' /\ Offered'
    BY <1>2 DEF Inv, TypeOK, Trip, OnlyH2, Addressed, Offered, WantH3
  <2>3. BuildOnce' /\ ArmedInForce' /\ UpgradeHonoured'
    BY <1>2 DEF Inv, TypeOK, Trip, OnlyH2, BuildOnce, ArmedInForce, UpgradeHonoured, WantH3
  <2> QED
    BY <2>1, <2>2, <2>3 DEF Inv
<1>3. ASSUME NEW t \in Trips, RacingClient(t) PROVE Inv'
  <2>0. trips'[t] \in Trip
    BY <1>3 DEF Inv, TypeOK, Trip, RacingClient, Chosen
  <2>1. TypeOK'
    <3>1. \A u \in Trips \ {t} : trips'[u] = trips[u] /\ mu' # u
      BY <1>3 DEF Inv, TypeOK, RacingClient
    <3>2. mu' = t <=> trips'[t].pc = "build"
      BY <1>3 DEF Inv, TypeOK, Trip, RacingClient
    <3> QED
      BY <1>3, <2>0, <3>1, <3>2 DEF Inv, TypeOK, RacingClient
  <2>2. OnlyH2' /\ Addressed' /\ Offered'
    BY <1>3 DEF Inv, TypeOK, Trip, OnlyH2, Addressed, Offered, RacingClient, Chosen
  <2>3. BuildOnce' /\ ArmedInForce' /\ UpgradeHonoured'
    BY <1>3 DEF Inv, TypeOK, Trip, OnlyH2, BuildOnce, ArmedInForce, UpgradeHonoured, RacingClient, Chosen
  <2> QED
    BY <2>1, <2>2, <2>3 DEF Inv
<1>4. ASSUME NEW t \in Trips, NEW ok \in BOOLEAN, Built(t, ok) PROVE Inv'
  <2>0. trips'[t] \in Trip
    BY <1>4 DEF Inv, TypeOK, Trip, Built, Chosen
  <2>1. TypeOK'
    BY <1>4, <2>0 DEF Inv, TypeOK, Built, Chosen
  <2>2. OnlyH2' /\ Addressed' /\ Offered'
    BY <1>4 DEF Inv, TypeOK, Trip, OnlyH2, Addressed, Offered, Built, Chosen
  <2>3. BuildOnce' /\ ArmedInForce' /\ UpgradeHonoured'
    BY <1>4 DEF Inv, TypeOK, Trip, OnlyH2, BuildOnce, ArmedInForce, UpgradeHonoured, Built, Chosen
  <2> QED
    BY <2>1, <2>2, <2>3 DEF Inv
<1>5. ASSUME NEW t \in Trips, DoFails(t) PROVE Inv'
  <2>0. trips'[t] \in Trip
    BY <1>5 DEF Inv, TypeOK, Trip, DoFails
  <2>1. TypeOK'
    BY <1>5, <2>0 DEF Inv, TypeOK, DoFails
  <2>2. OnlyH2' /\ Addressed' /\ Offered'
    BY <1>5 DEF Inv, TypeOK, Trip, OnlyH2, Addressed, Offered, DoFails
  <2>3. BuildOnce' /\ ArmedInForce' /\ UpgradeHonoured'
    BY <1>5 DEF Inv, TypeOK, Trip, OnlyH2, BuildOnce, ArmedInForce, UpgradeHonoured, DoFails
  <2> QED
    BY <2>1, <2>2, <2>3 DEF Inv
<1>6. ASSUME NEW t \in Trips, NEW alt \in AltSvc, DoReturns(t, alt) PROVE Inv'
  <2>0. trips'[t] \in Trip
    BY <1>6 DEF Inv, TypeOK, Trip, DoReturns
  <2>1. TypeOK'
    BY <1>6, <2>0 DEF Inv, TypeOK, DoReturns
  <2>2. OnlyH2' /\ Addressed' /\ Offered'
    BY <1>6 DEF Inv, TypeOK, Trip, OnlyH2, Addressed, Offered, DoReturns
  <2>3. BuildOnce' /\ ArmedInForce' /\ UpgradeHonoured'
    BY <1>6 DEF Inv, TypeOK, Trip, OnlyH2, BuildOnce, ArmedInForce, UpgradeHonoured, DoReturns
  <2> QED
    BY <2>1, <2>2, <2>3 DEF Inv
<1>7. ASSUME NEW t \in Trips, Observe(t) PROVE Inv'
  <2> DEFINE offers == altSvcPresent(trips[t].alt) => altSvcOffersH3(trips[t].alt)
  <2>1. \A u \in Trips :
          /\ trips'[u].pc = IF u = t THEN "body" ELSE trips[u].pc
          /\ trips'[u].auth = trips[u].auth /\ trips'[u].via = trips[u].via
          /\ trips'[u].armed = (trips[u].armed /\ offers)
    BY <1>7 DEF Inv, TypeOK, Trip, Observe
  <2>2. trips' \in [Trips -> Trip]
    BY <1>7 DEF Inv, TypeOK, Trip, Observe, altSvcPresent, altSvcOffersH3
  <2>3. heard' \subseteq Authorities /\ (heard # {} => heard' # {})
    BY <1>7 DEF Inv, TypeOK, Addressed, Observe
  <2>4. advertised' \in BOOLEAN /\ (advertised /\ offers => advertised')
    <3>1. advertised' = Folded(trips[t].alt) /\ advertised \in BOOLEAN
      BY <1>7 DEF Inv, TypeOK, Observe
    <3>2. Folded(trips[t].alt) \in BOOLEAN
      <4>1. altSvcOffersH3(trips[t].alt) \in BOOLEAN
        BY DEF altSvcOffersH3
      <4>2. CASE altSvcPresent(trips[t].alt)
        BY <4>1, <4>2 DEF Folded
      <4>3. CASE ~altSvcPresent(trips[t].alt)
        BY <3>1, <4>3 DEF Folded
      <4> QED
        BY <4>2, <4>3
    <3>3. advertised /\ offers => Folded(trips[t].alt)
      BY <3>1 DEF Folded
    <3> QED
      BY <3>1, <3>2, <3>3
  <2>5. UNCHANGED <<usedH2, mu, built, client>> /\ trips[t].pc = "observe"
    BY <1>7 DEF Observe
  <2>6. advertised' => heard' # {}
    BY <1>7 DEF Inv, Offered, Observe, Folded
  <2>7. TypeOK'
    BY <2>1, <2>2, <2>3, <2>4, <2>5 DEF Inv, TypeOK
  <2>8. OnlyH2' /\ Addressed' /\ Offered'
    BY <2>1, <2>3, <2>5, <2>6 DEF Inv, TypeOK, OnlyH2, Addressed, Offered
  <2>9. BuildOnce' /\ ArmedInForce' /\ UpgradeHonoured'
    BY <2>1, <2>4, <2>5 DEF Inv, BuildOnce, ArmedInForce, UpgradeHonoured
  <2> QED
    BY <2>7, <2>8, <2>9 DEF Inv
<1>8. ASSUME NEW t \in Trips, NEW ok \in BOOLEAN, ReadBody(t, ok) PROVE Inv'
  <2>0. trips'[t] \in Trip
    BY <1>8 DEF Inv, TypeOK, Trip, ReadBody, Idle, AltSvc
  <2>1. TypeOK'
    BY <1>8, <2>0 DEF Inv, TypeOK, ReadBody, Idle, AltSvc
  <2>2. OnlyH2' /\ Addressed' /\ Offered'
    BY <1>8 DEF Inv, TypeOK, Trip, OnlyH2, Addressed, Offered, ReadBody, Idle, AltSvc
  <2>3. BuildOnce' /\ ArmedInForce' /\ UpgradeHonoured'
    BY <1>8 DEF Inv, TypeOK, Trip, OnlyH2, BuildOnce, ArmedInForce, UpgradeHonoured, ReadBody, Idle, AltSvc
  <2> QED
    BY <2>1, <2>2, <2>3 DEF Inv
<1>9. CASE UNCHANGED vars
  BY <1>9 DEF vars, Inv, TypeOK, OnlyH2, BuildOnce, ArmedInForce, UpgradeHonoured,
              Addressed, Offered
<1> QED
  BY <1>1, <1>2, <1>3, <1>4, <1>5, <1>6, <1>7, <1>8, <1>9 DEF Next, Step

\* upstream.go h3upgrade: whatever requests race, build, fail and observe
\* together, the fields keep their types, the mutex is held exactly by the trip
\* that builds, and the client is there exactly once it was built.
THEOREM TypeCorrect == Spec => []TypeOK
<1>1. Inv => TypeOK
  BY DEF Inv
<1> QED
  BY <1>1, InvInit, InvNext, PTL DEF Spec

\* upstream.go do, wantH3 and observe: a request that starts while h3 is
\* advertised and sees the advertisement stay races h3, unless the racing
\* client could not be built.
THEOREM Upgrade == Spec => []UpgradeHonoured
<1>1. Inv => UpgradeHonoured
  BY DEF Inv
<1> QED
  BY <1>1, InvInit, InvNext, PTL DEF Spec

\* upstream.go:131-133: a connection that addresses one authority never tries
\* QUIC before that authority offered h3, nor for an h1 client.
THEOREM NoSpeculation ==
  (\A a, b \in Authorities : a = b) => (Spec => []NoSpeculativeQuic)
<1> SUFFICES ASSUME \A a, b \in Authorities : a = b
             PROVE  Spec => []NoSpeculativeQuic
  OBVIOUS
<1>1. Inv => NoSpeculativeQuic
  BY DEF Inv, TypeOK, OnlyH2, Offered, NoSpeculativeQuic
<1> QED
  BY <1>1, InvInit, InvNext, PTL DEF Spec
=============================================================================
