------------------------------- MODULE Mirror -------------------------------
(***************************************************************************)
(* The upstream client of one client connection (internal/upstream): the   *)
(* concurrent round trips of its requests, and the HTTP/3 upgrade state     *)
(* they share (h3upgrade), armed and disarmed by the Alt-Svc headers of the *)
(* origins' responses.  The racing client is built on first use, under the  *)
(* mutex, and a failure to build it is remembered.                         *)
(*                                                                         *)
(* A trip is a slot for RoundTrip calls: it starts again once it returned, *)
(* so behaviours are endless although states are few.  The origins and the *)
(* transport library are external: a call of Do fails, or brings back a    *)
(* response with any Alt-Svc header.                                       *)
(***************************************************************************)
EXTENDS FiniteSets

CONSTANTS
  Trips,        \* slots for round trips in flight
  Authorities,  \* authorities the client addresses on the connection
  None          \* no trip holds the mutex

ASSUME NoTripAssumption == None \notin Trips

VARIABLES
  usedH2,      \* Mirror.usedH2: an h2 client, so up is not nil
  mu,          \* holder of h3upgrade.mu during a build, or None
  advertised, built, client,   \* the fields of h3upgrade; client "none", "ok"
                               \* or "err" (buildErr)
  trips,       \* the round trips
  heard        \* history: authorities that offered h3

vars == <<usedH2, mu, advertised, built, client, trips, heard>>

\* An Alt-Svc header is the set of its protocol ids; no header is {}.
AltSvc == SUBSET {"h3", "other"}

altSvcPresent(alt)  == alt # {}
altSvcOffersH3(alt) == "h3" \in alt

\* armed: when the trip started, and ever since, h3 was advertised.
Idle == [pc |-> "idle", auth |-> None, via |-> "none", alt |-> {}, armed |-> FALSE]

\* NewMirror for an h1 or an h2 client.
Init ==
  /\ usedH2 \in BOOLEAN
  /\ mu = None /\ advertised = FALSE /\ built = FALSE /\ client = "none"
  /\ trips = [t \in Trips |-> Idle]
  /\ heard = {}

InFlight == {t \in Trips : trips[t].pc \notin {"idle", "failed"}}

-----------------------------------------------------------------------------
(* RoundTrip.                                                              *)

\* RoundTrip begins: a request that cannot be built fails at once.  serveH1
\* makes one call after the other, serveH2 one per stream.
Start(t, a, ok) ==
  /\ trips[t].pc \in {"idle", "failed"}
  /\ usedH2 \/ InFlight = {}
  /\ trips' = [trips EXCEPT ![t] =
       [Idle EXCEPT !.pc = IF ~ok THEN "failed" ELSE IF usedH2 THEN "want" ELSE "send",
                    !.auth = a,
                    !.via = IF ok /\ ~usedH2 THEN "h2" ELSE "none",
                    !.armed = ok /\ advertised]]
  /\ UNCHANGED <<usedH2, mu, advertised, built, client, heard>>

\* Mutant: every request of an h2 client races.
MutWantH3(t) ==
  /\ trips[t].pc = "want" /\ mu = None
  /\ trips' = [trips EXCEPT ![t].pc = "race"]
  /\ UNCHANGED <<usedH2, mu, advertised, built, client, heard>>

\* do asks wantH3.
WantH3(t) ==
  /\ trips[t].pc = "want" /\ mu = None
  /\ trips' = [trips EXCEPT ![t].pc = IF advertised THEN "race" ELSE "send",
                            ![t].via = IF advertised THEN @ ELSE "h2"]
  /\ UNCHANGED <<usedH2, mu, advertised, built, client, heard>>

\* The client do uses once racingClient returned c: the racing one, or h2 when
\* it could not be built.
Chosen(c) == IF c = "ok" THEN "racing" ELSE "h2"

\* racingClient: take the mutex and build, or return what was built.
RacingClient(t) ==
  /\ trips[t].pc = "race" /\ mu = None
  /\ IF ~built
     THEN /\ mu' = t
          /\ trips' = [trips EXCEPT ![t].pc = "build"]
     ELSE /\ trips' = [trips EXCEPT ![t].pc = "send", ![t].via = Chosen(client)]
          /\ UNCHANGED mu
  /\ UNCHANGED <<usedH2, advertised, built, client, heard>>

\* Mutant: the error path returns without releasing the mutex.
MutBuilt(t, ok) ==
  /\ trips[t].pc = "build"
  /\ client' = IF ok THEN "ok" ELSE "err"
  /\ built' = TRUE
  /\ mu' = IF ok THEN None ELSE mu
  /\ trips' = [trips EXCEPT ![t].pc = "send", ![t].via = Chosen(client')]
  /\ UNCHANGED <<usedH2, advertised, heard>>

\* build returns, the result is kept, the mutex released.
Built(t, ok) ==
  /\ trips[t].pc = "build"
  /\ client' = IF ok THEN "ok" ELSE "err"
  /\ built' = TRUE
  /\ mu' = None
  /\ trips' = [trips EXCEPT ![t].pc = "send", ![t].via = Chosen(client')]
  /\ UNCHANGED <<usedH2, advertised, heard>>

\* Do returns an error, and so does RoundTrip.
DoFails(t) ==
  /\ trips[t].pc = "send"
  /\ trips' = [trips EXCEPT ![t].pc = "failed"]
  /\ UNCHANGED <<usedH2, mu, advertised, built, client, heard>>

\* Do returns the origin's response.
DoReturns(t, alt) ==
  /\ trips[t].pc = "send"
  /\ trips' = [trips EXCEPT ![t].pc = IF usedH2 THEN "observe" ELSE "body",
                            ![t].alt = alt]
  /\ UNCHANGED <<usedH2, mu, advertised, built, client, heard>>

\* Mutant: a response without Alt-Svc disarms too.
MutFolded(alt) == altSvcOffersH3(alt)

\* What observe makes of advertised.
Folded(alt) == IF altSvcPresent(alt) THEN altSvcOffersH3(alt) ELSE advertised

\* observe, which needs the mutex only when the header is there.
Observe(t) ==
  LET alt == trips[t].alt IN
  /\ trips[t].pc = "observe"
  /\ altSvcPresent(alt) => mu = None
  /\ advertised' = Folded(alt)
  /\ heard' = IF altSvcOffersH3(alt) THEN heard \cup {trips[t].auth} ELSE heard
  /\ trips' = [u \in Trips |->
       [trips[u] EXCEPT
          !.pc = IF u = t THEN "body" ELSE @,
          !.armed = @ /\ (altSvcPresent(alt) => altSvcOffersH3(alt))]]
  /\ UNCHANGED <<usedH2, mu, built, client>>

\* The body is read to its end, or fails on the way; RoundTrip returns.
ReadBody(t, ok) ==
  /\ trips[t].pc = "body"
  /\ trips' = [trips EXCEPT ![t] =
                 IF ok THEN Idle ELSE [Idle EXCEPT !.pc = "failed"]]
  /\ UNCHANGED <<usedH2, mu, advertised, built, client, heard>>

-----------------------------------------------------------------------------
Step(t) ==
  \/ WantH3(t) \/ RacingClient(t) \/ DoFails(t) \/ Observe(t)
  \/ \E ok \in BOOLEAN : Built(t, ok) \/ ReadBody(t, ok)
  \/ \E alt \in AltSvc : DoReturns(t, alt)

Next ==
  \E t \in Trips :
    \/ \E a \in Authorities, ok \in BOOLEAN : Start(t, a, ok)
    \/ Step(t)

Spec == Init /\ [][Next]_vars

\* Goroutines run, the origin answers or its connection fails, and Go's mutex
\* hands itself to a waiter that starves: a trip that again and again could go
\* on does so.
FairSpec == Spec /\ \A t \in Trips : SF_vars(Step(t))

-----------------------------------------------------------------------------
(* Properties.                                                             *)

Trip ==
  [pc : {"idle", "failed", "want", "race", "build", "send", "observe", "body"},
   auth : Authorities \cup {None}, via : {"none", "h2", "racing"},
   alt : AltSvc, armed : BOOLEAN]

\* The fields of Mirror, h3upgrade and the trips keep their types; the mutex
\* is held only by a trip that is building, and the client is there once built.
TypeOK ==
  /\ usedH2 \in BOOLEAN /\ advertised \in BOOLEAN /\ built \in BOOLEAN
  /\ client \in {"none", "ok", "err"} /\ (built <=> client # "none")
  /\ trips \in [Trips -> Trip]
  /\ mu \in Trips \cup {None}
  /\ \A t \in Trips : mu = t <=> trips[t].pc = "build"
  /\ heard \subseteq Authorities

\* upstream.go:131-133: QUIC is only touched after an origin advertised h3,
\* never speculatively on first contact, and never for an h1 client.  With two
\* authorities on a connection this fails, since they share one h3upgrade.
NoSpeculativeQuic ==
  \A t \in Trips : trips[t].via = "racing" => usedH2 /\ trips[t].auth \in heard

\* A request that starts while h3 is advertised, and sees no response take the
\* advertisement back before it is sent, races h3, unless the racing client
\* could not be built: responses without Alt-Svc leave the upgrade in force.
UpgradeHonoured ==
  \A t \in Trips :
    trips[t].pc = "send" /\ trips[t].via = "h2" /\ trips[t].armed => client = "err"

\* A request is never lost over the h3 setup: every round trip returns, also
\* the ones that waited for a build that failed.
EveryTripReturns == \A t \in Trips : t \in InFlight ~> t \notin InFlight
=============================================================================
