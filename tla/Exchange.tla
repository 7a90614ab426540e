------------------------------ MODULE Exchange ------------------------------
(***************************************************************************)
(* What the proxy promises of the exchanges of its clients, whatever the   *)
(* protocol of a connection: a request is taken once and as it was sent,   *)
(* recorded once, with the response the client is given, and before any of *)
(* that response is written.  Only exchanges of a connection whose client  *)
(* could not be mirrored are refused: answered with one same error, and    *)
(* never recorded.                                                         *)
(***************************************************************************)
EXTENDS Naturals, Sequences

CONSTANTS
  Exchanges,  \* the requests of the clients
  Request,    \* what a request may be
  Response,   \* what a response may be
  Refusal,    \* the response to an exchange that is refused
  None        \* not yet

VARIABLES
  mirror, \* the upstream mirror of each: "unknown", "built" or "failed"
  asked,  \* the request of each exchange, once it is complete
  log,    \* the recorded exchanges, in order
  reply,  \* the response the proxy gives each exchange
  got     \* the response the client has of each exchange

vars == <<mirror, asked, log, reply, got>>

Unset == [e \in Exchanges |-> None]

Init ==
  /\ mirror = [e \in Exchanges |-> "unknown"]
  /\ asked = Unset /\ log = <<>> /\ reply = Unset /\ got = Unset

Recorded(e) == \E i \in 1..Len(log) : log[i].of = e

\* The mirror of a connection is built, or cannot be; this is decided once.
Decide ==
  /\ mirror' \in [Exchanges -> {"unknown", "built", "failed"}]
  /\ \A e \in Exchanges : mirror[e] # "unknown" => mirror'[e] = mirror[e]
  /\ UNCHANGED <<asked, log, reply, got>>

\* A request is complete.
Ask(e) ==
  /\ asked[e] = None
  /\ asked'[e] \in Request
  /\ asked' = [asked EXCEPT ![e] = asked'[e]]
  /\ UNCHANGED <<mirror, log, reply, got>>

\* It is recorded, as it was asked, with some response.
Record(e) ==
  /\ mirror[e] = "built"
  /\ asked[e] # None /\ reply[e] = None /\ ~Recorded(e)
  /\ Len(log') = Len(log) + 1
  /\ LET r == log'[Len(log) + 1].response
     IN  /\ r \in Response
         /\ log' = Append(log, [of |-> e, request |-> asked[e], response |-> r])
  /\ UNCHANGED <<mirror, asked, reply, got>>

\* The proxy starts to answer with the recorded response, or refuses.
Reply(e) ==
  /\ asked[e] # None /\ reply[e] = None
  /\ \/ \E i \in 1..Len(log) :
          log[i].of = e /\ reply' = [reply EXCEPT ![e] = log[i].response]
     \/ mirror[e] = "failed" /\ reply' = [reply EXCEPT ![e] = Refusal]
  /\ UNCHANGED <<mirror, asked, log, got>>

\* The client has the whole answer.
Deliver(e) ==
  /\ reply[e] # None /\ got[e] = None
  /\ got' = [got EXCEPT ![e] = reply[e]]
  /\ UNCHANGED <<mirror, asked, log, reply>>

Next == Decide \/ \E e \in Exchanges : Ask(e) \/ Record(e) \/ Reply(e) \/ Deliver(e)

Spec == Init /\ [][Next]_vars
=============================================================================
