---------------------------- MODULE SessionStore ----------------------------
(***************************************************************************)
(* What the durable store promises its single writer: a session is the     *)
(* sequence of its entries in the order they were inserted.  A session     *)
(* only grows at its end, is removed as a whole, and keeps its entries     *)
(* under a new name that no other session has.                             *)
(***************************************************************************)
EXTENDS Naturals, Sequences

CONSTANT Sessions

VARIABLES
  stored,  \* the entries of each session, in order
  last     \* the entries ever inserted, numbered in order

Init == stored = [s \in Sessions |-> <<>>] /\ last = 0

\* One more entry.
Add(s) ==
  /\ last' = last + 1
  /\ stored' = [stored EXCEPT ![s] = Append(@, last')]

\* A session goes, all of it at once.
Remove(s) ==
  /\ stored' = [stored EXCEPT ![s] = <<>>]
  /\ UNCHANGED last

\* A session gets a free name.
Move(old, new) ==
  /\ stored[new] = <<>>
  /\ stored' = [stored EXCEPT ![new] = stored[old], ![old] = <<>>]
  /\ UNCHANGED last

Next ==
  \/ \E s \in Sessions : Add(s) \/ Remove(s)
  \/ \E old, new \in Sessions : Move(old, new)

Spec == Init /\ [][Next]_<<stored, last>>
=============================================================================
