------------------------------ MODULE Delivery ------------------------------
(***************************************************************************)
(* What the customer of a service request is promised about the CRM: one   *)
(* card for the request, and on it every message written in Pass once, in  *)
(* the order the messages were written.  Outages, lost answers, crashes    *)
(* and retries are forgotten.  Desk implements this specification.         *)
(***************************************************************************)
EXTENDS Integers, Sequences, Functions

VARIABLES
  cards,    \* how many cards the request has
  written,  \* numbers of the messages written in Pass
  posted    \* the messages that became comments of the card, in that order

vars == <<cards, written, posted>>

Init ==
  /\ cards = 0
  /\ written = {1}
  /\ posted = <<>>

\* A message gets a number above all earlier ones; the numbers that are left
\* out belong to the replies of the CRM.
Write ==
  /\ \E m \in written' \ written :
       /\ written' = written \cup {m}
       /\ \A k \in written : k < m
  /\ UNCHANGED <<cards, posted>>

OpenCard ==
  /\ cards = 0
  /\ cards' = 1
  /\ UNCHANGED <<written, posted>>

Post(m) ==
  /\ cards = 1
  /\ m \in written \ Range(posted)
  /\ \A k \in written : k < m => k \in Range(posted)
  /\ posted' = Append(posted, m)
  /\ UNCHANGED <<cards, written>>

Next ==
  \/ OpenCard
  \/ Write
  \/ \E m \in written : Post(m)

Spec == Init /\ [][Next]_vars
=============================================================================
