----------------------------- MODULE MCBookings -----------------------------
(***************************************************************************)
(* Two bookings that compete for rooms and for one hours account.          *)
(***************************************************************************)
EXTENDS Bookings, TLC

CONSTANTS b1, b2, c1, c2


Symmetry == Permutations(Booking) \cup Permutations(Cell)

\* The revision of a row matters only as "the draft was priced from this row":
\* the view forgets the counter and keeps that comparison.
View ==
  <<[b \in Booking |-> [row[b] EXCEPT !.revision = 0]], paid, net, online,
    account, quota, sweep,
    IF draft = NoDraft THEN draft
    ELSE IF CurrentDraft(draft.id) THEN [draft EXCEPT !.revision = 0]
    ELSE [id |-> "stale"]>>
=============================================================================
