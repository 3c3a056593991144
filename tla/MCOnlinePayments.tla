-------------------------- MODULE MCOnlinePayments --------------------------
(***************************************************************************)
(* A backend of one or two processes and a customer's browser.             *)
(***************************************************************************)
EXTENDS OnlinePayments, TLC

CONSTANTS p1, p2, w1, w2, v1

Symmetry == Permutations(Payment) \cup Permutations(Worker)
=============================================================================
