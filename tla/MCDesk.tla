------------------------------- MODULE MCDesk -------------------------------
(***************************************************************************)
(* One request, two users of the portal, one company, everybody on the     *)
(* Pass side writing the same text: the case in which an answer that was   *)
(* lost is hardest to reconcile.                                           *)
(***************************************************************************)
EXTENDS Desk

Same == {"ask"}
Words == {"yes", "no"}
=============================================================================
