------------------------------ MODULE MCLogin ------------------------------
(***************************************************************************)
(* Two calls at a time, three requests that send a code, a password login. *)
(***************************************************************************)
EXTENDS Login, TLC

Interchangeable == Permutations(Calls) \cup Permutations(Keys \ {First})
=============================================================================
