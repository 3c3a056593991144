----------------------------- MODULE MCCutover -----------------------------
(***************************************************************************)
(* A trial export and the final one, two parts of data, two shells.        *)
(***************************************************************************)
EXTENDS Cutover, TLC

CONSTANTS trial, final, rows, files, s1, s2

Symmetry == Permutations(Shell) \cup Permutations(Part)
=============================================================================
