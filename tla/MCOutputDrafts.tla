---------------------------- MODULE MCOutputDrafts ----------------------------
(* OutputDrafts with two runs and two requests that save. *)
EXTENDS OutputDrafts, TLC

CONSTANTS r1, r2, s1, s2

Symmetry == Permutations(Runs) \cup Permutations(Saves)
================================================================================
