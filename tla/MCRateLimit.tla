------------------------------ MODULE MCRateLimit ------------------------------
(* RateLimit with two or three requests of one user and caps of a few units. *)
EXTENDS RateLimit, TLC

CONSTANTS c1, c2, c3

Symmetry == Permutations(Chargers)
================================================================================
