------------------------------- MODULE MCPlanSync -------------------------------
(* PlanSync with one or two refreshing requests and one charging request. *)
EXTENDS PlanSync, TLC

CONSTANTS s1, s2, c1

Symmetry == Permutations(Syncers)
================================================================================
