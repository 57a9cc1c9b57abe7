---------------------------- MODULE MCWorkflowsPage ----------------------------
(* WorkflowsPage with two runs, of which one is old. *)
EXTENDS WorkflowsPage, TLC

CONSTANTS r1, r2, p1, p2, c1
================================================================================
