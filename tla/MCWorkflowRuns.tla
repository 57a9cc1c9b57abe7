----------------------------- MODULE MCWorkflowRuns -----------------------------
(* WorkflowRuns with one or two request threads. *)
EXTENDS WorkflowRuns, TLC

CONSTANTS r1, r2, job

Symmetry == Permutations(Requesters)
================================================================================
