-------------------------------- MODULE PageRuns --------------------------------
(* What the two models of features/workflows/WorkflowsPage.tsx share. *)
CONSTANTS
    Runs,   \* run ids
    None    \* no run, row, call, draft or page
================================================================================
