------------------------------ MODULE MCWorkflow ------------------------------
(* Two nodes show what waits for what; one node is enough to follow a        *)
(* workflow through resumes and restarts to its last summary.                *)
EXTENDS WorkflowEngine

CONSTANTS plan, build

MCNode == { plan, build }
MCOneNode == { plan }
=============================================================================
