---------------------------- MODULE MCWorkflowRuns ----------------------------
(***************************************************************************)
(* Instances of WorkflowRuns for TLC.                                      *)
(***************************************************************************)
EXTENDS WorkflowRuns
===============================================================================
