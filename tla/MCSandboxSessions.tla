-------------------------- MODULE MCSandboxSessions --------------------------
(***************************************************************************)
(* Instances of SandboxSessions for TLC.                                   *)
(***************************************************************************)
EXTENDS SandboxSessions
===============================================================================
