-------------------------- MODULE MCBackgroundAgents --------------------------
(***************************************************************************)
(* Instances of BackgroundAgents for TLC.                                  *)
(***************************************************************************)
EXTENDS BackgroundAgents
===============================================================================
