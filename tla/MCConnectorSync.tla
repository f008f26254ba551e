---------------------------- MODULE MCConnectorSync ----------------------------
(***************************************************************************)
(* Instances of ConnectorSync for TLC.                                      *)
(***************************************************************************)
EXTENDS ConnectorSync
===============================================================================
