---------------------------- MODULE MCDeliberation ----------------------------
(***************************************************************************)
(* Instances of Deliberation for TLC.                                      *)
(***************************************************************************)
EXTENDS Deliberation, TLC

\* Members are interchangeable when all of them or none has a fallback.
MemberSymmetry == Permutations(Members)
===============================================================================
