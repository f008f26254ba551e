-------------------------------- MODULE MCAsk --------------------------------
(***************************************************************************)
(* Instances of Ask for TLC.                                                *)
(***************************************************************************)
EXTENDS Ask, TLC

CONSTANTS q1, q2, a1, i1, s1, s2

\* Requests are told apart by what they do only.
RequestSymmetry == Permutations(Requests)

\* One question without and with an image, and another one with an image.
SomeBodies ==
  {[question |-> q1, attached |-> a1, settings |-> s1],
   [question |-> q1, attached |-> i1, settings |-> s1],
   [question |-> q2, attached |-> i1, settings |-> s2]}
===============================================================================
