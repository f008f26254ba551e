------------------------- MODULE AbstractDeliberation -------------------------
(***************************************************************************)
(* What a deliberation promises its caller, with rounds, phases and scores  *)
(* of individual calls left out: it holds at most one candidate, replaces   *)
(* it only by one with a strictly higher score, and finally either publishes*)
(* the candidate it holds or fails.                                         *)
(***************************************************************************)
EXTENDS Integers

CONSTANTS
  Candidates,   \* what a "done" event can carry
  NoCandidate,  \* an empty "done" event
  MaxScore

VARIABLES
  stage,        \* "deliberating", "concluding", "published" or "failed"
  held,         \* the candidate held
  score,        \* its score, -1 when it was never scored
  published

vars == <<stage, held, score, published>>

Init ==
  /\ stage = "deliberating" /\ held = NoCandidate /\ score = -1
  /\ published = NoCandidate

\* A first candidate, or a strictly better one.
Improve ==
  /\ stage = "deliberating"
  /\ held' \in Candidates \ {NoCandidate}
  /\ score' \in -1..MaxScore
  /\ held = NoCandidate \/ score' > score
  /\ UNCHANGED <<stage, published>>

Conclude ==
  /\ stage = "deliberating" /\ stage' = "concluding"
  /\ UNCHANGED <<held, score, published>>

Publish ==
  /\ stage = "concluding" /\ stage' = "published"
  /\ published' = held
  /\ UNCHANGED <<held, score>>

Fail ==
  /\ stage \in {"deliberating", "concluding"} /\ stage' = "failed"
  /\ UNCHANGED <<held, score, published>>

Next == Improve \/ Conclude \/ Publish \/ Fail
Spec == Init /\ [][Next]_vars
===============================================================================
