--------------------------- MODULE AbstractWorkflow ---------------------------
(***************************************************************************)
(* What running a workflow means, with waves, retries, gates and budgets    *)
(* left out: a node's fate is settled once, after those of all the nodes it *)
(* depends on; it is skipped exactly when nothing reaches it; and a run     *)
(* completes only with every fate settled.                                  *)
(***************************************************************************)
CONSTANTS Definitions, Fates

VARIABLES definition, fate, outcome

vars == <<definition, fate, outcome>>

Init ==
  /\ definition \in Definitions
  /\ fate = [n \in definition.nodes |-> "pending"]
  /\ outcome = "running"

Into(n) == {e \in definition.edges : e.target = n}

\* Inputs are there from the start.
Ready(n) ==
  \/ definition.type[n] = "input"
  \/ \A e \in Into(n) : fate[e.source] # "pending"

Carries(e) ==
  /\ fate[e.source] # "skipped"
  /\ \/ definition.type[e.source] # "condition" \/ e.handle = "none"
     \/ fate[e.source] \notin {"true", "false"} \/ fate[e.source] = e.handle

Reached(n) ==
  \/ definition.type[n] = "input" \/ Into(n) = {}
  \/ \E e \in Into(n) : Carries(e)

\* Any number of nodes that are ready, at once.
SettleFates ==
  /\ outcome = "running"
  /\ fate' \in [definition.nodes -> Fates \cup {"pending", "skipped"}]
  /\ \A n \in definition.nodes : fate'[n] # fate[n] =>
       /\ fate[n] = "pending" /\ Ready(n)
       /\ fate'[n] = "skipped" <=> ~Reached(n)
  /\ UNCHANGED <<definition, outcome>>

Complete ==
  /\ outcome = "running" /\ outcome' = "complete"
  /\ \A n \in definition.nodes : fate[n] # "pending"
  /\ UNCHANGED <<definition, fate>>

Fail ==
  /\ outcome = "running" /\ outcome' = "failed"
  /\ UNCHANGED <<definition, fate>>

Next == SettleFates \/ Complete \/ Fail
Spec == Init /\ [][Next]_vars
===============================================================================
