--------------------------- MODULE WorkflowExecutor ---------------------------
(***************************************************************************)
(* One run of WorkflowExecutor (workflow/executor.ts): the nodes of a       *)
(* workflow are sorted into waves, the nodes of a wave run in parallel and  *)
(* its human gates one after the other, nodes behind a branch not taken are *)
(* skipped, failing nodes are healed by retries, and a budget of time and   *)
(* cost stops the run between waves.                                        *)
(*                                                                         *)
(* What a node computes is left out, but for the branch of a condition.     *)
(* The order of the nodes within a wave is arbitrary.                       *)
(***************************************************************************)
EXTENDS Integers, Sequences, FiniteSets

CONSTANTS
  Definitions,  \* the workflow definitions a run may be started with
  Choices,      \* what a human may answer at a gate
  MaxAttempts,  \* the largest selfHealing.maxAttempts (5)
  MaxCost,      \* MAX_WORKFLOW_COST_USD
  NoNode

\* Every type but these is treated like "tool".
NodeTypes  == {"input", "condition", "llm", "tool", "gate"}
Handles    == {"none", "true", "false"}
Idempotent == {"llm", "condition", "input"}

\* A definition that validateWorkflowDefinition() lets through: its edges join
\* nodes it has, and nothing else is asked of them.
IsDefinition(d) ==
  /\ d.type \in [d.nodes -> NodeTypes]
  /\ d.edges \subseteq [source : d.nodes, handle : Handles, target : d.nodes]
  /\ IsFiniteSet(d.nodes) /\ NoNode \notin d.nodes

ASSUME DefinitionsAssumption == \A d \in Definitions : IsDefinition(d)
ASSUME LimitsAssumption ==
  MaxAttempts \in Nat /\ MaxCost \in Nat \ {0} /\ {"none", "timeout"} \cap Choices = {}

VARIABLES
  definition,
  levels,          \* the waves, in order
  levelIdx,        \* the wave under way
  pc,
  state,           \* what became of each node
  attempt,         \* the attempt each node is at
  contextMap,      \* the nodes whose result is recorded
  gate, choice,    \* the gate waited for, and what settled it
  pendingGates,    \* the gates resumeGate() can resolve
  gateStore,       \* the gates persisted for a human to look at
  accumulatedCost,
  overdue,         \* MAX_WORKFLOW_DURATION_MS has passed
  selfHealing      \* the global configuration: 0 disabled, else maxAttempts

gateVars == <<gate, choice, pendingGates>>
planVars == <<definition, levels>>
vars == <<planVars, levelIdx, pc, state, attempt, contextMap, gateVars,
          gateStore, accumulatedCost, overdue, selfHealing>>

Nodes   == definition.nodes
Type(n) == definition.type[n]
Into(n) == {e \in definition.edges : e.target = n}

Ran     == {"ok", "true", "false", "escalated"}
Settled == Ran \cup {"skipped", "fatal"}
States  == {"waiting", "running", "healing"} \cup Settled
Over    == {"complete", "failed"}

Init ==
  /\ definition \in Definitions
  /\ levels = <<>> /\ levelIdx = 1 /\ pc = "plan"
  /\ state = [n \in Nodes |-> "waiting"]
  /\ attempt = [n \in Nodes |-> 0]
  /\ contextMap = {}
  /\ gate = NoNode /\ choice = "none" /\ pendingGates = {} /\ gateStore = {}
  /\ accumulatedCost = 0 /\ overdue = FALSE
  /\ selfHealing \in 0..MaxAttempts

-------------------------------------------------------------------------------
(* Planning                                                                  *)

Placed == UNION {levels[i] : i \in 1..Len(levels)}

NextWaveAnyEdge ==
  {n \in Nodes \ Placed : Into(n) = {} \/ \E e \in Into(n) : e.source \in Placed}

\* One turn of Kahn's loop: the nodes whose in-degree has come down to zero.
NextWave == {n \in Nodes \ Placed : \A e \in Into(n) : e.source \in Placed}

BuildLevel ==
  /\ pc = "plan" /\ NextWave # {}
  /\ levels' = Append(levels, NextWave)
  /\ UNCHANGED <<definition, levelIdx, pc, state, attempt, contextMap, gateVars,
                 gateStore, accumulatedCost, overdue, selfHealing>>

StartUnchecked ==
  /\ pc = "plan" /\ NextWave = {} /\ pc' = "level"
  /\ UNCHANGED <<planVars, levelIdx, state, attempt, contextMap, gateVars, gateStore,
                 accumulatedCost, overdue, selfHealing>>

\* All waves are known: a cycle ends the run, otherwise the inputs are seeded.
Start ==
  LET inputs == {n \in Nodes : Type(n) = "input"} IN
  /\ pc = "plan" /\ NextWave = {}
  /\ IF Placed # Nodes
     THEN pc' = "failed" /\ UNCHANGED <<state, contextMap>>
     ELSE /\ pc' = "level"
          /\ state' = [n \in Nodes |-> IF n \in inputs THEN "ok" ELSE state[n]]
          /\ contextMap' = inputs
  /\ UNCHANGED <<planVars, levelIdx, attempt, gateVars, gateStore,
                 accumulatedCost, overdue, selfHealing>>

-------------------------------------------------------------------------------
(* The nodes that run in parallel                                            *)

\* The edge leaves a condition by the handle of the branch it did not take. A
\* condition that failed took none.
BranchNotTaken(e) ==
  /\ Type(e.source) = "condition"
  /\ e.handle # "none"
  /\ state[e.source] \in {"true", "false"} \ {e.handle}

InactiveByBranch(e) == BranchNotTaken(e)
Inactive(e) == BranchNotTaken(e) \/ state[e.source] = "skipped"

SkipOnAnyEdge(n) == \E e \in Into(n) : Inactive(e)

\* gatherInputs(): nothing arrives at the node.
Skip(n) == Into(n) # {} /\ \A e \in Into(n) : Inactive(e)

Wave     == levels[levelIdx]
Parallel == {n \in Wave : Type(n) \notin {"input", "gate"}}
Gates    == {n \in Wave : Type(n) = "gate"}

StartWave ==
  /\ pc = "level" /\ levelIdx <= Len(levels)
  /\ IF overdue \/ accumulatedCost >= MaxCost
     THEN pc' = "failed" /\ UNCHANGED state
     ELSE /\ pc' = "parallel"
          /\ state' = [n \in Nodes |-> IF n \notin Parallel THEN state[n]
                                       ELSE IF Skip(n) THEN "skipped" ELSE "running"]
  /\ UNCHANGED <<planVars, levelIdx, attempt, contextMap, gateVars, gateStore,
                 accumulatedCost, overdue, selfHealing>>

Settle(n, outcome) == state' = [state EXCEPT ![n] = outcome]

NodeSucceeds(n) ==
  /\ state[n] = "running"
  /\ IF Type(n) = "condition" THEN \E b \in {"true", "false"} : Settle(n, b)
                              ELSE Settle(n, "ok")
  /\ UNCHANGED <<planVars, levelIdx, pc, attempt, contextMap, gateVars, gateStore,
                 accumulatedCost, overdue, selfHealing>>

Heals(n) == selfHealing > 0 /\ Type(n) \in Idempotent

GiveUp(n) == attempt[n] >= selfHealing

\* The handler throws or times out. An exhausted node is persisted as a gate,
\* but the run does not wait for it.
NodeFails(n) ==
  /\ state[n] = "running"
  /\ IF ~Heals(n) THEN Settle(n, "fatal") /\ UNCHANGED gateStore
     ELSE IF GiveUp(n) THEN Settle(n, "escalated") /\ gateStore' = gateStore \cup {n}
     ELSE Settle(n, "healing") /\ UNCHANGED gateStore
  /\ UNCHANGED <<planVars, levelIdx, pc, attempt, contextMap, gateVars,
                 accumulatedCost, overdue, selfHealing>>

RetryUncounted(n) ==
  /\ state[n] = "healing"
  /\ state' = [state EXCEPT ![n] = "running"]
  /\ UNCHANGED <<planVars, levelIdx, pc, attempt, contextMap, gateVars, gateStore,
                 accumulatedCost, overdue, selfHealing>>

\* The recovery agent has answered, failed or timed out: in every case the node
\* is tried again.
Retry(n) ==
  /\ state[n] = "healing"
  /\ state' = [state EXCEPT ![n] = "running"]
  /\ attempt' = [attempt EXCEPT ![n] = @ + 1]
  /\ UNCHANGED <<planVars, levelIdx, pc, contextMap, gateVars, gateStore,
                 accumulatedCost, overdue, selfHealing>>

FatalResult == \E n \in Parallel : state[n] = "fatal"

\* Promise.all has settled: the results are recorded, unless one is fatal. A
\* cost is counted for the models that answered.
EndWave ==
  /\ pc = "parallel"
  /\ \A n \in Parallel : state[n] \in Settled
  /\ IF FatalResult
     THEN pc' = "failed" /\ UNCHANGED <<contextMap, accumulatedCost>>
     ELSE /\ pc' = "gates"
          /\ contextMap' = contextMap \cup Parallel
          /\ IF \E n \in Parallel : Type(n) = "llm" /\ state[n] = "ok"
             THEN accumulatedCost' \in {accumulatedCost, accumulatedCost + 1}
             ELSE UNCHANGED accumulatedCost
  /\ UNCHANGED <<planVars, levelIdx, state, attempt, gateVars, gateStore,
                 overdue, selfHealing>>

-------------------------------------------------------------------------------
(* The human gates of the wave                                               *)

SkipGate(n) ==
  /\ pc = "gates" /\ n \in Gates \ contextMap /\ Skip(n)
  /\ contextMap' = contextMap \cup {n}
  /\ Settle(n, "skipped")
  /\ UNCHANGED <<planVars, levelIdx, pc, attempt, gateVars, gateStore,
                 accumulatedCost, overdue, selfHealing>>

OpenGate(n) ==
  /\ pc = "gates" /\ n \in Gates \ contextMap /\ ~Skip(n)
  /\ pc' = "waiting" /\ gate' = n /\ choice' = "none"
  /\ pendingGates' = pendingGates \cup {n}
  /\ gateStore' = gateStore \cup {n}
  /\ UNCHANGED <<planVars, levelIdx, state, attempt, contextMap,
                 accumulatedCost, overdue, selfHealing>>

\* GATE_TIMEOUT_MS: the entry in pendingGates stays.
GateTimesOut ==
  /\ pc = "waiting" /\ choice = "none"
  /\ choice' = "timeout"
  /\ UNCHANGED <<planVars, levelIdx, pc, state, attempt, contextMap, gate, pendingGates,
                 gateStore, accumulatedCost, overdue, selfHealing>>

KeepGate == UNCHANGED gateStore
DeleteGate == gateStore' = gateStore \ {gate}

EndGate ==
  /\ pc = "waiting" /\ choice # "none"
  /\ DeleteGate
  /\ Settle(gate, "ok")
  /\ contextMap' = contextMap \cup {gate}
  /\ pc' = "gates" /\ gate' = NoNode /\ choice' = "none"
  /\ UNCHANGED <<planVars, levelIdx, attempt, pendingGates, accumulatedCost,
                 overdue, selfHealing>>

EndLevel ==
  /\ pc = "gates" /\ Gates \subseteq contextMap
  /\ pc' = "level" /\ levelIdx' = levelIdx + 1
  /\ UNCHANGED <<planVars, state, attempt, contextMap, gateVars, gateStore,
                 accumulatedCost, overdue, selfHealing>>

Complete ==
  /\ pc = "level" /\ levelIdx > Len(levels)
  /\ pc' = "complete"
  /\ UNCHANGED <<planVars, levelIdx, state, attempt, contextMap, gateVars, gateStore,
                 accumulatedCost, overdue, selfHealing>>

-------------------------------------------------------------------------------
(* What happens to a run from outside                                        *)

\* resumeGate(): accepted for every gate with an entry, the one waited for or not.
ResumeGate(n) ==
  /\ n \in pendingGates
  /\ IF n = gate /\ choice = "none" THEN choice' \in Choices ELSE UNCHANGED choice
  /\ pendingGates' = pendingGates \ {n}
  /\ UNCHANGED <<planVars, levelIdx, pc, state, attempt, contextMap, gate, gateStore,
                 accumulatedCost, overdue, selfHealing>>

\* PUT /self-healing/config, at any time.
ConfigureSelfHealing ==
  /\ selfHealing' \in 0..MaxAttempts
  /\ UNCHANGED <<planVars, levelIdx, pc, state, attempt, contextMap, gateVars,
                 gateStore, accumulatedCost, overdue>>

RunOutOfTime ==
  /\ ~overdue /\ overdue' = TRUE
  /\ UNCHANGED <<planVars, levelIdx, pc, state, attempt, contextMap, gateVars,
                 gateStore, accumulatedCost, selfHealing>>

Execute ==
  \/ BuildLevel \/ Start \/ StartWave \/ EndWave \/ EndLevel \/ Complete
  \/ \E n \in Nodes : NodeSucceeds(n) \/ NodeFails(n) \/ Retry(n)
  \/ \E n \in Nodes : SkipGate(n) \/ OpenGate(n)
  \/ GateTimesOut \/ EndGate

Next ==
  \/ Execute
  \/ \E n \in Nodes : ResumeGate(n)
  \/ ConfigureSelfHealing \/ RunOutOfTime

Spec == Init /\ [][Next]_vars

\* Handlers, recovery agents and gates race with timers that always fire, and
\* the run's consumer never stops asking for events. Nobody has to answer a
\* gate, reconfigure anything or run out of time.
FairSpec == Spec /\ WF_vars(Execute)
-------------------------------------------------------------------------------
(* Properties                                                                *)

TypeOK ==
  /\ definition \in Definitions
  /\ levels \in Seq(SUBSET Nodes) /\ levelIdx \in 1..Len(levels) + 1
  /\ pc \in {"plan", "level", "parallel", "gates", "waiting"} \cup Over
  /\ state \in [Nodes -> States]
  /\ attempt \in [Nodes -> 0..MaxAttempts]
  /\ contextMap \subseteq Nodes
  /\ gate \in Nodes \cup {NoNode} /\ choice \in Choices \cup {"none", "timeout"}
  /\ pendingGates \subseteq Nodes /\ gateStore \subseteq Nodes
  /\ accumulatedCost \in Nat /\ overdue \in BOOLEAN
  /\ selfHealing \in 0..MaxAttempts

\* No node leaves "waiting" before the results of all it depends on are
\* recorded: gatherInputs() (executor.ts:488) reads them without a check, so
\* the waves of buildExecutionLevels() alone have to guarantee it.
DependenciesFirst ==
  \A e \in definition.edges :
    Type(e.target) # "input" /\ state[e.target] # "waiting" => e.source \in contextMap

\* A path of edges not cut off by a branch leads from a node without
\* predecessors, or an input, to n.
HasPath(n) ==
  \A reached \in SUBSET Nodes :
    /\ {m \in Nodes : Into(m) = {} \/ Type(m) = "input"} \subseteq reached
    /\ \A e \in definition.edges :
         e.source \in reached /\ ~BranchNotTaken(e) => e.target \in reached
    => n \in reached

\* Skipping spreads exactly as far as it should: of the recorded nodes, those
\* and only those to which no path leads were skipped (the "skip propagation"
\* executor.ts:474 and 509 speak of, which looks at direct predecessors only).
SkippedIffCutOff ==
  \A n \in contextMap : state[n] = "skipped" <=> ~HasPath(n)

\* Some nodes each depend on another one of them.
Cyclic ==
  \E S \in (SUBSET Nodes) \ {{}} :
    \A n \in S : \E e \in Into(n) : e.source \in S

\* The cycle check by counting (executor.ts:432-440) is exact: a cyclic
\* workflow never starts a node, and an acyclic one is never rejected by it.
CyclesNeverRun ==
  /\ Cyclic => state = [n \in Nodes |-> "waiting"] /\ pc \in {"plan", "failed"}
  /\ ~Cyclic /\ pc = "failed" => Placed = Nodes

\* A node with side effects is never called twice, also while self-healing is
\* reconfigured under way (executor.ts:278-282).
OnlyIdempotentRetried == \A n \in Nodes : attempt[n] > 0 => Type(n) \in Idempotent

\* The persisted gates are the one a human is asked about now and the nodes
\* self-healing gave up on; none is left over from an answered or timed out gate.
GateStoreExact ==
  /\ gateStore = {n \in Nodes : state[n] = "escalated"} \cup ({gate} \ {NoNode})
  /\ gate # NoNode <=> pc = "waiting"

\* A run completes only when every node has run or was skipped, and never with
\* a fatal one among them (executor.ts:591-599).
CompleteMeansAll ==
  pc = "complete" => /\ contextMap = Nodes
                     /\ \A n \in Nodes : state[n] \in Ran \cup {"skipped"}

\* A recorded result is never revised.
ResultsStand ==
  [][\A n \in contextMap : n \in contextMap' /\ state'[n] = state[n]]_vars

\* --- The inductive invariant behind them.

Inputs == {n \in Nodes : Type(n) = "input"}
Done   == UNION {levels[i] : i \in 1..levelIdx - 1}

\* The waves are disjoint and follow the edges.
WavesOrdered ==
  /\ \A i, j \in 1..Len(levels) : i < j => levels[i] \cap levels[j] = {}
  /\ \A i \in 1..Len(levels) : \A n \in levels[i] : \A e \in Into(n) :
       \E j \in 1..i - 1 : e.source \in levels[j]

\* Execution starts with a complete plan.
PlanComplete ==
  /\ pc = "plan" => levelIdx = 1 /\ contextMap = {}
  /\ pc \notin {"plan", "failed"} => Placed = Nodes /\ Inputs \subseteq contextMap
  /\ pc \in {"parallel", "gates", "waiting"} => levelIdx <= Len(levels)
  /\ pc = "complete" => levelIdx = Len(levels) + 1

\* What is recorded: the inputs, the waves done, and what has ended of this one.
RecordExact ==
  /\ Done \subseteq contextMap
  /\ \A n \in contextMap :
       n \in Inputs \cup Done \/ (pc \in {"gates", "waiting"} /\ n \in Wave)
  /\ pc \in {"gates", "waiting"} => Parallel \subseteq contextMap
  /\ pc = "waiting" => gate \in Gates \ contextMap

\* Recorded nodes have ended; of the others, those that have begun are running
\* in this wave.
StatesExact ==
  /\ \A n \in contextMap : state[n] \in Ran \cup {"skipped"}
  /\ \A n \in Nodes \ contextMap : state[n] # "waiting" =>
       pc \in {"parallel", "failed"} /\ levelIdx <= Len(levels) /\ n \in Parallel

\* The decision to skip a node, or to run it, stays right until it is recorded.
SkipsDecided ==
  /\ pc = "parallel" => \A n \in Parallel : state[n] = "skipped" <=> Skip(n)
  /\ pc = "waiting" => ~Skip(gate)

HealingAllowed ==
  \A n \in Nodes : state[n] = "healing" => attempt[n] < MaxAttempts /\ Type(n) \in Idempotent

WaveInv ==
  /\ TypeOK /\ WavesOrdered /\ PlanComplete /\ RecordExact /\ StatesExact
  /\ HealingAllowed /\ OnlyIdempotentRetried /\ GateStoreExact

IInv == WaveInv /\ SkipsDecided

\* The waves, gates and retries amount to settling the nodes of the workflow
\* one after another in an order its edges allow.
fate    == [n \in Nodes |-> IF n \in contextMap THEN state[n] ELSE "pending"]
outcome == IF pc \in Over THEN pc ELSE "running"
Abstract == INSTANCE AbstractWorkflow WITH Fates <- Ran
ImplementsDataflow == Abstract!Spec

\* What is left to do for a node: to be placed, to have its wave begun, to run
\* and be retried, to be recorded after a human has answered if it is a gate,
\* and to have its wave ended.
WorkInParallel(n) ==
  CASE state[n] = "running" -> 2 * (MaxAttempts - attempt[n]) + 6
    [] state[n] = "healing" -> 2 * (MaxAttempts - attempt[n]) + 5
    [] OTHER -> 5
WorkAtGates(n) ==
  CASE n \in contextMap -> 1
    [] n \notin contextMap /\ n # gate -> 4
    [] n \notin contextMap /\ n = gate -> IF choice = "none" THEN 3 ELSE 2
Work(n) ==
  IF pc \in Over \/ n \in Done THEN 0
  ELSE IF n \notin Placed THEN 2 * MaxAttempts + 8
  ELSE IF pc \in {"plan", "level"} \/ n \notin Wave THEN 2 * MaxAttempts + 7
  ELSE IF pc = "parallel" THEN WorkInParallel(n) ELSE WorkAtGates(n)
Stage == CASE pc = "plan" -> 2 [] pc \in Over -> 0 [] OTHER -> 1

\* Each step of the run brings it, or one of its nodes, nearer to the end, and
\* nothing that happens to it, no failure and no reconfiguration of the retries
\* either, sets back any node (executor.ts:232-380 and 541-713).
RunWindsDown ==
  [][ /\ Stage' \in 0..Stage /\ \A n \in Nodes : Work(n)' \in 0..Work(n)
      /\ Execute => Stage' < Stage \/ \E n \in Nodes : Work(n)' < Work(n) ]_vars

\* Every run ends, whether gates are answered or not, whatever fails and
\* however the retries are reconfigured.
EveryRunEnds == <>(pc \in Over)
===============================================================================
