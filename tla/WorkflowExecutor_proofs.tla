------------------------ MODULE WorkflowExecutor_proofs ------------------------
(***************************************************************************)
(* Proofs about WorkflowExecutor.  The waves are built one per step, so     *)
(* that their order is itself an invariant; on it rest what is recorded when*)
(* (WaveInv), the stability of decisions to skip (SkipsDecided), and the    *)
(* refinement of AbstractWorkflow.                                          *)
(***************************************************************************)
EXTENDS WorkflowExecutor, TLAPS

USE DEF planVars, gateVars

\* A run starts within the wave invariant: nothing planned, nothing recorded.
LEMMA InitWaveInv == Init => WaveInv
<1> SUFFICES ASSUME Init PROVE WaveInv
  OBVIOUS
<1>1. IsDefinition(definition)
  BY DefinitionsAssumption DEF Init
<1>2. TypeOK
  <2>1. levels \in Seq(SUBSET Nodes) /\ levelIdx \in 1..Len(levels) + 1
    BY DEF Init
  <2>2. /\ state \in [Nodes -> States] /\ attempt \in [Nodes -> 0..MaxAttempts]
        /\ contextMap \subseteq Nodes /\ pendingGates \subseteq Nodes /\ gateStore \subseteq Nodes
    BY LimitsAssumption DEF Init, States, Nodes
  <2> QED BY <2>1, <2>2, LimitsAssumption DEF Init, TypeOK
<1>3. WavesOrdered /\ PlanComplete /\ HealingAllowed /\ OnlyIdempotentRetried
  BY DEF Init, WavesOrdered, PlanComplete, HealingAllowed, OnlyIdempotentRetried
<1>4. Done = {}
  BY DEF Init, Done
<1>5. RecordExact /\ StatesExact /\ GateStoreExact
  BY <1>4 DEF Init, RecordExact, StatesExact, GateStoreExact, Nodes
<1> QED BY <1>2, <1>3, <1>5 DEF WaveInv

\* One turn of Kahn's loop keeps the waves disjoint and in the order of the edges
\* (buildExecutionLevels(), executor.ts:187-200).
LEMMA BuildLevelKeeps == WaveInv /\ BuildLevel => WaveInv'
<1> SUFFICES ASSUME WaveInv, BuildLevel PROVE WaveInv'
  OBVIOUS
<1> USE DEF WaveInv
<1>1. Nodes' = Nodes /\ NextWave \subseteq Nodes
  BY DEF BuildLevel, Nodes, NextWave
<1>2. /\ levels \in Seq(SUBSET Nodes) /\ levels' = Append(levels, NextWave)
      /\ Len(levels') = Len(levels) + 1 /\ levels'[Len(levels) + 1] = NextWave
      /\ \A i \in 1..Len(levels) : levels'[i] = levels[i]
      /\ Len(levels) \in Nat
  <2>1. levels \in Seq(SUBSET Nodes) /\ NextWave \in SUBSET Nodes /\ levels' = Append(levels, NextWave)
    BY <1>1 DEF TypeOK, BuildLevel
  <2> QED BY <2>1
<1>3. TypeOK'
  <2>1. levels' \in Seq(SUBSET Nodes') /\ levelIdx' \in 1..Len(levels') + 1
    BY <1>1, <1>2 DEF TypeOK, BuildLevel
  <2> QED BY <1>1, <2>1 DEF TypeOK, BuildLevel
<1>4. WavesOrdered'
  <2>1. ASSUME NEW i \in 1..Len(levels'), NEW j \in 1..Len(levels'), i < j
        PROVE  levels'[i] \cap levels'[j] = {}
    <3>1. i \in 1..Len(levels)
      BY <1>2, <2>1
    <3>2. CASE j \in 1..Len(levels)
      BY <1>2, <2>1, <3>1, <3>2 DEF WavesOrdered
    <3>3. CASE j = Len(levels) + 1
      BY <1>2, <3>1, <3>3 DEF NextWave, Placed
    <3> QED BY <1>2, <3>2, <3>3
  <2>2. ASSUME NEW i \in 1..Len(levels'), NEW n \in levels'[i], NEW e \in Into(n)
        PROVE  \E j \in 1..i - 1 : e.source \in levels'[j]
    <3>1. CASE i \in 1..Len(levels)
      BY <1>2, <2>2, <3>1 DEF WavesOrdered
    <3>2. CASE i = Len(levels) + 1
      BY <1>2, <2>2, <3>2 DEF NextWave, Placed
    <3> QED BY <1>2, <3>1, <3>2
  <2>3. \A n : Into(n)' = Into(n)
    BY DEF Into, BuildLevel
  <2> QED BY <2>1, <2>2, <2>3 DEF WavesOrdered
<1>5. Done' = Done /\ Done = {} /\ Inputs' = Inputs
  BY <1>1 DEF Done, BuildLevel, PlanComplete, Inputs, Type
<1>6. PlanComplete' /\ HealingAllowed' /\ OnlyIdempotentRetried'
  BY <1>1 DEF BuildLevel, PlanComplete, HealingAllowed, OnlyIdempotentRetried, Type
<1>7. RecordExact'
  BY <1>5 DEF BuildLevel, RecordExact, PlanComplete
<1>8. StatesExact'
  BY <1>1 DEF BuildLevel, StatesExact
<1>9. GateStoreExact'
  BY <1>1 DEF BuildLevel, GateStoreExact
<1> QED BY <1>3, <1>4, <1>6, <1>7, <1>8, <1>9
\* Once the waves are planned, what depends on the definition and the plan alone
\* stays as it is.
LEMMA PlanFixed ==
  ASSUME planVars' = planVars
  PROVE  /\ Nodes' = Nodes /\ Inputs' = Inputs /\ Placed' = Placed
         /\ \A n : Type(n)' = Type(n) /\ Into(n)' = Into(n)
         /\ WavesOrdered => WavesOrdered'
BY DEF Nodes, Inputs, Type, Into, Placed, WavesOrdered

\* While the level index stands, so do the current wave and the waves done.
LEMMA WaveFixed ==
  ASSUME planVars' = planVars, levelIdx' = levelIdx
  PROVE  Done' = Done /\ Wave' = Wave /\ Parallel' = Parallel /\ Gates' = Gates
BY DEF Done, Wave, Parallel, Gates, Type

\* A wave consists of inputs, nodes that run in parallel and gates (executor.ts:566-571).
LEMMA WaveInNodes ==
  ASSUME TypeOK, levelIdx <= Len(levels)
  PROVE  /\ Wave \subseteq Nodes /\ Parallel \subseteq Wave /\ Gates \subseteq Wave
         /\ Wave \subseteq Inputs \cup Parallel \cup Gates
         /\ Parallel \cap Gates = {} /\ Parallel \cap Inputs = {} /\ Gates \cap Inputs = {}
<1>1. levelIdx \in 1..Len(levels) /\ levels \in Seq(SUBSET Nodes)
  BY DEF TypeOK
<1>2. Wave \in SUBSET Nodes
  BY <1>1 DEF Wave
<1> QED BY <1>2 DEF Parallel, Gates, Inputs

\* Seeding the inputs, or rejecting a cycle, keeps the wave invariant.
LEMMA StartKeeps == WaveInv /\ Start => WaveInv'
<1> SUFFICES ASSUME WaveInv, Start PROVE WaveInv'
  OBVIOUS
<1> USE DEF WaveInv
<1>1. /\ planVars' = planVars /\ levelIdx' = levelIdx
  BY DEF Start
<1>2. /\ Nodes' = Nodes /\ Inputs' = Inputs /\ Placed' = Placed /\ WavesOrdered'
      /\ \A n : Type(n)' = Type(n) /\ Into(n)' = Into(n)
  BY <1>1, PlanFixed
<1>3. Done' = Done /\ Done = {} /\ Inputs \subseteq Nodes
  BY <1>1, WaveFixed DEF Start, PlanComplete, Done, Inputs
<1>4. TypeOK'
  BY <1>2, <1>3 DEF Start, TypeOK, States, Settled, Ran, Over
<1>5. contextMap = {} /\ \A n \in Nodes : state[n] = "waiting"
  BY DEF Start, PlanComplete, StatesExact
<1>6. CASE Placed = Nodes
  <2>1. /\ pc' = "level" /\ contextMap' = Inputs /\ state' \in [Nodes -> States]
        /\ \A n \in Nodes : state'[n] = IF n \in Inputs THEN "ok" ELSE "waiting"
    BY <1>4, <1>5, <1>2, <1>6 DEF Start, Inputs, TypeOK
  <2>2. PlanComplete' /\ RecordExact'
    BY <2>1, <1>2, <1>3, <1>6 DEF PlanComplete, RecordExact
  <2>3. StatesExact' /\ HealingAllowed'
    <3>1. \A n \in contextMap' : state'[n] = "ok"
      BY <2>1, <1>3
    <3>2. \A n \in Nodes' : state'[n] \in {"ok", "waiting"}
      BY <2>1, <1>2
    <3>3. \A n \in Nodes' \ contextMap' : state'[n] = "waiting"
      BY <2>1, <1>2
    <3> QED BY <3>1, <3>2, <3>3 DEF StatesExact, HealingAllowed, Ran
  <2>4. OnlyIdempotentRetried' /\ GateStoreExact'
    BY <2>1, <1>2, <1>5 DEF Start, OnlyIdempotentRetried, GateStoreExact
  <2> QED BY <1>2, <1>4, <2>2, <2>3, <2>4
<1>7. CASE Placed # Nodes
  <2>1. pc' = "failed" /\ UNCHANGED <<state, contextMap>>
    BY <1>7 DEF Start
  <2>2. PlanComplete' /\ RecordExact'
    BY <2>1, <1>2, <1>3, <1>5 DEF Start, PlanComplete, RecordExact
  <2>3. StatesExact' /\ HealingAllowed' /\ OnlyIdempotentRetried' /\ GateStoreExact'
    BY <2>1, <1>2, <1>5 DEF Start, StatesExact, HealingAllowed, OnlyIdempotentRetried, GateStoreExact
  <2> QED BY <1>2, <1>4, <2>2, <2>3
<1> QED BY <1>6, <1>7

\* Starting a wave touches only nodes never recorded before: waves are disjoint.
LEMMA StartWaveKeeps == WaveInv /\ StartWave => WaveInv'
<1> SUFFICES ASSUME WaveInv, StartWave PROVE WaveInv'
  OBVIOUS
<1> USE DEF WaveInv
<1>1. planVars' = planVars /\ levelIdx' = levelIdx /\ contextMap' = contextMap
  BY DEF StartWave
<1>2. /\ Nodes' = Nodes /\ Inputs' = Inputs /\ Placed' = Placed /\ WavesOrdered'
      /\ \A n : Type(n)' = Type(n)
  BY <1>1, PlanFixed
<1>3. Done' = Done /\ Wave' = Wave /\ Parallel' = Parallel /\ Gates' = Gates
  BY <1>1, WaveFixed
<1>4. /\ pc = "level" /\ levelIdx <= Len(levels) /\ levelIdx \in 1..Len(levels) /\ Len(levels) \in Nat
      /\ pc' \in {"parallel", "failed"}
  BY DEF StartWave, TypeOK
<1>5. Wave \subseteq Nodes /\ Parallel \subseteq Wave /\ Parallel \cap Inputs = {}
  BY <1>4, WaveInNodes
<1>6. Parallel \cap contextMap = {}
  <2>1. ASSUME NEW n \in Parallel, n \in contextMap PROVE FALSE
    <3>1. n \in Done
      BY <2>1, <1>4, <1>5 DEF RecordExact
    <3>2. PICK i \in 1..levelIdx - 1 : n \in levels[i]
      BY <3>1 DEF Done
    <3>3. levels[i] \cap levels[levelIdx] = {}
      BY <1>4 DEF WavesOrdered
    <3> QED BY <3>2, <3>3, <1>5, <2>1 DEF Wave
  <2> QED BY <2>1
<1>7. \A n \in Nodes : /\ state[n] = "waiting" \/ n \in contextMap
                       /\ state[n] \notin {"healing", "running"}
  BY <1>4 DEF StatesExact, Ran
<1>8. /\ state' \in [Nodes -> States]
      /\ \A n \in Nodes : \/ state'[n] = state[n]
                        \/ /\ n \in Parallel /\ state'[n] \in {"skipped", "running"}
                           /\ pc' = "parallel"
  BY <1>5 DEF StartWave, TypeOK, States, Settled
<1>9. TypeOK'
  BY <1>8, <1>2 DEF StartWave, TypeOK, Over
<1>10. PlanComplete' /\ RecordExact'
  BY <1>1, <1>2, <1>3, <1>4 DEF PlanComplete, RecordExact
<1>11. StatesExact'
  <2>1. \A n \in contextMap' : state'[n] \in Ran \cup {"skipped"}
    BY <1>1, <1>6, <1>8 DEF StatesExact, TypeOK
  <2>2. ASSUME NEW n \in Nodes \ contextMap, state'[n] # "waiting"
        PROVE  pc' = "parallel" /\ n \in Parallel
    BY <1>7, <1>8, <2>2
  <2> QED BY <1>1, <1>2, <1>3, <1>4, <2>1, <2>2 DEF StatesExact
<1>12. HealingAllowed' /\ OnlyIdempotentRetried'
  BY <1>2, <1>7, <1>8 DEF StartWave, HealingAllowed, OnlyIdempotentRetried
<1>13. GateStoreExact'
  BY <1>2, <1>4, <1>6, <1>7, <1>8 DEF StartWave, GateStoreExact
<1> QED BY <1>2, <1>9, <1>10, <1>11, <1>12, <1>13
\* A node that ends, fails or is retried keeps the wave invariant; its attempts
\* stay below the bound of the configuration it last saw (executor.ts:263-380).
LEMMA NodeStepKeeps ==
  ASSUME WaveInv, NEW n \in Nodes, NodeSucceeds(n) \/ NodeFails(n) \/ Retry(n)
  PROVE  WaveInv'
<1> USE DEF WaveInv
<1>1. /\ planVars' = planVars /\ levelIdx' = levelIdx /\ contextMap' = contextMap /\ pc' = pc
      /\ gate' = gate /\ choice' = choice /\ pendingGates' = pendingGates
      /\ accumulatedCost' = accumulatedCost /\ overdue' = overdue /\ selfHealing' = selfHealing
  BY DEF NodeSucceeds, NodeFails, Retry
<1>2. /\ Nodes' = Nodes /\ Inputs' = Inputs /\ Placed' = Placed /\ WavesOrdered'
      /\ \A m : Type(m)' = Type(m)
  BY <1>1, PlanFixed
<1>3. Done' = Done /\ Wave' = Wave /\ Parallel' = Parallel /\ Gates' = Gates
  BY <1>1, WaveFixed
<1>4. state[n] \in {"running", "healing"}
  BY DEF NodeSucceeds, NodeFails, Retry
<1>5. n \notin contextMap /\ pc \in {"parallel", "failed"} /\ n \in Parallel /\ levelIdx <= Len(levels)
  BY <1>4 DEF StatesExact, Ran
<1>6. /\ state' \in [Nodes -> States] /\ state \in [Nodes -> States]
      /\ \A m \in Nodes \ {n} : state'[m] = state[m]
  BY DEF NodeSucceeds, NodeFails, Retry, Settle, TypeOK, States, Settled, Ran
<1>7. /\ attempt' \in [Nodes -> 0..MaxAttempts]
      /\ \A m \in Nodes : attempt'[m] # attempt[m] => m = n /\ Type(n) \in Idempotent /\ state'[n] = "running"
  <2>1. CASE Retry(n)
    <3>1. attempt[n] \in Nat /\ attempt[n] < MaxAttempts /\ Type(n) \in Idempotent
      BY <2>1, LimitsAssumption DEF Retry, HealingAllowed, TypeOK
    <3>2. attempt[n] + 1 \in 0..MaxAttempts
      BY <3>1, LimitsAssumption
    <3> QED BY <2>1, <3>1, <3>2, <1>6 DEF Retry, TypeOK
  <2>2. CASE NodeSucceeds(n) \/ NodeFails(n)
    BY <2>2 DEF NodeSucceeds, NodeFails, TypeOK
  <2> QED BY <2>1, <2>2
<1>8. state'[n] = "healing" => attempt'[n] < MaxAttempts /\ Type(n) \in Idempotent
  <2>1. CASE NodeFails(n) /\ state'[n] = "healing"
    <3>1. ~GiveUp(n) /\ Heals(n) /\ attempt' = attempt
      BY <2>1 DEF NodeFails, Settle, TypeOK
    <3>2. attempt[n] \in Nat /\ selfHealing \in Nat /\ selfHealing <= MaxAttempts
      BY LimitsAssumption DEF TypeOK
    <3> QED BY <3>1, <3>2, LimitsAssumption DEF Heals, GiveUp
  <2>2. CASE NodeSucceeds(n) \/ Retry(n)
    <3>1. state'[n] # "healing"
      BY <2>2 DEF NodeSucceeds, Retry, Settle, TypeOK
    <3> QED BY <3>1
  <2> QED BY <2>1, <2>2
<1>9. gateStore' = gateStore \cup {m \in {n} : state'[n] = "escalated"}
  <2>1. CASE NodeFails(n)
    BY <2>1 DEF NodeFails, Settle, TypeOK
  <2>2. CASE NodeSucceeds(n) \/ Retry(n)
    <3>1. state'[n] # "escalated"
      BY <2>2 DEF NodeSucceeds, Retry, Settle, TypeOK
    <3> QED BY <3>1, <2>2 DEF NodeSucceeds, Retry
  <2> QED BY <2>1, <2>2
<1>10. TypeOK'
  BY <1>1, <1>2, <1>6, <1>7, <1>9 DEF TypeOK
<1>11. PlanComplete' /\ RecordExact'
  BY <1>1, <1>2, <1>3 DEF PlanComplete, RecordExact
<1>12. StatesExact'
  BY <1>1, <1>2, <1>3, <1>5, <1>6 DEF StatesExact, TypeOK
<1>13. HealingAllowed' /\ OnlyIdempotentRetried'
  <2>1. ASSUME NEW m \in Nodes, state'[m] = "healing"
        PROVE  attempt'[m] < MaxAttempts /\ Type(m) \in Idempotent
    BY <2>1, <1>6, <1>7, <1>8 DEF HealingAllowed
  <2>2. ASSUME NEW m \in Nodes, attempt'[m] > 0 PROVE Type(m) \in Idempotent
    BY <2>2, <1>7 DEF OnlyIdempotentRetried
  <2> QED BY <2>1, <2>2, <1>2 DEF HealingAllowed, OnlyIdempotentRetried
<1>14. GateStoreExact'
  BY <1>1, <1>2, <1>4, <1>6, <1>9 DEF GateStoreExact
<1> QED BY <1>2, <1>10, <1>11, <1>12, <1>13, <1>14

\* Recording the results of a wave, or stopping at a fatal one, keeps it.
LEMMA EndWaveKeeps == WaveInv /\ EndWave => WaveInv'
<1> SUFFICES ASSUME WaveInv, EndWave PROVE WaveInv'
  OBVIOUS
<1> USE DEF WaveInv
<1>1. /\ planVars' = planVars /\ levelIdx' = levelIdx /\ state' = state
      /\ attempt' = attempt /\ pc = "parallel"
      /\ UNCHANGED <<gateVars, gateStore>>
  BY DEF EndWave
<1>2. /\ Nodes' = Nodes /\ Inputs' = Inputs /\ Placed' = Placed /\ WavesOrdered'
      /\ \A n : Type(n)' = Type(n)
  BY <1>1, PlanFixed
<1>3. Done' = Done /\ Wave' = Wave /\ Parallel' = Parallel /\ Gates' = Gates
  BY <1>1, WaveFixed
<1>4. levelIdx <= Len(levels) /\ Wave \subseteq Nodes /\ Parallel \subseteq Wave
  BY <1>1, WaveInNodes DEF PlanComplete
<1>5. HealingAllowed' /\ OnlyIdempotentRetried'
  BY <1>1, <1>2 DEF HealingAllowed, OnlyIdempotentRetried
<1>6. CASE FatalResult
  <2>1. pc' = "failed" /\ UNCHANGED <<contextMap, accumulatedCost>>
    BY <1>6 DEF EndWave
  <2>2. TypeOK'
    BY <1>1, <1>2, <2>1 DEF EndWave, TypeOK, Over
  <2>3. PlanComplete' /\ RecordExact' /\ StatesExact' /\ GateStoreExact'
    BY <1>1, <1>2, <1>3, <1>4, <2>1 DEF PlanComplete, RecordExact, StatesExact, GateStoreExact
  <2> QED BY <1>2, <1>5, <2>2, <2>3
<1>7. CASE ~FatalResult
  <2>1. /\ pc' = "gates" /\ contextMap' = contextMap \cup Parallel
        /\ accumulatedCost' \in {accumulatedCost, accumulatedCost + 1}
    BY <1>7 DEF EndWave
  <2>2. TypeOK'
    <3>1. accumulatedCost' \in Nat
      BY <2>1 DEF TypeOK
    <3> QED BY <1>1, <1>2, <1>4, <2>1, <3>1 DEF EndWave, TypeOK
  <2>3. PlanComplete' /\ RecordExact' /\ GateStoreExact'
    BY <1>1, <1>2, <1>3, <1>4, <2>1 DEF PlanComplete, RecordExact, GateStoreExact
  <2>4. \A n \in Parallel : state[n] \in Ran \cup {"skipped"}
    BY <1>7 DEF EndWave, FatalResult, Settled
  <2>5. StatesExact'
    BY <1>1, <1>2, <1>3, <2>1, <2>4 DEF StatesExact
  <2> QED BY <1>2, <1>5, <2>2, <2>3, <2>5
<1> QED BY <1>6, <1>7
\* Skipping a gate keeps the wave invariant (executor.ts:628-632).
LEMMA SkipGateKeeps ==
  ASSUME WaveInv, NEW n \in Nodes, SkipGate(n)
  PROVE  WaveInv'
<1> USE DEF WaveInv
<1>1. /\ planVars' = planVars /\ levelIdx' = levelIdx /\ pc' = pc /\ pc = "gates"
      /\ n \in Gates \ contextMap /\ contextMap' = contextMap \cup {n}
      /\ attempt' = attempt /\ UNCHANGED <<gateVars, gateStore>>
  BY DEF SkipGate
<1>2. /\ Nodes' = Nodes /\ Inputs' = Inputs /\ Placed' = Placed /\ WavesOrdered'
      /\ \A m : Type(m)' = Type(m)
  BY <1>1, PlanFixed
<1>3. Done' = Done /\ Wave' = Wave /\ Parallel' = Parallel /\ Gates' = Gates
  BY <1>1, WaveFixed
<1>4. /\ levelIdx <= Len(levels) /\ Gates \subseteq Wave
  BY <1>1, WaveInNodes DEF PlanComplete
<1>5. state' \in [Nodes -> States] /\ state'[n] = "skipped" /\ \A m \in Nodes \ {n} : state'[m] = state[m]
  BY DEF SkipGate, Settle, TypeOK, States, Settled
<1>6. state[n] = "waiting"
  BY <1>1 DEF StatesExact
<1>7. TypeOK'
  BY <1>1, <1>2, <1>5 DEF SkipGate, TypeOK
<1>8. PlanComplete' /\ RecordExact'
  BY <1>1, <1>2, <1>3, <1>4 DEF PlanComplete, RecordExact
<1>9. StatesExact' /\ HealingAllowed' /\ OnlyIdempotentRetried'
  BY <1>1, <1>2, <1>3, <1>5 DEF StatesExact, HealingAllowed, OnlyIdempotentRetried, TypeOK
<1>10. GateStoreExact'
  BY <1>1, <1>2, <1>5, <1>6 DEF GateStoreExact
<1> QED BY <1>2, <1>7, <1>8, <1>9, <1>10

\* Opening a gate keeps it (executor.ts:644-653).
LEMMA OpenGateKeeps ==
  ASSUME WaveInv, NEW n \in Nodes, OpenGate(n)
  PROVE  WaveInv'
<1> USE DEF WaveInv
<1>1. /\ planVars' = planVars /\ levelIdx' = levelIdx /\ pc = "gates" /\ pc' = "waiting"
      /\ n \in Gates \ contextMap /\ contextMap' = contextMap /\ gate' = n /\ choice' = "none"
      /\ gateStore' = gateStore \cup {n} /\ pendingGates' = pendingGates \cup {n}
      /\ attempt' = attempt /\ state' = state
  BY DEF OpenGate
<1>2. /\ Nodes' = Nodes /\ Inputs' = Inputs /\ Placed' = Placed /\ WavesOrdered'
      /\ \A m : Type(m)' = Type(m)
  BY <1>1, PlanFixed
<1>3. Done' = Done /\ Wave' = Wave /\ Parallel' = Parallel /\ Gates' = Gates
  BY <1>1, WaveFixed
<1>4. TypeOK' /\ n # NoNode
  <2>1. n # NoNode
    BY DefinitionsAssumption DEF TypeOK, IsDefinition, Nodes
  <2> QED BY <1>1, <1>2, <2>1 DEF OpenGate, TypeOK
<1>5. PlanComplete' /\ RecordExact' /\ StatesExact' /\ HealingAllowed' /\ OnlyIdempotentRetried'
  BY <1>1, <1>2, <1>3
  DEF PlanComplete, RecordExact, StatesExact, HealingAllowed, OnlyIdempotentRetried
<1>6. GateStoreExact'
  BY <1>1, <1>2, <1>4 DEF GateStoreExact
<1> QED BY <1>2, <1>4, <1>5, <1>6

\* Settling a gate keeps it: its entry leaves the store as its result is recorded.
LEMMA EndGateKeeps == WaveInv /\ EndGate => WaveInv'
<1> SUFFICES ASSUME WaveInv, EndGate PROVE WaveInv'
  OBVIOUS
<1> USE DEF WaveInv
<1>1. /\ planVars' = planVars /\ levelIdx' = levelIdx /\ pc = "waiting" /\ pc' = "gates"
      /\ contextMap' = contextMap \cup {gate} /\ gate' = NoNode /\ choice' = "none"
      /\ gateStore' = gateStore \ {gate} /\ attempt' = attempt
  BY DEF EndGate, DeleteGate
<1>2. /\ Nodes' = Nodes /\ Inputs' = Inputs /\ Placed' = Placed /\ WavesOrdered'
      /\ \A m : Type(m)' = Type(m)
  BY <1>1, PlanFixed
<1>3. Done' = Done /\ Wave' = Wave /\ Parallel' = Parallel /\ Gates' = Gates
  BY <1>1, WaveFixed
<1>4. gate \in Gates \ contextMap /\ gate \in Wave /\ gate \in Nodes /\ gate # NoNode
  BY <1>1, WaveInNodes DEF PlanComplete, RecordExact, GateStoreExact
<1>5. /\ state' \in [Nodes -> States] /\ state'[gate] = "ok"
      /\ \A m \in Nodes \ {gate} : state'[m] = state[m]
  BY <1>4 DEF EndGate, Settle, TypeOK, States, Settled, Ran
<1>6. state[gate] = "waiting"
  BY <1>1, <1>4 DEF StatesExact
<1>7. TypeOK'
  BY <1>1, <1>2, <1>4, <1>5 DEF EndGate, TypeOK
<1>8. PlanComplete' /\ RecordExact'
  BY <1>1, <1>2, <1>3, <1>4 DEF PlanComplete, RecordExact
<1>9. StatesExact'
  BY <1>1, <1>2, <1>3, <1>5 DEF StatesExact, TypeOK, Ran
<1>10. HealingAllowed' /\ OnlyIdempotentRetried'
  BY <1>1, <1>2, <1>5 DEF HealingAllowed, OnlyIdempotentRetried
<1>11. GateStoreExact'
  BY <1>1, <1>2, <1>4, <1>5, <1>6 DEF GateStoreExact
<1> QED BY <1>2, <1>7, <1>8, <1>9, <1>10, <1>11

\* A wave whose gates are settled is recorded in full.
LEMMA EndLevelKeeps == WaveInv /\ EndLevel => WaveInv'
<1> SUFFICES ASSUME WaveInv, EndLevel PROVE WaveInv'
  OBVIOUS
<1> USE DEF WaveInv
<1>1. /\ planVars' = planVars /\ levelIdx' = levelIdx + 1 /\ pc = "gates" /\ pc' = "level"
      /\ Gates \subseteq contextMap
      /\ UNCHANGED <<contextMap, state, attempt, gateVars, gateStore>>
  BY DEF EndLevel
<1>2. /\ Nodes' = Nodes /\ Inputs' = Inputs /\ Placed' = Placed /\ WavesOrdered'
      /\ \A m : Type(m)' = Type(m)
  BY <1>1, PlanFixed
<1>3. levelIdx \in 1..Len(levels) /\ Len(levels) \in Nat
  BY <1>1 DEF TypeOK, PlanComplete
<1>4. Done' = Done \cup Wave
  <2>1. 1..(levelIdx + 1) - 1 = (1..levelIdx - 1) \cup {levelIdx}
    BY <1>3
  <2>2. Done' = UNION {levels[i] : i \in 1..(levelIdx + 1) - 1}
    BY <1>1 DEF Done
  <2> QED BY <2>1, <2>2 DEF Done, Wave
<1>5. Wave \subseteq contextMap
  <2>1. Wave \subseteq Inputs \cup Parallel \cup Gates
    BY <1>3, WaveInNodes
  <2> QED BY <1>1, <2>1 DEF PlanComplete, RecordExact
<1>6. TypeOK'
  BY <1>1, <1>2, <1>3 DEF EndLevel, TypeOK
<1>7. PlanComplete'
  BY <1>1, <1>2 DEF PlanComplete
<1>8. RecordExact'
  BY <1>1, <1>2, <1>4, <1>5 DEF RecordExact
<1>9. StatesExact' /\ HealingAllowed' /\ OnlyIdempotentRetried' /\ GateStoreExact'
  BY <1>1, <1>2 DEF StatesExact, HealingAllowed, OnlyIdempotentRetried, GateStoreExact
<1> QED BY <1>2, <1>6, <1>7, <1>8, <1>9

\* Completion, timers, answers from outside and reconfiguration keep it.
LEMMA OtherStepsKeep ==
  ASSUME WaveInv,
         \/ Complete \/ GateTimesOut \/ ConfigureSelfHealing \/ RunOutOfTime
         \/ \E n \in Nodes : ResumeGate(n)
         \/ UNCHANGED vars
  PROVE  WaveInv'
<1> USE DEF WaveInv
<1>1. /\ planVars' = planVars /\ levelIdx' = levelIdx
      /\ pc' = pc \/ (pc = "level" /\ levelIdx > Len(levels) /\ pc' = "complete")
      /\ UNCHANGED <<contextMap, state, attempt, gate, gateStore, accumulatedCost>>
  BY DEF Complete, GateTimesOut, ConfigureSelfHealing, RunOutOfTime, ResumeGate, vars
<1>2. /\ Nodes' = Nodes /\ Inputs' = Inputs /\ Placed' = Placed /\ WavesOrdered'
      /\ \A m : Type(m)' = Type(m)
  BY <1>1, PlanFixed
<1>3. Done' = Done /\ Wave' = Wave /\ Parallel' = Parallel /\ Gates' = Gates
  BY <1>1, WaveFixed
<1>4. /\ choice' \in Choices \cup {"none", "timeout"} /\ pendingGates' \subseteq Nodes
      /\ overdue' \in BOOLEAN /\ selfHealing' \in 0..MaxAttempts
  BY DEF Complete, GateTimesOut, ConfigureSelfHealing, RunOutOfTime, ResumeGate, vars, TypeOK
<1>5. TypeOK'
  BY <1>1, <1>2, <1>4 DEF TypeOK, Over
<1>6. PlanComplete'
  <2>1. levelIdx \in 1..Len(levels) + 1 /\ Len(levels) \in Nat
    BY DEF TypeOK
  <2>2. levelIdx > Len(levels) => levelIdx = Len(levels) + 1
    BY <2>1
  <2> QED BY <1>1, <1>2, <2>2 DEF PlanComplete
<1>7. RecordExact' /\ StatesExact' /\ HealingAllowed' /\ OnlyIdempotentRetried' /\ GateStoreExact'
  BY <1>1, <1>2, <1>3 DEF RecordExact, StatesExact, HealingAllowed, OnlyIdempotentRetried, GateStoreExact
<1> QED BY <1>2, <1>5, <1>6, <1>7

\* Every step keeps the wave invariant.
LEMMA WaveInvKept == WaveInv /\ [Next]_vars => WaveInv'
<1> SUFFICES ASSUME WaveInv, [Next]_vars PROVE WaveInv'
  OBVIOUS
<1>1. CASE BuildLevel BY <1>1, BuildLevelKeeps
<1>2. CASE Start BY <1>2, StartKeeps
<1>3. CASE StartWave BY <1>3, StartWaveKeeps
<1>4. CASE EndWave BY <1>4, EndWaveKeeps
<1>5. CASE EndLevel BY <1>5, EndLevelKeeps
<1>6. CASE EndGate BY <1>6, EndGateKeeps
<1>7. CASE \E n \in Nodes : NodeSucceeds(n) \/ NodeFails(n) \/ Retry(n)
  BY <1>7, NodeStepKeeps
<1>8. CASE \E n \in Nodes : SkipGate(n) \/ OpenGate(n)
  BY <1>8, SkipGateKeeps, OpenGateKeeps
<1>9. CASE \/ Complete \/ GateTimesOut \/ ConfigureSelfHealing \/ RunOutOfTime
          \/ (\E n \in Nodes : ResumeGate(n)) \/ UNCHANGED vars
  BY <1>9, OtherStepsKeep
<1> QED BY <1>1, <1>2, <1>3, <1>4, <1>5, <1>6, <1>7, <1>8, <1>9 DEF Next, Execute

-------------------------------------------------------------------------------
(* Recorded results stand, and with them the decisions to skip               *)

\* The nodes of a wave about to run are not recorded yet.
LEMMA ParallelUnrecorded ==
  ASSUME WaveInv, pc \in {"level", "parallel"}, levelIdx <= Len(levels)
  PROVE  Parallel \cap contextMap = {}
<1> USE DEF WaveInv
<1>1. levelIdx \in 1..Len(levels) /\ Len(levels) \in Nat
  BY DEF TypeOK
<1>2. Parallel \subseteq Wave /\ Parallel \cap Inputs = {}
  BY WaveInNodes
<1>3. ASSUME NEW n \in Parallel, n \in contextMap PROVE FALSE
  <2>1. n \in Done
    BY <1>3, <1>2 DEF RecordExact
  <2>2. PICK i \in 1..levelIdx - 1 : n \in levels[i]
    BY <2>1 DEF Done
  <2>3. levels[i] \cap levels[levelIdx] = {}
    BY <1>1 DEF WavesOrdered
  <2> QED BY <2>2, <2>3, <1>2, <1>3 DEF Wave
<1> QED BY <1>3

\* No step revises or drops a recorded result.
LEMMA RecordStands ==
  ASSUME WaveInv, [Next]_vars
  PROVE  \A n \in contextMap : n \in contextMap' /\ state'[n] = state[n]
<1> USE DEF WaveInv
<1>0. contextMap \subseteq Nodes /\ state \in [Nodes -> States]
  BY DEF TypeOK
<1>1. CASE Start
  <2>1. contextMap = {}
    BY <1>1 DEF Start, PlanComplete
  <2> QED BY <2>1
<1>2. CASE StartWave
  <2>1. levelIdx <= Len(levels) /\ pc = "level"
    BY <1>2 DEF StartWave
  <2>2. Parallel \cap contextMap = {}
    BY <2>1, ParallelUnrecorded
  <2> QED BY <1>0, <1>2, <2>2 DEF StartWave
<1>3. ASSUME NEW n \in Nodes, NodeSucceeds(n) \/ NodeFails(n) \/ Retry(n)
      PROVE  \A m \in contextMap : m \in contextMap' /\ state'[m] = state[m]
  <2>1. n \notin contextMap
    BY <1>3 DEF NodeSucceeds, NodeFails, Retry, StatesExact, Ran
  <2>2. contextMap' = contextMap
    BY <1>3 DEF NodeSucceeds, NodeFails, Retry
  <2>3. \A m \in Nodes \ {n} : state'[m] = state[m]
    BY <1>0, <1>3 DEF NodeSucceeds, NodeFails, Retry, Settle
  <2> QED BY <1>0, <2>1, <2>2, <2>3
<1>4. ASSUME NEW n \in Nodes, SkipGate(n)
      PROVE  \A m \in contextMap : m \in contextMap' /\ state'[m] = state[m]
  BY <1>0, <1>4 DEF SkipGate, Settle
<1>5. CASE EndGate
  BY <1>0, <1>5 DEF EndGate, Settle, RecordExact
<1>6. CASE \/ BuildLevel \/ EndWave \/ EndLevel \/ Complete \/ GateTimesOut
          \/ ConfigureSelfHealing \/ RunOutOfTime \/ UNCHANGED vars
          \/ \E n \in Nodes : OpenGate(n) \/ ResumeGate(n)
  BY <1>6 DEF BuildLevel, EndWave, EndLevel, Complete, GateTimesOut,
     ConfigureSelfHealing, RunOutOfTime, vars, OpenGate, ResumeGate
<1> QED BY <1>1, <1>2, <1>3, <1>4, <1>5, <1>6 DEF Next, Execute

\* What a node of the current wave depends on is recorded.
LEMMA PredecessorsRecorded ==
  ASSUME WaveInv, levelIdx <= Len(levels), NEW n \in Wave, NEW e \in Into(n)
  PROVE  e.source \in contextMap
<1> USE DEF WaveInv
<1>1. levelIdx \in 1..Len(levels) /\ Len(levels) \in Nat
  BY DEF TypeOK
<1>2. PICK j \in 1..levelIdx - 1 : e.source \in levels[j]
  BY <1>1 DEF WavesOrdered, Wave
<1> QED BY <1>2 DEF Done, RecordExact

\* gatherInputs() gives the same verdict on a node of the current wave whenever
\* it is asked: retries and other nodes of the wave do not change it.
LEMMA SkipStable ==
  ASSUME WaveInv, [Next]_vars, planVars' = planVars, levelIdx <= Len(levels), NEW n \in Wave
  PROVE  Skip(n)' <=> Skip(n)
<1>1. \A e \in Into(n) : state'[e.source] = state[e.source]
  BY PredecessorsRecorded, RecordStands
<1>2. Into(n)' = Into(n) /\ \A m : Type(m)' = Type(m)
  BY PlanFixed
<1>3. \A e \in Into(n) : Inactive(e)' <=> Inactive(e)
  BY <1>1, <1>2 DEF Inactive, BranchNotTaken
<1> QED BY <1>2, <1>3 DEF Skip

\* A decision to skip, once taken, stays right.
LEMMA SkipsDecidedKept == IInv /\ [Next]_vars => SkipsDecided'
<1> SUFFICES ASSUME IInv, [Next]_vars PROVE SkipsDecided'
  OBVIOUS
<1> USE DEF IInv, WaveInv
<1>1. CASE StartWave
  <2>1. /\ planVars' = planVars /\ levelIdx' = levelIdx /\ levelIdx <= Len(levels)
        /\ pc = "level" /\ pc' \in {"parallel", "failed"}
    BY <1>1 DEF StartWave
  <2>2. Parallel' = Parallel /\ Parallel \subseteq Wave /\ Wave \subseteq Nodes
    BY <2>1, WaveFixed, WaveInNodes
  <2>3. ASSUME NEW n \in Parallel, pc' = "parallel" PROVE state'[n] = "skipped" <=> Skip(n)'
    <3>1. state'[n] = IF Skip(n) THEN "skipped" ELSE "running"
      BY <1>1, <2>2, <2>3 DEF StartWave
    <3>2. Skip(n)' <=> Skip(n)
      BY <2>1, <2>2, SkipStable
    <3> QED BY <3>1, <3>2
  <2> QED BY <2>1, <2>2, <2>3 DEF SkipsDecided
<1>2. ASSUME NEW n \in Nodes, NodeSucceeds(n) \/ NodeFails(n) \/ Retry(n)
      PROVE  SkipsDecided'
  <2>1. /\ planVars' = planVars /\ levelIdx' = levelIdx /\ pc' = pc
        /\ state[n] \in {"running", "healing"}
    BY <1>2 DEF NodeSucceeds, NodeFails, Retry
  <2>2. pc # "waiting" /\ levelIdx <= Len(levels)
    BY <2>1 DEF StatesExact, Ran
  <2>3. Parallel' = Parallel /\ Parallel \subseteq Wave /\ Wave \subseteq Nodes
    BY <2>1, <2>2, WaveFixed, WaveInNodes
  <2>4. \A m \in Nodes : state'[m] = "skipped" <=> state[m] = "skipped"
    BY <1>2, <2>1 DEF NodeSucceeds, NodeFails, Retry, Settle, TypeOK
  <2>5. \A m \in Parallel : Skip(m)' <=> Skip(m)
    BY <2>1, <2>2, <2>3, SkipStable
  <2> QED BY <2>1, <2>2, <2>3, <2>4, <2>5 DEF SkipsDecided
<1>3. ASSUME NEW n \in Nodes, OpenGate(n) PROVE SkipsDecided'
  <2>1. /\ planVars' = planVars /\ levelIdx' = levelIdx /\ pc' = "waiting" /\ gate' = n
        /\ pc = "gates" /\ n \in Gates /\ ~Skip(n)
    BY <1>3 DEF OpenGate
  <2>2. levelIdx <= Len(levels) /\ n \in Wave
    BY <2>1, WaveInNodes DEF PlanComplete
  <2>3. ~Skip(n)'
    BY <2>1, <2>2, SkipStable
  <2>4. ~Skip(gate)'
    BY <2>1, <2>3 DEF Skip, Inactive, BranchNotTaken, Into, Type
  <2> QED BY <2>1, <2>4 DEF SkipsDecided
<1>4. CASE \/ BuildLevel \/ Start \/ EndWave \/ EndLevel \/ EndGate \/ Complete
          \/ \E n \in Nodes : SkipGate(n)
  <2>1. pc' \notin {"parallel", "waiting"}
    BY <1>4 DEF BuildLevel, Start, EndWave, EndLevel, EndGate, Complete, SkipGate
  <2> QED BY <2>1 DEF SkipsDecided
<1>5. CASE \/ GateTimesOut \/ ConfigureSelfHealing \/ RunOutOfTime \/ UNCHANGED vars
          \/ \E n \in Nodes : ResumeGate(n)
  <2>1. planVars' = planVars /\ UNCHANGED <<state, pc, gate, levelIdx>>
    BY <1>5 DEF GateTimesOut, ConfigureSelfHealing, RunOutOfTime, vars, ResumeGate
  <2>2. Parallel' = Parallel /\ \A n : Skip(n)' <=> Skip(n)
    BY <2>1, WaveFixed DEF Skip, Inactive, BranchNotTaken, Into, Type
  <2>3. Skip(gate)' <=> Skip(gate)
    BY <2>1 DEF Skip, Inactive, BranchNotTaken, Into, Type
  <2> QED BY <2>1, <2>2, <2>3 DEF SkipsDecided
<1> QED BY <1>1, <1>2, <1>3, <1>4, <1>5 DEF Next, Execute

\* Every run of the executor stays within the inductive invariant, for every set
\* of workflow definitions.
THEOREM InductiveInvariant == Spec => []IInv
<1>1. Init => IInv
  BY InitWaveInv DEF Init, SkipsDecided, IInv
<1>2. IInv /\ [Next]_vars => IInv'
  BY WaveInvKept, SkipsDecidedKept DEF IInv
<1> QED BY <1>1, <1>2, PTL DEF Spec

-------------------------------------------------------------------------------
(* What follows from it                                                      *)

\* The state of a run keeps its type; in particular attempts stay bounded.
THEOREM TypeCorrect == Spec => []TypeOK
<1>1. IInv => TypeOK
  BY DEF IInv, WaveInv
<1> QED BY <1>1, InductiveInvariant, PTL

\* A node that has left "waiting" lies in a wave whose predecessors are recorded.
LEMMA DependenciesRecorded == WaveInv => DependenciesFirst
<1> SUFFICES ASSUME WaveInv, NEW e \in definition.edges,
                    Type(e.target) # "input", state[e.target] # "waiting"
             PROVE  e.source \in contextMap
  BY DEF DependenciesFirst
<1> USE DEF WaveInv
<1>1. e.source \in Nodes /\ e.target \in Nodes /\ e \in Into(e.target)
  BY DefinitionsAssumption DEF TypeOK, IsDefinition, Nodes, Into
<1>2. levelIdx \in 1..Len(levels) + 1 /\ Len(levels) \in Nat
  BY DEF TypeOK
<1>3. PICK i \in 1..Len(levels) : e.target \in levels[i] /\ i <= levelIdx
  <2>1. CASE e.target \in Done
    <3>1. PICK i \in 1..levelIdx - 1 : e.target \in levels[i]
      BY <2>1 DEF Done
    <3> QED BY <3>1, <1>2
  <2>2. CASE e.target \in Wave /\ levelIdx <= Len(levels)
    BY <2>2, <1>2 DEF Wave
  <2>3. e.target \notin Inputs
    BY DEF Inputs
  <2>4. CASE e.target \in contextMap
    BY <2>1, <2>2, <2>3, <2>4 DEF RecordExact, PlanComplete
  <2>5. CASE e.target \notin contextMap
    <3>1. e.target \in Parallel /\ levelIdx <= Len(levels)
      BY <1>1, <2>5 DEF StatesExact
    <3> QED BY <3>1, <2>2 DEF Parallel
  <2> QED BY <2>4, <2>5
<1>4. PICK j \in 1..i - 1 : e.source \in levels[j]
  BY <1>1, <1>3 DEF WavesOrdered
<1>5. j \in 1..levelIdx - 1
  BY <1>2, <1>3, <1>4
<1> QED BY <1>4, <1>5 DEF Done, RecordExact

\* No node begins before all it depends on is recorded, whatever the workflow:
\* gatherInputs() never reads a result that is not there (executor.ts:488).
THEOREM NodesWaitForDependencies == Spec => []DependenciesFirst
<1>1. IInv => DependenciesFirst
  BY DependenciesRecorded DEF IInv
<1> QED BY <1>1, InductiveInvariant, PTL

\* A node with side effects is called once, under every sequence of
\* reconfigurations of self-healing (executor.ts:278-282).
THEOREM SideEffectsOnce == Spec => []OnlyIdempotentRetried
<1>1. IInv => OnlyIdempotentRetried
  BY DEF IInv, WaveInv
<1> QED BY <1>1, InductiveInvariant, PTL

\* The gate store holds the open gate and the escalated nodes, and nothing else.
THEOREM PersistedGates == Spec => []GateStoreExact
<1>1. IInv => GateStoreExact
  BY DEF IInv, WaveInv
<1> QED BY <1>1, InductiveInvariant, PTL

\* After the last wave every node is recorded.
LEMMA AllRecorded ==
  ASSUME WaveInv, pc \in {"level", "complete"}, levelIdx > Len(levels)
  PROVE  contextMap = Nodes
<1> USE DEF WaveInv
<1>1. levelIdx - 1 = Len(levels)
  BY DEF TypeOK
<1>2. Done = Placed /\ Placed = Nodes
  BY <1>1 DEF Done, Placed, PlanComplete
<1> QED BY <1>2 DEF RecordExact, TypeOK

\* workflow_complete (executor.ts:707) is only ever reported for a run whose
\* every node has run or was skipped, with none fatal.
THEOREM CompletedRunsAreWhole == Spec => []CompleteMeansAll
<1>1. IInv => CompleteMeansAll
  <2> SUFFICES ASSUME IInv, pc = "complete"
               PROVE  contextMap = Nodes /\ \A n \in Nodes : state[n] \in Ran \cup {"skipped"}
    BY DEF CompleteMeansAll
  <2> USE DEF IInv, WaveInv
  <2>1. Len(levels) \in Nat /\ levelIdx = Len(levels) + 1
    BY DEF PlanComplete, TypeOK
  <2>2. contextMap = Nodes
    BY <2>1, AllRecorded
  <2> QED BY <2>2 DEF StatesExact
<1> QED BY <1>1, InductiveInvariant, PTL

\* A recorded result stands to the end of the run.
THEOREM ResultsNeverRevised == Spec => ResultsStand
<1>1. IInv /\ [Next]_vars =>
        [\A n \in contextMap : n \in contextMap' /\ state'[n] = state[n]]_vars
  BY RecordStands DEF IInv
<1> QED BY <1>1, InductiveInvariant, PTL DEF Spec, ResultsStand

-------------------------------------------------------------------------------
(* The waves implement the dataflow                                          *)

\* Under the refinement mapping an edge carries data exactly when gatherInputs()
\* counts it as active, and a node is reached exactly when it is not skipped.
LEMMA CarriesMeansActive ==
  ASSUME WaveInv, NEW n \in Nodes, \A e \in Into(n) : e.source \in contextMap
  PROVE  /\ \A e \in Into(n) : e.source \in Nodes /\ fate[e.source] = state[e.source]
         /\ \A e \in Into(n) : Abstract!Carries(e) <=> ~Inactive(e)
         /\ Abstract!Ready(n)
         /\ Type(n) # "input" => (Abstract!Reached(n) <=> ~Skip(n))
<1> USE DEF WaveInv
<1>1. ASSUME NEW e \in Into(n) PROVE e.source \in Nodes /\ fate[e.source] = state[e.source]
  BY <1>1 DEF TypeOK, fate
<1>2. ASSUME NEW e \in Into(n) PROVE Abstract!Carries(e) <=> ~Inactive(e)
  BY <1>1 DEF Abstract!Carries, Inactive, BranchNotTaken, Type
<1>3. ASSUME NEW e \in Into(n) PROVE fate[e.source] # "pending"
  <2>1. state[e.source] \in Ran \cup {"skipped"}
    BY <1>3 DEF StatesExact
  <2> QED BY <1>1, <2>1 DEF Ran
<1>4. Abstract!Into(n) = Into(n)
  BY DEF Abstract!Into, Into
<1>5. Abstract!Ready(n)
  BY <1>3, <1>4 DEF Abstract!Ready
<1>6. Type(n) # "input" => (Abstract!Reached(n) <=> ~Skip(n))
  BY <1>2, <1>4 DEF Abstract!Reached, Skip, Type
<1> QED BY <1>1, <1>2, <1>5, <1>6

\* The common shape of every step that settles fates.
\* A step that records the results of ready nodes settles fates.
LEMMA SettlingStep ==
  ASSUME WaveInv, WaveInv', planVars' = planVars, pc \notin Over, pc' \notin Over,
         NEW S \in SUBSET Nodes, S \cap contextMap = {}, contextMap' = contextMap \cup S,
         \A n \in contextMap : state'[n] = state[n],
         \A n \in S : Abstract!Ready(n) /\ (state'[n] = "skipped" <=> ~Abstract!Reached(n))
  PROVE  Abstract!SettleFates
<1> USE DEF WaveInv
<1>1. Nodes' = Nodes /\ definition' = definition
  BY PlanFixed
<1>2. \A n \in Nodes : fate[n] = IF n \in contextMap THEN state[n] ELSE "pending"
  BY DEF fate
<1>3. \A n \in Nodes : fate'[n] = IF n \in contextMap' THEN state'[n] ELSE "pending"
  BY <1>1 DEF fate
<1>4. \A n \in contextMap' : state'[n] \in Ran \cup {"skipped"}
  BY DEF StatesExact
<1>5. fate' \in [Nodes -> Ran \cup {"pending", "skipped"}]
  BY <1>1, <1>4 DEF fate
<1>6. ASSUME NEW n \in Nodes, fate'[n] # fate[n]
      PROVE  fate[n] = "pending" /\ Abstract!Ready(n) /\ (fate'[n] = "skipped" <=> ~Abstract!Reached(n))
  <2>1. n \in S /\ n \notin contextMap
    BY <1>2, <1>3, <1>6
  <2> QED BY <2>1, <1>2, <1>3
<1>7. outcome = "running" /\ outcome' = "running"
  BY DEF outcome
<1> QED BY <1>1, <1>5, <1>6, <1>7 DEF Abstract!SettleFates, Nodes

\* A step that records nothing is invisible in the dataflow.
LEMMA StutteringStep ==
  ASSUME WaveInv, planVars' = planVars, contextMap' = contextMap,
         \A n \in contextMap : state'[n] = state[n], outcome' = outcome
  PROVE  UNCHANGED Abstract!vars
<1>1. Nodes' = Nodes /\ definition' = definition
  BY PlanFixed
<1>2. fate' = fate
  BY <1>1 DEF fate
<1> QED BY <1>1, <1>2 DEF Abstract!vars

\* Every step of the executor settles fates, ends the run, or is invisible.
LEMMA StepImplements == IInv /\ IInv' /\ [Next]_vars => [Abstract!Next]_Abstract!vars
<1> SUFFICES ASSUME IInv, IInv', [Next]_vars PROVE [Abstract!Next]_Abstract!vars
  OBVIOUS
<1> USE DEF IInv
<1>1. \A n \in contextMap : state'[n] = state[n]
  BY RecordStands
<1>2. CASE BuildLevel
  <2>1. contextMap' = contextMap /\ outcome' = outcome /\ definition' = definition /\ state' = state
    BY <1>2 DEF BuildLevel, outcome
  <2>2. fate' = fate
    BY <2>1 DEF fate, Nodes
  <2> QED BY <2>1, <2>2 DEF Abstract!vars
<1>3. CASE Start /\ Placed = Nodes
  <2>1. /\ planVars' = planVars /\ pc \notin Over /\ pc' \notin Over /\ contextMap = {}
        /\ contextMap' = Inputs /\ Inputs \subseteq Nodes
        /\ \A n \in Inputs : state'[n] = "ok"
    BY <1>3 DEF Start, Over, Inputs, PlanComplete, WaveInv
  <2>2. \A n \in Inputs : Abstract!Ready(n) /\ Abstract!Reached(n)
    BY DEF Inputs, Abstract!Ready, Abstract!Reached, Type
  <2>3. Abstract!SettleFates
    BY <1>1, <2>1, <2>2, SettlingStep
  <2> QED BY <2>3 DEF Abstract!Next
<1>4. CASE Start /\ Placed # Nodes
  <2>1. pc = "plan" /\ pc' = "failed" /\ planVars' = planVars /\ UNCHANGED <<state, contextMap>>
    BY <1>4 DEF Start
  <2>2. UNCHANGED <<definition, fate>>
    BY <2>1 DEF fate, Nodes
  <2>3. outcome = "running" /\ outcome' = "failed"
    BY <2>1 DEF outcome, Over
  <2> QED BY <2>2, <2>3 DEF Abstract!Next, Abstract!Fail
<1>5. CASE StartWave
  <2>1. /\ planVars' = planVars /\ contextMap' = contextMap
        /\ pc = "level" /\ pc' \in {"parallel", "failed"}
    BY <1>5 DEF StartWave
  <2>2. CASE pc' = "parallel"
    BY <1>1, <2>1, <2>2, StutteringStep DEF outcome, Over
  <2>3. CASE pc' = "failed"
    <3>1. outcome = "running" /\ outcome' = "failed"
      BY <2>1, <2>3 DEF outcome, Over
    <3>2. Nodes' = Nodes /\ definition' = definition
      BY <2>1, PlanFixed
    <3>3. fate' = fate
      BY <1>1, <2>1, <3>2 DEF fate
    <3> QED BY <3>1, <3>2, <3>3 DEF Abstract!Next, Abstract!Fail
  <2> QED BY <2>1, <2>2, <2>3
<1>6. CASE EndWave /\ ~FatalResult
  <2>1. /\ planVars' = planVars /\ pc = "parallel" /\ pc \notin Over /\ pc' \notin Over
        /\ contextMap' = contextMap \cup Parallel /\ state' = state
    BY <1>6 DEF EndWave, Over
  <2>2. /\ levelIdx <= Len(levels) /\ Parallel \subseteq Wave /\ Wave \subseteq Nodes
        /\ Parallel \cap contextMap = {} /\ Parallel \cap Inputs = {}
    BY <2>1, WaveInNodes, ParallelUnrecorded DEF PlanComplete, WaveInv
  <2>3. ASSUME NEW n \in Parallel
        PROVE  Abstract!Ready(n) /\ (state'[n] = "skipped" <=> ~Abstract!Reached(n))
    <3>1. \A e \in Into(n) : e.source \in contextMap
      BY <2>2, PredecessorsRecorded
    <3>2. n \in Nodes /\ Type(n) # "input"
      BY <2>2 DEF Inputs
    <3>3. Abstract!Ready(n) /\ (Abstract!Reached(n) <=> ~Skip(n))
      BY <3>1, <3>2, CarriesMeansActive
    <3> QED BY <2>1, <3>3 DEF SkipsDecided
  <2>4. Abstract!SettleFates
    BY <1>1, <2>1, <2>2, <2>3, SettlingStep
  <2> QED BY <2>4 DEF Abstract!Next
<1>7. CASE EndWave /\ FatalResult
  <2>1. pc = "parallel" /\ pc' = "failed" /\ planVars' = planVars /\ UNCHANGED <<state, contextMap>>
    BY <1>7 DEF EndWave
  <2>2. UNCHANGED <<definition, fate>>
    BY <2>1 DEF fate, Nodes
  <2>3. outcome = "running" /\ outcome' = "failed"
    BY <2>1 DEF outcome, Over
  <2> QED BY <2>2, <2>3 DEF Abstract!Next, Abstract!Fail
<1>8. ASSUME NEW n \in Nodes, NodeSucceeds(n) \/ NodeFails(n) \/ Retry(n)
      PROVE  UNCHANGED Abstract!vars
  <2>1. planVars' = planVars /\ contextMap' = contextMap /\ pc' = pc
    BY <1>8 DEF NodeSucceeds, NodeFails, Retry
  <2> QED BY <1>1, <2>1, StutteringStep DEF outcome
<1>9. ASSUME NEW n \in Nodes, n \in Gates \ contextMap, levelIdx <= Len(levels),
             planVars' = planVars, pc \notin Over, pc' \notin Over,
             contextMap' = contextMap \cup {n}, state'[n] = "skipped" <=> Skip(n)
      PROVE  Abstract!Next
  <2>1. n \in Wave /\ n \notin Inputs
    BY <1>9, WaveInNodes DEF WaveInv
  <2>2. \A e \in Into(n) : e.source \in contextMap
    BY <1>9, <2>1, PredecessorsRecorded
  <2>3. Abstract!Ready(n) /\ (Abstract!Reached(n) <=> ~Skip(n))
    BY <2>1, <2>2, CarriesMeansActive DEF Inputs
  <2>4. Abstract!SettleFates
    <3>1. {n} \in SUBSET Nodes /\ {n} \cap contextMap = {}
      BY <1>9
    <3>2. \A m \in {n} : Abstract!Ready(m) /\ (state'[m] = "skipped" <=> ~Abstract!Reached(m))
      BY <1>9, <2>3
    <3> HIDE DEF IInv
    <3>3. WaveInv /\ WaveInv'
      BY DEF IInv
    <3> QED BY <1>1, <1>9, <3>1, <3>2, <3>3, SettlingStep
  <2> QED BY <2>4 DEF Abstract!Next
<1>10. ASSUME NEW n \in Nodes, SkipGate(n) PROVE Abstract!Next
  <2>1. /\ pc = "gates" /\ pc' = "gates" /\ n \in Gates \ contextMap /\ Skip(n)
        /\ planVars' = planVars /\ contextMap' = contextMap \cup {n} /\ state'[n] = "skipped"
    BY <1>10 DEF SkipGate, Settle, TypeOK, WaveInv
  <2> QED BY <2>1, <1>9 DEF Over, PlanComplete, WaveInv
<1>11. CASE EndGate
  <2>1. /\ pc = "waiting" /\ pc' = "gates" /\ planVars' = planVars
        /\ contextMap' = contextMap \cup {gate}
    BY <1>11 DEF EndGate
  <2>2. levelIdx <= Len(levels) /\ gate \in Gates \ contextMap /\ gate \in Nodes /\ ~Skip(gate)
    BY <2>1, WaveInNodes DEF PlanComplete, RecordExact, SkipsDecided, WaveInv
  <2>3. state'[gate] = "ok"
    BY <1>11, <2>2 DEF EndGate, Settle, TypeOK, WaveInv
  <2>4. Abstract!Next
    BY <2>1, <2>2, <2>3, <1>9 DEF Over
  <2> QED BY <2>4
<1>12. CASE Complete
  <2>1. /\ pc = "level" /\ pc' = "complete" /\ planVars' = planVars
        /\ UNCHANGED <<state, contextMap, levelIdx>>
    BY <1>12 DEF Complete
  <2>2. outcome = "running" /\ outcome' = "complete"
    BY <2>1 DEF outcome, Over
  <2>3. contextMap = Nodes
    BY <1>12, AllRecorded DEF Complete
  <2>4. \A n \in Nodes : fate[n] # "pending"
    BY <2>3 DEF fate, WaveInv, StatesExact, Ran
  <2>5. UNCHANGED <<definition, fate>>
    BY <2>1 DEF fate, Nodes
  <2> QED BY <2>2, <2>4, <2>5 DEF Abstract!Next, Abstract!Complete, Nodes
<1>13. CASE \/ EndLevel \/ GateTimesOut \/ ConfigureSelfHealing \/ RunOutOfTime \/ UNCHANGED vars
           \/ \E n \in Nodes : OpenGate(n) \/ ResumeGate(n)
  <2>1. planVars' = planVars /\ contextMap' = contextMap
    BY <1>13 DEF EndLevel, GateTimesOut, ConfigureSelfHealing, RunOutOfTime, vars, OpenGate, ResumeGate
  <2>2. pc' = pc \/ (pc \notin Over /\ pc' \notin Over)
    BY <1>13 DEF EndLevel, GateTimesOut, ConfigureSelfHealing, RunOutOfTime, vars, OpenGate,
       ResumeGate, Over
  <2> QED BY <1>1, <2>1, <2>2, StutteringStep DEF outcome
<1> QED BY <1>2, <1>3, <1>4, <1>5, <1>6, <1>7, <1>8, <1>10, <1>11, <1>12, <1>13 DEF Next, Execute

\* Waves, parallel nodes, retries and gates amount to settling the nodes of the
\* workflow in an order its edges allow, each skipped exactly when nothing reaches it.
THEOREM WavesImplementDataflow == Spec => ImplementsDataflow
<1>1. Init => Abstract!Init
  BY DEF Init, Abstract!Init, fate, outcome, Over, Nodes
<1>2. IInv /\ IInv' /\ [Next]_vars => [Abstract!Next]_Abstract!vars
  BY StepImplements
<1> QED BY <1>1, <1>2, InductiveInvariant, PTL DEF Spec, ImplementsDataflow, Abstract!Spec

-------------------------------------------------------------------------------
(* Cycles and cut-off nodes                                                  *)

\* Each of these nodes depends on another one of them.
Loop(S) == \A n \in S : \E e \in Into(n) : e.source \in S

\* No wave takes a node of a loop: Kahn's loop never brings its in-degree to zero.
LoopsUnplaced == \A S \in SUBSET Nodes : Loop(S) => Placed \cap S = {}

\* What the counting of placed nodes concludes about cycles stays right
\* (executor.ts:432-440).
LEMMA CyclesKept ==
  ASSUME WaveInv, LoopsUnplaced, CyclesNeverRun, [Next]_vars
  PROVE  LoopsUnplaced' /\ CyclesNeverRun'
<1> USE DEF WaveInv
<1>1. IsDefinition(definition)
  BY DefinitionsAssumption DEF TypeOK
<1>2. Cyclic <=> \E S \in (SUBSET Nodes) \ {{}} : Loop(S)
  BY DEF Cyclic, Loop
<1>3. CASE BuildLevel
  <2>1. Nodes' = Nodes /\ (\A n : Into(n)' = Into(n)) /\ UNCHANGED <<pc, state>> /\ pc = "plan"
    BY <1>3 DEF BuildLevel, Nodes, Into
  <2>2. \A S : Loop(S)' <=> Loop(S)
    BY <2>1 DEF Loop
  <2>3. Placed' \subseteq Placed \cup NextWave
    <3>1. levels \in Seq(SUBSET Nodes) /\ NextWave \in SUBSET Nodes
      BY DEF TypeOK, NextWave
    <3>2. /\ Len(levels') = Len(levels) + 1 /\ Len(levels) \in Nat
          /\ levels'[Len(levels) + 1] = NextWave
          /\ \A i \in 1..Len(levels) : levels'[i] = levels[i]
      BY <1>3, <3>1 DEF BuildLevel
    <3>3. \A i \in 1..Len(levels') : i \in 1..Len(levels) \/ i = Len(levels) + 1
      BY <3>2
    <3> QED BY <3>2, <3>3 DEF Placed
  <2>4. ASSUME NEW S \in SUBSET Nodes, Loop(S) PROVE Placed' \cap S = {}
    <3>1. Placed \cap S = {}
      BY <2>4 DEF LoopsUnplaced
    <3>2. NextWave \cap S = {}
      BY <2>4, <3>1 DEF NextWave, Loop
    <3> QED BY <2>3, <3>1, <3>2
  <2>5. Cyclic' <=> Cyclic
    BY <2>1 DEF Cyclic
  <2> QED BY <2>1, <2>2, <2>4, <2>5 DEF LoopsUnplaced, CyclesNeverRun
<1>4. CASE ~BuildLevel
  <2>1. planVars' = planVars
    BY <1>4 DEF Next, Execute, Start, StartWave, EndWave, EndLevel, Complete, NodeSucceeds,
       NodeFails, Retry, SkipGate, OpenGate, GateTimesOut, EndGate, ResumeGate,
       ConfigureSelfHealing, RunOutOfTime, vars
  <2>2. Nodes' = Nodes /\ Placed' = Placed /\ \A n : Into(n)' = Into(n)
    BY <2>1, PlanFixed
  <2>3. LoopsUnplaced' /\ (Cyclic' <=> Cyclic)
    BY <2>2 DEF LoopsUnplaced, Loop, Cyclic
  <2>4. CASE Start /\ Placed # Nodes
    <3>1. /\ pc = "plan" /\ NextWave = {} /\ pc' = "failed" /\ state' = state
      BY <2>4 DEF Start
    <3>2. state = [n \in Nodes |-> "waiting"]
      BY <3>1 DEF TypeOK, PlanComplete, StatesExact
    <3>3. Placed \subseteq Nodes
      BY DEF Placed, TypeOK
    <3>4. Loop(Nodes \ Placed)
      <4>1. ASSUME NEW n \in Nodes \ Placed PROVE \E e \in Into(n) : e.source \in Nodes \ Placed
        <5>1. PICK e \in Into(n) : e.source \notin Placed
          BY <3>1 DEF NextWave
        <5> QED BY <5>1, <1>1 DEF Into, IsDefinition, Nodes
      <4> QED BY <4>1 DEF Loop
    <3>5. Nodes \ Placed \in (SUBSET Nodes) \ {{}}
      <4>1. \E n \in Nodes : n \notin Placed
        BY <2>4, <3>3
      <4> QED BY <4>1
    <3>6. Cyclic
      BY <1>2, <3>4, <3>5
    <3> QED BY <2>2, <2>3, <3>1, <3>2, <3>6 DEF CyclesNeverRun
  <2>5. CASE Start /\ Placed = Nodes
    <3>1. ASSUME NEW S \in (SUBSET Nodes) \ {{}}, Loop(S) PROVE FALSE
      <4>1. S \in SUBSET Nodes /\ S # {}
        OBVIOUS
      <4>2. Placed \cap S = {}
        BY <3>1, <4>1 DEF LoopsUnplaced
      <4> QED BY <2>5, <4>1, <4>2
    <3>2. ~Cyclic
      BY <1>2, <3>1
    <3>3. pc' = "level"
      BY <2>5 DEF Start
    <3> QED BY <2>3, <3>2, <3>3 DEF CyclesNeverRun
  <2>6. CASE ~Start /\ Cyclic
    <3>1. pc \in {"plan", "failed"} /\ \A n \in Nodes : state[n] = "waiting"
      BY <2>6 DEF CyclesNeverRun
    <3>2. UNCHANGED <<pc, state>>
      BY <1>4, <2>6, <3>1 DEF Next, Execute, StartWave, EndWave, EndLevel, Complete,
         NodeSucceeds, NodeFails, Retry, SkipGate, OpenGate, GateTimesOut, EndGate,
         ResumeGate, ConfigureSelfHealing, RunOutOfTime, vars
    <3> QED BY <2>2, <2>3, <2>6, <3>2 DEF CyclesNeverRun
  <2>7. CASE ~Start /\ ~Cyclic
    <3>1. pc' = "failed" => pc = "failed" \/ pc \in {"level", "parallel"}
      BY <1>4, <2>7 DEF Next, Execute, StartWave, EndWave, EndLevel, Complete,
         NodeSucceeds, NodeFails, Retry, SkipGate, OpenGate, GateTimesOut, EndGate,
         ResumeGate, ConfigureSelfHealing, RunOutOfTime, vars
    <3>2. pc' = "failed" => Placed = Nodes
      BY <2>7, <3>1 DEF CyclesNeverRun, PlanComplete
    <3> QED BY <2>2, <2>3, <2>7, <3>2 DEF CyclesNeverRun
  <2> QED BY <2>4, <2>5, <2>6, <2>7, <2>3
<1> QED BY <1>3, <1>4

\* Counting placed nodes finds exactly the cyclic workflows, whatever the graph:
\* these never start a node, and no other is rejected (executor.ts:432-440).
THEOREM CycleCheckExact == Spec => []CyclesNeverRun
<1>1. Init => LoopsUnplaced /\ CyclesNeverRun
  <2> SUFFICES ASSUME Init PROVE LoopsUnplaced /\ CyclesNeverRun
    OBVIOUS
  <2>1. Placed = {}
    BY DEF Init, Placed
  <2> QED BY <2>1 DEF Init, LoopsUnplaced, CyclesNeverRun
<1>2. IInv /\ (LoopsUnplaced /\ CyclesNeverRun) /\ [Next]_vars => (LoopsUnplaced /\ CyclesNeverRun)'
  BY CyclesKept DEF IInv
<1> QED BY <1>1, <1>2, InductiveInvariant, PTL DEF Spec

\* A path of recorded nodes and edges not cut off by a branch leads to n.
Roots == {m \in Nodes : Into(m) = {} \/ Type(m) = "input"}
RecordedPath(n) ==
  \A R \in SUBSET Nodes :
    /\ Roots \subseteq R
    /\ \A e \in definition.edges :
         e.source \in R \cap contextMap /\ ~BranchNotTaken(e) => e.target \in R
    => n \in R

\* Each recorded fate has its reason: nothing active led to a skipped node, and
\* a path of recorded nodes leads to any other.
FatesJustified ==
  \A n \in contextMap :
    /\ state[n] = "skipped" => Skip(n) /\ Type(n) # "input"
    /\ state[n] # "skipped" => RecordedPath(n)

\* Recording more nodes cuts off none that a path led to.
LEMMA PathsStand ==
  ASSUME WaveInv, [Next]_vars, planVars' = planVars, NEW n, RecordedPath(n)
  PROVE  RecordedPath(n)'
<1>1. /\ Nodes' = Nodes /\ definition' = definition
      /\ \A m : Type(m)' = Type(m) /\ Into(m)' = Into(m)
  BY PlanFixed
<1>2. Roots' = Roots
  BY <1>1 DEF Roots
<1>3. \A m \in contextMap : m \in contextMap' /\ state'[m] = state[m]
  BY RecordStands
<1>4. \A e : e.source \in contextMap => (BranchNotTaken(e)' <=> BranchNotTaken(e))
  BY <1>1, <1>3 DEF BranchNotTaken
<1> QED BY <1>1, <1>2, <1>3, <1>4 DEF RecordedPath

\* A node of the wave that is not skipped has a path of recorded nodes to it.
LEMMA PathToRunning ==
  ASSUME WaveInv, FatesJustified, [Next]_vars, planVars' = planVars, levelIdx <= Len(levels),
         NEW n \in Wave, n \in Nodes, ~Skip(n)
  PROVE  RecordedPath(n)'
<1>1. CASE Into(n) = {}
  BY <1>1 DEF RecordedPath, Roots, Nodes, Into
<1>2. CASE Into(n) # {}
  <2>1. PICK e \in Into(n) : ~Inactive(e)
    BY <1>2 DEF Skip
  <2>2. e.source \in contextMap /\ state[e.source] # "skipped" /\ ~BranchNotTaken(e)
    BY <2>1, PredecessorsRecorded DEF Inactive
  <2>3. RecordedPath(e.source)
    BY <2>2 DEF FatesJustified
  <2>4. e \in definition.edges /\ e.target = n
    BY DEF Into
  <2>5. RecordedPath(n)
    BY <2>2, <2>3, <2>4 DEF RecordedPath
  <2> QED BY <2>5, PathsStand
<1> QED BY <1>1, <1>2

\* The reasons of recorded fates stay good, and new ones are recorded with theirs.
LEMMA FatesJustifiedKept ==
  ASSUME IInv, IInv', FatesJustified, [Next]_vars
  PROVE  FatesJustified'
<1> USE DEF IInv
<1>1. CASE BuildLevel
  <2>1. contextMap' = {}
    BY <1>1 DEF BuildLevel, WaveInv, PlanComplete
  <2> QED BY <2>1 DEF FatesJustified
<1>2. CASE ~BuildLevel
  <2>1. planVars' = planVars
    BY <1>2 DEF Next, Execute, Start, StartWave, EndWave, EndLevel, Complete, NodeSucceeds,
       NodeFails, Retry, SkipGate, OpenGate, GateTimesOut, EndGate, ResumeGate,
       ConfigureSelfHealing, RunOutOfTime, vars
  <2>2. /\ Nodes' = Nodes /\ Inputs' = Inputs
        /\ \A n : Type(n)' = Type(n) /\ Into(n)' = Into(n)
    BY <2>1, PlanFixed
  <2>3. ASSUME NEW n \in contextMap
        PROVE  /\ state'[n] = "skipped" => Skip(n)' /\ Type(n)' # "input"
               /\ state'[n] # "skipped" => RecordedPath(n)'
    <3>1. state'[n] = state[n]
      BY RecordStands
    <3>2. CASE state[n] = "skipped"
      <4>1. Skip(n) /\ Type(n) # "input"
        BY <3>2 DEF FatesJustified
      <4>2. ASSUME NEW e \in Into(n) PROVE state'[e.source] = state[e.source]
        <5>1. e \in definition.edges /\ e.target = n
          BY DEF Into
        <5>2. e.source \in contextMap
          BY <3>2, <4>1, <5>1, DependenciesRecorded DEF DependenciesFirst
        <5> QED BY <5>2, RecordStands
      <4>3. \A e \in Into(n) : Inactive(e)' <=> Inactive(e)
        BY <2>2, <4>2 DEF Inactive, BranchNotTaken
      <4>4. Skip(n)' <=> Skip(n)
        BY <2>2, <4>3 DEF Skip
      <4> QED BY <2>2, <3>1, <3>2, <4>1, <4>4
    <3>3. CASE state[n] # "skipped"
      <4>1. RecordedPath(n)
        BY <3>3 DEF FatesJustified
      <4>2. RecordedPath(n)'
        BY <2>1, <4>1, PathsStand
      <4> QED BY <3>1, <3>3, <4>2
    <3> QED BY <3>2, <3>3
  <2>4. ASSUME NEW n \in Nodes, n \in Wave, levelIdx <= Len(levels), n \notin Inputs,
               state'[n] = "skipped" <=> Skip(n)
        PROVE  /\ state'[n] = "skipped" => Skip(n)' /\ Type(n)' # "input"
               /\ state'[n] # "skipped" => RecordedPath(n)'
    <3>1. Skip(n)' <=> Skip(n)
      BY <2>1, <2>4, SkipStable
    <3>2. ~Skip(n) => RecordedPath(n)'
      BY <2>1, <2>4, PathToRunning
    <3> QED BY <2>2, <2>4, <3>1, <3>2 DEF Inputs
  <2>5. CASE Start
    <3>1. contextMap' \subseteq contextMap \cup Inputs
      BY <2>5 DEF Start, Inputs
    <3>2. ASSUME NEW n \in Inputs, n \in contextMap', n \notin contextMap
          PROVE  RecordedPath(n)' /\ state'[n] # "skipped"
      <4>1. n \in Roots'
        BY <2>2 DEF Roots, Inputs
      <4>2. state'[n] = "ok"
        BY <2>5, <3>2 DEF Start, Inputs
      <4> QED BY <4>1, <4>2 DEF RecordedPath
    <3> QED BY <2>3, <3>1, <3>2 DEF FatesJustified
  <2>6. CASE EndWave
    <3>1. contextMap' \subseteq contextMap \cup Parallel /\ pc = "parallel" /\ state' = state
      BY <2>6 DEF EndWave
    <3>2. levelIdx <= Len(levels)
      BY <3>1 DEF WaveInv, PlanComplete
    <3>3. Parallel \subseteq Wave /\ Wave \subseteq Nodes /\ Parallel \cap Inputs = {}
      BY <3>2, WaveInNodes DEF WaveInv
    <3>4. \A n \in Parallel : state'[n] = "skipped" <=> Skip(n)
      BY <3>1 DEF SkipsDecided
    <3> QED BY <2>3, <2>4, <3>1, <3>2, <3>3, <3>4 DEF FatesJustified
  <2>7. ASSUME NEW n \in Nodes, SkipGate(n) PROVE FatesJustified'
    <3>1. contextMap' = contextMap \cup {n} /\ pc = "gates" /\ n \in Gates /\ Skip(n)
      BY <2>7 DEF SkipGate
    <3>2. levelIdx <= Len(levels)
      BY <3>1 DEF WaveInv, PlanComplete
    <3>3. n \in Wave /\ n \notin Inputs
      BY <3>1, <3>2, WaveInNodes DEF WaveInv
    <3>4. state'[n] = "skipped"
      BY <2>7 DEF SkipGate, Settle, WaveInv, TypeOK
    <3> QED BY <2>3, <2>4, <3>1, <3>2, <3>3, <3>4 DEF FatesJustified
  <2>8. CASE EndGate
    <3>1. contextMap' = contextMap \cup {gate} /\ pc = "waiting"
      BY <2>8 DEF EndGate
    <3>2. levelIdx <= Len(levels) /\ gate \in Gates /\ ~Skip(gate)
      BY <3>1 DEF WaveInv, PlanComplete, RecordExact, SkipsDecided
    <3>3. gate \in Wave /\ gate \in Nodes /\ gate \notin Inputs
      BY <3>2, WaveInNodes DEF WaveInv
    <3>4. state'[gate] = "ok"
      BY <2>8, <3>3 DEF EndGate, Settle, WaveInv, TypeOK
    <3>5. PICK n \in Nodes : n = gate
      BY <3>3
    <3>6. /\ state'[n] = "skipped" => Skip(n)' /\ Type(n)' # "input"
          /\ state'[n] # "skipped" => RecordedPath(n)'
      BY <2>4, <3>2, <3>3, <3>4, <3>5
    <3> QED BY <2>3, <3>1, <3>5, <3>6 DEF FatesJustified
  <2>9. CASE ~Start /\ ~EndWave /\ ~EndGate /\ ~\E n \in Nodes : SkipGate(n)
    <3>1. contextMap' = contextMap
      BY <1>2, <2>9 DEF Next, Execute, StartWave, EndLevel, Complete, NodeSucceeds,
         NodeFails, Retry, OpenGate, GateTimesOut, ResumeGate, ConfigureSelfHealing,
         RunOutOfTime, vars
    <3> QED BY <2>3, <3>1 DEF FatesJustified
  <2> QED BY <2>5, <2>6, <2>7, <2>8, <2>9
<1> QED BY <1>1, <1>2

\* Justified fates are the right ones: skipped where no path leads, and only there.
LEMMA JustifiedFatesRight == WaveInv /\ FatesJustified => SkippedIffCutOff
<1> SUFFICES ASSUME WaveInv, FatesJustified, NEW n \in contextMap
             PROVE  state[n] = "skipped" <=> ~HasPath(n)
  BY DEF SkippedIffCutOff
<1>1. n \in Nodes /\ IsDefinition(definition)
  BY DefinitionsAssumption DEF WaveInv, TypeOK
<1>2. ASSUME state[n] = "skipped", HasPath(n) PROVE FALSE
  <2> DEFINE R == {m \in Nodes : ~(m \in contextMap /\ state[m] = "skipped")}
  <2>1. {m \in Nodes : Into(m) = {} \/ Type(m) = "input"} \subseteq R
    BY DEF FatesJustified, Skip
  <2>2. ASSUME NEW e \in definition.edges, e.source \in R, ~BranchNotTaken(e), e.target \notin R
        PROVE  FALSE
    <3>1. e.target \in Nodes
      BY <1>1 DEF IsDefinition, Nodes
    <3>2. e.target \in contextMap /\ state[e.target] = "skipped"
      BY <2>2, <3>1
    <3>3. Skip(e.target) /\ Type(e.target) # "input"
      BY <3>2 DEF FatesJustified
    <3>4. e.source \in contextMap
      BY <3>2, <3>3, DependenciesRecorded DEF DependenciesFirst
    <3>5. Inactive(e)
      BY <3>3 DEF Skip, Into
    <3>6. state[e.source] = "skipped"
      BY <2>2, <3>5 DEF Inactive
    <3> QED BY <2>2, <3>4, <3>6
  <2>3. R \in SUBSET Nodes /\ n \notin R
    BY <1>2
  <2> HIDE DEF R
  <2> QED BY <1>2, <2>1, <2>2, <2>3 DEF HasPath
<1>3. ASSUME state[n] # "skipped" PROVE HasPath(n)
  <2>1. RecordedPath(n)
    BY <1>3 DEF FatesJustified
  <2> QED BY <2>1 DEF RecordedPath, HasPath, Roots
<1> QED BY <1>2, <1>3

\* Deciding from the direct predecessors alone skips, in every workflow, exactly
\* the nodes that no path of branches taken leads to (executor.ts:474, 509).
THEOREM SkippingIsExact == Spec => []SkippedIffCutOff
<1>1. Init => FatesJustified
  BY DEF Init, FatesJustified
<1>2. IInv /\ IInv' /\ FatesJustified /\ [Next]_vars => FatesJustified'
  BY FatesJustifiedKept
<1>3. IInv /\ FatesJustified => SkippedIffCutOff
  BY JustifiedFatesRight DEF IInv
<1> QED BY <1>1, <1>2, <1>3, InductiveInvariant, PTL DEF Spec

-------------------------------------------------------------------------------
(* A run winds down *)

\* No wave is empty, and nodes run only while their wave does.
WavesFilled == \A i \in 1..Len(levels) : levels[i] # {}
RunningInWave == \A n \in Nodes : state[n] \in {"running", "healing"} => pc = "parallel"
WindInv == WavesFilled /\ RunningInWave

LEMMA WindInvKept == WaveInv /\ WindInv /\ [Next]_vars => WindInv'
<1> SUFFICES ASSUME WaveInv, WindInv, [Next]_vars PROVE WindInv'
  OBVIOUS
<1> USE DEF WaveInv, WindInv
<1>0. Len(levels) \in Nat /\ levels \in Seq(SUBSET Nodes) /\ state \in [Nodes -> States]
  BY DEF TypeOK
<1>1. WavesFilled'
  <2>1. CASE BuildLevel
    <3>1. NextWave \in SUBSET Nodes /\ NextWave # {} /\ levels' = Append(levels, NextWave)
      BY <2>1 DEF BuildLevel, NextWave
    <3>2. /\ Len(levels') = Len(levels) + 1 /\ levels'[Len(levels) + 1] = NextWave
          /\ \A i \in 1..Len(levels) : levels'[i] = levels[i]
      BY <1>0, <3>1
    <3>3. ASSUME NEW i \in 1..Len(levels') PROVE levels'[i] # {}
      BY <1>0, <3>1, <3>2, <3>3 DEF WavesFilled
    <3> QED BY <3>3 DEF WavesFilled
  <2>2. CASE levels' = levels
    BY <2>2 DEF WavesFilled
  <2> QED BY <2>1, <2>2 DEF Next, Execute, Start, StartWave, EndWave, EndLevel, Complete,
     NodeSucceeds, NodeFails, Retry, SkipGate, OpenGate, GateTimesOut, EndGate,
     ResumeGate, ConfigureSelfHealing, RunOutOfTime, vars
<1>2. RunningInWave'
  <2>1. CASE StartWave
    <3>1. \A n \in Nodes : state[n] \notin {"running", "healing"}
      BY <2>1 DEF StartWave, RunningInWave
    <3>2. pc' = "parallel" \/ state' = state
      BY <2>1 DEF StartWave
    <3> QED BY <2>1, <3>1, <3>2 DEF StartWave, RunningInWave, Nodes
  <2>2. CASE EndWave
    <3>1. \A n \in Nodes : state[n] \notin {"running", "healing"}
      <4>1. ASSUME NEW n \in Nodes, state[n] \in {"running", "healing"} PROVE FALSE
        <5>1. n \in Parallel
          BY <4>1 DEF StatesExact, Ran
        <5> QED BY <2>2, <4>1, <5>1 DEF EndWave, Settled, Ran
      <4> QED BY <4>1
    <3> QED BY <2>2, <3>1 DEF EndWave, RunningInWave, Nodes
  <2>3. ASSUME NEW n \in Nodes, NodeSucceeds(n) \/ NodeFails(n) \/ Retry(n)
        PROVE  RunningInWave'
    <3>1. pc = "parallel" /\ pc' = pc
      BY <2>3 DEF NodeSucceeds, NodeFails, Retry, RunningInWave
    <3> QED BY <3>1 DEF RunningInWave
  <2>4. CASE \/ \E n \in Nodes : SkipGate(n)
             \/ EndGate \/ Start
    <3>1. /\ definition' = definition /\ pc # "parallel"
          /\ \A n \in Nodes : state'[n] = state[n] \/ state'[n] \in {"ok", "skipped"}
      BY <1>0, <2>4 DEF SkipGate, EndGate, Start, Settle
    <3> QED BY <3>1 DEF RunningInWave, Nodes
  <2>5. CASE /\ state' = state /\ definition' = definition
             /\ pc # "parallel" \/ pc' = pc
    BY <2>5 DEF RunningInWave, Nodes
  <2>6. \/ BuildLevel \/ EndLevel \/ Complete \/ GateTimesOut
        \/ \E n \in Nodes : OpenGate(n) \/ ResumeGate(n)
        \/ ConfigureSelfHealing \/ RunOutOfTime \/ UNCHANGED vars
        => /\ state' = state /\ definition' = definition
           /\ pc # "parallel" \/ pc' = pc
    BY DEF BuildLevel, EndLevel, Complete, GateTimesOut, OpenGate, ResumeGate,
       ConfigureSelfHealing, RunOutOfTime, vars
  <2> QED BY <2>1, <2>2, <2>3, <2>4, <2>5, <2>6 DEF Next, Execute
<1> QED BY <1>1, <1>2

\* Nothing is set back, and the run or a node of it gets on.
NoSetback == Stage' \in 0..Stage /\ \A n \in Nodes : Work(n)' \in 0..Work(n)
GetsOn    == NoSetback /\ (Stage' < Stage \/ \E n \in Nodes : Work(n)' < Work(n))

LEMMA WorkRange ==
  ASSUME TypeOK, NEW n \in Nodes
  PROVE  /\ Work(n) \in 0..2 * MaxAttempts + 8 /\ WorkInParallel(n) \in 5..2 * MaxAttempts + 6
         /\ WorkAtGates(n) \in 1..4 /\ MaxAttempts \in Nat /\ attempt[n] \in 0..MaxAttempts
<1>1. attempt[n] \in 0..MaxAttempts /\ MaxAttempts \in Nat
  BY LimitsAssumption DEF TypeOK
<1>2. WorkInParallel(n) \in 5..2 * MaxAttempts + 6
  <2>1. CASE state[n] = "healing"
    <3>1. WorkInParallel(n) = 2 * (MaxAttempts - attempt[n]) + 5
      BY <2>1 DEF WorkInParallel
    <3> QED BY <1>1, <3>1
  <2>2. CASE state[n] = "running"
    <3>1. WorkInParallel(n) = 2 * (MaxAttempts - attempt[n]) + 6
      BY <2>2 DEF WorkInParallel
    <3> QED BY <1>1, <3>1
  <2>3. CASE state[n] \notin {"running", "healing"}
    <3>1. WorkInParallel(n) = 5
      BY <2>3 DEF WorkInParallel
    <3> QED BY <1>1, <3>1
  <2> QED BY <2>1, <2>2, <2>3
<1>3. WorkAtGates(n) \in 1..4
  BY DEF WorkAtGates
<1>4. Work(n) \in {0, 2 * MaxAttempts + 8, 2 * MaxAttempts + 7, WorkInParallel(n), WorkAtGates(n)}
  BY DEF Work
<1> QED BY <1>1, <1>2, <1>3, <1>4

\* The nodes of the wave under way are placed and not done.
LEMMA WaveUnderWay ==
  ASSUME WaveInv, levelIdx <= Len(levels)
  PROVE  /\ Wave \subseteq Placed /\ Wave \cap Done = {} /\ Wave \subseteq Nodes
         /\ WavesFilled => Wave # {}
<1> USE DEF WaveInv
<1>1. levelIdx \in 1..Len(levels) /\ Len(levels) \in Nat
  BY DEF TypeOK
<1>2. Wave \subseteq Placed /\ (WavesFilled => Wave # {})
  BY <1>1 DEF Wave, Placed, WavesFilled
<1>3. Wave \subseteq Nodes
  BY <1>1, WaveInNodes
<1>4. ASSUME NEW n \in Wave, n \in Done PROVE FALSE
  <2>1. PICK i \in 1..levelIdx - 1 : n \in levels[i]
    BY <1>4 DEF Done
  <2>2. levels[i] \cap levels[levelIdx] = {}
    BY <1>1 DEF WavesOrdered
  <2> QED BY <1>4, <2>1, <2>2 DEF Wave
<1> QED BY <1>2, <1>3, <1>4

\* The end of a run, or of its planning, sets back no node.
LEMMA EndGetsOn ==
  ASSUME TypeOK, pc' \in Over, pc \notin Over
  PROVE  GetsOn
<1>1. \A n \in Nodes : Work(n)' = 0
  BY DEF Work
<1>2. \A n \in Nodes : Work(n) \in Nat
  BY WorkRange
<1>3. Stage' = 0 /\ Stage \in {1, 2}
  BY DEF Stage, Over
<1> QED BY <1>1, <1>2, <1>3 DEF GetsOn, NoSetback

\* Planning places the nodes of another wave, or is over.
LEMMA PlanningGetsOn ==
  ASSUME WaveInv, BuildLevel \/ Start
  PROVE  GetsOn
<1> USE DEF WaveInv
<1>0. MaxAttempts \in Nat
  BY LimitsAssumption
<1>1. CASE BuildLevel
  <2>1. /\ pc = "plan" /\ pc' = "plan" /\ levelIdx = 1 /\ levelIdx' = 1
        /\ NextWave # {} /\ levels' = Append(levels, NextWave) /\ NextWave \in SUBSET Nodes
    BY <1>1 DEF BuildLevel, PlanComplete, NextWave
  <2>2. Done = {} /\ Done' = {}
    BY <2>1 DEF Done
  <2>3. Placed' = Placed \cup NextWave
    <3>1. /\ Len(levels) \in Nat /\ Len(levels') = Len(levels) + 1
          /\ levels'[Len(levels) + 1] = NextWave
          /\ \A i \in 1..Len(levels) : levels'[i] = levels[i]
      BY <2>1 DEF TypeOK
    <3>2. 1..Len(levels') = (1..Len(levels)) \cup {Len(levels) + 1}
      BY <3>1
    <3> QED BY <3>1, <3>2 DEF Placed
  <2>4. \A n \in Nodes :
          /\ Work(n)  = IF n \in Placed THEN 2 * MaxAttempts + 7 ELSE 2 * MaxAttempts + 8
          /\ Work(n)' = IF n \in Placed' THEN 2 * MaxAttempts + 7 ELSE 2 * MaxAttempts + 8
    BY <2>1, <2>2 DEF Work, Over
  <2>5. \A n \in Nodes : Work(n)' \in 0..Work(n)
    BY <1>0, <2>3, <2>4
  <2>6. PICK n \in Nodes : n \in NextWave /\ n \notin Placed
    BY <2>1 DEF NextWave
  <2>7. Work(n)' < Work(n)
    BY <1>0, <2>3, <2>4, <2>6
  <2>8. Stage' = Stage /\ Stage = 2
    BY <2>1 DEF Stage, Over
  <2> QED BY <2>5, <2>7, <2>8 DEF GetsOn, NoSetback
<1>2. CASE Start /\ pc' = "level"
  <2>1. /\ pc = "plan" /\ planVars' = planVars /\ levelIdx' = levelIdx
    BY <1>2 DEF Start
  <2>2. Placed' = Placed /\ Done' = Done
    BY <2>1, PlanFixed, WaveFixed
  <2>3. \A n \in Nodes : Work(n)' = Work(n) /\ Work(n) \in Nat
    BY <1>2, <2>1, <2>2, WorkRange DEF Work, Over
  <2>4. Stage = 2 /\ Stage' = 1
    BY <1>2, <2>1 DEF Stage, Over
  <2> QED BY <2>3, <2>4 DEF GetsOn, NoSetback
<1>3. CASE Start /\ pc' = "failed"
  BY <1>3, EndGetsOn DEF Start, Over
<1> QED BY <1>1, <1>2, <1>3 DEF Start

\* In a wave, a step that leaves the plan alone.
LEMMA WaveWork ==
  ASSUME planVars' = planVars, levelIdx' = levelIdx, levelIdx <= Len(levels), WaveInv
  PROVE  /\ \A n \in Nodes \ Wave :
              pc \in {"level", "parallel", "gates", "waiting"} /\ pc' \in {"level", "parallel", "gates", "waiting"}
              => Work(n)' = Work(n)
         /\ \A n \in Wave :
              /\ pc = "level" => Work(n) = 2 * MaxAttempts + 7
              /\ pc = "parallel" => Work(n) = WorkInParallel(n)
              /\ pc \in {"gates", "waiting"} => Work(n) = WorkAtGates(n)
              /\ pc' = "parallel" => Work(n)' = WorkInParallel(n)'
              /\ pc' \in {"gates", "waiting"} => Work(n)' = WorkAtGates(n)'
<1>1. Placed' = Placed /\ Done' = Done /\ Wave' = Wave
  BY PlanFixed, WaveFixed
<1>2. Wave \subseteq Placed /\ Wave \cap Done = {}
  BY WaveUnderWay
<1> QED BY <1>1, <1>2 DEF Work, Over

LEMMA WaveGetsOn ==
  ASSUME WaveInv, WaveInv', WindInv,
         \/ StartWave \/ EndWave \/ GateTimesOut \/ EndGate
         \/ \E n \in Nodes : \/ NodeSucceeds(n) \/ NodeFails(n) \/ Retry(n)
                             \/ SkipGate(n) \/ OpenGate(n)
  PROVE  GetsOn
<1> USE DEF WaveInv
<1> DEFINE Runs == {"level", "parallel", "gates", "waiting"}
<1>0. MaxAttempts \in Nat /\ NoNode \notin Nodes
  BY LimitsAssumption, DefinitionsAssumption DEF TypeOK, IsDefinition, Nodes
<1>1. /\ planVars' = planVars /\ levelIdx' = levelIdx /\ levelIdx <= Len(levels)
  <2>1. CASE \E n \in Nodes : NodeSucceeds(n) \/ NodeFails(n) \/ Retry(n)
    BY <2>1 DEF NodeSucceeds, NodeFails, Retry, WindInv, RunningInWave, PlanComplete
  <2>2. CASE \/ StartWave \/ EndWave \/ GateTimesOut \/ EndGate
             \/ \E n \in Nodes : SkipGate(n) \/ OpenGate(n)
    BY <2>2 DEF StartWave, EndWave, GateTimesOut, EndGate, SkipGate, OpenGate, PlanComplete
  <2> QED BY <2>1, <2>2
<1>2. /\ Wave \subseteq Nodes /\ Wave # {} /\ Nodes' = Nodes
  BY <1>1, WaveUnderWay, PlanFixed DEF WindInv
<1>3. \A n \in Nodes : /\ Work(n) \in Nat
                       /\ WorkInParallel(n) \in 5..2 * MaxAttempts + 6 /\ WorkAtGates(n) \in 1..4
  BY WorkRange
<1>4. ASSUME pc \in Runs, pc' \in Runs,
             \A n \in Wave : Work(n)' \in 0..Work(n), \E n \in Wave : Work(n)' < Work(n)
      PROVE  GetsOn
  <2>1. \A n \in Nodes \ Wave : Work(n)' = Work(n)
    BY <1>1, <1>4, WaveWork
  <2>2. Stage' = 1 /\ Stage = 1
    BY <1>4 DEF Stage, Over
  <2> QED BY <1>2, <1>3, <1>4, <2>1, <2>2 DEF GetsOn, NoSetback
<1>5. CASE StartWave
  <2>1. pc = "level" /\ pc' \in {"failed", "parallel"}
    BY <1>5 DEF StartWave
  <2>2. CASE pc' = "failed"
    BY <2>1, <2>2, EndGetsOn DEF Over
  <2>3. CASE pc' = "parallel"
    <3>1. ASSUME NEW n \in Wave
          PROVE  Work(n)' \in 0..Work(n) /\ Work(n)' < Work(n)
      <4>1. Work(n) = 2 * MaxAttempts + 7 /\ Work(n)' = WorkInParallel(n)'
        BY <1>1, <2>1, <2>3, WaveWork
      <4>2. WorkInParallel(n)' \in 5..2 * MaxAttempts + 6
        <5>1. attempt' = attempt /\ attempt[n] \in 0..MaxAttempts
          BY <1>2, <1>5 DEF StartWave, TypeOK
        <5>2. WorkInParallel(n)' \in {2 * (MaxAttempts - attempt[n]) + 6,
                                     2 * (MaxAttempts - attempt[n]) + 5, 5}
          BY <5>1 DEF WorkInParallel
        <5> QED BY <1>0, <5>1, <5>2
      <4> QED BY <1>0, <4>1, <4>2
    <3> QED BY <1>2, <1>4, <2>1, <2>3, <3>1
  <2> QED BY <2>1, <2>2, <2>3
<1>6. ASSUME NEW n \in Nodes, NodeSucceeds(n) \/ NodeFails(n) \/ Retry(n)
      PROVE  GetsOn
  <2>1. pc = "parallel" /\ pc' = "parallel" /\ state[n] \in {"running", "healing"}
    BY <1>6 DEF NodeSucceeds, NodeFails, Retry, WindInv, RunningInWave
  <2>2. n \in Wave
    BY <2>1, WaveInNodes, <1>1 DEF StatesExact, Ran
  <2>3. /\ state \in [Nodes -> States] /\ attempt \in [Nodes -> 0..MaxAttempts]
        /\ attempt[n] \in Nat
    BY <1>0 DEF TypeOK
  <2>4. \A m \in Wave \ {n} : state'[m] = state[m] /\ attempt'[m] = attempt[m]
    BY <1>2, <1>6, <2>3 DEF NodeSucceeds, NodeFails, Retry, Settle
  <2>5. \A m \in Wave : Work(m) = WorkInParallel(m) /\ Work(m)' = WorkInParallel(m)'
    BY <1>1, <2>1, WaveWork
  <2>6. \A m \in Wave \ {n} : Work(m)' = Work(m)
    BY <2>4, <2>5 DEF WorkInParallel
  <2>7. WorkInParallel(n)' \in 0..(WorkInParallel(n) - 1)
    <3>1. CASE Retry(n)
      <4>1. /\ state[n] = "healing" /\ state'[n] = "running" /\ attempt'[n] = attempt[n] + 1
            /\ attempt'[n] \in 0..MaxAttempts
        BY <2>3, <3>1, <1>2 DEF Retry, TypeOK
      <4>2. /\ WorkInParallel(n) = 2 * (MaxAttempts - attempt[n]) + 5
            /\ WorkInParallel(n)' = 2 * (MaxAttempts - (attempt[n] + 1)) + 6
        BY <4>1 DEF WorkInParallel
      <4> QED BY <1>0, <2>3, <4>1, <4>2
    <3>2. CASE NodeFails(n) /\ state'[n] = "healing"
      <4>1. state[n] = "running" /\ attempt'[n] = attempt[n] /\ attempt[n] < MaxAttempts
        BY <1>2, <2>3, <3>2 DEF NodeFails, HealingAllowed
      <4>2. /\ WorkInParallel(n) = 2 * (MaxAttempts - attempt[n]) + 6
            /\ WorkInParallel(n)' = 2 * (MaxAttempts - attempt[n]) + 5
        BY <3>2, <4>1 DEF WorkInParallel
      <4> QED BY <1>0, <2>3, <4>1, <4>2
    <3>3. CASE NodeSucceeds(n) \/ (NodeFails(n) /\ state'[n] # "healing")
      <4>1. state[n] = "running" /\ state'[n] \notin {"running", "healing"}
        BY <2>3, <3>3 DEF NodeSucceeds, NodeFails, Settle
      <4>2. WorkInParallel(n)' = 5 /\ WorkInParallel(n) = 2 * (MaxAttempts - attempt[n]) + 6
        BY <3>3, <4>1 DEF WorkInParallel
      <4>3. attempt[n] \in 0..MaxAttempts
        BY <2>3
      <4> QED BY <1>0, <4>2, <4>3
    <3> QED BY <1>6, <3>1, <3>2, <3>3
  <2>8. Work(n)' \in 0..Work(n) /\ Work(n)' < Work(n)
    BY <1>3, <2>2, <2>5, <2>7
  <2>9. \A m \in Wave : Work(m)' \in 0..Work(m)
    BY <1>2, <1>3, <2>6, <2>8
  <2> QED BY <1>4, <2>1, <2>2, <2>8, <2>9
<1>7. CASE EndWave
  <2>1. pc = "parallel" /\ pc' \in {"failed", "gates"} /\ state' = state
    BY <1>7 DEF EndWave
  <2>2. CASE pc' = "failed"
    BY <2>1, <2>2, EndGetsOn DEF Over
  <2>3. CASE pc' = "gates"
    <3>1. ASSUME NEW n \in Wave
          PROVE  Work(n)' \in 0..Work(n) /\ Work(n)' < Work(n)
      <4>1. Work(n) = WorkInParallel(n) /\ Work(n)' = WorkAtGates(n)'
        BY <1>1, <2>1, <2>3, WaveWork
      <4>2. WorkAtGates(n)' \in 1..4
        BY DEF WorkAtGates
      <4> QED BY <1>2, <1>3, <4>1, <4>2
    <3> QED BY <1>2, <1>4, <2>1, <2>3, <3>1
  <2> QED BY <2>1, <2>2, <2>3
<1>8. ASSUME NEW n \in Nodes, SkipGate(n) \/ OpenGate(n)
      PROVE  GetsOn
  <2>1. /\ pc = "gates" /\ pc' \in {"gates", "waiting"} /\ n \in Gates \ contextMap
        /\ gate = NoNode
    BY <1>8 DEF SkipGate, OpenGate, GateStoreExact
  <2>2. n \in Wave
    BY <2>1, <1>1, WaveInNodes
  <2>3. \A m \in Wave : Work(m) = WorkAtGates(m) /\ Work(m)' = WorkAtGates(m)'
    BY <1>1, <2>1, WaveWork
  <2>4. /\ WorkAtGates(n) = 4 /\ WorkAtGates(n)' \in {1, 3}
    BY <1>0, <1>8, <2>1 DEF WorkAtGates, SkipGate, OpenGate
  <2>5. \A m \in Wave \ {n} : WorkAtGates(m)' = WorkAtGates(m)
    BY <1>0, <1>2, <1>8, <2>1 DEF WorkAtGates, SkipGate, OpenGate
  <2> QED BY <1>2, <1>3, <1>4, <2>1, <2>2, <2>3, <2>4, <2>5
<1>9. CASE GateTimesOut \/ EndGate
  <2>1. /\ pc = "waiting" /\ pc' \in {"gates", "waiting"} /\ gate \in Gates \ contextMap
    BY <1>9 DEF GateTimesOut, EndGate, RecordExact
  <2>2. gate \in Wave
    BY <2>1, <1>1, WaveInNodes
  <2>3. PICK g \in Wave : g = gate
    BY <2>2
  <2>4. \A m \in Wave : Work(m) = WorkAtGates(m) /\ Work(m)' = WorkAtGates(m)'
    BY <1>1, <2>1, WaveWork
  <2>5. WorkAtGates(g)' < WorkAtGates(g) /\ WorkAtGates(g)' \in Nat
    <3>1. CASE GateTimesOut
      <4>1. WorkAtGates(g) = 3 /\ WorkAtGates(g)' = 2
        BY <2>1, <2>3, <3>1 DEF GateTimesOut, WorkAtGates
      <4> QED BY <4>1
    <3>2. CASE EndGate
      <4>1. WorkAtGates(g) = 2 /\ WorkAtGates(g)' = 1
        BY <2>1, <2>3, <3>2 DEF EndGate, WorkAtGates
      <4> QED BY <4>1
    <3> QED BY <1>9, <3>1, <3>2
  <2>6. \A m \in Wave \ {g} : WorkAtGates(m)' = WorkAtGates(m)
    BY <1>0, <1>2, <1>9, <2>1, <2>3 DEF WorkAtGates, GateTimesOut, EndGate
  <2> QED BY <1>2, <1>3, <1>4, <2>1, <2>3, <2>4, <2>5, <2>6
<1> QED BY <1>5, <1>6, <1>7, <1>8, <1>9

\* The end of a wave leaves nothing to do for its nodes.
LEMMA EndLevelGetsOn ==
  ASSUME WaveInv, WindInv, EndLevel
  PROVE  GetsOn
<1> USE DEF WaveInv
<1>1. /\ pc = "gates" /\ pc' = "level" /\ levelIdx \in 1..Len(levels) /\ Len(levels) \in Nat
      /\ planVars' = planVars /\ levelIdx' = levelIdx + 1
  BY DEF EndLevel, TypeOK, PlanComplete
<1>2. Done' = Done \cup Wave
  <2>1. 1..(levelIdx + 1) - 1 = (1..levelIdx - 1) \cup {levelIdx}
    BY <1>1
  <2>2. Done' = UNION {levels[i] : i \in 1..(levelIdx + 1) - 1}
    BY <1>1 DEF Done
  <2> QED BY <2>1, <2>2 DEF Done, Wave
<1>3. Wave \subseteq Placed /\ Wave \cap Done = {} /\ Wave \subseteq Nodes /\ Wave # {}
  BY <1>1, WaveUnderWay DEF WindInv
<1>4. Placed' = Placed
  BY <1>1, PlanFixed
<1>5. \A n \in Nodes : Work(n) \in Nat /\ WorkAtGates(n) \in 1..4
  BY WorkRange
<1>6. ASSUME NEW n \in Wave PROVE Work(n)' = 0 /\ Work(n) > 0
  BY <1>1, <1>2, <1>3, <1>5 DEF Work, Over
<1>7. ASSUME NEW n \in Nodes \ Wave PROVE Work(n)' = Work(n)
  BY <1>1, <1>2, <1>4 DEF Work, Over
<1>8. Stage = 1 /\ Stage' = 1
  BY <1>1 DEF Stage, Over
<1> QED BY <1>3, <1>5, <1>6, <1>7, <1>8 DEF GetsOn, NoSetback

\* What happens to a run from outside sets back no node: an answer to its gate
\* brings it on.
LEMMA OutsideSetsNothingBack ==
  ASSUME TypeOK, \/ ConfigureSelfHealing \/ RunOutOfTime
                 \/ \E n \in Nodes : ResumeGate(n)
  PROVE  NoSetback
<1>1. /\ planVars' = planVars /\ levelIdx' = levelIdx
      /\ UNCHANGED <<pc, state, attempt, contextMap, gate>>
      /\ choice' = choice \/ (choice = "none" /\ choice' \in Choices)
  BY DEF ConfigureSelfHealing, RunOutOfTime, ResumeGate
<1>2. Placed' = Placed /\ Done' = Done /\ Wave' = Wave
  BY <1>1, PlanFixed, WaveFixed
<1>3. ASSUME NEW n \in Nodes PROVE Work(n)' \in 0..Work(n)
  <2>1. Work(n) \in Nat /\ WorkAtGates(n) \in 1..4
    BY WorkRange
  <2>2. WorkAtGates(n)' \in 1..WorkAtGates(n)
    <3>1. choice' = "none" => choice = "none"
      BY <1>1, LimitsAssumption
    <3> QED BY <1>1, <3>1 DEF WorkAtGates
  <2>3. WorkInParallel(n)' = WorkInParallel(n)
    BY <1>1 DEF WorkInParallel
  <2>4. CASE Work(n)' = Work(n)
    BY <2>1, <2>4
  <2>5. CASE Work(n)' = WorkAtGates(n)' /\ Work(n) = WorkAtGates(n)
    BY <2>1, <2>2, <2>5
  <2> QED BY <1>1, <1>2, <2>3, <2>4, <2>5 DEF Work
<1>4. Stage' = Stage /\ Stage \in Nat
  BY <1>1 DEF Stage
<1> QED BY <1>3, <1>4 DEF NoSetback

LEMMA ExecuteGetsOn ==
  ASSUME WaveInv, WaveInv', WindInv, Execute
  PROVE  GetsOn
<1>1. CASE BuildLevel \/ Start
  BY <1>1, PlanningGetsOn
<1>2. CASE \/ StartWave \/ EndWave \/ GateTimesOut \/ EndGate
           \/ \E n \in Nodes : \/ NodeSucceeds(n) \/ NodeFails(n) \/ Retry(n)
                               \/ SkipGate(n) \/ OpenGate(n)
  BY <1>2, WaveGetsOn
<1>3. CASE EndLevel
  BY <1>3, EndLevelGetsOn
<1>4. CASE Complete
  BY <1>4, EndGetsOn DEF Complete, Over, WaveInv
<1> QED BY <1>1, <1>2, <1>3, <1>4 DEF Execute

\* For every workflow, every step of its run brings it or one of its nodes
\* nearer to the end and nothing sets back any: with the bound on attempts no
\* node goes through more than 2 * MaxAttempts + 8 stages, however the retries
\* are reconfigured meanwhile (executor.ts:232-380 and 541-713).
THEOREM RunsWindDown == Spec => RunWindsDown
<1> DEFINE Winds == /\ Stage' \in 0..Stage /\ \A n \in Nodes : Work(n)' \in 0..Work(n)
                    /\ Execute => Stage' < Stage \/ \E n \in Nodes : Work(n)' < Work(n)
<1>1. Init => WindInv
  BY DEF Init, WindInv, WavesFilled, RunningInWave, Nodes
<1>2. IInv /\ WindInv /\ [Next]_vars => WindInv'
  BY WindInvKept DEF IInv
<1>3. IInv /\ IInv' /\ WindInv /\ [Next]_vars => [Winds]_vars
  <2> SUFFICES ASSUME IInv, IInv', WindInv, Next PROVE Winds
    OBVIOUS
  <2>1. WaveInv /\ WaveInv' /\ TypeOK
    BY DEF IInv, WaveInv
  <2>2. CASE Execute
    BY <2>1, <2>2, ExecuteGetsOn DEF GetsOn, NoSetback
  <2>3. CASE /\ ~ Execute
             /\ \/ ConfigureSelfHealing \/ RunOutOfTime
                \/ \E n \in Nodes : ResumeGate(n)
    BY <2>1, <2>3, OutsideSetsNothingBack DEF NoSetback
  <2> QED BY <2>2, <2>3 DEF Next
<1> QED BY <1>1, <1>2, <1>3, InductiveInvariant, PTL DEF Spec, RunWindsDown
===============================================================================
