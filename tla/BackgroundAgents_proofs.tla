------------------------ MODULE BackgroundAgents_proofs ------------------------
(***************************************************************************)
(* The agents of services/backgroundAgents.service.ts are called completed  *)
(* only when they are, and stay over, for any number of agents, of steps    *)
(* and of loops that overlap.                                               *)
(***************************************************************************)
EXTENDS BackgroundAgents, TLAPS

Statuses     == {"new", "running", "paused"} \cup Over
StepStatuses == {"pending", "running", "completed", "failed", "skipped"}

\* What IInv says of one agent.
Consistent(a) ==
  /\ status[a] = "running" => a \in stranded \/ \E l \in Loops : at[a][l] # 0
  /\ \A l \in Loops : 1..(at[a][l] - 1) \subseteq returned[a]
  /\ 1..(checkpoint[a] - 1) \subseteq returned[a]
  /\ status[a] = "new" => checkpoint[a] = 0 /\ a \notin overlapped /\ \A l \in Loops : at[a][l] = 0
  /\ status[a] = "completed" => returned[a] = Steps
Single(a) ==
  a \notin overlapped =>
    /\ \A l, m \in Loops : at[a][l] # 0 /\ at[a][m] # 0 => l = m
    /\ \A l \in Loops : at[a][l] # 0 =>
         /\ checkpoint[a] <= at[a][l]
         /\ \A i \in 1..(at[a][l] - 1) : step[a][i] = "completed"
         /\ status[a] \in {"running", "paused", "cancelled"}
    /\ \A i \in 1..(checkpoint[a] - 1) : step[a][i] = "completed"
    /\ status[a] = "completed" => \A i \in Steps : step[a][i] = "completed"
AgentInv(a) == Consistent(a) /\ Single(a)

LEMMA InvByAgent == IInv <=> TypeOK /\ \A a \in Ids : AgentInv(a)
BY DEF IInv, RunningHasLoop, ReturnedInOrder, OneLoop, Fresh, CompletedMeansDone,
       AgentInv, Consistent, Single

\* A step of one agent leaves the others as they are.
Kept(a) ==
  /\ status'[a] = status[a] /\ step'[a] = step[a] /\ checkpoint'[a] = checkpoint[a]
  /\ at'[a] = at[a] /\ returned'[a] = returned[a]
  /\ a \in overlapped' <=> a \in overlapped
  /\ a \in stranded' <=> a \in stranded

LEMMA KeptInv ==
  ASSUME NEW a \in Ids, AgentInv(a), Kept(a)
  PROVE  AgentInv(a)'
BY DEF AgentInv, Consistent, Single, Kept

\* The types of one agent.
LEMMA AgentTypes ==
  ASSUME TypeOK, NEW a \in Ids
  PROVE  /\ status[a] \in Statuses /\ step[a] \in [Steps -> StepStatuses]
         /\ checkpoint[a] \in Nat /\ checkpoint[a] \in Steps \cup {0}
         /\ at[a] \in [Loops -> Steps \cup {0}] /\ \A l \in Loops : at[a][l] \in Nat
         /\ returned[a] \in SUBSET Steps
BY StepsAssumption DEF TypeOK, Statuses, StepStatuses, Steps

\* The head of the loop goes on with the step or ends, and if it goes on onProgress
\* may end it.
LEMMA ProceedTypes ==
  ASSUME TypeOK, NEW a \in Ids, NEW l \in Loops, NEW i \in Nat, NEW s \in Statuses,
         NEW steps \in [Steps -> StepStatuses], Proceed(a, l, i, s, steps)
  PROVE  /\ at' \in [Ids -> [Loops -> Steps \cup {0}]]
         /\ step' \in [Ids -> [Steps -> StepStatuses]]
         /\ status' \in [Ids -> Statuses]
         /\ stranded' \subseteq Noisy
         /\ \/ at'[a] = [at[a] EXCEPT ![l] = IF Goes(i, s) THEN i ELSE 0]
            \/ at'[a] = [at[a] EXCEPT ![l] = 0] /\ Goes(i, s) /\ a \in stranded'
         /\ step'[a] = IF Goes(i, s) THEN [steps EXCEPT ![i] = "running"] ELSE steps
         /\ status'[a] = Finish(i, s)
         /\ \A b \in Ids \ {a} :
              /\ at'[b] = at[b] /\ step'[b] = step[b] /\ status'[b] = status[b]
              /\ b \in stranded' <=> b \in stranded
<1>1. Goes(i, s) => i \in Steps
  BY DEF Goes
<1>2. Finish(i, s) \in Statuses
  BY DEF Finish, Statuses, Over
<1>3. step' \in [Ids -> [Steps -> StepStatuses]]
  BY <1>1 DEF Proceed, TypeOK, StepStatuses
<1>4. status' \in [Ids -> Statuses]
  BY <1>2 DEF Proceed, TypeOK, Statuses
<1>5. PICK n \in Steps \cup {0} : at' = [at EXCEPT ![a][l] = n]
  BY <1>1 DEF Proceed
<1>6. /\ at' \in [Ids -> [Loops -> Steps \cup {0}]]
      /\ at'[a] = [at[a] EXCEPT ![l] = n]
      /\ \A b \in Ids \ {a} : at'[b] = at[b]
  BY <1>5 DEF TypeOK
<1>7. \/ at'[a] = [at[a] EXCEPT ![l] = IF Goes(i, s) THEN i ELSE 0]
      \/ at'[a] = [at[a] EXCEPT ![l] = 0] /\ Goes(i, s) /\ a \in stranded'
  BY DEF Proceed, TypeOK
<1>8. /\ stranded' \subseteq Noisy
      /\ \A b \in Ids \ {a} : b \in stranded' <=> b \in stranded
  BY DEF Proceed, TypeOK
<1>9. /\ step'[a] = IF Goes(i, s) THEN [steps EXCEPT ![i] = "running"] ELSE steps
      /\ status'[a] = Finish(i, s)
      /\ \A b \in Ids \ {a} : step'[b] = step[b] /\ status'[b] = status[b]
  BY DEF Proceed, TypeOK
<1> QED BY <1>3, <1>4, <1>6, <1>7, <1>8, <1>9

\* A loop is started over an agent that is not over, and noted when another is
\* under way.
LEMMA RunAgentInv ==
  ASSUME TypeOK, NEW a \in Ids, NEW l \in Loops, AgentInv(a), RunAgent(a, l),
         UNCHANGED <<checkpoint, returned>>,
         overlapped' \in SUBSET Ids,
         a \in overlapped => a \in overlapped',
         a \notin overlapped' => \A m \in Loops : at[a][m] = 0
  PROVE  AgentInv(a)'
<1> DEFINE i == From(a)
<1>1. /\ at[a][l] = 0 /\ Proceed(a, l, i, "running", step[a])
      /\ step[a] \in [Steps -> StepStatuses] /\ checkpoint[a] \in Nat
      /\ checkpoint[a] \in Steps \cup {0} /\ at[a] \in [Loops -> Steps \cup {0}]
      /\ \A m \in Loops : at[a][m] \in Nat
      /\ returned[a] \in SUBSET Steps
  BY AgentTypes DEF RunAgent
<1>2. i \in Nat /\ i >= 1 /\ checkpoint[a] <= i /\ 1..(i - 1) = 1..(checkpoint[a] - 1)
  BY <1>1 DEF From
<1>3. "running" \in Statuses
  BY DEF Statuses
<1>4. /\ \/ at'[a] = [at[a] EXCEPT ![l] = IF Goes(i, "running") THEN i ELSE 0]
         \/ at'[a] = [at[a] EXCEPT ![l] = 0] /\ a \in stranded'
      /\ step'[a] = IF Goes(i, "running") THEN [step[a] EXCEPT ![i] = "running"] ELSE step[a]
      /\ status'[a] = Finish(i, "running")
  BY <1>1, <1>2, <1>3, ProceedTypes
<1>5. Goes(i, "running") <=> i <= NumSteps
  BY <1>2, StepsAssumption DEF Goes, Steps
<1>6. CASE i <= NumSteps
  <2>1. /\ at'[a][l] = i \/ (at'[a][l] = 0 /\ a \in stranded')
        /\ i # 0 /\ status'[a] = "running" /\ i \in Steps
        /\ \A m \in Loops \ {l} : at'[a][m] = at[a][m]
        /\ step'[a][i] = "running"
        /\ \A j \in Steps \ {i} : step'[a][j] = step[a][j]
    BY <1>1, <1>2, <1>4, <1>5, <1>6, StepsAssumption DEF Finish, Steps
  <2>2. Consistent(a)'
    BY <1>1, <1>2, <2>1 DEF AgentInv, Consistent
  <2>3. Single(a)'
    <3> SUFFICES ASSUME a \notin overlapped' PROVE Single(a)'
      BY DEF Single
    <3>1. /\ \A m \in Loops : at'[a][m] # 0 => m = l
          /\ \A j \in 1..(i - 1) : j \in Steps \ {i} /\ step[a][j] = "completed"
      BY <1>1, <1>2, <2>1, StepsAssumption DEF AgentInv, Single, Steps
    <3>2. \A j \in 1..(i - 1) : step'[a][j] = "completed"
      BY <2>1, <3>1
    <3> QED BY <1>2, <2>1, <3>1, <3>2 DEF Single
  <2> QED BY <2>2, <2>3 DEF AgentInv
<1>7. CASE i > NumSteps
  <2>0. at'[a] = [at[a] EXCEPT ![l] = 0]
    BY <1>4, <1>5, <1>7, <1>2, StepsAssumption
  <2>1. at'[a] = at[a] /\ step'[a] = step[a] /\ status'[a] = "completed"
    BY <2>0, <1>1, <1>2, <1>4, <1>5, <1>7, StepsAssumption DEF Finish
  <2>2. Steps = {} /\ checkpoint[a] = 0
    BY <1>1, <1>7, StepsAssumption DEF From, Steps
  <2>3. \A m \in Loops : at[a][m] = 0
    BY <1>1, <2>2
  <2>4. Consistent(a)'
    BY <1>1, <2>1, <2>2, <2>3 DEF AgentInv, Consistent
  <2>5. Single(a)'
    BY <2>1, <2>2, <2>3 DEF Single
  <2> QED BY <2>4, <2>5 DEF AgentInv
<1> QED BY <1>2, <1>6, <1>7, StepsAssumption

\* A handler returns and its loop goes on.
LEMMA StepReturnsInv ==
  ASSUME TypeOK, NEW a \in Ids, NEW l \in Loops, AgentInv(a), StepReturns(a, l)
  PROVE  AgentInv(a)'
<1> DEFINE i == at[a][l] + 1
           steps == [step[a] EXCEPT ![at[a][l]] = "completed"]
<1>1. /\ at[a][l] # 0 /\ Proceed(a, l, i, status[a], steps)
      /\ step[a] \in [Steps -> StepStatuses] /\ checkpoint[a] \in Nat
      /\ checkpoint[a] \in Steps \cup {0} /\ at[a] \in [Loops -> Steps \cup {0}]
      /\ \A m \in Loops : at[a][m] \in Nat
      /\ returned[a] \in SUBSET Steps /\ status[a] \in Statuses
  BY AgentTypes DEF StepReturns
<1>2. /\ at[a][l] \in Steps /\ i \in Nat /\ i # 0
      /\ steps \in [Steps -> StepStatuses] /\ checkpoint' = checkpoint
      /\ overlapped' = overlapped
      /\ returned'[a] = returned[a] \cup {at[a][l]}
  BY <1>1 DEF StepReturns, StepStatuses, TypeOK
<1>3. /\ \/ at'[a] = [at[a] EXCEPT ![l] = IF Goes(i, status[a]) THEN i ELSE 0]
         \/ at'[a] = [at[a] EXCEPT ![l] = 0] /\ Goes(i, status[a]) /\ a \in stranded'
      /\ step'[a] = IF Goes(i, status[a]) THEN [steps EXCEPT ![i] = "running"] ELSE steps
      /\ status'[a] = Finish(i, status[a])
  BY <1>1, <1>2, ProceedTypes
<1>4. /\ at'[a][l] \in {0, i} /\ \A m \in Loops \ {l} : at'[a][m] = at[a][m]
      /\ step'[a][at[a][l]] = "completed"
      /\ \A j \in Steps \ {at[a][l], i} : step'[a][j] = step[a][j]
      /\ \A j \in Steps : step'[a][j] = "running" => j = i \/ step[a][j] = "running"
  BY <1>1, <1>2, <1>3
<1>5. 1..(i - 1) \subseteq returned'[a]
  <2>1. 1..(i - 1) = 1..(at[a][l] - 1) \cup {at[a][l]}
    BY <1>1, <1>2, StepsAssumption DEF Steps
  <2> QED BY <1>2, <2>1 DEF AgentInv, Consistent
<1>6. status[a] # "new" /\ status'[a] \in {status[a], "completed"}
  BY <1>1, <1>3 DEF AgentInv, Consistent, Finish
<1>7. status'[a] = "completed" => status[a] = "completed" \/ i > NumSteps
  BY <1>3 DEF Finish
<1>8. Consistent(a)'
  <2>1. status'[a] = "running" => a \in stranded' \/ at'[a][l] # 0
    <3> SUFFICES ASSUME status'[a] = "running" PROVE a \in stranded' \/ at'[a][l] # 0
      OBVIOUS
    <3>1. status[a] = "running" /\ ~(i > NumSteps)
      BY <1>3 DEF Finish
    <3>2. Goes(i, status[a])
      BY <1>2, <3>1, StepsAssumption DEF Goes, Steps
    <3> QED BY <1>1, <1>2, <1>3, <3>2
  <2>2. \A m \in Loops : 1..(at'[a][m] - 1) \subseteq returned'[a]
    <3>1. 1..(at'[a][l] - 1) \subseteq returned'[a]
      BY <1>4, <1>5
    <3>2. \A m \in Loops \ {l} : 1..(at'[a][m] - 1) \subseteq returned'[a]
      BY <1>2, <1>4 DEF AgentInv, Consistent
    <3> QED BY <3>1, <3>2
  <2>3. 1..(checkpoint'[a] - 1) \subseteq returned'[a]
    BY <1>2 DEF AgentInv, Consistent
  <2>4. status'[a] = "completed" => returned'[a] = Steps
    <3>1. CASE status[a] = "completed"
      BY <1>1, <1>2, <3>1 DEF AgentInv, Consistent
    <3>2. CASE i > NumSteps
      <4>1. Steps \subseteq 1..(i - 1)
        BY <1>2, <3>2, StepsAssumption DEF Steps
      <4> QED BY <1>1, <1>2, <1>5, <4>1
    <3> QED BY <1>7, <3>1, <3>2
  <2> QED BY <1>6, <2>1, <2>2, <2>3, <2>4 DEF Consistent
<1>9. Single(a)'
  <2> SUFFICES ASSUME a \notin overlapped PROVE Single(a)'
    BY <1>2 DEF Single
  <2>1. /\ \A m \in Loops : at[a][m] # 0 => m = l
        /\ checkpoint[a] <= at[a][l]
        /\ \A j \in 1..(at[a][l] - 1) : step[a][j] = "completed"
        /\ status[a] \in {"running", "paused", "cancelled"}
    BY <1>1 DEF AgentInv, Single
  <2>2. \A m \in Loops : at'[a][m] # 0 => m = l
    BY <1>4, <2>1
  <2>3. \A j \in 1..(i - 1) : step'[a][j] = "completed"
    <3> SUFFICES ASSUME NEW j \in 1..(i - 1) PROVE step'[a][j] = "completed"
      OBVIOUS
    <3>1. CASE j = at[a][l]
      BY <1>4, <3>1
    <3>2. CASE j # at[a][l]
      <4>1. j \in 1..(at[a][l] - 1) /\ j \in Steps \ {at[a][l], i}
        BY <1>1, <1>2, <3>2, StepsAssumption DEF Steps
      <4> QED BY <1>4, <2>1, <4>1
    <3> QED BY <3>1, <3>2
  <2>4. at'[a][l] # 0 => /\ at'[a][l] = i
                         /\ status'[a] \in {"running", "paused", "cancelled"}
    <3>1. CASE Goes(i, status[a])
      <4>1. ~(i > NumSteps)
        BY <1>2, <3>1, StepsAssumption DEF Goes, Steps
      <4> QED BY <1>3, <1>4, <2>1, <4>1 DEF Finish
    <3>2. CASE ~ Goes(i, status[a])
      BY <1>1, <1>3, <3>2
    <3> QED BY <3>1, <3>2
  <2>5. \A j \in 1..(checkpoint'[a] - 1) : step'[a][j] = "completed"
    <3>1. 1..(checkpoint[a] - 1) \subseteq 1..(i - 1)
      BY <1>1, <1>2, <2>1
    <3> QED BY <1>2, <2>3, <3>1
  <2>6. status'[a] = "completed" => \A j \in Steps : step'[a][j] = "completed"
    <3>1. status'[a] = "completed" => Steps \subseteq 1..(i - 1)
      BY <1>2, <1>7, <2>1, StepsAssumption DEF Steps
    <3> QED BY <2>3, <3>1
  <2>7. \A m \in Loops : at'[a][m] # 0 =>
          /\ checkpoint'[a] <= at'[a][m]
          /\ \A j \in 1..(at'[a][m] - 1) : step'[a][j] = "completed"
          /\ status'[a] \in {"running", "paused", "cancelled"}
    BY <1>1, <1>2, <2>1, <2>2, <2>3, <2>4
  <2> QED BY <2>2, <2>5, <2>6, <2>7 DEF Single
<1> QED BY <1>8, <1>9 DEF AgentInv

-------------------------------------------------------------------------------
(* Every step *)

\* The step of one agent: it keeps the types, and leaves the others alone.
StepOf(a) == TypeOK' /\ AgentInv(a)' /\ \A b \in Ids \ {a} : Kept(b)

LEMMA SettleStep ==
  ASSUME TypeOK, NEW a \in Ids, NEW l \in Loops, AgentInv(a),
         StepReturns(a, l) \/ StepThrows(a, l)
  PROVE  StepOf(a)
<1>0. /\ at[a] \in [Loops -> Steps \cup {0}] /\ status[a] \in Statuses
      /\ step[a] \in [Steps -> StepStatuses] /\ checkpoint[a] \in Nat
      /\ \A m \in Loops : at[a][m] \in Nat /\ at[a][m] \in Steps \cup {0}
      /\ returned[a] \in SUBSET Steps
  BY AgentTypes
<1>1. CASE StepReturns(a, l)
  <2>1. /\ Proceed(a, l, at[a][l] + 1, status[a], [step[a] EXCEPT ![at[a][l]] = "completed"])
        /\ at[a][l] \in Steps /\ at[a][l] + 1 \in Nat
        /\ [step[a] EXCEPT ![at[a][l]] = "completed"] \in [Steps -> StepStatuses]
        /\ returned' = [returned EXCEPT ![a] = @ \cup {at[a][l]}]
        /\ UNCHANGED <<agents, checkpoint, overlapped>>
    BY <1>0, <1>1 DEF StepReturns, StepStatuses
  <2>2. /\ at' \in [Ids -> [Loops -> Steps \cup {0}]] /\ step' \in [Ids -> [Steps -> StepStatuses]]
        /\ status' \in [Ids -> Statuses] /\ stranded' \subseteq Noisy
        /\ \A b \in Ids \ {a} :
             /\ at'[b] = at[b] /\ step'[b] = step[b] /\ status'[b] = status[b]
             /\ b \in stranded' <=> b \in stranded
    BY <1>0, <2>1, ProceedTypes
  <2>3. TypeOK'
    BY <2>1, <2>2 DEF TypeOK, Statuses, StepStatuses
  <2>4. \A b \in Ids \ {a} : Kept(b)
    BY <2>1, <2>2 DEF Kept, TypeOK
  <2> QED BY <1>1, <2>3, <2>4, StepReturnsInv DEF StepOf
<1>2. CASE StepThrows(a, l)
  <2>1. /\ at[a][l] # 0 /\ at[a][l] \in Steps
        /\ at' = [at EXCEPT ![a][l] = 0]
        /\ step' = [step EXCEPT ![a][at[a][l]] = "failed"]
        /\ status' = [status EXCEPT ![a] = "failed"]
        /\ UNCHANGED <<agents, checkpoint, overlapped, stranded>>
        /\ \/ returned' = returned
           \/ returned' = [returned EXCEPT ![a] = @ \cup {at[a][l]}]
    BY <1>0, <1>2 DEF StepThrows
  <2>2. TypeOK' /\ \A b \in Ids \ {a} : Kept(b)
    BY <2>1 DEF TypeOK, Over, Kept
  <2>3. /\ at'[a][l] = 0 /\ \A m \in Loops \ {l} : at'[a][m] = at[a][m]
        /\ status'[a] = "failed"
        /\ \A j \in Steps \ {at[a][l]} : step'[a][j] = step[a][j]
        /\ returned[a] \subseteq returned'[a]
    BY <1>0, <2>1 DEF TypeOK
  <2>4. Consistent(a)'
    <3>1. 1..(at'[a][l] - 1) \subseteq returned'[a]
      BY <2>3
    <3> QED BY <2>1, <2>3, <3>1 DEF AgentInv, Consistent
  <2>5. Single(a)'
    <3> SUFFICES ASSUME a \notin overlapped PROVE Single(a)'
      BY <2>1 DEF Single
    <3>1. \A m \in Loops : at'[a][m] = 0
      BY <2>1, <2>3 DEF AgentInv, Single
    <3>2. \A i \in 1..(checkpoint[a] - 1) : i \in Steps \ {at[a][l]} /\ step[a][i] = "completed"
      <4>1. checkpoint[a] <= at[a][l]
        BY <2>1 DEF AgentInv, Single
      <4>2. \A i \in 1..(checkpoint[a] - 1) : i \in Steps \ {at[a][l]}
        BY <1>0, <2>1, <4>1, StepsAssumption DEF Steps
      <4> QED BY <4>2 DEF AgentInv, Single
    <3>3. \A i \in 1..(checkpoint'[a] - 1) : step'[a][i] = "completed"
      BY <2>1, <2>3, <3>2
    <3> QED BY <2>3, <3>1, <3>3 DEF Single
  <2> QED BY <2>2, <2>4, <2>5 DEF StepOf, AgentInv
<1> QED BY <1>1, <1>2

LEMMA SaveStep ==
  ASSUME TypeOK, NEW a \in Ids, NEW l \in Loops, AgentInv(a), SaveCheckpoint(a, l)
  PROVE  StepOf(a)
<1>1. /\ at[a][l] # 0 /\ at[a][l] \in Steps
      /\ checkpoint' = [checkpoint EXCEPT ![a] = at[a][l]]
      /\ UNCHANGED <<agents, status, step, at, returned, overlapped, stranded>>
  BY AgentTypes DEF SaveCheckpoint, Saved, history
<1>2. TypeOK' /\ checkpoint'[a] = at[a][l] /\ \A b \in Ids \ {a} : Kept(b)
  BY <1>1 DEF TypeOK, Kept
<1>3. Consistent(a)'
  BY <1>1, <1>2 DEF AgentInv, Consistent
<1>4. Single(a)'
  <2> SUFFICES ASSUME a \notin overlapped PROVE Single(a)'
    BY <1>1 DEF Single
  <2>1. /\ \A m \in Loops : at[a][m] # 0 => m = l
        /\ \A i \in 1..(at[a][l] - 1) : step[a][i] = "completed"
        /\ status[a] \in {"running", "paused", "cancelled"}
    BY <1>1 DEF AgentInv, Single
  <2>2. at[a][l] \in Nat
    BY AgentTypes
  <2> QED BY <1>1, <1>2, <2>1, <2>2 DEF Single
<1> QED BY <1>2, <1>3, <1>4 DEF StepOf, AgentInv

\* A loop is started, of a new agent or of a paused one.
LEMMA StartStep ==
  ASSUME TypeOK, NEW a \in Ids, AgentInv(a), CreateAgent(a) \/ ResumeAgent(a)
  PROVE  StepOf(a)
<1>1. PICK l \in Loops : RunAgent(a, l)
  BY DEF CreateAgent, ResumeAgent
<1>2. /\ UNCHANGED <<checkpoint, returned>>
      /\ agents' \subseteq Ids /\ overlapped' \in SUBSET Ids
      /\ \A b \in Ids \ {a} : b \in overlapped' <=> b \in overlapped
      /\ a \in overlapped => a \in overlapped'
  BY DEF CreateAgent, ResumeAgent, NoteOverlap, TypeOK
<1>3. a \notin overlapped' => \A m \in Loops : at[a][m] = 0
  BY DEF CreateAgent, ResumeAgent, NoteOverlap, AgentInv, Consistent
<1>4. AgentInv(a)'
  BY <1>1, <1>2, <1>3, RunAgentInv
<1>5. From(a) \in Nat /\ "running" \in Statuses /\ step[a] \in [Steps -> StepStatuses]
  BY AgentTypes DEF From, Statuses
<1>6. /\ at' \in [Ids -> [Loops -> Steps \cup {0}]] /\ step' \in [Ids -> [Steps -> StepStatuses]]
      /\ status' \in [Ids -> Statuses] /\ stranded' \subseteq Noisy
      /\ \A b \in Ids \ {a} :
           /\ at'[b] = at[b] /\ step'[b] = step[b] /\ status'[b] = status[b]
           /\ b \in stranded' <=> b \in stranded
  BY <1>1, <1>5, ProceedTypes DEF RunAgent
<1>7. TypeOK'
  BY <1>2, <1>6 DEF TypeOK, Statuses, StepStatuses
<1>8. \A b \in Ids \ {a} : Kept(b)
  BY <1>2, <1>6 DEF Kept
<1> QED BY <1>4, <1>7, <1>8 DEF StepOf

LEMMA UserStep ==
  ASSUME TypeOK, NEW a \in Ids, AgentInv(a), PauseAgent(a) \/ CancelAgent(a) \/ Cleanup(a)
  PROVE  StepOf(a)
<1>1. CASE PauseAgent(a)
  <2>1. TypeOK' /\ status'[a] = "paused" /\ \A b \in Ids \ {a} : Kept(b)
    BY <1>1 DEF PauseAgent, TypeOK, history, Kept
  <2>2. status[a] = "running" /\ UNCHANGED <<step, checkpoint, at, returned, overlapped, stranded>>
    BY <1>1 DEF PauseAgent, history
  <2>3. Consistent(a)' /\ Single(a)'
    BY <2>1, <2>2 DEF AgentInv, Consistent, Single
  <2> QED BY <2>1, <2>3 DEF StepOf, AgentInv
<1>2. CASE CancelAgent(a)
  <2>1. /\ status[a] \in {"running", "paused"}
        /\ UNCHANGED <<checkpoint, at, returned, overlapped, stranded>>
    BY <1>2 DEF CancelAgent, history
  <2>2. TypeOK' /\ status'[a] = "cancelled" /\ \A b \in Ids \ {a} : Kept(b)
    BY <1>2 DEF CancelAgent, TypeOK, history, Kept, Over
  <2>3. \A i \in Steps : step[a][i] = "completed" => step'[a][i] = "completed"
    BY <1>2 DEF CancelAgent, TypeOK
  <2>4. Consistent(a)'
    BY <2>1, <2>2 DEF AgentInv, Consistent
  <2>5. Single(a)'
    <3> SUFFICES ASSUME a \notin overlapped PROVE Single(a)'
      BY <2>1 DEF Single
    <3>1. /\ \A m \in Loops : 1..(at[a][m] - 1) \subseteq Steps
          /\ 1..(checkpoint[a] - 1) \subseteq Steps
      BY AgentTypes DEF AgentInv, Consistent
    <3> QED BY <2>1, <2>2, <2>3, <3>1 DEF AgentInv, Single
  <2> QED BY <2>2, <2>4, <2>5 DEF StepOf, AgentInv
<1>3. CASE Cleanup(a)
  <2>1. TypeOK' /\ \A b \in Ids : Kept(b)
    BY <1>3 DEF Cleanup, TypeOK, history, Kept
  <2> QED BY <2>1, KeptInv DEF StepOf
<1> QED BY <1>1, <1>2, <1>3

LEMMA InvInit == Init => IInv
<1> SUFFICES ASSUME Init PROVE TypeOK /\ \A a \in Ids : AgentInv(a)
  BY InvByAgent
<1>1. TypeOK
  BY DEF Init, TypeOK
<1>2. ASSUME NEW a \in Ids PROVE AgentInv(a)
  BY DEF Init, AgentInv, Consistent, Single
<1> QED BY <1>1, <1>2

LEMMA InvStep == IInv /\ [Next]_vars => IInv'
<1> SUFFICES ASSUME IInv, [Next]_vars PROVE TypeOK' /\ \A a \in Ids : AgentInv(a)'
  BY DEF IInv, RunningHasLoop, ReturnedInOrder, OneLoop, Fresh, CompletedMeansDone,
         AgentInv, Consistent, Single
<1>1. TypeOK /\ \A a \in Ids : AgentInv(a)
  BY InvByAgent
<1>2. ASSUME NEW a \in Ids, StepOf(a)
      PROVE  TypeOK' /\ \A b \in Ids : AgentInv(b)'
  BY <1>1, <1>2, KeptInv DEF StepOf
<1>3. ASSUME NEW a \in Ids,
             \/ Settle(a) \/ \E l \in Loops : SaveCheckpoint(a, l)
             \/ CreateAgent(a) \/ PauseAgent(a) \/ ResumeAgent(a) \/ CancelAgent(a) \/ Cleanup(a)
      PROVE  StepOf(a)
  BY <1>1, <1>3, SettleStep, SaveStep, StartStep, UserStep DEF Settle
<1>4. CASE UNCHANGED vars
  <2>1. TypeOK' /\ \A b \in Ids : Kept(b)
    BY <1>1, <1>4 DEF vars, history, TypeOK, Kept
  <2> QED BY <1>1, <2>1, KeptInv
<1> QED BY <1>2, <1>3, <1>4 DEF Next

\* The loops, checkpoint, steps and status of every agent fit together: what
\* lies before a loop or a checkpoint has returned (:178-230).
THEOREM InductiveInvariant == Spec => []IInv
BY InvInit, InvStep, PTL DEF Spec

\* An agent called completed has had all of its handlers return, from whatever
\* checkpoint and in however many loops it was run (:230).
THEOREM CompletedAgentsDone == Spec => []CompletedMeansDone
<1>1. IInv => CompletedMeansDone
  BY DEF IInv
<1> QED BY <1>1, InductiveInvariant, PTL

\* An agent that is over stays over, and unless its loops overlapped begins no
\* further step (:181-184, :220).
THEOREM AgentsStayOver == Spec => OverIsOver
<1> DEFINE Stays == \A a \in Ids : status[a] \in Over =>
                      /\ status'[a] \in {status[a], "failed"}
                      /\ a \notin overlapped => NothingBegins(a)
<1>1. IInv /\ [Next]_vars => Stays \/ UNCHANGED vars
  <2> SUFFICES ASSUME IInv, [Next]_vars, NEW a \in Ids, status[a] \in Over
               PROVE  /\ status'[a] \in {status[a], "failed"}
                      /\ a \notin overlapped => NothingBegins(a)
    OBVIOUS
  <2>1. TypeOK /\ AgentInv(a)
    BY InvByAgent
  <2>2. CASE status'[a] = status[a] /\ at'[a] = at[a]
    BY <2>2 DEF NothingBegins
  <2>3. ASSUME NEW b \in Ids \ {a}, StepOf(b)
        PROVE  status'[a] = status[a] /\ at'[a] = at[a]
    BY <2>3 DEF StepOf, Kept
  <2>4. ASSUME NEW l \in Loops, StepReturns(a, l)
        PROVE  /\ status'[a] = status[a]
               /\ a \notin overlapped => NothingBegins(a)
    <3>1. /\ at[a][l] # 0 /\ at[a][l] \in Steps
          /\ Proceed(a, l, at[a][l] + 1, status[a], [step[a] EXCEPT ![at[a][l]] = "completed"])
          /\ at' \in [Ids -> [Loops -> Steps \cup {0}]]
      BY <2>1, <2>4, AgentTypes, SettleStep DEF StepReturns, StepOf, TypeOK
    <3>2. status'[a] = Finish(at[a][l] + 1, status[a])
      BY <2>1, <3>1 DEF Proceed, TypeOK
    <3>3. status'[a] = status[a]
      BY <3>2 DEF Finish, Over
    <3>4. a \notin overlapped => ~ Goes(at[a][l] + 1, status[a])
      BY <2>1, <3>1 DEF AgentInv, Single, Goes, Over
    <3>5. ~ Goes(at[a][l] + 1, status[a]) => at'[a] = [at[a] EXCEPT ![l] = 0]
      BY <2>1, <3>1 DEF Proceed, TypeOK
    <3>6. a \notin overlapped => NothingBegins(a)
      BY <2>1, <3>4, <3>5, AgentTypes DEF NothingBegins
    <3> QED BY <3>3, <3>6
  <2>5. ASSUME NEW l \in Loops, StepThrows(a, l)
        PROVE  status'[a] = "failed" /\ NothingBegins(a)
    BY <2>1, <2>5 DEF StepThrows, NothingBegins, TypeOK
  <2>6. ASSUME \/ \E l \in Loops : SaveCheckpoint(a, l)
               \/ CreateAgent(a) \/ PauseAgent(a) \/ ResumeAgent(a) \/ CancelAgent(a) \/ Cleanup(a)
        PROVE  status'[a] = status[a] /\ at'[a] = at[a]
    BY <2>6 DEF SaveCheckpoint, CreateAgent, PauseAgent, ResumeAgent, CancelAgent, Cleanup, Over
  <2>7. ASSUME NEW b \in Ids \ {a},
               \/ Settle(b) \/ \E l \in Loops : SaveCheckpoint(b, l)
               \/ CreateAgent(b) \/ PauseAgent(b) \/ ResumeAgent(b) \/ CancelAgent(b) \/ Cleanup(b)
        PROVE  status'[a] = status[a] /\ at'[a] = at[a]
    <3>1. AgentInv(b)
      BY InvByAgent
    <3>2. StepOf(b)
      BY <2>1, <2>7, <3>1, SettleStep, SaveStep, StartStep, UserStep DEF Settle
    <3> QED BY <2>3, <3>2
  <2>8. CASE UNCHANGED vars
    BY <2>2, <2>8 DEF vars
  <2> QED BY <2>2, <2>4, <2>5, <2>6, <2>7, <2>8 DEF Next, Settle
<1>2. IInv /\ [Next]_vars => [Stays]_vars
  BY <1>1
<1> QED BY <1>2, InductiveInvariant, PTL DEF Spec, OverIsOver
===============================================================================
