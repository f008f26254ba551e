------------------------- MODULE ConnectorSync_proofs -------------------------
(***************************************************************************)
(* What ConnectorSync keeps for any number of jobs, executions, schedules,  *)
(* crashes and requests.                                                    *)
(***************************************************************************)
EXTENDS ConnectorSync, FiniteSetTheorems, TLAPS

\* The next run is at most a period away.
LEMMA NextRunInReach ==
  ASSUME NEW from \in Nat
  PROVE  NextCronRunAt(from) \in 0..(from + Period)
<1>1. from % Period \in 0..(Period - 1)
  BY BoundsAssumption
<1> QED BY <1>1, BoundsAssumption DEF NextCronRunAt

-------------------------------------------------------------------------------
(* Types *)

\* The steps of users and of the process as a whole keep the types.
LEMMA RequestTypes ==
  ASSUME TypeOK
  PROVE  /\ TimePasses \/ DeleteConnector \/ Crash => TypeOK'
         /\ \A j \in Jobs : CancelRequest(j) \/ CancelSyncJob(j) => TypeOK'
         /\ \A j \in Jobs, m \in Modes, t \in Tasks : TriggerSync(j, m, t) => TypeOK'
         /\ \A s \in Schedules, e \in {"enabled", "disabled"} :
              CreateSyncSchedule(s, e) \/ UpdateSyncSchedule(s, e) => TypeOK'
<1> USE DEF Time, Statuses, Steps, Finished, counters, timeVars, connVars, jobVars,
            schedVars, tickVars, taskVars, Requested
<1>1. ASSUME TimePasses PROVE TypeOK'
  BY <1>1, BoundsAssumption DEF TypeOK, TimePasses
<1>2. ASSUME DeleteConnector PROVE TypeOK'
  <2>1. requests' \in 0..MaxRequests
    BY <1>2, BoundsAssumption DEF TypeOK, DeleteConnector
  <2>2. present' \in BOOLEAN
    BY <1>2, Zenon DEF DeleteConnector
  <2> QED BY <1>2, <2>1, <2>2, Zenon DEF TypeOK, DeleteConnector
<1>3. ASSUME Crash PROVE TypeOK'
  BY <1>3, BoundsAssumption DEF TypeOK, Crash
<1>4. ASSUME NEW j \in Jobs, CancelRequest(j) PROVE TypeOK'
  BY <1>4, BoundsAssumption DEF TypeOK, CancelRequest
<1>5. ASSUME NEW j \in Jobs, CancelSyncJob(j) PROVE TypeOK'
  BY <1>5 DEF TypeOK, CancelSyncJob
<1>6. ASSUME NEW j \in Jobs, NEW m \in Modes, NEW t \in Tasks, TriggerSync(j, m, t)
      PROVE  TypeOK'
  BY <1>6, SetsAssumption, BoundsAssumption
     DEF TypeOK, TriggerSync, CreateSyncJob, FreshJob, FreeTask, Idle
<1>7. ASSUME NEW s \in Schedules, NEW e \in {"enabled", "disabled"},
             CreateSyncSchedule(s, e) \/ UpdateSyncSchedule(s, e)
      PROVE  TypeOK'
  BY <1>7, BoundsAssumption DEF TypeOK, CreateSyncSchedule, UpdateSyncSchedule
<1> QED BY <1>1, <1>2, <1>3, <1>4, <1>5, <1>6, <1>7

\* So do the steps of an execution.
LEMMA ExecutionTypes ==
  ASSUME TypeOK, NEW t \in Tasks, ExecuteSyncJob(t)
  PROVE  TypeOK'
<1> USE DEF Time, Statuses, Steps, counters, timeVars, connVars, jobVars,
            schedVars, tickVars, Status, End
<1>1. CASE MarkRunning(t)
  BY <1>1 DEF TypeOK, MarkRunning
<1>2. CASE ReadConnector(t)
  BY <1>2 DEF TypeOK, ReadConnector
<1>3. CASE RunConnector(t)
  BY <1>3 DEF TypeOK, RunConnector, InReach
<1>4. CASE WriteResult(t)
  BY <1>4 DEF TypeOK, WriteResult
<1>5. CASE TouchConnector(t)
  BY <1>5 DEF TypeOK, TouchConnector
<1>6. CASE Throws(t)
  BY <1>6 DEF TypeOK, Throws
<1>7. CASE FailsUncaught(t)
  BY <1>7 DEF TypeOK, FailsUncaught
<1>8. CASE CatchFails(t)
  BY <1>8 DEF TypeOK, CatchFails
<1> QED BY <1>1, <1>2, <1>3, <1>4, <1>5, <1>6, <1>7, <1>8 DEF ExecuteSyncJob

\* And those of the worker's tick.
LEMMA TickTypes ==
  ASSUME TypeOK, TickStep
  PROVE  TypeOK'
<1> USE DEF Time, Statuses, Steps, counters, timeVars, connVars, jobVars,
            schedVars, tickVars, taskVars
<1>1. CASE StartTick
  BY <1>1 DEF TypeOK, StartTick
<1>2. CASE AdvanceSchedule
  <2>1. NextCronRunAt(tickAt) \in 0..(MaxTime + Period)
    BY NextRunInReach, BoundsAssumption DEF TypeOK
  <2> QED BY <1>2, <2>1 DEF TypeOK, AdvanceSchedule
<1>3. CASE ExecutePending
  BY <1>3, SetsAssumption DEF TypeOK, ExecutePending, Pending, Idle
<1>4. ASSUME NEW s \in Schedules, TriggerFails(s) PROVE TypeOK'
  BY <1>4 DEF TypeOK, TriggerFails
<1>5. ASSUME NEW s \in Schedules, NEW j \in Jobs, NEW m \in Modes, TriggerSchedule(s, j, m)
      PROVE  TypeOK'
  BY <1>5 DEF TypeOK, TriggerSchedule, CreateSyncJob, FreshJob
<1>6. CASE TickFails
  BY <1>6 DEF TypeOK, TickFails
<1> QED BY <1>1, <1>2, <1>3, <1>4, <1>5, <1>6 DEF TickStep

\* Every variable stays in its range; an execution always has a job that exists.
THEOREM TypeCorrect == Spec => []TypeOK
<1>1. Init => TypeOK
  BY BoundsAssumption DEF Init, TypeOK, Time, Statuses, Steps
<1>2. TypeOK /\ [Next]_vars => TypeOK'
  <2> SUFFICES ASSUME TypeOK, [Next]_vars PROVE TypeOK'
    OBVIOUS
  <2>1. CASE UNCHANGED vars
    BY <2>1 DEF vars, counters, timeVars, connVars, jobVars, schedVars, tickVars,
                taskVars, TypeOK, Time, Statuses, Steps
  <2> QED BY <2>1, RequestTypes, ExecutionTypes, TickTypes DEF Next
<1> QED BY <1>1, <1>2, PTL DEF Spec

-------------------------------------------------------------------------------
(* Running jobs *)

\* What a step must not disturb: no status becomes "running", no execution with
\* a result still to write is lost, and none that was is forgotten.
Undisturbed ==
  /\ lost' = lost
  /\ \A j \in Jobs : status'[j] = "running" => status[j] = "running"
  /\ \A t \in Tasks : pc[t] \in {"read", "run", "write"} =>
       pc'[t] = pc[t] /\ job'[t] = job[t]

\* Such a step keeps running jobs attended.
LEMMA UndisturbedAttended ==
  ASSUME RunningIsAttended, Undisturbed
  PROVE  RunningIsAttended'
BY DEF RunningIsAttended, Undisturbed

\* Requests leave executions under way alone.
LEMMA RequestsAttended ==
  ASSUME TypeOK, RunningIsAttended
  PROVE  /\ TimePasses \/ DeleteConnector \/ Crash => RunningIsAttended'
         /\ \A j \in Jobs : CancelRequest(j) \/ CancelSyncJob(j) => RunningIsAttended'
         /\ \A j \in Jobs, m \in Modes, t \in Tasks :
              TriggerSync(j, m, t) => RunningIsAttended'
         /\ \A s \in Schedules, e \in {"enabled", "disabled"} :
              CreateSyncSchedule(s, e) \/ UpdateSyncSchedule(s, e) => RunningIsAttended'
<1> USE DEF counters, timeVars, connVars, jobVars, schedVars, tickVars, taskVars
<1>1. ASSUME TimePasses PROVE Undisturbed
  BY <1>1 DEF TimePasses, Undisturbed
<1>2. ASSUME DeleteConnector PROVE Undisturbed
  BY <1>2 DEF DeleteConnector, Undisturbed
<1>3. ASSUME Crash PROVE RunningIsAttended'
  BY <1>3 DEF Crash, Held, Idle, RunningIsAttended
<1>4. ASSUME NEW j \in Jobs, CancelRequest(j) \/ CancelSyncJob(j) PROVE Undisturbed
  BY <1>4 DEF TypeOK, CancelRequest, CancelSyncJob, Undisturbed
<1>5. ASSUME NEW j \in Jobs, NEW m \in Modes, NEW t \in Tasks, TriggerSync(j, m, t)
      PROVE  Undisturbed
  BY <1>5 DEF TypeOK, TriggerSync, CreateSyncJob, FreeTask, Idle, Undisturbed
<1>6. ASSUME NEW s \in Schedules, NEW e \in {"enabled", "disabled"},
             CreateSyncSchedule(s, e) \/ UpdateSyncSchedule(s, e)
      PROVE  Undisturbed
  BY <1>6 DEF CreateSyncSchedule, UpdateSyncSchedule, Undisturbed
<1> QED BY <1>1, <1>2, <1>3, <1>4, <1>5, <1>6, UndisturbedAttended

\* An execution attends its job from the mark to the result, and a thrown error
\* is a result; the job of one that ends without is counted as lost.
LEMMA ExecutionAttended ==
  ASSUME TypeOK, RunningIsAttended, NEW t \in Tasks, ExecuteSyncJob(t)
  PROVE  RunningIsAttended'
<1> USE DEF counters, connVars, jobVars, Status, End, RunningIsAttended
<1> SUFFICES ASSUME NEW j \in Jobs, j \notin lost', status'[j] = "running"
             PROVE  \E u \in Tasks : job'[u] = j /\ pc'[u] \in {"read", "run", "write"}
  OBVIOUS
<1>1. CASE MarkRunning(t)
  <2>1. CASE j = job[t]
    BY <1>1, <2>1 DEF TypeOK, MarkRunning
  <2>2. CASE j # job[t]
    <3>1. PICK u \in Tasks : job[u] = j /\ pc[u] \in {"read", "run", "write"}
      BY <1>1, <2>2 DEF TypeOK, MarkRunning
    <3> QED BY <1>1, <2>2, <3>1 DEF TypeOK, MarkRunning
  <2> QED BY <2>1, <2>2
<1>2. CASE ReadConnector(t) \/ RunConnector(t)
  <2>1. status' = status /\ lost \subseteq lost'
    BY <1>2 DEF ReadConnector, RunConnector
  <2>2. PICK u \in Tasks : job[u] = j /\ pc[u] \in {"read", "run", "write"}
    BY <2>1
  <2>3. CASE ReadConnector(t)
    BY <2>2, <2>3 DEF TypeOK, ReadConnector
  <2>4. CASE RunConnector(t)
    BY <2>2, <2>4 DEF TypeOK, RunConnector
  <2> QED BY <1>2, <2>3, <2>4
<1>3. CASE WriteResult(t) \/ Throws(t)
  <2>1. \E r \in {"completed", "failed"} : status' = [status EXCEPT ![job[t]] = r]
    BY <1>3 DEF TypeOK, WriteResult, Throws
  <2>2. j # job[t] /\ status[j] = "running"
    BY <2>1 DEF TypeOK
  <2>3. PICK u \in Tasks : job[u] = j /\ pc[u] \in {"read", "run", "write"}
    BY <1>3, <2>2 DEF WriteResult, Throws
  <2>4. u # t
    BY <2>2, <2>3
  <2>5. job'[u] = job[u] /\ pc'[u] = pc[u]
    <3>1. CASE WriteResult(t)
      BY <2>4, <3>1 DEF TypeOK, WriteResult
    <3>2. CASE Throws(t)
      BY <2>4, <3>2 DEF TypeOK, Throws
    <3> QED BY <1>3, <3>1, <3>2
  <2> QED BY <2>3, <2>5
<1>4. CASE TouchConnector(t)
  <2>1. PICK u \in Tasks : job[u] = j /\ pc[u] \in {"read", "run", "write"}
    BY <1>4 DEF TouchConnector
  <2> QED BY <1>4, <2>1 DEF TypeOK, TouchConnector
<1>5. CASE FailsUncaught(t) \/ CatchFails(t)
  <2>1. /\ status[j] = "running" /\ lost \subseteq lost'
        /\ \A u \in Tasks \ {t} : pc'[u] = pc[u] /\ job'[u] = job[u]
        /\ pc[t] \in {"read", "run", "write"} => job[t] \in lost'
    BY <1>5 DEF TypeOK, FailsUncaught, CatchFails
  <2>2. PICK u \in Tasks : job[u] = j /\ pc[u] \in {"read", "run", "write"}
    BY <2>1
  <2>3. u # t
    BY <2>1, <2>2
  <2> QED BY <2>1, <2>2, <2>3
<1> QED BY <1>1, <1>2, <1>3, <1>4, <1>5 DEF ExecuteSyncJob

\* The tick only starts executions, in tasks that have none.
LEMMA TickAttended ==
  ASSUME TypeOK, TickStep
  PROVE  Undisturbed
<1> USE DEF counters, connVars, jobVars, taskVars, Undisturbed
<1>1. CASE StartTick \/ AdvanceSchedule \/ TickFails \/ \E s \in Schedules : TriggerFails(s)
  BY <1>1 DEF StartTick, AdvanceSchedule, TickFails, TriggerFails
<1>2. CASE ExecutePending
  BY <1>2 DEF TypeOK, ExecutePending, Idle
<1>3. ASSUME NEW s \in Schedules, NEW j \in Jobs, NEW m \in Modes, TriggerSchedule(s, j, m)
      PROVE  Undisturbed
  BY <1>3 DEF TypeOK, TriggerSchedule, CreateSyncJob
<1> QED BY <1>1, <1>2, <1>3 DEF TickStep

\* "running" means that an execution will write the result, however many took
\* the same job and whatever throws in them, unless the execution ended by one of
\* the three ways that nothing in the code attends to.
THEOREM RunningJobsAttended == Spec => []RunningIsAttended
<1>1. Init => RunningIsAttended
  BY DEF Init, RunningIsAttended
<1>2. TypeOK /\ RunningIsAttended /\ [Next]_vars => RunningIsAttended'
  <2> SUFFICES ASSUME TypeOK, RunningIsAttended, [Next]_vars PROVE RunningIsAttended'
    OBVIOUS
  <2>1. CASE UNCHANGED vars
    BY <2>1 DEF vars, counters, connVars, jobVars, taskVars, RunningIsAttended
  <2> QED BY <2>1, RequestsAttended, ExecutionAttended, TickAttended,
             UndisturbedAttended DEF Next
<1> QED BY <1>1, <1>2, TypeCorrect, PTL DEF Spec

-------------------------------------------------------------------------------
(* Scheduled runs *)

\* One job is in hand for the schedule that is about to move on.
InHand(s) == IF tick = "advance" /\ advancing = s THEN 1 ELSE 0
Backed == \A s \in Schedules : runs[s] + InHand(s) <= Cardinality(JobsOf(s))

\* No step takes a job back or gives it to another schedule.
JobsStay ==
  \A j \in Jobs : status[j] # "none" => status'[j] # "none" /\ origin'[j] = origin[j]

\* The steps that neither create a job for a schedule nor move one on.
Quiet ==
  /\ JobsStay /\ runs' = runs
  /\ tick' = "advance" => tick = "advance" /\ advancing' = advancing

\* The jobs of a schedule are finitely many and only grow.
LEMMA JobsGrow ==
  ASSUME NEW s \in Schedules, JobsStay
  PROVE  /\ Cardinality(JobsOf(s)) \in Nat /\ Cardinality(JobsOf(s)') \in Nat
         /\ Cardinality(JobsOf(s)) <= Cardinality(JobsOf(s)')
<1>1. JobsOf(s) \subseteq JobsOf(s)' /\ JobsOf(s)' \subseteq Jobs
  BY DEF JobsOf, JobsStay
<1>2. IsFiniteSet(JobsOf(s)')
  BY <1>1, SetsAssumption, FS_Subset
<1> QED BY <1>1, <1>2, FS_Subset, FS_CardinalityType

\* A quiet step owes nothing new.
LEMMA QuietBacked ==
  ASSUME TypeOK, Backed, Quiet
  PROVE  Backed'
<1> SUFFICES ASSUME NEW s \in Schedules
             PROVE  runs'[s] + InHand(s)' <= Cardinality(JobsOf(s)')
  BY DEF Backed
<1>1. InHand(s)' \in 0..1 /\ InHand(s) \in 0..1 /\ InHand(s)' <= InHand(s)
  BY DEF InHand, Quiet
<1>2. runs'[s] = runs[s] /\ runs[s] \in Nat
  BY DEF Quiet, TypeOK
<1>3. runs[s] + InHand(s) <= Cardinality(JobsOf(s))
  BY DEF Backed
<1> QED BY <1>1, <1>2, <1>3, JobsGrow DEF Quiet

\* The job inserted for a schedule is one more, and covers its next run.
LEMMA TriggerBacked ==
  ASSUME TypeOK, Backed, NEW s \in Schedules, NEW j \in Jobs, NEW m \in Modes,
         TriggerSchedule(s, j, m)
  PROVE  Backed'
<1>1. JobsStay /\ runs' = runs /\ tick = "due" /\ advancing' = s
  BY DEF TypeOK, TriggerSchedule, CreateSyncJob, FreshJob, JobsStay, schedVars
<1> SUFFICES ASSUME NEW u \in Schedules
             PROVE  runs'[u] + InHand(u)' <= Cardinality(JobsOf(u)')
  BY DEF Backed
<1>2. runs[u] \in Nat /\ runs[u] <= Cardinality(JobsOf(u))
  BY <1>1, JobsGrow DEF TypeOK, Backed, InHand
<1>3. CASE u # s
  <2>1. InHand(u)' = 0
    BY <1>1, <1>3 DEF InHand
  <2> QED BY <1>1, <1>2, <2>1, JobsGrow
<1>4. CASE u = s
  <2>1. j \notin JobsOf(s) /\ JobsOf(s) \cup {j} \subseteq JobsOf(s)' /\ JobsOf(s)' \subseteq Jobs
    BY <1>1 DEF TypeOK, TriggerSchedule, CreateSyncJob, FreshJob, JobsOf, JobsStay
  <2>2. IsFiniteSet(JobsOf(s)) /\ IsFiniteSet(JobsOf(s)')
    BY <2>1, SetsAssumption, FS_Subset
  <2>3. Cardinality(JobsOf(s) \cup {j}) = Cardinality(JobsOf(s)) + 1
    BY <2>1, <2>2, FS_AddElement
  <2>4. Cardinality(JobsOf(s)) + 1 <= Cardinality(JobsOf(s)')
    BY <2>1, <2>2, <2>3, FS_Subset
  <2>5. InHand(s)' \in 0..1 /\ runs'[s] = runs[s]
    BY <1>1 DEF InHand
  <2> QED BY <1>2, <1>4, <2>4, <2>5, <1>1, JobsGrow
<1> QED BY <1>3, <1>4

\* What every other step does to the jobs and the runs.
LEMMA OthersQuiet ==
  ASSUME TypeOK, [Next]_vars,
         ~AdvanceSchedule,
         ~\E s \in Schedules, j \in Jobs, m \in Modes : TriggerSchedule(s, j, m)
  PROVE  Quiet
<1> USE DEF counters, timeVars, connVars, jobVars, schedVars, tickVars, taskVars,
            JobsStay, Quiet
<1>1. CASE UNCHANGED vars \/ TimePasses \/ DeleteConnector \/ Crash
  BY <1>1 DEF vars, TimePasses, DeleteConnector, Crash
<1>2. ASSUME NEW j \in Jobs, CancelRequest(j) \/ CancelSyncJob(j) PROVE Quiet
  BY <1>2 DEF TypeOK, CancelRequest, CancelSyncJob
<1>3. ASSUME NEW j \in Jobs, NEW m \in Modes, NEW t \in Tasks, TriggerSync(j, m, t)
      PROVE  Quiet
  BY <1>3 DEF TypeOK, TriggerSync, CreateSyncJob, FreshJob
<1>4. ASSUME NEW t \in Tasks, ExecuteSyncJob(t) PROVE Quiet
  BY <1>4 DEF TypeOK, ExecuteSyncJob, MarkRunning, ReadConnector, RunConnector,
              WriteResult, TouchConnector, Throws, FailsUncaught, CatchFails, Status
<1>5. ASSUME NEW s \in Schedules, NEW e \in {"enabled", "disabled"},
             CreateSyncSchedule(s, e) \/ UpdateSyncSchedule(s, e)
      PROVE  Quiet
  BY <1>5 DEF CreateSyncSchedule, UpdateSyncSchedule
<1>6. CASE StartTick \/ ExecutePending \/ TickFails \/ \E s \in Schedules : TriggerFails(s)
  BY <1>6 DEF StartTick, ExecutePending, TickFails, TriggerFails
<1> QED BY <1>1, <1>2, <1>3, <1>4, <1>5, <1>6 DEF Next, TickStep

\* A schedule moves on only with a job of its own for every time it did: no
\* crash and no failed query between the two writes loses a scheduled sync.
THEOREM ScheduledRunsKept == Spec => []ScheduledRunsBacked
<1>1. Init => Backed
  <2> SUFFICES ASSUME Init, NEW s \in Schedules
               PROVE  runs[s] + InHand(s) <= Cardinality(JobsOf(s))
    BY DEF Backed
  <2>1. JobsOf(s) = {} /\ runs[s] = 0 /\ InHand(s) = 0
    BY DEF Init, JobsOf, InHand
  <2> QED BY <2>1, FS_EmptySet
<1>2. TypeOK /\ Backed /\ [Next]_vars => Backed'
  <2> SUFFICES ASSUME TypeOK, Backed, [Next]_vars PROVE Backed'
    OBVIOUS
  <2>1. CASE AdvanceSchedule
    <3> SUFFICES ASSUME NEW s \in Schedules
                 PROVE  runs'[s] + InHand(s)' <= Cardinality(JobsOf(s)')
      BY DEF Backed
    <3>1. JobsOf(s)' = JobsOf(s) /\ InHand(s)' = 0
      BY <2>1 DEF AdvanceSchedule, jobVars, JobsOf, InHand
    <3>2. runs'[s] = runs[s] + InHand(s) /\ runs[s] \in Nat
      BY <2>1 DEF AdvanceSchedule, TypeOK, InHand
    <3>3. runs[s] + InHand(s) <= Cardinality(JobsOf(s)) /\ InHand(s) \in 0..1
      BY DEF Backed, InHand
    <3>4. runs'[s] + InHand(s)' = runs[s] + InHand(s)
      BY <3>1, <3>2, <3>3
    <3> QED BY <3>1, <3>3, <3>4
  <2> QED BY <2>1, TriggerBacked, OthersQuiet, QuietBacked
<1>3. TypeOK /\ Backed => ScheduledRunsBacked
  <2> SUFFICES ASSUME TypeOK, Backed, NEW s \in Schedules
               PROVE  runs[s] <= Cardinality(JobsOf(s))
    BY DEF ScheduledRunsBacked
  <2>1. InHand(s) \in 0..1 /\ runs[s] \in Nat
    BY DEF InHand, TypeOK
  <2>2. IsFiniteSet(JobsOf(s))
    BY SetsAssumption, FS_Subset DEF JobsOf
  <2> QED BY <2>1, <2>2, FS_CardinalityType DEF Backed
<1> QED BY <1>1, <1>2, <1>3, TypeCorrect, PTL DEF Spec

-------------------------------------------------------------------------------
(* Jobs settle *)

\* No job is let out of dispute, and the undisputed ones and the executions are
\* as they were, but for jobs that appear without one.
Aside ==
  /\ disputed \subseteq disputed'
  /\ \A t \in Tasks \ Idle' : t \notin Idle /\ pc'[t] = pc[t] /\ job'[t] = job[t]
  /\ \A j \in Jobs \ disputed' :
       \/ status'[j] = status[j]
       \/ status[j] = "none" /\ status'[j] = "pending"

\* Such a step neither disturbs the executions nor takes a job back.
LEMMA AsideSettles ==
  ASSUME TypeOK, SoleExecution, Aside
  PROVE  /\ SoleExecution'
         /\ \A j \in Jobs \ disputed' :
              status'[j] = status[j] \/ <<status[j], status'[j]>> \in Forward
<1>1. \A t \in Tasks \ Idle' : job[t] \in Jobs /\ status[job[t]] # "none"
  BY DEF Aside, TypeOK, Idle
<1> QED BY <1>1 DEF Aside, SoleExecution, Expected, Forward

\* The steps of users, of the clock and of the process, and those of the tick up
\* to its batch, leave executions aside.
LEMMA OthersAside ==
  ASSUME TypeOK, [Next]_vars,
         ~\E j \in Jobs, m \in Modes, t \in Tasks : TriggerSync(j, m, t),
         ~\E t \in Tasks : ExecuteSyncJob(t),
         ~ExecutePending
  PROVE  Aside
<1> USE DEF counters, timeVars, connVars, jobVars, schedVars, tickVars, taskVars,
            Idle, Aside
<1>1. CASE UNCHANGED vars \/ TimePasses \/ DeleteConnector
  BY <1>1 DEF vars, TimePasses, DeleteConnector
<1>2. CASE Crash
  BY <1>2 DEF Crash
<1>3. ASSUME NEW j \in Jobs, CancelRequest(j) \/ CancelSyncJob(j) PROVE Aside
  BY <1>3 DEF TypeOK, CancelRequest, CancelSyncJob
<1>4. ASSUME NEW s \in Schedules, NEW e \in {"enabled", "disabled"},
             CreateSyncSchedule(s, e) \/ UpdateSyncSchedule(s, e)
      PROVE  Aside
  BY <1>4 DEF CreateSyncSchedule, UpdateSyncSchedule
<1>5. CASE StartTick \/ AdvanceSchedule \/ TickFails \/ \E s \in Schedules : TriggerFails(s)
  BY <1>5 DEF StartTick, AdvanceSchedule, TickFails, TriggerFails
<1>6. ASSUME NEW s \in Schedules, NEW j \in Jobs, NEW m \in Modes, TriggerSchedule(s, j, m)
      PROVE  Aside
  BY <1>6 DEF TypeOK, TriggerSchedule, CreateSyncJob, FreshJob
<1> QED BY <1>1, <1>2, <1>3, <1>4, <1>5, <1>6 DEF Next, TickStep

\* What a step keeps of an undisputed job.
Settles ==
  /\ SoleExecution'
  /\ \A j \in Jobs \ disputed' :
       status'[j] = status[j] \/ <<status[j], status'[j]>> \in Forward

\* The job a request inserts is executed by that request alone.
LEMMA TriggerSettles ==
  ASSUME TypeOK, SoleExecution, NEW j \in Jobs, NEW m \in Modes, NEW t \in Tasks,
         TriggerSync(j, m, t)
  PROVE  Settles
<1> USE DEF TriggerSync, CreateSyncJob, FreshJob, FreeTask, Idle
<1>1. /\ status[j] = "none" /\ status' = [status EXCEPT ![j] = "pending"]
      /\ disputed' = disputed /\ t \in Idle
      /\ pc' = [pc EXCEPT ![t] = "mark"] /\ job' = [job EXCEPT ![t] = j]
  OBVIOUS
<1>2. \A u \in Tasks \ Idle : job[u] # j /\ job[u] \in Jobs
  BY <1>1 DEF TypeOK
<1>3. \A u \in Tasks \ Idle' : u # t =>
        u \notin Idle /\ pc'[u] = pc[u] /\ job'[u] = job[u] /\ status'[job[u]] = status[job[u]]
  BY <1>1, <1>2 DEF TypeOK
<1>4. pc'[t] = "mark" /\ job'[t] = j /\ status'[j] = "pending"
  BY <1>1 DEF TypeOK
<1>5. SoleExecution'
  <2> SUFFICES ASSUME NEW u \in Tasks \ Idle', job'[u] \notin disputed'
               PROVE  /\ status'[job'[u]] \in Expected(pc'[u])
                      /\ \A w \in Tasks \ Idle' : job'[w] = job'[u] => w = u
    BY DEF SoleExecution, Expected
  <2>0. \A w \in Tasks \ Idle' : w # t => job'[w] = job[w] /\ w \notin Idle /\ job[w] # j
    BY <1>2, <1>3
  <2>1. CASE u = t
    <3>0. Expected("mark") = {"pending"}
      BY DEF Expected
    <3>1. status'[job'[u]] \in Expected(pc'[u])
      BY <1>4, <2>1, <3>0
    <3> QED BY <1>4, <2>0, <2>1, <3>1
  <2>2. CASE u # t
    <3>1. u \notin Idle /\ pc'[u] = pc[u] /\ job'[u] = job[u] /\ job[u] \notin disputed
      BY <1>1, <1>3, <2>2
    <3>2. \A w \in Tasks \ Idle' : job'[w] = job'[u] => w \notin Idle /\ job[w] = job[u]
      BY <1>2, <1>4, <2>0, <3>1
    <3> QED BY <1>3, <2>2, <3>1, <3>2 DEF SoleExecution
  <2> QED BY <2>1, <2>2
<1> QED BY <1>1, <1>5 DEF TypeOK, Settles, Forward

\* The step of an execution that moves itself on, or ends, and writes its job's row.
Moves(t) ==
  /\ disputed' = disputed /\ t \notin Idle
  /\ \A u \in Tasks \ {t} : pc'[u] = pc[u] /\ job'[u] = job[u]
  /\ \A j \in Jobs \ {job[t]} : status'[j] = status[j]
  /\ \/ pc'[t] = "idle"
     \/ /\ job'[t] = job[t]
        /\ status[job[t]] \in Expected(pc[t]) => status'[job[t]] \in Expected(pc'[t])
  /\ status[job[t]] \in Expected(pc[t]) =>
       \/ status'[job[t]] = status[job[t]]
       \/ <<status[job[t]], status'[job[t]]>> \in Forward

LEMMA MoveSettles ==
  ASSUME TypeOK, SoleExecution, NEW t \in Tasks, Moves(t)
  PROVE  Settles
<1>1. \A u \in Tasks \ Idle : job[u] \in Jobs
  BY DEF TypeOK, Idle
<1>2. \A j \in Jobs \ disputed' :
        status'[j] = status[j] \/ <<status[j], status'[j]>> \in Forward
  BY DEF Moves, SoleExecution
<1>3. SoleExecution'
  <2> SUFFICES ASSUME NEW u \in Tasks \ Idle', job'[u] \notin disputed'
               PROVE  /\ status'[job'[u]] \in Expected(pc'[u])
                      /\ \A w \in Tasks \ Idle' : job'[w] = job'[u] => w = u
    BY DEF SoleExecution, Expected
  <2>1. \A w \in Tasks \ Idle' : w \notin Idle /\ job'[w] = job[w]
    BY DEF Moves, Idle
  <2>2. \A w \in Tasks \ Idle' : job'[w] = job'[u] => w = u
    BY <2>1 DEF SoleExecution, Moves
  <2>3. CASE u = t
    BY <2>1, <2>2, <2>3 DEF SoleExecution, Moves, Idle
  <2>4. CASE u # t
    <3>1. job[u] # job[t]
      BY <2>1, <2>4 DEF SoleExecution, Moves
    <3> QED BY <1>1, <2>1, <2>2, <2>4, <3>1 DEF SoleExecution, Moves
  <2> QED BY <2>3, <2>4
<1> QED BY <1>2, <1>3 DEF Settles

\* Every step of an execution is one of those.
LEMMA ExecutionSettles ==
  ASSUME TypeOK, SoleExecution, NEW t \in Tasks, ExecuteSyncJob(t)
  PROVE  Settles
<1> USE DEF jobVars, Status, End, Idle, Expected, Forward
<1>1. CASE MarkRunning(t)
  <2>1. Moves(t)
    BY <1>1 DEF TypeOK, MarkRunning, Moves
  <2> QED BY <2>1, MoveSettles
<1>2. CASE ReadConnector(t) \/ RunConnector(t)
  <2>1. CASE ReadConnector(t)
    <3>1. Moves(t)
      BY <2>1 DEF TypeOK, ReadConnector, Moves
    <3> QED BY <3>1, MoveSettles
  <2>2. CASE RunConnector(t)
    <3>1. Moves(t)
      BY <2>2 DEF TypeOK, RunConnector, Moves
    <3> QED BY <3>1, MoveSettles
  <2> QED BY <1>2, <2>1, <2>2
<1>3. CASE WriteResult(t)
  <2>1. Moves(t)
    BY <1>3 DEF TypeOK, WriteResult, Moves
  <2> QED BY <2>1, MoveSettles
<1>4. CASE TouchConnector(t)
  <2>1. Moves(t)
    BY <1>4 DEF TypeOK, TouchConnector, Moves
  <2> QED BY <2>1, MoveSettles
<1>5. CASE Throws(t)
  <2>1. Moves(t)
    BY <1>5 DEF TypeOK, Throws, Moves
  <2> QED BY <2>1, MoveSettles
<1>6. CASE FailsUncaught(t) \/ CatchFails(t)
  <2>1. Moves(t)
    BY <1>6 DEF TypeOK, FailsUncaught, CatchFails, Moves
  <2> QED BY <2>1, MoveSettles
<1> QED BY <1>1, <1>2, <1>3, <1>4, <1>5, <1>6 DEF ExecuteSyncJob

\* The jobs of a batch are pending; one of them that had an execution is disputed
\* from now on, and the others have the one they get.
LEMMA BatchSettles ==
  ASSUME TypeOK, SoleExecution, ExecutePending
  PROVE  Settles
<1>0. PICK batch \in SUBSET Pending : \E by \in [batch -> Idle] :
        /\ \A i, j \in batch : i # j => by[i] # by[j]
        /\ pc' = [t \in Tasks |-> IF \E j \in batch : by[j] = t THEN "mark" ELSE pc[t]]
        /\ job' = [t \in Tasks |->
             IF \E j \in batch : by[j] = t
             THEN CHOOSE j \in batch : by[j] = t ELSE job[t]]
        /\ disputed' = disputed \cup {j \in batch : Held(j)}
  BY Zenon DEF ExecutePending
<1>1. PICK by \in [batch -> Idle] :
        /\ \A i, j \in batch : i # j => by[i] # by[j]
        /\ pc' = [t \in Tasks |-> IF \E j \in batch : by[j] = t THEN "mark" ELSE pc[t]]
        /\ job' = [t \in Tasks |->
             IF \E j \in batch : by[j] = t
             THEN CHOOSE j \in batch : by[j] = t ELSE job[t]]
        /\ disputed' = disputed \cup {j \in batch : Held(j)}
  BY <1>0, Zenon
<1>2. status' = status
  BY DEF ExecutePending
<1>3. \A j \in batch : /\ j \in Jobs /\ status[j] = "pending"
                        /\ by[j] \in Tasks /\ by[j] \in Idle /\ pc'[by[j]] = "mark"
  BY <1>1 DEF Pending, Idle
<1>4. \A j \in batch : job'[by[j]] = j
  <2> TAKE j \in batch
  <2>1. by[j] \in Tasks /\ job'[by[j]] = CHOOSE i \in batch : by[i] = by[j]
    BY <1>1, <1>3
  <2>2. (CHOOSE i \in batch : by[i] = by[j]) \in batch
        /\ by[CHOOSE i \in batch : by[i] = by[j]] = by[j]
    OBVIOUS
  <2> QED BY <1>1, <2>1, <2>2
<1>5. ASSUME NEW t \in Tasks, ~\E j \in batch : by[j] = t
      PROVE  pc'[t] = pc[t] /\ job'[t] = job[t]
  <2>1. pc'[t] = pc[t]
    BY <1>1, <1>5
  <2>2. job'[t] = job[t]
    BY <1>1, <1>5
  <2> QED BY <2>1, <2>2
<1>6. SoleExecution'
  <2> SUFFICES ASSUME NEW t \in Tasks \ Idle', job'[t] \notin disputed'
               PROVE  /\ status'[job'[t]] \in Expected(pc'[t])
                      /\ \A u \in Tasks \ Idle' : job'[u] = job'[t] => u = t
    BY DEF SoleExecution, Expected
  <2>1. CASE \E j \in batch : by[j] = t
    <3>1. PICK j \in batch : by[j] = t
      BY <2>1
    <3>2. job'[t] = j /\ pc'[t] = "mark" /\ status'[j] = "pending" /\ ~Held(j)
      BY <1>1, <1>2, <1>3, <1>4, <3>1
    <3>3. ASSUME NEW u \in Tasks \ Idle', job'[u] = j PROVE u = t
      <4>1. CASE \E i \in batch : by[i] = u
        BY <1>4, <3>1, <3>3, <4>1
      <4>2. CASE pc'[u] = pc[u] /\ job'[u] = job[u]
        BY <3>2, <3>3, <4>2 DEF Held, Idle
      <4> QED BY <1>5, <4>1, <4>2
    <3> QED BY <3>2, <3>3 DEF Expected
  <2>2. CASE ~\E j \in batch : by[j] = t
    <3>1. t \notin Idle /\ pc'[t] = pc[t] /\ job'[t] = job[t] /\ job[t] \notin disputed
      BY <1>1, <1>5, <2>2 DEF Idle
    <3>2. job[t] \notin batch
      BY <1>1, <3>1 DEF Held, Idle
    <3>3. ASSUME NEW u \in Tasks \ Idle', job'[u] = job[t] PROVE u = t
      <4>1. ~\E i \in batch : by[i] = u
        BY <1>4, <3>2, <3>3
      <4>2. u \notin Idle /\ job[u] = job[t]
        BY <1>5, <3>3, <4>1 DEF Idle
      <4> QED BY <3>1, <4>2 DEF SoleExecution
    <3> QED BY <1>2, <3>1, <3>3 DEF SoleExecution, Expected
  <2> QED BY <2>1, <2>2
<1> QED BY <1>2, <1>6 DEF Settles

\* Every step settles, from any state in which undisputed jobs have one execution.
LEMMA StepSettles ==
  ASSUME TypeOK, SoleExecution, [Next]_vars
  PROVE  Settles
BY OthersAside, AsideSettles, TriggerSettles, ExecutionSettles, BatchSettles DEF Settles

\* An undisputed job has one execution at most, which is where the row says.
THEOREM ExecutionsSole == Spec => []SoleExecution
<1>1. Init => SoleExecution
  BY DEF Init, SoleExecution, Idle
<1>2. TypeOK /\ SoleExecution /\ [Next]_vars => SoleExecution'
  BY StepSettles DEF Settles
<1> QED BY <1>1, <1>2, TypeCorrect, PTL DEF Spec

\* Whatever crashes, requests and batches do, a job's row only goes forward,
\* until it is cancelled or taken by a second execution.
THEOREM JobsAlwaysSettle == Spec => JobsSettle
<1>1. TypeOK /\ SoleExecution /\ [Next]_vars =>
        [\A j \in Jobs \ disputed' :
           status'[j] = status[j] \/ <<status[j], status'[j]>> \in Forward]_vars
  BY StepSettles DEF Settles
<1> QED BY <1>1, TypeCorrect, ExecutionsSole, PTL DEF Spec, JobsSettle
===============================================================================
