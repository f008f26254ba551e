---------------------------- MODULE ConnectorSync ----------------------------
(***************************************************************************)
(* The sync jobs of one connector: services/connectorSync.service.ts and   *)
(* lib/connectorSync/syncWorker.ts.  Job, schedule and connector rows live *)
(* in the database and outlast a crash; executions of jobs (executeSyncJob)*)
(* and the worker's tick live in the process.  Every await is a point where*)
(* other requests and executions go on, so each action below is the code   *)
(* from one await to the next.  Time is a counter of seconds, the grain of *)
(* a poll window.  The documents of a source are abstracted to the moments *)
(* at which one of them changed.  (An operator directly above another, same *)
(* parameters and no mapping to the code, is a faulty variant that the      *)
(* mutation runs put in its place.)                                         *)
(***************************************************************************)
EXTENDS Integers, FiniteSets

CONSTANTS
  Jobs,         \* ids of job rows
  Tasks,        \* executions under way at once (bound)
  Schedules,    \* ids of schedule rows
  BatchLimit,   \* BATCH_LIMIT
  Period,       \* N of the cron expression "*/N"
  MaxTime,      \* bound on the clock
  MaxCrashes,   \* bound on the crashes of the process
  MaxRequests,  \* bound on the requests of users
  Modes,        \* the sync modes asked for
  ChangeTimes,  \* the moments at which a document may change
  NoJob

ASSUME SetsAssumption ==
  /\ IsFiniteSet(Jobs) /\ IsFiniteSet(Tasks) /\ IsFiniteSet(Schedules)
  /\ NoJob \notin Jobs
ASSUME BoundsAssumption ==
  /\ BatchLimit \in Nat \ {0} /\ Period \in Nat \ {0}
  /\ MaxTime \in Nat /\ MaxCrashes \in Nat /\ MaxRequests \in Nat
ASSUME ModesAssumption == Modes \subseteq {"load", "poll", "slim"}

VARIABLES
  now,          \* the clock
  changes,      \* moments at which a document of the source changes
  fetched,      \* history: the changes a run of the connector returned
  present,      \* the connector's row and credentials exist
  lastSyncAt,   \* of the connector row, 0 when null
  status,       \* of the job rows, "none" before the insert
  mode,         \* syncMode of the job rows
  origin,       \* history: the schedule a job was created for, or "request"
  cancelling,   \* jobs a cancel request found unfinished and will mark
  disputed,     \* history: jobs cancelled, or taken by a second execution
  lost,         \* history: running jobs whose execution ended without a result:
                \* by a crash, by what fails before the try block, or by a failure
                \* of the catch block's own update
  schedule,     \* of the schedule rows: none, enabled, disabled
  nextRunAt,    \* of the schedule rows
  runs,         \* history: how often a schedule moved on to its next run
  tick,         \* where the worker's tick is
  tickAt, due,  \* its `now`, and the schedules still to trigger
  advancing,    \* the schedule whose job was just inserted
  pc, job, start, result,  \* the executions
  crashes, requests     \* how many there were

timeVars  == <<now, changes>>
connVars  == <<present, lastSyncAt>>
jobVars   == <<status, mode, origin, cancelling, disputed, lost>>
schedVars == <<schedule, nextRunAt, runs>>
tickVars  == <<tick, tickAt, due, advancing>>
taskVars  == <<pc, job, start, result>>
counters  == <<crashes, requests>>
vars == <<timeVars, fetched, connVars, jobVars, schedVars, tickVars, taskVars,
          counters>>

Time     == 0..MaxTime
Statuses == {"none", "pending", "running", "completed", "failed"}
Steps    == {"idle", "mark", "read", "run", "write", "touch"}
Finished(j) == status[j] \in {"completed", "failed"}

TypeOK ==
  /\ now \in Time /\ changes \subseteq ChangeTimes /\ fetched \subseteq changes
  /\ present \in BOOLEAN /\ lastSyncAt \in 0..now
  /\ status \in [Jobs -> Statuses] /\ mode \in [Jobs -> Modes \cup {"load"}]
  /\ origin \in [Jobs -> Schedules \cup {"request"}]
  /\ cancelling \subseteq {j \in Jobs : status[j] # "none"}
  /\ disputed \subseteq Jobs /\ lost \subseteq Jobs
  /\ schedule \in [Schedules -> {"none", "enabled", "disabled"}]
  /\ nextRunAt \in [Schedules -> 0..(MaxTime + Period)]
  /\ runs \in [Schedules -> Nat]
  /\ tick \in {"idle", "due", "advance"}
  /\ tickAt \in 0..now /\ due \subseteq Schedules
  /\ advancing \in Schedules \cup {"none"}
  /\ tick = "advance" => advancing \in due
  /\ pc \in [Tasks -> Steps] /\ job \in [Tasks -> Jobs \cup {NoJob}]
  /\ \A t \in Tasks : pc[t] # "idle" => job[t] # NoJob /\ status[job[t]] # "none"
  /\ start \in [Tasks -> 0..now] /\ result \in [Tasks -> {"completed", "failed"}]
  /\ crashes \in 0..MaxCrashes /\ requests \in 0..MaxRequests

Init ==
  /\ now = 0 /\ changes \in SUBSET ChangeTimes /\ fetched = {}
  /\ present = TRUE /\ lastSyncAt = 0
  /\ status = [j \in Jobs |-> "none"] /\ mode = [j \in Jobs |-> "load"]
  /\ origin = [j \in Jobs |-> "request"]
  /\ cancelling = {} /\ disputed = {} /\ lost = {}
  /\ schedule \in [Schedules -> {"none", "enabled"}]
  /\ nextRunAt = [s \in Schedules |-> 0] /\ runs = [s \in Schedules |-> 0]
  /\ tick = "idle" /\ tickAt = 0 /\ due = {} /\ advancing = "none"
  /\ pc = [t \in Tasks |-> "idle"] /\ job = [t \in Tasks |-> NoJob]
  /\ start = [t \in Tasks |-> 0] /\ result = [t \in Tasks |-> "completed"]
  /\ crashes = 0 /\ requests = 0

-------------------------------------------------------------------------------
(* The source, the clock, and the connector row *)

TimePasses ==
  /\ now < MaxTime /\ now' = now + 1
  /\ UNCHANGED <<changes, fetched, connVars, jobVars, schedVars, tickVars,
                 taskVars, counters>>

Requested == requests < MaxRequests /\ requests' = requests + 1

\* The rows of the connector and its credentials go; its jobs stay.
DeleteConnector ==
  /\ Requested
  /\ present /\ present' = FALSE
  /\ UNCHANGED <<timeVars, fetched, lastSyncAt, jobVars, schedVars, tickVars,
                 taskVars, crashes>>

-------------------------------------------------------------------------------
(* Jobs: requests of users *)

\* The id of the next job: which one does not matter.
FreshJob(j) == status[j] = "none" /\ j = CHOOSE i \in Jobs : status[i] = "none"

CreateSyncJob(j, m, from) ==
  /\ FreshJob(j)
  /\ status'    = [status EXCEPT ![j] = "pending"]
  /\ mode'      = [mode EXCEPT ![j] = m]
  /\ origin'    = [origin EXCEPT ![j] = from]
  /\ UNCHANGED <<cancelling, disputed, lost>>

Idle        == {t \in Tasks : pc[t] = "idle"}
Held(j)     == \E t \in Tasks \ Idle : job[t] = j
FreeTask(t) == t \in Idle /\ t = CHOOSE i \in Idle : TRUE

\* POST .../sync: the job is inserted and executed by the request itself; the
\* row is "pending" until that execution marks it.
TriggerSync(j, m, t) ==
  /\ Requested
  /\ CreateSyncJob(j, m, "request")
  /\ FreeTask(t)
  /\ pc' = [pc EXCEPT ![t] = "mark"] /\ job' = [job EXCEPT ![t] = j]
  /\ UNCHANGED <<timeVars, fetched, connVars, schedVars, tickVars,
                 start, result, crashes>>

\* cancelSyncJob reads the row, and only then writes it, whatever it is by now.
CancelRequest(j) ==
  /\ Requested
  /\ status[j] # "none" /\ ~Finished(j) /\ j \notin cancelling
  /\ cancelling' = cancelling \cup {j}
  /\ UNCHANGED <<timeVars, fetched, connVars, status, mode, origin,
                 disputed, lost, schedVars, tickVars, taskVars, crashes>>

CancelSyncJob(j) ==
  /\ j \in cancelling /\ cancelling' = cancelling \ {j}
  /\ status' = [status EXCEPT ![j] = "failed"]
  /\ disputed' = disputed \cup {j}
  /\ UNCHANGED <<timeVars, fetched, connVars, mode, origin,
                 lost, schedVars, tickVars, taskVars, counters>>

-------------------------------------------------------------------------------
(* executeSyncJob, run by task t *)

Status(j, s) == status' = [status EXCEPT ![j] = s]

\* The task is over; its locals are reset to keep the states few.
End(t) ==
  /\ pc'      = [pc EXCEPT ![t] = "idle"]
  /\ job'     = [job EXCEPT ![t] = NoJob]
  /\ start'   = [start EXCEPT ![t] = 0]
  /\ result'  = [result EXCEPT ![t] = "completed"]

\* The status the row had is not looked at.
MarkRunning(t) ==
  /\ pc[t] = "mark" /\ pc' = [pc EXCEPT ![t] = "read"]
  /\ Status(job[t], "running") /\ lost' = lost \ {job[t]}
  /\ UNCHANGED <<timeVars, fetched, connVars, mode, origin,
                 cancelling, disputed, schedVars, tickVars, job, start, result,
                 counters>>

\* The connector's row is read, lastSyncAt with it.
ReadConnector(t) ==
  /\ pc[t] = "read" /\ pc' = [pc EXCEPT ![t] = "run"]
  /\ present
  /\ start' = [start EXCEPT ![t] = IF mode[job[t]] = "poll" THEN lastSyncAt ELSE 0]
  /\ UNCHANGED <<timeVars, fetched, connVars, jobVars, schedVars, tickVars, job,
                 result, counters>>

\* A query before the try block fails, or finds no row of the connector or of
\* its credentials: nothing writes the job's row any more.
FailsUncaught(t) ==
  /\ pc[t] \in {"mark", "read"} /\ End(t)
  /\ lost' = IF pc[t] = "read" THEN lost \cup {job[t]} ELSE lost
  /\ UNCHANGED <<timeVars, fetched, connVars, status, mode, origin, cancelling,
                 disputed, schedVars, tickVars, counters>>

\* What a run of the connector from `since` may return: all there is, or a part
\* of it with failures (runConnector turns every exception into one of those).
\* A slim run lists document ids and returns no document.
InReach(t) == IF mode[job[t]] = "slim" THEN {}
              ELSE {c \in changes : start[t] <= c /\ c <= now}

\* A failure makes the job "failed" only if no document came with it.
RunConnector(t) ==
  /\ pc[t] = "run"
  /\ \E got \in SUBSET InReach(t), failures \in BOOLEAN :
       /\ ~failures => got = InReach(t)
       /\ failures => mode[job[t]] # "slim"
       /\ fetched' = fetched \cup got
       /\ result' = [result EXCEPT ![t] =
            IF failures /\ got = {} THEN "failed" ELSE "completed"]
  /\ pc' = [pc EXCEPT ![t] = "write"]
  /\ UNCHANGED <<timeVars, connVars, jobVars, schedVars, tickVars, job, start, counters>>

\* The job's row gets its result.
WriteResultOfAll(t) ==
  /\ pc[t] = "write" /\ pc' = [pc EXCEPT ![t] = "touch"]
  /\ status' = [j \in Jobs |-> IF status[j] = "none" THEN "none" ELSE result[t]]
  /\ UNCHANGED <<timeVars, fetched, connVars, mode, origin,
                 cancelling, disputed, lost, schedVars, tickVars, job, start, result,
                 counters>>
WriteResult(t) ==
  /\ pc[t] = "write" /\ pc' = [pc EXCEPT ![t] = "touch"]
  /\ Status(job[t], result[t])
  /\ UNCHANGED <<timeVars, fetched, connVars, mode, origin,
                 cancelling, disputed, lost, schedVars, tickVars, job, start, result,
                 counters>>

\* The connector's row gets syncNow, the time, whatever the result and the mode were.
TouchConnector(t) ==
  /\ pc[t] = "touch"
  /\ lastSyncAt' = IF present THEN now ELSE lastSyncAt
  /\ End(t)
  /\ UNCHANGED <<timeVars, fetched, present, jobVars, schedVars, tickVars,
                 counters>>

\* The connector cannot be instantiated, a slim listing or a query fails: the
\* catch block.
ThrowsUncaught(t) ==
  /\ pc[t] \in {"run", "write", "touch"}
  /\ End(t)
  /\ UNCHANGED <<timeVars, fetched, connVars, jobVars, schedVars, tickVars,
                 counters>>
Throws(t) ==
  /\ pc[t] \in {"run", "write", "touch"}
  /\ Status(job[t], "failed") /\ End(t)
  /\ UNCHANGED <<timeVars, fetched, connVars, mode, origin,
                 cancelling, disputed, lost, schedVars, tickVars, counters>>

\* The update of the catch block fails as well: a result not written yet is lost.
CatchFails(t) ==
  /\ pc[t] \in {"run", "write", "touch"} /\ End(t)
  /\ lost' = IF pc[t] = "touch" THEN lost ELSE lost \cup {job[t]}
  /\ UNCHANGED <<timeVars, fetched, connVars, status, mode, origin, cancelling,
                 disputed, schedVars, tickVars, counters>>

ExecuteSyncJob(t) ==
  \/ MarkRunning(t) \/ ReadConnector(t) \/ FailsUncaught(t) \/ RunConnector(t)
  \/ WriteResult(t) \/ TouchConnector(t) \/ Throws(t) \/ CatchFails(t)

-------------------------------------------------------------------------------
(* Schedules *)

CreateSyncSchedule(s, e) ==
  /\ Requested
  /\ schedule[s] = "none" /\ schedule' = [schedule EXCEPT ![s] = e]
  /\ nextRunAt' = [nextRunAt EXCEPT ![s] = now]
  /\ UNCHANGED <<timeVars, fetched, connVars, jobVars, runs, tickVars,
                 taskVars, crashes>>

\* updateSyncSchedule switches a schedule.  One that deleteSyncSchedule removed
\* is like one that stays disabled.
UpdateSyncSchedule(s, e) ==
  /\ Requested
  /\ schedule[s] \in {"enabled", "disabled"} \ {e}
  /\ schedule' = [schedule EXCEPT ![s] = e]
  /\ UNCHANGED <<timeVars, fetched, connVars, jobVars, nextRunAt, runs,
                 tickVars, taskVars, crashes>>

\* nextCronRunAt for "*/N": the next multiple of N.
NextCronRunAt(from) == from + Period - (from % Period)

-------------------------------------------------------------------------------
(* The worker's tick; `running` keeps a second one out *)

\* triggerScheduledSyncs: the schedules due now.
StartTick ==
  /\ tick = "idle" /\ tick' = "due" /\ tickAt' = now
  /\ due' = {s \in Schedules : schedule[s] = "enabled" /\ nextRunAt[s] <= now}
  /\ UNCHANGED <<timeVars, fetched, connVars, jobVars, schedVars, advancing,
                 taskVars, counters>>

\* One round of its loop: the job is inserted, then the schedule moves on.
TriggerSchedule(s, j, m) ==
  /\ tick = "due" /\ s \in due
  /\ CreateSyncJob(j, m, s)
  /\ tick' = "advance" /\ advancing' = s
  /\ UNCHANGED <<timeVars, fetched, connVars, schedVars, tickAt, due,
                 taskVars, counters>>

AdvanceSchedule ==
  /\ tick = "advance" /\ tick' = "due"
  /\ due' = due \ {advancing} /\ advancing' = "none"
  /\ nextRunAt' = [nextRunAt EXCEPT ![advancing] = NextCronRunAt(tickAt)]
  /\ runs' = [runs EXCEPT ![advancing] = runs[advancing] + 1]
  /\ UNCHANGED <<timeVars, fetched, connVars, jobVars, schedule, tickAt,
                 taskVars, counters>>

\* The insert or the update fails: logged, and on to the next schedule.
TriggerFailsAdvanced(s) ==
  /\ \/ tick = "due" /\ s \in due
     \/ tick = "advance" /\ s = advancing
  /\ tick' = "due" /\ due' = due \ {s} /\ advancing' = "none"
  /\ nextRunAt' = [nextRunAt EXCEPT ![s] = NextCronRunAt(tickAt)]
  /\ runs' = [runs EXCEPT ![s] = runs[s] + 1]
  /\ UNCHANGED <<timeVars, fetched, connVars, jobVars, schedule, tickAt,
                 taskVars, counters>>
TriggerFails(s) ==
  /\ \/ tick = "due" /\ s \in due
     \/ tick = "advance" /\ s = advancing
  /\ tick' = "due" /\ due' = due \ {s} /\ advancing' = "none"
  /\ UNCHANGED <<timeVars, fetched, connVars, jobVars, schedVars, tickAt,
                 taskVars, counters>>

\* getPendingSystemJobs.
Pending == {j \in Jobs : status[j] = "pending"}

\* The pending jobs, at most a batch of them in no particular order, each get
\* an execution nobody waits for.
ExecutePending ==
  /\ tick = "due" /\ due = {} /\ tick' = "idle" /\ tickAt' = 0
  /\ \E batch \in SUBSET Pending :
       /\ Cardinality(batch) =
            IF Cardinality(Pending) < BatchLimit THEN Cardinality(Pending)
            ELSE BatchLimit
       /\ \E by \in [batch -> Idle] :
            /\ \A i, j \in batch : i # j => by[i] # by[j]
            /\ pc' = [t \in Tasks |-> IF \E j \in batch : by[j] = t THEN "mark" ELSE pc[t]]
            /\ job' = [t \in Tasks |->
                 IF \E j \in batch : by[j] = t
                 THEN CHOOSE j \in batch : by[j] = t ELSE job[t]]
       /\ disputed' = disputed \cup {j \in batch : Held(j)}
  /\ UNCHANGED <<timeVars, fetched, connVars, status, mode, origin, cancelling,
                 lost, schedVars, due, advancing, start, result, counters>>

\* The query for them fails: logged, and the tick is over.
TickFails ==
  /\ tick = "due" /\ due = {} /\ tick' = "idle" /\ tickAt' = 0
  /\ UNCHANGED <<timeVars, fetched, connVars, jobVars, schedVars, due, advancing,
                 taskVars, counters>>

\* The process goes down and comes back: executions, cancel requests and the
\* tick are lost, the rows stay.
Crash ==
  /\ crashes < MaxCrashes /\ crashes' = crashes + 1 /\ UNCHANGED requests
  /\ tick' = "idle" /\ tickAt' = 0 /\ due' = {} /\ advancing' = "none"
  /\ pc' = [t \in Tasks |-> "idle"] /\ job' = [t \in Tasks |-> NoJob]
  /\ start' = [t \in Tasks |-> 0] /\ result' = [t \in Tasks |-> "completed"]
  /\ cancelling' = {}
  /\ lost' = lost \cup {j \in Jobs : Held(j) /\ status[j] = "running"}
  /\ UNCHANGED <<timeVars, fetched, connVars, status, mode, origin,
                 disputed, schedVars>>

\* Modes stand for syncMode of the schedule, which a user may change any time.
TickStep ==
  \/ StartTick \/ AdvanceSchedule \/ ExecutePending \/ TickFails
  \/ \E s \in Schedules :
       TriggerFails(s) \/ \E j \in Jobs, m \in Modes : TriggerSchedule(s, j, m)

Next ==
  \/ TimePasses \/ DeleteConnector
  \/ \E j \in Jobs : \/ CancelRequest(j) \/ CancelSyncJob(j)
                     \/ \E t \in Tasks, m \in Modes : TriggerSync(j, m, t)
  \/ \E t \in Tasks : ExecuteSyncJob(t)
  \/ \E s \in Schedules :
       \/ \E e \in {"enabled", "disabled"} : CreateSyncSchedule(s, e)
       \/ \E e \in {"enabled", "disabled"} : UpdateSyncSchedule(s, e)
  \/ TickStep \/ Crash

Spec == Init /\ [][Next]_vars

-------------------------------------------------------------------------------
(* Properties *)

JobsOf(s) == {j \in Jobs : status[j] # "none" /\ origin[j] = s}

\* A schedule never moves on without a job: neither a crash nor a failed query
\* between the insert and the update loses a scheduled sync
\* (connectorSync.service.ts:482-507; the price is a second job now and then).
ScheduledRunsBacked == \A s \in Schedules : runs[s] <= Cardinality(JobsOf(s))

\* A job in "running" has an execution that will write its result, even when it
\* was executed twice, by the request and by the tick, and even when the run or
\* the update of the result throws (connectorSync.service.ts:135-267).  Three
\* things strand a job, and nothing else does: a crash, a failure before the try
\* block (:152-168), and one of the catch block's own update (:255-262).
RunningIsAttended ==
  \A j \in Jobs \ lost : status[j] = "running" =>
    \E t \in Tasks : job[t] = j /\ pc[t] \in {"read", "run", "write"}

\* A job's row only goes forward, until a cancellation or a second execution
\* disputes it: only then does one that is over change again, except that the
\* failed update of the connector's row turns "completed" into "failed"
\* (connectorSync.service.ts:124, :147, :229 and :254).  That a failed job is
\* final is the code's, not its header's: syncWorker.ts:7 announces retries of
\* failed jobs, and neither the tick nor the table (no retryAfter) has them.
Forward == {<<"none", "pending">>, <<"pending", "running">>, <<"running", "completed">>,
            <<"running", "failed">>, <<"completed", "failed">>}
JobsSettle ==
  [][\A j \in Jobs \ disputed' :
       status'[j] = status[j] \/ <<status[j], status'[j]>> \in Forward]_vars

\* connectorSync.service.ts:6 "Poll: incremental time-range updates since last
\* sync", :198 "fetch only changes since last sync": when a poll has returned
\* everything it asked for, no change before it is missing.
PollCatchesUp ==
  [][\A t \in Tasks :
       RunConnector(t) /\ mode[job[t]] = "poll" /\ InReach(t) \subseteq fetched'
         => \A c \in changes : c < now => c \in fetched']_vars

-------------------------------------------------------------------------------
(* The inductive invariant behind JobsSettle. *)

\* A job nobody disputes has one execution at most, which is where the row says.
Expected(step) == CASE step = "mark" -> {"pending"}
                    [] step \in {"read", "run", "write"} -> {"running"}
                    [] OTHER -> {"completed", "failed"}
SoleExecution ==
  \A t \in Tasks \ Idle : job[t] \notin disputed =>
    /\ status[job[t]] \in Expected(pc[t])
    /\ \A u \in Tasks \ Idle : job[u] = job[t] => u = t
===============================================================================
