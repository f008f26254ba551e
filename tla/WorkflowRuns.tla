---------------------------- MODULE WorkflowRuns ----------------------------
(***************************************************************************)
(* Workflow runs as their clients see them (routes/workflows.ts): the row   *)
(* of a run, the task that consumes the events of its executor, the map    *)
(* activeRuns with its cap, its sweep and its clean-up, the event log of   *)
(* an entry, from which the oldest events are cut, and the clients that    *)
(* stream it.  An executor is taken as WorkflowExecutor shows it: events,  *)
(* then one terminal event, or an exception.  Events are numbered from 1;  *)
(* a log holds those above dropped[r].  (An operator directly above        *)
(* another, same parameters and no mapping to the code, is a faulty        *)
(* variant that the mutation runs put in its place.)                       *)
(***************************************************************************)
EXTENDS Integers, Sequences, FiniteSets

CONSTANTS
  Runs, Streams,   \* runs started and clients that come (bounds)
  MaxActiveRuns,   \* MAX_ACTIVE_RUNS
  MaxEvents,       \* MAX_EVENTS_PER_RUN
  CutEvents,       \* events dropped when the log is full: 100 in the code
  EventBound,      \* events of one run (bound)
  MaxCrashes,      \* restarts of the process (bound)
  NoRun            \* a client that has not come yet

ASSUME RunsAssumption == IsFiniteSet(Runs) /\ NoRun \notin Runs
ASSUME SizesAssumption ==
  /\ MaxActiveRuns \in Nat \ {0} /\ EventBound \in Nat /\ MaxCrashes \in Nat
  /\ MaxEvents \in Nat \ {0} /\ CutEvents \in 1 .. MaxEvents

VARIABLES
  row,                \* status of the workflowRuns row
  task,               \* the background task that consumes the executor
  outcome,            \* the terminal event the executor has yielded
  emitted, dropped,   \* events yielded; events cut from the log
  activeRuns, rank,   \* the registry: its keys, and their order of insertion
  starts,             \* runs registered so far
  client, run,        \* the streaming clients and the run each looks at
  seen,               \* ... the status its query of the row returned
  cursor, sent, told, \* ... its index, its events, the terminal one among them
  crashes,
  swept, unrecorded   \* history: runs the sweep removed; whose update failed

log      == <<emitted, dropped>>
registry == <<activeRuns, rank, starts>>
clients  == <<client, run, seen, cursor, sent, told>>
history  == <<swept, unrecorded>>
vars == <<row, task, outcome, log, registry, clients, crashes, history>>

Outcomes == {"none", "complete", "error"}
Statuses == {"none", "running", "done", "failed"}
Tasks    == {"none", "inserted", "running", "waiting", "recording", "throwing",
             "over", "dead"}

TypeOK ==
  /\ row \in [Runs -> Statuses] /\ task \in [Runs -> Tasks]
  /\ outcome \in [Runs -> Outcomes]
  /\ emitted \in [Runs -> Nat] /\ dropped \in [Runs -> Nat]
  /\ activeRuns \subseteq Runs /\ rank \in [Runs -> Nat] /\ starts \in Nat
  /\ client \in [Streams -> {"absent", "opening", "live", "ended"}]
  /\ run \in [Streams -> Runs \cup {NoRun}]
  /\ \A s \in Streams : client[s] # "absent" => run[s] \in Runs
  /\ seen \in [Streams -> Statuses] /\ cursor \in [Streams -> Nat]
  /\ sent \in [Streams -> Seq(Nat)] /\ told \in [Streams -> Outcomes]
  /\ crashes \in Nat /\ swept \subseteq Runs /\ unrecorded \subseteq Runs

Init ==
  /\ row = [r \in Runs |-> "none"] /\ task = [r \in Runs |-> "none"]
  /\ outcome = [r \in Runs |-> "none"]
  /\ emitted = [r \in Runs |-> 0] /\ dropped = [r \in Runs |-> 0]
  /\ activeRuns = {} /\ rank = [r \in Runs |-> 0] /\ starts = 0
  /\ client = [s \in Streams |-> "absent"] /\ run = [s \in Streams |-> NoRun]
  /\ seen = [s \in Streams |-> "none"] /\ cursor = [s \in Streams |-> 0]
  /\ sent = [s \in Streams |-> << >>] /\ told = [s \in Streams |-> "none"]
  /\ crashes = 0 /\ swept = {} /\ unrecorded = {}

Goto(r, step) == task' = [task EXCEPT ![r] = step]

-------------------------------------------------------------------------------
(* The start of a run *)

InsertRun(r) ==
  /\ task[r] = "none" /\ Goto(r, "inserted")
  /\ row' = [row EXCEPT ![r] = "running"]
  /\ UNCHANGED <<outcome, log, registry, clients, crashes, history>>

\* The first key of the map, which iterates in the order of insertion.
Oldest == CHOOSE r \in activeRuns : \A q \in activeRuns : rank[r] <= rank[q]

Full == Cardinality(activeRuns) >= MaxActiveRuns

WithIfRoom(r) == IF Full THEN activeRuns ELSE activeRuns \cup {r}
\* At the cap the oldest entry makes room, whatever its run is doing.
With(r) == (IF Full THEN activeRuns \ {Oldest} ELSE activeRuns) \cup {r}

Register(r) ==
  /\ task[r] = "inserted" /\ Goto(r, "running") /\ activeRuns' = With(r)
  /\ starts' = starts + 1 /\ rank' = [rank EXCEPT ![r] = starts + 1]
  /\ UNCHANGED <<row, outcome, log, clients, crashes, history>>

-------------------------------------------------------------------------------
(* The background task *)

LogLength(r) == emitted[r] - dropped[r]

\* An event goes to the log, if the entry is still there, after room is made.
Push(r) ==
  /\ emitted[r] < EventBound
  /\ emitted' = [emitted EXCEPT ![r] = @ + 1]
  /\ dropped' = IF r \in activeRuns /\ LogLength(r) >= MaxEvents
                THEN [dropped EXCEPT ![r] = @ + LogLength(r) - MaxEvents + CutEvents]
                ELSE dropped

\* The executor yields an event and goes on, or yields that of a gate and waits.
Emit(r) ==
  /\ task[r] = "running" /\ Push(r)
  /\ \/ UNCHANGED task
     \/ Goto(r, "waiting")
  /\ UNCHANGED <<row, outcome, registry, clients, crashes, history>>

\* POST /runs/:runId/gate finds the executor through the registry only.
AnswerGate(r) ==
  /\ task[r] = "waiting" /\ r \in activeRuns /\ Goto(r, "running")
  /\ UNCHANGED <<row, outcome, log, registry, clients, crashes, history>>

GateTimesOut(r) ==
  /\ task[r] = "waiting" /\ Goto(r, "running")
  /\ UNCHANGED <<row, outcome, log, registry, clients, crashes, history>>

\* The terminal event: clients can read it before the row says so.
Finish(r) ==
  /\ task[r] = "running" /\ Push(r) /\ Goto(r, "recording")
  /\ \E o \in {"complete", "error"} : outcome' = [outcome EXCEPT ![r] = o]
  /\ UNCHANGED <<row, registry, clients, crashes, history>>

StatusOfAny(o) == "done"
StatusOf(o)    == IF o = "complete" THEN "done" ELSE "failed"

RecordOrThrow(r) ==
  /\ task[r] = "recording"
  /\ row' = [row EXCEPT ![r] = StatusOf(outcome[r])]
  /\ \/ Goto(r, "over") /\ UNCHANGED unrecorded
     \/ Goto(r, "throwing") /\ unrecorded' = unrecorded \cup {r}
  /\ UNCHANGED <<outcome, log, registry, clients, crashes, swept>>
\* The update of the row, which may fail.
Record(r) ==
  /\ task[r] = "recording"
  /\ \/ Goto(r, "over") /\ row' = [row EXCEPT ![r] = StatusOf(outcome[r])]
                        /\ UNCHANGED unrecorded
     \/ Goto(r, "throwing") /\ unrecorded' = unrecorded \cup {r}
                            /\ UNCHANGED row
  /\ UNCHANGED <<outcome, log, registry, clients, crashes, swept>>

ExecutorThrows(r) ==
  /\ task[r] = "running" /\ Goto(r, "throwing")
  /\ UNCHANGED <<row, outcome, log, registry, clients, crashes, history>>

\* The catch block marks the run failed, also one that has completed; an error
\* of this update is swallowed.
Catch(r) ==
  /\ task[r] = "throwing" /\ Goto(r, "over")
  /\ \/ row' = [row EXCEPT ![r] = "failed"] /\ UNCHANGED unrecorded
     \/ unrecorded' = unrecorded \cup {r} /\ UNCHANGED row
  /\ UNCHANGED <<outcome, log, registry, clients, crashes, swept>>

-------------------------------------------------------------------------------
(* The registry *)

\* Five minutes after its task a run leaves the registry.
CleanUp(r) ==
  /\ task[r] = "over" /\ r \in activeRuns
  /\ activeRuns' = activeRuns \ {r}
  /\ UNCHANGED <<row, task, outcome, log, rank, starts, clients, crashes, history>>

StaleIfOver(r) == {q \in activeRuns : rank[q] <= rank[r] /\ task[q] = "over"}
\* The entries that are past their time to live when that of r is.
Stale(r) == {q \in activeRuns : rank[q] <= rank[r]}

\* The sweep comes when the time to live of r is over.
Sweep(r) ==
  /\ r \in activeRuns /\ Stale(r) # {}
  /\ activeRuns' = activeRuns \ Stale(r) /\ swept' = swept \cup Stale(r)
  /\ UNCHANGED <<row, task, outcome, log, rank, starts, clients, crashes,
                 unrecorded>>

\* The process ends: rows stay, and nothing takes up the runs they name.
Crash ==
  /\ crashes < MaxCrashes /\ crashes' = crashes + 1
  /\ task' = [r \in Runs |-> IF task[r] \in {"none", "over"} THEN task[r] ELSE "dead"]
  /\ activeRuns' = {}
  /\ client' = [s \in Streams |-> IF client[s] = "absent" THEN "absent" ELSE "ended"]
  /\ UNCHANGED <<row, outcome, log, rank, starts, run, seen, cursor, sent, told,
                 history>>

-------------------------------------------------------------------------------
(* The streams *)

\* GET /runs/:runId/stream reads the row ...
OpenStream(s, r) ==
  /\ client[s] = "absent" /\ row[r] # "none"
  /\ client' = [client EXCEPT ![s] = "opening"] /\ run' = [run EXCEPT ![s] = r]
  /\ seen' = [seen EXCEPT ![s] = row[r]]
  /\ UNCHANGED <<row, task, outcome, log, registry, cursor, sent, told, crashes,
                 history>>

UnsentFromLast(r, c) ==
  [i \in 1 .. LogLength(r) - c + 1 |-> dropped[r] + c - 1 + i]
\* The events of the log from index c on.
Unsent(r, c) ==
  [i \in 1 .. (IF c < LogLength(r) THEN LogLength(r) - c ELSE 0) |->
     dropped[r] + c + i]

\* Writes the unsent events of the run; the terminal event is the last of a run.
WriteEvents(s) ==
  LET r      == run[s]
      unsent == Unsent(r, cursor[s])
  IN /\ sent' = [sent EXCEPT ![s] = @ \o unsent]
     /\ cursor' = [cursor EXCEPT ![s] = @ + Len(unsent)]
     /\ told' = IF unsent # << >> THEN [told EXCEPT ![s] = outcome[r]] ELSE told

SeenOutcome(s) == IF seen[s] = "done" THEN "complete"
                  ELSE IF seen[s] = "failed" THEN "error" ELSE "none"

\* ... and then looks for the entry: it replays the log and stays, or reports
\* what the row said, if that was an end, and closes.
Attach(s) ==
  /\ client[s] = "opening"
  /\ IF run[s] \in activeRuns
     THEN client' = [client EXCEPT ![s] = "live"] /\ WriteEvents(s)
     ELSE /\ client' = [client EXCEPT ![s] = "ended"]
          /\ told' = [told EXCEPT ![s] = SeenOutcome(s)]
          /\ UNCHANGED <<cursor, sent>>
  /\ UNCHANGED <<row, task, outcome, log, registry, run, seen, crashes, history>>

\* Every 500 ms: the new events; closes after a terminal one, or without a word
\* when the entry is gone.
Poll(s) ==
  /\ client[s] = "live"
  /\ IF run[s] \in activeRuns
     THEN /\ WriteEvents(s)
          /\ client' = IF sent'[s] # sent[s] /\ outcome[run[s]] # "none"
                       THEN [client EXCEPT ![s] = "ended"] ELSE client
     ELSE client' = [client EXCEPT ![s] = "ended"] /\ UNCHANGED <<cursor, sent, told>>
  /\ UNCHANGED <<row, task, outcome, log, registry, run, seen, crashes, history>>

Leave(s) ==
  /\ client[s] = "live" /\ client' = [client EXCEPT ![s] = "ended"]
  /\ UNCHANGED <<row, task, outcome, log, registry, run, seen, cursor, sent, told,
                 crashes, history>>

-------------------------------------------------------------------------------
Next ==
  \/ \E r \in Runs :
       \/ InsertRun(r)
       \/ Register(r)
       \/ Emit(r)
       \/ AnswerGate(r)
       \/ GateTimesOut(r)
       \/ Finish(r)
       \/ Record(r)
       \/ ExecutorThrows(r)
       \/ Catch(r)
       \/ CleanUp(r)
       \/ Sweep(r)
  \/ \E s \in Streams :
       \/ \E r \in Runs : OpenStream(s, r)
       \/ Attach(s)
       \/ Poll(s)
       \/ Leave(s)
  \/ Crash

Spec == Init /\ [][Next]_vars

\* Timers fire and awaited queries return.  Executors, gates and clients get no
\* fairness: a run may hang for ever.
FairSpec ==
  /\ Spec
  /\ \A r \in Runs : WF_vars(Sweep(r))
  /\ \A s \in Streams : WF_vars(Attach(s)) /\ WF_vars(Poll(s))

-------------------------------------------------------------------------------
(* Properties *)

\* A stream writes events in order and none twice, however its polls fall
\* between the cuts of the log: its index points past the events it has sent
\* even when the log under it gets shorter.  A cut makes it miss as many later
\* events as were cut, and without a cut it misses none.  The index never passes
\* the size of the log, so a stream falls silent after MaxEvents events.
StreamsInOrder ==
  \A s \in Streams :
    /\ \A i, j \in 1 .. Len(sent[s]) : i < j => sent[s][i] < sent[s][j]
    /\ \A i \in 1 .. Len(sent[s]) : sent[s][i] - i \in 0 .. dropped[run[s]]
    /\ Len(sent[s]) <= MaxEvents

\* Two clients are never told opposite ends of a run, one by its events and one
\* by its row, unless an update of the row has failed: then the run that has
\* completed is marked failed.
StreamsAgree ==
  \A s \in Streams :
    /\ told[s] = "complete" => outcome[run[s]] = "complete"
    /\ told[s] = "error" /\ outcome[run[s]] = "complete" => run[s] \in unrecorded

\* An end is final: the terminal event of a run and the end its row records are
\* never replaced, although two handlers write the row, and a stream that was
\* told an end is told no other one and sends nothing after it, although it may
\* stay open until the entry goes (workflows.ts:307-325, 404-430).
EndsAreFinal ==
  [][/\ \A r \in Runs :
          /\ outcome[r] # "none" => outcome'[r] = outcome[r]
          /\ row[r] \in {"done", "failed"} => row'[r] = row[r]
     /\ \A s \in Streams :
          told[s] # "none" => told'[s] = told[s] /\ sent'[s] = sent[s]]_vars

Executing(r) == task[r] \in {"running", "waiting", "recording", "throwing"}

\* A run that still executes is missing from the registry, and its gates cannot
\* be answered, only past its time to live or when MaxActiveRuns newer ones were
\* started: clean-ups and evictions of other runs never hit it.
RecentRunsReachable ==
  \A r \in Runs : Executing(r) /\ r \notin activeRuns =>
    r \in swept \/ starts - rank[r] >= MaxActiveRuns

\* Every open stream is closed in the end, also when the run hangs or a cut took
\* the terminal event away.
EveryStreamEnds == \A s \in Streams : client[s] = "live" ~> client[s] = "ended"

-------------------------------------------------------------------------------
(* The inductive invariant *)

\* The log is a window of at most MaxEvents events.
LogInv ==
  \A r \in Runs :
    /\ dropped[r] <= emitted[r]
    /\ r \in activeRuns => LogLength(r) <= MaxEvents
    /\ task[r] \in {"none", "inserted"} =>
         emitted[r] = 0 /\ dropped[r] = 0 /\ outcome[r] = "none"

\* Entries have distinct places in the order of registration.
RegistryInv ==
  /\ Cardinality(activeRuns) <= MaxActiveRuns
  /\ \A r \in Runs : rank[r] <= starts
  /\ \A r \in activeRuns : rank[r] > 0 /\ task[r] \notin {"none", "inserted", "dead"}
  /\ \A r, q \in Runs : r # q /\ rank[r] = rank[q] => rank[r] = 0
  /\ \A r \in Runs : task[r] \in {"none", "inserted"} => rank[r] = 0
  /\ \A r \in Runs : Executing(r) => rank[r] > 0

\* The row says what the executor's terminal event said, or an update failed.
RowInv ==
  \A r \in Runs :
    /\ row[r] = "done" => outcome[r] = "complete"
    /\ row[r] = "failed" /\ outcome[r] = "complete" => r \in unrecorded
    /\ task[r] = "throwing" /\ outcome[r] = "complete" => r \in unrecorded
    /\ task[r] \in {"running", "waiting"} => outcome[r] = "none"
    /\ task[r] = "recording" => outcome[r] # "none"
    /\ task[r] \notin {"over", "dead"} => row[r] \in {"none", "running"}
    /\ task[r] = "over" => row[r] \in {"done", "failed"} \/ r \in unrecorded

\* An index counts the events its stream has sent, and an end that a client was
\* told is that of the row or of the log.
ClientInv ==
  \A s \in Streams :
    /\ cursor[s] = Len(sent[s])
    /\ client[s] \in {"absent", "opening"} => sent[s] = << >> /\ told[s] = "none"
    /\ client[s] = "absent" => seen[s] = "none"
    /\ seen[s] \in {"done", "failed"} => row[run[s]] = seen[s]
    /\ told[s] = "error" => outcome[run[s]] = "error" \/ row[run[s]] = "failed"

\* A stream that was told an end is closed, or has sent all there is.
EndInv ==
  \A s \in Streams : told[s] # "none" =>
    \/ client[s] = "ended"
    \/ /\ client[s] = "live" /\ outcome[run[s]] # "none"
       /\ cursor[s] >= LogLength(run[s])

IInv == /\ TypeOK /\ LogInv /\ RegistryInv /\ RecentRunsReachable
        /\ RowInv /\ ClientInv /\ EndInv /\ StreamsInOrder /\ StreamsAgree
===============================================================================
