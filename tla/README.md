# Verification of Judica

Judica sends a question to a council of language models, lets the members
debate and review one another, and synthesises a verdict. Around that core it
runs workflows, syncs outside data sources, and hosts agents and sandboxes.
This directory holds TLA+ models of the parts whose correctness depends on
control flow, on the order in which asynchronous steps happen, and on shared
state. TLC checks them on small instances; TLAPS proves the most important
results for every value of the constants.

Paths below are relative to `src/src/` unless they begin with `tests/` or
`docs/`.

1. [Inventory](#1-inventory)
2. [The modules](#2-the-modules)
3. [What the runs check](#3-what-the-runs-check)
4. [Where code and comments disagree](#4-where-code-and-comments-disagree)
5. [Fairness](#5-fairness)
6. [What is proved](#6-what-is-proved)
7. [What is only model-checked](#7-what-is-only-model-checked)
8. [What is left out](#8-what-is-left-out)
9. [Plan](#9-plan)
10. [Running it](#10-running-it)

## 1. Inventory

The backend is one Node.js process (Fastify), with PostgreSQL and Redis behind
it. There are no threads: two pieces of code interleave only at an `await`, and
that is the grain of every model here. State is kept in three places: locals of
an asynchronous function, maps in module scope (lost by a restart), and rows of
the database (kept).

| Component | State | Operations | Hard behaviour | What makes it correct |
|---|---|---|---|---|
| **Council deliberation** `lib/council.ts`, `lib/deliberationPhases.ts`, `lib/controller.ts` | locals of one call: opinions of the round, best opinions and score, controller's maximum and score history, cost | gather, debate, peer review, consensus, synthesis, cold validation | members answer in any order and may fail; two maxima kept in two objects; abort and cost limit looked at between rounds only | the best round wins, a quorum stands behind the result, an abort caps what is still spent, the cost passes its limit by one round at most, every deliberation ends |
| **Provider calls** `lib/providers.ts`, `lib/retry.ts`, `lib/breaker.ts` | per call: attempts, fallback flag; shared: retry budget, breaker registry | attempt, retry with backoff, emergency fallback, fire through a breaker, answer tool calls with a further round, evict a breaker | nested retry and fallback loops share a counter, and a call recurses over its tool calls inside them; calls share breakers and budget; breakers are evicted under requests | bounded requests, exact retry budget, fallback before failure, registry in step with its order of use, every call ends |
| **Workflow executor** `workflow/executor.ts`, `workflow/nodes/*` | one run: waves, results, skipped nodes, pending gates, cost; shared: gate store, self-healing configuration | plan, run a wave, heal a node, open / answer / time out a gate, stop on a budget | parallel nodes, branches and joins, a gate's answer racing its timeout, configuration changed under way | dependencies first, skip exactly what is cut off, no side effect twice, gates accounted for, results stand, every run ends |
| **Connector sync** `services/connectorSync.service.ts`, `lib/connectorSync/syncWorker.ts` | rows: jobs, schedules, connector; process: tick, executions | create, cancel, execute a job; create, switch, trigger a schedule | the request and the worker execute the same job; crashes and failed queries between two writes; a cancel overwritten by a result; batches without an order | no scheduled run lost, a job is left "running" in known ways only, a result stands, polls catch up |
| **Workflow runs** `routes/workflows.ts` | `activeRuns` (cap 500, 30 min), event list per run (cap 1000), run rows | start, stream events, resume a gate | gates wait for 24 hours, the registry forgets after 30 minutes; a streaming client holds an index into a list that is cut at the front; rows and events report an end separately | a client sees events once and in order, no two clients are told opposite ends, a recent run can be reached |
| Build tasks `routes/build-tasks.ts`, `routes/work-stealing.ts` | task rows with lock and owner | claim, release, steal, complete | read-then-write requests of several agents | a task has one owner |
| **Sandbox sessions** `sandbox/sessionManager.ts` | session map, containers, volumes, idle timer | create, stop, resume, destroy, shut down | limit checked before awaits and registered after them; stop and resume overlap; Docker fails half-way; containers outlive the process | the limit is passed only by starts it did not see, registry and Docker agree, no container runs behind the timer |
| Human-in-the-loop gates `services/hitlGates.service.ts` | gate rows, votes | open, vote, expire, cancel | a late vote against expiry | a gate is decided once |
| **Background agents** `services/backgroundAgents.service.ts` | map of agents (capped), steps, checkpoint, loops under way | create, run, pause, resume, cancel, save a checkpoint, clean up | a pause does not stop the handler under way, so that a resumption starts a second loop over the same steps; late failures; a progress callback outside the try block | "completed" only when every handler returned, what is over stays over, an agent stays "running" only when its own callback threw |
| Router, quotas `router/*` | usage counters, request windows | pick provider, consume, fall through a chain | check-then-consume around awaits | quota overrun bounded by the calls in flight |
| Queues `queue/*` | BullMQ in Redis | enqueue, work, fail, dead-letter | retries of jobs done in part | a job runs at least once |
| Interrupts, checkpoints, votes, messages, shared memory | in-memory maps and rows | one-step operations | stale reads | see the plan |
| **Asking** `routes/ask.ts`, `middleware/quota.ts`, `lib/cache.ts`, memo of `lib/council.ts` | usage row, two cache layers, memo, conversation and chat rows | count, take back, look up, ask the council, store, save, bill | concurrent counts and take-backs, failures between the writes, keys that leave out part of what was asked, entries stored by lost streams | the daily limit is exact, only answers are billed, an answer fits what was asked |

Interaction: a route handler calls `askCouncil` or `deliberate()`; that calls
`askProvider`/`askProviderStream` for each member, several at a time, and these
share the retry budget and the breaker registry. A workflow's `llm` nodes call
providers too; its gates are opened by the run and answered by a route through
`resumeGate()`. Sync jobs are inserted by routes and by the worker's tick, and
executed by both; they meet only in the database. A question passes the quota,
the caches and then the council; a workflow's route registers a run and hands
its executor to a background task, whose events clients read from the registry.

The remaining parts (retrieval, memory and knowledge graph, connectors to
outside sources, schema, frontend, CLI, desktop, plumbing) have no protocol
state of their own; section 8 gives the reasons.

## 2. The modules

| Module | Role |
|---|---|
| `Deliberation` | `deliberate()` with its phases and the controller |
| `AbstractDeliberation` | what a deliberation promises its caller |
| `ProviderCall` | concurrent provider calls, retry budget, breaker registry |
| `AbstractCalls` | what the calls promise the council, each by itself |
| `WorkflowExecutor` | one run of a workflow |
| `AbstractWorkflow` | what running a workflow means: a dataflow specification |
| `ConnectorSync` | jobs and schedules of one connector, the worker, crashes |
| `Ask` | the questions of one user: quota, caches, memo, rows, bill |
| `WorkflowRuns` | rows, registry, event logs and streaming clients of runs |
| `SandboxSessions` | sessions of one user, Docker, the timer |
| `BackgroundAgents` | agents, their steps and the loops that run them |
| `MC...` | instances for TLC |
| `..._proofs` | theorems and proofs |

Each `MC` module extends its component, each `_proofs` module extends it as
well, so both tools look at the same definitions. An operator that stands
directly above another one with the same parameters, and is mapped to no code,
is a faulty variant of it (a dropped guard, an off-by-one): putting it in place
of the real one must break a property, which shows that the property depends on
that code.

### Deliberation

One call of `deliberate()`. `pc` is the phase; a phase that is a `Promise.all`
over the members has a set `waiting`, and `GatherOpinion(m)` and
`DebateOpinion(m)` settle the members one at a time in any order. `Abort` may
come between any two steps. Correspondence:

| Model | Code |
|---|---|
| `StartRound`, `LeaveLoop` | head of the round loop, `council.ts:220-238` |
| `GatherOpinion`, `EndGather`, `AfterGather` | `gatherOpinions`, quorum check, `council.ts:240-266` |
| `DebateOpinion`, `EndDebate` | `conductDebateRound` |
| `PeerReview`, `SoleOpinion` | reviews, audits, scoring, `shouldAcceptRound`, best-round tracking, `council.ts:285-350` |
| `EvaluateConsensus`, `Decision` | critic and scorer calls, `computeConsensus`, `DeliberationController.decide` |
| `Synthesize`, `Validate`, `Publish` | `synthesizeVerdict`; cold validation; what follows the validator's answer up to "done", `deliberationPhases.ts:470`, `council.ts:475` |
| `Throw` | the calls and hooks whose rejection nothing catches |

Abstractions. An opinion is "absent", "structured" (its JSON parsed), "raw" or
"placeholder" (the "[FAILED]" text the debate puts in). Scores and consensus
are integers `0..MaxScore`, and the thresholds 0.2, 0.85, 0.92 and 0.95 become
integers in the same order (`ThresholdOrderAssumption`; two may coincide, which
only adds behaviours). Of a round's scores only the largest final score and
whether one of them is critical matter to the code, so `PeerReview` chooses
these two. A cost is one unit for an answered call that the code adds up, or
nothing when `Priced` is FALSE. A call made after the abort may be answered or
reject: the signal is passed to every call, but a breaker re-sends the first
request made under its name, with the signal of that one (`breaker.ts:58`). The
validator's judgement of the verdict changes nothing that follows and is left
out. `log`, `abortedIn` (the round of the abort) and `costAtAbort` are history
variables.

The end of the module maps it to `AbstractDeliberation`: the candidate held is
`bestOpinions`, its score `bestRoundScore`, and what is published is the
opinions of the "done" event.

### ProviderCall

Several `askProviderStream` calls at once. For each call, `totalAttempts` and
`isFallback` are the context object the code passes down, `attempt` the counter
of `withRetry`, `flight` the request under way and the breaker it went through.
A failure travels outwards through three operators, as it does through the
three functions: `AskFails` (`askProvider`), `AttemptFails` (`withRetry`) and
`GiveUp` (`askProviderStream`). Both `askProviderStream` and `askProvider`
count an attempt (`CountedTwice`). `Fire` is `getBreaker(...).fire()`: it
registers or looks up the breaker, evicts the least recently used one at the
cap, and sends the request *of the call that registered the breaker*. An answer
ends the call (`Answered`) or asks for tools (`ToolCalls`): the provider's
`call()` then recurses, one `depth` further, and throws at `MaxToolRounds`; each
round is a request through the breaker. The
opossum breaker is modelled by its states closed, open, half-open and probing;
what makes it open (error percentages) is a nondeterministic choice. The time
stamps that say which breaker was used last are a relation, `recency`: the
pairs of keys of which the first was used before the second. Response contents
are reduced to whose request was answered and whether tools are asked for; the
tools themselves are left out, as `callTool` catches what they throw.

`AbstractCalls` has no attempts, breakers, budget or backoff: a call sends at
most `MaxRequests` requests, at most `MaxRounds` of them to the fallback and
those only once its turn has come, and ends once, with an answer after a
request or with a failure that an owed fallback could not prevent; no call
moves another. The mapping is `Service` at the end of `ProviderCall`.

### WorkflowExecutor

One run over any definition from a constant set. `BuildLevel` is one turn of
Kahn's loop; `StartWave` checks the budgets and decides for each node to run or
skip; `NodeSucceeds`, `NodeFails` and `Retry` interleave over the nodes of a
wave; `EndWave` is the end of `Promise.all`; `SkipGate`, `OpenGate`,
`GateTimesOut`, `ResumeGate` and `EndGate` are the gates, one after the other;
`ConfigureSelfHealing` is the PUT route that changes the retry limit of runs
under way. What nodes compute is left out but for the branch a condition takes.
Kahn's queue order decides which of the ready nodes comes first within a wave;
the wave is a set here, since the nodes run concurrently and the gates are taken
in any order.

`AbstractWorkflow` knows no waves: a node's fate is settled once, after those of
the nodes it depends on, "skipped" exactly when no live edge leads to it, and a
run completes only when all fates are settled. The mapping is `fate` and
`outcome` at the end of `WorkflowExecutor`.

### ConnectorSync

The rows outlive `Crash`; the tick, the executions and the cancel requests
under way do not. Each action is the code between two awaits. `TriggerSync` is
the POST request that inserts a job and executes it itself; `StartTick`,
`TriggerSchedule`, `AdvanceSchedule`, `TriggerFails` and `ExecutePending` are
one turn of the worker; `MarkRunning`, `ReadConnector`, `RunConnector`,
`WriteResult`, `TouchConnector`, `Throws`, `CatchFails` and `FailsUncaught` are
`executeSyncJob`; `TickFails` is a turn whose query for pending jobs fails. A
cancel is two steps (`CancelRequest` reads, `CancelSyncJob` writes), as in the
code.

Abstractions. The documents of a source are the moments at which one of them
changed. A fetch is one step. The time `syncNow` is taken in the step that
writes it. Every query may fail, and a failed one is taken to have had no
effect: inside the try block (`Throws`), in the catch block (`CatchFails`), and
before either, where a missing row throws as well (`FailsUncaught`). Two
history variables hold the exceptions to the properties: `disputed`, the jobs
cancelled or taken while somebody held them, and `lost`, those left "running"
by a crash, by a throw before the try block or by one of the catch block. A
deleted schedule is like one that stays disabled. Cron expressions are `*/N`,
and the clock's unit stands for both the minute of a schedule and the second of
a poll window.

### Ask

Both endpoints for one signed-in user on one day. An action is the code from
one `await` to the next: `Count` is the upsert that counts a request and
returns the new totals; the take-back, the admission, the conversation and its
history, the lookup in the two cache layers (Redis, then PostgreSQL), the memo
of `askCouncil`, the council, the storing of the answer, the chat row and the
bill follow in steps of their own. An awaited call may fail where the code has
an error path, a stream may be lost, and cache entries may go at any time. A
verdict is named by the request whose council gave it, so that what an answer
was given to can be said. A body is a question, what is attached to it and the
settings of its council, drawn when the request is first looked at. The keys
name what the code's name: the caches' the question, the history and the
council (`Key`), the memo's the contents of the messages and the members' names
(`MemoKey`), which the instance takes to be the same in all settings. `Garbled`
is what POST / makes of a question beside an image: an array joined to a string
(`routes/ask.ts:526`) is "[object Object]", and the council sees none of the
question. What a council costs is one unit of the token quota.

### WorkflowRuns

The row of a run, the background task that consumes its executor, the map
`activeRuns` and the clients. The executor is taken as `WorkflowExecutor` shows
it: events, then one terminal event or an exception. Events are numbered; a log
holds those above `dropped[r]`, and a client's `cursor` is the index it keeps
into that list, with `sent` the events it wrote. `Attach` looks up the registry
for a client that has read the row, `Poll` is one turn of the client's timer,
`Sweep` the timer that drops old entries. The update of the row after the
terminal event may fail, which is taken to leave the row as it was, and a crash
loses everything but the rows.

### SandboxSessions

`creation`, `at` and `on` say at which await a creation or a caller stands;
`sessions` and `status` are the map in memory, `volume` and `container` what
Docker keeps. A call to Docker takes effect or not, and is answered or fails
(`MaxFaults` bounds the faults). `TimerStop` is the interval that stops idle
and expired sessions; how long "idle" is, is left open.

### BackgroundAgents

`at[a][l]` is the step whose handler loop `l` of agent `a` awaits. Between two
awaits `runAgent()` runs in one go, so that the return of a handler and the
head of the next turn are one action (`StepReturns`, `Proceed`). A pause or a
cancellation only writes the status; the loop sees it when its handler returns.
`ResumeAgent` starts a loop without asking whether one is under way. An
`onProgress` may throw (`Noisy`): told of a beginning step it does so outside
the try block, and the loop ends while the status stays (the second disjunct of
`Proceed`, with `stranded` as its history); told of a returned step it fails
the agent (`StepThrows`); told of an end it changes nothing more. If it calls
back into the service, that is as if somebody called while the handler was
under way. Results and progress figures are left out.

## 3. What the runs check

The instances are small; these are the reasons they suffice.

| Run | Instance | Shows |
|---|---|---|
| `council` | 3 members, one with a fallback; 2 rounds, scores 0..2 | `BestRoundWins`, `QuorumBehindResult`, refinement `ImplementsPromise`, `WindsDown`, liveness `Terminates`. Three members is the smallest council in which a quorum (2) is less than all; two rounds is what it takes to replace or keep a best round; the first has the debate, the last has no consensus |
| `rounds` | 2 members, 4 rounds, scores 0..3, every call priced, cost limit 13, history cap 3 | `AcceptedRoundsImprove`, `RoundsGoOnSoundly`, `CostOverrunBounded`, `AbortCapsSpending`. Four rounds allow accept, discard, accept in one deliberation, and reach the cap; a first round spends at most 8 units and a later one 6, so the limit is passed in the second round or a later one, and the largest overrun, a round that starts at 12, occurs |
| `one` | a council of one | `ImplementsPromise` on the fast path without reviews |
| `calls` | 2 calls; an API provider and a misconfigured one; 4 attempts, 1 retry, tool calls to a depth of 2, 1 retry slot, room for 2 breakers | `BudgetBalanced`, refinement `ImplementsService`, `CallsWindDown`, liveness `EveryCallEnds`. One retry is what it takes for the fallback to be tried inside the retry loop and after it; a depth of two has a round that recurses and one that throws; one slot makes two calls compete for it; two breakers with four keys in use force evictions under requests. The proofs are for every value, the code's 2 retries and depth of 10 and providers without a fallback among them |
| `workflow` | all 256 graphs on a condition, a tool and a gate, cyclic ones included, and three larger workflows (`Diamond`, `Nested`, `Gated`); 2 attempts, cost limit 1 | `DependenciesFirst`, `SkippedIffCutOff`, `CyclesNeverRun`, `GateStoreExact`, refinement `ImplementsDataflow`, `RunWindsDown`, liveness `EveryRunEnds`. The three larger ones have a branch that joins again, a condition behind a condition, and gates that follow one another |
| `sync` | 2 jobs, 2 executions, 1 schedule, 1 crash, 1 user request, batches of one, failing queries, jobs of mode "load" (the mode only decides what is fetched, which these properties do not look at) | `ScheduledRunsBacked`, `RunningIsAttended`, `JobsSettle`. Two jobs with batches of one make them compete for the tick; two executions let one job be executed twice |
| `ask` | 4 requests of either endpoint; 3 bodies: a question, the same beside an image, and another beside an image for another council; 2 requests a day, one council's tokens, a history of 1 | `QuotaExact`, `OnlyAnswersBilled`, `AnswersFit`. Of four requests under a limit of two, two are over it, so that a take-back meets the count of the other; the bodies are what each of the two keys confuses; one chat of history tells a question asked again from the first |
| `runs` | 2 runs in a registry for 1, 1 client, logs of 2 events from which 1 is cut, 3 events a run, 1 crash | `StreamsInOrder`, `StreamsAgree`, `RecentRunsReachable`, `EndsAreFinal`, liveness `EveryStreamEnds`. The second run evicts the first; three events make one cut under an attached client |
| `sandbox` | 2 sessions, 2 overlapping calls, a limit of 1, 1 resumption, 1 fault | `LimitKept`, `RegistryMatchesDocker`, `RunningWatched`, liveness `TimerStops`. Two creations pass a limit of one together; two calls are what an overlap of stop and resume takes |
| `agents` | 2 agents of 2 steps in a map for 1, 2 loops each, one with an `onProgress` that may throw | `CompletedMeansDone`, `OverIsOver`, liveness `RunningEnds`. Two loops are the first overlap; the second agent drops the first from the map; the one without a callback is held to `RunningEnds` in full |
| `stale`, `poll` | small | a statement of a comment that the code does not keep: section 4 |

Every run states its bounds as constants in its configuration. They bound the
number of actors and requests (`Members`, `Calls`, `Jobs`, `Tasks`,
`MaxRequests`, `MaxCrashes`), the clock (`MaxTime`), and the code's own limits
(`Rounds`, `MaxRetries`, `MaxTotalAttempts`, `MaxBreakers`, `BatchLimit`,
`MaxActiveRuns`, `MaxEvents`, `MaxSessions`, `MaxAgents`, ...), which are
scaled down so that they are reached. Deadlock is not checked, because a
deliberation, a call, a run and an agent end, and the bounded clock, requests
and faults of the others run out; that nothing gets stuck before it has ended
is what the liveness properties say.

Notable properties, and why they are not obvious:

- `BestRoundWins` relates two maxima: `council.ts` compares with
  `bestRoundScore`, the controller with `previousMaxScore`, and they differ
  after a first round that the controller does not accept.
- `RoundsGoOnSoundly` says, of the history, that no round follows a score that
  should have halted, and, of the audits, that the code skipping audits above
  0.92 and 0.95 is never reached: a consensus of 0.85 has already ended the
  rounds. The rounds therefore always get their audits, at their cost.
- `ImplementsService` hides the two nested loops behind what a caller relies
  on. The fallback counts against the same attempts as retries, and both
  functions count each attempt, so that a call makes at most `MaxRetries + 1`
  calls of a provider, three in the code, the fallback's among them, and each
  of these up to `MaxToolRounds` requests: thirty in all. An aborted call still
  gets its fallback on the first failure, and would not on the last.
- `WindsDown`, `CallsWindDown` and `RunWindsDown` give a measure that every
  step of the deliberation, the call or the run lowers and none raises. They
  say more than the liveness properties do: no sequence of answers, retries,
  breaker states, gates or configurations makes the work grow again, and the
  measure of the first state bounds the number of steps.
- `SkippedIffCutOff`: the code looks at direct predecessors only, and yet
  skips exactly the nodes no path leads to.
- `GateStoreExact`: an answered or timed out gate is always removed, an
  escalated node never is.
- `AbortCapsSpending`: the loop looks at the signal at its head only, and calls
  may be answered in spite of it. What an aborted deliberation still spends is
  the rest of its round and the verdict; no further round begins.
- `RunningIsAttended`: the jobs of `lost`, cut off by a crash, by a failure
  before the try block or by one of the catch block, are the only ones that stay
  "running" for good, also when others were cancelled or executed twice.
- `JobsSettle`: only a job in `disputed` goes back from an end. With one
  execution and no cancellation, the one revision left is "completed" to
  "failed", when the connector's row cannot be updated.
- `EndsAreFinal`: the row of a run has two writers, one of which the failure of
  the other calls, and a stream stays open after an end it was told on joining;
  still neither replaces an end, and nothing follows one.
- `AnswersFit` follows an answer from the memo into both caches and on to later
  requests. The keys do not name all that was asked, so that it cannot say "the
  answer to this request"; it says what is left of that, and that no
  interleaving loses more: the history is the request's, the question as well
  unless the council was handed "[object Object]", and an empty answer is what
  a lost stream with the same key left behind.
- `QuotaExact`: a comment in `middleware/quota.ts` fears that a take-back could
  steal a slot. It cannot: counting and reading are one statement, and a request
  only takes back its own count.
- `StreamsInOrder`: the index of a client grows with the events it sent while
  the list is cut under it, so that it skips as many events as were cut; it
  never repeats one.
- `LimitKept` gives the exact excess over the limit: one session for each
  creation admitted while another was under way and for each resumption.
- `CompletedMeansDone`: with two loops over the same agent, one of which is
  behind the other, the first to reach the end still has all steps behind it,
  because a loop starts at a checkpoint that only a step already begun can save.

## 4. Where code and comments disagree

Each of these runs checks one statement and TLC reports a counterexample.

| Run | Statement | What the code does |
|---|---|---|
| `stale` | protectedFetch "Wraps a fetch call through the circuit breaker for this provider" (`lib/providers/baseProvider.ts:26`) | a breaker is registered once per provider name with the closure of its first call, so later calls re-send the first request |
| `poll` | "Poll: incremental time-range updates since last sync" (`services/connectorSync.service.ts:6`) | lastSyncAt is set to the time after the run, also by slim and failed runs: a later poll starts after changes nobody has fetched |

Behaviour that the modules contain and that no run singles out:

- `lib/council.ts:261` says "Quorum not met ... Aborting.", but synthesis and
  validation follow, and "done" is reported with a verdict and no opinions.
- `lib/controller.ts:113` asks callers for `discardLastRound()`; `deliberate()`
  never calls it, so that the consensus of a discarded round stays in the
  history that later rounds are compared with.
- `workflow/executor.ts:371` announces "Waiting for human intervention." The
  node's result is recorded as empty, what follows it runs at once, and the
  announced gate cannot be resumed.
- An abort during the verdict or after the last round is not looked at again:
  the deliberation ends in an ordinary "done", with a verdict and an answer of
  the validator (`lib/council.ts:475`).
- `lib/connectorSync/syncWorker.ts:7` says that the worker "Retries FAILED jobs
  that have a retryAfter in the past". Nothing does, and no column holds such a
  time: a failed job stays failed, which `JobsSettle` takes as the rule.
- `services/connectorSync.service.ts:255` writes "failed" in the catch block; if
  that query fails too, or one before the try block, the job stays "running" and
  nothing takes it up again. The worker takes pending jobs in batches of ten
  without an order, so that one may wait for ever while others keep coming.
- The executor keeps the entry of a gate that timed out: `resumeGate()`
  (`workflow/executor.ts:149`) accepts a late answer to it and drops it.
- A client of `routes/workflows.ts` hears nothing more after 1000 events, not
  even the end of the run: its index is then as large as the list can be. It is
  closed when the entry goes. A run that completed is marked failed when the
  update of its row fails, and the row of a run cut off by a crash says
  "running" for ever.
- The key of the answer caches leaves out attachments, files and citations, and
  the empty verdict of a lost stream is stored and served.
- POST / hands the council "[object Object]" in place of a question that comes
  with an image (`routes/ask.ts:526`), and its answer is cached as that of the
  question. "Check cache for identical deliberation" (`lib/council.ts:502`) is
  not what the memo's key does: two such requests with the same history are one
  to it, and so are requests to councils with other prompts, models, rounds or
  token limits, so long as the members' names agree.
- A stop and a resumption of a sandbox that overlap can leave a container
  running under the status "stopped", which no timer ends; a resumption does
  not check the limit.
- A background agent resumed while the handler of its paused loop is still
  under way has two loops. If it is then cancelled and one of the handlers
  throws, "failed" overwrites "cancelled" and the other loop goes on, running
  steps marked "skipped" (`backgroundAgents.service.ts:184`, `:220`). Resuming
  logs the step the agent was at and starts at its checkpoint.
- An `onProgress` that throws as a step begins is outside the try block
  (`backgroundAgents.service.ts:190`); `:160` and `:268` only log it. The agent
  stays "running" without a loop, and in the map, until a user pauses or
  cancels it.

## 5. Fairness

- `Deliberation`: weak fairness of `Step`. Gather and debate calls carry a
  timeout signal, the other calls end with the transport; an event loop runs
  what is ready. `Abort` is not fair: nobody has to abort.
- `ProviderCall`: weak fairness of each call's steps. A request has a signal or
  a timeout, a backoff sleep is a timer. Breakers need not leave "open"
  (`HalfOpen` is not fair): calls end by failing fast.
- `WorkflowExecutor`: weak fairness of `Execute`, which includes the timers of
  handlers, recovery agents and gates. Answers, configuration and the passing
  of the time budget are not fair. The run is an async generator; its consumer
  is taken to keep asking.
- `WorkflowRuns`: weak fairness of `Sweep`, `Attach` and `Poll`, which are
  timers and queries. Executors, gates and crashes are not fair: a run may hang,
  and its streams end all the same.
- `SandboxSessions`: weak fairness of the steps of a call (Docker answers or
  fails) and strong fairness of `TimerStop`: it needs a free caller, of which
  the instance has two and the code as many as it likes.
- `BackgroundAgents`: weak fairness of `Settle` for each agent. The code sets no
  timeout on a handler, so this is an assumption about the handlers.
- `Ask` and `ConnectorSync` state no fairness and no liveness: what a user asks
  may be abandoned anywhere, and the code does not promise that a pending job
  is taken.

## 6. What is proved

All theorems hold for every value of the constants that satisfies the named
assumptions of the component's module (finite sets, limits that are naturals,
thresholds in order, definitions whose edges join their own nodes, no name used
twice). TLC evaluates the same assumptions in the runs.

**`Deliberation_proofs`**: `TypeCorrect` and `InductiveInvariant`, and from the
latter `BestRoundKept`, `AcceptedImprove` and `ResultHasQuorum`.
`BestRoundWins` is not inductive: that a later round replaces the best one
correctly needs to know that rounds enter `log` once and in order, and that the
controller's maximum is that of the accepted rounds (`LogInOrder`).
`QuorumBehindResult` is a statement about the end of a run; `QuorumKept`
carries the quorum from the gather phase through the placeholders of the debate
to the opinions kept. The proof has a lemma for each conjunct and a step for
each action in it; `GatheredIsBacked` and `BackedNotEmpty` do the counting.
`RefinementSound` follows from what the rounds have recorded when the next one
starts; `OverrunBounded` needs, for each phase, what the rest of the round may
still spend; `AbortsCapSpending` does the same from the moment of the abort on.
`PromiseKept` is the refinement of `AbstractDeliberation`.
`DeliberationWindsDown` proves the measure: `RoundGoesOn` for the steps within
a round, `RoundIsOver` for those that end it.

**`ProviderCall_proofs`**: `RetryBudgetKept`, for any set of calls. The counter
equals the number of calls in backoff; one lemma per function through which a
failure travels shows that it moves by one exactly when a call enters or leaves
its backoff. `RequestsStayBounded` and `FallbackAsked` rest on an account of
the shared counter (`Paid`: each call of a provider is counted before its first
request, to the provider itself twice and to the fallback once) and of the
rounds in it, of which there are `MaxToolRounds` at most, and assume
`AttemptsAssumption`, that the attempts allowed cover the retries as they do in
the code. `TypeCorrect` adds the registry: the order of use stays a total order
of exactly the registered breakers (`FewerKeys`, `KeyUsed`).
`CallsAlwaysWindDown` is the measure of a call: at most `Lap * (MaxRetries + 1)
+ CallLength` steps from the first. `CallsImplementService` proves the
refinement of `AbstractCalls`: a failure, by whichever function it travels, is
a try of the fallback, the end of the call or no abstract step
(`FailureServes`); a request is allowed because `Paid` holds
(`SendImplements`); an answer follows a request because of `InFlight`.

**`WorkflowExecutor_proofs`**: `InductiveInvariant`, and from it `TypeCorrect`,
`NodesWaitForDependencies`, `SideEffectsOnce`, `PersistedGates`,
`CompletedRunsAreWhole`, `ResultsNeverRevised`, `CycleCheckExact`,
`SkippingIsExact` and `WavesImplementDataflow` (the refinement). The invariant
has two layers. `WaveInv` says that waves are disjoint and follow the edges
(`WavesOrdered`), that execution starts with a complete plan (`PlanComplete`),
what is recorded at each point (`RecordExact`), and which nodes may have begun
(`StatesExact`). From it follows `PredecessorsRecorded`: when a wave runs,
everything its nodes depend on is recorded and will not change. That makes the
second layer, `SkipsDecided`, inductive: a decision to skip or to run stays
right until it is recorded, although other nodes settle meanwhile. The
refinement needs both. `CycleCheckExact` keeps every cycle among the nodes that
still wait for a level; `SkippingIsExact` builds, for a node that runs, a path
of live edges to it, which later steps keep (`PathsStand`). `RunsWindDown`
proves that each node's work only decreases, `OutsideSetsNothingBack` for the
answers and reconfigurations from outside and a lemma for each kind of step of
the run.

**`ConnectorSync_proofs`**: `TypeCorrect`, `RunningJobsAttended`,
`ScheduledRunsKept`, `ExecutionsSole` and `JobsAlwaysSettle`. `ExecutionsSole`
is the invariant behind `JobsSettle`: a job outside `disputed` has one
execution at most, and its row says what that execution expects (`Expected`),
so that what it writes next is a step forward. `ScheduledRunsKept` needs the
strengthening `Backed`: the job inserted for a schedule that has not yet moved
on counts as one more run in hand, so that a crash between the two writes can
only leave a job too many.

**`Ask_proofs`**: `TypeCorrect`, `QuotaKept`, `BillKept`, `AnswersFitKept` and
`AskInvariant`. `CountInv` ties the row to the set of requests it counts, of
which the admitted ones and those whose take-back is due or failed are parts;
`CacheInv` says that every entry of a cache fits its key and every one of the
memo was given to the messages in its. Nothing is assumed of the bodies but
that they have a question, attachments and settings, nor of which attachments
are images.

**`WorkflowRuns_proofs`**: `TypeCorrect`, `RunsInvariant`, `StreamsKeepOrder`,
`StreamsAgreeKept`, `RecentRunsKept`, `EndsStayFinal`. An evicted or replaced
entry is the oldest one, so that counting the registrations since then shows
that `MaxActiveRuns` newer runs came (`RegistryInv`); `ClientInv` ties what a
client was told to the row and the log. `EndsStayFinal` adds `EndInv`: a stream
that was told an end is closed or has sent all of a log that will not grow
(`LogClosed`).

**`SandboxSessions_proofs`**: `TypeCorrect`, `SessionsInvariant`, `LimitHolds`,
`RegistryMatches`, `RunningWatchedKept`. `LimitInv` counts running sessions and
creations under way together; `CallInv` says what each call's earlier awaits
have done, unless a failure or an overlap was noted.

**`BackgroundAgents_proofs`**: `InductiveInvariant`, `CompletedAgentsDone`,
`AgentsStayOver`, for any number of overlapping loops and whichever callbacks
throw. The core is `ReturnedInOrder`: everything before a loop or the
checkpoint has returned. An agent that never had two loops is past its
checkpoint, with what lies before completed (`OneLoop`); this is proved for one
agent (`AgentInv`), the others being left alone.

## 7. What is only model-checked

- Liveness (`Terminates`, `EveryCallEnds`, `EveryRunEnds`, `EveryStreamEnds`,
  `TimerStops`, `RunningEnds`): fairness and ENABLED are out of the prover's
  reach. Of `Terminates`, `EveryCallEnds` and `EveryRunEnds` the larger half is
  proved, the measure that each step lowers; that a step is always possible
  until the end, and that fairness then takes it, is what TLC checks.

Every other property of a passing run is a theorem.

## 8. What is left out

- Of the modelled components: `prepareCouncilMembers`; the cost of answers the
  code discards and of rounds of tool calls; the tools, and that an answer
  streamed by `openai.ts` drops the tool calls in it; retry metrics; what the
  handler of a timed out node still does in the background; the checkpoint of a
  workflow run (written nowhere); cron patterns other than `*/N`; the
  checkpoints of a load; pruning after a slim run (a TODO in the code).
- Of asking: anonymous callers, spending caps, content scanners and guardrails,
  the vector search (off by default), the other reasoning modes, rooms and
  sockets, artifacts, and the delay of the
  unawaited write that puts an answer found in
  PostgreSQL back into Redis.
- Of the workflow routes: editing workflows and versions, triggers.
- Of the sandboxes: other users (the limit is per user and they share nothing
  else), commands and files inside a session, `sessionLifecycle.ts` (nothing
  imports it), and `routes/sandbox-sessions.ts`, a record in Redis without a
  container behind it.
- The larger part of the repository by lines is user interface, schema, thin
  routes and calls of outside services. There is no protocol in it to model, and
  the share of lines the modules stand for is small for that reason.
- `lib/connectorSync/scheduler.ts`: an in-memory scheduler that nothing imports.
- BullMQ queues: the protocol is the library's, the handlers are thin.
- Retrieval, memory and knowledge graph: queries whose correctness is the
  quality of a ranking.
- Connectors, HTTP plumbing, logging and metrics, schema declarations,
  frontend, CLI, desktop, extensions: no protocol state of their own.
- Authentication and access control are not part of this project.

## 9. Plan

Done: the eight components above, with abstract specifications for the
deliberation, the calls and the executor. Worth doing next, in this order:

1. `BuildTasks`: claim, release, steal and complete as read-then-write requests.
   Abstract specification: one owner per task, which an unconditional claim
   (`routes/build-tasks.ts`) does not keep.
2. `HitlGates`: votes against expiry (no route uses the service yet).
3. `Quotas`: the router's counters with several calls in flight.
4. `CouncilCalls`: `Deliberation` over `ProviderCall`, so that the abort signal
   of the one is the one its calls run under, or that of an earlier
   deliberation.
5. `WorkflowRuns` over `WorkflowExecutor`, so that the gates of a run and its
   entry in the registry are one state.

## 10. Running it

    tlc -workers 2 -config MCDeliberation_council.cfg MCDeliberation
    tlapm Deliberation_proofs.tla

`PROJECT.json` lists the runs with their configurations, the faulty variants
with the properties they must break, the lines of code behind each definition,
the hazards of the code with the properties that watch over them, and the
theorems.
