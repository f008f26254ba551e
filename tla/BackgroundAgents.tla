--------------------------- MODULE BackgroundAgents ---------------------------
(***************************************************************************)
(* Long-running agents (services/backgroundAgents.service.ts).  runAgent()  *)
(* goes through the steps of an agent in a loop that awaits one handler     *)
(* after the other; users pause, resume and cancel the agent meanwhile.     *)
(* A pause does not end the loop before its handler returns, so that a      *)
(* resumption may start a second loop next to the first.  An agent may have *)
(* a callback for its progress, onProgress, and that may throw.  (An        *)
(* operator directly above another, same parameters and no mapping to the   *)
(* code, is a faulty variant that the mutation runs put in its place.)      *)
(***************************************************************************)
EXTENDS Integers, FiniteSets

CONSTANTS
  Ids,       \* the agents ever asked for (bound)
  Loops,     \* calls of runAgent() under way at once for one agent (bound)
  Noisy,     \* those of them with an onProgress that may throw
  NumSteps,  \* the steps of an agent
  MaxAgents  \* MAX_BACKGROUND_AGENTS

ASSUME StepsAssumption == NumSteps \in Nat
ASSUME LoopsAssumption == Loops # {}
ASSUME NoisyAssumption == Noisy \subseteq Ids

VARIABLES
  agents,      \* the keys of the map
  status,      \* of each agent object, also of one the map has dropped
  step,        \* the status of each of its steps
  checkpoint,  \* the step that saved last, 0 for none
  at,          \* the step whose handler a loop awaits, 0 when it is over
  returned,    \* history: the steps whose handler has once returned
  overlapped,  \* history: the agents resumed while a loop was under way
  stranded     \* history: those no loop has gone on with since onProgress ended one

history == <<returned, overlapped, stranded>>
vars == <<agents, status, step, checkpoint, at, history>>

Steps == 1..NumSteps
Over  == {"completed", "failed", "cancelled"}

TypeOK ==
  /\ agents \subseteq Ids
  /\ status \in [Ids -> {"new", "running", "paused"} \cup Over]
  /\ step \in [Ids ->
       [Steps -> {"pending", "running", "completed", "failed", "skipped"}]]
  /\ checkpoint \in [Ids -> Steps \cup {0}]
  /\ at \in [Ids -> [Loops -> Steps \cup {0}]]
  /\ returned \in [Ids -> SUBSET Steps]
  /\ overlapped \subseteq Ids /\ stranded \subseteq Noisy

Init ==
  /\ agents = {}
  /\ status = [a \in Ids |-> "new"]
  /\ step = [a \in Ids |-> [i \in Steps |-> "pending"]]
  /\ checkpoint = [a \in Ids |-> 0]
  /\ at = [a \in Ids |-> [l \in Loops |-> 0]]
  /\ returned = [a \in Ids |-> {}]
  /\ overlapped = {} /\ stranded = {}

-------------------------------------------------------------------------------
(* runAgent() *)

\* The loop looks for these two only: it goes on for an agent that another loop
\* has completed or failed.
Goes(i, s) == i \in Steps /\ s \notin {"paused", "cancelled"}

FinishUnchecked(i, s) == IF i > NumSteps THEN "completed" ELSE s

\* What the end of the loop makes of the agent.
Finish(i, s) == IF i > NumSteps /\ s = "running" THEN "completed" ELSE s

\* The head of the loop at step i, for an agent in status s: begin it or stop.
\* onProgress is told of the step before the try block: if it throws, the loop is
\* gone and the status stays (runAgent's caller logs the exception only).
Proceed(a, l, i, s, steps) ==
  /\ step' = [step EXCEPT ![a] =
       IF Goes(i, s) THEN [steps EXCEPT ![i] = "running"] ELSE steps]
  /\ status' = [status EXCEPT ![a] = Finish(i, s)]
  /\ \/ /\ at' = [at EXCEPT ![a][l] = IF Goes(i, s) THEN i ELSE 0]
        /\ stranded' = IF Goes(i, s) THEN stranded \ {a} ELSE stranded
     \/ /\ Goes(i, s) /\ a \in Noisy \cap agents'
        /\ at' = [at EXCEPT ![a][l] = 0] /\ stranded' = stranded \cup {a}

From(a) == IF checkpoint[a] = 0 THEN 1 ELSE checkpoint[a]

RunAgent(a, l) == at[a][l] = 0 /\ Proceed(a, l, From(a), "running", step[a])

\* A handler returns, and the loop goes on at once.
StepReturns(a, l) ==
  /\ at[a][l] # 0 /\ UNCHANGED <<agents, checkpoint, overlapped>>
  /\ Proceed(a, l, at[a][l] + 1, status[a],
             [step[a] EXCEPT ![at[a][l]] = "completed"])
  /\ returned' = [returned EXCEPT ![a] = @ \cup {at[a][l]}]

\* A handler throws, or onProgress when it is told that it returned, in the same
\* try block: the agent has failed, whatever it was before.
StepThrows(a, l) ==
  /\ at[a][l] # 0
  /\ at' = [at EXCEPT ![a][l] = 0]
  /\ step' = [step EXCEPT ![a][at[a][l]] = "failed"]
  /\ status' = [status EXCEPT ![a] = "failed"]
  /\ \/ UNCHANGED returned
     \/ /\ a \in Noisy \cap agents
        /\ returned' = [returned EXCEPT ![a] = @ \cup {at[a][l]}]
  /\ UNCHANGED <<agents, checkpoint, overlapped, stranded>>

SavedNext(a, l) == at[a][l] + 1
Saved(a, l) == at[a][l]

\* ctx.saveCheckpoint(), at any moment of a handler.
SaveCheckpoint(a, l) ==
  /\ at[a][l] # 0 /\ Saved(a, l) \in Steps
  /\ checkpoint' = [checkpoint EXCEPT ![a] = Saved(a, l)]
  /\ UNCHANGED <<agents, status, step, at, history>>

-------------------------------------------------------------------------------
(* What users and timers do *)

\* At the cap an agent that is over makes room; without one createAgent() throws.
\* Which one is dropped is left open (the code drops the oldest).
CreateAgent(a) ==
  /\ status[a] = "new"
  /\ IF Cardinality(agents) < MaxAgents
     THEN agents' = agents \cup {a}
     ELSE \E b \in agents :
            status[b] \in Over /\ agents' = (agents \ {b}) \cup {a}
  /\ \E l \in Loops : RunAgent(a, l)
  /\ UNCHANGED <<checkpoint, returned, overlapped>>

PauseAgent(a) ==
  /\ a \in agents /\ status[a] = "running"
  /\ status' = [status EXCEPT ![a] = "paused"]
  /\ UNCHANGED <<agents, step, checkpoint, at, history>>

NoteOverlap(a) ==
  overlapped' = IF \E l \in Loops : at[a][l] # 0 THEN overlapped \cup {a}
                ELSE overlapped

ResumeSaved(a) ==
  /\ a \in agents /\ status[a] = "paused" /\ NoteOverlap(a)
  /\ UNCHANGED <<agents, checkpoint, returned>>
  /\ IF checkpoint[a] = 0
     THEN status' = [status EXCEPT ![a] = "running"] /\ UNCHANGED <<at, step, stranded>>
     ELSE \E l \in Loops : RunAgent(a, l)

\* From the checkpoint, not from the step the loop was at (which is only logged).
ResumeAgent(a) ==
  /\ a \in agents /\ status[a] = "paused" /\ NoteOverlap(a)
  /\ UNCHANGED <<agents, checkpoint, returned>>
  /\ \E l \in Loops : RunAgent(a, l)

CancelAgent(a) ==
  /\ a \in agents /\ status[a] \in {"running", "paused"}
  /\ status' = [status EXCEPT ![a] = "cancelled"]
  /\ step' = [step EXCEPT ![a] =
       [i \in Steps |-> IF @[i] = "pending" THEN "skipped" ELSE @[i]]]
  /\ UNCHANGED <<agents, checkpoint, at, history>>

\* The two timers, and cleanupAgents(), at an age left open.
Cleanup(a) ==
  /\ a \in agents /\ status[a] \in Over
  /\ agents' = agents \ {a}
  /\ UNCHANGED <<status, step, checkpoint, at, history>>

Settle(a) == \E l \in Loops : StepReturns(a, l) \/ StepThrows(a, l)

Next ==
  \E a \in Ids :
    \/ Settle(a) \/ \E l \in Loops : SaveCheckpoint(a, l)
    \/ CreateAgent(a) \/ PauseAgent(a) \/ ResumeAgent(a)
    \/ CancelAgent(a) \/ Cleanup(a)

Spec == Init /\ [][Next]_vars

\* Handlers return or throw in the end; nobody has to pause, resume or cancel.
FairSpec == Spec /\ \A a \in Ids : WF_vars(Settle(a))
-------------------------------------------------------------------------------
(* Properties *)

\* "completed" is never said of an agent one of whose handlers has not returned,
\* however it was paused and resumed and whichever loop came to the end first
\* (:178 and :230). Unless loops overlapped, its steps all say so as well.
CompletedMeansDone ==
  \A a \in Ids : status[a] = "completed" =>
    /\ returned[a] = Steps
    /\ a \notin overlapped => \A i \in Steps : step[a][i] = "completed"

\* No handler of the agent begins.
NothingBegins(a) == \A l \in Loops : at'[a][l] \in {at[a][l], 0}

\* An agent that is over never runs again, only a late failure revises how it
\* ended (:220); unless loops overlapped, it begins no further step: the loop
\* looks at the status once per step, and cancelAgent() cannot stop a handler.
OverIsOver ==
  [][\A a \in Ids : status[a] \in Over =>
       /\ status'[a] \in {status[a], "failed"}
       /\ a \notin overlapped => NothingBegins(a)]_vars

\* No agent stays "running": when its handlers settle it completes or fails,
\* unless a user pauses or cancels it.  One way leads out of this: an onProgress
\* that throws as it is told of a beginning step (:190) ends the loop but not the
\* status, and such an agent runs on paper until somebody pauses or cancels it.
RunningEnds ==
  \A a \in Ids :
    status[a] = "running" ~> status[a] # "running" \/ a \in stranded

\* --- The inductive invariant behind them.

\* A running agent has a loop, unless its own onProgress has ended the last one.
RunningHasLoop ==
  \A a \in Ids : status[a] = "running" =>
    a \in stranded \/ \E l \in Loops : at[a][l] # 0

\* What lies before a loop or the checkpoint has returned.
ReturnedInOrder ==
  \A a \in Ids :
    /\ \A l \in Loops : 1..at[a][l] - 1 \subseteq returned[a]
    /\ 1..checkpoint[a] - 1 \subseteq returned[a]

\* An agent that was never resumed over a running loop has at most one loop, which
\* is past the checkpoint with everything before it completed; once it failed it
\* has none.
OneLoop ==
  \A a \in Ids \ overlapped :
    /\ \A l, m \in Loops : at[a][l] # 0 /\ at[a][m] # 0 => l = m
    /\ \A l \in Loops : at[a][l] # 0 =>
         /\ checkpoint[a] <= at[a][l]
         /\ \A i \in 1..at[a][l] - 1 : step[a][i] = "completed"
         /\ status[a] \in {"running", "paused", "cancelled"}
    /\ \A i \in 1..checkpoint[a] - 1 : step[a][i] = "completed"

Fresh ==
  \A a \in Ids : status[a] = "new" =>
    checkpoint[a] = 0 /\ a \notin overlapped /\ \A l \in Loops : at[a][l] = 0

IInv ==
  /\ TypeOK /\ RunningHasLoop /\ ReturnedInOrder /\ OneLoop /\ Fresh
  /\ CompletedMeansDone
===============================================================================
