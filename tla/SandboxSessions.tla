--------------------------- MODULE SandboxSessions ---------------------------
(***************************************************************************)
(* The sandbox sessions of one user (sandbox/sessionManager.ts): creation,  *)
(* stop, resume and destruction, each a chain of awaited calls to Docker,  *)
(* next to the timer that stops idle and expired sessions.  The registry   *)
(* is a map in memory; containers and volumes are Docker's and outlive it. *)
(* A call to Docker takes effect or not, and is answered or fails.  (An    *)
(* operator directly above another, same parameters and no mapping to the  *)
(* code, is a faulty variant that the mutation runs put in its place.)     *)
(***************************************************************************)
EXTENDS Integers, FiniteSets

CONSTANTS
  Sessions,     \* sessions ever asked for (bound)
  Callers,      \* calls under way at once, of clients and of the timer (bound)
  MaxSessions,  \* MAX_SESSIONS_PER_USER
  MaxResumes,   \* resumptions (bound)
  MaxFaults,    \* failures of Docker, deaths of containers, faults (bound)
  NoSession     \* on what a caller acts that does nothing

ASSUME SessionsAssumption == IsFiniteSet(Sessions) /\ NoSession \notin Sessions
ASSUME BoundsAssumption ==
  MaxSessions \in Nat \ {0} /\ MaxResumes \in Nat /\ MaxFaults \in Nat

VARIABLES
  creation,           \* how far createSession is
  sessions, status,   \* the registry: its keys, and the status of each object
  volume, container,  \* what Docker keeps of each session
  at, on,             \* the await each caller is at, and its session
  faults,             \* faults so far
  unchecked,          \* history: starts that no check of the limit stood before
  raced,              \* ... sessions on which a stop and a resume overlapped
  refused,            \* ... whose container runs though a call to stop or start failed
  abandoned           \* ... that a failure or a crash has left to Docker

registry == <<sessions, status>>
docker   == <<volume, container>>
calls    == <<at, on>>
history  == <<unchecked, raced, refused, abandoned>>
vars == <<creation, registry, docker, calls, faults, history>>

Creating == {"admitted", "bound", "made", "booted"}
Stops    == {"stop", "stopped"}
Resumes  == {"start", "started"}
Destroys == {"halt", "remove", "unbind", "forget"}

TypeOK ==
  /\ creation \in [Sessions -> {"none", "failed", "over"} \cup Creating]
  /\ sessions \subseteq Sessions
  /\ status \in [Sessions -> {"none", "running", "stopped", "destroyed"}]
  /\ volume \in [Sessions -> BOOLEAN]
  /\ container \in [Sessions -> {"none", "exited", "running"}]
  /\ at \in [Callers -> {"idle"} \cup Stops \cup Resumes \cup Destroys]
  /\ on \in [Callers -> Sessions \cup {NoSession}]
  /\ faults \in Nat /\ unchecked \in Nat
  /\ raced \subseteq Sessions /\ refused \subseteq Sessions /\ abandoned \subseteq Sessions

Init ==
  /\ creation = [s \in Sessions |-> "none"]
  /\ sessions = {} /\ status = [s \in Sessions |-> "none"]
  /\ volume = [s \in Sessions |-> FALSE]
  /\ container = [s \in Sessions |-> "none"]
  /\ at = [c \in Callers |-> "idle"] /\ on = [c \in Callers |-> NoSession]
  /\ faults = 0 /\ unchecked = 0
  /\ raced = {} /\ refused = {} /\ abandoned = {}

-------------------------------------------------------------------------------
(* createSession *)

Running   == {s \in sessions : status[s] = "running"}
UnderWay  == {s \in Sessions : creation[s] \in Creating}
Becomes(s, state) == container' = [container EXCEPT ![s] = state]
Made(s, step) == creation' = [creation EXCEPT ![s] = step]

FullOffByOne == Cardinality(Running) > MaxSessions
Full         == Cardinality(Running) >= MaxSessions

\* The limit counts registered sessions: those under way are not seen.
Admit(s) ==
  /\ creation[s] = "none" /\ ~ Full /\ Made(s, "admitted")
  /\ unchecked' = unchecked + (IF UnderWay = {} THEN 0 ELSE 1)
  /\ UNCHANGED <<registry, docker, calls, faults, raced, refused, abandoned>>

Fault == faults < MaxFaults /\ faults' = faults + 1

\* An exception ends a creation; what Docker has made so far stays.
Fails(s) == Fault /\ Made(s, "failed") /\ abandoned' = abandoned \cup {s}

CreateVolume(s) ==
  /\ creation[s] = "admitted"
  /\ \/ /\ Made(s, "bound") /\ volume' = [volume EXCEPT ![s] = TRUE]
        /\ UNCHANGED <<faults, abandoned>>
     \/ \E made \in BOOLEAN : Fails(s) /\ volume' = [volume EXCEPT ![s] = made]
  /\ UNCHANGED <<registry, container, calls, unchecked, raced, refused>>

CreateContainer(s) ==
  /\ creation[s] = "bound"
  /\ \/ Made(s, "made") /\ Becomes(s, "exited") /\ UNCHANGED <<faults, abandoned>>
     \/ \E made \in {"none", "exited"} : Fails(s) /\ Becomes(s, made)
  /\ UNCHANGED <<registry, volume, calls, unchecked, raced, refused>>

StartContainer(s) ==
  /\ creation[s] = "made"
  /\ \/ Made(s, "booted") /\ Becomes(s, "running") /\ UNCHANGED <<faults, abandoned>>
     \/ \E made \in {"exited", "running"} : Fails(s) /\ Becomes(s, made)
  /\ UNCHANGED <<registry, volume, calls, unchecked, raced, refused>>

\* The set-up of git inside the container can fail; then there is no session.
Register(s) ==
  /\ creation[s] = "booted"
  /\ \/ /\ Made(s, "over") /\ sessions' = sessions \cup {s}
        /\ status' = [status EXCEPT ![s] = "running"] /\ UNCHANGED <<faults, abandoned>>
     \/ Fails(s) /\ UNCHANGED registry
  /\ UNCHANGED <<docker, calls, unchecked, raced, refused>>

-------------------------------------------------------------------------------
(* The awaits of a call *)

Await(c, step) == at' = [at EXCEPT ![c] = step] /\ UNCHANGED on
Return(c)      == at' = [at EXCEPT ![c] = "idle"] /\ on' = [on EXCEPT ![c] = NoSession]
Begin(c, s, step) ==
  /\ at[c] = "idle" /\ s \in sessions
  /\ at' = [at EXCEPT ![c] = step] /\ on' = [on EXCEPT ![c] = s]

Busy(s, steps) == \E c \in Callers : on[c] = s /\ at[c] \in steps

\* A call that has nothing to do fails, and any call may, before its effect or
\* after it.
NothingToDo(s, goal) == container[s] \in {"none", goal}
DockerFails(s, goal) ==
  /\ IF NothingToDo(s, goal) THEN UNCHANGED <<container, faults>>
     ELSE Fault /\ \E state \in {container[s], goal} : Becomes(s, state)
  /\ refused' = IF container'[s] = "running" THEN refused \cup {s} ELSE refused

(* stopSession *)

FirstOfStopUnawaited == "stopped"
FirstOfStop          == "stop"

BeginStop(c, s) ==
  /\ Begin(c, s, FirstOfStop)
  /\ raced' = IF Busy(s, Resumes) THEN raced \cup {s} ELSE raced
  /\ UNCHANGED <<creation, registry, docker, faults, unchecked, refused, abandoned>>

AfterFailureThrown == "idle"
\* A failure is taken for "Container may already be stopped".
AfterFailure       == "stopped"

DockerStops(c) ==
  /\ at[c] = "stop"
  /\ \/ /\ container[on[c]] = "running" /\ Becomes(on[c], "exited")
        /\ Await(c, "stopped") /\ UNCHANGED <<faults, refused>>
     \/ DockerFails(on[c], "exited") /\ Await(c, AfterFailure)
  /\ UNCHANGED <<creation, registry, volume, unchecked, raced, abandoned>>

Stopped(c) ==
  /\ at[c] = "stopped" /\ Return(c)
  /\ status' = [status EXCEPT ![on[c]] = "stopped"]
  /\ UNCHANGED <<creation, sessions, docker, faults, history>>

\* Idle for half an hour, or four hours old: every session is in time.
Overdue(s)   == s \in sessions /\ status[s] = "running"
TimerStop(s) == Overdue(s) /\ \E c \in Callers : BeginStop(c, s)

(* resumeSession *)

BeginResume(c, s) ==
  /\ status[s] = "stopped" /\ unchecked < MaxResumes /\ Begin(c, s, "start")
  /\ raced' = IF Busy(s, Stops) THEN raced \cup {s} ELSE raced
  /\ UNCHANGED <<creation, registry, docker, faults, unchecked, refused, abandoned>>

\* No check of the limit here.
DockerStarts(c) ==
  /\ at[c] = "start"
  /\ \/ /\ container[on[c]] # "none" /\ Becomes(on[c], "running")
        /\ Await(c, "started") /\ UNCHANGED <<faults, refused>>
     \/ DockerFails(on[c], "running") /\ Return(c)
  /\ UNCHANGED <<creation, registry, volume, unchecked, raced, abandoned>>

\* The object may have left the registry in the meantime.
Resumed(c) ==
  /\ at[c] = "started" /\ Return(c)
  /\ status' = [status EXCEPT ![on[c]] = "running"] /\ unchecked' = unchecked + 1
  /\ UNCHANGED <<creation, sessions, docker, faults, raced, refused, abandoned>>

-------------------------------------------------------------------------------
(* destroySession *)

BeginDestroy(c, s) ==
  /\ Begin(c, s, "halt")
  /\ UNCHANGED <<creation, registry, docker, faults, history>>

Halt(c) ==
  /\ at[c] = "halt" /\ Await(c, "remove")
  /\ \/ container[on[c]] = "running" /\ Becomes(on[c], "exited") /\ UNCHANGED faults
     \/ NothingToDo(on[c], "exited") /\ UNCHANGED <<container, faults>>
     \/ Fault /\ UNCHANGED container
  /\ UNCHANGED <<creation, registry, volume, history>>

\* The removal is forced; a failure is only logged.
RemoveContainer(c) ==
  /\ at[c] = "remove" /\ Await(c, "unbind")
  /\ \/ Becomes(on[c], "none") /\ UNCHANGED <<faults, abandoned>>
     \/ Fault /\ UNCHANGED container /\ abandoned' = abandoned \cup {on[c]}
  /\ UNCHANGED <<creation, registry, volume, unchecked, raced, refused>>

\* Docker keeps a volume that a container uses, and may fail.
RemoveVolume(c) ==
  /\ at[c] = "unbind" /\ Await(c, "forget")
  /\ \/ /\ container[on[c]] = "none" /\ volume' = [volume EXCEPT ![on[c]] = FALSE]
        /\ UNCHANGED <<faults, abandoned>>
     \/ /\ (IF container[on[c]] = "none" THEN Fault ELSE UNCHANGED faults)
        /\ UNCHANGED volume /\ abandoned' = abandoned \cup {on[c]}
  /\ UNCHANGED <<creation, registry, container, unchecked, raced, refused>>

ForgottenToo(c) == sessions
Remaining(c)    == sessions \ {on[c]}

Forget(c) ==
  /\ at[c] = "forget" /\ Return(c)
  /\ status' = [status EXCEPT ![on[c]] = "destroyed"] /\ sessions' = Remaining(c)
  /\ UNCHANGED <<creation, docker, faults, history>>

-------------------------------------------------------------------------------
(* The environment *)

\* A container ends by itself, out of memory for example.
ContainerDies(s) ==
  /\ container[s] = "running" /\ Becomes(s, "exited") /\ Fault
  /\ UNCHANGED <<creation, registry, volume, calls, history>>

\* The process ends, and the registry with it.
Crash ==
  /\ Fault
  /\ abandoned' = abandoned \cup sessions \cup UnderWay
  /\ creation' = [s \in Sessions |-> IF s \in UnderWay THEN "failed" ELSE creation[s]]
  /\ sessions' = {} /\ at' = [c \in Callers |-> "idle"]
  /\ on' = [c \in Callers |-> NoSession]
  /\ UNCHANGED <<status, docker, unchecked, raced, refused>>

\* An awaited call comes back.
Continue(c) ==
  \/ DockerStops(c)
  \/ Stopped(c)
  \/ DockerStarts(c)
  \/ Resumed(c)
  \/ Halt(c)
  \/ RemoveContainer(c)
  \/ RemoveVolume(c)
  \/ Forget(c)

Next ==
  \/ \E s \in Sessions :
       \/ Admit(s)
       \/ CreateVolume(s)
       \/ CreateContainer(s)
       \/ StartContainer(s)
       \/ Register(s)
       \/ TimerStop(s)
       \/ ContainerDies(s)
       \/ \E c \in Callers :
            \/ BeginStop(c, s)
            \/ BeginResume(c, s)
            \/ BeginDestroy(c, s)
  \/ \E c \in Callers : Continue(c)
  \/ Crash

Spec == Init /\ [][Next]_vars

\* The timer fires, and calls to Docker are answered or fail.  (Strong fairness
\* of the timer: only the bound on calls can keep it from its call.)
FairSpec == /\ Spec
            /\ \A s \in Sessions : SF_vars(TimerStop(s))
            /\ \A c \in Callers : WF_vars(Continue(c))

-------------------------------------------------------------------------------
(* Properties *)

\* A user's running sessions pass the limit only by starts that it did not see:
\* creations admitted while another was under way, and resumptions, one each.
LimitKept == Cardinality(Running) <= MaxSessions + unchecked

\* However stops, resumptions and destructions overlap, what Docker keeps is
\* that of a registered session or of one under way, unless a failure or a crash
\* has left it behind; and a registered session has its container and its volume
\* unless its destruction has come that far.
RegistryMatchesDocker ==
  \A s \in Sessions :
    /\ volume[s] \/ container[s] # "none" => s \in sessions \cup UnderWay \cup abandoned
    /\ s \in sessions /\ container[s] = "none" => Busy(s, {"unbind", "forget"})
    /\ s \in sessions /\ ~ volume[s] => Busy(s, {"forget"})

\* No container of a registered session runs while its status says it is stopped,
\* where no timer would ever stop it: only until a resumption returns, after one
\* overlapped with a stop, or after a call that Docker failed.
RunningWatched ==
  \A s \in sessions :
    container[s] = "running" /\ status[s] = "stopped" =>
      Busy(s, {"started"}) \/ s \in raced \cup refused

\* The timer gets every session stopped, also when Docker keeps failing.
TimerStops == \A s \in Sessions : Overdue(s) ~> ~ Overdue(s)

-------------------------------------------------------------------------------
(* The inductive invariant *)

\* A session is registered when its creation is over, and only then called upon.
CreationInv ==
  \A s \in Sessions :
    /\ creation[s] \in {"none", "admitted"} => ~ volume[s]
    /\ creation[s] \in {"none", "admitted", "bound"} => container[s] = "none"
    /\ creation[s] \in {"bound", "made", "booted"} => volume[s]
    /\ creation[s] \in {"made", "booted"} => container[s] # "none"
    /\ creation[s] = "failed" => s \in abandoned
    /\ s \in sessions => creation[s] = "over" /\ status[s] \in {"running", "stopped"}

\* Where each caller is, and what the removals before it have done.
CallInv ==
  \A c \in Callers :
    /\ at[c] = "idle" <=> on[c] = NoSession
    /\ on[c] # NoSession => creation[on[c]] = "over"
    /\ at[c] = "unbind" => container[on[c]] = "none" \/ on[c] \in abandoned
    /\ at[c] = "forget" =>
         on[c] \in abandoned \/ (container[on[c]] = "none" /\ ~ volume[on[c]])
    /\ at[c] = "stopped" /\ container[on[c]] = "running" => on[c] \in raced \cup refused

\* A stop and a resumption are on their way together only if they overlapped.
RaceInv ==
  \A s \in Sessions : Busy(s, Stops) /\ Busy(s, Resumes) => s \in raced

LimitInv == Cardinality(Running \cup UnderWay) <= MaxSessions + unchecked

IInv == /\ TypeOK /\ CreationInv /\ CallInv /\ RaceInv /\ LimitInv
        /\ RegistryMatchesDocker /\ RunningWatched
===============================================================================
