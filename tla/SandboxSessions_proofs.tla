------------------------ MODULE SandboxSessions_proofs ------------------------
(***************************************************************************)
(* What SandboxSessions keeps for any number of sessions, overlapping      *)
(* calls and faults: types, the limit, the agreement of the registry with  *)
(* Docker, and the watch over running containers.                          *)
(***************************************************************************)
EXTENDS SandboxSessions, FiniteSetTheorems, TLAPS

-------------------------------------------------------------------------------
(* Types *)

States == {"none", "exited", "running"}
Steps  == {"idle"} \cup Stops \cup Resumes \cup Destroys

\* The steps of a creation keep the types.
LEMMA CreationTypes ==
  ASSUME TypeOK, NEW s \in Sessions,
         \/ Admit(s) \/ CreateVolume(s) \/ CreateContainer(s) \/ StartContainer(s) \/ Register(s)
  PROVE  TypeOK'
<1> USE DEF registry, docker, calls, history, Fails, Fault, Made, Becomes
<1>1. \E step \in {"admitted", "bound", "made", "booted", "over", "failed"} :
        creation' = [creation EXCEPT ![s] = step]
  BY DEF Admit, CreateVolume, CreateContainer, StartContainer, Register
<1>2. creation' \in [Sessions -> {"none", "failed", "over"} \cup Creating]
  BY <1>1 DEF TypeOK, Creating
<1>3. volume' \in [Sessions -> BOOLEAN]
  <2>1. \E b \in BOOLEAN : volume' = [volume EXCEPT ![s] = b] \/ volume' = volume
    BY DEF Admit, CreateVolume, CreateContainer, StartContainer, Register
  <2> QED BY <2>1 DEF TypeOK
<1>4. container' \in [Sessions -> States]
  <2>1. \E x \in States : container' = [container EXCEPT ![s] = x] \/ container' = container
    BY DEF Admit, CreateVolume, CreateContainer, StartContainer, Register, States
  <2> QED BY <2>1 DEF TypeOK, States
<1>5. /\ sessions' \in {sessions, sessions \cup {s}}
      /\ status' = [status EXCEPT ![s] = "running"] \/ status' = status
      /\ abandoned' \in {abandoned, abandoned \cup {s}}
      /\ faults' \in {faults, faults + 1} /\ unchecked' \in {unchecked, unchecked + 0, unchecked + 1}
      /\ UNCHANGED <<at, on, raced, refused>>
  BY DEF Admit, CreateVolume, CreateContainer, StartContainer, Register
<1>6. status' \in [Sessions -> {"none", "running", "stopped", "destroyed"}]
  BY <1>5 DEF TypeOK
<1> QED BY <1>2, <1>3, <1>4, <1>5, <1>6 DEF TypeOK, States

\* The calls and their awaits keep the types.
LEMMA BeginTypes ==
  ASSUME TypeOK, NEW c \in Callers, NEW s \in Sessions,
         BeginStop(c, s) \/ BeginResume(c, s) \/ BeginDestroy(c, s)
  PROVE  TypeOK'
<1> USE DEF registry, docker, calls, history
<1>1. \E step \in {"stop", "start", "halt"} : Begin(c, s, step)
  BY DEF BeginStop, BeginResume, BeginDestroy, FirstOfStop
<1>2. at' \in [Callers -> Steps] /\ on' \in [Callers -> Sessions \cup {NoSession}]
  BY <1>1 DEF Begin, TypeOK, Steps, Stops, Resumes, Destroys
<1>3. /\ raced' \in {raced, raced \cup {s}}
      /\ UNCHANGED <<creation, registry, docker, faults, unchecked, refused, abandoned>>
  BY DEF BeginStop, BeginResume, BeginDestroy
<1> QED BY <1>2, <1>3 DEF TypeOK, Steps

LEMMA ContinueTypes ==
  ASSUME TypeOK, CallInv, NEW c \in Callers, Continue(c)
  PROVE  TypeOK'
<1> USE DEF registry, docker, calls, history, Fault, Becomes
<1> DEFINE s == on[c]
<1>1. s \in Sessions /\ at[c] # "idle"
  BY DEF Continue, DockerStops, Stopped, DockerStarts, Resumed, Halt, RemoveContainer,
         RemoveVolume, Forget, CallInv, TypeOK
<1>2. (\E step \in Steps : Await(c, step)) \/ Return(c)
  BY DEF Continue, DockerStops, Stopped, DockerStarts, Resumed, Halt, RemoveContainer,
         RemoveVolume, Forget, AfterFailure, Steps, Stops, Resumes, Destroys
<1>3. at' \in [Callers -> Steps] /\ on' \in [Callers -> Sessions \cup {NoSession}]
  <2>1. "idle" \in Steps
    BY DEF Steps
  <2>2. \E step \in Steps : at' = [at EXCEPT ![c] = step]
    BY <1>2, <2>1 DEF Await, Return
  <2>3. on' = on \/ on' = [on EXCEPT ![c] = NoSession]
    BY <1>2 DEF Await, Return
  <2> QED BY <2>2, <2>3 DEF TypeOK, Steps
<1>4. container' \in [Sessions -> States]
  <2>1. container[s] \in States
    BY <1>1 DEF TypeOK, States
  <2>2. \E x \in States : container' = [container EXCEPT ![s] = x] \/ container' = container
    BY <2>1 DEF Continue, DockerStops, Stopped, DockerStarts, Resumed, Halt, RemoveContainer,
                RemoveVolume, Forget, DockerFails, States
  <2> QED BY <2>2 DEF TypeOK, States
<1>5. /\ status' = status \/ (\E x \in {"running", "stopped", "destroyed"} :
                                status' = [status EXCEPT ![s] = x])
      /\ volume' = volume \/ volume' = [volume EXCEPT ![s] = FALSE]
      /\ sessions' \subseteq sessions
      /\ abandoned' \in {abandoned, abandoned \cup {s}} /\ refused' \in {refused, refused \cup {s}}
      /\ faults' \in {faults, faults + 1} /\ unchecked' \in {unchecked, unchecked + 1}
      /\ UNCHANGED <<creation, raced>>
  BY DEF Continue, DockerStops, Stopped, DockerStarts, Resumed, Halt, RemoveContainer,
         RemoveVolume, Forget, DockerFails, Remaining
<1>6. status' \in [Sessions -> {"none", "running", "stopped", "destroyed"}]
  BY <1>5 DEF TypeOK
<1>7. volume' \in [Sessions -> BOOLEAN]
  BY <1>5 DEF TypeOK
<1> QED BY <1>1, <1>3, <1>4, <1>5, <1>6, <1>7 DEF TypeOK, States, Steps

LEMMA TypeStep ==
  ASSUME TypeOK, CallInv, [Next]_vars
  PROVE  TypeOK'
<1> USE DEF registry, docker, calls, history
<1>1. ASSUME NEW s \in Sessions, ContainerDies(s)
      PROVE  TypeOK'
  BY <1>1 DEF ContainerDies, Becomes, Fault, TypeOK
<1>2. CASE Crash
  <2>1. creation' \in [Sessions -> {"none", "failed", "over"} \cup Creating]
    BY <1>2 DEF Crash, TypeOK
  <2>2. at' \in [Callers -> Steps] /\ on' \in [Callers -> Sessions \cup {NoSession}]
    BY <1>2 DEF Crash, Steps
  <2>3. /\ sessions' = {} /\ abandoned' \subseteq Sessions /\ faults' \in Nat
        /\ UNCHANGED <<status, docker, unchecked, raced, refused>>
    BY <1>2 DEF Crash, Fault, UnderWay, TypeOK
  <2> QED BY <2>1, <2>2, <2>3 DEF TypeOK, Steps
<1>3. CASE UNCHANGED vars
  BY <1>3 DEF vars, TypeOK
<1> QED BY <1>1, <1>2, <1>3, CreationTypes, BeginTypes, ContinueTypes DEF Next, TimerStop

-------------------------------------------------------------------------------
(* What a step leaves alone *)

LEMMA NoSessionIsNone == NoSession \notin Sessions
BY SessionsAssumption

\* The parts of the state that belong to one session.
Same(t) ==
  /\ creation'[t] = creation[t] /\ status'[t] = status[t]
  /\ volume'[t] = volume[t] /\ container'[t] = container[t]
  /\ t \in sessions' <=> t \in sessions

\* Excuses are never taken back.
Grows == raced \subseteq raced' /\ refused \subseteq refused' /\ abandoned \subseteq abandoned'

Create(s) ==
  \/ Admit(s) \/ CreateVolume(s) \/ CreateContainer(s) \/ StartContainer(s) \/ Register(s)

LEMMA CreateFrame ==
  ASSUME TypeOK, NEW s \in Sessions, Create(s)
  PROVE  /\ \A t \in Sessions \ {s} : Same(t)
         /\ UNCHANGED <<at, on, raced, refused>> /\ Grows
<1> USE DEF registry, docker, calls, history, Fails, Fault, Made, Becomes
<1>1. \E step \in {"admitted", "bound", "made", "booted", "over", "failed"} :
        creation' = [creation EXCEPT ![s] = step]
  BY DEF Create, Admit, CreateVolume, CreateContainer, StartContainer, Register
<1>2. \E b \in BOOLEAN : volume' = [volume EXCEPT ![s] = b] \/ volume' = volume
  BY DEF Create, Admit, CreateVolume, CreateContainer, StartContainer, Register
<1>3. \E x \in States : container' = [container EXCEPT ![s] = x] \/ container' = container
  BY DEF Create, Admit, CreateVolume, CreateContainer, StartContainer, Register, States
<1>4. /\ sessions' \in {sessions, sessions \cup {s}}
      /\ status' = [status EXCEPT ![s] = "running"] \/ status' = status
      /\ UNCHANGED <<at, on, raced, refused>> /\ abandoned \subseteq abandoned'
  BY DEF Create, Admit, CreateVolume, CreateContainer, StartContainer, Register
<1>5. ASSUME NEW t \in Sessions \ {s}
      PROVE  Same(t)
  <2>1. creation'[t] = creation[t]
    BY <1>1 DEF TypeOK
  <2>2. volume'[t] = volume[t]
    BY <1>2 DEF TypeOK
  <2>3. container'[t] = container[t]
    BY <1>3 DEF TypeOK
  <2>4. status'[t] = status[t] /\ (t \in sessions' <=> t \in sessions)
    BY <1>4 DEF TypeOK
  <2> QED BY <2>1, <2>2, <2>3, <2>4 DEF Same
<1> QED BY <1>4, <1>5 DEF Grows

LEMMA ContinueFrame ==
  ASSUME TypeOK, CallInv, NEW c \in Callers, Continue(c)
  PROVE  /\ on[c] \in Sessions /\ creation' = creation
         /\ \A t \in Sessions \ {on[c]} : Same(t)
         /\ \A d \in Callers \ {c} : at'[d] = at[d] /\ on'[d] = on[d]
         /\ on'[c] \in {on[c], NoSession}
         /\ raced' = raced /\ Grows
<1> USE DEF registry, docker, calls, history, Fault, Becomes, Await, Return
<1> DEFINE s == on[c]
<1>1. s \in Sessions
  BY DEF Continue, DockerStops, Stopped, DockerStarts, Resumed, Halt, RemoveContainer,
         RemoveVolume, Forget, CallInv, TypeOK
<1>2. \E x \in {"running", "stopped", "destroyed"} :
        status' = [status EXCEPT ![s] = x] \/ status' = status
  BY DEF Continue, DockerStops, Stopped, DockerStarts, Resumed, Halt, RemoveContainer,
         RemoveVolume, Forget
<1>3. \E x \in States : container' = [container EXCEPT ![s] = x] \/ container' = container
  <2>1. container[s] \in States
    BY <1>1 DEF TypeOK, States
  <2> QED BY <2>1 DEF Continue, DockerStops, Stopped, DockerStarts, Resumed, Halt,
                 RemoveContainer, RemoveVolume, Forget, DockerFails, States
<1>4. /\ volume' = [volume EXCEPT ![s] = FALSE] \/ volume' = volume
      /\ sessions' \in {sessions, sessions \ {s}}
      /\ creation' = creation
  BY DEF Continue, DockerStops, Stopped, DockerStarts, Resumed, Halt, RemoveContainer,
         RemoveVolume, Forget, Remaining
<1>5. raced' = raced /\ Grows
  BY DEF Continue, DockerStops, Stopped, DockerStarts, Resumed, Halt, RemoveContainer,
         RemoveVolume, Forget, DockerFails, Grows
<1>6. \E step \in Steps : at' = [at EXCEPT ![c] = step]
  BY DEF Continue, DockerStops, Stopped, DockerStarts, Resumed, Halt, RemoveContainer,
         RemoveVolume, Forget, AfterFailure, Steps, Stops, Resumes, Destroys
<1>7. on' = on \/ on' = [on EXCEPT ![c] = NoSession]
  BY DEF Continue, DockerStops, Stopped, DockerStarts, Resumed, Halt, RemoveContainer,
         RemoveVolume, Forget
<1>8. ASSUME NEW t \in Sessions \ {s}
      PROVE  Same(t)
  <2>1. status'[t] = status[t]
    BY <1>2 DEF TypeOK
  <2>2. container'[t] = container[t]
    BY <1>3 DEF TypeOK
  <2>3. volume'[t] = volume[t] /\ (t \in sessions' <=> t \in sessions) /\ creation' = creation
    BY <1>4 DEF TypeOK
  <2> QED BY <2>1, <2>2, <2>3 DEF Same
<1>9. ASSUME NEW d \in Callers \ {c}
      PROVE  at'[d] = at[d] /\ on'[d] = on[d]
  <2>1. at'[d] = at[d]
    BY <1>6 DEF TypeOK
  <2> QED BY <2>1, <1>7 DEF TypeOK
<1>10. on'[c] \in {s, NoSession}
  BY <1>7 DEF TypeOK
<1> QED BY <1>1, <1>4, <1>5, <1>8, <1>9, <1>10

\* What a call that comes back does to its session, case by case.
LEMMA Effect ==
  ASSUME TypeOK, CallInv, NEW c \in Callers, Continue(c), NEW s, s = on[c]
  PROVE  \/ /\ at[c] = "stop" /\ at'[c] = "stopped" /\ on'[c] = s
            /\ container[s] = "none" => container'[s] = "none"
            /\ container[s] # "none" => container'[s] # "none"
            /\ container'[s] = "running" => s \in refused'
            /\ UNCHANGED <<sessions, status, volume, unchecked>>
         \/ /\ at[c] = "stopped" /\ at'[c] = "idle" /\ on'[c] = NoSession
            /\ status'[s] = "stopped"
            /\ UNCHANGED <<sessions, container, volume, unchecked>>
         \/ /\ at[c] = "start" /\ container[s] # "none" /\ container'[s] = "running"
            /\ at'[c] = "started" /\ on'[c] = s
            /\ UNCHANGED <<sessions, status, volume, unchecked>>
         \/ /\ at[c] = "start" /\ at'[c] = "idle" /\ on'[c] = NoSession
            /\ container[s] = "none" => container'[s] = "none"
            /\ container[s] # "none" => container'[s] # "none"
            /\ container'[s] = "running" => s \in refused'
            /\ UNCHANGED <<sessions, status, volume, unchecked>>
         \/ /\ at[c] = "started" /\ at'[c] = "idle" /\ on'[c] = NoSession
            /\ status'[s] = "running" /\ unchecked' = unchecked + 1
            /\ UNCHANGED <<sessions, container, volume>>
         \/ /\ at[c] = "halt" /\ at'[c] = "remove" /\ on'[c] = s
            /\ \/ container'[s] = container[s]
               \/ container[s] = "running" /\ container'[s] = "exited"
            /\ UNCHANGED <<sessions, status, volume, unchecked>>
         \/ /\ at[c] = "remove" /\ at'[c] = "unbind" /\ on'[c] = s
            /\ \/ container'[s] = "none"
               \/ container'[s] = container[s] /\ s \in abandoned'
            /\ UNCHANGED <<sessions, status, volume, unchecked>>
         \/ /\ at[c] = "unbind" /\ at'[c] = "forget" /\ on'[c] = s
            /\ \/ container[s] = "none" /\ volume'[s] = FALSE
               \/ volume'[s] = volume[s] /\ s \in abandoned'
            /\ UNCHANGED <<sessions, status, container, unchecked>>
         \/ /\ at[c] = "forget" /\ at'[c] = "idle" /\ on'[c] = NoSession
            /\ sessions' = sessions \ {s}
            /\ UNCHANGED <<container, volume, unchecked>>
<1> USE DEF registry, docker, calls, history, Fault, Becomes, Await, Return
<1>0. s \in Sessions
  BY ContinueFrame
<1>1. CASE DockerStops(c)
  BY <1>0, <1>1 DEF DockerStops, DockerFails, NothingToDo, AfterFailure, TypeOK
<1>2. CASE Stopped(c)
  BY <1>0, <1>2 DEF Stopped, TypeOK
<1>3. CASE DockerStarts(c)
  BY <1>0, <1>3 DEF DockerStarts, DockerFails, NothingToDo, TypeOK
<1>4. CASE Resumed(c)
  BY <1>0, <1>4 DEF Resumed, TypeOK
<1>5. CASE Halt(c)
  <2>1. at[c] = "halt" /\ at'[c] = "remove" /\ on'[c] = s
    BY <1>0, <1>5 DEF Halt, TypeOK
  <2>2. \/ container'[s] = container[s]
        \/ container[s] = "running" /\ container'[s] = "exited"
    <3>1. \/ container' = container
          \/ container[s] = "running" /\ container' = [container EXCEPT ![s] = "exited"]
      BY <1>5 DEF Halt
    <3> QED BY <1>0, <3>1 DEF TypeOK
  <2>3. UNCHANGED <<sessions, status, volume, unchecked>>
    BY <1>5 DEF Halt
  <2> QED BY <2>1, <2>2, <2>3
<1>6. CASE RemoveContainer(c)
  BY <1>0, <1>6 DEF RemoveContainer, TypeOK
<1>7. CASE RemoveVolume(c)
  BY <1>0, <1>7 DEF RemoveVolume, TypeOK
<1>8. CASE Forget(c)
  BY <1>0, <1>8 DEF Forget, Remaining, TypeOK
<1> QED BY <1>1, <1>2, <1>3, <1>4, <1>5, <1>6, <1>7, <1>8 DEF Continue

\* The calls that begin, the death of a container, and the crash.
Starting(c, s) == BeginStop(c, s) \/ BeginResume(c, s) \/ BeginDestroy(c, s)

LEMMA StartingFrame ==
  ASSUME TypeOK, NEW c \in Callers, NEW s \in Sessions, Starting(c, s)
  PROVE  /\ at[c] = "idle" /\ s \in sessions /\ on'[c] = s
         /\ at'[c] \in {"stop", "start", "halt"}
         /\ \A d \in Callers \ {c} : at'[d] = at[d] /\ on'[d] = on[d]
         /\ UNCHANGED <<creation, registry, docker, unchecked, refused, abandoned>>
         /\ raced \subseteq raced'
<1>1. \E step \in {"stop", "start", "halt"} : Begin(c, s, step)
  BY DEF Starting, BeginStop, BeginResume, BeginDestroy, FirstOfStop
<1>2. UNCHANGED <<creation, registry, docker, unchecked, refused, abandoned>>
      /\ raced \subseteq raced'
  BY DEF Starting, BeginStop, BeginResume, BeginDestroy, history
<1> QED BY <1>1, <1>2 DEF Begin, TypeOK

LEMMA DeathFrame ==
  ASSUME TypeOK, NEW s \in Sessions, ContainerDies(s)
  PROVE  /\ container[s] = "running" /\ container'[s] = "exited"
         /\ \A t \in Sessions \ {s} : container'[t] = container[t]
         /\ UNCHANGED <<creation, registry, volume, calls, history>>
BY DEF ContainerDies, Becomes, TypeOK

LEMMA CrashFrame ==
  ASSUME TypeOK, Crash
  PROVE  /\ sessions' = {} /\ UNCHANGED <<status, docker, unchecked, raced, refused>>
         /\ abandoned' = abandoned \cup sessions \cup UnderWay
         /\ \A s \in Sessions : creation'[s] = IF s \in UnderWay THEN "failed" ELSE creation[s]
         /\ \A c \in Callers : at'[c] = "idle" /\ on'[c] = NoSession
BY DEF Crash, TypeOK

\* Every step is one of five kinds.
LEMMA Kinds ==
  ASSUME [Next]_vars
  PROVE  \/ \E s \in Sessions : Create(s)
         \/ \E c \in Callers : Continue(c)
         \/ \E c \in Callers, s \in Sessions : Starting(c, s)
         \/ \E s \in Sessions : ContainerDies(s)
         \/ Crash
         \/ UNCHANGED vars
BY DEF Next, Create, Starting, TimerStop

-------------------------------------------------------------------------------
(* Creations and calls *)

\* What a creation makes of its own session.
LEMMA CreateEffect ==
  ASSUME TypeOK, CreationInv, NEW s \in Sessions, Create(s)
  PROVE  /\ s \notin sessions /\ creation[s] \in {"none", "admitted", "bound", "made", "booted"}
         /\ \/ creation'[s] \in Creating /\ sessions' = sessions
            \/ creation'[s] = "failed" /\ s \in abandoned' /\ sessions' = sessions
            \/ /\ creation[s] = "booted" /\ creation'[s] = "over" /\ s \in sessions'
               /\ status'[s] = "running" /\ UNCHANGED <<volume, container>>
         /\ creation'[s] \in {"none", "admitted"} => ~ volume'[s]
         /\ creation'[s] \in {"none", "admitted", "bound"} => container'[s] = "none"
         /\ creation'[s] \in {"bound", "made", "booted"} => volume'[s]
         /\ creation'[s] \in {"made", "booted"} => container'[s] # "none"
<1> USE DEF registry, docker, calls, history, Fails, Fault, Made, Becomes
<1>1. CASE Admit(s)
  BY <1>1 DEF Admit, TypeOK, CreationInv, Creating
<1>2. CASE CreateVolume(s)
  BY <1>2 DEF CreateVolume, TypeOK, CreationInv, Creating
<1>3. CASE CreateContainer(s)
  BY <1>3 DEF CreateContainer, TypeOK, CreationInv, Creating
<1>4. CASE StartContainer(s)
  BY <1>4 DEF StartContainer, TypeOK, CreationInv, Creating
<1>5. CASE Register(s)
  BY <1>5 DEF Register, TypeOK, CreationInv, Creating
<1> QED BY <1>1, <1>2, <1>3, <1>4, <1>5 DEF Create

LEMMA CreationStep ==
  ASSUME TypeOK, CallInv, CreationInv, [Next]_vars
  PROVE  CreationInv'
<1> USE DEF registry, docker, calls, history
<1>1. ASSUME NEW s \in Sessions, Create(s)
      PROVE  CreationInv'
  <2>1. \A t \in Sessions \ {s} : Same(t) /\ (t \in abandoned => t \in abandoned')
    BY <1>1, CreateFrame DEF Grows
  <2> QED BY <1>1, <2>1, CreateEffect DEF CreationInv, Same, Creating
<1>2. ASSUME NEW c \in Callers, Continue(c)
      PROVE  CreationInv'
  <2> DEFINE s == on[c]
  <2>1. /\ \A t \in Sessions \ {s} : Same(t) /\ (t \in abandoned => t \in abandoned')
        /\ s \in Sessions /\ creation' = creation
    BY <1>2, ContinueFrame DEF Grows
  <2>2. creation[s] = "over"
    BY <2>1, NoSessionIsNone DEF CallInv
  <2>3. s \in sessions' => status'[s] \in {"running", "stopped"}
    BY <1>2, <2>1, Effect DEF CreationInv
  <2> QED BY <2>1, <2>2, <2>3 DEF CreationInv, Same
<1>3. ASSUME NEW c \in Callers, NEW s \in Sessions, Starting(c, s)
      PROVE  CreationInv'
  BY <1>3, StartingFrame DEF CreationInv
<1>4. ASSUME NEW s \in Sessions, ContainerDies(s)
      PROVE  CreationInv'
  BY <1>4, DeathFrame DEF CreationInv
<1>5. CASE Crash
  BY <1>5, CrashFrame DEF CreationInv, UnderWay, Creating
<1>6. CASE UNCHANGED vars
  BY <1>6 DEF vars, CreationInv
<1> QED BY <1>1, <1>2, <1>3, <1>4, <1>5, <1>6, Kinds

\* A call that comes back leaves the other calls what they rely on.
LEMMA CallsOfOthers ==
  ASSUME TypeOK, CallInv, RaceInv, NEW c \in Callers, Continue(c),
         NEW d \in Callers \ {c}, on[d] = on[c]
  PROVE  /\ container[on[c]] = "none" => container'[on[c]] = "none"
         /\ ~ volume[on[c]] => ~ volume'[on[c]]
         /\ at[d] = "stopped" /\ container'[on[c]] = "running" => on[c] \in raced' \cup refused'
<1> DEFINE s == on[c]
<1>1. s \in Sessions /\ raced' = raced /\ Grows
  BY ContinueFrame
<1>2. (container[s] = "none" => container'[s] = "none") /\ (~ volume[s] => ~ volume'[s])
  BY <1>1, Effect
<1>3. ASSUME at[d] = "stopped", container'[s] = "running"
      PROVE  s \in raced' \cup refused'
  <2>1. CASE container[s] = "running"
    BY <1>1, <1>3, <2>1 DEF CallInv, Grows
  <2>2. CASE at[c] = "start"
    <3>1. Busy(s, Stops) /\ Busy(s, Resumes)
      BY <1>3, <2>2 DEF Busy, Stops, Resumes
    <3> QED BY <1>1, <3>1 DEF RaceInv
  <2>3. CASE container[s] # "running" /\ at[c] # "start"
    BY <1>1, <1>3, <2>3, Effect
  <2> QED BY <2>1, <2>2, <2>3
<1> QED BY <1>2, <1>3

\* CallInv, of one caller.
CallOf(d) ==
  /\ at[d] = "idle" <=> on[d] = NoSession
  /\ on[d] # NoSession => creation[on[d]] = "over"
  /\ at[d] = "unbind" => container[on[d]] = "none" \/ on[d] \in abandoned
  /\ at[d] = "forget" =>
       on[d] \in abandoned \/ (container[on[d]] = "none" /\ ~ volume[on[d]])
  /\ at[d] = "stopped" /\ container[on[d]] = "running" => on[d] \in raced \cup refused

LEMMA CallStep ==
  ASSUME TypeOK, CreationInv, CallInv, RaceInv, [Next]_vars
  PROVE  CallInv'
<1> USE DEF registry, docker, calls, history
<1>0. \A d \in Callers : CallOf(d)
  BY DEF CallInv, CallOf
<1> SUFFICES ASSUME NEW d \in Callers
             PROVE  CallOf(d)'
  BY DEF CallInv, CallOf
<1>t. on[d] # NoSession => on[d] \in Sessions
  BY DEF TypeOK
<1>1. ASSUME NEW s \in Sessions, Create(s)
      PROVE  CallOf(d)'
  <2>1. UNCHANGED <<at, on>> /\ Grows /\ \A t \in Sessions \ {s} : Same(t)
    BY <1>1, CreateFrame
  <2>2. on[d] # s
    BY <1>0, <1>1, CreateEffect, NoSessionIsNone DEF CallOf
  <2> QED BY <1>0, <1>t, <2>1, <2>2 DEF CallOf, Same, Grows
<1>2. ASSUME NEW c \in Callers, Continue(c)
      PROVE  CallOf(d)'
  <2> DEFINE s == on[c]
  <2>1. /\ s \in Sessions /\ creation' = creation /\ Grows /\ raced' = raced
        /\ \A t \in Sessions \ {s} : Same(t)
        /\ \A e \in Callers \ {c} : at'[e] = at[e] /\ on'[e] = on[e]
    BY <1>2, ContinueFrame
  <2>2. CASE d = c
    <3>1. creation[s] = "over" /\ s # NoSession
      BY <2>1, NoSessionIsNone DEF CallInv
    <3>2. /\ at'[c] = "idle" <=> on'[c] = NoSession
          /\ on'[c] # NoSession => on'[c] = s
      BY <1>2, <2>1, <3>1, Effect
    <3>3. at'[c] = "unbind" => container'[s] = "none" \/ s \in abandoned'
      BY <1>2, <2>1, Effect
    <3>4. at'[c] = "forget" => s \in abandoned' \/ (container'[s] = "none" /\ ~ volume'[s])
      <4>1. at'[c] = "forget" =>
              \/ container[s] = "none" /\ container' = container /\ volume'[s] = FALSE
              \/ s \in abandoned'
        BY <1>2, <2>1, Effect
      <4> QED BY <4>1
    <3>5. at'[c] = "stopped" /\ container'[s] = "running" => s \in refused'
      BY <1>2, <2>1, Effect
    <3> QED BY <2>1, <2>2, <3>1, <3>2, <3>3, <3>4, <3>5 DEF CallOf
  <2>3. CASE d # c /\ on[d] # s
    BY <1>0, <1>t, <2>1, <2>3 DEF CallOf, Same, Grows
  <2>4. CASE d # c /\ on[d] = s
    <3>1. /\ container[s] = "none" => container'[s] = "none"
          /\ ~ volume[s] => ~ volume'[s]
          /\ at[d] = "stopped" /\ container'[s] = "running" => s \in raced' \cup refused'
      BY <1>2, <2>4, CallsOfOthers
    <3> QED BY <1>0, <2>1, <2>4, <3>1 DEF CallOf, Grows
  <2> QED BY <2>2, <2>3, <2>4
<1>3. ASSUME NEW c \in Callers, NEW s \in Sessions, Starting(c, s)
      PROVE  CallOf(d)'
  <2>1. creation[s] = "over"
    BY <1>3, StartingFrame DEF CreationInv
  <2> QED BY <1>0, <1>3, <2>1, StartingFrame, NoSessionIsNone DEF CallOf
<1>4. ASSUME NEW s \in Sessions, ContainerDies(s)
      PROVE  CallOf(d)'
  <2>1. /\ container[s] = "running" /\ container'[s] = "exited"
        /\ \A t \in Sessions \ {s} : container'[t] = container[t]
        /\ UNCHANGED <<creation, volume, at, on, abandoned, raced, refused>>
    BY <1>4, DeathFrame
  <2>2. CASE on[d] = NoSession
    BY <1>0, <2>1, <2>2 DEF CallOf
  <2>3. CASE on[d] # NoSession
    BY <1>0, <1>t, <2>1, <2>3 DEF CallOf
  <2> QED BY <2>2, <2>3
<1>5. CASE Crash
  BY <1>5, CrashFrame DEF CallOf
<1>6. CASE UNCHANGED vars
  BY <1>0, <1>6 DEF vars, CallOf
<1> QED BY <1>1, <1>2, <1>3, <1>4, <1>5, <1>6, Kinds

LEMMA RaceStep ==
  ASSUME TypeOK, CallInv, RaceInv, [Next]_vars
  PROVE  RaceInv'
<1> USE DEF registry, docker, calls, history
<1>1. ASSUME NEW s \in Sessions, Create(s)
      PROVE  RaceInv'
  BY <1>1, CreateFrame DEF RaceInv, Busy
<1>2. ASSUME NEW c \in Callers, Continue(c)
      PROVE  RaceInv'
  <2>1. /\ on[c] \in Sessions /\ raced' = raced
        /\ \A e \in Callers \ {c} : at'[e] = at[e] /\ on'[e] = on[e]
    BY <1>2, ContinueFrame
  <2>2. \/ at'[c] \notin Stops \cup Resumes
        \/ at'[c] \in Stops /\ at[c] \in Stops /\ on'[c] = on[c]
        \/ at'[c] \in Resumes /\ at[c] \in Resumes /\ on'[c] = on[c]
    BY <1>2, <2>1, Effect DEF Stops, Resumes
  <2>3. Stops \cap Resumes = {}
    BY DEF Stops, Resumes
  <2> QED BY <2>1, <2>2, <2>3 DEF RaceInv, Busy
<1>3. ASSUME NEW c \in Callers, NEW s \in Sessions, Starting(c, s)
      PROVE  RaceInv'
  <2>1. /\ \A d \in Callers \ {c} : at'[d] = at[d] /\ on'[d] = on[d]
        /\ at[c] = "idle" /\ on'[c] = s /\ raced \subseteq raced'
    BY <1>3, StartingFrame
  <2>2. \A t \in Sessions \ {s} : Busy(t, Stops)' /\ Busy(t, Resumes)' =>
          Busy(t, Stops) /\ Busy(t, Resumes)
    BY <2>1 DEF Busy
  <2>3. CASE BeginStop(c, s)
    <3>1. at'[c] = "stop" /\ (Busy(s, Resumes) => s \in raced')
      BY <2>3 DEF BeginStop, FirstOfStop, Begin, TypeOK
    <3>2. Busy(s, Resumes)' => Busy(s, Resumes)
      BY <2>1, <3>1 DEF Busy, Resumes
    <3> QED BY <2>1, <2>2, <3>1, <3>2 DEF RaceInv
  <2>4. CASE BeginResume(c, s)
    <3>1. at'[c] = "start" /\ (Busy(s, Stops) => s \in raced')
      BY <2>4 DEF BeginResume, Begin, TypeOK
    <3>2. Busy(s, Stops)' => Busy(s, Stops)
      BY <2>1, <3>1 DEF Busy, Stops
    <3> QED BY <2>1, <2>2, <3>1, <3>2 DEF RaceInv
  <2>5. CASE BeginDestroy(c, s)
    <3>1. at'[c] = "halt"
      BY <2>5 DEF BeginDestroy, Begin, TypeOK
    <3>2. /\ Busy(s, Stops)' => Busy(s, Stops)
          /\ Busy(s, Resumes)' => Busy(s, Resumes)
      BY <2>1, <3>1 DEF Busy, Stops, Resumes
    <3> QED BY <2>1, <2>2, <3>2 DEF RaceInv
  <2> QED BY <1>3, <2>3, <2>4, <2>5 DEF Starting
<1>4. ASSUME NEW s \in Sessions, ContainerDies(s)
      PROVE  RaceInv'
  BY <1>4, DeathFrame DEF RaceInv, Busy
<1>5. CASE Crash
  BY <1>5, CrashFrame DEF RaceInv, Busy, Stops
<1>6. CASE UNCHANGED vars
  BY <1>6 DEF vars, RaceInv, Busy
<1> QED BY <1>1, <1>2, <1>3, <1>4, <1>5, <1>6, Kinds

-------------------------------------------------------------------------------
(* The registry, Docker, and the watch *)

\* RegistryMatchesDocker and RunningWatched, of one session.
Matches(s) ==
  /\ volume[s] \/ container[s] # "none" => s \in sessions \cup UnderWay \cup abandoned
  /\ s \in sessions /\ container[s] = "none" => Busy(s, {"unbind", "forget"})
  /\ s \in sessions /\ ~ volume[s] => Busy(s, {"forget"})
Watched(s) ==
  s \in sessions /\ container[s] = "running" /\ status[s] = "stopped" =>
    Busy(s, {"started"}) \/ s \in raced \cup refused

\* A step that is not of this session or its calls.
LEMMA Elsewhere ==
  ASSUME NEW t \in Sessions, Matches(t), Watched(t), Same(t), Grows,
         \A c \in Callers : on[c] = t => at'[c] = at[c] /\ on'[c] = on[c]
  PROVE  Matches(t)' /\ Watched(t)'
<1>1. \A steps : Busy(t, steps) => \E c \in Callers : on'[c] = t /\ at'[c] \in steps
  BY DEF Busy
<1>2. t \in UnderWay => t \in UnderWay'
  BY DEF UnderWay, Same
<1>3. Matches(t)'
  BY <1>1, <1>2 DEF Matches, Same, Grows, Busy
<1>4. Watched(t)'
  BY <1>1 DEF Watched, Same, Grows, Busy
<1> QED BY <1>3, <1>4

LEMMA ContinueMatches ==
  ASSUME TypeOK, CallInv, NEW c \in Callers, Continue(c), NEW s, s = on[c], Matches(s)
  PROVE  Matches(s)'
<1>1. /\ s \in Sessions /\ creation' = creation /\ Grows
      /\ \A d \in Callers \ {c} : at'[d] = at[d] /\ on'[d] = on[d]
  BY ContinueFrame
<1>2. volume'[s] \/ container'[s] # "none" => s \in sessions' \cup UnderWay' \cup abandoned'
  <2>1. /\ volume'[s] => volume[s]
        /\ container'[s] # "none" => container[s] # "none"
    <3>1. volume'[s] \in {volume[s], FALSE}
      BY <1>1, Effect
    <3>2. container'[s] # "none" => container[s] # "none"
      BY <1>1, Effect
    <3> QED BY <3>1, <3>2
  <2>2. s \in abandoned \cup UnderWay => s \in abandoned' \cup UnderWay'
    BY <1>1 DEF Grows, UnderWay
  <2>3. CASE at[c] = "forget"
    BY <1>1, <2>1, <2>2, <2>3 DEF CallInv
  <2>4. CASE at[c] # "forget"
    BY <1>1, <2>1, <2>2, <2>4, Effect DEF Matches
  <2> QED BY <2>3, <2>4
<1>3. s \in sessions' /\ container'[s] = "none" => Busy(s, {"unbind", "forget"})'
  <2>1. CASE container[s] = "none"
    <3>1. s \in sessions' => s \in sessions /\ at[c] # "forget"
      BY <1>1, Effect
    <3>2. at[c] = "unbind" => at'[c] = "forget" /\ on'[c] = s
      BY <1>1, Effect
    <3> QED BY <1>1, <2>1, <3>1, <3>2 DEF Matches, Busy
  <2>2. CASE container[s] # "none"
    <3>1. container'[s] = "none" => at'[c] = "unbind" /\ on'[c] = s
      BY <1>1, <2>2, Effect
    <3> QED BY <3>1 DEF Busy
  <2> QED BY <2>1, <2>2
<1>4. s \in sessions' /\ ~ volume'[s] => Busy(s, {"forget"})'
  <2>1. CASE ~ volume[s]
    <3>1. s \in sessions' => s \in sessions /\ at[c] # "forget"
      BY <1>1, Effect
    <3> QED BY <1>1, <2>1, <3>1 DEF Matches, Busy
  <2>2. CASE volume[s]
    <3>1. ~ volume'[s] => at'[c] = "forget" /\ on'[c] = s
      BY <1>1, <2>2, Effect
    <3> QED BY <3>1 DEF Busy
  <2> QED BY <2>1, <2>2
<1> QED BY <1>2, <1>3, <1>4 DEF Matches

LEMMA ContinueWatched ==
  ASSUME TypeOK, CallInv, NEW c \in Callers, Continue(c), NEW s, s = on[c], Watched(s)
  PROVE  Watched(s)'
<1>1. /\ s \in Sessions /\ raced' = raced /\ Grows
      /\ \A d \in Callers \ {c} : at'[d] = at[d] /\ on'[d] = on[d]
  BY ContinueFrame
<1> SUFFICES ASSUME s \in sessions', container'[s] = "running", status'[s] = "stopped"
             PROVE  (\E d \in Callers : on'[d] = s /\ at'[d] = "started") \/ s \in raced' \cup refused'
  BY DEF Watched, Busy
<1>2. CASE at[c] = "stop"
  BY <1>1, <1>2, Effect
<1>3. CASE at[c] = "stopped"
  <2>1. container[s] = "running"
    BY <1>1, <1>3, Effect
  <2> QED BY <1>1, <1>3, <2>1 DEF CallInv, Grows
<1>4. CASE at[c] = "start"
  BY <1>1, <1>4, Effect
<1>5. CASE at[c] = "started"
  BY <1>1, <1>5, Effect
<1>6. CASE at[c] \in {"halt", "remove", "unbind"}
  <2>1. s \in sessions /\ container[s] = "running" /\ status[s] = "stopped"
    BY <1>1, <1>6, Effect
  <2>2. (\E d \in Callers : on[d] = s /\ at[d] = "started") \/ s \in raced \cup refused
    BY <2>1 DEF Watched, Busy
  <2> QED BY <1>1, <1>6, <2>2 DEF Grows
<1>7. at[c] \notin {"idle", "forget"}
  BY <1>1, Effect
<1> QED BY <1>2, <1>3, <1>4, <1>5, <1>6, <1>7, <1>1, Effect

LEMMA MatchStep ==
  ASSUME TypeOK, CreationInv, CallInv, RegistryMatchesDocker, RunningWatched, [Next]_vars
  PROVE  RegistryMatchesDocker' /\ RunningWatched'
<1> USE DEF registry, docker, calls, history
<1>0. \A t \in Sessions : Matches(t) /\ Watched(t)
  BY DEF RegistryMatchesDocker, RunningWatched, Matches, Watched
<1>s. TypeOK'
  BY TypeStep
<1> SUFFICES ASSUME NEW t \in Sessions
             PROVE  Matches(t)' /\ Watched(t)'
  BY <1>s DEF RegistryMatchesDocker, RunningWatched, Matches, Watched, TypeOK
<1>1. ASSUME NEW s \in Sessions, Create(s)
      PROVE  Matches(t)' /\ Watched(t)'
  <2>1. UNCHANGED <<at, on>> /\ Grows /\ \A u \in Sessions \ {s} : Same(u)
    BY <1>1, CreateFrame
  <2>2. CASE t # s
    BY <1>0, <2>1, <2>2, Elsewhere
  <2>3. CASE t = s
    <3>1. s \in sessions' \cup UnderWay' \cup abandoned'
      BY <1>1, CreateEffect DEF UnderWay
    <3>2. s \in sessions' => container'[s] # "none" /\ volume'[s] /\ status'[s] = "running"
      BY <1>1, CreateEffect DEF CreationInv
    <3> QED BY <2>3, <3>1, <3>2 DEF Matches, Watched
  <2> QED BY <2>2, <2>3
<1>2. ASSUME NEW c \in Callers, Continue(c)
      PROVE  Matches(t)' /\ Watched(t)'
  <2>1. CASE t = on[c]
    BY <1>0, <1>2, <2>1, ContinueMatches, ContinueWatched
  <2>2. CASE t # on[c]
    <3>1. /\ Same(t) /\ Grows
          /\ \A d \in Callers : on[d] = t => at'[d] = at[d] /\ on'[d] = on[d]
      BY <1>2, <2>2, ContinueFrame
    <3> QED BY <1>0, <3>1, Elsewhere
  <2> QED BY <2>1, <2>2
<1>3. ASSUME NEW c \in Callers, NEW s \in Sessions, Starting(c, s)
      PROVE  Matches(t)' /\ Watched(t)'
  <2>1. Same(t) /\ Grows
    BY <1>3, StartingFrame DEF Same, Grows
  <2>2. on[c] = NoSession /\ t # NoSession
    BY <1>3, StartingFrame, NoSessionIsNone DEF CallInv
  <2>3. \A d \in Callers : on[d] = t => at'[d] = at[d] /\ on'[d] = on[d]
    BY <1>3, <2>2, StartingFrame
  <2> QED BY <1>0, <2>1, <2>3, Elsewhere
<1>4. ASSUME NEW s \in Sessions, ContainerDies(s)
      PROVE  Matches(t)' /\ Watched(t)'
  <2>1. UNCHANGED <<creation, sessions, status, volume, at, on, raced, refused, abandoned>>
    BY <1>4, DeathFrame
  <2>2. /\ container'[t] = "none" <=> container[t] = "none"
        /\ container'[t] = "running" => container[t] = "running"
    BY <1>4, DeathFrame
  <2> QED BY <1>0, <2>1, <2>2 DEF Matches, Watched, Busy, UnderWay
<1>5. CASE Crash
  <2>1. /\ sessions' = {} /\ UNCHANGED <<volume, container>>
        /\ abandoned' = abandoned \cup sessions \cup UnderWay
    BY <1>5, CrashFrame
  <2> QED BY <1>0, <2>1 DEF Matches, Watched
<1>6. CASE UNCHANGED vars
  BY <1>0, <1>6 DEF vars, Matches, Watched, Busy, UnderWay
<1> QED BY <1>1, <1>2, <1>3, <1>4, <1>5, <1>6, Kinds

-------------------------------------------------------------------------------
(* The limit *)

\* The sessions that run or will.
Live == Running \cup UnderWay

LEMMA LiveFinite ==
  ASSUME TypeOK
  PROVE  IsFiniteSet(Live) /\ Cardinality(Live) \in Nat
BY SessionsAssumption, FS_Subset, FS_CardinalityType DEF TypeOK, Live, Running, UnderWay

LEMMA OneMore ==
  ASSUME NEW S, IsFiniteSet(S), NEW T, NEW x, T \subseteq S \cup {x}
  PROVE  Cardinality(T) <= Cardinality(S) + 1
<1>1. IsFiniteSet(S \cup {x}) /\ Cardinality(S \cup {x}) \in {Cardinality(S), Cardinality(S) + 1}
  BY FS_AddElement
<1>2. Cardinality(T) <= Cardinality(S \cup {x})
  BY <1>1, FS_Subset
<1>3. IsFiniteSet(T) /\ Cardinality(T) \in Nat /\ Cardinality(S) \in Nat
  BY <1>1, FS_Subset, FS_CardinalityType
<1> QED BY <1>1, <1>2, <1>3

\* No more run or will, or one more and one start more that no check saw.
LEMMA LimitFromFewer ==
  ASSUME TypeOK, LimitInv,
         \/ Live' \subseteq Live /\ unchecked' \in {unchecked, unchecked + 1}
         \/ \E x : Live' \subseteq Live \cup {x} /\ unchecked' = unchecked + 1
  PROVE  LimitInv'
<1>1. IsFiniteSet(Live) /\ Cardinality(Live) \in Nat /\ Cardinality(Live) <= MaxSessions + unchecked
  BY LiveFinite DEF LimitInv, Live
<1>2. unchecked \in Nat /\ MaxSessions \in Nat
  BY BoundsAssumption DEF TypeOK
<1>3. CASE Live' \subseteq Live /\ unchecked' \in {unchecked, unchecked + 1}
  <2>1. Cardinality(Live') <= Cardinality(Live) /\ Cardinality(Live') \in Nat
    BY <1>1, <1>3, FS_Subset, FS_CardinalityType
  <2>2. Cardinality(Live') <= MaxSessions + unchecked'
    BY <1>1, <1>2, <1>3, <2>1
  <2> QED BY <2>2 DEF LimitInv, Live
<1>4. CASE \E x : Live' \subseteq Live \cup {x} /\ unchecked' = unchecked + 1
  <2>1. unchecked' = unchecked + 1 /\ Cardinality(Live') <= Cardinality(Live) + 1
    BY <1>1, <1>4, OneMore
  <2>2. IsFiniteSet(Live') /\ Cardinality(Live') \in Nat
    BY <1>1, <1>4, FS_AddElement, FS_Subset, FS_CardinalityType
  <2>3. Cardinality(Live') <= MaxSessions + unchecked'
    BY <1>1, <1>2, <2>1, <2>2
  <2> QED BY <2>3 DEF LimitInv, Live
<1> QED BY <1>3, <1>4

LEMMA LimitStep ==
  ASSUME TypeOK, CreationInv, CallInv, LimitInv, [Next]_vars
  PROVE  LimitInv'
<1> USE DEF registry, docker, calls, history
<1>1. ASSUME NEW s \in Sessions, Create(s), ~ Admit(s)
      PROVE  LimitInv'
  <2>0. sessions' \subseteq sessions \cup {s}
    BY <1>1 DEF Create, CreateVolume, CreateContainer, StartContainer, Register
  <2>1. (\A t \in Sessions \ {s} : Same(t)) /\ s \notin sessions
    BY <1>1, CreateFrame, CreateEffect
  <2>2. s \in UnderWay /\ unchecked' = unchecked
    BY <1>1 DEF Create, CreateVolume, CreateContainer, StartContainer, Register, UnderWay, Creating
  <2>3. Live' \subseteq Live
    BY <2>0, <2>1, <2>2 DEF Live, Running, UnderWay, Same, TypeOK
  <2> QED BY <2>2, <2>3, LimitFromFewer
<1>2. ASSUME NEW s \in Sessions, Admit(s)
      PROVE  LimitInv'
  <2>1. /\ creation' = [creation EXCEPT ![s] = "admitted"] /\ UNCHANGED <<sessions, status>>
        /\ ~ Full /\ unchecked' = unchecked + (IF UnderWay = {} THEN 0 ELSE 1)
    BY <1>2 DEF Admit, Made
  <2>2. Running' = Running /\ UnderWay' \subseteq UnderWay \cup {s}
    BY <2>1 DEF Running, UnderWay, TypeOK
  <2>3. CASE UnderWay = {}
    <3>1. Live' \subseteq Running \cup {s} /\ Running = Live
      BY <2>2, <2>3 DEF Live
    <3>2. Cardinality(Live') <= Cardinality(Running) + 1 /\ IsFiniteSet(Live')
      BY <3>1, LiveFinite, OneMore, FS_AddElement, FS_Subset
    <3>3. Cardinality(Running) < MaxSessions /\ Cardinality(Running) \in Nat
      BY <2>1, <3>1, LiveFinite, BoundsAssumption DEF Full
    <3>4. Cardinality(Live') \in Nat /\ unchecked \in Nat /\ unchecked' = unchecked
      BY <2>1, <2>3, <3>2, FS_CardinalityType DEF TypeOK
    <3>5. Cardinality(Live') <= MaxSessions + unchecked'
      BY <3>2, <3>3, <3>4, BoundsAssumption
    <3> QED BY <3>5 DEF LimitInv, Live
  <2>4. CASE UnderWay # {}
    <3>1. Live' \subseteq Live \cup {s} /\ unchecked' = unchecked + 1
      BY <2>1, <2>2, <2>4 DEF Live
    <3> QED BY <3>1, LimitFromFewer
  <2> QED BY <2>3, <2>4
<1>3. ASSUME NEW c \in Callers, Continue(c)
      PROVE  LimitInv'
  <2> DEFINE s == on[c]
  <2>1. s \in Sessions /\ creation' = creation /\ \A t \in Sessions \ {s} : Same(t)
    BY <1>3, ContinueFrame
  <2>2. /\ sessions' \subseteq sessions
        /\ \/ unchecked' = unchecked /\ (s \in sessions' /\ status'[s] = "running" => status[s] = "running")
           \/ unchecked' = unchecked + 1
    <3>1. sessions' \subseteq sessions
      BY <1>3, <2>1, Effect
    <3>2. CASE at[c] = "started"
      BY <1>3, <2>1, <3>1, <3>2, Effect
    <3>3. CASE at[c] # "started"
      <4>1. unchecked' = unchecked
        BY <1>3, <2>1, <3>3, Effect
      <4>2. s \in sessions' /\ status'[s] = "running" => status[s] = "running"
        <5>1. s \notin sessions' \/ status'[s] = "stopped" \/ status' = status
          BY <1>3, <2>1, <3>3, Effect
        <5> QED BY <5>1
      <4> QED BY <3>1, <4>1, <4>2
    <3> QED BY <3>2, <3>3
  <2>3. CASE unchecked' = unchecked + 1
    <3>1. Live' \subseteq Live \cup {s}
      BY <2>1, <2>2 DEF Live, Running, UnderWay, Same, TypeOK
    <3> QED BY <2>3, <3>1, LimitFromFewer
  <2>4. CASE unchecked' = unchecked /\ (s \in sessions' /\ status'[s] = "running" => status[s] = "running")
    <3>1. Live' \subseteq Live
      BY <2>1, <2>2, <2>4 DEF Live, Running, UnderWay, Same, TypeOK
    <3> QED BY <2>4, <3>1, LimitFromFewer
  <2> QED BY <2>2, <2>3, <2>4
<1>4. ASSUME UNCHANGED <<creation, sessions, status, unchecked>>
      PROVE  LimitInv'
  BY <1>4 DEF LimitInv, Running, UnderWay
<1>5. CASE Crash
  <2>1. Live' = {} /\ unchecked' = unchecked
    BY <1>5, CrashFrame DEF Live, Running, UnderWay, Creating
  <2> QED BY <2>1, LimitFromFewer
<1>6. ASSUME NEW c \in Callers, NEW s \in Sessions, Starting(c, s)
      PROVE  LimitInv'
  BY <1>4, <1>6, StartingFrame
<1>7. ASSUME NEW s \in Sessions, ContainerDies(s)
      PROVE  LimitInv'
  BY <1>4, <1>7, DeathFrame
<1>8. CASE UNCHANGED vars
  BY <1>4, <1>8 DEF vars
<1> QED BY <1>1, <1>2, <1>3, <1>5, <1>6, <1>7, <1>8, Kinds

-------------------------------------------------------------------------------
(* The theorems *)

LEMMA InitInv == Init => IInv
<1> SUFFICES ASSUME Init PROVE IInv
  OBVIOUS
<1>1. TypeOK
  BY DEF Init, TypeOK
<1>2. CreationInv /\ CallInv /\ RaceInv /\ RegistryMatchesDocker /\ RunningWatched
  BY DEF Init, CreationInv, CallInv, RaceInv, RegistryMatchesDocker, RunningWatched, Busy, Stops
<1>3. LimitInv
  <2>1. Running \cup UnderWay = {} /\ unchecked = 0
    BY DEF Init, Running, UnderWay, Creating
  <2> QED BY <2>1, FS_EmptySet, BoundsAssumption DEF LimitInv
<1> QED BY <1>1, <1>2, <1>3 DEF IInv

\* The inductive invariant of sandbox/sessionManager.ts: creation order, calls,
\* overlaps of stops with resumptions, the limit, and agreement with Docker.
THEOREM SessionsInvariant == Spec => []IInv
<1>1. IInv /\ [Next]_vars => IInv'
  BY TypeStep, CreationStep, CallStep, RaceStep, LimitStep, MatchStep DEF IInv
<1> QED BY InitInv, <1>1, PTL DEF Spec

\* Every variable of a session, of Docker and of the calls stays in its range.
THEOREM TypeCorrect == Spec => []TypeOK
<1>1. IInv => TypeOK
  BY DEF IInv
<1> QED BY SessionsInvariant, <1>1, PTL

\* For any limit and any number of callers, sessions beyond the limit run only
\* through starts that createSession's count did not see, one each.
THEOREM LimitHolds == Spec => []LimitKept
<1>1. IInv => LimitKept
  <2> SUFFICES ASSUME IInv PROVE LimitKept
    OBVIOUS
  <2>1. TypeOK /\ Cardinality(Live) <= MaxSessions + unchecked
    BY DEF IInv, LimitInv, Live
  <2>2. IsFiniteSet(Live) /\ Cardinality(Live) \in Nat
    BY <2>1, LiveFinite
  <2>3. Cardinality(Running) <= Cardinality(Live) /\ Cardinality(Running) \in Nat
    BY <2>2, FS_Subset, FS_CardinalityType DEF Live
  <2> QED BY <2>1, <2>2, <2>3, BoundsAssumption DEF LimitKept, TypeOK
<1> QED BY SessionsInvariant, <1>1, PTL

\* However stops, resumptions and destructions overlap, Docker keeps what the
\* registry knows, unless a failure or a crash left it behind.
THEOREM RegistryMatches == Spec => []RegistryMatchesDocker
<1>1. IInv => RegistryMatchesDocker
  BY DEF IInv
<1> QED BY SessionsInvariant, <1>1, PTL

\* A container runs under the status "stopped" only in the last step of a
\* resumption, or after an overlap or a failed call.
THEOREM RunningWatchedKept == Spec => []RunningWatched
<1>1. IInv => RunningWatched
  BY DEF IInv
<1> QED BY SessionsInvariant, <1>1, PTL
===============================================================================
