-------------------------- MODULE WorkflowRuns_proofs --------------------------
(***************************************************************************)
(* What WorkflowRuns keeps for any number of runs and clients, any cap and *)
(* any log size: types, the log, the registry, the rows, and the streams.  *)
(***************************************************************************)
EXTENDS WorkflowRuns, FiniteSetTheorems, SequenceTheorems,
        WellFoundedInduction, TLAPS

-------------------------------------------------------------------------------
(* Types *)

\* What a client is sent are numbers of events.
LEMMA UnsentType ==
  ASSUME TypeOK, NEW r \in Runs, NEW c \in Nat
  PROVE  /\ Unsent(r, c) \in Seq(Nat)
         /\ Len(Unsent(r, c)) = IF c < LogLength(r) THEN LogLength(r) - c ELSE 0
         /\ \A i \in 1 .. Len(Unsent(r, c)) : Unsent(r, c)[i] = dropped[r] + c + i
<1>1. dropped[r] \in Nat /\ LogLength(r) \in Int
  BY DEF TypeOK, LogLength
<1> DEFINE n == IF c < LogLength(r) THEN LogLength(r) - c ELSE 0
<1>2. n \in Nat
  BY <1>1
<1>3. Unsent(r, c) = [i \in 1 .. n |-> dropped[r] + c + i]
  BY DEF Unsent
<1> HIDE DEF n
<1>4. \A i \in 1 .. n : dropped[r] + c + i \in Nat
  BY <1>1, <1>2
<1>5. Unsent(r, c) \in Seq(Nat) /\ Len(Unsent(r, c)) = n
  BY <1>2, <1>3, <1>4
<1>6. \A i \in 1 .. n : Unsent(r, c)[i] = dropped[r] + c + i
  BY <1>3
<1> QED BY <1>5, <1>6 DEF n

\* Every step keeps the types.
LEMMA TypeStep ==
  ASSUME TypeOK, [Next]_vars
  PROVE  TypeOK'
<1> USE DEF log, registry, clients, history, Goto, Outcomes, Statuses, Tasks
<1>1. CASE UNCHANGED vars
  BY <1>1 DEF vars, TypeOK
<1>2. ASSUME NEW r \in Runs, Emit(r) \/ Finish(r)
      PROVE  TypeOK'
  <2>1. Push(r)
    BY <1>2 DEF Emit, Finish
  <2>2. LogLength(r) >= MaxEvents => dropped[r] + LogLength(r) - MaxEvents + CutEvents \in Nat
    BY SizesAssumption DEF TypeOK, LogLength
  <2>3. emitted' \in [Runs -> Nat] /\ dropped' \in [Runs -> Nat]
    BY <2>1, <2>2 DEF Push, TypeOK
  <2>4. UNCHANGED <<row, registry, clients, crashes, history>>
    BY <1>2 DEF Emit, Finish
  <2>5. task' \in [Runs -> Tasks]
    <3>1. \E step \in Tasks : task' = [task EXCEPT ![r] = step] \/ task' = task
      BY <1>2 DEF Emit, Finish
    <3> QED BY <3>1 DEF TypeOK
  <2>6. outcome' \in [Runs -> Outcomes]
    <3>1. \E o \in Outcomes : outcome' = [outcome EXCEPT ![r] = o] \/ outcome' = outcome
      BY <1>2 DEF Emit, Finish
    <3> QED BY <3>1 DEF TypeOK
  <2> QED BY <2>3, <2>4, <2>5, <2>6 DEF TypeOK
<1>3. ASSUME NEW r \in Runs,
             \/ InsertRun(r) \/ AnswerGate(r) \/ GateTimesOut(r)
             \/ Record(r) \/ ExecutorThrows(r) \/ Catch(r)
      PROVE  TypeOK'
  <2>1. /\ UNCHANGED <<outcome, log, registry, clients, crashes, swept>>
        /\ unrecorded' \in {unrecorded, unrecorded \cup {r}}
    BY <1>3 DEF InsertRun, AnswerGate, GateTimesOut, Record, ExecutorThrows, Catch
  <2>2. task' \in [Runs -> Tasks]
    <3>1. \E step \in Tasks : task' = [task EXCEPT ![r] = step]
      BY <1>3 DEF InsertRun, AnswerGate, GateTimesOut, Record, ExecutorThrows, Catch
    <3> QED BY <3>1 DEF TypeOK
  <2>3. row' \in [Runs -> Statuses]
    BY <1>3 DEF InsertRun, AnswerGate, GateTimesOut, Record, ExecutorThrows, Catch, StatusOf,
                TypeOK
  <2> QED BY <2>1, <2>2, <2>3 DEF TypeOK
<1>8. ASSUME NEW r \in Runs, Register(r) \/ CleanUp(r) \/ Sweep(r)
      PROVE  TypeOK'
  <2>1. UNCHANGED <<row, outcome, log, clients, crashes, unrecorded>>
    BY <1>8 DEF Register, CleanUp, Sweep
  <2>2. /\ task' = [task EXCEPT ![r] = "running"] \/ task' = task
        /\ rank' = [rank EXCEPT ![r] = starts + 1] \/ rank' = rank
        /\ starts' \in {starts, starts + 1}
    BY <1>8 DEF Register, CleanUp, Sweep
  <2>4. task' \in [Runs -> Tasks]
    BY <2>2 DEF TypeOK
  <2>5. starts' \in Nat /\ starts + 1 \in Nat
    BY <2>2 DEF TypeOK
  <2>6. rank' \in [Runs -> Nat]
    BY <2>2, <2>5 DEF TypeOK
  <2>3. activeRuns' \subseteq Runs /\ swept' \subseteq Runs
    BY <1>8 DEF Register, CleanUp, Sweep, Stale, With, TypeOK
  <2> QED BY <2>1, <2>3, <2>4, <2>5, <2>6 DEF TypeOK
<1>4. ASSUME NEW s \in Streams, NEW r \in Runs, OpenStream(s, r)
      PROVE  TypeOK'
  BY <1>4 DEF TypeOK, OpenStream
<1>5. ASSUME NEW s \in Streams, Attach(s) \/ Poll(s)
      PROVE  TypeOK'
  <2>1. run[s] \in Runs /\ client[s] \in {"opening", "live"}
    BY <1>5 DEF TypeOK, Attach, Poll
  <2>2. cursor' \in [Streams -> Nat] /\ sent' \in [Streams -> Seq(Nat)]
    <3>1. CASE WriteEvents(s)
      <4>1. Unsent(run[s], cursor[s]) \in Seq(Nat) /\ cursor[s] \in Nat /\ sent[s] \in Seq(Nat)
        BY <2>1, UnsentType DEF TypeOK
      <4>2. sent[s] \o Unsent(run[s], cursor[s]) \in Seq(Nat) /\ Len(Unsent(run[s], cursor[s])) \in Nat
        BY <4>1
      <4> QED BY <3>1, <4>1, <4>2 DEF WriteEvents, TypeOK
    <3>2. CASE UNCHANGED <<cursor, sent>>
      BY <3>2 DEF TypeOK
    <3> QED BY <1>5, <3>1, <3>2 DEF Attach, Poll
  <2>3. told' \in [Streams -> Outcomes]
    <3>1. outcome[run[s]] \in Outcomes /\ SeenOutcome(s) \in Outcomes
      BY <2>1 DEF SeenOutcome, TypeOK
    <3>2. \E o \in Outcomes : told' = [told EXCEPT ![s] = o] \/ told' = told
      BY <1>5, <3>1 DEF Attach, Poll, WriteEvents
    <3> QED BY <3>2 DEF TypeOK
  <2>4. client' \in [Streams -> {"absent", "opening", "live", "ended"}]
    <3>1. \E c \in {"live", "ended"} : client' = [client EXCEPT ![s] = c] \/ client' = client
      BY <1>5 DEF Attach, Poll
    <3> QED BY <3>1 DEF TypeOK
  <2>5. \A t \in Streams : client'[t] # "absent" => run[t] \in Runs
    BY <1>5, <2>1 DEF Attach, Poll, TypeOK
  <2>6. UNCHANGED <<row, task, outcome, log, registry, run, seen, crashes, history>>
    BY <1>5 DEF Attach, Poll
  <2> QED BY <2>2, <2>3, <2>4, <2>5, <2>6 DEF TypeOK
<1>6. ASSUME NEW s \in Streams, Leave(s)
      PROVE  TypeOK'
  BY <1>6 DEF TypeOK, Leave
<1>7. CASE Crash
  BY <1>7 DEF TypeOK, Crash
<1> QED BY <1>1, <1>2, <1>3, <1>4, <1>5, <1>6, <1>7, <1>8 DEF Next

\* Every variable stays in its range.
THEOREM TypeCorrect == Spec => []TypeOK
<1>1. Init => TypeOK
  BY DEF Init, TypeOK, Outcomes, Statuses, Tasks
<1> QED BY <1>1, TypeStep, PTL DEF Spec

-------------------------------------------------------------------------------
(* The log *)

LEMMA LogStep ==
  ASSUME TypeOK, LogInv, RegistryInv, [Next]_vars
  PROVE  LogInv' /\ \A r \in Runs : dropped'[r] >= dropped[r]
<1> USE DEF log, registry, clients, history, Goto
<1>1. ASSUME NEW r \in Runs, Emit(r) \/ Finish(r)
      PROVE  LogInv' /\ \A q \in Runs : dropped'[q] >= dropped[q]
  <2>1. /\ task[r] = "running" /\ activeRuns' = activeRuns
        /\ \A q \in Runs \ {r} : task'[q] = task[q] /\ outcome'[q] = outcome[q]
        /\ task'[r] \in {"running", "waiting", "recording"}
    BY <1>1 DEF Emit, Finish, TypeOK
  <2>2. \A q \in Runs \ {r} : emitted'[q] = emitted[q] /\ dropped'[q] = dropped[q]
    BY <1>1 DEF Emit, Finish, Push, TypeOK
  <2>3. /\ dropped'[r] <= emitted'[r] /\ dropped'[r] >= dropped[r]
        /\ r \in activeRuns => emitted'[r] - dropped'[r] <= MaxEvents
    BY <1>1, SizesAssumption DEF Emit, Finish, Push, LogLength, LogInv, TypeOK
  <2>4. ASSUME NEW q \in Runs
        PROVE  /\ dropped'[q] <= emitted'[q] /\ dropped'[q] >= dropped[q]
               /\ q \in activeRuns' => emitted'[q] - dropped'[q] <= MaxEvents
    <3>1. CASE q = r
      BY <3>1, <2>1, <2>3
    <3>2. CASE q # r
      BY <3>2, <2>1, <2>2 DEF LogInv, LogLength, TypeOK
    <3> QED BY <3>1, <3>2
  <2>5. ASSUME NEW q \in Runs, task'[q] \in {"none", "inserted"}
        PROVE  emitted'[q] = 0 /\ dropped'[q] = 0 /\ outcome'[q] = "none"
    BY <2>1, <2>2, <2>5 DEF LogInv
  <2> QED BY <2>4, <2>5 DEF LogInv, LogLength
<1>2. ASSUME NEW r \in Runs, Register(r)
      PROVE  LogInv'
  <2>1. /\ UNCHANGED <<emitted, dropped, outcome>> /\ task[r] = "inserted"
        /\ task' = [task EXCEPT ![r] = "running"] /\ activeRuns' \subseteq activeRuns \cup {r}
    BY <1>2 DEF Register, With
  <2>2. emitted[r] = 0 /\ dropped[r] = 0
    BY <2>1 DEF LogInv
  <2> QED BY <2>1, <2>2, SizesAssumption DEF LogInv, LogLength, TypeOK
<1>3. ASSUME NEW r \in Runs,
             \/ InsertRun(r) \/ AnswerGate(r) \/ GateTimesOut(r) \/ Record(r)
             \/ ExecutorThrows(r) \/ Catch(r) \/ CleanUp(r) \/ Sweep(r)
      PROVE  LogInv' /\ UNCHANGED dropped
  BY <1>3 DEF InsertRun, AnswerGate, GateTimesOut, Record, ExecutorThrows, Catch, CleanUp,
              Sweep, LogInv, LogLength, TypeOK
<1>4. ASSUME NEW s \in Streams,
             \/ \E r \in Runs : OpenStream(s, r)
             \/ Attach(s) \/ Poll(s) \/ Leave(s)
      PROVE  LogInv' /\ UNCHANGED dropped
  BY <1>4 DEF OpenStream, Attach, Poll, Leave, LogInv, LogLength
<1>5. ASSUME UNCHANGED vars \/ Crash
      PROVE  LogInv' /\ UNCHANGED dropped
  BY <1>5 DEF vars, Crash, LogInv, LogLength, TypeOK
<1>6. ASSUME NEW r \in Runs, Register(r)
      PROVE  UNCHANGED dropped
  BY <1>6 DEF Register
<1>7. UNCHANGED dropped => \A r \in Runs : dropped'[r] >= dropped[r]
  BY DEF TypeOK
<1> QED BY <1>1, <1>2, <1>3, <1>4, <1>5, <1>6, <1>7 DEF Next

-------------------------------------------------------------------------------
(* The registry *)

\* A registry with entries has a first one.
LEMMA OldestFirst ==
  ASSUME TypeOK, activeRuns # {}
  PROVE  Oldest \in activeRuns /\ \A q \in activeRuns : rank[Oldest] <= rank[q]
<1> DEFINE places == {rank[q] : q \in activeRuns}
<1>1. places \subseteq Nat /\ places # {}
  BY DEF TypeOK
<1>2. \E n \in places : \A m \in places : ~ (<<m, n>> \in OpToRel(<, Nat))
  <2> HIDE DEF places
  <2> QED BY <1>1, NatLessThanWellFounded, WFMin
<1>3. PICK n \in places : \A m \in places : ~ (m < n)
  BY <1>1, <1>2 DEF OpToRel
<1>4. PICK r \in activeRuns : n = rank[r]
  BY <1>3
<1>5. \A q \in activeRuns : rank[r] <= rank[q]
  BY <1>1, <1>3, <1>4
<1> QED BY <1>4, <1>5 DEF Oldest

\* Entries have different places, so no more fit between the oldest and the last.
LEMMA OldestFarBack ==
  ASSUME TypeOK, RegistryInv, activeRuns # {}
  PROVE  Cardinality(activeRuns) <= starts - rank[Oldest] + 1
<1>1. Oldest \in activeRuns /\ \A q \in activeRuns : rank[Oldest] <= rank[q]
  BY OldestFirst
<1> DEFINE lo == rank[Oldest]
<1> DEFINE f == [q \in activeRuns |-> rank[q]]
<1>2. lo \in Nat /\ starts \in Nat /\ lo <= starts /\ lo > 0
  BY <1>1 DEF TypeOK, RegistryInv
<1>3. \A q \in activeRuns : f[q] \in lo .. starts
  BY <1>1, <1>2 DEF TypeOK, RegistryInv
<1>4. \A q, p \in activeRuns : f[q] = f[p] => q = p
  BY DEF TypeOK, RegistryInv
<1>5. f \in Injection(activeRuns, lo .. starts)
  BY <1>3, <1>4 DEF Injection, IsInjective
<1> HIDE DEF f, lo
<1>6. IsFiniteSet(lo .. starts) /\ Cardinality(lo .. starts) = starts - lo + 1
  <2>1. lo \in Int /\ starts \in Int /\ ~ (lo > starts)
    BY <1>2
  <2> QED BY <2>1, FS_Interval
<1>7. Cardinality(activeRuns) <= Cardinality(lo .. starts)
  BY <1>5, <1>6, FS_Injection
<1> QED BY <1>6, <1>7 DEF lo

\* A registration keeps the cap and makes room at the far end only.
LEMMA RegisterStep ==
  ASSUME TypeOK, RegistryInv, RecentRunsReachable, NEW r \in Runs, Register(r)
  PROVE  RegistryInv' /\ RecentRunsReachable'
<1> USE DEF log, registry, clients, history, Goto
<1> DEFINE full == Cardinality(activeRuns) >= MaxActiveRuns
<1> DEFINE kept == IF full THEN activeRuns \ {Oldest} ELSE activeRuns
<1>1. /\ task[r] = "inserted" /\ task' = [task EXCEPT ![r] = "running"]
      /\ activeRuns' = kept \cup {r} /\ starts' = starts + 1
      /\ rank' = [rank EXCEPT ![r] = starts + 1] /\ UNCHANGED swept
  BY DEF Register, With, Full
<1>2. r \notin activeRuns /\ kept \subseteq activeRuns
  BY <1>1 DEF RegistryInv
<1>3. IsFiniteSet(activeRuns) /\ Cardinality(activeRuns) \in Nat
  BY RunsAssumption, FS_Subset, FS_CardinalityType DEF TypeOK
<1>4. full => Oldest \in activeRuns /\ starts + 1 - rank[Oldest] >= MaxActiveRuns
  <2>1. activeRuns = {} => Cardinality(activeRuns) = 0
    BY FS_EmptySet
  <2>2. full => activeRuns # {}
    BY <1>3, <2>1, SizesAssumption
  <2>3. full => Oldest \in activeRuns /\ Cardinality(activeRuns) <= starts - rank[Oldest] + 1
    BY <2>2, OldestFirst, OldestFarBack
  <2>4. Oldest \in activeRuns => rank[Oldest] \in Nat
    BY DEF TypeOK
  <2> QED BY <1>3, <2>3, <2>4, SizesAssumption DEF TypeOK
<1>5. Cardinality(activeRuns') <= MaxActiveRuns
  <2>1. IsFiniteSet(kept) /\ Cardinality(kept) \in Nat /\ Cardinality(kept) < MaxActiveRuns
    <3>1. CASE full
      <4>1. IsFiniteSet(kept) /\ Cardinality(kept) = Cardinality(activeRuns) - 1
        BY <1>3, <1>4, <3>1, FS_RemoveElement
      <4>2. Cardinality(kept) \in Nat
        BY <4>1, FS_CardinalityType
      <4> QED BY <1>3, <4>1, <4>2, SizesAssumption DEF RegistryInv
    <3>2. CASE ~ full
      BY <1>3, <3>2, SizesAssumption
    <3> QED BY <3>1, <3>2
  <2> HIDE DEF kept
  <2>2. /\ IsFiniteSet(kept \cup {r})
        /\ Cardinality(kept \cup {r}) \in {Cardinality(kept), Cardinality(kept) + 1}
    BY <2>1, FS_AddElement
  <2>3. Cardinality(kept \cup {r}) \in Nat
    BY <2>2, FS_CardinalityType
  <2> QED BY <1>1, <2>1, <2>2, <2>3, SizesAssumption
<1>6. \A q \in Runs : rank'[q] = IF q = r THEN starts + 1 ELSE rank[q]
  BY <1>1 DEF TypeOK
<1>7. \A q \in Runs : task'[q] = IF q = r THEN "running" ELSE task[q]
  BY <1>1 DEF TypeOK
<1>8. \A q \in Runs : rank[q] \in Nat /\ rank[q] <= starts /\ starts \in Nat
  BY DEF TypeOK, RegistryInv
<1>9. RegistryInv'
  <2>1. \A q \in Runs : rank'[q] <= starts'
    BY <1>1, <1>6, <1>8
  <2>2. \A q \in activeRuns' : rank'[q] > 0 /\ task'[q] \notin {"none", "inserted", "dead"}
    BY <1>1, <1>2, <1>6, <1>7, <1>8 DEF RegistryInv, TypeOK
  <2>3. \A p, q \in Runs : p # q /\ rank'[p] = rank'[q] => rank'[p] = 0
    BY <1>6, <1>8 DEF RegistryInv
  <2>4. \A q \in Runs : task'[q] \in {"none", "inserted"} => rank'[q] = 0
    BY <1>6, <1>7 DEF RegistryInv
  <2>5. \A q \in Runs : Executing(q)' => rank'[q] > 0
    BY <1>6, <1>7, <1>8 DEF RegistryInv, Executing
  <2> QED BY <1>5, <2>1, <2>2, <2>3, <2>4, <2>5 DEF RegistryInv, Executing
<1>10. ASSUME NEW q \in Runs, Executing(q)', q \notin activeRuns'
       PROVE  q \in swept' \/ starts' - rank'[q] >= MaxActiveRuns
  <2>1. q # r /\ Executing(q) /\ rank'[q] = rank[q]
    BY <1>1, <1>6, <1>7, <1>10 DEF Executing
  <2>2. CASE q \in activeRuns
    <3>1. full /\ q = Oldest
      BY <1>1, <1>10, <2>2
    <3>2. starts + 1 - rank[q] >= MaxActiveRuns
      BY <1>4, <3>1
    <3>3. starts' = starts + 1 /\ rank'[q] = rank[q]
      BY <1>1, <2>1
    <3> QED BY <1>8, <3>2, <3>3, SizesAssumption
  <2>3. CASE q \notin activeRuns
    BY <1>1, <1>8, <2>1, <2>3, SizesAssumption DEF RecentRunsReachable
  <2> QED BY <2>2, <2>3
<1> QED BY <1>9, <1>10 DEF RecentRunsReachable

\* The registry keeps its order, its cap, and the runs that are neither stale
\* nor overtaken.
LEMMA RegistryStep ==
  ASSUME TypeOK, RegistryInv, RecentRunsReachable, [Next]_vars
  PROVE  RegistryInv' /\ RecentRunsReachable'
<1> USE DEF log, registry, clients, history, Goto
<1>0. \A S \in SUBSET activeRuns :
        Cardinality(activeRuns) <= MaxActiveRuns => Cardinality(S) <= MaxActiveRuns
  <2>1. IsFiniteSet(activeRuns)
    BY RunsAssumption, FS_Subset DEF TypeOK
  <2> TAKE S \in SUBSET activeRuns
  <2>2. IsFiniteSet(S) /\ Cardinality(S) <= Cardinality(activeRuns)
    BY <2>1, FS_Subset
  <2>3. Cardinality(S) \in Nat /\ Cardinality(activeRuns) \in Nat
    BY <2>1, <2>2, FS_CardinalityType
  <2> QED BY <2>2, <2>3, SizesAssumption
<1>1. ASSUME NEW r \in Runs, Register(r)
      PROVE  RegistryInv' /\ RecentRunsReachable'
  BY <1>1, RegisterStep
<1>2. ASSUME NEW r \in Runs, InsertRun(r)
      PROVE  RegistryInv' /\ RecentRunsReachable'
  <2>1. UNCHANGED <<activeRuns, rank, starts, swept>> /\ task' = [task EXCEPT ![r] = "inserted"]
        /\ task[r] = "none"
    BY <1>2 DEF InsertRun
  <2>2. \A q \in Runs : task'[q] = IF q = r THEN "inserted" ELSE task[q]
    BY <2>1 DEF TypeOK
  <2>3. r \notin activeRuns
    BY <2>1 DEF RegistryInv
  <2> QED BY <2>1, <2>2, <2>3 DEF RegistryInv, RecentRunsReachable, Executing, TypeOK
<1>3. ASSUME NEW r \in Runs,
             \/ Emit(r) \/ AnswerGate(r) \/ GateTimesOut(r) \/ Finish(r)
             \/ Record(r) \/ ExecutorThrows(r) \/ Catch(r)
      PROVE  RegistryInv' /\ RecentRunsReachable'
  <2>1. UNCHANGED <<activeRuns, rank, starts, swept>>
    BY <1>3 DEF Emit, AnswerGate, GateTimesOut, Finish, Record, ExecutorThrows, Catch
  <2>2. Executing(r)
    BY <1>3 DEF Emit, AnswerGate, GateTimesOut, Finish, Record, ExecutorThrows, Catch,
                Executing
  <2>3. \E step \in {"running", "waiting", "recording", "throwing", "over"} :
          task' = [task EXCEPT ![r] = step] \/ task' = task
    BY <1>3 DEF Emit, AnswerGate, GateTimesOut, Finish, Record, ExecutorThrows, Catch
  <2>4. /\ \A q \in Runs \ {r} : task'[q] = task[q]
        /\ task'[r] \in {"running", "waiting", "recording", "throwing", "over"}
    BY <2>2, <2>3 DEF TypeOK, Executing
  <2>5. \A q \in Runs : Executing(q)' => Executing(q)
    BY <2>2, <2>4 DEF Executing
  <2>6. \A q \in activeRuns : task'[q] \notin {"none", "inserted", "dead"}
    BY <2>4 DEF RegistryInv, TypeOK
  <2>7. \A q \in Runs : task'[q] \in {"none", "inserted"} => task[q] \in {"none", "inserted"}
    BY <2>4
  <2>8. RecentRunsReachable'
    BY <2>1, <2>5 DEF RecentRunsReachable
  <2> QED BY <2>1, <2>5, <2>6, <2>7, <2>8 DEF RegistryInv
<1>4. ASSUME NEW r \in Runs, CleanUp(r)
      PROVE  RegistryInv' /\ RecentRunsReachable'
  <2>1. UNCHANGED <<task, rank, starts, swept>> /\ activeRuns' = activeRuns \ {r}
        /\ task[r] = "over"
    BY <1>4 DEF CleanUp
  <2>2. RegistryInv'
    BY <1>0, <2>1 DEF RegistryInv, Executing
  <2>3. ~ Executing(r)
    BY <2>1 DEF Executing
  <2> QED BY <2>1, <2>2, <2>3 DEF RecentRunsReachable, Executing
<1>5. ASSUME NEW r \in Runs, Sweep(r)
      PROVE  RegistryInv' /\ RecentRunsReachable'
  <2>1. UNCHANGED <<task, rank, starts>> /\ activeRuns' = activeRuns \ Stale(r)
        /\ swept' = swept \cup Stale(r)
    BY <1>5 DEF Sweep
  <2>2. RegistryInv'
    BY <1>0, <2>1 DEF RegistryInv, Executing
  <2> QED BY <2>1, <2>2 DEF RecentRunsReachable, Executing
<1>6. CASE Crash
  <2>1. UNCHANGED <<rank, starts, swept>> /\ activeRuns' = {}
    BY <1>6 DEF Crash
  <2>2. \A q \in Runs : task'[q] = IF task[q] \in {"none", "over"} THEN task[q] ELSE "dead"
    BY <1>6 DEF Crash
  <2>3. \A q \in Runs : ~ Executing(q)'
    BY <2>2 DEF Executing
  <2>4. \A q \in Runs : task'[q] \in {"none", "inserted"} => task[q] \in {"none", "inserted"}
    BY <2>2
  <2>5. Cardinality(activeRuns') <= MaxActiveRuns
    BY <1>0, <2>1 DEF RegistryInv
  <2> QED BY <2>1, <2>3, <2>4, <2>5 DEF RegistryInv, RecentRunsReachable
<1>7. ASSUME \/ UNCHANGED vars
             \/ \E s \in Streams :
                  \/ \E r \in Runs : OpenStream(s, r)
                  \/ Attach(s) \/ Poll(s) \/ Leave(s)
      PROVE  RegistryInv' /\ RecentRunsReachable'
  <2>1. UNCHANGED <<activeRuns, rank, starts, swept, task>>
    BY <1>7 DEF vars, OpenStream, Attach, Poll, Leave
  <2> QED BY <2>1 DEF RegistryInv, RecentRunsReachable, Executing
<1> QED BY <1>1, <1>2, <1>3, <1>4, <1>5, <1>6, <1>7 DEF Next

-------------------------------------------------------------------------------
(* Rows *)

\* A terminal event and an end in the row are never taken back.
Final(r) ==
  /\ row[r] \in {"done", "failed"} => row'[r] = row[r]
  /\ outcome'[r] # outcome[r] => outcome[r] = "none" /\ row[r] \notin {"done", "failed"}
  /\ r \in unrecorded => r \in unrecorded'

RowOf(r) ==
  /\ row[r] = "done" => outcome[r] = "complete"
  /\ row[r] = "failed" /\ outcome[r] = "complete" => r \in unrecorded
  /\ task[r] = "throwing" /\ outcome[r] = "complete" => r \in unrecorded
  /\ task[r] \in {"running", "waiting"} => outcome[r] = "none"
  /\ task[r] = "recording" => outcome[r] # "none"
  /\ task[r] \notin {"over", "dead"} => row[r] \in {"none", "running"}
  /\ task[r] = "over" => row[r] \in {"done", "failed"} \/ r \in unrecorded

LEMMA RowSame ==
  ASSUME RowInv, NEW r \in Runs, row'[r] = row[r], outcome'[r] = outcome[r],
         task'[r] = task[r], r \in unrecorded' <=> r \in unrecorded
  PROVE  RowOf(r)' /\ Final(r)
BY DEF RowInv, RowOf, Final

\* A row follows the executor's terminal event, or one of its updates has failed.
LEMMA RowStep ==
  ASSUME TypeOK, LogInv, RowInv, [Next]_vars
  PROVE  RowInv' /\ \A r \in Runs : Final(r)
<1> USE DEF log, registry, clients, history, Goto
<1> SUFFICES ASSUME NEW q \in Runs PROVE RowOf(q)' /\ Final(q)
  BY DEF RowInv, RowOf
<1>0. RowOf(q)
  BY DEF RowInv, RowOf
<1>1. ASSUME NEW r \in Runs, r # q,
             \/ InsertRun(r) \/ Register(r) \/ Emit(r) \/ AnswerGate(r) \/ GateTimesOut(r)
             \/ Finish(r) \/ Record(r) \/ ExecutorThrows(r) \/ Catch(r) \/ CleanUp(r)
             \/ Sweep(r)
      PROVE  RowOf(q)' /\ Final(q)
  <2>1. \E v \in Statuses : row' = [row EXCEPT ![r] = v] \/ row' = row
    BY <1>1 DEF InsertRun, Register, Emit, AnswerGate, GateTimesOut, Finish, Record, StatusOf,
                ExecutorThrows, Catch, CleanUp, Sweep, Statuses
  <2>2. \E v \in Tasks : task' = [task EXCEPT ![r] = v] \/ task' = task
    BY <1>1 DEF InsertRun, Register, Emit, AnswerGate, GateTimesOut, Finish, Record,
                ExecutorThrows, Catch, CleanUp, Sweep, Tasks
  <2>3. \E v \in Outcomes : outcome' = [outcome EXCEPT ![r] = v] \/ outcome' = outcome
    BY <1>1 DEF InsertRun, Register, Emit, AnswerGate, GateTimesOut, Finish, Record,
                ExecutorThrows, Catch, CleanUp, Sweep, Outcomes
  <2>4. q \in unrecorded' <=> q \in unrecorded
    BY <1>1 DEF InsertRun, Register, Emit, AnswerGate, GateTimesOut, Finish, Record,
                ExecutorThrows, Catch, CleanUp, Sweep
  <2>5. row'[q] = row[q] /\ task'[q] = task[q] /\ outcome'[q] = outcome[q]
    BY <1>1, <2>1, <2>2, <2>3 DEF TypeOK
  <2> QED BY <2>4, <2>5, RowSame
<1>2. CASE InsertRun(q)
  <2>1. outcome[q] = "none" /\ task[q] = "none"
    BY <1>2 DEF LogInv, InsertRun
  <2>2. /\ row'[q] = "running" /\ task'[q] = "inserted"
        /\ UNCHANGED <<outcome, unrecorded>>
    BY <1>2 DEF InsertRun, TypeOK
  <2> QED BY <1>0, <2>1, <2>2 DEF RowOf, Final
<1>3. CASE Register(q)
  <2>1. outcome[q] = "none" /\ task[q] = "inserted"
    BY <1>3 DEF LogInv, Register
  <2>2. task'[q] = "running" /\ UNCHANGED <<row, outcome, unrecorded>>
    BY <1>3 DEF Register, TypeOK
  <2> QED BY <1>0, <2>1, <2>2 DEF RowOf, Final
<1>4. CASE Emit(q) \/ AnswerGate(q) \/ GateTimesOut(q)
  <2>1. task[q] \in {"running", "waiting"} /\ task'[q] \in {"running", "waiting"}
    BY <1>4 DEF Emit, AnswerGate, GateTimesOut, TypeOK
  <2>2. UNCHANGED <<row, outcome, unrecorded>>
    BY <1>4 DEF Emit, AnswerGate, GateTimesOut
  <2> QED BY <1>0, <2>1, <2>2 DEF RowOf, Final
<1>5. CASE Finish(q)
  <2>1. /\ task[q] = "running" /\ task'[q] = "recording" /\ outcome'[q] # "none"
        /\ UNCHANGED <<row, unrecorded>>
    BY <1>5 DEF Finish, TypeOK
  <2> QED BY <1>0, <2>1 DEF RowOf, Final
<1>6. CASE Record(q)
  <2>1. task[q] = "recording" /\ UNCHANGED outcome
    BY <1>6 DEF Record
  <2>2. \/ task'[q] = "over" /\ row'[q] = StatusOf(outcome[q]) /\ UNCHANGED unrecorded
        \/ task'[q] = "throwing" /\ unrecorded' = unrecorded \cup {q} /\ UNCHANGED row
    BY <1>6 DEF Record, TypeOK
  <2> QED BY <1>0, <2>1, <2>2 DEF RowOf, Final, StatusOf
<1>7. CASE ExecutorThrows(q)
  <2>1. /\ task[q] = "running" /\ task'[q] = "throwing"
        /\ UNCHANGED <<row, outcome, unrecorded>>
    BY <1>7 DEF ExecutorThrows, TypeOK
  <2> QED BY <1>0, <2>1 DEF RowOf, Final
<1>8. CASE Catch(q)
  <2>1. task[q] = "throwing" /\ task'[q] = "over" /\ UNCHANGED outcome
    BY <1>8 DEF Catch, TypeOK
  <2>2. \/ row'[q] = "failed" /\ UNCHANGED unrecorded
        \/ unrecorded' = unrecorded \cup {q} /\ UNCHANGED row
    BY <1>8 DEF Catch, TypeOK
  <2> QED BY <1>0, <2>1, <2>2 DEF RowOf, Final
<1>9. ASSUME \/ UNCHANGED vars
             \/ CleanUp(q) \/ Sweep(q)
             \/ \E s \in Streams :
                  \/ \E r \in Runs : OpenStream(s, r)
                  \/ Attach(s) \/ Poll(s) \/ Leave(s)
      PROVE  RowOf(q)' /\ Final(q)
  <2>1. UNCHANGED <<row, task, outcome, unrecorded>>
    BY <1>9 DEF vars, CleanUp, Sweep, OpenStream, Attach, Poll, Leave
  <2> QED BY <2>1, RowSame
<1>10. CASE Crash
  <2>1. UNCHANGED <<row, outcome, unrecorded>>
    BY <1>10 DEF Crash
  <2>2. task'[q] = IF task[q] \in {"none", "over"} THEN task[q] ELSE "dead"
    BY <1>10 DEF Crash
  <2> QED BY <1>0, <2>1, <2>2 DEF RowOf, Final
<1> QED BY <1>1, <1>2, <1>3, <1>4, <1>5, <1>6, <1>7, <1>8, <1>9, <1>10 DEF Next

-------------------------------------------------------------------------------
(* The streams *)

\* What a stream has sent, with its run's log at d.
InOrder(w, d) ==
  /\ \A i, j \in 1 .. Len(w) : i < j => w[i] < w[j]
  /\ \A i \in 1 .. Len(w) : w[i] - i \in 0 .. d
  /\ Len(w) <= MaxEvents

\* The events of the log from the index of the stream on continue what it sent.
LEMMA Continues ==
  ASSUME NEW w \in Seq(Nat), NEW u \in Seq(Nat), NEW d \in Nat, InOrder(w, d),
         \A i \in 1 .. Len(u) : u[i] = d + Len(w) + i,
         Len(w) + Len(u) <= MaxEvents
  PROVE  InOrder(w \o u, d)
<1>1. Len(w) \in Nat /\ Len(u) \in Nat /\ Len(w \o u) = Len(w) + Len(u)
  OBVIOUS
<1>2. \A i \in 1 .. Len(w \o u) :
        (w \o u)[i] = IF i <= Len(w) THEN w[i] ELSE d + i
  <2> TAKE i \in 1 .. Len(w \o u)
  <2>1. CASE i <= Len(w)
    BY <1>1, <2>1
  <2>2. CASE i > Len(w)
    <3>1. (w \o u)[i] = u[i - Len(w)] /\ i - Len(w) \in 1 .. Len(u)
      BY <1>1, <2>2
    <3> QED BY <1>1, <2>2, <3>1
  <2> QED BY <1>1, <2>1, <2>2
<1>3. \A i \in 1 .. Len(w) : w[i] \in Nat /\ w[i] <= d + i /\ w[i] >= i
  BY <1>1 DEF InOrder
<1>4. \A i, j \in 1 .. Len(w \o u) : i < j => (w \o u)[i] < (w \o u)[j]
  BY <1>1, <1>2, <1>3 DEF InOrder
<1>5. \A i \in 1 .. Len(w \o u) : (w \o u)[i] - i \in 0 .. d
  BY <1>1, <1>2, <1>3
<1> QED BY <1>1, <1>4, <1>5 DEF InOrder

ClientOf(s) ==
  /\ cursor[s] = Len(sent[s])
  /\ client[s] \in {"absent", "opening"} => sent[s] = << >> /\ told[s] = "none"
  /\ client[s] = "absent" => seen[s] = "none"
  /\ seen[s] \in {"done", "failed"} => row[run[s]] = seen[s]
  /\ told[s] = "error" => outcome[run[s]] = "error" \/ row[run[s]] = "failed"
  /\ told[s] = "complete" => outcome[run[s]] = "complete"
  /\ InOrder(sent[s], dropped[run[s]])

\* A stream that a step leaves alone keeps what it has, whatever its run does.
LEMMA ClientSame ==
  ASSUME TypeOK, TypeOK', NEW s \in Streams, ClientOf(s),
         UNCHANGED <<cursor[s], sent[s], told[s], seen[s], run[s]>>,
         client'[s] \in {client[s], "ended"}, client[s] = "absent" => client'[s] = "absent",
         \A r \in Runs : Final(r) /\ dropped'[r] >= dropped[r]
  PROVE  ClientOf(s)'
<1>1. CASE client[s] = "absent"
  <2>1. sent[s] = << >> /\ told[s] = "none" /\ seen[s] = "none" /\ Len(sent[s]) = 0
    BY <1>1 DEF ClientOf
  <2>2. InOrder(sent[s], dropped[run[s]])'
    BY <2>1, SizesAssumption DEF InOrder
  <2> QED BY <2>1, <2>2 DEF ClientOf
<1>2. CASE client[s] # "absent"
  <2>1. run[s] \in Runs
    BY <1>2 DEF TypeOK
  <2>2. dropped[run[s]] \in Nat /\ dropped'[run[s]] \in Nat /\ dropped'[run[s]] >= dropped[run[s]]
    BY <2>1 DEF TypeOK
  <2>3. \A i \in 1 .. Len(sent[s]) : sent[s][i] \in Nat
    BY DEF TypeOK
  <2>4. InOrder(sent[s], dropped[run[s]])'
    <3>1. InOrder(sent[s], dropped[run[s]]) /\ Len(sent[s]) \in Nat
      BY DEF ClientOf, TypeOK
    <3> QED BY <2>2, <2>3, <3>1 DEF InOrder
  <2>5. Final(run[s])
    BY <2>1
  <2> QED BY <1>2, <2>4, <2>5 DEF ClientOf, Final
<1> QED BY <1>1, <1>2

\* A stream writes on from its index.
LEMMA WriteStep ==
  ASSUME TypeOK, LogInv, NEW s \in Streams, run[s] \in activeRuns, ClientOf(s), WriteEvents(s)
  PROVE  /\ cursor'[s] = Len(sent'[s])
         /\ InOrder(sent'[s], dropped[run[s]])
         /\ told'[s] \in {told[s], outcome[run[s]]}
<1> DEFINE r == run[s]
<1> DEFINE u == Unsent(r, cursor[s])
<1>1. r \in Runs /\ cursor[s] \in Nat /\ sent[s] \in Seq(Nat) /\ cursor[s] = Len(sent[s])
      /\ dropped[r] \in Nat /\ LogLength(r) \in Int /\ LogLength(r) <= MaxEvents
  BY DEF TypeOK, ClientOf, LogInv, LogLength
<1>2. /\ u \in Seq(Nat)
      /\ Len(u) = IF cursor[s] < LogLength(r) THEN LogLength(r) - cursor[s] ELSE 0
      /\ \A i \in 1 .. Len(u) : u[i] = dropped[r] + Len(sent[s]) + i
  BY <1>1, UnsentType
<1>3. /\ sent'[s] = sent[s] \o u /\ cursor'[s] = cursor[s] + Len(u)
      /\ told'[s] \in {told[s], outcome[r]}
  BY DEF WriteEvents, TypeOK
<1> HIDE DEF u, r
<1>4. InOrder(sent[s], dropped[r]) /\ Len(sent[s]) <= MaxEvents
  BY DEF ClientOf, InOrder, r
<1>5. Len(sent[s]) + Len(u) <= MaxEvents /\ Len(u) \in Nat
  BY <1>1, <1>2, <1>4, SizesAssumption
<1>6. InOrder(sent[s] \o u, dropped[r])
  BY <1>1, <1>2, <1>4, <1>5, Continues
<1>7. Len(sent[s] \o u) = Len(sent[s]) + Len(u)
  <2>1. \A v, w \in Seq(Nat) : Len(v \o w) = Len(v) + Len(w)
    OBVIOUS
  <2> QED BY <1>1, <1>2, <2>1
<1> QED BY <1>1, <1>3, <1>6, <1>7 DEF r

\* Attaching, polling and leaving keep a stream in order and true to its run.
LEMMA StreamStep ==
  ASSUME TypeOK, TypeOK', LogInv, RowInv, NEW s \in Streams, ClientOf(s),
         Attach(s) \/ Poll(s)
  PROVE  ClientOf(s)'
<1> USE DEF log, registry, clients, history
<1>1. /\ UNCHANGED <<row, outcome, dropped, run, seen>> /\ run[s] \in Runs
      /\ client[s] \in {"opening", "live"} /\ client'[s] \in {"live", "ended"}
  BY DEF Attach, Poll, TypeOK
<1>2. CASE run[s] \in activeRuns
  <2>1. WriteEvents(s)
    BY <1>2 DEF Attach, Poll
  <2>2. /\ cursor'[s] = Len(sent'[s])
        /\ InOrder(sent'[s], dropped[run[s]])
        /\ told'[s] \in {told[s], outcome[run[s]]}
    BY <1>2, <2>1, WriteStep
  <2> QED BY <1>1, <2>2 DEF ClientOf
<1>3. CASE run[s] \notin activeRuns
  <2>1. UNCHANGED <<cursor, sent>> /\ told'[s] \in {told[s], SeenOutcome(s)}
    BY <1>3 DEF Attach, Poll, TypeOK
  <2>2. /\ SeenOutcome(s) = "complete" => row[run[s]] = "done"
        /\ SeenOutcome(s) = "error" => row[run[s]] = "failed"
    BY DEF SeenOutcome, ClientOf
  <2>3. row[run[s]] = "done" => outcome[run[s]] = "complete"
    BY <1>1 DEF RowInv
  <2> QED BY <1>1, <2>1, <2>2, <2>3 DEF ClientOf
<1> QED BY <1>2, <1>3

LEMMA ClientsKept ==
  ASSUME TypeOK, TypeOK', LogInv, RegistryInv, RowInv, \A s \in Streams : ClientOf(s),
         [Next]_vars
  PROVE  \A s \in Streams : ClientOf(s)'
<1> USE DEF log, registry, clients, history
<1>0. \A r \in Runs : Final(r) /\ dropped'[r] >= dropped[r]
  BY RowStep, LogStep
<1> SUFFICES ASSUME NEW s \in Streams PROVE ClientOf(s)'
  OBVIOUS
<1>1. ASSUME \/ UNCHANGED vars
             \/ \E r \in Runs :
                  \/ InsertRun(r) \/ Register(r) \/ Emit(r) \/ AnswerGate(r) \/ GateTimesOut(r)
                  \/ Finish(r) \/ Record(r) \/ ExecutorThrows(r) \/ Catch(r) \/ CleanUp(r)
                  \/ Sweep(r)
      PROVE  ClientOf(s)'
  <2>1. UNCHANGED clients
    BY <1>1 DEF vars, InsertRun, Register, Emit, AnswerGate, GateTimesOut, Finish, Record,
                ExecutorThrows, Catch, CleanUp, Sweep
  <2> QED BY <1>0, <2>1, ClientSame
<1>2. CASE Crash
  <2>1. /\ UNCHANGED <<cursor, sent, told, seen, run>>
        /\ client'[s] = IF client[s] = "absent" THEN "absent" ELSE "ended"
    BY <1>2 DEF Crash
  <2> QED BY <1>0, <2>1, ClientSame
<1>3. ASSUME NEW t \in Streams, t # s,
             \/ \E r \in Runs : OpenStream(t, r)
             \/ Attach(t) \/ Poll(t) \/ Leave(t)
      PROVE  ClientOf(s)'
  <2>1. /\ cursor'[s] = cursor[s] /\ sent'[s] = sent[s] /\ told'[s] = told[s]
        /\ seen'[s] = seen[s] /\ run'[s] = run[s] /\ client'[s] = client[s]
    <3>1. CASE \E r \in Runs : OpenStream(t, r)
      BY <1>3, <3>1 DEF OpenStream, TypeOK
    <3>2. CASE Attach(t) \/ Poll(t)
      BY <1>3, <3>2 DEF Attach, Poll, WriteEvents, TypeOK
    <3>3. CASE Leave(t)
      BY <1>3, <3>3 DEF Leave, TypeOK
    <3> QED BY <1>3, <3>1, <3>2, <3>3
  <2> QED BY <1>0, <2>1, ClientSame
<1>4. ASSUME NEW r \in Runs, OpenStream(s, r)
      PROVE  ClientOf(s)'
  <2>1. /\ client[s] = "absent" /\ client'[s] = "opening" /\ run'[s] = r /\ seen'[s] = row[r]
        /\ UNCHANGED <<row, outcome, dropped, cursor, sent, told>>
    BY <1>4 DEF OpenStream, TypeOK
  <2>2. sent[s] = << >> /\ told[s] = "none" /\ cursor[s] = Len(sent[s]) /\ Len(sent[s]) = 0
    BY <2>1 DEF ClientOf
  <2>3. InOrder(sent[s], dropped[run[s]])'
    BY <2>1, <2>2, SizesAssumption DEF InOrder
  <2> QED BY <2>1, <2>2, <2>3 DEF ClientOf
<1>5. CASE Attach(s) \/ Poll(s)
  BY <1>5, StreamStep
<1>6. CASE Leave(s)
  <2>1. /\ UNCHANGED <<cursor, sent, told, seen, run>> /\ client[s] = "live" /\ client'[s] = "ended"
    BY <1>6 DEF Leave, TypeOK
  <2> QED BY <1>0, <2>1, ClientSame
<1> QED BY <1>1, <1>2, <1>3, <1>4, <1>5, <1>6 DEF Next

\* What every stream keeps is what the properties say of all.
LEMMA ClientParts ==
  ASSUME TypeOK, RowInv
  PROVE  ClientInv /\ StreamsInOrder /\ StreamsAgree <=> \A s \in Streams : ClientOf(s)
<1>1. ASSUME ClientInv, StreamsInOrder, StreamsAgree, NEW s \in Streams
      PROVE  ClientOf(s)
  BY <1>1 DEF ClientInv, StreamsInOrder, StreamsAgree, ClientOf, InOrder
<1>2. ASSUME \A s \in Streams : ClientOf(s)
      PROVE  ClientInv /\ StreamsInOrder
  BY <1>2 DEF ClientInv, StreamsInOrder, ClientOf, InOrder
<1>3. ASSUME NEW s \in Streams, ClientOf(s)
      PROVE  /\ told[s] = "complete" => outcome[run[s]] = "complete"
             /\ told[s] = "error" /\ outcome[run[s]] = "complete" => run[s] \in unrecorded
  <2>1. CASE client[s] = "absent"
    BY <1>3, <2>1 DEF ClientOf
  <2>2. CASE client[s] # "absent"
    <3>1. run[s] \in Runs
      BY <2>2 DEF TypeOK
    <3> QED BY <1>3, <3>1 DEF ClientOf, RowInv
  <2> QED BY <2>1, <2>2
<1> QED BY <1>1, <1>2, <1>3 DEF StreamsAgree

-------------------------------------------------------------------------------
(* Ends *)

\* The log of a run that has yielded its terminal event stays as it is.
LEMMA LogClosed ==
  ASSUME TypeOK, RowInv, [Next]_vars, NEW q \in Runs, outcome[q] # "none"
  PROVE  LogLength(q)' = LogLength(q)
<1> USE DEF log, registry, clients, history
<1>1. ASSUME NEW r \in Runs, Emit(r) \/ Finish(r)
      PROVE  emitted'[q] = emitted[q] /\ dropped'[q] = dropped[q]
  <2>1. task[r] = "running" /\ Push(r)
    BY <1>1 DEF Emit, Finish
  <2>2. r # q
    BY <2>1 DEF RowInv
  <2> QED BY <2>1, <2>2 DEF Push, TypeOK
<1>2. ASSUME \/ UNCHANGED vars
             \/ \E r \in Runs :
                  \/ InsertRun(r) \/ Register(r) \/ AnswerGate(r) \/ GateTimesOut(r)
                  \/ Record(r) \/ ExecutorThrows(r) \/ Catch(r) \/ CleanUp(r) \/ Sweep(r)
             \/ \E s \in Streams :
                  \/ \E r \in Runs : OpenStream(s, r)
                  \/ Attach(s) \/ Poll(s) \/ Leave(s)
             \/ Crash
      PROVE  UNCHANGED <<emitted, dropped>>
  BY <1>2 DEF vars, InsertRun, Register, AnswerGate, GateTimesOut, Record, ExecutorThrows,
              Catch, CleanUp, Sweep, OpenStream, Attach, Poll, Leave, Crash
<1> QED BY <1>1, <1>2 DEF Next, LogLength

\* What EndInv says of one stream.
EndOf(s) ==
  told[s] # "none" =>
    \/ client[s] = "ended"
    \/ /\ client[s] = "live" /\ outcome[run[s]] # "none"
       /\ cursor[s] >= LogLength(run[s])

Settled(s) == told[s] # "none" => told'[s] = told[s] /\ sent'[s] = sent[s]

\* A stream that a step leaves alone keeps its end, for the log it came from is
\* closed.
LEMMA EndSame ==
  ASSUME TypeOK, NEW s \in Streams, EndOf(s),
         UNCHANGED <<cursor[s], sent[s], told[s], run[s]>>, client'[s] \in {client[s], "ended"},
         \A r \in Runs : Final(r) /\ (outcome[r] # "none" => LogLength(r)' = LogLength(r))
  PROVE  EndOf(s)' /\ Settled(s)
<1>1. CASE told[s] = "none" \/ client[s] = "ended"
  BY <1>1 DEF EndOf, Settled
<1>2. CASE told[s] # "none" /\ client[s] # "ended"
  <2>1. client[s] = "live" /\ outcome[run[s]] # "none" /\ cursor[s] >= LogLength(run[s])
    BY <1>2 DEF EndOf
  <2>2. run[s] \in Runs
    BY <2>1 DEF TypeOK
  <2>3. outcome'[run[s]] # "none" /\ LogLength(run[s])' = LogLength(run[s])
    BY <2>1, <2>2 DEF Final
  <2> QED BY <2>1, <2>3 DEF EndOf, Settled, LogLength
<1> QED BY <1>1, <1>2

\* What a stream writes leaves nothing unsent, and is nothing if it had sent all.
LEMMA WriteAll ==
  ASSUME TypeOK, NEW s \in Streams, run[s] \in Runs, WriteEvents(s)
  PROVE  /\ cursor'[s] >= LogLength(run[s])
         /\ \/ UNCHANGED <<sent[s], told[s]>>
            \/ told'[s] = outcome[run[s]] /\ cursor[s] < LogLength(run[s])
<1> DEFINE u == Unsent(run[s], cursor[s])
<1>1. cursor[s] \in Nat /\ LogLength(run[s]) \in Int /\ sent[s] \in Seq(Nat)
  BY DEF TypeOK, LogLength
<1>2. /\ u \in Seq(Nat)
      /\ Len(u) = IF cursor[s] < LogLength(run[s]) THEN LogLength(run[s]) - cursor[s] ELSE 0
  BY <1>1, UnsentType
<1>3. /\ sent'[s] = sent[s] \o u /\ cursor'[s] = cursor[s] + Len(u)
      /\ told'[s] = IF u # << >> THEN outcome[run[s]] ELSE told[s]
  BY DEF WriteEvents, TypeOK
<1> HIDE DEF u
<1>4. CASE u = << >>
  <2>1. Len(u) = 0 /\ sent[s] \o u = sent[s]
    BY <1>1, <1>4
  <2> QED BY <1>1, <1>2, <1>3, <1>4, <2>1
<1>5. CASE u # << >>
  <2>1. Len(u) > 0
    BY <1>2, <1>5
  <2> QED BY <1>1, <1>2, <1>3, <1>5, <2>1
<1> QED BY <1>4, <1>5

\* No step takes back what a run or a stream has ended with.
LEMMA EndStep ==
  ASSUME TypeOK, LogInv, RowInv, ClientInv, EndInv, [Next]_vars
  PROVE  EndInv' /\ \A s \in Streams : Settled(s)
<1> USE DEF log, registry, clients, history
<1>0. \A r \in Runs : Final(r) /\ (outcome[r] # "none" => LogLength(r)' = LogLength(r))
  BY RowStep, LogClosed
<1> SUFFICES ASSUME NEW s \in Streams PROVE EndOf(s)' /\ Settled(s)
  BY DEF EndInv, EndOf
<1>e. EndOf(s)
  BY DEF EndInv, EndOf
<1>1. ASSUME UNCHANGED <<cursor[s], sent[s], told[s], run[s]>>, client'[s] \in {client[s], "ended"}
      PROVE  EndOf(s)' /\ Settled(s)
  BY <1>0, <1>e, <1>1, EndSame
<1>2. ASSUME \/ UNCHANGED vars
             \/ \E r \in Runs :
                  \/ InsertRun(r) \/ Register(r) \/ Emit(r) \/ AnswerGate(r) \/ GateTimesOut(r)
                  \/ Finish(r) \/ Record(r) \/ ExecutorThrows(r) \/ Catch(r) \/ CleanUp(r)
                  \/ Sweep(r)
      PROVE  EndOf(s)' /\ Settled(s)
  <2>1. UNCHANGED clients
    BY <1>2 DEF vars, InsertRun, Register, Emit, AnswerGate, GateTimesOut, Finish, Record,
                ExecutorThrows, Catch, CleanUp, Sweep
  <2> QED BY <1>1, <2>1
<1>3. CASE Crash
  <2>1. UNCHANGED <<cursor, sent, told, run>> /\ client'[s] \in {client[s], "ended"}
    BY <1>3 DEF Crash
  <2> QED BY <1>1, <2>1
<1>4. ASSUME NEW t \in Streams, t # s,
             \/ \E r \in Runs : OpenStream(t, r)
             \/ Attach(t) \/ Poll(t) \/ Leave(t)
      PROVE  EndOf(s)' /\ Settled(s)
  <2>1. /\ cursor'[s] = cursor[s] /\ sent'[s] = sent[s] /\ told'[s] = told[s]
        /\ run'[s] = run[s] /\ client'[s] = client[s]
    <3>1. CASE \E r \in Runs : OpenStream(t, r)
      BY <1>4, <3>1 DEF OpenStream, TypeOK
    <3>2. CASE Attach(t) \/ Poll(t)
      BY <1>4, <3>2 DEF Attach, Poll, WriteEvents, TypeOK
    <3>3. CASE Leave(t)
      BY <1>4, <3>3 DEF Leave, TypeOK
    <3> QED BY <1>4, <3>1, <3>2, <3>3
  <2> QED BY <1>1, <2>1
<1>5. ASSUME NEW r \in Runs, OpenStream(s, r)
      PROVE  EndOf(s)' /\ Settled(s)
  <2>1. told[s] = "none" /\ told' = told
    BY <1>5 DEF OpenStream, ClientInv
  <2> QED BY <2>1 DEF EndOf, Settled
<1>6. CASE Leave(s)
  <2>1. UNCHANGED <<cursor, sent, told, run>> /\ client'[s] = "ended"
    BY <1>6 DEF Leave, TypeOK
  <2> QED BY <1>1, <2>1
<1>7. CASE (Attach(s) \/ Poll(s)) /\ run[s] \in activeRuns
  <2>1. /\ WriteEvents(s) /\ run[s] \in Runs /\ run' = run /\ outcome' = outcome
        /\ LogLength(run[s])' = LogLength(run[s])
        /\ client[s] \in {"opening", "live"} /\ client'[s] \in {"live", "ended"}
    BY <1>7 DEF Attach, Poll, TypeOK, LogLength
  <2>2. /\ cursor'[s] >= LogLength(run[s])
        /\ \/ UNCHANGED <<sent[s], told[s]>>
           \/ told'[s] = outcome[run[s]] /\ cursor[s] < LogLength(run[s])
    BY <2>1, WriteAll
  <2>3. told[s] # "none" =>
          outcome[run[s]] # "none" /\ cursor[s] >= LogLength(run[s])
    BY <1>e, <2>1 DEF EndOf
  <2>4. cursor[s] \in Nat /\ LogLength(run[s]) \in Int
    BY <2>1 DEF TypeOK, LogLength
  <2>5. Settled(s)
    BY <2>2, <2>3, <2>4 DEF Settled
  <2>6. told'[s] # "none" => outcome'[run'[s]] # "none"
    BY <2>1, <2>2, <2>3
  <2>7. EndOf(s)'
    BY <2>1, <2>2, <2>6 DEF EndOf, LogLength
  <2> QED BY <2>5, <2>7
<1>8. CASE Attach(s) /\ run[s] \notin activeRuns
  <2>1. told[s] = "none" /\ client'[s] = "ended"
    BY <1>8 DEF Attach, ClientInv, TypeOK
  <2> QED BY <2>1 DEF EndOf, Settled
<1>9. CASE Poll(s) /\ run[s] \notin activeRuns
  <2>1. UNCHANGED <<cursor, sent, told, run>> /\ client'[s] = "ended"
    BY <1>9 DEF Poll, TypeOK
  <2> QED BY <1>1, <2>1
<1> QED BY <1>2, <1>3, <1>4, <1>5, <1>6, <1>7, <1>8, <1>9 DEF Next

-------------------------------------------------------------------------------
(* The invariant *)

\* Runs, registry, rows and streams keep what IInv says of them.
THEOREM RunsInvariant == Spec => []IInv
<1>1. Init => IInv
  <2> SUFFICES ASSUME Init PROVE IInv
    OBVIOUS
  <2>1. TypeOK
    BY DEF Init, TypeOK, Outcomes, Statuses, Tasks
  <2>2. LogInv /\ RowInv
    BY SizesAssumption DEF Init, LogInv, RowInv, LogLength
  <2>3. RegistryInv /\ RecentRunsReachable
    <3>1. Cardinality(activeRuns) <= MaxActiveRuns
      BY FS_EmptySet, SizesAssumption DEF Init
    <3> QED BY <3>1 DEF Init, RegistryInv, RecentRunsReachable, Executing
  <2>4. ClientInv /\ EndInv /\ StreamsInOrder /\ StreamsAgree
    BY SizesAssumption DEF Init, ClientInv, EndInv, StreamsInOrder, StreamsAgree
  <2> QED BY <2>1, <2>2, <2>3, <2>4 DEF IInv
<1>3. TypeOK /\ RowInv /\ (\A s \in Streams : ClientOf(s))
        => ClientInv /\ StreamsInOrder /\ StreamsAgree
  BY ClientParts
<1>4. (TypeOK /\ RowInv /\ (\A s \in Streams : ClientOf(s))
        => ClientInv /\ StreamsInOrder /\ StreamsAgree)'
  BY <1>3, PTL
<1>2. IInv /\ [Next]_vars => IInv'
  <2> SUFFICES ASSUME IInv, [Next]_vars PROVE IInv'
    OBVIOUS
  <2>1. TypeOK'
    BY TypeStep DEF IInv
  <2>2. LogInv'
    BY LogStep DEF IInv
  <2>3. RegistryInv' /\ RecentRunsReachable'
    BY RegistryStep DEF IInv
  <2>4. RowInv'
    BY RowStep DEF IInv
  <2>5. \A s \in Streams : ClientOf(s)'
    <3>1. \A s \in Streams : ClientOf(s)
      BY ClientParts DEF IInv
    <3> QED BY <2>1, <3>1, ClientsKept DEF IInv
  <2>6. (ClientInv /\ StreamsInOrder /\ StreamsAgree)'
    BY <1>4, <2>1, <2>4, <2>5
  <2>7. EndInv'
    BY EndStep DEF IInv
  <2> QED BY <2>1, <2>2, <2>3, <2>4, <2>6, <2>7 DEF IInv
<1> QED BY <1>1, <1>2, PTL DEF Spec

\* A stream never repeats or reorders events, however the log is cut under it.
THEOREM StreamsKeepOrder == Spec => []StreamsInOrder
<1>1. IInv => StreamsInOrder
  BY DEF IInv
<1> QED BY <1>1, RunsInvariant, PTL

\* No two clients are told opposite ends of a run whose row could be updated.
THEOREM StreamsAgreeKept == Spec => []StreamsAgree
<1>1. IInv => StreamsAgree
  BY DEF IInv
<1> QED BY <1>1, RunsInvariant, PTL

\* The registry lets go of a run that executes only when it is stale or overtaken.
THEOREM RecentRunsKept == Spec => []RecentRunsReachable
<1>1. IInv => RecentRunsReachable
  BY DEF IInv
<1> QED BY <1>1, RunsInvariant, PTL

\* The end of a run is told, recorded and streamed once, and never taken back.
THEOREM EndsStayFinal == Spec => EndsAreFinal
<1> DEFINE Stays ==
      /\ \A r \in Runs :
           /\ outcome[r] # "none" => outcome'[r] = outcome[r]
           /\ row[r] \in {"done", "failed"} => row'[r] = row[r]
      /\ \A s \in Streams :
           told[s] # "none" => told'[s] = told[s] /\ sent'[s] = sent[s]
<1>1. IInv /\ [Next]_vars => [Stays]_vars
  <2> SUFFICES ASSUME IInv, [Next]_vars PROVE Stays
    OBVIOUS
  <2>1. \A r \in Runs : Final(r)
    BY RowStep DEF IInv
  <2>2. \A s \in Streams : Settled(s)
    BY EndStep DEF IInv
  <2> QED BY <2>1, <2>2 DEF Final, Settled
<1> QED BY <1>1, RunsInvariant, PTL DEF Spec, EndsAreFinal
===============================================================================
