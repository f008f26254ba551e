-------------------------- MODULE ProviderCall_proofs --------------------------
(***************************************************************************)
(* The retry budget of lib/retry.ts is balanced for every number of calls,  *)
(* every set of providers and all limits.                                   *)
(***************************************************************************)
EXTENDS ProviderCall, FiniteSetTheorems, TLAPS

Phased   == pc \in [Calls -> Phases]
Sleeping == {c \in Calls : pc[c] = "backoff"}

\* What a step may do to the budget: nothing, take a slot that is there for a
\* call that falls asleep, or give back the slot of one that wakes.
BudgetStep ==
  \/ Sleeping' = Sleeping /\ activeRetries' = activeRetries
  \/ \E c \in Calls \ Sleeping : /\ Sleeping' = Sleeping \cup {c}
                                 /\ activeRetries < RetryBudget
                                 /\ activeRetries' = activeRetries + 1
  \/ \E c \in Sleeping : /\ Sleeping' = Sleeping \ {c}
                         /\ activeRetries' = activeRetries - 1

\* A failed attempt sleeps on a slot of the budget or moves on without one.
LEMMA AttemptFailsStep ==
  ASSUME Phased, NEW c \in Calls, pc[c] # "backoff", NEW total, NEW tried,
         AttemptFails(c, total, tried)
  PROVE  Phased' /\ BudgetStep
<1>1. CASE MayRetry(c)
  <2>1. pc' = [pc EXCEPT ![c] = "backoff"] /\ activeRetries' = activeRetries + 1
    BY <1>1 DEF AttemptFails
  <2>2. Phased'
    BY <2>1 DEF Phased, Phases
  <2>3. Sleeping' = Sleeping \cup {c} /\ c \notin Sleeping
    BY <2>1 DEF Phased, Sleeping
  <2> QED BY <1>1, <2>1, <2>2, <2>3 DEF BudgetStep, MayRetry
<1>2. CASE ~MayRetry(c)
  <2>1. GiveUp(c, total, tried) /\ activeRetries' = activeRetries
    BY <1>2 DEF AttemptFails
  <2>2. PICK p \in {"request", "failed"} : pc' = [pc EXCEPT ![c] = p]
    BY <2>1 DEF GiveUp
  <2>3. Phased' /\ Sleeping' = Sleeping
    BY <2>2 DEF Phased, Phases, Sleeping
  <2> QED BY <2>1, <2>3 DEF BudgetStep
<1> QED BY <1>1, <1>2

\* A failed request asks the fallback, fails the call, or fails the attempt.
LEMMA AskFailsStep ==
  ASSUME Phased, NEW c \in Calls, pc[c] # "backoff", AskFails(c)
  PROVE  Phased' /\ BudgetStep
<1>1. CASE /\ \E p \in {"request", "failed"} : pc' = [pc EXCEPT ![c] = p]
           /\ activeRetries' = activeRetries
  BY <1>1 DEF Phased, Phases, Sleeping, BudgetStep
<1>2. CASE \E total, tried : AttemptFails(c, total, tried)
  BY <1>2, AttemptFailsStep
<1> QED BY <1>1, <1>2 DEF AskFails

\* Every step keeps the phases in range and moves the counter with the sleepers.
LEMMA NextBudget == Phased /\ [Next]_vars => Phased' /\ BudgetStep
<1> SUFFICES ASSUME Phased, [Next]_vars PROVE Phased' /\ BudgetStep
  OBVIOUS
<1>1. ASSUME NEW c \in Calls, Attempt(c) PROVE Phased' /\ BudgetStep
  <2>1. pc[c] = "attempt"
    BY <1>1 DEF Attempt
  <2>2. CASE \E total, tried : AttemptFails(c, total, tried)
    BY <2>1, <2>2, AttemptFailsStep
  <2>3. CASE pc' = [pc EXCEPT ![c] = "request"] /\ activeRetries' = activeRetries
    BY <2>1, <2>3 DEF Phased, Phases, Sleeping, BudgetStep
  <2> QED BY <1>1, <2>2, <2>3 DEF Attempt
<1>2. ASSUME NEW c \in Calls, Fire(c) PROVE Phased' /\ BudgetStep
  <2>1. pc[c] = "request"
    BY <1>2 DEF Fire
  <2>2. CASE AskFails(c)
    BY <2>1, <2>2, AskFailsStep
  <2>3. CASE pc' = [pc EXCEPT ![c] = "flight"] /\ activeRetries' = activeRetries
    BY <2>1, <2>3 DEF Phased, Phases, Sleeping, BudgetStep
  <2> QED BY <1>2, <2>2, <2>3 DEF Fire
<1>3. ASSUME NEW c \in Calls, Answered(c) \/ ToolCalls(c) PROVE Phased' /\ BudgetStep
  <2>1. /\ pc[c] = "flight" /\ activeRetries' = activeRetries
        /\ \E p \in {"answered", "request"} : pc' = [pc EXCEPT ![c] = p]
    BY <1>3 DEF Answered, ToolCalls
  <2> QED BY <2>1 DEF Phased, Phases, Sleeping, BudgetStep
<1>4. ASSUME NEW c \in Calls, ErrorStatus(c) \/ Refused(c) \/ Unsent(c)
      PROVE  Phased' /\ BudgetStep
  <2>1. pc[c] # "backoff" /\ AskFails(c)
    BY <1>4 DEF ErrorStatus, Refused, Unsent
  <2> QED BY <2>1, AskFailsStep
<1>5. ASSUME NEW c \in Calls, Wake(c) PROVE Phased' /\ BudgetStep
  <2>1. /\ pc[c] = "backoff" /\ pc' = [pc EXCEPT ![c] = "attempt"]
        /\ activeRetries' = activeRetries - 1
    BY <1>5 DEF Wake
  <2>2. Phased' /\ c \in Sleeping /\ Sleeping' = Sleeping \ {c}
    BY <2>1 DEF Phased, Phases, Sleeping
  <2> QED BY <2>1, <2>2 DEF BudgetStep
<1>6. CASE \/ \E c \in Calls : Abort(c)
           \/ \E k \in Keys : HalfOpen(k) \/ DropStale(k)
           \/ UNCHANGED vars
  BY <1>6 DEF Abort, HalfOpen, DropStale, vars, callVars, Phased, Sleeping, BudgetStep
<1> QED BY <1>1, <1>2, <1>3, <1>4, <1>5, <1>6 DEF Next, CallStep

\* The counter of the budget is the number of calls asleep, and never more than
\* the budget: no way out of a backoff leaks a slot (retry.ts:80-142).
THEOREM RetryBudgetKept == Spec => []BudgetBalanced
<1> DEFINE BInv == Phased /\ BudgetBalanced
<1>1. Init => BInv
  <2> SUFFICES ASSUME Init PROVE BInv
    OBVIOUS
  <2>1. Phased /\ Sleeping = {} /\ activeRetries = 0
    BY DEF Init, Phased, Phases, Sleeping
  <2> QED BY <2>1, FS_EmptySet, LimitsAssumption DEF BudgetBalanced, Sleeping
<1>2. BInv /\ [Next]_vars => BInv'
  <2> SUFFICES ASSUME BInv, [Next]_vars PROVE BInv'
    OBVIOUS
  <2>1. Phased' /\ BudgetStep
    BY NextBudget
  <2>2. IsFiniteSet(Sleeping)
    BY CallsAssumption, FS_Subset DEF Sleeping
  <2>3. /\ activeRetries = Cardinality(Sleeping) /\ activeRetries \in Nat
        /\ activeRetries <= RetryBudget /\ RetryBudget \in Nat
    BY <2>2, FS_CardinalityType, LimitsAssumption DEF BudgetBalanced, Sleeping
  <2>4. activeRetries' = Cardinality(Sleeping') /\ activeRetries' <= RetryBudget
    <3>1. CASE Sleeping' = Sleeping /\ activeRetries' = activeRetries
      BY <2>3, <3>1
    <3>2. ASSUME NEW c \in Calls \ Sleeping, Sleeping' = Sleeping \cup {c},
                 activeRetries < RetryBudget, activeRetries' = activeRetries + 1
          PROVE  activeRetries' = Cardinality(Sleeping') /\ activeRetries' <= RetryBudget
      BY <2>2, <2>3, <3>2, FS_AddElement
    <3>3. ASSUME NEW c \in Sleeping, Sleeping' = Sleeping \ {c}, activeRetries' = activeRetries - 1
          PROVE  activeRetries' = Cardinality(Sleeping') /\ activeRetries' <= RetryBudget
      BY <2>2, <2>3, <3>3, FS_RemoveElement
    <3> QED BY <2>1, <3>1, <3>2, <3>3 DEF BudgetStep
  <2> QED BY <2>1, <2>4 DEF BudgetBalanced, Sleeping
<1>3. BInv => BudgetBalanced
  OBVIOUS
<1> QED BY <1>1, <1>2, <1>3, PTL DEF Spec

-------------------------------------------------------------------------------
(* The requests of a call, and its fallback *)

CallTypes ==
  /\ name \in [Calls -> Names] /\ pc \in [Calls -> Phases]
  /\ asking \in [Calls -> Whom]
  /\ isFallback \in [Calls -> BOOLEAN] /\ lastResort \in [Calls -> BOOLEAN]
  /\ totalAttempts \in [Calls -> Nat] /\ attempt \in [Calls -> Nat]
  /\ depth \in [Calls -> Nat]
  /\ begun \in [Calls -> [Whom -> Nat]] /\ sent \in [Calls -> [Whom -> Nat]]

\* What the call()s of a call have been counted as: each to its provider twice,
\* the one to the fallback once.
Counted(c) == 2 * begun[c]["primary"] + begun[c]["fallback"]

\* The first request of a call() is still to be sent.
ToBegin(c) == pc[c] = "request" /\ depth[c] = 0

\* The counter pays for each call() before it sends anything, and the fallback is
\* asked once.
Paid(c) ==
  /\ Counted(c) <= totalAttempts[c] /\ Counted(c) <= MaxTotalAttempts
  /\ ToBegin(c) /\ asking[c] = "primary" =>
       Counted(c) + 2 <= totalAttempts[c] /\ totalAttempts[c] <= MaxTotalAttempts
  /\ ToBegin(c) /\ asking[c] = "fallback" =>
       Counted(c) + 1 <= totalAttempts[c] /\ totalAttempts[c] <= MaxTotalAttempts
  /\ begun[c]["fallback"] <= 1
  /\ begun[c]["fallback"] = 1 => isFallback[c]
  /\ ToBegin(c) /\ asking[c] = "fallback" => begun[c]["fallback"] = 0
  /\ pc[c] \in {"request", "flight"} /\ asking[c] = "fallback" => isFallback[c]

\* A call() that has begun pays for all of its rounds: those it may still send
\* are in its account.
Allowed(c, w) == MaxToolRounds * begun[c][w]
Rounds(c) ==
  /\ \A w \in Whom : sent[c][w] <= Allowed(c, w)
  /\ pc[c] = "flight" =>
       /\ depth[c] < MaxToolRounds
       /\ sent[c][asking[c]] + (MaxToolRounds - 1 - depth[c]) <= Allowed(c, asking[c])
  /\ pc[c] = "request" /\ depth[c] > 0 =>
       /\ depth[c] <= MaxToolRounds
       /\ sent[c][asking[c]] + (MaxToolRounds - depth[c]) <= Allowed(c, asking[c])

\* A call that may still ask its fallback is in its first attempt.
Untried(c) ==
  /\ lastResort[c] => isFallback[c]
  /\ HasFallback(c) /\ name[c] \notin Misconfigured /\ ~ isFallback[c] =>
       \/ pc[c] = "attempt" /\ totalAttempts[c] = 0
       \/ pc[c] \in {"request", "flight", "answered"}

CallInv(c) == Paid(c) /\ Rounds(c) /\ Untried(c)

\* How a failure leaves the counters of its call: it asks the fallback, which is
\* paid for, or it sends nothing before another attempt.
Afterwards(c) ==
  \/ /\ pc'[c] = "request" /\ asking'[c] = "fallback" /\ isFallback'[c] /\ ~ isFallback[c]
     /\ totalAttempts[c] + 1 <= totalAttempts'[c] /\ totalAttempts'[c] <= MaxTotalAttempts
  \/ /\ pc'[c] \in {"backoff", "failed"} /\ totalAttempts[c] <= totalAttempts'[c]
     /\ isFallback[c] => isFallback'[c]

\* The counters of another call.
Kept(d) ==
  /\ pc'[d] = pc[d] /\ asking'[d] = asking[d] /\ isFallback'[d] = isFallback[d]
  /\ totalAttempts'[d] = totalAttempts[d] /\ lastResort'[d] = lastResort[d]

FailTypes ==
  /\ pc' \in [Calls -> Phases] /\ asking' \in [Calls -> Whom]
  /\ isFallback' \in [Calls -> BOOLEAN] /\ lastResort' \in [Calls -> BOOLEAN]
  /\ totalAttempts' \in [Calls -> Nat] /\ attempt' \in [Calls -> Nat]

\* A failed attempt gives its counters on as the failure has left them.
LEMMA AttemptFailsCounts ==
  ASSUME CallTypes, NEW c \in Calls, NEW total \in Nat, NEW tried \in BOOLEAN,
         totalAttempts[c] <= total, isFallback[c] => tried, AttemptFails(c, total, tried)
  PROVE  /\ FailTypes /\ Afterwards(c) /\ \A d \in Calls \ {c} : Kept(d)
         /\ (lastResort[c] => isFallback[c]) => (lastResort'[c] => isFallback'[c])
         /\ tried => isFallback'[c]
<1>1. attempt' = [attempt EXCEPT ![c] = @ + 1]
  BY DEF AttemptFails
<1>2. CASE MayRetry(c)
  <2>1. /\ pc' = [pc EXCEPT ![c] = "backoff"]
        /\ isFallback' = [isFallback EXCEPT ![c] = tried]
        /\ totalAttempts' = [totalAttempts EXCEPT ![c] = total]
        /\ UNCHANGED <<asking, lastResort>>
    BY <1>2 DEF AttemptFails
  <2> QED BY <1>1, <2>1 DEF CallTypes, FailTypes, Phases, Afterwards, Kept
<1>3. CASE ~ MayRetry(c)
  <2>1. GiveUp(c, total, tried)
    BY <1>3 DEF AttemptFails
  <2>2. CASE ~tried /\ ~aborted[c] /\ total < MaxTotalAttempts /\ HasFallback(c)
    <3>1. /\ pc' = [pc EXCEPT ![c] = "request"]
          /\ asking' = [asking EXCEPT ![c] = "fallback"]
          /\ isFallback' = [isFallback EXCEPT ![c] = TRUE]
          /\ totalAttempts' = [totalAttempts EXCEPT ![c] = total + 1]
          /\ lastResort' = [lastResort EXCEPT ![c] = TRUE]
      BY <2>1, <2>2 DEF GiveUp
    <3>2. FailTypes /\ \A d \in Calls \ {c} : Kept(d)
      BY <1>1, <3>1 DEF CallTypes, FailTypes, Phases, Whom, Kept
    <3>3. Afterwards(c) /\ isFallback'[c]
      BY <2>2, <3>1, LimitsAssumption DEF CallTypes, Afterwards
    <3> QED BY <3>2, <3>3
  <2>3. CASE ~(~tried /\ ~aborted[c] /\ total < MaxTotalAttempts /\ HasFallback(c))
    <3>1. /\ pc' = [pc EXCEPT ![c] = "failed"]
          /\ isFallback' = [isFallback EXCEPT ![c] = tried]
          /\ totalAttempts' = [totalAttempts EXCEPT ![c] = total]
          /\ UNCHANGED <<asking, lastResort>>
      BY <2>1, <2>3 DEF GiveUp
    <3> QED BY <1>1, <3>1 DEF CallTypes, FailTypes, Phases, Afterwards, Kept
  <2> QED BY <2>2, <2>3
<1> QED BY <1>2, <1>3

\* A failed request: afterwards its call has asked its fallback, if it has one.
LEMMA AskFailsCounts ==
  ASSUME CallTypes, NEW c \in Calls, AskFails(c), lastResort[c] => isFallback[c]
  PROVE  /\ FailTypes /\ Afterwards(c) /\ \A d \in Calls \ {c} : Kept(d)
         /\ lastResort'[c] => isFallback'[c]
         /\ HasFallback(c) => isFallback'[c]
<1> DEFINE total == totalAttempts[c] + 1
<1>0. total \in Nat /\ totalAttempts[c] \in Nat /\ totalAttempts[c] <= total
  BY DEF CallTypes
<1>1. CASE MayFallBack(c) /\ total <= MaxTotalAttempts
  <2>1. /\ pc' = [pc EXCEPT ![c] = "request"]
        /\ asking' = [asking EXCEPT ![c] = "fallback"]
        /\ isFallback' = [isFallback EXCEPT ![c] = TRUE]
        /\ totalAttempts' = [totalAttempts EXCEPT ![c] = total]
        /\ UNCHANGED <<attempt, lastResort>>
    BY <1>1 DEF AskFails
  <2>2. FailTypes /\ \A d \in Calls \ {c} : Kept(d)
    BY <1>0, <2>1 DEF CallTypes, FailTypes, Phases, Whom, Kept
  <2>3. Afterwards(c) /\ isFallback'[c]
    BY <1>0, <1>1, <2>1 DEF CallTypes, Afterwards, MayFallBack
  <2> QED BY <2>2, <2>3
<1>2. CASE MayFallBack(c) /\ ~ total <= MaxTotalAttempts
  <2>1. AttemptFails(c, total, TRUE)
    BY <1>2 DEF AskFails
  <2> QED BY <1>0, <2>1, AttemptFailsCounts
<1>3. CASE ~ MayFallBack(c) /\ ~ lastResort[c]
  <2>1. AttemptFails(c, totalAttempts[c], isFallback[c]) /\ isFallback[c] \in BOOLEAN
    BY <1>3 DEF AskFails, CallTypes
  <2>2. HasFallback(c) => isFallback[c]
    BY <1>3 DEF MayFallBack
  <2> QED BY <1>0, <2>1, <2>2, AttemptFailsCounts
<1>4. CASE ~ MayFallBack(c) /\ lastResort[c]
  <2>1. /\ pc' = [pc EXCEPT ![c] = "failed"]
        /\ UNCHANGED <<asking, isFallback, totalAttempts, attempt, lastResort>>
    BY <1>4 DEF AskFails
  <2> QED BY <1>0, <1>4, <2>1 DEF CallTypes, FailTypes, Phases, Afterwards, Kept
<1> QED BY <1>1, <1>2, <1>3, <1>4

CallsInv == CallTypes /\ \A c \in Calls : CallInv(c)

\* Another call sends nothing and stays in its round.
SentAsBefore(d) == depth'[d] = depth[d] /\ begun'[d] = begun[d] /\ sent'[d] = sent[d]

LEMMA KeptInv ==
  ASSUME NEW d \in Calls, CallInv(d), Kept(d), name' = name, SentAsBefore(d)
  PROVE  CallInv(d)'
<1>1. Paid(d)'
  BY DEF CallInv, Paid, ToBegin, Counted, Kept, SentAsBefore
<1>2. Untried(d)'
  BY DEF CallInv, Untried, Kept, HasFallback
<1>3. Rounds(d)'
  BY DEF CallInv, Rounds, Allowed, Kept, SentAsBefore
<1> QED BY <1>1, <1>2, <1>3 DEF CallInv

\* What Afterwards describes is paid for.
LEMMA AfterwardsPaid ==
  ASSUME CallTypes, FailTypes, NEW c \in Calls, Paid(c), Rounds(c), Afterwards(c),
         begun' = begun, sent' = sent, depth'[c] = 0
  PROVE  Paid(c)' /\ Rounds(c)'
<1>1. /\ begun[c]["primary"] \in Nat /\ begun[c]["fallback"] \in Nat
      /\ totalAttempts[c] \in Nat /\ totalAttempts'[c] \in Nat /\ MaxTotalAttempts \in Nat
  BY LimitsAssumption DEF CallTypes, FailTypes, Whom
<1>2. Counted(c)' = Counted(c) /\ Counted(c) \in Nat
  BY <1>1 DEF Counted
<1>3. CASE pc'[c] = "request"
  <2>1. /\ asking'[c] = "fallback" /\ isFallback'[c] /\ ~ isFallback[c]
        /\ totalAttempts[c] + 1 <= totalAttempts'[c] /\ totalAttempts'[c] <= MaxTotalAttempts
    BY <1>3 DEF Afterwards
  <2>2. begun[c]["fallback"] = 0
    BY <1>1, <2>1 DEF Paid
  <2>3. Rounds(c)'
    BY <1>3 DEF Rounds, Allowed
  <2> QED BY <1>1, <1>2, <1>3, <2>1, <2>2, <2>3 DEF Paid, ToBegin
<1>4. CASE pc'[c] # "request"
  <2>1. /\ totalAttempts[c] <= totalAttempts'[c] /\ (isFallback[c] => isFallback'[c])
        /\ pc'[c] # "flight"
    BY <1>4 DEF Afterwards
  <2>2. Rounds(c)'
    BY <1>4, <2>1 DEF Rounds, Allowed
  <2> QED BY <1>1, <1>2, <1>4, <2>1, <2>2 DEF Paid, ToBegin
<1> QED BY <1>3, <1>4

LEMMA FailureStep ==
  ASSUME CallsInv, NEW c \in Calls, AskFails(c), name' = name, begun' = begun, sent' = sent
  PROVE  CallsInv'
<1>0. /\ depth' = [depth EXCEPT ![c] = 0] /\ depth' \in [Calls -> Nat]
      /\ depth'[c] = 0 /\ \A d \in Calls \ {c} : SentAsBefore(d)
  BY DEF AskFails, CallsInv, CallTypes, SentAsBefore
<1>1. CallTypes /\ Paid(c) /\ Rounds(c) /\ (lastResort[c] => isFallback[c])
  BY DEF CallsInv, CallInv, Untried
<1>2. /\ FailTypes /\ Afterwards(c) /\ \A d \in Calls \ {c} : Kept(d)
      /\ lastResort'[c] => isFallback'[c]
      /\ HasFallback(c) => isFallback'[c]
  BY <1>1, AskFailsCounts
<1>3. CallTypes'
  BY <1>0, <1>1, <1>2 DEF CallTypes, FailTypes
<1>4. CallInv(c)'
  <2>1. Paid(c)' /\ Rounds(c)'
    BY <1>0, <1>1, <1>2, AfterwardsPaid
  <2> QED BY <1>2, <2>1 DEF CallInv, Untried, HasFallback
<1>5. \A d \in Calls \ {c} : CallInv(d)'
  BY <1>0, <1>2, KeptInv DEF CallsInv
<1> QED BY <1>3, <1>4, <1>5 DEF CallsInv

LEMMA AttemptStep ==
  ASSUME CallsInv, NEW c \in Calls, Attempt(c)
  PROVE  CallsInv'
<1> DEFINE counted == CountedTwice(c)
<1>0. /\ depth' = [depth EXCEPT ![c] = 0] /\ depth' \in [Calls -> Nat]
      /\ depth'[c] = 0 /\ \A d \in Calls \ {c} : SentAsBefore(d)
  BY DEF Attempt, CallsInv, CallTypes, SentAsBefore, sentVars
<1>1. /\ CallTypes /\ Paid(c) /\ Rounds(c) /\ Untried(c) /\ pc[c] = "attempt"
      /\ name' = name /\ begun' = begun /\ sent' = sent
  BY DEF CallsInv, CallInv, Attempt, sentVars
<1>2. counted \in Nat /\ totalAttempts[c] \in Nat /\ totalAttempts[c] <= counted
      /\ (counted <= MaxTotalAttempts => counted = totalAttempts[c] + 2)
      /\ (totalAttempts[c] = 0 => counted <= MaxTotalAttempts)
  BY <1>1, LimitsAssumption, AttemptsAssumption DEF CountedTwice, CallTypes
<1>3. CASE counted > MaxTotalAttempts \/ name[c] \in Misconfigured
  <2>1. AttemptFails(c, counted, isFallback[c]) /\ isFallback[c] \in BOOLEAN
    BY <1>1, <1>3 DEF Attempt, CallTypes
  <2>2. /\ FailTypes /\ Afterwards(c) /\ \A d \in Calls \ {c} : Kept(d)
        /\ lastResort'[c] => isFallback'[c]
        /\ isFallback[c] => isFallback'[c]
    BY <1>1, <1>2, <2>1, AttemptFailsCounts DEF Untried
  <2>3. CallTypes'
    BY <1>0, <1>1, <2>2 DEF CallTypes, FailTypes
  <2>4. HasFallback(c) /\ name[c] \notin Misconfigured => isFallback'[c]
    BY <1>1, <1>2, <1>3, <2>2, LimitsAssumption DEF Untried
  <2>5. CallInv(c)'
    <3>1. Paid(c)' /\ Rounds(c)'
      BY <1>0, <1>1, <2>2, AfterwardsPaid
    <3> QED BY <1>1, <2>2, <2>4, <3>1 DEF CallInv, Untried, HasFallback
  <2>6. \A d \in Calls \ {c} : CallInv(d)'
    BY <1>0, <1>1, <2>2, KeptInv DEF CallsInv
  <2> QED BY <2>3, <2>5, <2>6 DEF CallsInv
<1>4. CASE ~ (counted > MaxTotalAttempts \/ name[c] \in Misconfigured)
  <2>1. /\ pc' = [pc EXCEPT ![c] = "request"]
        /\ asking' = [asking EXCEPT ![c] = "primary"]
        /\ totalAttempts' = [totalAttempts EXCEPT ![c] = counted]
        /\ UNCHANGED <<isFallback, attempt, lastResort>>
    BY <1>4 DEF Attempt
  <2>2. CallTypes'
    BY <1>0, <1>1, <1>2, <2>1 DEF CallTypes, Phases, Whom
  <2>3. \A d \in Calls \ {c} : CallInv(d)'
    <3>1. \A d \in Calls \ {c} : Kept(d)
      BY <1>1, <2>1 DEF Kept, CallTypes
    <3> QED BY <1>0, <1>1, <3>1, KeptInv DEF CallsInv
  <2>4. /\ pc'[c] = "request" /\ asking'[c] = "primary" /\ isFallback'[c] = isFallback[c]
        /\ totalAttempts'[c] = totalAttempts[c] + 2 /\ totalAttempts'[c] <= MaxTotalAttempts
        /\ lastResort'[c] = lastResort[c]
    BY <1>1, <1>2, <1>4, <2>1, LimitsAssumption DEF CallTypes
  <2>5. Paid(c)'
    <3>1. begun[c]["primary"] \in Nat /\ begun[c]["fallback"] \in Nat /\ MaxTotalAttempts \in Nat
      BY <1>1, LimitsAssumption DEF CallTypes, Whom
    <3>2. Counted(c)' = Counted(c) /\ Counted(c) \in Nat
      BY <1>1, <3>1 DEF Counted
    <3> QED BY <1>1, <1>2, <2>4, <3>1, <3>2 DEF Paid, ToBegin
  <2>6. Untried(c)'
    BY <1>1, <2>4 DEF Untried
  <2>7. Rounds(c)'
    BY <1>0, <1>1, <2>4 DEF Rounds, Allowed
  <2> QED BY <2>2, <2>3, <2>5, <2>6, <2>7 DEF CallsInv, CallInv
<1> QED BY <1>3, <1>4

\* A request goes out: the first of a call() opens its account, a later one is
\* paid for.
Sends(c) ==
  /\ pc[c] = "request" /\ depth[c] < MaxToolRounds /\ name' = name
  /\ pc' = [pc EXCEPT ![c] = "flight"]
  /\ sent' = [sent EXCEPT ![c][asking[c]] = @ + 1]
  /\ begun' = IF depth[c] = 0 THEN [begun EXCEPT ![c][asking[c]] = @ + 1] ELSE begun
  /\ UNCHANGED <<asking, isFallback, totalAttempts, attempt, lastResort, depth>>

LEMMA FireCases ==
  ASSUME NEW c \in Calls, Fire(c)
  PROVE  /\ pc[c] = "request" /\ name' = name
         /\ Sends(c) \/ (AskFails(c) /\ begun' = begun /\ sent' = sent)
<1>1. pc[c] = "request" /\ RoundsLeft(c) /\ name' = name
  BY DEF Fire
<1>2. CASE AskFails(c) /\ UNCHANGED sentVars
  BY <1>1, <1>2 DEF sentVars
<1>3. CASE /\ pc' = [pc EXCEPT ![c] = "flight"]
           /\ sent' = [sent EXCEPT ![c][asking[c]] = @ + 1]
           /\ begun' = IF depth[c] = 0
                       THEN [begun EXCEPT ![c][asking[c]] = @ + 1] ELSE begun
           /\ UNCHANGED <<asking, isFallback, totalAttempts, attempt, lastResort, depth>>
  BY <1>1, <1>3 DEF Sends, RoundsLeft
<1> QED BY <1>1, <1>2, <1>3 DEF Fire

\* One more of something counted per call and provider.
LEMMA OneMore ==
  ASSUME NEW f \in [Calls -> [Whom -> Nat]], NEW c \in Calls, NEW w \in Whom
  PROVE  LET g == [f EXCEPT ![c][w] = @ + 1]
         IN  /\ g \in [Calls -> [Whom -> Nat]]
             /\ g[c][w] = f[c][w] + 1
             /\ \A v \in Whom \ {w} : g[c][v] = f[c][v]
             /\ \A d \in Calls \ {c} : g[d] = f[d]
OBVIOUS

LEMMA Larger ==
  ASSUME NEW m \in Nat, NEW n \in Nat
  PROVE  m * n \in Nat /\ m * (n + 1) = m * n + m
OBVIOUS

LEMMA NotLess ==
  ASSUME NEW m \in Nat, NEW n \in Nat, NEW k \in Nat, n <= k
  PROVE  m * n <= m * k
<1>1. PICK d \in Nat : k = n + d
  <2>1. k - n \in Nat /\ k = n + (k - n)
    OBVIOUS
  <2> QED BY <2>1
<1>2. m * (n + d) = m * n + m * d /\ m * d \in Nat /\ m * n \in Nat
  OBVIOUS
<1> QED BY <1>1, <1>2

LEMMA SendStep ==
  ASSUME CallsInv, NEW c \in Calls, Sends(c)
  PROVE  CallsInv'
<1> DEFINE w == asking[c]
<1>1. /\ CallTypes /\ Paid(c) /\ Rounds(c) /\ Untried(c)
      /\ w \in Whom /\ w \in {"primary", "fallback"}
  BY DEF CallsInv, CallInv, CallTypes, Whom
<1>2. /\ sent' \in [Calls -> [Whom -> Nat]] /\ sent'[c][w] = sent[c][w] + 1
      /\ \A v \in Whom \ {w} : sent'[c][v] = sent[c][v]
      /\ \A d \in Calls \ {c} : sent'[d] = sent[d]
  BY <1>1, OneMore DEF CallTypes, Sends
<1>3. /\ begun' \in [Calls -> [Whom -> Nat]]
      /\ begun'[c][w] = IF depth[c] = 0 THEN begun[c][w] + 1 ELSE begun[c][w]
      /\ \A v \in Whom \ {w} : begun'[c][v] = begun[c][v]
      /\ \A d \in Calls \ {c} : begun'[d] = begun[d]
  <2>1. CASE depth[c] = 0
    <3>1. begun' = [begun EXCEPT ![c][w] = @ + 1]
      BY <2>1 DEF Sends
    <3> QED BY <1>1, <2>1, <3>1, OneMore DEF CallTypes
  <2>2. CASE depth[c] # 0
    BY <1>1, <2>2 DEF Sends, CallTypes
  <2> QED BY <2>1, <2>2
<1>4. /\ pc'[c] = "flight" /\ pc' \in [Calls -> Phases]
      /\ \A d \in Calls \ {c} : Kept(d) /\ SentAsBefore(d)
  BY <1>1, <1>2, <1>3 DEF CallTypes, Phases, Sends, Kept, SentAsBefore
<1>5. CallTypes'
  BY <1>1, <1>2, <1>3, <1>4 DEF CallTypes, Sends
<1>6. \A d \in Calls \ {c} : CallInv(d)'
  BY <1>4, KeptInv DEF CallsInv, Sends
<1>7. Paid(c)'
  <2>1. /\ begun[c]["primary"] \in Nat /\ begun[c]["fallback"] \in Nat
        /\ totalAttempts[c] \in Nat /\ MaxTotalAttempts \in Nat
        /\ "primary" \in Whom /\ "fallback" \in Whom
    BY <1>1, LimitsAssumption DEF CallTypes, Whom
  <2>2. /\ asking' = asking /\ isFallback' = isFallback /\ totalAttempts' = totalAttempts
        /\ pc[c] = "request"
    BY DEF Sends
  <2>3. CASE depth[c] # 0
    <3>1. begun'[c]["primary"] = begun[c]["primary"] /\ begun'[c]["fallback"] = begun[c]["fallback"]
      BY <1>3, <2>1, <2>3
    <3> QED BY <1>1, <1>4, <2>2, <3>1 DEF Paid, ToBegin, Counted
  <2>4. CASE depth[c] = 0 /\ w = "primary"
    <3>1. /\ begun'[c]["primary"] = begun[c]["primary"] + 1
          /\ begun'[c]["fallback"] = begun[c]["fallback"]
      BY <1>3, <2>1, <2>4
    <3>2. Counted(c)' = Counted(c) + 2 /\ Counted(c) \in Nat
      BY <2>1, <3>1 DEF Counted
    <3> QED BY <1>1, <1>4, <2>1, <2>2, <2>4, <3>1, <3>2 DEF Paid, ToBegin
  <2>5. CASE depth[c] = 0 /\ w = "fallback"
    <3>1. /\ begun'[c]["primary"] = begun[c]["primary"]
          /\ begun'[c]["fallback"] = begun[c]["fallback"] + 1
      BY <1>3, <2>1, <2>5
    <3>2. Counted(c)' = Counted(c) + 1 /\ Counted(c) \in Nat
      BY <2>1, <3>1 DEF Counted
    <3> QED BY <1>1, <1>4, <2>1, <2>2, <2>5, <3>1, <3>2 DEF Paid, ToBegin
  <2> QED BY <1>1, <2>3, <2>4, <2>5
<1>8. Rounds(c)'
  <2> DEFINE D == MaxToolRounds
             b == begun[c][w]
             n == sent[c][w]
             p == depth[c]
  <2>1. D \in Nat \ {0} /\ b \in Nat /\ n \in Nat /\ p \in Nat /\ p < D /\ pc[c] = "request"
    BY <1>1, LimitsAssumption DEF CallTypes, Sends
  <2>2. n <= D * b /\ (p > 0 => n + (D - p) <= D * b)
    BY <1>1 DEF Rounds, Allowed, Sends
  <2>3. D * b \in Nat /\ D * (b + 1) = D * b + D
    BY <2>1, Larger
  <2>4. sent'[c][w] = n + 1 /\ (n + 1) + (D - 1 - p) <= D * begun'[c][w]
        /\ n + 1 <= D * begun'[c][w]
    <3>1. CASE p = 0
      <4>1. begun'[c][w] = b + 1
        BY <1>3, <3>1
      <4> HIDE DEF D, b, n, p, w
      <4>2. (n + 1) + (D - 1 - p) <= D * (b + 1) /\ n + 1 <= D * (b + 1)
        BY <2>1, <2>2, <2>3, <3>1
      <4> QED BY <1>2, <4>1, <4>2 DEF n
    <3>2. CASE p # 0
      <4>1. begun'[c][w] = b
        BY <1>3, <3>2
      <4> HIDE DEF D, b, n, p, w
      <4>2. (n + 1) + (D - 1 - p) <= D * b /\ n + 1 <= D * b
        BY <2>1, <2>2, <2>3, <3>2
      <4> QED BY <1>2, <4>1, <4>2 DEF n
    <3> QED BY <3>1, <3>2
  <2>5. \A v \in Whom : sent'[c][v] <= D * begun'[c][v]
    <3>1. ASSUME NEW v \in Whom \ {w} PROVE sent'[c][v] <= D * begun'[c][v]
      BY <1>1, <1>2, <1>3 DEF Rounds, Allowed
    <3> QED BY <2>4, <3>1
  <2>6. asking'[c] = w /\ depth'[c] = p
    BY DEF Sends
  <2> QED BY <1>4, <2>1, <2>4, <2>5, <2>6 DEF Rounds, Allowed
<1>9. Untried(c)'
  BY <1>1, <1>4 DEF Untried, Sends, HasFallback
<1> QED BY <1>5, <1>6, <1>7, <1>8, <1>9 DEF CallsInv, CallInv

\* An answer that asks for tools goes on to the next round, which is paid for.
LEMMA ToolCallsStep ==
  ASSUME CallsInv, NEW c \in Calls, ToolCalls(c)
  PROVE  CallsInv'
<1>1. /\ CallTypes /\ Paid(c) /\ Rounds(c) /\ Untried(c) /\ pc[c] = "flight"
      /\ pc' = [pc EXCEPT ![c] = "request"] /\ depth' = [depth EXCEPT ![c] = @ + 1]
      /\ UNCHANGED <<asking, isFallback, totalAttempts, attempt, lastResort,
                     name, begun, sent>>
  BY DEF CallsInv, CallInv, ToolCalls, sentVars
<1>2. /\ pc'[c] = "request" /\ depth'[c] = depth[c] + 1 /\ depth[c] \in Nat
      /\ \A d \in Calls \ {c} : Kept(d) /\ SentAsBefore(d)
  BY <1>1 DEF CallTypes, Kept, SentAsBefore
<1>3. CallTypes'
  BY <1>1 DEF CallTypes, Phases
<1>4. \A d \in Calls \ {c} : CallInv(d)'
  BY <1>1, <1>2, KeptInv DEF CallsInv
<1>5. Paid(c)'
  BY <1>1, <1>2 DEF Paid, ToBegin, Counted
<1>6. Rounds(c)'
  <2>1. /\ depth[c] < MaxToolRounds /\ MaxToolRounds \in Nat
        /\ sent[c][asking[c]] + (MaxToolRounds - 1 - depth[c]) <= Allowed(c, asking[c])
    BY <1>1, LimitsAssumption DEF Rounds
  <2>2. MaxToolRounds - 1 - depth[c] = MaxToolRounds - depth'[c] /\ depth'[c] <= MaxToolRounds
    BY <1>2, <2>1
  <2> QED BY <1>1, <1>2, <2>1, <2>2 DEF Rounds, Allowed
<1>7. Untried(c)'
  BY <1>1, <1>2 DEF Untried, HasFallback
<1> QED BY <1>3, <1>4, <1>5, <1>6, <1>7 DEF CallsInv, CallInv

LEMMA FireStep ==
  ASSUME CallsInv, NEW c \in Calls, Fire(c)
  PROVE  CallsInv'
BY FireCases, SendStep, FailureStep

LEMMA CallsStep == CallsInv /\ [Next]_vars => CallsInv'
<1> SUFFICES ASSUME CallsInv, [Next]_vars PROVE CallsInv'
  OBVIOUS
<1>1. ASSUME NEW c \in Calls, ErrorStatus(c) \/ Refused(c) \/ Unsent(c)
      PROVE  CallsInv'
  BY <1>1, FailureStep DEF ErrorStatus, Refused, Unsent, sentVars
<1>2. ASSUME NEW c \in Calls, Answered(c) \/ Wake(c)
      PROVE  CallsInv'
  <2>1. /\ \E p \in {"answered", "attempt"} : pc' = [pc EXCEPT ![c] = p]
        /\ UNCHANGED <<asking, isFallback, totalAttempts, attempt, lastResort, depth,
                       name, begun, sent>>
    BY <1>2 DEF Answered, Wake, sentVars
  <2>2. pc[c] = "backoff" \/ pc'[c] = "answered"
    BY <1>2 DEF Answered, Wake, CallsInv, CallTypes
  <2>3. CallTypes'
    BY <2>1 DEF CallsInv, CallTypes, Phases
  <2>4. pc'[c] \notin {"request", "flight"}
        /\ \A d \in Calls \ {c} : Kept(d) /\ SentAsBefore(d)
    BY <2>1 DEF CallsInv, CallTypes, Kept, SentAsBefore
  <2>5. CallInv(c)'
    BY <2>1, <2>2, <2>4
       DEF CallsInv, CallInv, Paid, ToBegin, Counted, Rounds, Allowed, Untried, HasFallback
  <2>6. \A d \in Calls \ {c} : CallInv(d)'
    BY <2>1, <2>4, KeptInv DEF CallsInv
  <2> QED BY <2>3, <2>5, <2>6 DEF CallsInv
<1>3. CASE UNCHANGED <<name, callVars, sentVars>>
  <2>1. CallTypes'
    BY <1>3 DEF CallsInv, CallTypes, callVars, sentVars
  <2>2. \A d \in Calls : Kept(d) /\ SentAsBefore(d)
    BY <1>3 DEF Kept, SentAsBefore, callVars, sentVars
  <2> QED BY <1>3, <2>1, <2>2, KeptInv DEF CallsInv
<1>4. CASE \/ \E c \in Calls : Abort(c)
           \/ \E k \in Keys : HalfOpen(k) \/ DropStale(k)
           \/ UNCHANGED vars
  BY <1>3, <1>4 DEF Abort, HalfOpen, DropStale, vars
<1> QED BY <1>1, <1>2, <1>4, AttemptStep, FireStep, ToolCallsStep DEF Next, CallStep

LEMMA CallsInit == Init => CallsInv
<1> SUFFICES ASSUME Init PROVE CallsInv
  OBVIOUS
<1>1. CallTypes
  BY DEF Init, CallTypes, Phases, Whom
<1>2. ASSUME NEW c \in Calls
      PROVE  CallInv(c)
  <2>1. begun[c]["primary"] = 0 /\ begun[c]["fallback"] = 0 /\ Counted(c) = 0
    BY DEF Init, Whom, Counted
  <2>2. \A w \in Whom : sent[c][w] <= Allowed(c, w)
    <3>1. MaxToolRounds * 0 = 0
      BY LimitsAssumption
    <3> QED BY <3>1 DEF Init, Allowed
  <2>3. pc[c] = "attempt" /\ asking[c] = "primary" /\ ~ lastResort[c] /\ totalAttempts[c] = 0
    BY DEF Init
  <2>4. Rounds(c) /\ Untried(c)
    BY <2>2, <2>3 DEF Rounds, Untried
  <2>5. Paid(c)
    BY <2>1, <2>3, LimitsAssumption DEF Paid, ToBegin
  <2> QED BY <2>4, <2>5 DEF CallInv
<1> QED BY <1>1, <1>2 DEF CallsInv

\* A call sends at most as many requests as its attempts have rounds, and its
\* fallback gets those of one attempt: the two loops share a counter that pays for
\* each attempt (providers.ts:32-33), and the recursion over tool calls stops at
\* its depth (openai.ts:23-25).
LEMMA BoundsRequests == CallsInv => RequestsBounded
<1> SUFFICES ASSUME CallsInv, NEW c \in Calls
             PROVE  /\ sent[c]["fallback"] <= MaxToolRounds
                    /\ sent[c]["primary"] + sent[c]["fallback"]
                         <= MaxToolRounds * (MaxRetries + 1)
  BY DEF RequestsBounded
<1> DEFINE D == MaxToolRounds
           p == begun[c]["primary"]
           f == begun[c]["fallback"]
           x == sent[c]["primary"]
           y == sent[c]["fallback"]
<1>1. /\ p \in Nat /\ f \in Nat /\ x \in Nat /\ y \in Nat
      /\ f <= 1 /\ 2 * p + f <= MaxTotalAttempts /\ x <= D * p /\ y <= D * f
  BY DEF CallsInv, CallTypes, Whom, CallInv, Paid, Counted, Rounds, Allowed
<1>2. D \in Nat /\ MaxRetries \in Nat /\ p + f <= MaxRetries + 1
  BY <1>1, LimitsAssumption, AttemptsAssumption
<1> HIDE DEF D, p, f, x, y
<1>3. D * (p + f) = D * p + D * f /\ D * p \in Nat /\ D * f \in Nat
  BY <1>1, <1>2
<1>4. D * f <= D * 1 /\ D * 1 = D
  BY <1>1, <1>2, NotLess
<1>5. D * (p + f) <= D * (MaxRetries + 1)
  BY <1>1, <1>2, NotLess
<1>6. y <= D /\ x + y <= D * (MaxRetries + 1)
  <2>1. D * (MaxRetries + 1) \in Nat
    BY <1>2
  <2> QED BY <1>1, <1>2, <1>3, <1>4, <1>5, <2>1
<1> QED BY <1>6 DEF D, x, y

THEOREM RequestsStayBounded == Spec => []RequestsBounded
BY BoundsRequests, CallsInit, CallsStep, PTL DEF Spec

\* A call to a well-configured provider fails only after its fallback was asked
\* or could no longer be (providers.ts:93-99).
THEOREM FallbackAsked == Spec => []FallbackBeforeFailure
<1>1. CallsInv => FallbackBeforeFailure
  BY DEF CallsInv, CallInv, Untried, FallbackBeforeFailure
<1> QED BY <1>1, CallsInit, CallsStep, PTL DEF Spec

-------------------------------------------------------------------------------
(* Type correctness, and the order in which breakers were used *)

FlightType == [key : Keys \cup {NoKey}, request : Calls \cup {NoCall}]
RegistryTypes ==
  /\ DOMAIN breakers \subseteq Keys
  /\ \A k \in DOMAIN breakers : breakers[k] \in Entry
RestTypes ==
  /\ aborted \in [Calls -> BOOLEAN]
  /\ flight \in [Calls -> FlightType]
  /\ answer \in [Calls -> Calls \cup {NoCall}]
  /\ RegistryTypes /\ UseOrder

\* An order of use over a set of keys.
Orders(S, r) ==
  /\ r \subseteq S \X S
  /\ \A x, y \in S : /\ x # y => (<<x, y>> \in r <=> <<y, x>> \notin r)
                     /\ <<x, x>> \notin r
  /\ \A x, y, z \in S : <<x, y>> \in r /\ <<y, z>> \in r => <<x, z>> \in r

LEMMA UseOrderIs == UseOrder <=> Orders(DOMAIN breakers, recency)
BY DEF UseOrder, Orders

\* The order survives the loss of keys, and a key used now comes last.
LEMMA FewerKeys ==
  ASSUME NEW S, NEW T \in SUBSET S, Orders(S, recency)
  PROVE  Orders(T, Among(T))
<1>1. \A x, y \in T : <<x, y>> \in Among(T) <=> <<x, y>> \in recency
  BY DEF Among
<1>2. Among(T) \subseteq T \X T
  BY DEF Among, Orders
<1> QED BY <1>1, <1>2 DEF Orders

LEMMA KeyUsed ==
  ASSUME NEW T, NEW k, k \notin T, NEW r, Orders(T, r)
  PROVE  Orders(T \cup {k}, r \cup (T \X {k}))
<1> DEFINE q == r \cup (T \X {k})
<1>1. /\ \A x, y \in T : <<x, y>> \in q <=> <<x, y>> \in r
      /\ \A x \in T : <<x, k>> \in q
      /\ \A x \in T \cup {k} : <<k, x>> \notin q
  BY DEF Orders
<1>2. q \subseteq (T \cup {k}) \X (T \cup {k})
  BY DEF Orders
<1> HIDE DEF q
<1>3. \A x, y \in T \cup {k} : /\ x # y => (<<x, y>> \in q <=> <<y, x>> \notin q)
                               /\ <<x, x>> \notin q
  BY <1>1 DEF Orders
<1>4. \A x, y, z \in T \cup {k} : <<x, y>> \in q /\ <<y, z>> \in q => <<x, z>> \in q
  <2> SUFFICES ASSUME NEW x \in T \cup {k}, NEW y \in T \cup {k}, NEW z \in T \cup {k},
                      <<x, y>> \in q, <<y, z>> \in q
               PROVE  <<x, z>> \in q
    OBVIOUS
  <2>1. x \in T /\ y \in T
    BY <1>1
  <2>2. CASE z = k
    BY <1>1, <2>1, <2>2
  <2>3. CASE z \in T
    BY <1>1, <2>1, <2>3 DEF Orders
  <2> QED BY <2>2, <2>3
<1>5. Orders(T \cup {k}, q)
  BY <1>2, <1>3, <1>4 DEF Orders
<1> QED BY <1>5 DEF q

\* A breaker that hears of a request changes its state only.
LEMMA HearTypes ==
  ASSUME RegistryTypes, NEW k, NEW becomes \in [BreakerState -> SUBSET BreakerState],
         Hear(k, becomes)
  PROVE  RegistryTypes' /\ DOMAIN breakers' = DOMAIN breakers
<1>1. CASE Known(k)
  <2>1. breakers[k] \in Entry /\ breakers[k].state \in BreakerState
    BY <1>1 DEF RegistryTypes, Known, Entry
  <2>2. PICK s \in BreakerState : breakers' = [breakers EXCEPT ![k].state = s]
    BY <1>1, <2>1 DEF Hear
  <2>3. DOMAIN breakers' = DOMAIN breakers
    BY <2>2
  <2>4. [breakers[k] EXCEPT !.state = s] \in Entry
    BY <2>1, <2>2 DEF Entry
  <2>5. \A x \in DOMAIN breakers : breakers'[x] \in Entry
    BY <2>2, <2>4 DEF RegistryTypes
  <2> QED BY <2>3, <2>5 DEF RegistryTypes
<1>2. CASE ~ Known(k)
  BY <1>2 DEF Hear, RegistryTypes
<1> QED BY <1>1, <1>2

LEMMA HearOrder ==
  ASSUME UseOrder, DOMAIN breakers' = DOMAIN breakers, recency' = recency
  PROVE  UseOrder'
BY DEF UseOrder

LEMMA Outcomes ==
  /\ AfterSuccess \in [BreakerState -> SUBSET BreakerState]
  /\ AfterFailure \in [BreakerState -> SUBSET BreakerState]
BY DEF AfterSuccess, AfterFailure, BreakerState

LEMMA FireTypes ==
  ASSUME RestTypes, CallTypes, NEW c \in Calls, Fire(c)
  PROVE  RestTypes'
<1> DEFINE k     == KeyOf(c)
           entry == BreakerFor(c)
           gone  == Evicted(k)
           kept  == (DOMAIN breakers) \ (gone \cup {k})
           fired == IF entry.state = "halfOpen" THEN [entry EXCEPT !.state = "probing"]
                                                ELSE entry
           orphaned == [d \in Calls |-> IF flight[d].key \in gone
                                        THEN [flight[d] EXCEPT !.key = NoKey]
                                        ELSE flight[d]]
<1>1. k \in Keys
  BY DEF KeyOf, Keys, CallTypes
<1>2. entry \in Entry
  BY <1>1 DEF BreakerFor, Known, RestTypes, RegistryTypes, Entry, BreakerState
<1>3. fired \in Entry
  BY <1>2 DEF Entry, BreakerState
<1>4. breakers' = [x \in kept \cup {k} |-> IF x = k THEN fired ELSE breakers[x]]
  BY DEF Fire
<1>5. recency' = Among(kept) \cup (kept \X {k})
  BY DEF Fire
<1>6. orphaned \in [Calls -> FlightType]
  <2> SUFFICES ASSUME NEW d \in Calls
               PROVE  (IF flight[d].key \in gone THEN [flight[d] EXCEPT !.key = NoKey]
                                                ELSE flight[d]) \in FlightType
    OBVIOUS
  <2>1. flight[d] \in FlightType
    BY DEF RestTypes
  <2> QED BY <2>1 DEF FlightType
<1>7. flight' \in [Calls -> FlightType]
  <2>1. CASE flight' = orphaned
    BY <1>6, <2>1
  <2>2. CASE flight' = [orphaned EXCEPT ![c] = [key |-> k, request |-> entry.request]]
    <3>1. [key |-> k, request |-> entry.request] \in FlightType
      BY <1>1, <1>2 DEF FlightType, Entry
    <3> HIDE DEF orphaned, k, entry
    <3> QED BY <1>6, <2>2, <3>1
  <2>3. \/ flight' = orphaned
        \/ flight' = [orphaned EXCEPT ![c] = [key |-> k, request |-> entry.request]]
    BY DEF Fire
  <2> QED BY <2>1, <2>2, <2>3
<1>8. DOMAIN breakers' = kept \cup {k}
  BY <1>4
<1>9. RegistryTypes'
  <2>1. kept \subseteq Keys /\ \A x \in kept : breakers[x] \in Entry
    BY DEF RestTypes, RegistryTypes
  <2> HIDE DEF kept, fired, k
  <2>2. \A x \in kept \cup {k} : breakers'[x] \in Entry
    BY <1>3, <1>4, <2>1
  <2> QED BY <1>1, <1>8, <2>1, <2>2 DEF RegistryTypes
<1>10. UseOrder'
  <2>1. Orders(kept, Among(kept))
    <3>1. kept \in SUBSET DOMAIN breakers
      OBVIOUS
    <3>2. Orders(DOMAIN breakers, recency)
      BY UseOrderIs DEF RestTypes
    <3> HIDE DEF kept
    <3> QED BY <3>1, <3>2, FewerKeys
  <2>2. k \notin kept
    OBVIOUS
  <2> HIDE DEF kept, k
  <2>3. Orders(kept \cup {k}, Among(kept) \cup (kept \X {k}))
    BY <2>1, <2>2, KeyUsed
  <2> QED BY <1>5, <1>8, <2>3 DEF UseOrder, Orders
<1>11. aborted' = aborted /\ answer' = answer
  BY DEF Fire
<1> QED BY <1>7, <1>9, <1>10, <1>11 DEF RestTypes

LEMMA RestStep ==
  ASSUME RestTypes, CallTypes, [Next]_vars
  PROVE  RestTypes'
<1>1. ASSUME NEW c \in Calls,
             Answered(c) \/ ToolCalls(c) \/ ErrorStatus(c) \/ Refused(c)
      PROVE  RestTypes'
  <2>1. \/ Hear(flight[c].key, AfterSuccess)
        \/ Hear(flight[c].key, AfterFailure)
    BY <1>1 DEF Answered, ToolCalls, ErrorStatus, Refused
  <2>2. RegistryTypes' /\ DOMAIN breakers' = DOMAIN breakers
    BY <2>1, HearTypes, Outcomes DEF RestTypes
  <2>3. UseOrder'
    BY <1>1, <2>2, HearOrder DEF RestTypes, Answered, ToolCalls, ErrorStatus, Refused
  <2>4. /\ flight' = [flight EXCEPT ![c] = NoFlight] /\ aborted' = aborted
        /\ answer' = answer \/ answer' = [answer EXCEPT ![c] = flight[c].request]
    BY <1>1 DEF Answered, ToolCalls, ErrorStatus, Refused
  <2>5. flight[c].request \in Calls \cup {NoCall} /\ NoFlight \in FlightType
    BY DEF RestTypes, FlightType, NoFlight
  <2>6. flight' \in [Calls -> FlightType] /\ answer' \in [Calls -> Calls \cup {NoCall}]
    BY <2>4, <2>5 DEF RestTypes
  <2> QED BY <2>2, <2>3, <2>4, <2>6 DEF RestTypes
<1>2. ASSUME NEW k, HalfOpen(k)
      PROVE  RestTypes'
  <2>1. /\ breakers[k] \in Entry /\ k \in DOMAIN breakers
        /\ breakers' = [breakers EXCEPT ![k].state = "halfOpen"]
        /\ UNCHANGED <<aborted, flight, answer, recency>>
    BY <1>2 DEF HalfOpen, Known, RestTypes, RegistryTypes
  <2>2. DOMAIN breakers' = DOMAIN breakers
    BY <2>1
  <2>3. [breakers[k] EXCEPT !.state = "halfOpen"] \in Entry
    BY <2>1 DEF Entry, BreakerState
  <2>4. RegistryTypes'
    BY <2>1, <2>2, <2>3 DEF RestTypes, RegistryTypes
  <2> QED BY <2>1, <2>2, <2>4, HearOrder DEF RestTypes
<1>3. ASSUME NEW k, DropStale(k)
      PROVE  RestTypes'
  <2> DEFINE kept == (DOMAIN breakers) \ {k}
  <2>1. /\ breakers' = [x \in kept |-> breakers[x]] /\ recency' = Among(kept)
        /\ UNCHANGED <<aborted, flight, answer>>
    BY <1>3 DEF DropStale
  <2>2. DOMAIN breakers' = kept /\ kept \in SUBSET DOMAIN breakers
    BY <2>1
  <2>3. RegistryTypes'
    BY <2>1, <2>2 DEF RestTypes, RegistryTypes
  <2>4. Orders(kept, Among(kept))
    <3>1. Orders(DOMAIN breakers, recency)
      BY UseOrderIs DEF RestTypes
    <3> HIDE DEF kept
    <3> QED BY <2>2, <3>1, FewerKeys
  <2>5. UseOrder'
    <3> HIDE DEF kept
    <3> QED BY <2>1, <2>2, <2>4 DEF UseOrder, Orders
  <2> QED BY <2>1, <2>3, <2>5 DEF RestTypes
<1>4. CASE UNCHANGED <<flight, answer, breakers, recency>> /\ aborted' \in [Calls -> BOOLEAN]
  BY <1>4 DEF RestTypes, RegistryTypes, UseOrder
<1>5. ASSUME NEW c \in Calls, Attempt(c) \/ Wake(c) \/ Unsent(c) \/ Abort(c)
      PROVE  RestTypes'
  <2>1. UNCHANGED <<flight, answer, breakers, recency>> /\ aborted' \in [Calls -> BOOLEAN]
    BY <1>5 DEF Attempt, Wake, Unsent, Abort, breakerVars, RestTypes
  <2> QED BY <1>4, <2>1
<1>6. CASE UNCHANGED vars
  BY <1>4, <1>6 DEF vars, breakerVars, RestTypes
<1> QED BY <1>1, <1>2, <1>3, <1>5, <1>6, FireTypes DEF Next, CallStep

\* Every variable stays in its range, and the order in which the
\* breakers were used covers exactly those the registry holds (breaker.ts:58-78).
THEOREM TypeCorrect == Spec => []TypeOK
<1>1. Init => RestTypes
  BY DEF Init, RestTypes, RegistryTypes, UseOrder, FlightType, NoFlight, NoKey, NoCall
<1>2. CallsInv /\ RestTypes /\ [Next]_vars => RestTypes'
  BY RestStep DEF CallsInv
<1>3. CallsInv /\ RestTypes /\ BudgetBalanced => TypeOK
  <2> SUFFICES ASSUME CallsInv, RestTypes, BudgetBalanced PROVE TypeOK
    OBVIOUS
  <2>1. activeRetries \in Nat
    <3>1. IsFiniteSet({c \in Calls : pc[c] = "backoff"})
      BY CallsAssumption, FS_Subset
    <3> QED BY <3>1, FS_CardinalityType DEF BudgetBalanced
  <2> QED BY <2>1 DEF CallsInv, CallTypes, RestTypes, RegistryTypes, FlightType, TypeOK
<1> QED BY <1>1, <1>2, <1>3, CallsInit, CallsStep, RetryBudgetKept, PTL DEF Spec

-------------------------------------------------------------------------------
(* Calls wind down *)

\* A call that may go on retrying has attempts left; one that gave up asks its
\* fallback, and no call asks the fallback unrecorded.
Winding(c) ==
  /\ pc[c] \notin Over /\ ~ lastResort[c] => attempt[c] <= MaxRetries
  /\ pc[c] \notin Over /\ lastResort[c] =>
       pc[c] \in {"request", "flight"} /\ asking[c] = "fallback"
  /\ lastResort[c] => isFallback[c]
  /\ pc[c] \in {"request", "flight"} /\ asking[c] = "fallback" => isFallback[c]
  /\ pc[c] = "request" => depth[c] <= MaxToolRounds
  /\ pc[c] = "flight" => depth[c] < MaxToolRounds

\* The invariant is kept and what is left to do shrinks.
WindsDown(c) == Winding(c)' /\ Remaining(c)' \in 0..(Remaining(c) - 1)

\* A step of another call.
Untouched(d) ==
  /\ pc'[d] = pc[d] /\ asking'[d] = asking[d] /\ isFallback'[d] = isFallback[d]
  /\ lastResort'[d] = lastResort[d] /\ attempt'[d] = attempt[d] /\ depth'[d] = depth[d]

LEMMA UntouchedWinds ==
  ASSUME NEW d \in Calls, Winding(d), Untouched(d)
  PROVE  Winding(d)' /\ Remaining(d)' = Remaining(d)
BY DEF Winding, Untouched, Remaining, Stage, Later, RoundsAhead

\* The lengths of a call() and of an attempt are constants.
LEMMA Lengths ==
  /\ MaxToolRounds \in Nat \ {0} /\ CallLength \in Nat /\ Lap \in Nat
  /\ CallLength = 2 * MaxToolRounds + 1 /\ Lap = 4 * MaxToolRounds + 4
BY LimitsAssumption DEF CallLength, Lap

\* Where a call is in its attempt, in steps that remain of it.
LEMMA StageRange ==
  ASSUME CallTypes, NEW c \in Calls, Winding(c)
  PROVE  /\ Stage(c) \in 0..Lap
         /\ pc[c] \in {"attempt", "request", "flight"} => Stage(c) \in 1..(Lap - 1)
         /\ pc[c] \in {"request", "flight"} /\ asking[c] = "primary"
              => CallLength < Stage(c)
         /\ pc[c] \in {"request", "flight"} /\ asking[c] = "fallback"
              => Stage(c) <= CallLength
<1>1. depth[c] \in Nat
  BY DEF CallTypes
<1>2. CASE pc[c] = "request"
  <2>1. RoundsAhead(c) \in 0..(2 * MaxToolRounds)
    BY <1>1, <1>2, Lengths DEF Winding, RoundsAhead
  <2>2. Stage(c) = Later(c) + RoundsAhead(c) + 1
    BY <1>2 DEF Stage
  <2>3. CASE asking[c] = "primary"
    <3>1. Later(c) = CallLength
      BY <2>3 DEF Later
    <3> HIDE DEF CallLength, Lap
    <3> QED BY <1>2, <2>1, <2>2, <2>3, <3>1, Lengths
  <2>4. CASE asking[c] # "primary"
    <3>1. Later(c) = 0
      BY <2>4 DEF Later
    <3> QED BY <1>2, <2>1, <2>2, <2>4, <3>1, Lengths
  <2> QED BY <2>3, <2>4
<1>3. CASE pc[c] = "flight"
  <2>1. RoundsAhead(c) \in 1..(2 * MaxToolRounds)
    BY <1>1, <1>3, Lengths DEF Winding, RoundsAhead
  <2>2. Stage(c) = Later(c) + RoundsAhead(c)
    BY <1>3 DEF Stage
  <2>3. CASE asking[c] = "primary"
    <3>1. Later(c) = CallLength
      BY <2>3 DEF Later
    <3> QED BY <1>3, <2>1, <2>2, <2>3, <3>1, Lengths
  <2>4. CASE asking[c] # "primary"
    <3>1. Later(c) = 0
      BY <2>4 DEF Later
    <3> QED BY <1>3, <2>1, <2>2, <2>4, <3>1, Lengths
  <2> QED BY <2>3, <2>4
<1>4. CASE pc[c] \notin {"request", "flight"}
  <2>1. /\ pc[c] = "backoff" => Stage(c) = Lap
        /\ pc[c] = "attempt" => Stage(c) = Lap - 1
        /\ pc[c] \notin {"backoff", "attempt"} => Stage(c) = 0
    BY <1>4 DEF Stage
  <2> QED BY <1>4, <2>1, Lengths
<1> QED BY <1>2, <1>3, <1>4

\* What is left of a call that may still retry: the laps of its other attempts.
Laps(c) == Lap * (MaxRetries - attempt[c])

LEMMA LapsNat ==
  ASSUME NEW k \in Nat
  PROVE  Lap * k \in Nat /\ Lap * (k + 1) = Lap * k + Lap
BY Lengths, Larger

LEMMA RemainingIs ==
  ASSUME CallTypes, NEW c \in Calls, Winding(c), pc[c] \notin Over, ~ lastResort[c]
  PROVE  Remaining(c) = CallLength + Laps(c) + Stage(c) /\ Laps(c) \in Nat
<1>1. Remaining(c) = CallLength + Laps(c) + Stage(c)
  BY DEF Remaining, Laps
<1>2. MaxRetries - attempt[c] \in Nat
  BY LimitsAssumption DEF CallTypes, Winding
<1> QED BY <1>1, <1>2, LapsNat DEF Laps

LEMMA RemainingNat ==
  ASSUME CallTypes, NEW c \in Calls, Winding(c)
  PROVE  Remaining(c) \in Nat
<1>1. Stage(c) \in Nat /\ CallLength \in Nat
  BY StageRange, Lengths
<1>2. CASE pc[c] \in Over
  BY <1>2 DEF Remaining
<1>3. CASE pc[c] \notin Over /\ lastResort[c]
  BY <1>1, <1>3 DEF Remaining
<1>4. CASE pc[c] \notin Over /\ ~ lastResort[c]
  BY <1>1, <1>4, RemainingIs
<1> QED BY <1>2, <1>3, <1>4

\* A step within an attempt: the laps to come are the same.
LEMMA SameLap ==
  ASSUME CallTypes, NEW c \in Calls, Winding(c), Winding(c)', pc[c] \notin Over,
         pc'[c] \notin Over, lastResort'[c] = lastResort[c], attempt'[c] = attempt[c],
         Stage(c)' \in Nat, Stage(c)' < Stage(c)
  PROVE  WindsDown(c)
<1>1. Stage(c) \in Nat /\ CallLength \in Nat
  BY StageRange, Lengths
<1>2. CASE lastResort[c]
  <2>1. Remaining(c) = Stage(c) /\ Remaining(c)' = Stage(c)'
    BY <1>2 DEF Remaining
  <2> QED BY <1>1, <2>1 DEF WindsDown
<1>3. CASE ~ lastResort[c]
  <2>1. Remaining(c) = CallLength + Laps(c) + Stage(c) /\ Laps(c) \in Nat
    BY <1>3, RemainingIs
  <2>2. Remaining(c)' = CallLength + Laps(c) + Stage(c)'
    BY <1>3 DEF Remaining, Laps
  <2> QED BY <1>1, <2>1, <2>2 DEF WindsDown
<1> QED BY <1>2, <1>3

\* A failed attempt uses up an attempt, or gives up for good.
LEMMA AttemptFailsWinds ==
  ASSUME CallTypes, NEW c \in Calls, NEW total, NEW tried \in BOOLEAN,
         Winding(c), pc[c] \in {"attempt", "request", "flight"}, ~ lastResort[c],
         AttemptFails(c, total, tried), depth' = [depth EXCEPT ![c] = 0]
  PROVE  WindsDown(c) /\ \A d \in Calls \ {c} : Untouched(d)
<1>1. /\ attempt'[c] = attempt[c] + 1 /\ attempt[c] \in Nat /\ MaxRetries \in Nat
      /\ attempt[c] <= MaxRetries /\ \A d \in Calls \ {c} : attempt'[d] = attempt[d]
  BY LimitsAssumption DEF AttemptFails, CallTypes, Winding, Over
<1>2. depth'[c] = 0 /\ \A d \in Calls \ {c} : depth'[d] = depth[d]
  BY DEF CallTypes
<1>3. /\ Remaining(c) = CallLength + Laps(c) + Stage(c) /\ Laps(c) \in Nat
      /\ Stage(c) \in 1..(Lap - 1) /\ CallLength \in Nat /\ Lap \in Nat
  BY RemainingIs, StageRange, Lengths DEF Over
<1>4. CASE MayRetry(c)
  <2>1. /\ pc' = [pc EXCEPT ![c] = "backoff"]
        /\ isFallback' = [isFallback EXCEPT ![c] = tried]
        /\ UNCHANGED <<asking, lastResort>>
    BY <1>4 DEF AttemptFails
  <2>2. \A d \in Calls \ {c} : Untouched(d)
    BY <1>1, <1>2, <2>1 DEF CallTypes, Untouched
  <2>3. pc'[c] = "backoff" /\ ~ lastResort'[c] /\ attempt'[c] <= MaxRetries
    BY <1>1, <1>4, <2>1 DEF CallTypes, MayRetry
  <2>4. Winding(c)'
    BY <2>3 DEF Winding
  <2>5. Remaining(c)' = CallLength + Laps(c)' + Lap
    BY <2>3 DEF Remaining, Laps, Stage, Over
  <2>6. Laps(c) = Laps(c)' + Lap /\ Laps(c)' \in Nat
    <3> DEFINE k == MaxRetries - attempt'[c]
    <3>1. k \in Nat /\ MaxRetries - attempt[c] = k + 1
      BY <1>1, <2>3
    <3>2. Lap * k \in Nat /\ Lap * (k + 1) = Lap * k + Lap
      BY <3>1, LapsNat
    <3> QED BY <3>1, <3>2 DEF Laps
  <2> QED BY <1>3, <2>2, <2>4, <2>5, <2>6 DEF WindsDown
<1>5. CASE ~ MayRetry(c)
  <2>1. GiveUp(c, total, tried)
    BY <1>5 DEF AttemptFails
  <2>2. \A d \in Calls \ {c} : Untouched(d)
    BY <1>1, <1>2, <2>1 DEF GiveUp, CallTypes, Untouched
  <2>3. CASE /\ pc'[c] = "request" /\ asking'[c] = "fallback"
             /\ isFallback'[c] /\ lastResort'[c]
    <3>1. Winding(c)'
      BY <1>2, <2>3, Lengths DEF Winding
    <3>2. Remaining(c)' = Stage(c)' /\ Stage(c)' = Later(c)' + RoundsAhead(c)' + 1
      BY <2>3 DEF Remaining, Stage, Over
    <3>3. Later(c)' = 0 /\ RoundsAhead(c)' = 2 * MaxToolRounds
      BY <1>2, <2>3, Lengths DEF Later, RoundsAhead
    <3>4. Remaining(c)' = CallLength
      BY <3>2, <3>3, Lengths
    <3> QED BY <1>3, <2>2, <3>1, <3>4 DEF WindsDown
  <2>4. CASE pc'[c] = "failed" /\ ~ lastResort'[c]
    <3>1. Winding(c)' /\ Remaining(c)' = 0
      BY <2>4 DEF Winding, Remaining, Over
    <3> QED BY <1>3, <2>2, <3>1 DEF WindsDown
  <2> QED BY <2>1, <2>3, <2>4 DEF GiveUp, CallTypes
<1> QED BY <1>4, <1>5

\* A failed request goes on to the fallback, once, or fails the attempt.
LEMMA AskFailsWinds ==
  ASSUME CallTypes, NEW c \in Calls, Winding(c), pc[c] \in {"request", "flight"},
         AskFails(c)
  PROVE  WindsDown(c) /\ \A d \in Calls \ {c} : Untouched(d)
<1>0. /\ depth' = [depth EXCEPT ![c] = 0] /\ depth'[c] = 0
      /\ \A d \in Calls \ {c} : depth'[d] = depth[d]
  BY DEF AskFails, CallTypes
<1>1. pc[c] \notin Over /\ Stage(c) \in 1..(Lap - 1) /\ isFallback[c] \in BOOLEAN
  BY StageRange DEF Over, CallTypes
<1>2. CASE MayFallBack(c) /\ totalAttempts[c] + 1 <= MaxTotalAttempts
  <2>1. /\ pc' = [pc EXCEPT ![c] = "request"]
        /\ asking' = [asking EXCEPT ![c] = "fallback"]
        /\ isFallback' = [isFallback EXCEPT ![c] = TRUE]
        /\ UNCHANGED <<attempt, lastResort>>
    BY <1>2 DEF AskFails
  <2>2. \A d \in Calls \ {c} : Untouched(d)
    BY <1>0, <2>1 DEF CallTypes, Untouched
  <2>3. asking[c] = "primary" /\ ~ lastResort[c] /\ attempt[c] <= MaxRetries
    BY <1>1, <1>2 DEF Winding, MayFallBack, CallTypes, Whom
  <2>4. /\ pc'[c] = "request" /\ asking'[c] = "fallback" /\ isFallback'[c]
        /\ ~ lastResort'[c] /\ attempt'[c] = attempt[c]
    BY <2>1, <2>3 DEF CallTypes
  <2>5. Winding(c)'
    BY <1>0, <2>3, <2>4, Lengths DEF Winding
  <2>6. Stage(c)' = CallLength
    <3>1. Stage(c)' = Later(c)' + RoundsAhead(c)' + 1
      BY <2>4 DEF Stage
    <3>2. Later(c)' = 0 /\ RoundsAhead(c)' = 2 * MaxToolRounds
      BY <1>0, <2>4, Lengths DEF Later, RoundsAhead
    <3> QED BY <3>1, <3>2, Lengths
  <2>7. CallLength < Stage(c) /\ CallLength \in Nat
    BY <2>3, StageRange, Lengths
  <2>8. pc'[c] \notin Over /\ lastResort'[c] = lastResort[c]
    BY <2>1, <2>4 DEF Over
  <2> QED BY <1>1, <2>2, <2>4, <2>5, <2>6, <2>7, <2>8, SameLap
<1>3. CASE /\ ~ (MayFallBack(c) /\ totalAttempts[c] + 1 <= MaxTotalAttempts)
           /\ ~ lastResort[c]
  <2>1. \E total : \E tried \in BOOLEAN : AttemptFails(c, total, tried)
    BY <1>1, <1>3 DEF AskFails
  <2> QED BY <1>0, <1>1, <1>3, <2>1, AttemptFailsWinds
<1>4. CASE /\ ~ (MayFallBack(c) /\ totalAttempts[c] + 1 <= MaxTotalAttempts)
           /\ lastResort[c]
  <2>1. ~ MayFallBack(c)
    BY <1>4 DEF MayFallBack, Winding
  <2>2. /\ pc' = [pc EXCEPT ![c] = "failed"]
        /\ UNCHANGED <<asking, isFallback, attempt, lastResort>>
    BY <1>4, <2>1 DEF AskFails
  <2>3. \A d \in Calls \ {c} : Untouched(d)
    BY <1>0, <2>2 DEF CallTypes, Untouched
  <2>4. Winding(c)' /\ Remaining(c)' = 0
    BY <2>2 DEF CallTypes, Winding, Remaining, Over
  <2>5. Remaining(c) = Stage(c) /\ Lap \in Nat
    BY <1>1, <1>4, Lengths DEF Remaining
  <2> QED BY <1>1, <2>3, <2>4, <2>5 DEF WindsDown
<1> QED BY <1>2, <1>3, <1>4

\* A request goes out, or its answer asks for tools: a step of a call().
LEMMA RoundWinds ==
  ASSUME CallTypes, NEW c \in Calls, Winding(c), Sends(c) \/ ToolCalls(c)
  PROVE  WindsDown(c) /\ \A d \in Calls \ {c} : Untouched(d)
<1>0. UNCHANGED <<asking, isFallback, attempt, lastResort>> /\ depth[c] \in Nat
  BY DEF Sends, ToolCalls, CallTypes
<1>1. CASE Sends(c)
  <2>1. /\ pc[c] = "request" /\ pc'[c] = "flight" /\ depth' = depth
        /\ depth[c] < MaxToolRounds /\ \A d \in Calls \ {c} : Untouched(d)
    BY <1>1 DEF Sends, CallTypes, Untouched
  <2>2. Winding(c)'
    BY <1>0, <2>1 DEF Winding, Over
  <2>3. /\ Stage(c) = Later(c) + RoundsAhead(c) + 1
        /\ Stage(c)' = Later(c) + RoundsAhead(c)
    BY <1>0, <2>1 DEF Stage, Later, RoundsAhead
  <2>4. Later(c) \in Nat /\ RoundsAhead(c) \in Nat
    BY <1>0, <2>1, Lengths DEF Later, RoundsAhead
  <2>5. Stage(c)' \in Nat /\ Stage(c)' < Stage(c)
    BY <2>3, <2>4
  <2> QED BY <1>0, <2>1, <2>2, <2>5, SameLap DEF Over
<1>2. CASE ToolCalls(c)
  <2>1. /\ pc[c] = "flight" /\ pc'[c] = "request" /\ depth'[c] = depth[c] + 1
        /\ depth[c] < MaxToolRounds /\ \A d \in Calls \ {c} : Untouched(d)
    BY <1>2 DEF ToolCalls, CallTypes, Untouched, Winding
  <2>2. Winding(c)'
    BY <1>0, <2>1, Lengths DEF Winding, Over
  <2>3. /\ Stage(c) = Later(c) + RoundsAhead(c)
        /\ Stage(c)' = Later(c) + RoundsAhead(c)' + 1
    BY <1>0, <2>1 DEF Stage, Later
  <2>4. /\ Later(c) \in Nat /\ RoundsAhead(c)' \in Nat
        /\ RoundsAhead(c) = RoundsAhead(c)' + 2
    <3>1. Later(c) \in Nat
      BY Lengths DEF Later
    <3>2. \A m, k \in Nat : k < m =>
            2 * (m - (k + 1)) \in Nat /\ 2 * (m - k) = 2 * (m - (k + 1)) + 2
      OBVIOUS
    <3>3. RoundsAhead(c)' = 2 * (MaxToolRounds - (depth[c] + 1))
      BY <2>1 DEF RoundsAhead
    <3> QED BY <1>0, <2>1, <3>1, <3>2, <3>3, LimitsAssumption DEF RoundsAhead
  <2>5. Stage(c)' \in Nat /\ Stage(c)' < Stage(c)
    BY <2>3, <2>4
  <2> QED BY <1>0, <2>1, <2>2, <2>5, SameLap DEF Over
<1> QED BY <1>1, <1>2

LEMMA CallStepWinds ==
  ASSUME CallTypes, NEW c \in Calls, Winding(c), CallStep(c)
  PROVE  WindsDown(c) /\ \A d \in Calls \ {c} : Untouched(d)
<1>0. isFallback[c] \in BOOLEAN /\ CallLength \in Nat /\ Lap \in Nat
  BY Lengths DEF CallTypes
<1>1. CASE Attempt(c)
  <2>1. pc[c] = "attempt" /\ pc[c] \notin Over /\ Stage(c) = Lap - 1 /\ ~ lastResort[c]
    BY <1>1 DEF Attempt, Over, Stage, Winding
  <2>2. /\ depth' = [depth EXCEPT ![c] = 0] /\ depth'[c] = 0
        /\ \A d \in Calls \ {c} : depth'[d] = depth[d]
    BY <1>1 DEF Attempt, CallTypes
  <2>3. CASE \E total : AttemptFails(c, total, isFallback[c])
    BY <1>0, <2>1, <2>2, <2>3, AttemptFailsWinds
  <2>4. CASE /\ pc' = [pc EXCEPT ![c] = "request"]
             /\ asking' = [asking EXCEPT ![c] = "primary"]
             /\ UNCHANGED <<isFallback, attempt, lastResort>>
    <3>1. \A d \in Calls \ {c} : Untouched(d)
      BY <2>2, <2>4 DEF CallTypes, Untouched
    <3>2. /\ pc'[c] = "request" /\ asking'[c] = "primary" /\ ~ lastResort'[c]
          /\ attempt'[c] = attempt[c] /\ attempt[c] <= MaxRetries
      BY <2>1, <2>4 DEF CallTypes, Winding
    <3>3. Winding(c)'
      BY <2>2, <3>2, Lengths DEF Winding
    <3>4. Stage(c)' = Later(c)' + RoundsAhead(c)' + 1
      BY <3>2 DEF Stage
    <3>5. Later(c)' = CallLength /\ RoundsAhead(c)' = 2 * MaxToolRounds
      BY <2>2, <3>2, Lengths DEF Later, RoundsAhead
    <3>6. Stage(c)' \in Nat /\ Stage(c)' < Stage(c)
      BY <2>1, <3>4, <3>5, Lengths
    <3>7. pc'[c] \notin Over /\ lastResort'[c] = lastResort[c]
      BY <2>4, <3>2 DEF Over
    <3> QED BY <2>1, <3>1, <3>2, <3>3, <3>6, <3>7, SameLap
  <2> QED BY <1>1, <2>3, <2>4 DEF Attempt
<1>2. CASE Fire(c)
  BY <1>2, FireCases, AskFailsWinds, RoundWinds
<1>3. CASE Answered(c)
  <2>1. /\ pc[c] = "flight" /\ pc' = [pc EXCEPT ![c] = "answered"]
        /\ UNCHANGED <<asking, isFallback, attempt, lastResort, depth>>
    BY <1>3 DEF Answered
  <2>2. \A d \in Calls \ {c} : Untouched(d)
    BY <2>1 DEF CallTypes, Untouched
  <2>3. Winding(c)' /\ Remaining(c)' = 0
    BY <2>1 DEF CallTypes, Winding, Remaining, Over
  <2>4. Stage(c) \in 1..(Lap - 1)
    BY <2>1, StageRange
  <2>5. Remaining(c) \in Nat \ {0}
    <3>1. CASE lastResort[c]
      BY <1>0, <2>1, <2>4, <3>1 DEF Remaining, Over
    <3>2. CASE ~ lastResort[c]
      <4>1. Remaining(c) = CallLength + Laps(c) + Stage(c) /\ Laps(c) \in Nat
        BY <2>1, <3>2, RemainingIs DEF Over
      <4> QED BY <1>0, <2>4, <4>1
    <3> QED BY <3>1, <3>2
  <2> QED BY <2>2, <2>3, <2>5 DEF WindsDown
<1>4. CASE ErrorStatus(c) \/ Refused(c) \/ Unsent(c)
  BY <1>4, AskFailsWinds DEF ErrorStatus, Refused, Unsent
<1>5. CASE Wake(c)
  <2>1. /\ pc[c] = "backoff" /\ pc' = [pc EXCEPT ![c] = "attempt"]
        /\ UNCHANGED <<asking, isFallback, attempt, lastResort, depth>>
    BY <1>5 DEF Wake
  <2>2. \A d \in Calls \ {c} : Untouched(d)
    BY <2>1 DEF CallTypes, Untouched
  <2>3. /\ pc'[c] = "attempt" /\ ~ lastResort[c] /\ ~ lastResort'[c]
        /\ attempt'[c] = attempt[c] /\ attempt[c] <= MaxRetries
    BY <2>1 DEF CallTypes, Winding, Over
  <2>4. Stage(c) = Lap /\ Stage(c)' = Lap - 1 /\ Lap \in Nat \ {0}
    BY <2>1, <2>3, Lengths DEF Stage
  <2>5. Winding(c)'
    BY <2>3 DEF Winding
  <2> QED BY <1>0, <2>1, <2>2, <2>3, <2>4, <2>5, SameLap DEF Over
<1>6. CASE ToolCalls(c)
  BY <1>6, RoundWinds
<1> QED BY <1>1, <1>2, <1>3, <1>4, <1>5, <1>6 DEF CallStep

\* Every step of a call leaves it less to do and the other calls as much as
\* they had, so that the endless loop of withRetry (retry.ts:64) ends after at
\* most Lap * (MaxRetries + 1) + CallLength steps of the call, those of its tool
\* calls included (openai.ts:156).
THEOREM CallsAlwaysWindDown == Spec => CallsWindDown
<1> DEFINE AllWind == \A c \in Calls : Winding(c)
           Goes == \A c \in Calls :
                     /\ Remaining(c)' \in 0..Remaining(c)
                     /\ CallStep(c) => Remaining(c)' < Remaining(c)
<1>1. Init => AllWind
  BY LimitsAssumption DEF Init, Winding, Over
<1>2. CallTypes /\ AllWind /\ [Next]_vars => AllWind' /\ [Goes]_vars
  <2> SUFFICES ASSUME CallTypes, AllWind, [Next]_vars PROVE AllWind' /\ [Goes]_vars
    OBVIOUS
  <2>1. ASSUME NEW c \in Calls, CallStep(c)
        PROVE  (\A d \in Calls : Winding(d)') /\ Goes
    <3>1. WindsDown(c) /\ \A d \in Calls \ {c} : Untouched(d)
      BY <2>1, CallStepWinds
    <3>2. \A d \in Calls \ {c} : Winding(d)' /\ Remaining(d)' = Remaining(d)
      BY <3>1, UntouchedWinds
    <3>3. \A d \in Calls : Remaining(d) \in Nat
      BY RemainingNat
    <3>4. \A d \in Calls \ {c} : ~ CallStep(d)
      <4>1. ASSUME NEW d \in Calls \ {c}, CallStep(d) PROVE FALSE
        <5>1. WindsDown(d)
          BY <4>1, CallStepWinds
        <5> QED BY <3>2, <3>3, <4>1, <5>1 DEF WindsDown
      <4> QED BY <4>1
    <3>5. \A d \in Calls : Winding(d)'
      BY <3>1, <3>2 DEF WindsDown
    <3>6. Goes
      BY <3>1, <3>2, <3>3, <3>4 DEF WindsDown
    <3> QED BY <3>5, <3>6
  <2>2. CASE /\ UNCHANGED callVars /\ \A c \in Calls : ~ CallStep(c)
    <3>1. \A d \in Calls : Winding(d)' /\ Remaining(d)' = Remaining(d)
      BY <2>2, UntouchedWinds DEF callVars, Untouched
    <3>2. \A d \in Calls : Remaining(d) \in Nat
      BY RemainingNat
    <3> QED BY <2>2, <3>1, <3>2
  <2>3. CASE \/ \E c \in Calls : Abort(c)
             \/ \E k \in Keys : HalfOpen(k) \/ DropStale(k)
             \/ UNCHANGED vars
    <3>1. UNCHANGED callVars
      BY <2>3 DEF Abort, HalfOpen, DropStale, vars
    <3>2. CASE \E c \in Calls : CallStep(c)
      BY <2>1, <3>2
    <3> QED BY <2>2, <3>1, <3>2
  <2> QED BY <2>1, <2>3 DEF Next
<1>3. CallsInv => CallTypes
  BY DEF CallsInv
<1> QED BY <1>1, <1>2, <1>3, CallsInit, CallsStep, PTL DEF Spec, CallsWindDown

-------------------------------------------------------------------------------
(* The calls as the council sees them *)

Entitled == {c \in Calls : HasFallback(c) /\ name[c] \notin Misconfigured}
Outcome  == [c \in Calls |-> IF pc[c] \in Over THEN pc[c] ELSE "pending"]

\* A request under way has been sent.
InFlight == \A c \in Calls : pc[c] = "flight" => sent[c][asking[c]] > 0

\* A step that leaves the calls other than c as they were, and sends nothing.
Alone(c) ==
  /\ name' = name /\ begun' = begun /\ sent' = sent /\ FailTypes
  /\ \A d \in Calls \ {c} : Kept(d)

LEMMA SameEntitled ==
  ASSUME name' = name
  PROVE  Entitled' = Entitled
BY DEF Entitled, HasFallback

\* The outcomes after a step of c.
LEMMA OutcomeIs ==
  ASSUME CallTypes, NEW c \in Calls, Alone(c), NEW p, p = Outcome'[c]
  PROVE  Outcome' = [Outcome EXCEPT ![c] = p]
<1>1. \A d \in Calls \ {c} : Outcome'[d] = Outcome[d]
  BY DEF Alone, Kept, Outcome
<1> QED BY <1>1 DEF Outcome

\* A failed request or attempt asks the fallback, waits, or fails the call.
LEMMA FailureServes ==
  ASSUME CallTypes, NEW c \in Calls, CallInv(c)', pc[c] \notin Over, Alone(c), Afterwards(c)
  PROVE  [Service!Next]_(Service!vars)
<1> USE DEF Service!vars
<1> DEFINE t == isFallback'[c]
<1>1. /\ Entitled' = Entitled /\ Outcome[c] = "pending"
      /\ isFallback' \in [Calls -> BOOLEAN] /\ isFallback \in [Calls -> BOOLEAN]
      /\ isFallback[c] => t
  BY SameEntitled DEF Alone, Afterwards, FailTypes, CallTypes, Outcome
<1>2. isFallback' = [isFallback EXCEPT ![c] = t]
  BY <1>1 DEF Alone, Kept
<1>3. CASE pc'[c] = "failed"
  <2>1. Outcome' = [Outcome EXCEPT ![c] = "failed"]
    BY <1>3, OutcomeIs DEF Outcome, Over
  <2>2. c \in Entitled => t
    BY <1>1, <1>3 DEF CallInv, Untried, Entitled, HasFallback, Alone
  <2>3. t \in {isFallback[c], TRUE}
    BY <1>1
  <2>4. Service!Fail(c)
    BY <1>1, <1>2, <2>1, <2>2, <2>3 DEF Service!Fail, Outcome, Entitled, Alone
  <2> QED BY <2>4 DEF Service!Next
<1>4. CASE pc'[c] # "failed"
  <2>1. Outcome'[c] = "pending"
    BY <1>4 DEF Afterwards, Outcome, Over
  <2>2. Outcome' = Outcome
    BY <1>1, <2>1, OutcomeIs DEF Outcome
  <2>3. CASE t = isFallback[c]
    <3>1. isFallback' = isFallback
      BY <1>1, <1>2, <2>3
    <3> QED BY <1>1, <2>2, <3>1 DEF Outcome, Entitled, Alone
  <2>4. CASE t # isFallback[c]
    <3>1. t = TRUE /\ ~isFallback[c]
      BY <1>1, <2>4
    <3>2. Service!TryFallback(c)
      BY <1>1, <1>2, <2>2, <3>1 DEF Service!TryFallback, Outcome, Entitled, Alone
    <3> QED BY <3>2 DEF Service!Next
  <2> QED BY <2>3, <2>4
<1> QED BY <1>3, <1>4

\* A step in which a call sends nothing keeps what is under way.
LEMMA AloneInFlight ==
  ASSUME CallTypes, InFlight, NEW c \in Calls, Alone(c), pc'[c] # "flight"
  PROVE  InFlight'
BY DEF InFlight, Alone, Kept

\* A failed request, whether a breaker or the provider refused it.
LEMMA FailureImplements ==
  ASSUME CallsInv, CallsInv', InFlight, NEW c \in Calls, pc[c] \notin Over,
         AskFails(c), name' = name, begun' = begun, sent' = sent
  PROVE  InFlight' /\ [Service!Next]_(Service!vars)
<1>1. CallTypes /\ (lastResort[c] => isFallback[c]) /\ CallInv(c)'
  BY DEF CallsInv, CallInv, Untried
<1>2. Alone(c) /\ Afterwards(c)
  BY <1>1, AskFailsCounts DEF Alone
<1>3. pc'[c] # "flight"
  BY <1>2 DEF Afterwards
<1> QED BY <1>1, <1>2, <1>3, FailureServes, AloneInFlight

\* An attempt is passed, or fails like a request.
LEMMA AttemptImplements ==
  ASSUME CallsInv, CallsInv', InFlight, NEW c \in Calls, Attempt(c)
  PROVE  InFlight' /\ [Service!Next]_(Service!vars)
<1> DEFINE counted == CountedTwice(c)
<1>1. /\ CallTypes /\ CallInv(c)' /\ pc[c] = "attempt" /\ pc[c] \notin Over
      /\ name' = name /\ begun' = begun /\ sent' = sent
  BY DEF CallsInv, Attempt, Over, sentVars
<1>2. CASE counted > MaxTotalAttempts \/ name[c] \in Misconfigured
  <2>1. AttemptFails(c, counted, isFallback[c]) /\ isFallback[c] \in BOOLEAN
    BY <1>1, <1>2 DEF Attempt, CallTypes
  <2>2. counted \in Nat /\ totalAttempts[c] <= counted
    BY <1>1 DEF CountedTwice, CallTypes
  <2>3. Alone(c) /\ Afterwards(c)
    BY <1>1, <2>1, <2>2, AttemptFailsCounts DEF Alone
  <2>4. pc'[c] # "flight"
    BY <2>3 DEF Afterwards
  <2> QED BY <1>1, <2>3, <2>4, FailureServes, AloneInFlight
<1>3. CASE ~ (counted > MaxTotalAttempts \/ name[c] \in Misconfigured)
  <2>1. pc' = [pc EXCEPT ![c] = "request"] /\ isFallback' = isFallback
    BY <1>3 DEF Attempt
  <2>2. pc'[c] = "request" /\ \A d \in Calls \ {c} : pc'[d] = pc[d]
    BY <1>1, <2>1 DEF CallTypes
  <2>3. Outcome' = Outcome /\ Entitled' = Entitled
    BY <1>1, <2>2, SameEntitled DEF Outcome, Over
  <2>4. InFlight'
    <3>1. asking' = [asking EXCEPT ![c] = "primary"]
      BY <1>3 DEF Attempt
    <3> QED BY <1>1, <2>2, <3>1 DEF InFlight, CallTypes
  <2> QED BY <1>1, <2>1, <2>3, <2>4 DEF Service!vars, Outcome, Entitled
<1> QED BY <1>2, <1>3

\* A request is sent on the account of its call.
LEMMA SendImplements ==
  ASSUME CallsInv, CallsInv', InFlight, NEW c \in Calls, Sends(c)
  PROVE  InFlight' /\ [Service!Next]_(Service!vars)
<1> DEFINE w == asking[c]
<1>1. /\ w \in Whom /\ sent[c][w] \in Nat /\ CallTypes /\ CallTypes'
      /\ sent[c]["primary"] \in Nat /\ sent[c]["fallback"] \in Nat
  BY DEF CallsInv, CallTypes, Whom
<1>2. /\ sent' = [sent EXCEPT ![c][w] = @ + 1] /\ sent'[c][w] = sent[c][w] + 1
      /\ \A v \in Whom \ {w} : sent'[c][v] = sent[c][v]
      /\ \A d \in Calls \ {c} : sent'[d] = sent[d] /\ pc'[d] = pc[d]
      /\ pc[c] = "request" /\ pc'[c] = "flight"
      /\ UNCHANGED <<name, asking, isFallback>>
  BY <1>1, OneMore DEF CallTypes, Sends
<1>3. InFlight'
  BY <1>1, <1>2 DEF InFlight
<1>4. Outcome' = Outcome /\ Entitled' = Entitled /\ Outcome[c] = "pending"
  BY <1>2, SameEntitled DEF Outcome, Over
<1>5. /\ sent[c]["primary"] + sent[c]["fallback"] < MaxToolRounds * (MaxRetries + 1)
      /\ w = "fallback" => sent[c]["fallback"] < MaxToolRounds
  <2> DEFINE M == MaxToolRounds * (MaxRetries + 1)
  <2>1. M \in Nat /\ MaxToolRounds \in Nat
    BY LimitsAssumption
  <2>2. RequestsBounded'
    <3>1. CallsInv' => RequestsBounded'
      BY BoundsRequests, PTL
    <3> QED BY <3>1
  <2>3. /\ sent'[c]["fallback"] <= MaxToolRounds
        /\ sent'[c]["primary"] + sent'[c]["fallback"] <= M
    BY <2>2 DEF RequestsBounded
  <2> HIDE DEF M
  <2>4. CASE w = "primary"
    <3>1. sent'[c]["primary"] = sent[c]["primary"] + 1 /\ sent'[c]["fallback"] = sent[c]["fallback"]
      BY <1>2, <2>4 DEF Whom
    <3> QED BY <1>1, <2>1, <2>3, <2>4, <3>1 DEF M
  <2>5. CASE w = "fallback"
    <3>1. sent'[c]["primary"] = sent[c]["primary"] /\ sent'[c]["fallback"] = sent[c]["fallback"] + 1
      BY <1>2, <2>5 DEF Whom
    <3> QED BY <1>1, <2>1, <2>3, <2>5, <3>1 DEF M
  <2> QED BY <1>1, <2>4, <2>5 DEF Whom
<1>6. w = "fallback" => isFallback[c]
  BY <1>2 DEF CallsInv, CallInv, Paid
<1>7. Service!Send(c, w)
  BY <1>1, <1>2, <1>4, <1>5, <1>6 DEF Service!Send, Service!Total, Outcome, Entitled
<1> QED BY <1>1, <1>3, <1>7 DEF Service!Next, Service!Whom, Whom

\* Every step is one of the abstract calls, or none.
LEMMA StepImplements ==
  ASSUME CallsInv, CallsInv', InFlight, [Next]_vars
  PROVE  InFlight' /\ [Service!Next]_(Service!vars)
<1>1. ASSUME NEW c \in Calls, ErrorStatus(c) \/ Refused(c) \/ Unsent(c)
      PROVE  InFlight' /\ [Service!Next]_(Service!vars)
  <2>1. /\ pc[c] \in {"request", "flight"} /\ AskFails(c)
        /\ name' = name /\ begun' = begun /\ sent' = sent
    BY <1>1 DEF ErrorStatus, Refused, Unsent, sentVars
  <2> QED BY <2>1, FailureImplements DEF Over
<1>2. ASSUME NEW c \in Calls, Fire(c)
      PROVE  InFlight' /\ [Service!Next]_(Service!vars)
  BY <1>2, FireCases, FailureImplements, SendImplements DEF Over
<1>3. ASSUME NEW c \in Calls, Answered(c)
      PROVE  InFlight' /\ [Service!Next]_(Service!vars)
  <2>1. /\ pc[c] = "flight" /\ pc' = [pc EXCEPT ![c] = "answered"]
        /\ name' = name /\ begun' = begun /\ sent' = sent
        /\ UNCHANGED <<asking, isFallback, totalAttempts, attempt, lastResort, depth>>
    BY <1>3 DEF Answered, sentVars
  <2>2. CallTypes /\ CallTypes' /\ pc'[c] = "answered"
    BY <2>1 DEF CallsInv, CallTypes
  <2>3. Alone(c)
    <3>1. FailTypes
      BY <2>2 DEF CallTypes, FailTypes
    <3> QED BY <2>1, <2>2, <3>1 DEF Alone, Kept, CallTypes
  <2>4. InFlight'
    BY <2>2, <2>3, AloneInFlight
  <2>5. /\ Outcome[c] = "pending" /\ Outcome' = [Outcome EXCEPT ![c] = "answered"]
        /\ Entitled' = Entitled
    BY <2>1, <2>2, <2>3, OutcomeIs, SameEntitled DEF Outcome, Over
  <2>6. sent[c]["primary"] + sent[c]["fallback"] > 0
    <3>1. /\ sent[c]["primary"] \in Nat /\ sent[c]["fallback"] \in Nat
          /\ asking[c] \in {"primary", "fallback"} /\ sent[c][asking[c]] > 0
      BY <2>1, <2>2 DEF CallTypes, Whom, InFlight
    <3> QED BY <3>1
  <2>7. Service!Answer(c)
    BY <2>1, <2>5, <2>6 DEF Service!Answer, Service!Total, Outcome, Entitled
  <2> QED BY <2>4, <2>7 DEF Service!Next
<1>4. ASSUME UNCHANGED <<name, asking, isFallback, sent>>,
             \A d \in Calls : pc'[d] = pc[d] \/ (pc[d] = "backoff" /\ pc'[d] = "attempt")
      PROVE  InFlight' /\ [Service!Next]_(Service!vars)
  <2>1. Outcome' = Outcome /\ Entitled' = Entitled
    BY <1>4, SameEntitled DEF Outcome, Over
  <2>2. InFlight'
    BY <1>4 DEF InFlight
  <2> QED BY <1>4, <2>1, <2>2 DEF Service!vars, Outcome, Entitled
<1>5. CASE \/ \E c \in Calls : Abort(c) \/ Wake(c)
           \/ \E k \in Keys : HalfOpen(k) \/ DropStale(k)
           \/ UNCHANGED vars
  <2>1. UNCHANGED <<name, asking, isFallback, sent>>
    BY <1>5 DEF Abort, Wake, HalfOpen, DropStale, callVars, sentVars, vars
  <2>2. \A d \in Calls : pc'[d] = pc[d] \/ (pc[d] = "backoff" /\ pc'[d] = "attempt")
    <3>1. ASSUME NEW c \in Calls, Wake(c)
          PROVE  \A d \in Calls : pc'[d] = pc[d] \/ (pc[d] = "backoff" /\ pc'[d] = "attempt")
      <4>1. pc[c] = "backoff" /\ pc' = [pc EXCEPT ![c] = "attempt"]
        BY <3>1 DEF Wake
      <4>2. pc \in [Calls -> Phases]
        BY DEF CallsInv, CallTypes
      <4> QED BY <4>1, <4>2
    <3>2. CASE UNCHANGED callVars
      BY <3>2 DEF callVars
    <3> QED BY <1>5, <3>1, <3>2 DEF Abort, HalfOpen, DropStale, vars
  <2> QED BY <1>4, <2>1, <2>2
<1>6. ASSUME NEW c \in Calls, ToolCalls(c)
      PROVE  InFlight' /\ [Service!Next]_(Service!vars)
  <2>1. /\ pc[c] = "flight" /\ pc'[c] = "request" /\ \A d \in Calls \ {c} : pc'[d] = pc[d]
        /\ UNCHANGED <<name, asking, isFallback, sent>>
    BY <1>6 DEF ToolCalls, CallsInv, CallTypes, sentVars
  <2>2. Outcome' = Outcome /\ Entitled' = Entitled
    BY <2>1, SameEntitled DEF Outcome, Over
  <2>3. InFlight'
    BY <2>1 DEF InFlight
  <2> QED BY <2>1, <2>2, <2>3 DEF Service!vars, Outcome, Entitled
<1> QED BY <1>1, <1>2, <1>3, <1>5, <1>6, AttemptImplements DEF Next, CallStep

\* The retries, the fallbacks, the budget and the breakers together do no more
\* than the abstract calls: each call ends once, with an answer to one of its
\* few requests or after its fallback's turn, and none moves another
\* (providers.ts:42-149, retry.ts:64-147).
THEOREM CallsImplementService == Spec => ImplementsService
<1>1. Init => InFlight /\ Service!Init
  <2> SUFFICES ASSUME Init PROVE InFlight /\ Service!Init
    OBVIOUS
  <2>1. InFlight /\ Entitled \in SUBSET Calls /\ Outcome = [c \in Calls |-> "pending"]
    BY DEF Init, InFlight, Entitled, Outcome, Over
  <2> QED BY <2>1 DEF Init, Service!Init, Service!Whom, Whom, Outcome, Entitled
<1>2. CallsInv /\ CallsInv' /\ InFlight /\ [Next]_vars
        => InFlight' /\ [Service!Next]_(Service!vars)
  BY StepImplements
<1> QED BY <1>1, <1>2, CallsInit, CallsStep, PTL DEF Spec, ImplementsService, Service!Spec
===============================================================================
