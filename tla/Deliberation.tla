----------------------------- MODULE Deliberation -----------------------------
(***************************************************************************)
(* The council deliberation: deliberate() of lib/council.ts with the phases *)
(* of lib/deliberationPhases.ts and the controller of lib/controller.ts.    *)
(*                                                                         *)
(* A phase is a Promise.all over the members: the members' answers arrive   *)
(* one at a time and in any order, the caller may abort between any two of  *)
(* them, and the phase ends when no call is left waiting.  Scores are the   *)
(* integers 0..MaxScore; of an opinion the model keeps only whether it has  *)
(* a parsed form, which is all the control flow ever looks at.             *)
(***************************************************************************)
EXTENDS Integers, FiniteSets, Sequences

CONSTANTS
  Members,             \* the council, names assumed distinct
  ApiMembers,          \* those whose provider type has an emergency fallback
  Rounds,              \* the `rounds` argument
  MaxScore,            \* scores and consensus are in 0..MaxScore
  CriticalScore,       \* a final score below it is a critical failure (0.2)
  HaltScore,           \* consensus threshold of the controller (0.85)
  SkipAdversarialAbove,\* 0.92
  SkipGroundingAbove,  \* 0.95
  Tolerance,           \* BLOOM_GATE_TOLERANCE
  RoundScoreCap,       \* decide() halts once it holds this many scores (1000)
  Priced,              \* TRUE: an answered call costs one unit, FALSE: nothing
  CostLimit            \* MAX_DELIBERATION_COST, 0 for none

Scores == 0..MaxScore

ASSUME MembersAssumption ==
  /\ IsFiniteSet(Members) /\ Members # {}
  /\ ApiMembers \subseteq Members
ASSUME NumbersAssumption ==
  /\ Rounds \in Nat /\ MaxScore \in Nat /\ CriticalScore \in Nat
  /\ Tolerance \in Nat /\ CostLimit \in Nat /\ RoundScoreCap \in Nat
  /\ HaltScore \in Scores
  /\ SkipAdversarialAbove \in Scores /\ SkipGroundingAbove \in Scores
ASSUME ThresholdOrderAssumption ==
  HaltScore <= SkipAdversarialAbove /\ SkipAdversarialAbove <= SkipGroundingAbove
ASSUME FlagsAssumption == Priced \in BOOLEAN

VARIABLES
  pc,                  \* where deliberate() is
  round,               \* r
  waiting,             \* members whose call of the running phase is pending
  opinions,            \* opinions of the round, per member
  finalOpinions,       \* opinions of the last round that had a quorum
  bestOpinions,        \* opinions of the best round
  bestRoundScore,
  previousMaxScore,    \* controller
  roundScores,         \* controller
  lastConsensusScore,
  totalCost,
  abortedIn,           \* the round in which the caller aborted, 0 for never
  costAtAbort,         \* history: totalCost when it did
  log                  \* history: one record per reviewed round

roundVars == <<round, opinions, waiting>>
bestVars  == <<finalOpinions, bestOpinions, bestRoundScore>>
ctrlVars  == <<previousMaxScore, roundScores, lastConsensusScore>>
abortVars == <<abortedIn, costAtAbort>>
vars == <<pc, roundVars, bestVars, ctrlVars, totalCost, abortVars, log>>

-------------------------------------------------------------------------------
(* Opinions *)

OpinionKind == {"absent", "structured", "raw", "placeholder"}
Opinions    == [Members -> OpinionKind]
NoOpinions  == [m \in Members |-> "absent"]

Present(ops)    == {m \in Members : ops[m] # "absent"}
Structured(ops) == {m \in Members : ops[m] = "structured"}
Answered(ops)   == {m \in Members : ops[m] \in {"structured", "raw"}}

\* The larger of 2 and half the council rounded up; 1 for a council of one.
HalfCouncil == (Cardinality(Members) + 1) \div 2
MinRequired == IF Cardinality(Members) = 1 THEN 1
               ELSE IF HalfCouncil > 2 THEN HalfCouncil ELSE 2

Aborted == abortedIn > 0

\* Variant: the limit itself does not stop the next round.
OverBudgetLate == CostLimit > 0 /\ totalCost > CostLimit
OverBudget == CostLimit > 0 /\ totalCost >= CostLimit

\* totalCost after `calls` answered calls.
Charge(calls) == IF Priced THEN totalCost + calls ELSE totalCost

\* What one member's gather call can come to, and whether its cost is added:
\* those of the JSON retry and of the fallback are not.  An abort makes no
\* difference: a call made after it may go out under the signal of an earlier
\* call of the same breaker (breaker.ts:58) and be answered all the same.
GatherOutcome(m) ==
  [kind : {"structured", "raw"}, counted : {1}]
  \cup [kind : {"absent"}, counted : {0, 1}]
  \cup (IF m \notin ApiMembers THEN {}
        ELSE [kind : {"structured"}, counted : {0, 1}])

-------------------------------------------------------------------------------
(* The controller *)

\* shouldAcceptRound on a non-empty scored list, of which only the largest
\* final score and the presence of a critical failure matter.  (In this module
\* an operator directly above another, same parameters and no mapping to the
\* code, is a faulty variant that the mutation runs put in its place.)
ShouldAcceptTie(max, critical) == max >= previousMaxScore /\ ~critical
ShouldAccept(max, critical) == max > previousMaxScore /\ ~critical

\* Whether deliberate() makes the reviewed round the best one.
TakesBestAccepted(max, accepted) == round = 1 \/ accepted
TakesBest(max, accepted) ==
  round = 1 \/ (accepted /\ max > bestRoundScore)

PreviousRoundScore == IF roundScores = <<>> THEN 0
                      ELSE roundScores[Len(roundScores)]

DegradedFromThird(r, score) ==
  r > 2 /\ PreviousRoundScore > 0 /\ score - PreviousRoundScore < -Tolerance
Degraded(r, score) ==
  /\ r > 1
  /\ PreviousRoundScore > 0
  /\ score - PreviousRoundScore < -Tolerance

HistoryFull == Len(roundScores) >= RoundScoreCap

\* The reason decide() halts for, "none" to go on.
DecisionNoThreshold(r, score) ==
  CASE HistoryFull -> "cap"
    [] ~HistoryFull /\ Degraded(r, score) -> "bloom gate"
    [] OTHER -> IF r >= Rounds THEN "maximum rounds" ELSE "none"
Decision(r, score) ==
  CASE HistoryFull -> "cap"
    [] ~HistoryFull /\ Degraded(r, score) -> "bloom gate"
    [] ~HistoryFull /\ ~Degraded(r, score) /\ score >= HaltScore -> "consensus"
    [] OTHER -> IF r >= Rounds THEN "maximum rounds" ELSE "none"

\* computeConsensus: fewer than two parsed outputs count as full agreement.
ConsensusValues(ops) ==
  IF Cardinality(Structured(ops)) < 2 THEN {MaxScore} ELSE Scores

SkipAdversarial == lastConsensusScore > SkipAdversarialAbove
SkipGrounding   == lastConsensusScore > SkipGroundingAbove

-------------------------------------------------------------------------------
Phases == {"round", "gather", "debate", "review", "consensus",
           "synthesis", "validation", "publishing", "done", "failed"}
Over   == {"done", "failed"}

Init ==
  /\ pc = "round" /\ round = 1 /\ waiting = {}
  /\ opinions = NoOpinions
  /\ finalOpinions = NoOpinions /\ bestOpinions = NoOpinions
  /\ bestRoundScore = -1
  /\ previousMaxScore = 0 /\ roundScores = <<>> /\ lastConsensusScore = 0
  /\ totalCost = 0 /\ abortedIn = 0 /\ costAtAbort = 0
  /\ log = {}

StartRoundUnlessOverBudget ==
  /\ pc = "round" /\ round <= Rounds
  /\ ~OverBudget
  /\ pc' = "gather" /\ waiting' = Members /\ opinions' = NoOpinions
  /\ UNCHANGED <<round, bestVars, ctrlVars, totalCost, abortVars, log>>
StartRound ==
  /\ pc = "round" /\ round <= Rounds
  /\ ~Aborted /\ ~OverBudget
  /\ pc' = "gather" /\ waiting' = Members /\ opinions' = NoOpinions
  /\ UNCHANGED <<round, bestVars, ctrlVars, totalCost, abortVars, log>>

LeaveLoopEarlyOnly ==
  /\ pc = "round"
  /\ Aborted \/ OverBudget
  /\ pc' = "synthesis"
  /\ UNCHANGED <<roundVars, bestVars, ctrlVars, totalCost, abortVars, log>>

\* The loop ends: cancelled, over the cost limit, or all rounds run.
LeaveLoop ==
  /\ pc = "round"
  /\ Aborted \/ OverBudget \/ round > Rounds
  /\ pc' = "synthesis"
  /\ UNCHANGED <<roundVars, bestVars, ctrlVars, totalCost, abortVars, log>>

GatherOpinion(m) ==
  /\ pc = "gather" /\ m \in waiting
  /\ \E o \in GatherOutcome(m) :
       /\ opinions' = [opinions EXCEPT ![m] = o.kind]
       /\ totalCost' = Charge(o.counted)
  /\ waiting' = waiting \ {m}
  /\ UNCHANGED <<pc, round, bestVars, ctrlVars, abortVars, log>>

\* Where deliberate() goes once every gather call has settled.
AfterGatherNoQuorum ==
  LET n == Cardinality(Present(opinions)) IN
  CASE n = 0 -> "failed"
    [] n >= 2 /\ round = 1 /\ Rounds >= 2 -> "debate"
    [] OTHER -> "review"
AfterGather ==
  LET n == Cardinality(Present(opinions)) IN
  CASE n = 0 -> "failed"
    [] n > 0 /\ n < MinRequired -> "synthesis"
    [] n >= MinRequired /\ n >= 2 /\ round = 1 /\ Rounds >= 2 -> "debate"
    [] OTHER -> "review"

EndGather ==
  /\ pc = "gather" /\ waiting = {}
  /\ pc' = AfterGather
  /\ waiting' = IF AfterGather = "debate" THEN Members ELSE {}
  /\ UNCHANGED <<round, opinions, bestVars, ctrlVars, totalCost, abortVars, log>>

\* A member with an opinion refines it, or keeps it if the call fails; a
\* member without one gets the "[FAILED]" text.  The parsed form stays the
\* one of the original answer.
DebateOpinion(m) ==
  /\ pc = "debate" /\ m \in waiting
  /\ IF opinions[m] = "absent"
     THEN /\ opinions' = [opinions EXCEPT ![m] = "placeholder"]
          /\ UNCHANGED totalCost
     ELSE /\ \E paid \in {0, 1} : totalCost' = Charge(paid)
          /\ UNCHANGED opinions
  /\ waiting' = waiting \ {m}
  /\ UNCHANGED <<pc, round, bestVars, ctrlVars, abortVars, log>>

EndDebate ==
  /\ pc = "debate" /\ waiting = {}
  /\ pc' = "review"
  /\ UNCHANGED <<roundVars, bestVars, ctrlVars, totalCost, abortVars, log>>

AfterReviewSameRound ==
  pc' = (IF round < Rounds THEN "consensus" ELSE "round") /\ UNCHANGED round

\* After the review: go on to the consensus of this round, or to the head of
\* the loop when this was the last round.
AfterReview ==
  IF round < Rounds THEN pc' = "consensus" /\ UNCHANGED round
                    ELSE pc' = "round" /\ round' = round + 1

\* Peer review, audits and scoring of a round with two opinions or more, and
\* what the controller and the best-round tracking make of the scores.
PeerReview(max, critical) ==
  LET accepted  == ShouldAccept(max, critical)
      takesBest == TakesBest(max, accepted)
  IN
  /\ pc = "review" /\ Cardinality(Present(opinions)) >= 2
  /\ critical \/ max >= CriticalScore
  /\ \E paid \in 0..Cardinality(Members) : totalCost' = Charge(paid)
  /\ previousMaxScore' = IF accepted THEN max ELSE previousMaxScore
  /\ bestRoundScore'   = IF takesBest THEN max ELSE bestRoundScore
  /\ bestOpinions'     = IF takesBest \/ bestOpinions = NoOpinions
                         THEN opinions ELSE bestOpinions
  /\ finalOpinions' = opinions
  /\ log' = log \cup {[round |-> round, max |-> max, critical |-> critical,
                       accepted |-> accepted, opinions |-> opinions]}
  /\ AfterReview
  /\ UNCHANGED <<waiting, opinions, roundScores, lastConsensusScore, abortVars>>

SoleOpinionUntracked ==
  /\ pc = "review" /\ Cardinality(Present(opinions)) < 2
  /\ finalOpinions' = opinions
  /\ AfterReview
  /\ UNCHANGED <<waiting, opinions, bestOpinions, bestRoundScore, ctrlVars,
                 totalCost, abortVars, log>>

\* A council of one: nothing to review, the first answer stays the best.
SoleOpinion ==
  /\ pc = "review" /\ Cardinality(Present(opinions)) < 2
  /\ finalOpinions' = opinions
  /\ bestOpinions'  = IF bestOpinions = NoOpinions THEN opinions
                      ELSE bestOpinions
  /\ AfterReview
  /\ UNCHANGED <<waiting, opinions, bestRoundScore, ctrlVars, totalCost,
                 abortVars, log>>

\* The critic and scorer calls, the consensus score and the decision on it.
EvaluateConsensus(score) ==
  LET reason == Decision(round, score) IN
  /\ pc = "consensus"
  /\ score \in ConsensusValues(opinions)
  /\ totalCost' = Charge(2)
  /\ lastConsensusScore' = score
  /\ roundScores' = IF reason = "cap" THEN roundScores
                    ELSE Append(roundScores, score)
  /\ IF reason = "none" THEN pc' = "round" /\ round' = round + 1
                        ELSE pc' = "synthesis" /\ UNCHANGED round
  /\ UNCHANGED <<waiting, opinions, bestVars, previousMaxScore, abortVars, log>>

Synthesize ==
  /\ pc = "synthesis"
  /\ totalCost' = Charge(1)
  /\ pc' = "validation"
  /\ UNCHANGED <<roundVars, bestVars, ctrlVars, abortVars, log>>

\* Cold validation never throws: a failed call is an invalid verdict.
Validate ==
  /\ pc = "validation"
  /\ \E answered \in {0, 1} : totalCost' = Charge(answered)
  /\ pc' = "publishing"
  /\ UNCHANGED <<roundVars, bestVars, ctrlVars, abortVars, log>>

\* The deterministic checks and the post:llm hook are over: the "done" event,
\* whatever has become of the signal since the last call.
Publish ==
  /\ pc = "publishing"
  /\ pc' = "done"
  /\ UNCHANGED <<roundVars, bestVars, ctrlVars, totalCost, abortVars, log>>

\* Nothing catches a failure of scoring, of a critic or scorer call or of the
\* synthesis call, nor a hook that rejects: pre:llm at the start of a round
\* and of the synthesis, post:llm after the opinions and after the verdict.
Throw ==
  /\ \/ pc = "round" /\ round <= Rounds /\ ~Aborted /\ ~OverBudget
     \/ pc = "gather" /\ waiting = {}
     \/ pc = "review" /\ Cardinality(Present(opinions)) >= 2
     \/ pc \in {"consensus", "synthesis", "publishing"}
  /\ pc' = "failed"
  /\ UNCHANGED <<roundVars, bestVars, ctrlVars, totalCost, abortVars, log>>

Abort ==
  /\ ~Aborted /\ pc \notin Over
  /\ abortedIn' = round /\ costAtAbort' = totalCost
  /\ UNCHANGED <<pc, roundVars, bestVars, ctrlVars, totalCost, log>>

Step ==
  \/ StartRound
  \/ LeaveLoop
  \/ \E m \in Members : GatherOpinion(m)
  \/ EndGather
  \/ \E m \in Members : DebateOpinion(m)
  \/ EndDebate
  \/ \E max \in Scores, critical \in BOOLEAN : PeerReview(max, critical)
  \/ SoleOpinion
  \/ \E score \in Scores : EvaluateConsensus(score)
  \/ Synthesize
  \/ Validate
  \/ Publish
  \/ Throw

Next == Step \/ Abort
Spec == Init /\ [][Next]_vars

\* Every provider call settles: gather and debate calls carry a timeout
\* signal, the others end with the transport's own; the caller need not abort.
FairSpec == Spec /\ WF_vars(Step)

\* The opinions of the "done" event.
ReportedLast == finalOpinions
Reported == IF bestOpinions # NoOpinions THEN bestOpinions ELSE finalOpinions

-------------------------------------------------------------------------------
(* Properties *)

\* Every variable stays in its range, and a round under way is one of those
\* asked for.
TypeOK ==
  /\ pc \in Phases
  /\ round \in 1..(Rounds + 1)
  /\ pc \in {"gather", "debate", "review", "consensus"} => round <= Rounds
  /\ waiting \subseteq Members
  /\ opinions \in Opinions /\ finalOpinions \in Opinions
  /\ bestOpinions \in Opinions
  /\ bestRoundScore \in Scores \cup {-1}
  /\ previousMaxScore \in Scores
  /\ roundScores \in Seq(Scores)
  /\ lastConsensusScore \in Scores
  /\ totalCost \in Nat
  /\ abortedIn \in 0..(Rounds + 1) /\ costAtAbort \in Nat
  /\ log \subseteq [round : 1..Rounds, max : Scores, critical : BOOLEAN,
                    accepted : BOOLEAN, opinions : Opinions]

\* A round that counts: the first, and every later one the controller took.
Counts(e) == e.round = 1 \/ e.accepted

\* The opinions held as best are those of a round that counts, its score is
\* bestRoundScore, and no round that counts scored higher: a weaker or a
\* discarded round never replaces the best one (council.ts:326-346).
BestRoundWins ==
  log # {} =>
    /\ \A e \in log : Counts(e) => e.max <= bestRoundScore
    /\ \E e \in log : /\ Counts(e)
                      /\ e.max = bestRoundScore
                      /\ e.opinions = bestOpinions

\* The rounds the controller accepts score strictly higher one after the
\* other and none of them holds a critical failure (controller.ts:91-109).
AcceptedRoundsImprove ==
  \A e \in log : e.accepted =>
    /\ ~e.critical
    /\ \A f \in log : f.accepted /\ f.round < e.round => f.max < e.max

\* A "done" event that carries opinions carries the answers of a quorum of
\* members; the texts put in for silent members do not make the quorum.
QuorumBehindResult ==
  pc = "done" /\ Reported # NoOpinions =>
    Cardinality(Answered(Reported)) >= MinRequired

\* The adversarial and the grounding audit of a round are never skipped: the
\* consensus that would skip them has already halted the rounds.
AuditsNeverSkipped == pc = "review" => ~SkipAdversarial /\ ~SkipGrounding

\* The rounds go on only from consensus scores below the threshold, none of
\* which fell by more than the tolerance from one round to the next.
RefinementHistorySound ==
  \A i \in 1..(Len(roundScores) - 1) :
    /\ roundScores[i] < HaltScore
    /\ i > 1 => roundScores[i] >= roundScores[i - 1] - Tolerance

\* What the rounds go on from: a sound history, and audits that all take place
\* (controller.ts:33-80, council.ts:305-306).
RoundsGoOnSoundly == RefinementHistorySound /\ AuditsNeverSkipped

\* The limit is looked at between rounds only, so a deliberation can pass it
\* by what one round and the verdict cost, and by no more: the first round
\* (gather, debate, review, consensus) starts at 0, a later one (no debate)
\* below the limit, and synthesis and validation come on top.
CostOverrunBounded ==
  LET n == Cardinality(Members) IN
  CostLimit > 0 => \/ totalCost <= (3 * n + 2) + 2
                   \/ totalCost <= (CostLimit - 1) + (2 * n + 2) + 2

\* The signal is looked at at the head of the loop only, and calls may be
\* answered in spite of it, so an abort does not stop the spending at once.
\* What still comes is the rest of the round under way and the verdict, and
\* nothing more: no round starts after it (council.ts:222).
AbortCapsSpending ==
  LET n == Cardinality(Members) IN
  Aborted => totalCost <= costAtAbort + (IF abortedIn = 1 THEN 3 * n + 2
                                                          ELSE 2 * n + 2) + 2

\* How far a deliberation is in the eyes of its caller.
Stage == CASE pc = "done" -> "published"
           [] pc = "failed" -> "failed"
           [] pc \in {"synthesis", "validation", "publishing"} -> "concluding"
           [] OTHER -> "deliberating"

\* The deliberation publishes the best candidate it ever held: a step improves
\* on it, concludes, publishes it, fails, or leaves it alone (council.ts).
Promise == INSTANCE AbstractDeliberation WITH
  Candidates <- Opinions, NoCandidate <- NoOpinions,
  stage <- Stage, held <- bestOpinions, score <- bestRoundScore,
  published <- IF pc = "done" THEN Reported ELSE NoOpinions
ImplementsPromise == Promise!Spec

\* What a deliberation has before it: every answer still out, every phase and
\* every round left counts, and the verdict.
WholeRound == 2 * Cardinality(Members) + 5
RestOfRound ==
  CASE pc = "gather"    -> Cardinality(waiting) + Cardinality(Members) + 4
    [] pc = "debate"    -> Cardinality(waiting) + 3
    [] pc = "review"    -> 2
    [] pc = "consensus" -> 1
    [] OTHER            -> 0
RoundsLeft == IF pc = "round" THEN Rounds + 1 - round ELSE Rounds - round
Remaining ==
  CASE pc \in Over       -> 0
    [] pc = "publishing" -> 1
    [] pc = "validation" -> 2
    [] pc = "synthesis"  -> 3
    [] OTHER             -> 4 + RoundsLeft * WholeRound + RestOfRound

\* Whatever the members answer and the scores do, each step leaves less to do
\* than there was, and an abort at least not more (council.ts:220-382).
WindsDown ==
  [][ /\ Remaining' \in 0..Remaining
      /\ abortedIn' = abortedIn => Remaining' < Remaining ]_vars

\* Every deliberation comes to an end, with a "done" event or an error.
Terminates == <>(pc \in Over)

-------------------------------------------------------------------------------
(* The inductive invariant behind BestRoundWins, AcceptedRoundsImprove and   *)
(* QuorumBehindResult (proved in Deliberation_proofs).                       *)

BeforeReview == {"round", "gather", "debate", "review"}

\* Rounds are reviewed in order, once each, and the controller's maximum is
\* that of the accepted ones.
LogInOrder ==
  /\ \A e \in log : /\ e.round <= round
                    /\ pc \in BeforeReview => e.round < round
                    /\ e.accepted => e.max <= previousMaxScore
  /\ /\ Cardinality(Members) > 1
     /\ pc = "consensus" \/ (pc \in BeforeReview /\ round > 1)
     => log # {}
  /\ log # {} => Cardinality(Members) > 1

\* Silent members count for nothing: neither the opinions under way past the
\* quorum check nor those kept rest on fewer than MinRequired answers.
Backed(ops) == Cardinality(Answered(ops)) >= MinRequired
QuorumKept ==
  /\ pc = "gather" => \A m \in Members : opinions[m] # "placeholder"
  /\ pc \in {"debate", "review"} => Backed(opinions)
  /\ bestOpinions = NoOpinions \/ Backed(bestOpinions)
  /\ finalOpinions = NoOpinions \/ Backed(finalOpinions)
  /\ \A e \in log : Backed(e.opinions)

IInv == TypeOK /\ LogInOrder /\ QuorumKept /\ BestRoundWins
        /\ AcceptedRoundsImprove
===============================================================================
