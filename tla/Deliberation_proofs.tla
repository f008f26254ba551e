-------------------------- MODULE Deliberation_proofs --------------------------
(***************************************************************************)
(* Theorems about Deliberation, for any council, number of rounds, scores   *)
(* and limits.                                                              *)
(***************************************************************************)
EXTENDS Deliberation, FiniteSetTheorems, TLAPS

(* The size of the council, and of the parts of it that have opinions. *)
LEMMA CouncilSize ==
  /\ Cardinality(Members) \in Nat /\ Cardinality(Members) > 0
  /\ \A S \in SUBSET Members :
       Cardinality(S) \in Nat /\ Cardinality(S) <= Cardinality(Members)
<1>1. Cardinality(Members) \in Nat
  BY FS_CardinalityType, MembersAssumption
<1>2. Cardinality(Members) # 0
  BY FS_EmptySet, MembersAssumption
<1>3. ASSUME NEW S \in SUBSET Members
      PROVE  Cardinality(S) \in Nat /\ Cardinality(S) <= Cardinality(Members)
  BY FS_Subset, FS_CardinalityType, MembersAssumption
<1> QED BY <1>1, <1>2, <1>3

(* The quorum is at least one answer, at least two in a council of several. *)
LEMMA QuorumSize ==
  /\ MinRequired \in Nat /\ MinRequired > 0
  /\ Cardinality(Members) > 1 => MinRequired > 1
<1>1. HalfCouncil \in Nat
  BY CouncilSize DEF HalfCouncil
<1> QED BY <1>1, CouncilSize DEF MinRequired

(* Answers are opinions, and there are no more opinions than members. *)
LEMMA OpinionCounts ==
  ASSUME NEW ops
  PROVE  /\ Cardinality(Present(ops)) \in Nat
         /\ Cardinality(Answered(ops)) \in Nat
         /\ Cardinality(Present(ops)) <= Cardinality(Members)
         /\ Cardinality(Answered(ops)) <= Cardinality(Present(ops))
<1>1. Present(ops) \in SUBSET Members /\ Answered(ops) \in SUBSET Present(ops)
  BY DEF Present, Answered
<1>2. IsFiniteSet(Present(ops))
  BY <1>1, FS_Subset, MembersAssumption
<1>3. Cardinality(Answered(ops)) <= Cardinality(Present(ops))
  BY <1>1, <1>2, FS_Subset
<1> QED BY <1>1, <1>3, CouncilSize

(* A round goes on to the debate or the review only with a quorum. *)
LEMMA AfterGatherType ==
  /\ AfterGather \in {"failed", "synthesis", "debate", "review"}
  /\ AfterGather \in {"debate", "review"} =>
       Cardinality(Present(opinions)) >= MinRequired
BY OpinionCounts, QuorumSize DEF AfterGather

(* The cost only counts up. *)
LEMMA ChargeType ==
  ASSUME totalCost \in Nat, NEW calls \in Nat
  PROVE  Charge(calls) \in Nat
BY DEF Charge

(* The round number after a review is that of a round asked for, or of the
   head of the loop after the last one. *)
LEMMA AfterReviewType ==
  ASSUME TypeOK, pc = "review", AfterReview
  PROVE  /\ pc' \in Phases /\ round' \in 1..(Rounds + 1) /\ round \in 1..Rounds
         /\ pc' \in {"gather", "debate", "review", "consensus"} =>
              round' <= Rounds
<1>1. round \in 1..(Rounds + 1) /\ round <= Rounds
  BY DEF TypeOK
<1>2. Rounds \in Nat
  BY NumbersAssumption
<1> QED BY <1>1, <1>2 DEF AfterReview, Phases

(* A stuttering step changes no variable. *)
LEMMA Unchanged ==
  ASSUME UNCHANGED vars
  PROVE  /\ pc' = pc /\ round' = round /\ opinions' = opinions
         /\ waiting' = waiting /\ finalOpinions' = finalOpinions
         /\ bestOpinions' = bestOpinions /\ bestRoundScore' = bestRoundScore
         /\ previousMaxScore' = previousMaxScore /\ roundScores' = roundScores
         /\ lastConsensusScore' = lastConsensusScore /\ totalCost' = totalCost
         /\ abortedIn' = abortedIn /\ costAtAbort' = costAtAbort
         /\ log' = log
BY DEF vars, roundVars, bestVars, ctrlVars, abortVars

(* The consensus of a round is a score. *)
LEMMA ConsensusType ==
  ASSUME NEW ops, NEW score \in ConsensusValues(ops)
  PROVE  score \in Scores
BY NumbersAssumption DEF ConsensusValues, Scores

-------------------------------------------------------------------------------
(* No step of deliberate() leaves the ranges of TypeOK. *)
LEMMA TypeStep == TypeOK /\ [Next]_vars => TypeOK'
<1> SUFFICES ASSUME TypeOK, [Next]_vars PROVE TypeOK'
  OBVIOUS
<1> USE DEF roundVars, bestVars, ctrlVars, abortVars, Phases
<1>0. totalCost \in Nat
  BY DEF TypeOK
<1>1. CASE StartRound
  BY <1>1 DEF TypeOK, StartRound, NoOpinions, Opinions, OpinionKind
<1>2. CASE LeaveLoop
  BY <1>2 DEF TypeOK, LeaveLoop
<1>3. ASSUME NEW m \in Members, GatherOpinion(m) PROVE TypeOK'
  <2>1. PICK o \in GatherOutcome(m) :
          /\ opinions' = [opinions EXCEPT ![m] = o.kind]
          /\ totalCost' = Charge(o.counted)
    BY <1>3 DEF GatherOpinion
  <2>2. o.kind \in OpinionKind /\ o.counted \in {0, 1}
    BY DEF GatherOutcome, OpinionKind
  <2>3. opinions' \in Opinions
    BY <2>1, <2>2 DEF TypeOK, Opinions
  <2>4. totalCost' \in Nat
    BY <1>0, <2>1, <2>2, ChargeType
  <2> QED BY <1>3, <2>3, <2>4 DEF TypeOK, GatherOpinion
<1>4. CASE EndGather
  BY <1>4, AfterGatherType DEF TypeOK, EndGather
<1>5. ASSUME NEW m \in Members, DebateOpinion(m) PROVE TypeOK'
  <2>1. opinions' \in Opinions
    BY <1>5 DEF TypeOK, DebateOpinion, Opinions, OpinionKind
  <2>2. totalCost' \in Nat
    BY <1>0, <1>5, ChargeType DEF DebateOpinion
  <2> QED BY <1>5, <2>1, <2>2 DEF TypeOK, DebateOpinion
<1>6. CASE EndDebate
  BY <1>6 DEF TypeOK, EndDebate
<1>7. ASSUME NEW max \in Scores, NEW critical \in BOOLEAN,
             PeerReview(max, critical)
      PROVE  TypeOK'
  <2>0. ShouldAccept(max, critical) \in BOOLEAN
    BY DEF ShouldAccept
  <2>1. PICK paid \in 0..Cardinality(Members) :
          totalCost' = Charge(paid)
    BY <1>7 DEF PeerReview
  <2>2. totalCost' \in Nat
    BY <1>0, <2>1, CouncilSize, ChargeType
  <2>3. pc = "review" /\ AfterReview
    BY <1>7 DEF PeerReview
  <2>4. /\ pc' \in Phases /\ round' \in 1..(Rounds + 1) /\ round \in 1..Rounds
        /\ pc' \in {"gather", "debate", "review", "consensus"} =>
             round' <= Rounds
    BY <2>3, AfterReviewType
  <2>5. previousMaxScore' \in Scores /\ bestRoundScore' \in Scores \cup {-1}
    BY <1>7 DEF TypeOK, PeerReview
  <2>6. bestOpinions' \in Opinions /\ finalOpinions' \in Opinions
    BY <1>7 DEF TypeOK, PeerReview
  <2>7. log' \subseteq [round : 1..Rounds, max : Scores, critical : BOOLEAN,
                        accepted : BOOLEAN, opinions : Opinions]
    <3> DEFINE e == [round |-> round, max |-> max, critical |-> critical,
                     accepted |-> ShouldAccept(max, critical),
                     opinions |-> opinions]
    <3>1. log' = log \cup {e}
      BY <1>7 DEF PeerReview
    <3>2. e \in [round : 1..Rounds, max : Scores, critical : BOOLEAN,
                 accepted : BOOLEAN, opinions : Opinions]
      BY <2>0, <2>4 DEF TypeOK
    <3> HIDE DEF e
    <3> QED BY <3>1, <3>2 DEF TypeOK
  <2> QED BY <1>7, <2>2, <2>4, <2>5, <2>6, <2>7 DEF TypeOK, PeerReview
<1>8. CASE SoleOpinion
  <2>1. pc = "review" /\ AfterReview
    BY <1>8 DEF SoleOpinion
  <2> QED BY <1>8, <2>1, AfterReviewType DEF TypeOK, SoleOpinion
<1>9. ASSUME NEW score \in Scores, EvaluateConsensus(score) PROVE TypeOK'
  <2> DEFINE reason == Decision(round, score)
  <2>1. totalCost' \in Nat
    BY <1>0, <1>9, ChargeType DEF EvaluateConsensus
  <2>2. /\ pc' \in Phases /\ round' \in 1..(Rounds + 1)
        /\ pc' \notin {"gather", "debate", "review", "consensus"}
    <3> HIDE DEF reason
    <3>1. /\ pc = "consensus"
          /\ IF reason = "none" THEN pc' = "round" /\ round' = round + 1
                                ELSE pc' = "synthesis" /\ UNCHANGED round
      BY <1>9 DEF EvaluateConsensus, reason
    <3>2. round \in 1..(Rounds + 1) /\ (pc = "consensus" => round <= Rounds)
      BY DEF TypeOK
    <3>3. Rounds \in Nat
      BY NumbersAssumption
    <3> QED BY <3>1, <3>2, <3>3
  <2>3. roundScores' \in Seq(Scores)
    <3>1. roundScores \in Seq(Scores)
      BY DEF TypeOK
    <3>2. roundScores' = roundScores \/ roundScores' = Append(roundScores, score)
      BY <1>9 DEF EvaluateConsensus
    <3> QED BY <1>9, <3>1, <3>2
  <2> QED BY <1>9, <2>1, <2>2, <2>3 DEF TypeOK, EvaluateConsensus
<1>10. CASE Synthesize
  BY <1>0, <1>10, ChargeType DEF TypeOK, Synthesize
<1>11. CASE Validate
  BY <1>0, <1>11, ChargeType DEF TypeOK, Validate
<1>12. CASE Publish
  BY <1>12 DEF TypeOK, Publish
<1>13. CASE Throw
  BY <1>13 DEF TypeOK, Throw
<1>14. CASE Abort
  BY <1>0, <1>14, NumbersAssumption DEF TypeOK, Abort
<1>15. CASE UNCHANGED vars
  BY <1>15, Unchanged, ZenonT(30) DEF TypeOK
<1> QED
  BY <1>1, <1>2, <1>3, <1>4, <1>5, <1>6, <1>7, <1>8, <1>9, <1>10, <1>11,
     <1>12, <1>13, <1>14, <1>15 DEF Next, Step

(* It starts within them. *)
LEMMA InitTypeOK == Init => TypeOK
<1> SUFFICES ASSUME Init PROVE TypeOK
  OBVIOUS
<1>1. NoOpinions \in Opinions
  BY DEF NoOpinions, Opinions, OpinionKind
<1>2. 0 \in Scores /\ 1 \in 1..(Rounds + 1) /\ 0 \in 0..(Rounds + 1)
  BY NumbersAssumption DEF Scores
<1>3. <<>> \in Seq(Scores)
  OBVIOUS
<1> QED BY <1>1, <1>2, <1>3 DEF Init, TypeOK, Phases

(* Every variable stays in its range, in every step of deliberate(). *)
THEOREM TypeCorrect == Spec => []TypeOK
BY InitTypeOK, TypeStep, PTL DEF Spec

-------------------------------------------------------------------------------
(* What a quorum is made of. *)

(* Nobody's answers are no quorum. *)
LEMMA BackedNotEmpty ==
  ASSUME NEW ops, Backed(ops)
  PROVE  ops # NoOpinions
<1> SUFFICES ASSUME ops = NoOpinions PROVE FALSE
  OBVIOUS
<1>1. Answered(ops) = {}
  BY DEF Answered, NoOpinions
<1>2. Cardinality(Answered(ops)) = 0
  BY <1>1, FS_EmptySet
<1> QED BY <1>2, QuorumSize DEF Backed

(* One answer is a quorum in a council of one only. *)
LEMMA SoleBacked ==
  ASSUME NEW ops, Backed(ops), Cardinality(Present(ops)) < 2
  PROVE  ~(Cardinality(Members) > 1)
BY OpinionCounts, QuorumSize DEF Backed

(* A text put in for a silent member leaves the answers as they are. *)
LEMMA PlaceholderIsNoAnswer ==
  ASSUME NEW m \in Members, opinions \in Opinions, opinions[m] = "absent"
  PROVE  Answered([opinions EXCEPT ![m] = "placeholder"]) = Answered(opinions)
BY DEF Answered, Opinions

(* A gather round without placeholders that goes on has a quorum of answers. *)
LEMMA GatheredIsBacked ==
  ASSUME opinions \in Opinions,
         \A m \in Members : opinions[m] # "placeholder",
         AfterGather \in {"debate", "review"}
  PROVE  Backed(opinions)
<1>1. Present(opinions) = Answered(opinions)
  BY DEF Present, Answered, Opinions, OpinionKind
<1> QED BY <1>1, AfterGatherType DEF Backed

-------------------------------------------------------------------------------
(* The steps, conjunct by conjunct of the inductive invariant. *)

(* Every step but a review and the decision on its consensus leaves the log,
   the round and the controller's maximum alone and reviews nothing. *)
LEMMA QuietStep ==
  ASSUME TypeOK, [Next]_vars,
         ~(\E max \in Scores, critical \in BOOLEAN : PeerReview(max, critical)),
         ~SoleOpinion,
         ~(\E score \in Scores : EvaluateConsensus(score))
  PROVE  /\ log' = log /\ round' = round /\ previousMaxScore' = previousMaxScore
         /\ finalOpinions' = finalOpinions /\ bestOpinions' = bestOpinions
         /\ bestRoundScore' = bestRoundScore
         /\ pc' \in BeforeReview => pc \in BeforeReview
         /\ pc' = "consensus" => pc = "consensus"
<1> USE DEF roundVars, bestVars, ctrlVars, abortVars, BeforeReview
<1>1. CASE \/ StartRound \/ LeaveLoop \/ Synthesize \/ Validate \/ Publish
           \/ Throw \/ Abort
  BY <1>1 DEF StartRound, LeaveLoop, Synthesize, Validate, Publish, Throw, Abort
<1>2. CASE \E m \in Members : GatherOpinion(m) \/ DebateOpinion(m)
  BY <1>2 DEF GatherOpinion, DebateOpinion
<1>3. CASE EndGather \/ EndDebate
  BY <1>3, AfterGatherType DEF EndGather, EndDebate
<1>4. CASE UNCHANGED vars
  BY <1>4, Unchanged, ZenonT(30)
<1> QED BY <1>1, <1>2, <1>3, <1>4 DEF Next, Step

(* The numbers in the state are integers. *)
LEMMA NumberFacts ==
  ASSUME TypeOK
  PROVE  /\ round \in Nat /\ round > 0
         /\ previousMaxScore \in Int /\ bestRoundScore \in Int
         /\ \A e \in log : e.round \in Nat /\ e.round > 0 /\ e.max \in Int
<1>1. /\ round \in 1..(Rounds + 1)
      /\ previousMaxScore \in Scores /\ bestRoundScore \in Scores \cup {-1}
      /\ \A e \in log : e.round \in 1..Rounds /\ e.max \in Scores
  <2>1. log \subseteq [round : 1..Rounds, max : Scores, critical : BOOLEAN,
                       accepted : BOOLEAN, opinions : Opinions]
    BY DEF TypeOK
  <2>2. \A e \in log : e.round \in 1..Rounds /\ e.max \in Scores
    BY <2>1
  <2> QED BY <2>2 DEF TypeOK
<1>2. Rounds \in Nat /\ MaxScore \in Nat
  BY NumbersAssumption
<1> QED BY <1>1, <1>2 DEF Scores

(* What a review records, in the terms of the inductive invariant. *)
LEMMA ReviewFacts ==
  ASSUME TypeOK, NEW max \in Scores, NEW critical \in BOOLEAN,
         PeerReview(max, critical)
  PROVE  /\ pc = "review" /\ Cardinality(Members) > 1
         /\ round \in 1..Rounds /\ Rounds \in Nat /\ max \in Int
         /\ previousMaxScore \in Int /\ bestRoundScore \in Int
         /\ \A e \in log : e.round \in Nat /\ e.round > 0 /\ e.max \in Int
         /\ \/ pc' = "consensus" /\ round' = round
            \/ pc' = "round" /\ round' = round + 1
<1>1. pc = "review" /\ Cardinality(Present(opinions)) >= 2 /\ AfterReview
  BY DEF PeerReview
<1>2. Cardinality(Members) > 1
  BY <1>1, OpinionCounts, CouncilSize
<1>3. round \in 1..Rounds /\ Rounds \in Nat
  BY <1>1, AfterReviewType, NumbersAssumption
<1>4. max \in Int
  BY NumbersAssumption DEF Scores
<1>5. \/ pc' = "consensus" /\ round' = round
      \/ pc' = "round" /\ round' = round + 1
  BY <1>1 DEF AfterReview
<1> QED BY <1>1, <1>2, <1>3, <1>4, <1>5, NumberFacts

(* The rounds stay in order, and accepted maxima below the controller's. *)
LEMMA LogStep ==
  TypeOK /\ LogInOrder /\ QuorumKept /\ [Next]_vars => LogInOrder'
<1> SUFFICES ASSUME TypeOK, LogInOrder, QuorumKept, [Next]_vars
             PROVE  LogInOrder'
  OBVIOUS
<1>0. round \in Nat /\ \A e \in log : e.round \in Nat
  BY NumberFacts
<1>1. ASSUME NEW max \in Scores, NEW critical \in BOOLEAN,
             PeerReview(max, critical)
      PROVE  LogInOrder'
  <2> DEFINE new == [round |-> round, max |-> max, critical |-> critical,
                     accepted |-> ShouldAccept(max, critical),
                     opinions |-> opinions]
  <2>1. /\ log' = log \cup {new}
        /\ previousMaxScore' = IF ShouldAccept(max, critical) THEN max
                               ELSE previousMaxScore
    BY <1>1 DEF PeerReview
  <2>2. /\ pc = "review" /\ Cardinality(Members) > 1
        /\ round \in Nat /\ max \in Int /\ previousMaxScore \in Int
        /\ \A e \in log : e.round \in Nat /\ e.max \in Int
        /\ \/ pc' = "consensus" /\ round' = round
           \/ pc' = "round" /\ round' = round + 1
    BY <1>1, ReviewFacts
  <2>3. previousMaxScore' >= previousMaxScore
    BY <2>1, <2>2 DEF ShouldAccept
  <2>4. /\ new.round = round /\ new.max = max
        /\ new.accepted => new.max <= previousMaxScore'
    BY <2>1, <2>2
  <2>5. ASSUME NEW e \in log
        PROVE  e.round < round /\ (e.accepted => e.max <= previousMaxScore')
    BY <2>1, <2>2, <2>3 DEF LogInOrder, BeforeReview
  <2> HIDE DEF new
  <2> QED BY <2>1, <2>2, <2>4, <2>5 DEF LogInOrder, BeforeReview
<1>2. CASE SoleOpinion
  <2>1. ~(Cardinality(Members) > 1) /\ log = {} /\ log' = log
    BY <1>2, SoleBacked DEF SoleOpinion, QuorumKept, LogInOrder
  <2> QED BY <2>1 DEF LogInOrder
<1>3. ASSUME NEW score \in Scores, EvaluateConsensus(score) PROVE LogInOrder'
  <2>1. /\ pc = "consensus" /\ log' = log
        /\ previousMaxScore' = previousMaxScore
        /\ \/ pc' = "round" /\ round' = round + 1
           \/ pc' = "synthesis" /\ round' = round
    BY <1>3 DEF EvaluateConsensus
  <2> QED BY <1>0, <2>1 DEF LogInOrder, BeforeReview
<1>4. CASE /\ ~(\E max \in Scores, critical \in BOOLEAN :
                  PeerReview(max, critical))
           /\ ~SoleOpinion
           /\ ~(\E score \in Scores : EvaluateConsensus(score))
  <2>1. /\ log' = log /\ round' = round /\ previousMaxScore' = previousMaxScore
        /\ pc' \in BeforeReview => pc \in BeforeReview
        /\ pc' = "consensus" => pc = "consensus"
    BY <1>4, QuietStep
  <2> QED BY <2>1 DEF LogInOrder
<1> QED BY <1>1, <1>2, <1>3, <1>4

(* Silent members never make up a quorum. *)
LEMMA QuorumStep ==
  TypeOK /\ QuorumKept /\ [Next]_vars => QuorumKept'
<1> SUFFICES ASSUME TypeOK, QuorumKept, [Next]_vars PROVE QuorumKept'
  OBVIOUS
<1> USE DEF roundVars, bestVars, ctrlVars, abortVars
<1>1. CASE StartRound
  BY <1>1 DEF QuorumKept, StartRound, NoOpinions, Backed, Answered
<1>2. ASSUME NEW m \in Members, GatherOpinion(m) PROVE QuorumKept'
  <2>1. PICK o \in GatherOutcome(m) :
          opinions' = [opinions EXCEPT ![m] = o.kind]
    BY <1>2 DEF GatherOpinion
  <2>2. o.kind # "placeholder"
    BY DEF GatherOutcome
  <2>3. \A n \in Members : opinions'[n] # "placeholder"
    BY <1>2, <2>1, <2>2 DEF QuorumKept, TypeOK, Opinions, GatherOpinion
  <2> QED BY <1>2, <2>3 DEF QuorumKept, GatherOpinion, Backed, Answered
<1>3. CASE EndGather
  <2>1. AfterGather \in {"debate", "review"} => Backed(opinions)
    BY <1>3, GatheredIsBacked DEF EndGather, QuorumKept, TypeOK
  <2>2. AfterGather # "gather"
    BY AfterGatherType
  <2> QED BY <1>3, <2>1, <2>2 DEF QuorumKept, EndGather, Backed, Answered
<1>4. ASSUME NEW m \in Members, DebateOpinion(m) PROVE QuorumKept'
  <2>1. opinions \in Opinions
    BY DEF TypeOK
  <2>2. CASE opinions[m] = "absent"
    <3>1. opinions' = [opinions EXCEPT ![m] = "placeholder"]
      BY <1>4, <2>2 DEF DebateOpinion
    <3>2. Answered([opinions EXCEPT ![m] = "placeholder"]) = Answered(opinions)
      BY <2>1, <2>2, PlaceholderIsNoAnswer
    <3>3. Answered(opinions') = Answered(opinions)
      BY <3>1, <3>2
    <3> QED BY <1>4, <3>3 DEF QuorumKept, DebateOpinion, Backed
  <2>3. CASE opinions[m] # "absent"
    BY <1>4, <2>3 DEF QuorumKept, DebateOpinion, Backed, Answered
  <2> QED BY <2>2, <2>3
<1>5. ASSUME NEW max \in Scores, NEW critical \in BOOLEAN,
             PeerReview(max, critical)
      PROVE  QuorumKept'
  <2>1. Backed(opinions) /\ pc' \in {"consensus", "round"}
    BY <1>5 DEF PeerReview, QuorumKept, AfterReview
  <2>2. \A e \in log' : Backed(e.opinions)
    BY <1>5, <2>1 DEF PeerReview, QuorumKept
  <2> QED BY <1>5, <2>1, <2>2 DEF QuorumKept, PeerReview, Backed, Answered
<1>6. CASE SoleOpinion
  BY <1>6 DEF QuorumKept, SoleOpinion, AfterReview, Backed, Answered
<1>7. CASE \E score \in Scores : EvaluateConsensus(score)
  BY <1>7 DEF QuorumKept, EvaluateConsensus, Backed, Answered
<1>8. CASE EndDebate
  BY <1>8 DEF QuorumKept, EndDebate, Backed, Answered
<1>9. CASE LeaveLoop \/ Synthesize \/ Validate \/ Publish \/ Throw \/ Abort
  BY <1>9 DEF QuorumKept, LeaveLoop, Synthesize, Validate, Publish, Throw, Abort,
              Backed, Answered
<1>10. CASE UNCHANGED vars
  BY <1>10, Unchanged, ZenonT(30) DEF QuorumKept, Backed, Answered
<1> QED BY <1>1, <1>2, <1>3, <1>4, <1>5, <1>6, <1>7, <1>8, <1>9, <1>10
        DEF Next, Step

(* A step other than a review leaves the best round and the log alone; a
   council of one, whose opinions may still change, has an empty log. *)
LEMMA BestUnchanged ==
  ASSUME TypeOK, LogInOrder, QuorumKept, [Next]_vars,
         ~(\E max \in Scores, critical \in BOOLEAN : PeerReview(max, critical))
  PROVE  /\ log' = log
         /\ log # {} => /\ bestRoundScore' = bestRoundScore
                        /\ bestOpinions' = bestOpinions
<1>1. CASE SoleOpinion
  BY <1>1, SoleBacked DEF SoleOpinion, QuorumKept, LogInOrder
<1>2. CASE \E score \in Scores : EvaluateConsensus(score)
  BY <1>2 DEF EvaluateConsensus, bestVars
<1>3. CASE ~SoleOpinion /\ ~(\E score \in Scores : EvaluateConsensus(score))
  BY <1>3, QuietStep
<1> QED BY <1>1, <1>2, <1>3

(* A weaker or a discarded round never replaces the best one. *)
LEMMA BestStep ==
  TypeOK /\ LogInOrder /\ QuorumKept /\ BestRoundWins /\ [Next]_vars
    => BestRoundWins'
<1> SUFFICES ASSUME TypeOK, LogInOrder, QuorumKept, BestRoundWins, [Next]_vars
             PROVE  BestRoundWins'
  OBVIOUS
<1>1. ASSUME NEW max \in Scores, NEW critical \in BOOLEAN,
             PeerReview(max, critical)
      PROVE  BestRoundWins'
  <2> DEFINE accepted == ShouldAccept(max, critical)
  <2> DEFINE new == [round |-> round, max |-> max, critical |-> critical,
                     accepted |-> accepted, opinions |-> opinions]
  <2>1. /\ log' = log \cup {new}
        /\ bestRoundScore' = IF TakesBest(max, accepted) THEN max
                             ELSE bestRoundScore
        /\ bestOpinions' = IF TakesBest(max, accepted) \/ bestOpinions = NoOpinions
                           THEN opinions ELSE bestOpinions
    BY <1>1 DEF PeerReview
  <2>2. /\ pc = "review" /\ Cardinality(Members) > 1
        /\ round \in Nat /\ round > 0 /\ max \in Int /\ bestRoundScore \in Int
        /\ \A e \in log : e.round \in Nat /\ e.round > 0 /\ e.max \in Int
    BY <1>1, ReviewFacts
  <2>3. \A e \in log : e.round < round
    BY <2>2 DEF LogInOrder, BeforeReview
  <2>4. /\ new.round = round /\ new.max = max /\ new.opinions = opinions
        /\ new.accepted = accepted
    OBVIOUS
  <2>5. accepted \in BOOLEAN
    BY DEF ShouldAccept
  <2> HIDE DEF new, accepted
  <2>6. CASE round = 1
    <3>1. log = {}
      BY <2>2, <2>3, <2>6
    <3>2. bestRoundScore' = max /\ bestOpinions' = opinions
      BY <2>1, <2>6 DEF TakesBest
    <3> QED BY <2>1, <2>2, <2>4, <2>6, <3>1, <3>2 DEF BestRoundWins, Counts
  <2>7. CASE round > 1
    <3>1. log # {}
      BY <2>2, <2>7 DEF LogInOrder, BeforeReview
    <3>2. \A e \in log : Counts(e) => e.max <= bestRoundScore
      BY <3>1 DEF BestRoundWins
    <3>3. PICK b \in log : /\ Counts(b) /\ b.max = bestRoundScore
                           /\ b.opinions = bestOpinions
      BY <3>1 DEF BestRoundWins
    <3>4. bestOpinions # NoOpinions
      BY <3>3, BackedNotEmpty DEF QuorumKept
    <3>5. Counts(new) <=> accepted
      BY <2>2, <2>4, <2>5, <2>7 DEF Counts
    <3>6. CASE TakesBest(max, accepted)
      <4>1. accepted /\ max > bestRoundScore
        BY <2>2, <2>7, <3>6 DEF TakesBest
      <4>2. bestRoundScore' = max /\ bestOpinions' = opinions
        BY <2>1, <3>6
      <4>3. ASSUME NEW e \in log', Counts(e) PROVE e.max <= bestRoundScore'
        <5>1. CASE e \in log
          BY <2>2, <3>2, <4>1, <4>2, <4>3, <5>1
        <5>2. CASE e = new
          BY <2>2, <2>4, <4>2, <5>2
        <5> QED BY <2>1, <5>1, <5>2
      <4>4. new \in log' /\ Counts(new)
        BY <2>1, <3>5, <4>1
      <4> QED BY <2>4, <4>2, <4>3, <4>4 DEF BestRoundWins, Counts
    <3>7. CASE ~TakesBest(max, accepted)
      <4>1. bestRoundScore' = bestRoundScore /\ bestOpinions' = bestOpinions
        BY <2>1, <3>4, <3>7
      <4>2. Counts(new) => new.max <= bestRoundScore
        BY <2>2, <2>4, <3>5, <3>7 DEF TakesBest
      <4>3. \A e \in log' : Counts(e) => e.max <= bestRoundScore'
        BY <2>1, <3>2, <4>1, <4>2
      <4>4. b \in log'
        BY <2>1, <3>3
      <4> QED BY <3>3, <4>1, <4>3, <4>4 DEF BestRoundWins, Counts
    <3> QED BY <3>6, <3>7
  <2> QED BY <2>2, <2>6, <2>7
<1>2. CASE ~(\E max \in Scores, critical \in BOOLEAN : PeerReview(max, critical))
  BY <1>2, BestUnchanged DEF BestRoundWins, Counts
<1> QED BY <1>1, <1>2

(* An accepted round beats every accepted round before it. *)
LEMMA AcceptedStep ==
  TypeOK /\ LogInOrder /\ QuorumKept /\ AcceptedRoundsImprove /\ [Next]_vars
    => AcceptedRoundsImprove'
<1> SUFFICES ASSUME TypeOK, LogInOrder, QuorumKept, AcceptedRoundsImprove,
                    [Next]_vars
             PROVE  AcceptedRoundsImprove'
  OBVIOUS
<1>1. ASSUME NEW max \in Scores, NEW critical \in BOOLEAN,
             PeerReview(max, critical)
      PROVE  AcceptedRoundsImprove'
  <2> DEFINE accepted == ShouldAccept(max, critical)
  <2> DEFINE new == [round |-> round, max |-> max, critical |-> critical,
                     accepted |-> accepted, opinions |-> opinions]
  <2>1. log' = log \cup {new}
    BY <1>1 DEF PeerReview
  <2>2. /\ pc = "review"
        /\ round \in Nat /\ max \in Int /\ previousMaxScore \in Int
        /\ \A e \in log : e.round \in Nat /\ e.max \in Int
    BY <1>1, ReviewFacts
  <2>3. \A e \in log : /\ e.round < round
                       /\ e.accepted => e.max <= previousMaxScore
    BY <2>2 DEF LogInOrder, BeforeReview
  <2>4. /\ new.round = round /\ new.max = max
        /\ new.accepted => max > previousMaxScore /\ ~new.critical
    BY DEF ShouldAccept
  <2> HIDE DEF new
  <2>5. ASSUME NEW e \in log', e.accepted
        PROVE  /\ ~e.critical
               /\ \A f \in log' : f.accepted /\ f.round < e.round => f.max < e.max
    <3>1. CASE e \in log
      BY <2>1, <2>2, <2>3, <2>4, <2>5, <3>1 DEF AcceptedRoundsImprove
    <3>2. CASE e = new
      BY <2>1, <2>2, <2>3, <2>4, <2>5, <3>2
    <3> QED BY <2>1, <2>5, <3>1, <3>2
  <2> QED BY <2>5 DEF AcceptedRoundsImprove
<1>2. CASE ~(\E max \in Scores, critical \in BOOLEAN : PeerReview(max, critical))
  BY <1>2, BestUnchanged DEF AcceptedRoundsImprove
<1> QED BY <1>1, <1>2

-------------------------------------------------------------------------------
(* Rounds in order, quorums of answers, the best round kept: the invariant
   that deliberate() maintains from one step to the next. *)
THEOREM InductiveInvariant == Spec => []IInv
<1>1. Init => IInv
  <2> SUFFICES ASSUME Init PROVE IInv
    OBVIOUS
  <2>1. TypeOK
    BY InitTypeOK
  <2>2. log = {} /\ pc = "round" /\ round = 1 /\ bestOpinions = NoOpinions
        /\ finalOpinions = NoOpinions
    BY DEF Init
  <2>3. LogInOrder
    BY <2>2 DEF LogInOrder
  <2> QED BY <2>1, <2>2, <2>3
          DEF IInv, QuorumKept, BestRoundWins, AcceptedRoundsImprove
<1>2. IInv /\ [Next]_vars => IInv'
  BY TypeStep, LogStep, QuorumStep, BestStep, AcceptedStep DEF IInv
<1> QED BY <1>1, <1>2, PTL DEF Spec

(* The best round is never replaced by a weaker or a discarded one. *)
THEOREM BestRoundKept == Spec => []BestRoundWins
<1>1. IInv => BestRoundWins
  BY DEF IInv
<1> QED BY <1>1, InductiveInvariant, PTL

(* The controller accepts strictly improving rounds only. *)
THEOREM AcceptedImprove == Spec => []AcceptedRoundsImprove
<1>1. IInv => AcceptedRoundsImprove
  BY DEF IInv
<1> QED BY <1>1, InductiveInvariant, PTL

(* What a "done" event reports, if anything, is backed by a quorum. *)
THEOREM ResultHasQuorum == Spec => []QuorumBehindResult
<1>1. IInv => QuorumBehindResult
  BY DEF IInv, QuorumKept, QuorumBehindResult, Reported, Backed
<1> QED BY <1>1, InductiveInvariant, PTL

-------------------------------------------------------------------------------
(* Consensus scores *)

Refining == {"round", "gather", "debate", "review", "consensus"}

(* While the rounds go on every consensus so far was below the threshold, and
   none fell; there is at most one for each round before. *)
Falls(i) ==
  ~ (roundScores[i] < HaltScore /\ (i > 1 => roundScores[i] >= roundScores[i - 1] - Tolerance))
ScoresInv ==
  pc \in Refining =>
    /\ Len(roundScores) < round
    /\ \A i \in 1..Len(roundScores) : ~ Falls(i)
    /\ lastConsensusScore <= SkipAdversarialAbove

LEMMA ScoresQuiet ==
  ASSUME TypeOK, [Next]_vars, ~(\E score \in Scores : EvaluateConsensus(score))
  PROVE  /\ roundScores' = roundScores /\ lastConsensusScore' = lastConsensusScore
         /\ round' \in {round, round + 1}
         /\ pc' \in Refining => pc \in Refining
<1> USE DEF roundVars, bestVars, ctrlVars, abortVars, Refining
<1>1. CASE \/ StartRound \/ LeaveLoop \/ Synthesize \/ Validate \/ Publish
           \/ Throw \/ Abort
  BY <1>1 DEF StartRound, LeaveLoop, Synthesize, Validate, Publish, Throw, Abort
<1>2. CASE \E m \in Members : GatherOpinion(m) \/ DebateOpinion(m)
  BY <1>2 DEF GatherOpinion, DebateOpinion
<1>3. CASE EndGather \/ EndDebate
  BY <1>3 DEF EndGather, EndDebate
<1>4. CASE SoleOpinion
  BY <1>4 DEF SoleOpinion, AfterReview
<1>5. CASE \E max \in Scores, critical \in BOOLEAN : PeerReview(max, critical)
  BY <1>5 DEF PeerReview, AfterReview
<1>6. CASE UNCHANGED vars
  BY <1>6, Unchanged, ZenonT(30)
<1> QED BY <1>1, <1>2, <1>3, <1>4, <1>5, <1>6 DEF Next, Step

LEMMA ScoresStep ==
  TypeOK /\ ScoresInv /\ RefinementHistorySound /\ [Next]_vars =>
    ScoresInv' /\ RefinementHistorySound'
<1> SUFFICES ASSUME TypeOK, ScoresInv, RefinementHistorySound, [Next]_vars
             PROVE  ScoresInv' /\ RefinementHistorySound'
  OBVIOUS
<1>0. /\ Len(roundScores) \in Nat /\ round \in Nat /\ Tolerance \in Nat
      /\ HaltScore \in Nat /\ SkipAdversarialAbove \in Nat /\ HaltScore <= SkipAdversarialAbove
      /\ \A i \in 1..Len(roundScores) : roundScores[i] \in Nat
  BY NumbersAssumption, ThresholdOrderAssumption DEF TypeOK, Scores
<1>1. ASSUME NEW score \in Scores, EvaluateConsensus(score)
      PROVE  ScoresInv' /\ RefinementHistorySound'
  <2>0. PICK n \in Nat : n = Len(roundScores)
    BY <1>0
  <2>1. /\ pc = "consensus" /\ score \in Nat /\ lastConsensusScore' = score
        /\ n < round /\ \A i \in 1..n : ~ Falls(i)
    BY <1>1, <2>0, NumbersAssumption DEF EvaluateConsensus, ScoresInv, Refining, Scores
  <2>2. CASE Decision(round, score) = "cap"
    <3>1. roundScores' = roundScores /\ pc' = "synthesis"
      BY <1>1, <2>2 DEF EvaluateConsensus
    <3> QED BY <3>1 DEF ScoresInv, Refining, RefinementHistorySound
  <2>3. CASE Decision(round, score) # "cap"
    <3>1. roundScores' = Append(roundScores, score)
      BY <1>1, <2>3 DEF EvaluateConsensus
    <3>2. /\ Len(roundScores') = n + 1 /\ roundScores'[n + 1] = score
          /\ \A i \in 1..n : roundScores'[i] = roundScores[i]
      BY <2>0, <3>1 DEF TypeOK
    <3>3. \A i \in 1..n : ~ Falls(i)'
      <4> SUFFICES ASSUME NEW i \in 1..n PROVE ~ Falls(i)'
        OBVIOUS
      <4>1. roundScores'[i] = roundScores[i] /\ (i > 1 => roundScores'[i - 1] = roundScores[i - 1])
        BY <1>0, <3>2
      <4> QED BY <2>1, <4>1 DEF Falls
    <3>4. RefinementHistorySound'
      BY <1>0, <3>2, <3>3 DEF RefinementHistorySound, Falls
    <3>5. CASE Decision(round, score) = "none"
      <4>1. pc' = "round" /\ round' = round + 1 /\ ~ Degraded(round, score) /\ score < HaltScore
        BY <1>0, <1>1, <2>1, <3>5 DEF EvaluateConsensus, Decision
      <4>2. ~ Falls(n + 1)'
        <5>1. CASE n = 0
          BY <1>0, <3>2, <4>1, <5>1 DEF Falls
        <5>2. CASE n > 0
          <6>1. PreviousRoundScore = roundScores[n] /\ roundScores[n] \in Nat /\ round > 1
            BY <1>0, <2>0, <2>1, <5>2 DEF PreviousRoundScore
          <6>2. score >= roundScores[n] - Tolerance
            BY <1>0, <2>1, <4>1, <6>1 DEF Degraded
          <6> QED BY <1>0, <2>1, <3>2, <4>1, <5>2, <6>2 DEF Falls
        <5> QED BY <1>0, <5>1, <5>2
      <4>3. lastConsensusScore' <= SkipAdversarialAbove
        BY <1>0, <2>1, <4>1
      <4>4. \A i \in 1..(n + 1) : ~ Falls(i)'
        BY <1>0, <3>3, <4>2
      <4> QED BY <1>0, <2>1, <3>2, <3>4, <4>1, <4>3, <4>4 DEF ScoresInv
    <3>6. CASE Decision(round, score) # "none"
      <4>1. pc' = "synthesis"
        BY <1>1, <3>6 DEF EvaluateConsensus
      <4> QED BY <3>4, <4>1 DEF ScoresInv, Refining
    <3> QED BY <3>5, <3>6
  <2> QED BY <2>2, <2>3
<1>2. CASE ~(\E score \in Scores : EvaluateConsensus(score))
  <2>1. /\ roundScores' = roundScores /\ lastConsensusScore' = lastConsensusScore
        /\ round' \in {round, round + 1} /\ (pc' \in Refining => pc \in Refining)
    BY <1>2, ScoresQuiet
  <2> QED BY <1>0, <2>1 DEF ScoresInv, Falls, RefinementHistorySound
<1> QED BY <1>1, <1>2

LEMMA ScoresInvariant == Spec => [](TypeOK /\ ScoresInv /\ RefinementHistorySound)
<1>1. Init => TypeOK /\ ScoresInv /\ RefinementHistorySound
  <2> SUFFICES ASSUME Init PROVE TypeOK /\ ScoresInv /\ RefinementHistorySound
    OBVIOUS
  <2>1. roundScores = <<>> /\ round = 1 /\ lastConsensusScore = 0
    BY DEF Init
  <2> QED BY <2>1, InitTypeOK, NumbersAssumption DEF ScoresInv, RefinementHistorySound, Scores
<1>2. TypeOK /\ ScoresInv /\ RefinementHistorySound /\ [Next]_vars =>
        (TypeOK /\ ScoresInv /\ RefinementHistorySound)'
  BY TypeStep, ScoresStep
<1> QED BY <1>1, <1>2, PTL DEF Spec

(* The rounds go on from consensus scores below the threshold only, none of
   which fell by more than the tolerance (controller.ts, decide), and so the
   audits of a round that is reviewed are never skipped. *)
THEOREM RefinementSound == Spec => []RoundsGoOnSoundly
<1>1. TypeOK /\ ScoresInv => AuditsNeverSkipped
  BY NumbersAssumption, ThresholdOrderAssumption
     DEF TypeOK, ScoresInv, Refining, AuditsNeverSkipped, SkipAdversarial, SkipGrounding, Scores
<1>2. TypeOK /\ ScoresInv /\ RefinementHistorySound => RoundsGoOnSoundly
  BY <1>1 DEF RoundsGoOnSoundly
<1> QED BY ScoresInvariant, <1>2, PTL

-------------------------------------------------------------------------------
(* Cost *)

(* What a round starts from, and what the whole may come to. *)
Size  == Cardinality(Members)
Start == IF round = 1 THEN 0 ELSE CostLimit - 1
Within(k) == \/ totalCost <= (3 * Size + 2) + k
             \/ totalCost <= (CostLimit - 1) + (2 * Size + 2) + k

(* What has been spent at each point of a round, at one unit for a call. *)
CostInv ==
  CostLimit > 0 =>
    /\ pc = "round" /\ round = 1 => totalCost = 0
    /\ pc = "gather" => totalCost + Cardinality(waiting) <= Start + Size
    /\ pc = "debate" => round = 1 /\ totalCost + Cardinality(waiting) <= 2 * Size
    /\ pc = "review" => totalCost <= Start + (IF round = 1 THEN 2 * Size ELSE Size)
    /\ pc = "consensus" => totalCost <= Start + (IF round = 1 THEN 3 * Size ELSE 2 * Size)
    /\ pc \in {"round", "synthesis"} => Within(0)
    /\ pc = "validation" => Within(1)
    /\ Within(2)

LEMMA CostFacts ==
  ASSUME TypeOK
  PROVE  /\ Size \in Nat /\ CostLimit \in Nat /\ totalCost \in Nat /\ round \in Nat
         /\ IsFiniteSet(waiting) /\ Cardinality(waiting) \in Nat
         /\ \A m \in waiting : Cardinality(waiting \ {m}) = Cardinality(waiting) - 1
         /\ waiting = {} => Cardinality(waiting) = 0
<1>1. IsFiniteSet(waiting)
  BY MembersAssumption, FS_Subset DEF TypeOK
<1>2. \A m \in waiting : Cardinality(waiting \ {m}) = Cardinality(waiting) - 1
  BY <1>1, FS_RemoveElement
<1>3. round \in Nat
  BY NumberFacts
<1> QED BY <1>1, <1>2, <1>3, CouncilSize, NumbersAssumption, FS_CardinalityType, FS_EmptySet
       DEF TypeOK, Size

LEMMA CostStep == TypeOK /\ CostInv /\ [Next]_vars => CostInv'
<1> SUFFICES ASSUME TypeOK, CostInv, [Next]_vars, CostLimit > 0 PROVE CostInv'
  BY DEF CostInv
<1> USE DEF roundVars, bestVars, ctrlVars, abortVars
<1>0. /\ Size \in Nat /\ CostLimit \in Nat /\ totalCost \in Nat /\ round \in Nat
      /\ Cardinality(waiting) \in Nat
      /\ \A m \in waiting : Cardinality(waiting \ {m}) = Cardinality(waiting) - 1
      /\ waiting = {} => Cardinality(waiting) = 0
  BY CostFacts
<1>1. CASE StartRound
  <2>1. /\ pc = "round" /\ pc' = "gather" /\ waiting' = Members /\ totalCost < CostLimit
        /\ UNCHANGED <<round, totalCost>>
    BY <1>0, <1>1 DEF StartRound, OverBudget
  <2>2. Cardinality(waiting') = Size
    BY <2>1 DEF Size
  <2> QED BY <1>0, <2>1, <2>2 DEF CostInv, Start, Within
<1>2. CASE LeaveLoop
  BY <1>0, <1>2 DEF LeaveLoop, CostInv, Within
<1>3. ASSUME NEW m \in Members, GatherOpinion(m)
      PROVE  CostInv'
  <2>1. /\ pc = "gather" /\ m \in waiting /\ waiting' = waiting \ {m}
        /\ UNCHANGED <<pc, round>>
    BY <1>3 DEF GatherOpinion
  <2>2. totalCost' \in Nat /\ totalCost' <= totalCost + 1
    <3>1. PICK o \in GatherOutcome(m) : totalCost' = Charge(o.counted)
      BY <1>3 DEF GatherOpinion
    <3>2. o.counted \in {0, 1}
      BY DEF GatherOutcome
    <3> QED BY <1>0, <3>1, <3>2 DEF Charge
  <2>3. Cardinality(waiting') = Cardinality(waiting) - 1
    BY <1>0, <2>1
  <2>4. totalCost + Cardinality(waiting) <= Start + Size
    BY <2>1 DEF CostInv
  <2>5. Cardinality(waiting') \in Nat
    BY <2>1, <2>3, TypeStep, CostFacts, FS_CardinalityType, FS_Subset
  <2>6. totalCost' + Cardinality(waiting') <= Start + Size
    BY <1>0, <2>2, <2>3, <2>4 DEF Start
  <2>7. Within(2)'
    BY <1>0, <2>1, <2>2, <2>5, <2>6 DEF Within, Start
  <2> QED BY <2>1, <2>6, <2>7 DEF CostInv, Start
<1>4. CASE EndGather
  <2>1. /\ pc = "gather" /\ Cardinality(waiting) = 0 /\ UNCHANGED <<round, totalCost>>
        /\ pc' = AfterGather /\ waiting' = IF AfterGather = "debate" THEN Members ELSE {}
    BY <1>0, <1>4 DEF EndGather
  <2>2. totalCost <= Start + Size
    BY <1>0, <2>1 DEF CostInv, Start
  <2>3. AfterGather = "debate" => round = 1
    BY DEF AfterGather
  <2>4. AfterGather = "debate" => Cardinality(waiting') = Size
    BY <2>1 DEF Size
  <2> QED BY <1>0, <2>1, <2>2, <2>3, <2>4, AfterGatherType DEF CostInv, Start, Within
<1>5. ASSUME NEW m \in Members, DebateOpinion(m)
      PROVE  CostInv'
  <2>1. /\ pc = "debate" /\ m \in waiting /\ waiting' = waiting \ {m}
        /\ UNCHANGED <<pc, round>>
    BY <1>5 DEF DebateOpinion
  <2>2. totalCost' \in Nat /\ totalCost' <= totalCost + 1
    BY <1>0, <1>5 DEF DebateOpinion, Charge
  <2>3. Cardinality(waiting') = Cardinality(waiting) - 1
    BY <1>0, <2>1
  <2>4. round = 1 /\ totalCost + Cardinality(waiting) <= 2 * Size
    BY <2>1 DEF CostInv
  <2>5. Cardinality(waiting') \in Nat
    BY <2>1, <2>3, CostFacts, FS_CardinalityType, FS_Subset
  <2>6. totalCost' + Cardinality(waiting') <= 2 * Size
    BY <1>0, <2>2, <2>3, <2>4
  <2>7. Within(2)'
    BY <1>0, <2>1, <2>2, <2>5, <2>6 DEF Within
  <2> QED BY <2>1, <2>4, <2>6, <2>7 DEF CostInv
<1>6. CASE EndDebate
  <2>1. pc = "debate" /\ Cardinality(waiting) = 0 /\ pc' = "review" /\ UNCHANGED <<round, totalCost>>
    BY <1>0, <1>6 DEF EndDebate
  <2> QED BY <1>0, <2>1 DEF CostInv, Start, Within
<1>7. ASSUME NEW max \in Scores, NEW critical \in BOOLEAN, PeerReview(max, critical)
      PROVE  CostInv'
  <2>1. /\ pc = "review"
        /\ \/ pc' = "consensus" /\ round' = round
           \/ pc' = "round" /\ round' = round + 1
    BY <1>7 DEF PeerReview, AfterReview
  <2>2. totalCost' \in Nat /\ totalCost' <= totalCost + Size
    BY <1>0, <1>7 DEF PeerReview, Charge, Size
  <2>3. totalCost <= Start + (IF round = 1 THEN 2 * Size ELSE Size)
    BY <2>1 DEF CostInv
  <2>4. round \in 1..Rounds
    BY <1>7, ReviewFacts
  <2> QED BY <1>0, <2>1, <2>2, <2>3, <2>4, NumbersAssumption DEF CostInv, Start, Within
<1>8. CASE SoleOpinion
  <2>1. /\ pc = "review" /\ totalCost' = totalCost
        /\ \/ pc' = "consensus" /\ round' = round
           \/ pc' = "round" /\ round' = round + 1
    BY <1>8 DEF SoleOpinion, AfterReview
  <2>2. totalCost <= Start + (IF round = 1 THEN 2 * Size ELSE Size)
    BY <2>1 DEF CostInv
  <2>3. round > 0
    BY NumbersAssumption DEF TypeOK
  <2> QED BY <1>0, <2>1, <2>2, <2>3 DEF CostInv, Start, Within
<1>9. ASSUME NEW score \in Scores, EvaluateConsensus(score)
      PROVE  CostInv'
  <2>1. /\ pc = "consensus" /\ pc' \in {"round", "synthesis"}
        /\ pc' = "round" => round' = round + 1
        /\ totalCost' \in Nat /\ totalCost' <= totalCost + 2
    BY <1>0, <1>9 DEF EvaluateConsensus, Charge
  <2>2. totalCost <= Start + (IF round = 1 THEN 3 * Size ELSE 2 * Size)
    BY <2>1 DEF CostInv
  <2>3. round > 0
    BY NumbersAssumption DEF TypeOK
  <2> QED BY <1>0, <2>1, <2>2, <2>3 DEF CostInv, Start, Within
<1>10. CASE Synthesize \/ Validate
  <2>1. /\ \/ pc = "synthesis" /\ pc' = "validation"
           \/ pc = "validation" /\ pc' = "publishing"
        /\ totalCost' \in Nat /\ totalCost' <= totalCost + 1
    <3>1. CASE Synthesize
      BY <1>0, <3>1 DEF Synthesize, Charge
    <3>2. CASE Validate
      <4>1. pc = "validation" /\ pc' = "publishing" /\ totalCost' \in {Charge(0), Charge(1)}
        BY <3>2 DEF Validate
      <4> QED BY <1>0, <4>1 DEF Charge
    <3> QED BY <1>10, <3>1, <3>2
  <2> QED BY <1>0, <2>1 DEF CostInv, Within
<1>11. CASE Throw \/ Publish
  BY <1>0, <1>11 DEF Throw, Publish, CostInv, Within
<1>12. CASE Abort \/ UNCHANGED vars
  <2>1. UNCHANGED <<pc, round, waiting, totalCost>>
    BY <1>12 DEF Abort, vars
  <2> QED BY <2>1 DEF CostInv, Start, Within
<1> QED BY <1>1, <1>2, <1>3, <1>4, <1>5, <1>6, <1>7, <1>8, <1>9, <1>10, <1>11, <1>12
       DEF Next, Step

(* The limit is passed by the cost of one round and the verdict, and no more. *)
THEOREM OverrunBounded == Spec => []CostOverrunBounded
<1>1. Init => TypeOK /\ CostInv
  <2> SUFFICES ASSUME Init PROVE TypeOK /\ CostInv
    OBVIOUS
  <2>1. TypeOK /\ pc = "round" /\ totalCost = 0
    BY InitTypeOK DEF Init
  <2> QED BY <2>1, CostFacts DEF CostInv, Within
<1>2. TypeOK /\ CostInv /\ [Next]_vars => (TypeOK /\ CostInv)'
  BY TypeStep, CostStep
<1>3. TypeOK /\ CostInv => CostOverrunBounded
  BY CostFacts DEF CostInv, Within, CostOverrunBounded, Size
<1> QED BY <1>1, <1>2, <1>3, PTL DEF Spec

-------------------------------------------------------------------------------
(* Aborts *)

(* What the rounds may have cost by the end of the one the caller aborted, and
   what has been spent towards it at each point of that round. *)
Cap == costAtAbort + (IF abortedIn = 1 THEN 3 * Size + 2 ELSE 2 * Size + 2)
CapInv ==
  Aborted =>
    /\ pc \in {"gather", "debate", "review", "consensus"} => round = abortedIn
    /\ pc = "gather" => totalCost + Cardinality(waiting)
                          + (IF round = 1 THEN 2 * Size ELSE Size) + 2 <= Cap
    /\ pc = "debate" => totalCost + Cardinality(waiting) + Size + 2 <= Cap
    /\ pc = "review" => totalCost + Size + 2 <= Cap
    /\ pc = "consensus" => totalCost + 2 <= Cap
    /\ pc \in {"round", "synthesis"} => totalCost <= Cap
    /\ pc = "validation" => totalCost <= Cap + 1
    /\ totalCost <= Cap + 2

(* Only the abort itself records one, and it happens once. *)
LEMMA AbortOnce ==
  ASSUME [Next]_vars
  PROVE  /\ Abort \/ (abortedIn' = abortedIn /\ costAtAbort' = costAtAbort)
         /\ Abort => ~Aborted
<1> USE DEF roundVars, bestVars, ctrlVars, abortVars
<1>0. SUFFICES Abort \/ (abortedIn' = abortedIn /\ costAtAbort' = costAtAbort)
  BY DEF Abort
<1>1. CASE StartRound \/ LeaveLoop \/ EndGather \/ EndDebate \/ Synthesize \/ Validate
  BY <1>1 DEF StartRound, LeaveLoop, EndGather, EndDebate, Synthesize, Validate
<1>2. CASE Publish \/ Throw \/ SoleOpinion \/ UNCHANGED vars
  BY <1>2 DEF Publish, Throw, SoleOpinion, vars
<1>3. CASE \E m \in Members : GatherOpinion(m) \/ DebateOpinion(m)
  BY <1>3 DEF GatherOpinion, DebateOpinion
<1>4. CASE \E max \in Scores, critical \in BOOLEAN : PeerReview(max, critical)
  BY <1>4 DEF PeerReview
<1>5. CASE \E score \in Scores : EvaluateConsensus(score)
  BY <1>5 DEF EvaluateConsensus
<1> QED BY <1>1, <1>2, <1>3, <1>4, <1>5 DEF Next, Step

(* The abort itself leaves a whole round and the verdict at most. *)
LEMMA CapAtAbort ==
  ASSUME TypeOK, Abort
  PROVE  CapInv'
<1>1. /\ UNCHANGED <<pc, round, waiting, totalCost>>
      /\ abortedIn' = round /\ costAtAbort' = totalCost
  BY DEF Abort, roundVars
<1>2. /\ Size \in Nat /\ totalCost \in Nat
      /\ Cardinality(waiting) \in Nat /\ Cardinality(waiting) <= Size
  BY CostFacts, MembersAssumption, FS_Subset DEF TypeOK, Size
<1>3. Size' = Size /\ Cardinality(waiting') = Cardinality(waiting)
  BY <1>1 DEF Size
<1> QED BY <1>1, <1>2, <1>3 DEF CapInv, Cap

LEMMA ReviewSlack ==
  ASSUME NEW a \in Nat, NEW b \in Nat, NEW n \in Nat, NEW c \in Nat,
         a + n + 2 <= c, b <= a + n
  PROVE  b + 2 <= c /\ b <= c /\ b <= c + 2
OBVIOUS

LEMMA CapStep == TypeOK /\ CapInv /\ [Next]_vars => CapInv'
<1> SUFFICES ASSUME TypeOK, CapInv, [Next]_vars PROVE CapInv'
  OBVIOUS
<1> USE DEF roundVars, bestVars, ctrlVars, abortVars
<1>0. /\ Size \in Nat /\ totalCost \in Nat /\ round \in Nat /\ costAtAbort \in Nat
      /\ abortedIn \in Nat /\ Cardinality(waiting) \in Nat
      /\ \A m \in waiting : Cardinality(waiting \ {m}) = Cardinality(waiting) - 1
      /\ waiting = {} => Cardinality(waiting) = 0
  BY CostFacts, NumbersAssumption DEF TypeOK
<1>1. CASE Abort
  BY <1>1, CapAtAbort
<1>2. CASE ~Aborted /\ abortedIn' = abortedIn /\ costAtAbort' = costAtAbort
  BY <1>2 DEF CapInv, Aborted
<1>3. CASE /\ Aborted /\ abortedIn' = abortedIn /\ costAtAbort' = costAtAbort
           /\ Cap' = Cap /\ Size' = Size
  <2>0. Cap \in Nat /\ Aborted'
    BY <1>0, <1>3 DEF Cap, Aborted
  <2>1. ~StartRound
    BY <1>3 DEF StartRound
  <2>2. CASE LeaveLoop \/ Throw \/ Publish \/ EndDebate
    <3>1. CASE LeaveLoop
      BY <1>0, <1>3, <2>0, <3>1 DEF LeaveLoop, CapInv
    <3>2. CASE Throw
      BY <1>0, <1>3, <2>0, <3>2 DEF Throw, CapInv
    <3>3. CASE Publish
      BY <1>0, <1>3, <2>0, <3>3 DEF Publish, CapInv
    <3>4. CASE EndDebate
      <4>1. /\ pc = "debate" /\ Cardinality(waiting) = 0 /\ pc' = "review"
            /\ UNCHANGED <<round, totalCost>>
        BY <1>0, <3>4 DEF EndDebate
      <4> QED BY <1>0, <1>3, <2>0, <4>1 DEF CapInv
    <3> QED BY <2>2, <3>1, <3>2, <3>3, <3>4
  <2>3. ASSUME NEW m \in Members, GatherOpinion(m) PROVE CapInv'
    <3>1. /\ pc = "gather" /\ m \in waiting /\ waiting' = waiting \ {m}
          /\ UNCHANGED <<pc, round>>
      BY <2>3 DEF GatherOpinion
    <3>2. totalCost' \in Nat /\ totalCost' <= totalCost + 1
      <4>1. PICK o \in GatherOutcome(m) : totalCost' = Charge(o.counted)
        BY <2>3 DEF GatherOpinion
      <4>2. o.counted \in {0, 1}
        BY DEF GatherOutcome
      <4> QED BY <1>0, <4>1, <4>2 DEF Charge
    <3>3. Cardinality(waiting') = Cardinality(waiting) - 1
      BY <1>0, <3>1
    <3>4. /\ round = abortedIn
          /\ totalCost + Cardinality(waiting) + (IF round = 1 THEN 2 * Size ELSE Size) + 2 <= Cap
      BY <1>3, <3>1 DEF CapInv
    <3>5. Cardinality(waiting') \in Nat
      BY <3>1, <3>3, CostFacts, FS_CardinalityType, FS_Subset
    <3>6. totalCost' + Cardinality(waiting') + (IF round = 1 THEN 2 * Size ELSE Size) + 2 <= Cap
      BY <1>0, <2>0, <3>2, <3>3, <3>4
    <3>7. totalCost' <= Cap
      BY <1>0, <2>0, <3>2, <3>5, <3>6
    <3> QED BY <1>3, <2>0, <3>1, <3>2, <3>4, <3>6, <3>7 DEF CapInv
  <2>4. CASE EndGather
    <3>1. /\ pc = "gather" /\ Cardinality(waiting) = 0 /\ UNCHANGED <<round, totalCost>>
          /\ pc' = AfterGather /\ waiting' = IF AfterGather = "debate" THEN Members ELSE {}
      BY <1>0, <2>4 DEF EndGather
    <3>2. /\ round = abortedIn
          /\ totalCost + (IF round = 1 THEN 2 * Size ELSE Size) + 2 <= Cap
      BY <1>0, <1>3, <3>1 DEF CapInv
    <3>3. AfterGather = "debate" => round = 1 /\ Cardinality(waiting') = Size
      BY <3>1 DEF AfterGather, Size
    <3> QED BY <1>0, <1>3, <2>0, <3>1, <3>2, <3>3, AfterGatherType DEF CapInv
  <2>5. ASSUME NEW m \in Members, DebateOpinion(m) PROVE CapInv'
    <3>1. /\ pc = "debate" /\ m \in waiting /\ waiting' = waiting \ {m}
          /\ UNCHANGED <<pc, round>>
      BY <2>5 DEF DebateOpinion
    <3>2. totalCost' \in Nat /\ totalCost' <= totalCost + 1
      BY <1>0, <2>5 DEF DebateOpinion, Charge
    <3>3. Cardinality(waiting') = Cardinality(waiting) - 1
      BY <1>0, <3>1
    <3>4. round = abortedIn /\ totalCost + Cardinality(waiting) + Size + 2 <= Cap
      BY <1>3, <3>1 DEF CapInv
    <3>5. Cardinality(waiting') \in Nat
      BY <3>1, <3>3, CostFacts, FS_CardinalityType, FS_Subset
    <3>6. totalCost' + Cardinality(waiting') + Size + 2 <= Cap
      BY <1>0, <2>0, <3>2, <3>3, <3>4
    <3>7. totalCost' <= Cap
      BY <1>0, <2>0, <3>2, <3>5, <3>6
    <3> QED BY <1>3, <2>0, <3>1, <3>2, <3>4, <3>6, <3>7 DEF CapInv
  <2>6. ASSUME pc = "review", AfterReview, totalCost' \in Nat, totalCost' <= totalCost + Size
        PROVE  CapInv'
    <3>1. round = abortedIn /\ totalCost + Size + 2 <= Cap
      BY <1>3, <2>6 DEF CapInv
    <3>2. pc' \in {"consensus", "round"} /\ (pc' = "consensus" => round' = round)
      BY <2>6 DEF AfterReview
    <3>3. totalCost' + 2 <= Cap /\ totalCost' <= Cap /\ totalCost' <= Cap + 2
      <4>1. totalCost' \in Nat /\ totalCost' <= totalCost + Size
        BY <2>6
      <4>2. Size \in Nat /\ totalCost \in Nat /\ Cap \in Nat
        BY <1>0, <2>0
      <4> QED BY <3>1, <4>1, <4>2, ReviewSlack
    <3> QED BY <1>3, <2>0, <3>1, <3>2, <3>3 DEF CapInv
  <2>7. ASSUME NEW max \in Scores, NEW critical \in BOOLEAN, PeerReview(max, critical)
        PROVE  CapInv'
    <3>1. pc = "review" /\ AfterReview
      BY <2>7 DEF PeerReview
    <3>2. totalCost' \in Nat /\ totalCost' <= totalCost + Size
      BY <1>0, <2>7 DEF PeerReview, Charge, Size
    <3> QED BY <2>6, <3>1, <3>2
  <2>8. CASE SoleOpinion
    <3>1. pc = "review" /\ AfterReview /\ totalCost' = totalCost
      BY <2>8 DEF SoleOpinion
    <3> QED BY <1>0, <2>6, <3>1
  <2>9. ASSUME NEW score \in Scores, EvaluateConsensus(score) PROVE CapInv'
    <3>1. /\ pc = "consensus" /\ pc' \in {"round", "synthesis"}
          /\ totalCost' \in Nat /\ totalCost' <= totalCost + 2
      BY <1>0, <2>9 DEF EvaluateConsensus, Charge
    <3>2. totalCost + 2 <= Cap
      BY <1>3, <3>1 DEF CapInv
    <3>3. totalCost' <= Cap /\ totalCost' <= Cap + 2
      BY <1>0, <2>0, <3>1, <3>2
    <3> QED BY <1>3, <2>0, <3>1, <3>3 DEF CapInv
  <2>10. CASE Synthesize \/ Validate
    <3>1. /\ \/ pc = "synthesis" /\ pc' = "validation"
             \/ pc = "validation" /\ pc' = "publishing"
          /\ totalCost' \in Nat /\ totalCost' <= totalCost + 1
      <4>1. CASE Synthesize
        BY <1>0, <4>1 DEF Synthesize, Charge
      <4>2. CASE Validate
        <5>1. /\ pc = "validation" /\ pc' = "publishing"
              /\ totalCost' \in {Charge(0), Charge(1)}
          BY <4>2 DEF Validate
        <5> QED BY <1>0, <5>1 DEF Charge
      <4> QED BY <2>10, <4>1, <4>2
    <3>2. /\ pc = "synthesis" => totalCost <= Cap
          /\ pc = "validation" => totalCost <= Cap + 1
      BY <1>3, <3>1 DEF CapInv
    <3>3. /\ pc' = "validation" => totalCost' <= Cap + 1
          /\ totalCost' <= Cap + 2
      BY <1>0, <2>0, <3>1, <3>2
    <3> QED BY <1>3, <2>0, <3>1, <3>3 DEF CapInv
  <2>11. CASE UNCHANGED vars
    <3>1. UNCHANGED <<pc, round, waiting, totalCost, abortedIn>>
      BY <2>11 DEF vars
    <3> QED BY <1>3, <2>0, <3>1 DEF CapInv
  <2> QED BY <1>3, <2>1, <2>2, <2>3, <2>4, <2>5, <2>7, <2>8, <2>9, <2>10, <2>11,
             AbortOnce DEF Next, Step
<1>4. Abort \/ (abortedIn' = abortedIn /\ costAtAbort' = costAtAbort)
  BY AbortOnce
<1>5. Size' = Size
  BY DEF Size
<1>6. abortedIn' = abortedIn /\ costAtAbort' = costAtAbort => Cap' = Cap
  BY <1>5 DEF Cap
<1> QED BY <1>1, <1>2, <1>3, <1>4, <1>5, <1>6

(* After an abort a deliberation costs the rest of a round and the verdict at
   most, whatever becomes of its calls. *)
THEOREM AbortsCapSpending == Spec => []AbortCapsSpending
<1>1. Init => TypeOK /\ CapInv
  BY InitTypeOK DEF Init, CapInv, Aborted
<1>2. TypeOK /\ CapInv /\ [Next]_vars => (TypeOK /\ CapInv)'
  BY TypeStep, CapStep
<1>3. TypeOK /\ CapInv => AbortCapsSpending
  BY CostFacts DEF CapInv, Cap, AbortCapsSpending, Size
<1> QED BY <1>1, <1>2, <1>3, PTL DEF Spec

-------------------------------------------------------------------------------
(* The promise *)

(* A deliberation holds a candidate once it has a result, and before its first
   review it holds none. *)
HeldInv ==
  /\ finalOpinions # NoOpinions => bestOpinions # NoOpinions
  /\ log = {} /\ Cardinality(Members) > 1 => bestOpinions = NoOpinions

LEMMA HeldStep ==
  ASSUME IInv, HeldInv, [Next]_vars
  PROVE  HeldInv'
<1> USE DEF roundVars, bestVars, ctrlVars, abortVars
<1>0. TypeOK /\ (pc = "review" => Backed(opinions))
  BY DEF IInv, QuorumKept
<1>1. ASSUME NEW max \in Scores, NEW critical \in BOOLEAN, PeerReview(max, critical)
      PROVE  HeldInv'
  <2>1. pc = "review" /\ bestOpinions' \in {opinions, bestOpinions} /\ log' # {}
        /\ (bestOpinions = NoOpinions => bestOpinions' = opinions)
    BY <1>1 DEF PeerReview
  <2> QED BY <1>0, <2>1, BackedNotEmpty DEF HeldInv
<1>2. CASE SoleOpinion
  <2>1. /\ pc = "review" /\ Cardinality(Present(opinions)) < 2
        /\ bestOpinions' = IF bestOpinions = NoOpinions THEN opinions ELSE bestOpinions
    BY <1>2 DEF SoleOpinion
  <2>2. ~ (Cardinality(Members) > 1) /\ opinions # NoOpinions
    BY <1>0, <2>1, SoleBacked, BackedNotEmpty
  <2> QED BY <2>1, <2>2 DEF HeldInv
<1>3. ASSUME NEW score \in Scores, EvaluateConsensus(score)
      PROVE  HeldInv'
  BY <1>3 DEF EvaluateConsensus, HeldInv
<1>4. CASE /\ ~(\E max \in Scores, critical \in BOOLEAN : PeerReview(max, critical))
           /\ ~SoleOpinion
           /\ ~(\E score \in Scores : EvaluateConsensus(score))
  BY <1>0, <1>4, QuietStep DEF HeldInv
<1> QED BY <1>1, <1>2, <1>3, <1>4

(* A review improves on the candidate held or leaves it alone. *)
LEMMA ReviewImproves ==
  ASSUME IInv, HeldInv, NEW max \in Scores, NEW critical \in BOOLEAN, PeerReview(max, critical)
  PROVE  Promise!Improve \/ UNCHANGED Promise!vars
<1>1. /\ pc = "review" /\ Cardinality(Members) > 1 /\ round \in 1..Rounds
      /\ pc' \in {"consensus", "round"} /\ Rounds \in Nat
  BY ReviewFacts DEF IInv
<1>2. Stage = "deliberating" /\ Stage' = "deliberating" /\ pc # "done" /\ pc' # "done"
  BY <1>1 DEF Stage
<1>3. opinions \in Opinions /\ opinions # NoOpinions /\ max \in -1..MaxScore
  BY <1>1, BackedNotEmpty, NumbersAssumption DEF IInv, TypeOK, QuorumKept, Scores
<1> DEFINE takesBest == TakesBest(max, ShouldAccept(max, critical))
<1>4. /\ bestRoundScore' = IF takesBest THEN max ELSE bestRoundScore
      /\ bestOpinions' = IF takesBest \/ bestOpinions = NoOpinions THEN opinions ELSE bestOpinions
  BY DEF PeerReview
<1>5. round = 1 => bestOpinions = NoOpinions
  <2>1. round = 1 => log = {}
    <3>1. \A e \in log : e.round < round /\ e.round \in Nat /\ e.round > 0
      BY <1>1, ReviewFacts DEF IInv, LogInOrder, BeforeReview
    <3> QED BY <3>1
  <2> QED BY <1>1, <2>1 DEF HeldInv
<1>6. round # 1 => bestOpinions # NoOpinions
  <2>1. round # 1 => log # {}
    BY <1>1 DEF IInv, LogInOrder, BeforeReview
  <2>2. \A e \in log : Backed(e.opinions)
    BY DEF IInv, QuorumKept
  <2> QED BY <2>1, <2>2, BackedNotEmpty DEF IInv, BestRoundWins
<1>7. CASE takesBest
  <2>1. bestOpinions = NoOpinions \/ max > bestRoundScore
    BY <1>5, <1>7 DEF TakesBest
  <2> QED BY <1>2, <1>3, <1>4, <1>7, <2>1 DEF Promise!Improve
<1>8. CASE ~ takesBest
  <2>1. round # 1
    BY <1>8 DEF TakesBest
  <2>2. bestOpinions' = bestOpinions /\ bestRoundScore' = bestRoundScore
    BY <1>4, <1>6, <1>8, <2>1
  <2> QED BY <1>2, <2>2 DEF Promise!vars
<1> QED BY <1>7, <1>8

LEMMA StepKeepsPromise ==
  ASSUME IInv, HeldInv, [Next]_vars
  PROVE  [Promise!Next]_Promise!vars
<1> USE DEF roundVars, bestVars, ctrlVars, abortVars
<1>0. TypeOK /\ (pc = "review" => Backed(opinions))
  BY DEF IInv, QuorumKept
<1>1. ASSUME NEW max \in Scores, NEW critical \in BOOLEAN, PeerReview(max, critical)
      PROVE  [Promise!Next]_Promise!vars
  BY <1>1, ReviewImproves DEF Promise!Next
<1>2. CASE SoleOpinion
  <2>1. /\ pc = "review" /\ pc' \in {"consensus", "round"} /\ bestRoundScore' = bestRoundScore
        /\ bestOpinions' = IF bestOpinions = NoOpinions THEN opinions ELSE bestOpinions
    BY <1>2 DEF SoleOpinion, AfterReview
  <2>2. opinions \in Opinions /\ opinions # NoOpinions /\ bestRoundScore \in -1..MaxScore
    BY <1>0, <2>1, BackedNotEmpty, NumbersAssumption DEF TypeOK, Scores
  <2>3. Stage = "deliberating" /\ Stage' = "deliberating" /\ pc # "done" /\ pc' # "done"
    BY <2>1 DEF Stage
  <2>4. CASE bestOpinions = NoOpinions
    BY <2>1, <2>2, <2>3, <2>4 DEF Promise!Improve, Promise!Next
  <2>5. CASE bestOpinions # NoOpinions
    BY <2>1, <2>3, <2>5 DEF Promise!vars
  <2> QED BY <2>4, <2>5
<1>3. CASE Publish
  <2>1. /\ pc = "publishing" /\ pc' = "done"
        /\ UNCHANGED <<bestOpinions, bestRoundScore, finalOpinions>>
    BY <1>3 DEF Publish
  <2>2. Reported' = bestOpinions
    BY <2>1 DEF Reported, HeldInv
  <2> QED BY <2>1, <2>2 DEF Stage, Promise!Publish, Promise!Next
<1>4. CASE UNCHANGED <<bestOpinions, bestRoundScore, finalOpinions>> /\ pc # "done" /\ pc' # "done"
  <2>1. \/ Stage' = Stage
        \/ Stage = "deliberating" /\ Stage' = "concluding"
        \/ Stage \in {"deliberating", "concluding"} /\ Stage' = "failed"
    <3>1. CASE StartRound \/ LeaveLoop \/ EndGather \/ EndDebate
      BY <3>1, AfterGatherType DEF StartRound, LeaveLoop, EndGather, EndDebate, Stage
    <3>2. CASE Synthesize \/ Validate \/ Throw \/ Abort \/ UNCHANGED vars
      BY <3>2 DEF Synthesize, Validate, Throw, Abort, vars, Stage
    <3>3. CASE \E m \in Members : GatherOpinion(m) \/ DebateOpinion(m)
      BY <3>3 DEF GatherOpinion, DebateOpinion, Stage
    <3>4. CASE \E score \in Scores : EvaluateConsensus(score)
      BY <3>4 DEF EvaluateConsensus, Stage
    <3>5. CASE \/ Publish \/ SoleOpinion
               \/ \E max \in Scores, critical \in BOOLEAN : PeerReview(max, critical)
      BY <1>4, <3>5 DEF Publish, SoleOpinion, PeerReview, AfterReview, Stage
    <3> QED BY <3>1, <3>2, <3>3, <3>4, <3>5 DEF Next, Step
  <2> QED BY <1>4, <2>1 DEF Promise!Conclude, Promise!Fail, Promise!Next, Promise!vars
<1>5. CASE UNCHANGED vars
  BY <1>5, Unchanged DEF Promise!vars, Stage, Reported
<1>6. \/ UNCHANGED <<bestOpinions, bestRoundScore, finalOpinions>> /\ pc # "done" /\ pc' # "done"
      \/ Publish \/ SoleOpinion \/ UNCHANGED vars
      \/ \E max \in Scores, critical \in BOOLEAN : PeerReview(max, critical)
  <2>1. CASE \/ StartRound \/ LeaveLoop \/ EndGather \/ EndDebate \/ Synthesize
             \/ Validate \/ Throw \/ Abort
    BY <2>1, AfterGatherType
       DEF StartRound, LeaveLoop, EndGather, EndDebate, Synthesize, Validate, Throw, Abort, Over
  <2>2. CASE \E m \in Members : GatherOpinion(m) \/ DebateOpinion(m)
    BY <2>2 DEF GatherOpinion, DebateOpinion
  <2>3. CASE \E score \in Scores : EvaluateConsensus(score)
    BY <2>3 DEF EvaluateConsensus
  <2> QED BY <2>1, <2>2, <2>3 DEF Next, Step
<1> QED BY <1>1, <1>2, <1>3, <1>4, <1>5, <1>6

(* The deliberation keeps its promise: it publishes the best candidate it ever
   held, or fails (refinement of AbstractDeliberation). *)
THEOREM PromiseKept == Spec => ImplementsPromise
<1>1. Init => Promise!Init /\ HeldInv
  BY DEF Init, Promise!Init, HeldInv, Stage
<1>2. IInv /\ HeldInv /\ [Next]_vars => HeldInv' /\ [Promise!Next]_Promise!vars
  BY HeldStep, StepKeepsPromise
<1> QED BY <1>1, <1>2, InductiveInvariant, PTL DEF Spec, ImplementsPromise, Promise!Spec

-------------------------------------------------------------------------------
(* A deliberation winds down *)

InRound == {"gather", "debate", "review", "consensus"}

(* The calls still out are as many as members at most. *)
LEMMA WaitingSize ==
  ASSUME TypeOK
  PROVE  /\ Cardinality(waiting) \in 0..Cardinality(Members)
         /\ \A m \in waiting :
              Cardinality(waiting \ {m}) = Cardinality(waiting) - 1
<1>1. waiting \in SUBSET Members /\ IsFiniteSet(waiting)
  BY MembersAssumption, FS_Subset DEF TypeOK
<1>2. \A m \in waiting : Cardinality(waiting \ {m}) = Cardinality(waiting) - 1
  BY <1>1, FS_RemoveElement
<1> QED BY <1>1, <1>2, CouncilSize

LEMMA RoundArithmetic ==
  ASSUME NEW a \in Nat, NEW k \in Nat
  PROVE  a * k \in Nat /\ (a + 1) * k = a * k + k
OBVIOUS

LEMMA RemainingInRound ==
  ASSUME TypeOK, pc \in InRound
  PROVE  /\ RestOfRound \in 1..(WholeRound - 1) /\ (Rounds - round) * WholeRound \in Nat
         /\ Remaining = 4 + (Rounds - round) * WholeRound + RestOfRound
<1>1. Rounds - round \in Nat /\ WholeRound \in Nat
  BY CouncilSize, NumbersAssumption DEF TypeOK, InRound, WholeRound
<1>2. (Rounds - round) * WholeRound \in Nat
  BY <1>1, RoundArithmetic
<1>3. RestOfRound \in 1..(WholeRound - 1)
  BY CouncilSize, WaitingSize DEF InRound, RestOfRound, WholeRound
<1>4. RoundsLeft = Rounds - round
  BY DEF RoundsLeft, InRound
<1>5. Remaining = 4 + RoundsLeft * WholeRound + RestOfRound
  BY DEF Remaining, InRound, Over
<1> QED BY <1>2, <1>3, <1>4, <1>5

LEMMA RemainingAtHead ==
  ASSUME TypeOK, pc = "round"
  PROVE  /\ (Rounds + 1 - round) * WholeRound \in Nat
         /\ Remaining = 4 + (Rounds + 1 - round) * WholeRound
<1>1. Rounds + 1 - round \in Nat /\ WholeRound \in Nat
  BY CouncilSize, NumbersAssumption DEF TypeOK, WholeRound
<1>2. (Rounds + 1 - round) * WholeRound \in Nat
  BY <1>1, RoundArithmetic
<1>3. RoundsLeft = Rounds + 1 - round /\ RestOfRound = 0
  BY DEF RoundsLeft, RestOfRound
<1>4. Remaining = 4 + RoundsLeft * WholeRound + RestOfRound
  BY DEF Remaining, Over
<1> QED BY <1>2, <1>3, <1>4

LEMMA RemainingAtEnd ==
  /\ pc \in Over => Remaining = 0
  /\ pc = "publishing" => Remaining = 1
  /\ pc = "validation" => Remaining = 2
  /\ pc = "synthesis" => Remaining = 3
BY DEF Remaining, Over

LEMMA RemainingNat == TypeOK => Remaining \in Nat
<1> SUFFICES ASSUME TypeOK PROVE Remaining \in Nat
  OBVIOUS
<1>1. CASE pc \in InRound
  BY <1>1, RemainingInRound, CouncilSize DEF WholeRound
<1>2. CASE pc = "round"
  BY <1>2, RemainingAtHead
<1> QED BY <1>1, <1>2, RemainingAtEnd DEF TypeOK, Phases, InRound, Over

(* Within a round less and less is left of it. *)
LEMMA RoundGoesOn ==
  ASSUME TypeOK, TypeOK', pc \in InRound, pc' \in InRound, round' = round,
         RestOfRound' < RestOfRound
  PROVE  Remaining' \in 0..(Remaining - 1)
<1>1. /\ RestOfRound \in 1..(WholeRound - 1) /\ (Rounds - round) * WholeRound \in Nat
      /\ Remaining = 4 + (Rounds - round) * WholeRound + RestOfRound
  BY RemainingInRound
<1>2. /\ Remaining' = 4 + (Rounds - round) * WholeRound + RestOfRound'
  <2>1. RoundsLeft' = Rounds - round
    BY DEF RoundsLeft, InRound
  <2>2. Remaining' = 4 + RoundsLeft' * WholeRound' + RestOfRound'
    BY DEF Remaining, InRound, Over
  <2>3. WholeRound' = WholeRound
    BY DEF WholeRound
  <2> QED BY <2>1, <2>2, <2>3
<1>3. RestOfRound' \in Nat
  <2>1. waiting' \in SUBSET Members
    BY DEF TypeOK
  <2> QED BY <2>1, CouncilSize DEF RestOfRound
<1>4. WholeRound \in Nat
  BY CouncilSize DEF WholeRound
<1> QED BY <1>1, <1>2, <1>3, <1>4

(* The head of the loop is reached with one round less to go. *)
LEMMA RoundIsOver ==
  ASSUME TypeOK, TypeOK', pc \in InRound, pc' = "round", round' = round + 1
  PROVE  Remaining' \in 0..(Remaining - 1)
<1>1. /\ RestOfRound \in 1..(WholeRound - 1) /\ (Rounds - round) * WholeRound \in Nat
      /\ Remaining = 4 + (Rounds - round) * WholeRound + RestOfRound
  BY RemainingInRound
<1>2. round \in Nat /\ Rounds \in Nat /\ WholeRound \in Nat
  BY CouncilSize, NumbersAssumption DEF TypeOK, WholeRound
<1>3. Remaining' = 4 + (Rounds - round) * WholeRound
  <2>1. RoundsLeft' = Rounds - round /\ RestOfRound' = 0
    BY <1>2 DEF RoundsLeft, RestOfRound
  <2>2. Remaining' = 4 + RoundsLeft' * WholeRound' + RestOfRound'
    BY DEF Remaining, Over
  <2>3. WholeRound' = WholeRound
    BY DEF WholeRound
  <2> QED BY <1>1, <2>1, <2>2, <2>3
<1> QED BY <1>1, <1>2, <1>3

LEMMA StepWindsDown ==
  ASSUME TypeOK, TypeOK', Step
  PROVE  Remaining' \in 0..(Remaining - 1)
<1> USE DEF roundVars
<1>0. Remaining \in Nat
  BY RemainingNat
<1>1. CASE StartRound
  <2>1. /\ pc = "round" /\ pc' = "gather" /\ round' = round /\ waiting' = Members
        /\ round <= Rounds /\ round \in Nat /\ Rounds \in Nat
    BY <1>1, NumbersAssumption DEF StartRound, TypeOK
  <2>2. Cardinality(Members) \in Nat /\ WholeRound = 2 * Cardinality(Members) + 5
    BY CouncilSize DEF WholeRound
  <2>3. /\ (Rounds - round) * WholeRound \in Nat
        /\ ((Rounds - round) + 1) * WholeRound = (Rounds - round) * WholeRound + WholeRound
    BY <2>1, <2>2, RoundArithmetic
  <2>4. Remaining = 4 + ((Rounds - round) + 1) * WholeRound
    <3>1. Rounds + 1 - round = (Rounds - round) + 1
      BY <2>1
    <3> QED BY <2>1, <3>1, RemainingAtHead
  <2>5. Remaining' = 4 + (Rounds - round) * WholeRound + (2 * Cardinality(Members) + 4)
    <3>1. RoundsLeft' = Rounds - round
      BY <2>1 DEF RoundsLeft
    <3>2. RestOfRound' = 2 * Cardinality(Members) + 4
      BY <2>1, <2>2 DEF RestOfRound
    <3>3. Remaining' = 4 + RoundsLeft' * WholeRound' + RestOfRound'
      BY <2>1 DEF Remaining, Over
    <3>4. WholeRound' = WholeRound
      BY DEF WholeRound
    <3> QED BY <3>1, <3>2, <3>3, <3>4
  <2> QED BY <2>2, <2>3, <2>4, <2>5
<1>2. CASE LeaveLoop
  <2>1. pc = "round" /\ Remaining' = 3
    BY <1>2, RemainingAtEnd DEF LeaveLoop, Remaining, Over
  <2> QED BY <2>1, RemainingAtHead
<1>3. ASSUME NEW m \in Members, GatherOpinion(m) PROVE Remaining' \in 0..(Remaining - 1)
  <2>1. /\ pc = "gather" /\ pc' = "gather" /\ round' = round
        /\ m \in waiting /\ waiting' = waiting \ {m}
    BY <1>3 DEF GatherOpinion
  <2>2. RestOfRound' < RestOfRound
    BY <2>1, WaitingSize, CouncilSize DEF RestOfRound
  <2> QED BY <2>1, <2>2, RoundGoesOn DEF InRound
<1>4. CASE EndGather
  <2>1. pc = "gather" /\ waiting = {} /\ round' = round /\ pc' = AfterGather
    BY <1>4 DEF EndGather
  <2>2. RestOfRound = Cardinality(Members) + 4 /\ Cardinality(Members) \in Nat
    BY <2>1, FS_EmptySet, CouncilSize DEF RestOfRound
  <2>3. CASE AfterGather = "debate"
    <3>1. waiting' = Members /\ pc' = "debate"
      BY <1>4, <2>1, <2>3 DEF EndGather
    <3>2. RestOfRound' = Cardinality(Members) + 3
      BY <3>1 DEF RestOfRound
    <3> QED BY <2>1, <2>2, <3>1, <3>2, RoundGoesOn DEF InRound
  <2>4. CASE AfterGather = "review"
    <3>1. RestOfRound' = 2 /\ pc' = "review"
      BY <2>1, <2>4 DEF RestOfRound
    <3> QED BY <2>1, <2>2, <3>1, RoundGoesOn DEF InRound
  <2>5. CASE AfterGather \in {"failed", "synthesis"}
    <3>1. Remaining' \in {0, 3}
      BY <2>1, <2>5 DEF Remaining, Over
    <3>2. Remaining >= 4
      BY <2>1, <2>2, RemainingInRound DEF InRound
    <3> QED BY <1>0, <3>1, <3>2
  <2> QED BY <2>3, <2>4, <2>5, AfterGatherType
<1>5. ASSUME NEW m \in Members, DebateOpinion(m) PROVE Remaining' \in 0..(Remaining - 1)
  <2>1. /\ pc = "debate" /\ pc' = "debate" /\ round' = round
        /\ m \in waiting /\ waiting' = waiting \ {m}
    BY <1>5 DEF DebateOpinion
  <2>2. RestOfRound' < RestOfRound
    BY <2>1, WaitingSize, CouncilSize DEF RestOfRound
  <2> QED BY <2>1, <2>2, RoundGoesOn DEF InRound
<1>6. CASE EndDebate
  <2>1. pc = "debate" /\ pc' = "review" /\ round' = round
    BY <1>6 DEF EndDebate
  <2>2. RestOfRound' < RestOfRound
    BY <2>1, WaitingSize, CouncilSize DEF RestOfRound
  <2> QED BY <2>1, <2>2, RoundGoesOn DEF InRound
<1>7. CASE pc = "review" /\ AfterReview
  <2>1. CASE pc' = "consensus" /\ round' = round
    <3>1. RestOfRound' < RestOfRound
      BY <1>7, <2>1 DEF RestOfRound
    <3> QED BY <1>7, <2>1, <3>1, RoundGoesOn DEF InRound
  <2>2. CASE pc' = "round" /\ round' = round + 1
    BY <1>7, <2>2, RoundIsOver DEF InRound
  <2> QED BY <1>7, <2>1, <2>2 DEF AfterReview
<1>8. ASSUME NEW score \in Scores, EvaluateConsensus(score)
      PROVE  Remaining' \in 0..(Remaining - 1)
  <2>1. pc = "consensus"
    BY <1>8 DEF EvaluateConsensus
  <2>2. CASE pc' = "round" /\ round' = round + 1
    BY <2>1, <2>2, RoundIsOver DEF InRound
  <2>3. CASE pc' = "synthesis"
    <3>1. Remaining' = 3
      BY <2>3 DEF Remaining, Over
    <3>2. Remaining >= 4
      BY <2>1, RemainingInRound DEF InRound
    <3> QED BY <1>0, <3>1, <3>2
  <2> QED BY <1>8, <2>2, <2>3 DEF EvaluateConsensus
<1>9. CASE Synthesize
  BY <1>9, RemainingAtEnd DEF Synthesize, Remaining, Over
<1>10. CASE Validate \/ Publish
  BY <1>10, RemainingAtEnd DEF Validate, Publish, Remaining, Over
<1>11. CASE Throw
  <2>1. /\ pc \in {"round", "gather", "review", "consensus", "synthesis", "publishing"}
        /\ Remaining' = 0
    BY <1>11 DEF Throw, Remaining, Over
  <2>2. Remaining > 0
    BY <2>1, RemainingInRound, RemainingAtHead, RemainingAtEnd DEF InRound
  <2> QED BY <1>0, <2>1, <2>2
<1>12. ASSUME NEW max \in Scores, NEW critical \in BOOLEAN, PeerReview(max, critical)
       PROVE  pc = "review" /\ AfterReview
  BY <1>12 DEF PeerReview
<1>13. SoleOpinion => pc = "review" /\ AfterReview
  BY DEF SoleOpinion
<1> QED BY <1>1, <1>2, <1>3, <1>4, <1>5, <1>6, <1>7, <1>8, <1>9, <1>10, <1>11,
           <1>12, <1>13 DEF Step

(* Each step of deliberate() leaves less to do, an abort as much as there was:
   a council of n members goes through at most 4 + Rounds * (2 * n + 5) steps,
   whatever they answer and whatever the scores are (council.ts:220-382). *)
THEOREM DeliberationWindsDown == Spec => WindsDown
<1> DEFINE Less == /\ Remaining' \in 0..Remaining
                   /\ abortedIn' = abortedIn => Remaining' < Remaining
<1>1. TypeOK /\ TypeOK' /\ [Next]_vars => [Less]_vars
  <2> SUFFICES ASSUME TypeOK, TypeOK', Next PROVE Less
    OBVIOUS
  <2>1. Remaining \in Nat
    BY RemainingNat
  <2>2. CASE Step
    BY <2>1, <2>2, StepWindsDown
  <2>3. CASE Abort
    <3>1. abortedIn' # abortedIn
      BY <2>3, NumbersAssumption DEF Abort, Aborted, TypeOK
    <3>2. Remaining' = Remaining
      BY <2>3 DEF Abort, roundVars, Remaining, RoundsLeft, RestOfRound, WholeRound
    <3> QED BY <2>1, <3>1, <3>2
  <2> QED BY <2>2, <2>3 DEF Next
<1> QED BY <1>1, TypeCorrect, PTL DEF Spec, WindsDown
===============================================================================
