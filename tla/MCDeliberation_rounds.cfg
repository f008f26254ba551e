SPECIFICATION Spec
CHECK_DEADLOCK FALSE
CONSTANTS
  m1 = m1
  m2 = m2
  MaxScore = 3
  CriticalScore = 1
  HaltScore = 2
  SkipAdversarialAbove = 2
  SkipGroundingAbove = 2
  Tolerance = 0
  RoundScoreCap = 3
  Rounds = 4
  CostLimit = 13
  Priced = TRUE
  Members = {m1, m2}
  ApiMembers = {}
SYMMETRY MemberSymmetry
INVARIANTS AcceptedRoundsImprove RoundsGoOnSoundly CostOverrunBounded AbortCapsSpending
