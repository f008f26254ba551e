SPECIFICATION FairSpec
CHECK_DEADLOCK FALSE
CONSTANTS
  m1 = m1
  m2 = m2
  m3 = m3
  MaxScore = 2
  CriticalScore = 1
  HaltScore = 2
  SkipAdversarialAbove = 2
  SkipGroundingAbove = 2
  Tolerance = 0
  RoundScoreCap = 1000
  Rounds = 2
  CostLimit = 0
  Priced = FALSE
  Members = {m1, m2, m3}
  ApiMembers = {m1}
INVARIANTS BestRoundWins QuorumBehindResult
PROPERTIES ImplementsPromise WindsDown Terminates
