SPECIFICATION Spec
CHECK_DEADLOCK FALSE
CONSTANTS
  m1 = m1
  MaxScore = 3
  CriticalScore = 1
  HaltScore = 2
  SkipAdversarialAbove = 2
  SkipGroundingAbove = 2
  Tolerance = 0
  RoundScoreCap = 1000
  Rounds = 3
  CostLimit = 0
  Priced = TRUE
  Members = {m1}
  ApiMembers = {m1}
PROPERTIES ImplementsPromise
