SPECIFICATION FairSpec
CONSTANTS
  a1 = a1
  a2 = a2
  l1 = l1
  l2 = l2
  Ids = {a1, a2}
  Loops = {l1, l2}
  Noisy = {a2}
  NumSteps = 2
  MaxAgents = 1
INVARIANTS CompletedMeansDone
PROPERTIES OverIsOver RunningEnds
CHECK_DEADLOCK FALSE
