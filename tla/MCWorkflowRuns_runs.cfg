SPECIFICATION FairSpec
CHECK_DEADLOCK FALSE
CONSTANTS
  r1 = r1
  r2 = r2
  s1 = s1
  NoRun = NoRun
  Runs = {r1, r2}
  Streams = {s1}
  MaxActiveRuns = 1
  MaxEvents = 2
  CutEvents = 1
  EventBound = 3
  MaxCrashes = 1
INVARIANTS StreamsInOrder StreamsAgree RecentRunsReachable
PROPERTIES EndsAreFinal EveryStreamEnds
