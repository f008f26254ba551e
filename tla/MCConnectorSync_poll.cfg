SPECIFICATION Spec
CHECK_DEADLOCK FALSE
CONSTANTS
  Jobs = {j1, j2}
  Tasks = {t1}
  Schedules = {}
  j1 = j1
  j2 = j2
  t1 = t1
  NoJob = NoJob
  BatchLimit = 1
  Period = 1
  MaxTime = 2
  MaxCrashes = 0
  MaxRequests = 2
  Modes = {"poll", "slim"}
  ChangeTimes = {1}
PROPERTIES PollCatchesUp
