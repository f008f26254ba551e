SPECIFICATION Spec
CHECK_DEADLOCK FALSE
CONSTANTS
  Jobs = {j1, j2}
  Tasks = {t1, t2}
  Schedules = {s1}
  j1 = j1
  j2 = j2
  t1 = t1
  t2 = t2
  s1 = s1
  NoJob = NoJob
  BatchLimit = 1
  Period = 1
  MaxTime = 1
  MaxCrashes = 1
  MaxRequests = 1
  Modes = {"load"}
  ChangeTimes = {}
INVARIANTS ScheduledRunsBacked RunningIsAttended
PROPERTIES JobsSettle
