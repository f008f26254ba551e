SPECIFICATION FairSpec
CONSTANTS
  s1 = s1
  s2 = s2
  c1 = c1
  c2 = c2
  NoSession = NoSession
  Sessions = {s1, s2}
  Callers = {c1, c2}
  MaxSessions = 1
  MaxResumes = 1
  MaxFaults = 1
INVARIANTS LimitKept RegistryMatchesDocker RunningWatched
PROPERTIES TimerStops
CHECK_DEADLOCK FALSE
