SPECIFICATION FairSpec
CHECK_DEADLOCK FALSE
CONSTANTS
  Definitions <- SamplesAndSmall
  Choices = {"yes", "no"}
  MaxAttempts = 2
  MaxCost = 1
  NoNode = NoNode
INVARIANTS DependenciesFirst SkippedIffCutOff CyclesNeverRun GateStoreExact
PROPERTIES ImplementsDataflow RunWindsDown EveryRunEnds
