CONSTANTS
  Steps = 2
  QueueSize = 2
  MaxOut = 3
  Emits <- CaseLines
  Expiring <- AllExpire
  ChildEnds <- SomeEnds
  Cooperative = FALSE
SPECIFICATION CaseSpec
INVARIANTS
  CaseTypeOK
  PassEarned
  CleanMeansExact
PROPERTY
  CleanIsFinal
CHECK_DEADLOCK FALSE
