CONSTANTS
  Steps = 1
  QueueSize = 1
  MaxOut = 2
  Emits <- SomeLines
  Expiring <- AllExpire
  ChildEnds <- AllOrNone
  Cooperative = FALSE
SPECIFICATION FairCaseSpec
PROPERTIES
  CaseSettles
  KilledGroupDies
CHECK_DEADLOCK FALSE
