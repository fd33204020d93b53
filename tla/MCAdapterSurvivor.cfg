CONSTANTS
  Steps = 1
  QueueSize = 2
  MaxOut = 1
  Emits <- SomeLines
  Expiring <- AllExpire
  ChildEnds <- SomeEnds
  Cooperative = FALSE
SPECIFICATION Spec
INVARIANT CleanLeavesNothing
CHECK_DEADLOCK FALSE
