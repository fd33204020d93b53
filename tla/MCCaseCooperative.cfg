CONSTANTS
  Steps = 12
  QueueSize = 2
  MaxOut = 12
  Emits <- GoodLines
  Expiring <- NoneExpire
  ChildEnds <- NoChild
  Cooperative = TRUE
SPECIFICATION CooperativeSpec
PROPERTY
  CooperativePasses
CHECK_DEADLOCK FALSE
