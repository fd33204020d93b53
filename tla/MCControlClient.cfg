CONSTANTS
  t1 = t1
  t2 = t2
  NoCaller = NoCaller
  Callers <- Threads
  Ops <- SomeOps
  MaxRequests = 3
  MaxFrames = 3
  Faults <- LateFaults
SPECIFICATION FairSpec
INVARIANTS
  QuietAgreement
PROPERTIES
  LifecycleSpec
  RequestEnds
CHECK_DEADLOCK FALSE
