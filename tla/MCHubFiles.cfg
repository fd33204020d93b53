SPECIFICATION Spec
CONSTANTS
  RecordSize = 2
  Deadline = 2
  Late = 3
  Sessions <- TheSessions
  Headers <- TheHeaders
  Versions = 2
  MaxReplacements = 6
  Cases <- SomeCases
  Restart = "restart"
  Service = "service"
  Operation <- Operations
  Kind <- Kinds
  Facts <- SomeFacts
  RequiredExchanges <- Exchanges
  AllSessions = {"s", "t"}
  OwnSession = "s"
  MaxSequence = 5
  Variants <- Alter
  Extractors = {x1, x2}
  None = None
  Torn = Torn
  MaxEdits = 1
  MaxBuilds = 2
  MaxKills = 1
  Order <- Paths
  RequiredPaths <- Needed
  Candidate <- Profile
  PartsOf <- TheParts
  Canonical <- Printed
  Archives <- Some
INVARIANTS AckExact StagingBound AdmissionExact BundleFiles AcceptsBuilds ExtractsInside
PROPERTIES FilesEnd
CHECK_DEADLOCK FALSE
