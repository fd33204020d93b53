SPECIFICATION Spec
CONSTANTS
  Route = "v"
  Supported <- TwoToThree
  Schemas <- TwoSchemas
  Ranges <- SomeRanges
  Answers <- AnySigned
  KeySets <- AnyKeys
  Manifests <- AnyManifests
  HeaderLists <- AnyHeaders
  Sources <- SomeSources
  Lineages <- SomeLineages
  Length <- Lengths
  RequestRoom = 5
  MaxSequence = 3
  Misbound <- MixedUp
  Altered <- Alter
  PreparedRoute = "v"
  MonthsPerYear = 2
  StartOf <- FourMonths
  PreparedReceipts <- AnyReceipts
  PreparedPacks <- SomePrepared
  TileLimits <- Small
  Roots <- TwoRoots
  Children <- OneChild
  NoOwner = NoOwner
  Absent = Absent
  Histories <- AllHistories
  Packs <- SomePacks
INVARIANTS SyncSafe LineageKept PreparedExact DeltaCovered
PROPERTY Continues
CHECK_DEADLOCK FALSE
