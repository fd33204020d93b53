SPECIFICATION SparseSpec
CONSTANTS
  Defects <- UpToFour
  Faults <- AllFaults
  MaxFaults = 2
INVARIANTS TypeOK CredentialsInStep AnchorsEnclose NeverOutOfTurn PassSound
CHECK_DEADLOCK FALSE
