SPECIFICATION Spec
CONSTANTS
  Runs = {"r1", "r2", "r3"}
  IDs = {"a", "b"}
  Clients = {"c"}
  IdOf <- Shared
  Exclusive = TRUE
  DiskMayFill = TRUE
CONSTRAINT TwoTakePart
CONSTRAINT CompanionRunsWell
INVARIANT TypeOK
INVARIANT RecordsWhole
INVARIANT TempFileIsOurs
INVARIANT RunFindsOwnRecord
INVARIANT ListMissesNone
INVARIANT ListFailsOnlyIfOneVanished
INVARIANT ExecStaysOnId
PROPERTY ReturnedLeavesNothing
PROPERTY ImplementsRegistry
CHECK_DEADLOCK FALSE
