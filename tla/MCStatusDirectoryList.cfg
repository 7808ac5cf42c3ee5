SPECIFICATION Spec
CONSTANTS
  Runs = {"r1", "r2"}
  IDs = {"a", "b"}
  Clients = {"c"}
  IdOf <- TwoIDs
  Exclusive = TRUE
  DiskMayFill = FALSE
INVARIANT ListNeverFails
CHECK_DEADLOCK FALSE
