SPECIFICATION Spec
CONSTANTS
  Runs = {"r1", "r2"}
  IDs = {"a", "b"}
  Clients = {"c"}
  IdOf <- OneID
  Exclusive = FALSE
  DiskMayFill = FALSE
INVARIANT AssertionsHoldForAnyIDs
CHECK_DEADLOCK FALSE
