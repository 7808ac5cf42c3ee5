SPECIFICATION Spec
CHECK_DEADLOCK FALSE
CONSTANTS
  Documents <- SetupDocuments
  Garbage <- SetupGarbage
  Hosts <- SetupHosts
  Devices <- SomeDevices
INVARIANT GroupAsConfigured
