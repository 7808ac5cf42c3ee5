SPECIFICATION FairSpec
CHECK_DEADLOCK FALSE
CONSTANTS
  Documents <- SetupDocuments
  Garbage <- SetupGarbage
  Hosts <- SetupHosts
  Devices <- SomeDevices
INVARIANT TypeOK
INVARIANT LastOptionDecides
INVARIANT AttributesAsAsked
INVARIANT DevMountsStayVisible
INVARIANT ProcAndSysMounted
INVARIANT DevicePathsAreDevices
INVARIANT CredentialsComplete
PROPERTY OnlyOwnMountChanged
PROPERTY SetupEnds
