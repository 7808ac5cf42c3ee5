SPECIFICATION FairSpec
CONSTANTS
  MaxFd = 8
  ExitCodes = {0, 3}
  Configs <- AllConfigs
INVARIANT TypeOK
INVARIANT HandshakeAgrees
INVARIANT RuntimeHooksWhileCloneWaits
INVARIANT HookOrder
INVARIANT IdMapsInPlace
INVARIANT RecordNamesContainer
INVARIANT PoststartAfterStart
INVARIANT AbortsOnlyOnPidReuse
PROPERTY ImplementsLifecycle
PROPERTY NoHandshakeDeadlock
PROPERTY DeathIsNoticed
PROPERTY NoOrphanAboveLowSocket
