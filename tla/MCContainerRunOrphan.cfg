SPECIFICATION FairSpec
CONSTANTS
  MaxFd = 8
  ExitCodes = {0}
  Configs <- LowSocketConfigs
PROPERTY NoOrphanInSetup
