SPECIFICATION Spec
CONSTANTS
  MaxFd = 8
  ExitCodes = {0}
  Configs <- PoststopConfigs
INVARIANT PoststopHooksRun
