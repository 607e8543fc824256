CONSTANTS
  http = http
  mysql = mysql
  Services <- MCServices
  Needed <- MCNeeded
  Ported <- MCPorted
  RestartOnFailure <- MCRestartOnFailure
  MaxRestartCount <- MCMaxRestartCount
  MaxRestartInterval <- MCMaxRestartInterval
  Posix = TRUE
  IsCloud = FALSE
  Children = TRUE
  MaxSpawns = 4
  MaxTime = 2
SPECIFICATION FairSpec
INVARIANT SingleLiveProcess
INVARIANT RestartRateLimit
PROPERTY LifecycleRefined
CHECK_DEADLOCK FALSE
