CONSTANTS
  http = http
  mysql = mysql
  Services <- MCServices
  Needed <- MCNeeded
  Ported <- MCPorted
  RestartOnFailure <- MCRestartOnFailure
  MaxRestartCount <- MCMaxRestartCount
  MaxRestartInterval <- MCMaxRestartInterval
  Posix = TRUE
  IsCloud = FALSE
  Children = FALSE
  MaxSpawns = 3
  MaxTime = 1
SPECIFICATION FairSpec
PROPERTY NoSpawnAfterStop
CHECK_DEADLOCK FALSE
