CONSTANTS
  http = http
  mysql = mysql
  Services <- MCServices
  Needed <- MCNeeded
  Ported <- MCPorted
  RestartOnFailure <- MCRestartOnFailure
  MaxRestartCount <- MCMaxRestartCount
  MaxRestartInterval <- MCMaxRestartInterval
  Posix = TRUE
  IsCloud = FALSE
  Children = FALSE
  MaxSpawns = 4
  MaxTime = 2
SPECIFICATION FairSpec
PROPERTY ExitIsHandled
PROPERTY ShutdownStopsFleet
CHECK_DEADLOCK FALSE
