\* Local install, database faults, no worker outlives a previous run.
CONSTANTS
  Jobs = {j1, j2, j3}
  IsCloud = FALSE
  Survivors = FALSE
  DbFaults = TRUE
SPECIFICATION Spec
PROPERTY NoCompleteOverwritten
CHECK_DEADLOCK FALSE
