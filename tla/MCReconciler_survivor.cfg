\* A worker of the previous run still trains when the supervisor boots.
CONSTANTS
  Jobs = {j1}
  IsCloud = FALSE
  Survivors = TRUE
  DbFaults = FALSE
SPECIFICATION Spec
PROPERTY NoCompleteOverwritten
CHECK_DEADLOCK FALSE
