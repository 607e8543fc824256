\* Local install, no faults: orphans must be repaired while the thread runs.
CONSTANTS
  Jobs = {j1, j2}
  IsCloud = FALSE
  Survivors = FALSE
  DbFaults = FALSE
SPECIFICATION FairSpec
PROPERTY OrphansRepaired
CHECK_DEADLOCK FALSE
