\* One raise in the clean_process_marks loop ends the thread.
CONSTANTS
  Jobs = {j1, j2}
  IsCloud = FALSE
  Survivors = FALSE
  DbFaults = TRUE
SPECIFICATION FairSpec
PROPERTY OrphansRepaired
CHECK_DEADLOCK FALSE
