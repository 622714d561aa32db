\* A thread that died of an exception while printing is started again.
SPECIFICATION Spec
CONSTANTS
  Configs <- Patterns
  Faults = {"print"}
  MaxRestarts = 1
PROPERTIES
  OneDumpPerPattern
CHECK_DEADLOCK FALSE
