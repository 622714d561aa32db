\* Every call may fail; a block that died in a dump is not started again.
SPECIFICATION CleanSpec
CONSTANTS
  Configs <- Patterns
  Faults = {"print", "write", "close"}
  MaxRestarts = 1
INVARIANTS
  TypeOK
  LogHasNoGap
PROPERTIES
  ImplementsFrameSpec
  FoundIsDumped
CHECK_DEADLOCK FALSE
