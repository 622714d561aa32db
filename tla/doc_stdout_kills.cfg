\* The standard output fails, the log file does not.
SPECIFICATION Spec
CONSTANTS
  Kinds = {"pdu"}
  Faults = {"stdout"}
  Loggers = {"stdout", "stdout_file"}
  MaxPosts = 3
  MaxRestarts = 1
INVARIANTS
  ErrorsAreReported
CHECK_DEADLOCK FALSE
