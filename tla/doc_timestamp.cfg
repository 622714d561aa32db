\* A second of 20 microseconds, and a divisor of a tenth of that.
SPECIFICATION Spec
CONSTANTS
  Divisor = 2
  MaxTime = 60
PROPERTIES
  StampsGrow
CHECK_DEADLOCK FALSE
