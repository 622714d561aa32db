\* The program stops with its output written, or of an exception.
SPECIFICATION Spec
CONSTANTS
  Indices <- SmallIndices
INVARIANTS
  TypeOK
  EverythingDocumented
  BrokenClassIsContained
CHECK_DEADLOCK FALSE
