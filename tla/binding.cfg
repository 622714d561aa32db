\* A document ends, or an exception ends the reading of it.
SPECIFICATION Spec
CONSTANTS
  Classes <- AllClasses
  Bound <- SmallBound
INVARIANTS
  TypeOK
  LevelByLevel
  BuildsTheTree
  DescriptionShowsText
  WrittenIsReadBack
  LiteralNeedsNoMixedContent
CHECK_DEADLOCK FALSE
