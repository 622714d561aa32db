\* Every format string of at most three pieces, bytes of three bits.
SPECIFICATION Spec
CONSTANTS
  ByteBits = 3
  Formats <- ShortFormats
  Names <- TwoNames
  Packets <- ShortPackets
  Reads <- PlaceholderBytes
INVARIANTS
  LineIsItsFormat
CHECK_DEADLOCK FALSE
