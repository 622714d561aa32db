\* Indices that some packets do not have.
SPECIFICATION Spec
CONSTANTS
  ByteBits = 3
  Formats <- ShortFormats
  Names <- TwoNames
  Packets <- ShortPackets
  Reads <- PlaceholderBytes
INVARIANTS
  RanOutOfBits
CHECK_DEADLOCK FALSE
