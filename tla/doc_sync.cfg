\* A sync word with a border, found where the stream does not have it.
SPECIFICATION DFairSpec
CONSTANTS
  ByteBits = 2
  Samples <- Bits
  Configs <- BorderedConfigs
  Garbage <- Unset
  MaxWork = 2
INVARIANTS
  SyncWordInStream
CHECK_DEADLOCK FALSE
