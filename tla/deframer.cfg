\* Documented configurations and those at the limits of the arithmetic; of the
\* latter a block may die of an exception and stop.
SPECIFICATION HFairSpec
CONSTANTS
  ByteBits = 2
  Samples <- Bits
  Configs <- AllConfigs
  Garbage <- Unset
  MaxWork = 2
INVARIANTS
  TypeOK
  GenuineSync
  LengthInv
  WindowInv
  BeforeEnd
  FrameInv
PROPERTIES
  ImplementsFrameSpec
  SquelchIsFinal
  EveryPacketEnds
CHECK_DEADLOCK FALSE
