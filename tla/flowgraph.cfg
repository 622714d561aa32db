\* Both files may fail, messages may be of any kind, and the flow graph may be
\* stopped in the middle of a packet and started again; or stopped for good.
SPECIFICATION FlowFairSpec
CONSTANTS
  Kinds = {"pdu", "odd", "other", "untyped"}
  Faults = {"stdout", "file"}
  Loggers = {"stdout", "file", "stdout_file"}
  MaxPosts = 3
  MaxRestarts = 1
  ByteBits = 1
  Samples <- Bits
  Configs <- FlowConfigs
  Garbage = {0}
  MaxWork = 1
INVARIANTS
  TypeOK
  LogIsComplete
  LogIsPrefix
  PacketsStayInOrder
  OneSplicePerRestart
PROPERTIES
  EveryMessageIsHandled
CHECK_DEADLOCK FALSE
