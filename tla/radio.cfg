CONSTANTS
  FIFO_PACKETS = 1
  RECOVERIES_BEFORE_RESET = 2
  RESETS_BEFORE_FAILED = 2
  MaxPackets = 2
  MaxSends = 3
  MaxFaults = 2
  MaxWindows = 1
SPECIFICATION FairSpec
INVARIANTS
  NoPacketStranded
  SuccessMeansSent
  SurvivesFaults
PROPERTIES
  PacketsDrained
  TxEnds
  DeafnessEnds
CHECK_DEADLOCK FALSE
