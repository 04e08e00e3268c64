CONSTANTS
  move = move
  a = a
  b = b
  d = d
  Devices <- TwoDevices
  Commands <- MCCommands
  Buttons <- MCCommands
  PacketsOf <- OnePacket
  Channels = {}
  MAX_QUEUE = 1
  SEND_RETRIES = 1
  COUNTER_MAX = 1
  TX_QUEUE = 1
  DONE_QUEUE = 2
  MayFail = TRUE
  MaxCommands = 1
  MaxClears = 1
  MaxLate = 2
  MaxRaw = 1
SPECIFICATION FairSpec
INVARIANTS
  PendingIsInFlight
  OneRequestEach
  LossNeedsTimeout
PROPERTIES
  ImplementsChannel
  EveryCommandLeaves
