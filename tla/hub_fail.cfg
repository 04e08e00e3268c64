CONSTANTS
  move = move
  a = a
  b = b
  d = d
  Devices <- TwoDevices
  Commands <- MCCommands
  Buttons <- MCCommands
  PacketsOf <- OnePacket
  Channels = {}
  MAX_QUEUE = 1
  SEND_RETRIES = 1
  COUNTER_MAX = 4
  TX_QUEUE = 1
  DONE_QUEUE = 4
  MayFail = TRUE
  MaxCommands = 1
  MaxClears = 0
  MaxLate = 4
  MaxRaw = 0
SPECIFICATION FairSpec
PROPERTY EveryRequestAnswered
