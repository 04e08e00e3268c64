CONSTANTS
  move = move
  stop = stop
  Commands <- MCCommands
  Buttons <- MCCommands
  PacketsOf <- MCPacketsOf
  Channels = {}
  MAX_QUEUE = 2
  SEND_RETRIES = 1
  COUNTER_MAX = 1
  CLOCK_BITS = 4
  INTER_PACKET_MS = 1
  MAX_BACKOFF_MS = 2
  TX_PENDING_TIMEOUT = 1
  MaxUptime = 22
  MaxOutstanding = 1
SPECIFICATION Spec
INVARIANT ClearedMeansReached
CHECK_DEADLOCK FALSE
