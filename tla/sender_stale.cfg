CONSTANTS
  move = move
  down = down
  check = check
  ch1 = ch1
  ch2 = ch2
  Commands <- MCCommands
  Buttons <- MCButtons
  PacketsOf <- MCPacketsOf
  Channels = {}
  MAX_QUEUE = 2
  SEND_RETRIES = 2
  COUNTER_MAX = 4
  MaxCommands = 3
  MaxClears = 2
  TxDepth = 3
SPECIFICATION Spec
INVARIANT SentMeansConfirmed
CHECK_DEADLOCK FALSE
