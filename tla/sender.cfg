CONSTANTS
  move = move
  down = down
  check = check
  ch1 = ch1
  ch2 = ch2
  Commands <- MCCommands
  Buttons <- MCButtons
  PacketsOf <- MCPacketsOf
  Channels <- MCChannels
  MAX_QUEUE = 2
  SEND_RETRIES = 2
  COUNTER_MAX = 3
  MaxCommands = 2
  MaxClears = 2
  TxDepth = 3
SPECIFICATION FairSpec
INVARIANTS
  TypeOK
  PendingIsFront
  PromptMeansConfirmed
  DroppedMeansFailed
PROPERTIES
  CounterTellsCommands
  ImplementsService
  EveryCommandRetired
CHECK_DEADLOCK FALSE
