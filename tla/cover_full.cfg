SPECIFICATION Spec
CONSTANTS
  TRAVEL = 2
  MOVEMENT_TIMEOUT = 5
  COOLDOWN = 2
  Contexts <- MCContexts
  MIN_PULSE = 1
  RESPONSE_WAIT = 1
  POLL_MOVING = 1
  POLL_IDLE = 2
  MAX_QUEUE = 3
  BlindStarts <- MCBlindStarts
  AIR = 1
  MaxUser = 2
  MaxTrouble = 0
  MaxLate = 0
PROPERTIES
  FullMoveRunsThrough
