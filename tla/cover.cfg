SPECIFICATION FairSpec
CONSTANTS
  TRAVEL = 3
  MOVEMENT_TIMEOUT = 6
  COOLDOWN = 2
  Contexts <- MCContexts
  MIN_PULSE = 1
  RESPONSE_WAIT = 1
  POLL_MOVING = 1
  POLL_IDLE = 2
  MAX_QUEUE = 3
  BlindStarts <- MCBlindStarts
  AIR = 1
  MaxUser = 2
  MaxTrouble = 1
  MaxLate = 1
INVARIANTS
  CoverTypeOK
  EstimateExact
  RestsAtTarget
  JogKeepsPosition
  StopHolds
PROPERTIES
  EstimateSettles
