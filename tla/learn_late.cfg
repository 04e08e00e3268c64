CONSTANTS
  CLOCK_BITS = 4
  INTER_PACKET_MS = 1
  MAX_BACKOFF_MS = 2
  TX_PENDING_TIMEOUT = 1
  MaxUptime = 20
  LEARN_RETRIES = 1
  SessionTimeouts <- MCTimeouts
  PacketCounts = {1, 2}
  MaxRequests = 2
  MaxSessions = 2
SPECIFICATION LearnSpec
PROPERTY StepIsDue
CHECK_DEADLOCK FALSE
