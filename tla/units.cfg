CONSTANTS
  move = move
  stop = stop
  Commands <- MCCommands
  Buttons <- MCCommands
  PacketsOf <- MCPacketsOf
  Channels = {}
  MAX_QUEUE = 2
  SEND_RETRIES = 1
  COUNTER_MAX = 1
  CLOCK_BITS = 4
  INTER_PACKET_MS = 1
  MAX_BACKOFF_MS = 2
  TX_PENDING_TIMEOUT = 1
  MaxUptime = 20
  MaxOutstanding = 1
  LEARN_RETRIES = 1
  SessionTimeouts = {4, 6}
  PacketCounts = {1, 2}
  MaxRequests = 2
  MaxSessions = 2
  a = a
  b = b
  c = c
  Lights <- MCLights
  LightMembers <- MCMembers
  Remote <- MCRemote
  Dimmable <- MCDimmable
  LIGHT_QUEUE = 2
  DIM = 3
  MaxOrders = 3
  Packets <- MCPackets
  StatusTypes = {202, 201}
  Unread = {0, 1, 2, 3, 5, 30, 31, 32}
  MaxFrames = 2
  LQI <- MCLQI
  RESETS_BEFORE_FAILED = 2
  MaxArrivals = 2
  MaxSends = 2
  MaxMishaps = 3
SPECIFICATION UnitsSpec
INVARIANTS
  DelayIsDeadline
  EstimateAsHeard
  HeardAsSent
  HearsAtRest
PROPERTIES
  NeverEarly
  WatchdogWaits
  ConfirmedSteps
  EndsStay
  DimsSmoothly
CHECK_DEADLOCK FALSE
