SPECIFICATION Spec
CONSTANTS
  a = a
  b = b
  c = c
  q = q
  r = r
  blinds = blinds
  n1 = n1
  n2 = n2
  home = home
  none = none
  noDevice = noDevice
  noGroup = noGroup
  noRecord = noRecord
  noMessage = noMessage
  noBackup = noBackup
  MAX_DEVICES = 4
  MAX_GROUPS = 1
  GROUP_MAX_DESTS = 2
  Addrs = {a, b, c}
  Remotes = {q, r}
  Names = {n1, n2}
  DefaultName = n1
  GroupIds = {blinds}
  HubNames = {none, home}
  NoName = none
  NoDevice = noDevice
  NoGroup = noGroup
  NoRecord = noRecord
  NoMessage = noMessage
  NoBackup = noBackup
  Images <- MCImages
  Edits <- MCEdits
  GroupEdits <- MCGroupEdits
  Strangers = {b}
  MaxEdits <- MCMaxEdits
  MaxImports = 1
  MaxOutages = 1
  MaxRestarts = 1
INVARIANTS
  RegTypeOK
  StoreMatches
  TwinsNeedTornWrite
  MembersKnown
  BrokerMirrors
  ShownIsHeard
  ClientMirrors
CHECK_DEADLOCK FALSE
