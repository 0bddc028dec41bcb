SPECIFICATION ClaimsSpec
CONSTANTS
  NoHost = NoHost
  Me = me
  Hosts = {me, other}
  Screens = {}
  Devices = {}
  Payloads = {}
  Conns = {}
  LiveGrace = 0
  MaxEpoch = 6
  PersistFails = FALSE
  FileLost = FALSE
  Addrs = {a, b}
  NoAddr = NoAddr
  Attempts = 4
  MaxAttaches = 4
  MaxMoves = 1
  MaxStrays = 1
INVARIANT
  OwnerFollowsAttach
PROPERTIES
  ClaimsEnd
  CacheFollowsHome
CHECK_DEADLOCK FALSE
