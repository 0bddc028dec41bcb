SPECIFICATION FairWatchSpec
CONSTANTS
  NoHost = NoHost
  None = None
  Me = h1
  Hosts = {h1, h2}
  Screens = {}
  Devices = {}
  Payloads = {p}
  Conns = {c1, c2}
  LiveGrace = 0
  MaxEpoch = 3
  PersistFails = FALSE
  FileLost = FALSE
  RequestsHang = TRUE
PROPERTIES
  FollowsServer
