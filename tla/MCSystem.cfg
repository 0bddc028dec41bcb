SPECIFICATION SystemSpec
CONSTANTS
  NoHost = NoHost
  None = None
  h1 = h1
  h2 = h2
  Hosts = {h1, h2}
  Screens = {scr}
  Devices = {mouse}
  Payloads = {h1, h2}
  scr = scr
  mouse = mouse
  Cases <- SmallCases
  SwitchRetries = 1
  ArrivalWindow = 1
  Conns = {}
  LiveGrace = 0
  MaxEpoch = 9
  PersistFails = FALSE
  FileLost = FALSE
SYMMETRY Same
INVARIANTS
  OneTakerPerActivation
  PrevIsAnotherHost
  FollowsTakes
  ArrivedIsHere
CHECK_DEADLOCK FALSE
