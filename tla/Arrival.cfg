SPECIFICATION FairArrivalSpec
CONSTANTS
  NoHost = NoHost
  None = None
  Me = h1
  Hosts = {h1, h2}
  Screens = {}
  Devices = {d}
  Payloads = {p}
  Conns = {}
  LiveGrace = 0
  MaxEpoch = 5
  PersistFails = FALSE
  FileLost = FALSE
  ArrivalFor = 1
  MaxNow = 2
INVARIANTS
  ReportedOnce
PROPERTIES
  ArrivalIsReal
  SeqIdentifiesRecording
  EveryChangeMovesEpoch
  ArrivalReported
