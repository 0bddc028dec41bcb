SPECIFICATION Spec
CONSTANTS
  NoHost = NoHost
  h1 = h1
  h2 = h2
  scr = scr
  mouse = mouse
  None = None
  Me = h1
  Hosts = {h1, h2}
  Screens = {}
  Devices = {mouse}
  OnActivation <- NoCommands
  OnDeactivation <- NoCommands
  Settle = 1
  SwitchRetries = 1
  RetrySpacing = 1
  ArrivalWindow = 2
  Cooldown = 2
  BreakerWindow = 4
  BreakerMax = 2
  BreakerPause = 4
  ServerStates <- DeviceStates
  AttachTimes <- NoTimes
  MaxNow = 6
INVARIANTS
  TypeOK
  NoLostWakeup
PROPERTIES
  GiveAwayAuthorised
  RecordedMeansOver
  NotifyJustified
  AdoptionNeverActs
