SPECIFICATION Spec
CONSTANTS
  NoHost = NoHost
  h1 = h1
  h2 = h2
  scr = scr
  mouse = mouse
  None = None
  Me = h1
  Hosts = {h1, h2}
  Screens = {scr}
  Devices = {}
  OnActivation <- TakeAndRun
  OnDeactivation <- OneCommand
  Settle = 2
  SwitchRetries = 1
  RetrySpacing = 1
  ArrivalWindow = 2
  Cooldown = 2
  BreakerWindow = 4
  BreakerMax = 2
  BreakerPause = 4
  ServerStates <- OwnershipStates
  AttachTimes <- EarlyTimes
  MaxNow = 4
INVARIANTS
  NoLostWakeup
PROPERTIES
  CommandsAuthorised
  ClaimDiscipline
  ImplementsContract
