SPECIFICATION BudgetSpec
CONSTANTS
  NoHost = NoHost
  h1 = h1
  h2 = h2
  left = left
  right = right
  None = None
  Me = h1
  Hosts = {h1, h2}
  Screens = {left, right}
  Devices = {}
  OnActivation <- NoCommands
  OnDeactivation <- NoCommands
  Settle = 1
  SwitchRetries = 0
  RetrySpacing = 1
  ArrivalWindow = 2
  Cooldown = 1
  BreakerWindow = 4
  BreakerMax = 2
  BreakerPause = 3
  ServerStates <- LoopStates
  AttachTimes <- NoTimes
  MaxNow = 7
INVARIANT
  WriteLoopBounded
