SPECIFICATION FairSpec
CONSTANTS
  GuardFlaps = TRUE
  Stops = TRUE
  MaxStates = 2
INVARIANTS
  OneIssueAtATime
  SendNeverBlocks
  NewestStateOffered
PROPERTIES
  SteadyIssuesReport
  StopReturns
CHECK_DEADLOCK FALSE
