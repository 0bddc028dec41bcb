SPECIFICATION Spec
CONSTANTS
  GuardFlaps = TRUE
  Stops = FALSE
  MaxStates = 1
INVARIANTS
  IssueNotLost
