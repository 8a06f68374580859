SPECIFICATION FairSpec
CONSTANTS
  Node = {1, 2, 3}
  FAIL_THRESHOLD = 2
  MaxCrashes = 1
  MaxFaults = 1
  MaxInFlight = 1
PROPERTY FailedHealed
CHECK_DEADLOCK FALSE
