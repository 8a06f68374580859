SPECIFICATION Spec
CONSTANTS
  Node = {1, 2, 3}
  NUM_SLOTS = 6
  Key = {2, 4}
  MaxEvents = 0
INVARIANT DataReachable
CHECK_DEADLOCK FALSE
