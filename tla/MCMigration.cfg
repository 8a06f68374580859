SPECIFICATION FairSpec
CONSTANTS
  Node = {1, 2, 3}
  NUM_SLOTS = 6
  Key = {3, 4}
  MaxEvents = 2
INVARIANTS KeyNeverVanishes AgreeWhenDone
PROPERTY HandlersFinish
CHECK_DEADLOCK FALSE
