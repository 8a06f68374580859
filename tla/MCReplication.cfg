SPECIFICATION FairSpec
CONSTANTS
  Key = {k1, k2}
  Item = {x, y}
  Client = {c1}
  Op = {"SET", "SETEX", "EXPIRE", "RPUSH", "LPOP", "DEL"}
  Capacity = 1
  MaxWrites = 2
  MaxBreaks = 2
  MaxExpiries = 2
INVARIANTS TypeOK SetInSync NoMissedWrite
PROPERTY SetConverges
CHECK_DEADLOCK FALSE
