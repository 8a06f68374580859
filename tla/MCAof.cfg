SPECIFICATION Spec
CONSTANTS
  Key = {k1, k2}
  Item = {x, y, garbage}
  Input = {x, y}
  Garbage = garbage
  Client = {c1}
  Op = {"SET", "SETEX", "EXPIRE", "RPUSH", "DEL"}
  MaxWrites = 3
  MaxCrashes = 1
  MaxFailures = 1
INVARIANT RestartKeepsData
PROPERTY CrashKeepsAnswered
CHECK_DEADLOCK FALSE
