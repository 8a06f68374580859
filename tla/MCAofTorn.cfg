SPECIFICATION Spec
CONSTANTS
  Key = {k1}
  Item = {x, y, garbage}
  Input = {x, y}
  Garbage = garbage
  Client = {c1}
  Op = {"SET"}
  MaxWrites = 3
  MaxCrashes = 2
  MaxFailures = 0
PROPERTY CrashKeepsAnswered
CHECK_DEADLOCK FALSE
