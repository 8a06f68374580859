SPECIFICATION Spec
CONSTANTS
  Node = {n1, n2, n3}
  Command = {a, b}
  None = None
  MaxTerm = 2
  MaxElections = 2
  MaxAppends = 6
CONSTRAINT Bounds
SYMMETRY Symmetry
INVARIANT CommittedOnMajority
CHECK_DEADLOCK FALSE
