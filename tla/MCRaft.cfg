SPECIFICATION Spec
CONSTANTS
  Node = {n1, n2, n3}
  Command = {a, b}
  None = None
  MaxTerm = 2
  MaxElections = 2
  MaxAppends = 4
CONSTRAINT Bounds
SYMMETRY Symmetry
INVARIANTS TypeOK ElectionSafety OneVotePerTerm LogMatching HintWasLeader ClientAccounting
PROPERTY LeaderAppendOnly
CHECK_DEADLOCK FALSE
