------------------------------- MODULE MCRaft -------------------------------
(***************************************************************************)
(* Model-checking instance of Raft: three nodes, and bounds on how many    *)
(* elections are started and how many distinct AppendEntries are sent.     *)
(***************************************************************************)
EXTENDS Raft, TLC

CONSTANTS
  MaxElections,  \* elections started by all nodes together
  MaxAppends     \* distinct AppendEntries sent, after which no step is taken

Symmetry == Permutations(Node) \cup Permutations(Command)

Bounds ==
  /\ Cardinality({v \in votes : v.voter = v.for}) <= MaxElections
  /\ Cardinality(append_reqs) <= MaxAppends

=============================================================================
