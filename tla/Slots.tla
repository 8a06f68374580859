------------------------------- MODULE Slots -------------------------------
(***************************************************************************)
(* Hash slots of the cluster (src/src/cluster, phases 6 and 7): which node *)
(* of a node list owns a slot.  Addresses are numbers, in the order the    *)
(* node list is sorted in; a node list is the set of its addresses.        *)
(***************************************************************************)
EXTENDS Integers, FiniteSets

CONSTANTS NUM_SLOTS, Node

ASSUME SlotsAssumption == NUM_SLOTS \in Nat \ {0}
ASSUME NodeAssumption == Node \subseteq Nat \ {0} /\ IsFiniteSet(Node)

Slot == 0 .. NUM_SLOTS - 1

(* A node list a configuration can be built from. *)
NodeList == {nodes \in SUBSET Node : nodes # {} /\ Cardinality(nodes) <= NUM_SLOTS}

(* The slots of a node when there are n of them. *)
base(n) == NUM_SLOTS \div n

(* Chunks of base(n) slots; the last node takes the remainder. *)
slot_to_node(n, s) == IF s \div base(n) < n THEN s \div base(n) ELSE n - 1

(* The position of an address in the sorted list, and back. *)
index_of(nodes, a) == Cardinality({b \in nodes : b < a})
node_at(nodes, i) == CHOOSE a \in nodes : index_of(nodes, a) = i

node_for_slot(nodes, s) == node_at(nodes, slot_to_node(Cardinality(nodes), s))
is_mine(nodes, a, s) == slot_to_node(Cardinality(nodes), s) = index_of(nodes, a)
my_slots(nodes, a) == {s \in Slot : is_mine(nodes, a, s)}

(* The slots node a has to hand over when the list changes, with their new *)
(* owner.                                                                  *)
slots_to_send(old, new, a) ==
  {<<s, node_for_slot(new, s)>> : s \in {s \in my_slots(old, a) : node_for_slot(new, s) # a}}

=============================================================================
