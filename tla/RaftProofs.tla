----------------------------- MODULE RaftProofs -----------------------------
(***************************************************************************)
(* Theorems about Raft, for every group of nodes and every bound on terms: *)
(* types, elections, clients, the log of a leader, and log matching.       *)
(*                                                                         *)
(* The witness of log matching is leader_log, the log each term's leader   *)
(* had last: a term has one leader and a leader only appends, so an entry  *)
(* of term t was copied, by however many nodes in between, from            *)
(* leader_log[t], together with everything before it.                      *)
(***************************************************************************)
EXTENDS RaftSteps, FiniteSetTheorems

-----------------------------------------------------------------------------
(* Smallest and largest elements, and majorities *)

(* Min picks a smallest element of a set of naturals. *)
LEMMA NatSmallest ==
  ASSUME NEW S \in SUBSET Nat, S # {}
  PROVE  Min(S) \in S /\ \A x \in S : Min(S) <= x
<1> DEFINE R == {ss \in Nat \X Nat : ss[1] < ss[2]}
<1>1. IsWellFoundedOn(R, Nat)
  BY NatLessThanWellFounded, Zenon DEF OpToRel
<1>2. PICK x \in S : \A y \in S : ~ (<<y, x>> \in R)
  <2> HIDE DEF R
  <2> QED BY <1>1, WFMin, Zenon
<1>3. ASSUME NEW y \in S PROVE x <= y
  <2>1. x \in Nat /\ y \in Nat /\ <<y, x>> \notin R
    BY <1>2, Zenon
  <2>2. ~ (y < x)
    BY <2>1, Zenon
  <2> QED
    BY <2>1, <2>2
<1> QED
  BY <1>3, Zenon DEF Min

(* Max picks a largest element of a bounded set of naturals. *)
LEMMA NatLargest ==
  ASSUME NEW S \in SUBSET Nat, S # {}, NEW b \in Nat, \A x \in S : x <= b
  PROVE  Max(S) \in S /\ \A x \in S : x <= Max(S)
<1> DEFINE T == {b - x : x \in S}
<1>1. T \in SUBSET Nat /\ T # {}
  <2>1. ASSUME NEW x \in S PROVE b - x \in Nat
    OBVIOUS
  <2> QED
    BY <2>1, Zenon
<1>2. Min(T) \in T /\ \A y \in T : Min(T) <= y
  <2> HIDE DEF T
  <2> QED BY <1>1, NatSmallest, Zenon
<1>3. PICK x \in S : Min(T) = b - x
  BY <1>2, Zenon
<1>4. ASSUME NEW y \in S PROVE y <= x
  <2>1. b - x <= b - y
    BY <1>2, <1>3, Zenon
  <2>2. x \in Nat /\ y \in Nat
    BY Zenon
  <2> QED
    BY <2>1, <2>2
<1> QED
  BY <1>4, Zenon DEF Max

(* Any two majorities of the group share a node. *)
LEMMA QuorumsIntersect ==
  ASSUME NEW A \in SUBSET Node, NEW B \in SUBSET Node,
         Cardinality(A) >= quorum, Cardinality(B) >= quorum
  PROVE  A \cap B # {}
<1>1. /\ Cardinality(Node) \in Nat
      /\ Cardinality(A) \in Nat
      /\ Cardinality(B) \in Nat
  BY NodeAssumption, FS_CardinalityType, FS_Subset
<1>2. Cardinality(A) + Cardinality(B) > Cardinality(Node)
  BY <1>1 DEF quorum
<1> QED
  BY <1>2, NodeAssumption, FS_MajoritiesIntersect

(* The facts the steps rest on. *)
LEMMA SetFactsHold == SetFacts
<1>1. ASSUME NEW A \in SUBSET Node PROVE IsFiniteSet(A) /\ Cardinality(A) \in Nat
  BY NodeAssumption, FS_Subset, FS_CardinalityType, Zenon
<1>2. ASSUME NEW A \in SUBSET Node, NEW B \in SUBSET Node, A \subseteq B
      PROVE  Cardinality(A) <= Cardinality(B)
  BY <1>1, <1>2, FS_Subset, Zenon
<1>3. quorum \in Nat
  BY NodeAssumption, FS_CardinalityType DEF quorum
<1>4. \A n \in Node : Cardinality({n}) = 1
  BY FS_Singleton, Zenon
<1>5. ASSUME NEW A \in SUBSET Node, NEW n \in Node \ A
      PROVE  Cardinality(A \cup {n}) = Cardinality(A) + 1
  BY <1>1, FS_AddElement
<1>6. \A S \in SUBSET Nat : S # {} => Min(S) \in S /\ \A x \in S : Min(S) <= x
  BY NatSmallest
<1>7. \A S \in SUBSET Nat, b \in Nat :
        S # {} /\ (\A x \in S : x <= b) => Max(S) \in S /\ \A x \in S : x <= Max(S)
  BY NatLargest, Zenon
<1>8. \A A, B \in SUBSET Node :
        Cardinality(A) >= quorum /\ Cardinality(B) >= quorum => A \cap B # {}
  BY QuorumsIntersect, Zenon
<1> QED
  BY <1>1, <1>2, <1>3, <1>4, <1>5, <1>6, <1>7, <1>8, Zenon DEF SetFacts

-----------------------------------------------------------------------------
(* Types and elections *)

(* Every reachable state of every group of nodes is well typed: no handler *)
(* writes a term, an index or an RPC outside its range, and apply_committed *)
(* never reads past the log (it would panic there).                         *)
THEOREM TypeCorrect == Spec => []TypeOK
<1>1. TypeInv => TypeOK
  BY DEF TypeInv
<1>2. TypeInv /\ [Next]_vars => TypeInv'
  BY SetFactsHold, NextTypeInv, Zenon
<1> QED
  BY <1>1, <1>2, InitTypeInv, PTL DEF Spec

LEMMA ElectionInvariant == Spec => []ElectionInv
<1>1. ElectionInv /\ [Next]_vars => ElectionInv'
  BY SetFactsHold, NextElectionInv, Zenon
<1> QED
  BY <1>1, InitElectionInv, PTL DEF Spec

(* No node ever votes twice in a term (handle_request_vote), for any group *)
(* size, any message order and any number of elections.                    *)
THEOREM VotesOnce == Spec => []OneVotePerTerm
<1>1. ElectionInv => OneVotePerTerm
  BY DEF ElectionInv
<1> QED
  BY <1>1, ElectionInvariant, PTL

(* Two nodes are never leader of the same term (become_leader). *)
THEOREM ElectionSafe == Spec => []ElectionSafety
<1>1. ElectionInv => ElectionSafety
  <2> SUFFICES ASSUME ElectionInv, NEW a \in Node, NEW b \in Node,
                      role[a] = "Leader", role[b] = "Leader",
                      current_term[a] = current_term[b]
               PROVE  a = b
    BY Zenon DEF ElectionSafety
  <2>1. Elected(a, current_term[a]) /\ Elected(b, current_term[a])
    BY DEF ElectionInv, LeadersElected
  <2> QED
    BY <2>1, OneElected, SetFactsHold, Zenon DEF ElectionInv
<1> QED
  BY <1>1, ElectionInvariant, PTL

(* The node a MOVED answer names was elected by a majority in a term the   *)
(* answering node has reached (set_leader).                                *)
THEOREM HintsJustified == Spec => []HintWasLeader
<1>1. ElectionInv => HintWasLeader
  BY Zenon DEF ElectionInv
<1> QED
  BY <1>1, ElectionInvariant, PTL

(* A client whose request is open is queued, waiting or answered, in one   *)
(* place only: append_proposal and apply_committed lose no client and      *)
(* answer none twice, in every group and whatever leaders come and go.     *)
THEOREM ClientsAccounted == Spec => []ClientAccounting
<1>1. TypeOK /\ ClientInv /\ [Next]_vars => ClientInv'
  BY NextClientInv, Zenon
<1>2. TypeOK /\ ClientInv => ClientAccounting
  BY OnePlaceImplied, Zenon
<1> QED
  BY <1>1, <1>2, InitClientInv, TypeCorrect, PTL DEF Spec

-----------------------------------------------------------------------------
(* The log of a leader *)

(* An AppendEntries of a leader's own term never reaches that leader, so   *)
(* it neither steps down for it nor truncates its log: a leader yields     *)
(* only to a newer term (handle_append_entries).                           *)
THEOREM LeadersAppendOnly == Spec => LeaderAppendOnly
<1> DEFINE Kept(n) == role[n] = "Leader" /\ current_term'[n] = current_term[n]
                        => /\ role'[n] = "Leader"
                           /\ Len(log[n]) <= Len(log'[n])
                           /\ SubSeq(log'[n], 1, Len(log[n])) = log[n]
<1>1. ElectionInv /\ [Next]_vars => [\A n \in Node : Kept(n)]_vars
  BY LeaderLogKept, SetFactsHold, Zenon
<1>2. Spec => [][\A n \in Node : Kept(n)]_vars
  BY <1>1, ElectionInvariant, PTL DEF Spec
<1> QED
  BY <1>2, Zenon DEF LeaderAppendOnly

LEMMA LogInvariant == Spec => []LogInv
<1>1. ElectionInv /\ ElectionInv' /\ LogInv /\ [Next]_vars => LogInv'
  BY NextLogInv, SetFactsHold, Zenon
<1> QED
  BY <1>1, InitLogInv, ElectionInvariant, PTL DEF Spec

(* Two logs with an entry of one term at one index agree up to it, for any *)
(* group of nodes and any sequence of elections, truncations and resent or *)
(* reordered AppendEntries (handle_append_entries, become_leader,          *)
(* append_proposal).                                                       *)
THEOREM LogsMatch == Spec => []LogMatching
<1>1. ElectionInv /\ LogInv => LogMatching
  <2> SUFFICES ASSUME ElectionInv, LogInv, NEW a \in Node, NEW b \in Node,
                      NEW i \in 1..Len(log[a]), i <= Len(log[b]),
                      log[a][i].term = log[b][i].term
               PROVE  SubSeq(log[a], 1, i) = SubSeq(log[b], 1, i)
    BY DEF LogMatching
  <2>1. leader_log \in Ledger /\ log[a] \in Seq(Entry) /\ log[b] \in Seq(Entry)
    <3>1. TypeOK
      BY Zenon DEF ElectionInv, TypeInv
    <3> QED
      BY <3>1, LogTypes
  <2>2. \A j \in 1..i : log[a][j] = log[b][j]
    BY <2>1, SameTerm DEF LogInv, LogsCopied
  <2> QED
    BY <2>1, <2>2
<1> QED
  BY <1>1, ElectionInvariant, LogInvariant, PTL

=============================================================================

