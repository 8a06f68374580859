----------------------------- MODULE RaftSteps ------------------------------
(***************************************************************************)
(* What a step of Raft preserves, for every group of nodes and every bound *)
(* on terms: the types, what makes elections safe, where the clients are,  *)
(* the log of a leader, and where the entries of every log come from.  The *)
(* few facts of arithmetic and counting that the steps rest on are an      *)
(* assumption here, SetFacts; RaftProofs proves them and draws the         *)
(* conclusions.                                                            *)
(***************************************************************************)
EXTENDS Raft, TLAPS

(* A set of naturals has a smallest element and, if bounded, a largest;    *)
(* sets of nodes are finite, larger sets count more, one more element      *)
(* counts one more, and any two majorities share a node.                   *)
SetFacts ==
  /\ \A S \in SUBSET Nat : S # {} => Min(S) \in S /\ \A x \in S : Min(S) <= x
  /\ \A S \in SUBSET Nat, b \in Nat :
       S # {} /\ (\A x \in S : x <= b) => Max(S) \in S /\ \A x \in S : x <= Max(S)
  /\ quorum \in Nat
  /\ \A A \in SUBSET Node : Cardinality(A) \in Nat
  /\ \A A, B \in SUBSET Node : A \subseteq B => Cardinality(A) <= Cardinality(B)
  /\ \A n \in Node : Cardinality({n}) = 1
  /\ \A A \in SUBSET Node : \A n \in Node \ A : Cardinality(A \cup {n}) = Cardinality(A) + 1
  /\ \A A, B \in SUBSET Node :
       Cardinality(A) >= quorum /\ Cardinality(B) >= quorum => A \cap B # {}

LEMMA Smallest ==
  ASSUME SetFacts, NEW S \in SUBSET Nat, S # {}
  PROVE  Min(S) \in S /\ \A x \in S : Min(S) <= x
BY Zenon DEF SetFacts

LEMMA Largest ==
  ASSUME SetFacts, NEW S \in SUBSET Nat, S # {}, NEW b \in Nat, \A x \in S : x <= b
  PROVE  Max(S) \in S /\ \A x \in S : x <= Max(S)
BY Zenon DEF SetFacts

LEMMA Larger ==
  ASSUME SetFacts, NEW A \in SUBSET Node, NEW B \in SUBSET Node, A \subseteq B
  PROVE  /\ Cardinality(A) \in Nat /\ Cardinality(B) \in Nat
         /\ Cardinality(A) <= Cardinality(B)
BY Zenon DEF SetFacts

-----------------------------------------------------------------------------
(* Type correctness *)

(* Candidates and leaders are past term 0, and apply_committed has caught  *)
(* up with commit_index after every iteration of the event loop.           *)
TypeInv ==
  /\ TypeOK
  /\ \A n \in Node : role[n] # "Follower" => current_term[n] # 0
  /\ \A n \in Node : commit_index[n] <= Len(applied[n])

LEMMA InitTypeInv == Init => TypeInv
<1> SUFFICES ASSUME Init PROVE TypeInv
  BY Zenon
<1>1. TypeOK
  BY MaxTermAssumption DEF Init, TypeOK, PendingType, Term
<1> QED
  BY <1>1 DEF Init, TypeInv

(* The entries of l after the first k, up to c: a sequence that reaches c.  *)
LEMMA NewEntriesType ==
  ASSUME NEW S, NEW l \in Seq(S), NEW k \in Nat, NEW c \in Nat,
         c <= Len(l) \/ c <= k
  PROVE  SubSeq(l, k + 1, c) \in Seq(S) /\ c <= k + Len(SubSeq(l, k + 1, c))
<1>1. Len(l) \in Nat /\ DOMAIN l = 1..Len(l)
  OBVIOUS
<1>2. ASSUME NEW i \in k + 1 .. c PROVE l[i] \in S
  <2>1. i \in 1..Len(l)
    BY <1>1
  <2> QED
    BY <2>1
<1> QED
  BY <1>1, <1>2

(* What applying the log l up to commit leaves, when the entries up to     *)
(* commit are there or were applied before.                                *)
LEMMA ApplyType ==
  ASSUME TypeOK, NEW n \in Node, NEW l \in Seq(Entry), NEW commit \in Nat,
         commit <= Len(l) \/ commit <= Len(applied[n]),
         apply_committed(n, l, commit)
  PROVE  /\ applied' \in [Node -> Seq(Entry)]
         /\ \A p \in Node \ {n} : applied'[p] = applied[p]
         /\ commit <= Len(applied'[n])
         /\ replies' \subseteq Reply
         /\ PendingType'
<1> DEFINE a == applied[n]
           new == SubSeq(l, Len(a) + 1, commit)
<1>1. a \in Seq(Entry) /\ Len(a) \in Nat /\ Len(l) \in Nat
  BY DEF TypeOK
<1>2. \A i \in Len(a) + 1 .. commit : l[i] \in Entry
  BY <1>1
<1>3. new \in Seq(Entry) /\ commit <= Len(a) + Len(new)
  BY <1>1, NewEntriesType, Zenon
<1>4. a \o new \in Seq(Entry) /\ commit <= Len(a \o new)
  <2> HIDE DEF a, new
  <2>1. a \o new \in Seq(Entry) /\ Len(a \o new) = Len(a) + Len(new)
    BY <1>1, <1>3
  <2> QED
    BY <1>3, <2>1, Zenon
<1>5. applied' = [applied EXCEPT ![n] = a \o new]
  BY Zenon DEF apply_committed
<1>6. /\ applied' \in [Node -> Seq(Entry)] /\ commit <= Len(applied'[n])
      /\ \A p \in Node \ {n} : applied'[p] = applied[p]
  BY <1>4, <1>5, Zenon DEF TypeOK
<1>7. \A i \in DOMAIN pending[n] :
        Len(a) < i /\ i <= commit => l[i].command \in Command /\ pending[n][i] \in Command
  <2> SUFFICES ASSUME NEW i \in DOMAIN pending[n], Len(a) < i, i <= commit
               PROVE  l[i].command \in Command /\ pending[n][i] \in Command
    BY Zenon
  <2>1. i \in Nat /\ pending[n][i] \in Command
    BY Zenon DEF TypeOK, PendingType
  <2>2. l[i] \in Entry
    BY <1>1, <1>2, <2>1
  <2> QED
    BY <2>1, <2>2, Zenon DEF Entry
<1>8. replies' \subseteq Reply
  <2> SUFFICES ASSUME NEW r \in replies', r \notin replies PROVE r \in Reply
    BY Zenon DEF TypeOK
  <2>1. PICK i \in DOMAIN pending[n] :
          /\ Len(a) < i /\ i <= commit
          /\ r = [to |-> pending[n][i], kind |-> "applied", of |-> l[i].command]
    BY Zenon DEF apply_committed
  <2> QED
    BY <1>7, <2>1, Zenon DEF Reply
<1> DEFINE kept == DOMAIN pending[n] \
                     {i \in DOMAIN pending[n] : Len(a) < i /\ i <= commit}
<1>9. pending' = [pending EXCEPT ![n] = [i \in kept |-> pending[n][i]]]
  BY Zenon DEF apply_committed
<1>10. DOMAIN pending = Node
       /\ \A p \in Node : pending[p] = [i \in DOMAIN pending[p] |-> pending[p][i]]
  BY Zenon DEF TypeOK, PendingType
<1>11. \A p \in Node : pending'[p] = IF p = n THEN [i \in kept |-> pending[n][i]]
                                     ELSE pending[p]
  BY <1>9, <1>10, Zenon
<1>12. \A p \in Node : pending'[p] = [i \in DOMAIN pending'[p] |-> pending'[p][i]]
  BY <1>10, <1>11, Zenon
<1>13. pending' = [p \in Node |-> [i \in DOMAIN pending'[p] |-> pending'[p][i]]]
  BY <1>9, <1>10, <1>12, Zenon
<1>14. \A p \in Node : \A i \in DOMAIN pending'[p] :
           i \in Nat /\ pending'[p][i] \in Command
  <2> SUFFICES ASSUME NEW p \in Node, NEW i \in DOMAIN pending'[p]
               PROVE  i \in Nat /\ pending'[p][i] \in Command
    BY Zenon
  <2>1. i \in DOMAIN pending[p] /\ pending'[p][i] = pending[p][i]
    BY <1>11, Zenon
  <2> QED
    BY <2>1, Zenon DEF TypeOK, PendingType
<1> QED
  BY <1>6, <1>8, <1>13, <1>14, Zenon DEF PendingType

(* Merging entries into a log gives a log, no shorter than prev. *)
LEMMA MergeType ==
  ASSUME SetFacts, NEW l \in Seq(Entry), NEW prev \in Nat, prev <= Len(l), NEW e \in Seq(Entry)
  PROVE  append_new_entries(l, prev, e) \in Seq(Entry)
<1> DEFINE conflicts == {k \in 1..Len(e) : prev + k <= Len(l) /\ l[prev + k].term # e[k].term}
           kept == IF conflicts = {} THEN l ELSE SubSeq(l, 1, prev + Min(conflicts) - 1)
           new == SubSeq(e, Len(kept) - prev + 1, Len(e))
<1>1. Len(l) \in Nat /\ Len(e) \in Nat
  OBVIOUS
<1>2. kept \in Seq(Entry) /\ Len(kept) \in Nat /\ prev <= Len(kept)
  <2>1. CASE conflicts = {}
    BY <1>1, <2>1, Zenon
  <2>2. CASE conflicts # {}
    <3>1. Min(conflicts) \in conflicts
      <4>1. conflicts \in SUBSET Nat
        BY <1>1
      <4> QED
        BY <2>2, <4>1, Smallest, Zenon
    <3>2. Min(conflicts) \in 1..Len(e) /\ prev + Min(conflicts) <= Len(l)
      BY <3>1, Zenon
    <3> HIDE DEF conflicts
    <3>3. \A i \in 1 .. prev + Min(conflicts) - 1 : l[i] \in Entry
      BY <1>1, <3>2
    <3>4. prev + Min(conflicts) - 1 \in Nat
      BY <1>1, <3>2
    <3>5. /\ SubSeq(l, 1, prev + Min(conflicts) - 1) \in Seq(Entry)
          /\ Len(SubSeq(l, 1, prev + Min(conflicts) - 1)) = prev + Min(conflicts) - 1
      BY <3>3, <3>4
    <3> QED
      BY <1>1, <2>2, <3>2, <3>4, <3>5
  <2> QED
    BY <2>1, <2>2, Zenon
<1> HIDE DEF kept
<1>3. \A i \in Len(kept) - prev + 1 .. Len(e) : e[i] \in Entry
  BY <1>1, <1>2
<1>4. new \in Seq(Entry)
  BY <1>1, <1>2, <1>3
<1>5. kept \o new \in Seq(Entry)
  BY <1>2, <1>4
<1> QED
  BY <1>5, Zenon DEF append_new_entries, kept

(* try_advance_commit leaves commit_index or moves it to an index of the log. *)
LEMMA CommitType ==
  ASSUME SetFacts, TypeOK, NEW n \in Node, NEW mi
  PROVE  /\ try_advance_commit(n, mi) \in Nat
         /\ \/ try_advance_commit(n, mi) = commit_index[n]
            \/ try_advance_commit(n, mi) <= Len(log[n])
<1> DEFINE able == {i \in commit_index[n] + 1 .. last_log_index(log[n]) :
                      /\ log_term_at(log[n], i) = current_term[n]
                      /\ 1 + Cardinality({p \in Peers(n) : mi[p] >= i}) >= quorum}
<1>1. commit_index[n] \in Nat /\ Len(log[n]) \in Nat
  BY DEF TypeOK
<1>2. try_advance_commit(n, mi) = IF able = {} THEN commit_index[n] ELSE Max(able)
  BY Zenon DEF try_advance_commit
<1>3. able \in SUBSET Nat /\ \A i \in able : i <= Len(log[n])
  BY <1>1 DEF last_log_index
<1>4. able # {} => Max(able) \in able
  <2> HIDE DEF able
  <2> QED
    BY <1>1, <1>3, Largest, Zenon
<1> HIDE DEF able
<1> QED
  BY <1>1, <1>2, <1>3, <1>4, Zenon

(* A term a node may adopt keeps the types of what step_down writes. *)
LEMMA StepDownType ==
  ASSUME TypeInv, NEW n \in Node, NEW t \in Term, step_down(n, t)
  PROVE  /\ current_term' \in [Node -> Term]
         /\ voted_for' \in [Node -> Node \cup {None}]
         /\ role' \in [Node -> {"Follower", "Candidate", "Leader"}]
         /\ is_leader' \in [Node -> BOOLEAN]
         /\ votes_received' \in [Node -> Nat]
         /\ \A p \in Node : role'[p] # "Follower" => current_term'[p] # 0
<1>1. /\ current_term \in [Node -> Term] /\ voted_for \in [Node -> Node \cup {None}]
      /\ role \in [Node -> {"Follower", "Candidate", "Leader"}]
      /\ is_leader \in [Node -> BOOLEAN] /\ votes_received \in [Node -> Nat]
  BY Zenon DEF TypeInv, TypeOK
<1> QED
  BY <1>1, Zenon DEF TypeInv, step_down

(* The AppendEntries a leader builds from a log is well formed. *)
LEMMA AppendReqType ==
  ASSUME TypeOK, NEW n \in Node, NEW p \in Node, NEW l \in Seq(Entry)
  PROVE  AppendEntriesRpc(n, p, l) \in AppendReq
<1>1. /\ next_index[n][p] \in Nat \ {0} /\ current_term[n] \in Term
      /\ commit_index[n] \in Nat /\ Len(l) \in Nat
  BY DEF TypeOK
<1>2. \A i \in 1..Len(l) : l[i] \in Entry
  OBVIOUS
<1>3. log_term_at(l, next_index[n][p] - 1) \in Term
  BY <1>2, MaxTermAssumption DEF log_term_at, Entry, Term
<1>4. SubSeq(l, next_index[n][p], Len(l)) \in Seq(Entry)
  BY <1>1, <1>2
<1> QED
  BY <1>1, <1>3, <1>4 DEF AppendEntriesRpc, AppendReq

(* Pending proposals keep their type while they are left alone. *)
LEMMA PendingKept ==
  ASSUME TypeOK, pending' = pending
  PROVE  PendingType'
BY DEF TypeOK, PendingType

LEMMA LogTermType ==
  ASSUME NEW l \in Seq(Entry)
  PROVE  Len(l) \in Nat /\ last_log_term(l) \in Term
<1>1. \A i \in 1..Len(l) : l[i] \in Entry
  OBVIOUS
<1> QED
  BY <1>1, MaxTermAssumption DEF last_log_term, log_term_at, Entry, Term

-----------------------------------------------------------------------------
(* Each action keeps the types. *)

LEMMA StartElectionType ==
  ASSUME SetFacts, TypeInv, NEW n \in Node, start_election(n)
  PROVE  TypeInv'
<1> USE DEF nodeVars, logVars, leaderVars, clientVars, voteMsgs, appendMsgs, history
<1>ok. TypeOK
  BY Zenon DEF TypeInv
<1>1. current_term[n] + 1 \in Term /\ current_term[n] + 1 # 0
  <2>1. current_term[n] \in Term /\ current_term[n] < MaxTerm
    BY <1>ok, Zenon DEF start_election, TypeOK
  <2> QED
    BY <2>1, MaxTermAssumption DEF Term
<1>2. \A p \in Node : [term |-> current_term[n] + 1, candidate_id |-> n, to |-> p,
                       last_log_index |-> last_log_index(log[n]),
                       last_log_term |-> last_log_term(log[n])] \in VoteReq
  BY <1>ok, LogTermType, <1>1, Zenon DEF TypeOK, VoteReq, last_log_index
<1>3. vote_reqs' \subseteq VoteReq
  BY <1>ok, <1>2, Zenon DEF start_election, Peers, TypeOK
<1>4. votes' \subseteq Vote
  BY <1>ok, <1>1, SMTT(40) DEF start_election, TypeOK, Vote
<1>5. TypeOK'
  BY <1>ok, PendingKept, <1>1, <1>3, <1>4, Zenon DEF start_election, TypeOK
<1> QED
  BY <1>ok, <1>1, <1>5, Zenon DEF start_election, TypeInv, TypeOK

LEMMA HeartbeatsType ==
  ASSUME SetFacts, TypeInv, NEW n \in Node, send_heartbeats(n)
  PROVE  TypeInv'
<1> USE DEF nodeVars, logVars, leaderVars, clientVars, voteMsgs, appendMsgs, history
<1>ok. TypeOK
  BY Zenon DEF TypeInv
<1>0. log[n] \in Seq(Entry) /\ append_reqs \subseteq AppendReq
  BY <1>ok, Zenon DEF TypeOK
<1>1. append_reqs' \subseteq AppendReq
  BY <1>ok, <1>0, AppendReqType, Zenon DEF send_heartbeats, send_append_entries, Peers
<1>2. TypeOK'
  BY <1>ok, PendingKept, <1>1, Zenon DEF send_heartbeats, TypeOK
<1> QED
  BY <1>2, Zenon DEF send_heartbeats, TypeInv

LEMMA RequestVoteType ==
  ASSUME SetFacts, TypeInv, NEW n \in Node, NEW m \in vote_reqs, handle_request_vote(n, m)
  PROVE  TypeInv'
<1> USE DEF nodeVars, logVars, leaderVars, clientVars, voteMsgs, appendMsgs, history
<1>ok. TypeOK
  BY Zenon DEF TypeInv
<1>1. m.term \in Term /\ m.candidate_id \in Node
  BY <1>ok, Zenon DEF TypeOK, VoteReq
<1>2. current_term' \in [Node -> Term] /\ role' \in [Node -> {"Follower", "Candidate", "Leader"}]
      /\ is_leader' \in [Node -> BOOLEAN]
      /\ \A p \in Node : role'[p] # "Follower" => current_term'[p] # 0
  BY <1>ok, <1>1, Zenon DEF handle_request_vote, TypeInv, TypeOK
<1>3. voted_for' \in [Node -> Node \cup {None}]
  BY <1>ok, <1>1, Zenon DEF handle_request_vote, TypeOK
<1>4. vote_reqs' \subseteq VoteReq /\ vote_resps' \subseteq VoteResp
  <2>1. PICK g \in BOOLEAN : g = can_grant(n, m)
    BY Zenon DEF can_grant
  <2>2. vote_resps' = vote_resps \cup
          {[from |-> n, to |-> m.candidate_id, term |-> current_term'[n], vote_granted |-> g]}
    BY <2>1, Zenon DEF handle_request_vote
  <2>3. vote_reqs' = vote_reqs \ {m}
    BY Zenon DEF handle_request_vote
  <2>4. [from |-> n, to |-> m.candidate_id, term |-> current_term'[n], vote_granted |-> g]
          \in VoteResp
    BY <1>1, <1>2, Zenon DEF VoteResp
  <2>5. vote_reqs \subseteq VoteReq /\ vote_resps \subseteq VoteResp
    BY <1>ok, Zenon DEF TypeOK
  <2> QED
    BY <2>2, <2>3, <2>4, <2>5, Zenon
<1>5. votes' \subseteq Vote
  <2>1. [voter |-> n, term |-> m.term, for |-> m.candidate_id] \in Vote
    BY <1>1, Zenon DEF Vote
  <2>2. votes' \in {votes, votes \cup {[voter |-> n, term |-> m.term, for |-> m.candidate_id]}}
    BY Zenon DEF handle_request_vote
  <2> QED
    BY <1>ok, <2>1, <2>2, Zenon DEF TypeOK
<1>6. TypeOK'
  BY <1>ok, PendingKept, <1>2, <1>3, <1>4, <1>5, Zenon DEF handle_request_vote, TypeOK
<1> QED
  BY <1>2, <1>6, Zenon DEF handle_request_vote, TypeInv

LEMMA VoteResponseType ==
  ASSUME SetFacts, TypeInv, NEW n \in Node, NEW m \in vote_resps, handle_vote_response(n, m)
  PROVE  TypeInv'
<1> USE DEF nodeVars, logVars, leaderVars, clientVars, voteMsgs, appendMsgs, history
<1>ok. TypeOK
  BY Zenon DEF TypeInv
<1>1. m.term \in Term /\ vote_resps' \subseteq VoteResp
  BY <1>ok, Zenon DEF TypeOK, VoteResp, handle_vote_response
<1>2. UNCHANGED <<logVars, clientVars, vote_reqs, appendMsgs, votes>>
  BY Zenon DEF handle_vote_response
<1>3. CASE step_down(n, m.term) /\ UNCHANGED <<leaderVars, leader_hints, leader_log>>
  <2>1. TypeOK'
    BY <1>ok, PendingKept, <1>1, <1>2, <1>3, StepDownType, Zenon DEF TypeOK
  <2> QED
    BY <1>1, <1>2, <1>3, <2>1, StepDownType, Zenon DEF TypeInv
<1>4. CASE UNCHANGED <<nodeVars, leaderVars, leader_hints, leader_log>>
  <2>1. TypeOK'
    BY <1>ok, PendingKept, <1>1, <1>2, <1>4, Zenon DEF TypeOK
  <2> QED
    BY <1>2, <1>4, <2>1, Zenon DEF TypeInv
<1>5. CASE /\ role[n] = "Candidate"
           /\ votes_received' = [votes_received EXCEPT ![n] = @ + 1]
           /\ UNCHANGED <<current_term, voted_for>>
           /\ \/ become_leader(n)
              \/ UNCHANGED <<role, is_leader, leaderVars, leader_hints, leader_log>>
  <2>1. votes_received' \in [Node -> Nat]
    BY <1>ok, <1>5 DEF TypeOK
  <2>2. current_term[n] \in Term \ {0}
    BY <1>ok, <1>5, Zenon DEF TypeInv, TypeOK
  <2>3. CASE become_leader(n)
    <3>1. Len(log[n]) \in Nat /\ log[n] \in Seq(Entry)
      BY <1>ok DEF TypeOK
    <3>2. /\ next_index' \in [Node -> [Node -> Nat \ {0}]]
          /\ match_index' \in [Node -> [Node -> Nat]]
      <4>1. /\ next_index \in [Node -> [Node -> Nat \ {0}]]
            /\ match_index \in [Node -> [Node -> Nat]]
        BY <1>ok, Zenon DEF TypeOK
      <4>2. /\ [p \in Node |-> IF p \in Peers(n) THEN last_log_index(log[n]) + 1
                              ELSE next_index[n][p]] \in [Node -> Nat \ {0}]
            /\ [p \in Node |-> IF p \in Peers(n) THEN 0
                              ELSE match_index[n][p]] \in [Node -> Nat]
        BY <3>1, <4>1 DEF last_log_index
      <4> QED
        BY <2>3, <4>1, <4>2, Zenon DEF become_leader
    <3>3. /\ role' \in [Node -> {"Follower", "Candidate", "Leader"}]
          /\ is_leader' \in [Node -> BOOLEAN]
          /\ leader_hints' \in [Node -> SUBSET Node]
          /\ leader_log' \in [Term \ {0} -> Seq(Entry)]
          /\ \A p \in Node : role'[p] # "Follower" => current_term'[p] # 0
      <4>1. /\ role \in [Node -> {"Follower", "Candidate", "Leader"}]
            /\ is_leader \in [Node -> BOOLEAN]
            /\ leader_hints \in [Node -> SUBSET Node]
            /\ leader_log \in [Term \ {0} -> Seq(Entry)]
        BY <1>ok, Zenon DEF TypeOK
      <4>2. /\ role' \in [Node -> {"Follower", "Candidate", "Leader"}]
            /\ is_leader' \in [Node -> BOOLEAN]
            /\ \A p \in Node \ {n} : role'[p] = role[p]
        BY <2>3, <4>1, Zenon DEF become_leader
      <4>3. leader_log' \in [Term \ {0} -> Seq(Entry)]
        BY <2>2, <2>3, <3>1, <4>1, Zenon DEF become_leader
      <4>4. leader_hints' \in [Node -> SUBSET Node]
        BY <2>3, <4>1, Zenon DEF become_leader, set_leader
      <4>5. \A p \in Node : role'[p] # "Follower" => current_term'[p] # 0
        BY <1>ok, <1>5, <2>2, <4>2, Zenon DEF TypeInv
      <4> QED
        BY <4>2, <4>3, <4>4, <4>5, Zenon
    <3>4. TypeOK'
      BY <1>ok, PendingKept, <1>1, <1>2, <1>5, <2>1, <3>2, <3>3, Zenon DEF TypeOK
    <3> QED
      BY <1>2, <3>3, <3>4, Zenon DEF TypeInv
  <2>4. CASE UNCHANGED <<role, is_leader, leaderVars, leader_hints, leader_log>>
    <3>1. TypeOK'
      BY <1>ok, PendingKept, <1>1, <1>2, <1>5, <2>1, <2>4, Zenon DEF TypeOK
    <3> QED
      BY <1>2, <1>5, <2>4, <3>1, Zenon DEF TypeInv
  <2> QED
    BY <1>5, <2>3, <2>4, Zenon
<1> QED
  BY <1>3, <1>4, <1>5, Zenon DEF handle_vote_response

LEMMA AppendEntriesType ==
  ASSUME SetFacts, TypeInv, NEW n \in Node, NEW m \in append_reqs, handle_append_entries(n, m)
  PROVE  TypeInv'
<1> USE DEF nodeVars, logVars, leaderVars, clientVars, voteMsgs, appendMsgs, history
<1>ok. TypeOK
  BY Zenon DEF TypeInv
<1>1. /\ m.term \in Term /\ m.leader_id \in Node /\ m.prev_log_index \in Nat
      /\ m.entries \in Seq(Entry) /\ m.leader_commit \in Nat
  BY <1>ok, Zenon DEF TypeOK, AppendReq
<1>2. UNCHANGED <<leaderVars, proposal_rx, issued, voteMsgs, append_reqs, history>>
  BY Zenon DEF handle_append_entries
<1>3. ASSUME NEW t \in Term, NEW s \in BOOLEAN, NEW mi \in Nat,
             AppendEntriesResp(n, m, t, s, mi)
      PROVE  append_resps' \subseteq AppendResp
  <2>1. [from |-> n, to |-> m.leader_id, term |-> t, success |-> s, match_index |-> mi]
          \in AppendResp
    BY <1>1, Zenon DEF AppendResp
  <2>2. append_resps \subseteq AppendResp
    BY <1>ok, Zenon DEF TypeOK
  <2> QED
    BY <1>3, <2>1, <2>2, Zenon DEF AppendEntriesResp
<1>4. set_leader(n, m.leader_id) => leader_hints' \in [Node -> SUBSET Node]
  <2>1. leader_hints \in [Node -> SUBSET Node]
    BY <1>ok, Zenon DEF TypeOK
  <2> QED
    BY <1>1, <2>1 DEF set_leader
<1>5. CASE /\ AppendEntriesResp(n, m, current_term[n], FALSE, 0)
           /\ UNCHANGED <<nodeVars, logVars, leader_hints, pending, replies>>
  <2>1. append_resps' \subseteq AppendResp
    BY <1>ok, <1>3, <1>5, Zenon DEF TypeOK
  <2>2. TypeOK'
    BY <1>ok, PendingKept, <1>2, <1>5, <2>1, Zenon DEF TypeOK
  <2> QED
    BY <1>5, <2>2, Zenon DEF TypeInv
<1>6. CASE /\ step_down(n, m.term) /\ set_leader(n, m.leader_id)
           /\ AppendEntriesResp(n, m, m.term, FALSE, 0)
           /\ UNCHANGED <<logVars, pending, replies>>
  <2>1. append_resps' \subseteq AppendResp
    BY <1>1, <1>3, <1>6, Zenon
  <2>2. TypeOK'
    BY <1>ok, PendingKept, <1>1, <1>2, <1>4, <1>6, <2>1, StepDownType, Zenon DEF TypeOK
  <2> QED
    BY <1>1, <1>6, <2>2, StepDownType, Zenon DEF TypeInv
<1> DEFINE l == append_new_entries(log[n], m.prev_log_index, m.entries)
           commit == IF m.leader_commit > commit_index[n]
                     THEN Min({m.leader_commit, last_log_index(l)})
                     ELSE commit_index[n]
<1>7. CASE /\ prev_log_ok(log[n], m)
           /\ step_down(n, m.term) /\ set_leader(n, m.leader_id)
           /\ log' = [log EXCEPT ![n] = l]
           /\ commit_index' = [commit_index EXCEPT ![n] = commit]
           /\ AppendEntriesResp(n, m, m.term, TRUE, reported_match(m, l))
           /\ apply_committed(n, l, commit)
  <2>1. log[n] \in Seq(Entry) /\ m.prev_log_index <= Len(log[n]) /\ commit_index[n] \in Nat
    <3>1. log[n] \in Seq(Entry) /\ commit_index[n] \in Nat
      BY <1>ok, Zenon DEF TypeOK
    <3>2. m.prev_log_index <= Len(log[n])
      <4>1. prev_log_ok(log[n], m)
        BY <1>7, Zenon
      <4>2. m.prev_log_index \in Nat /\ Len(log[n]) \in Nat
        BY <1>1, <3>1
      <4> QED
        BY <4>1, <4>2 DEF prev_log_ok
    <3> QED
      BY <3>1, <3>2, Zenon
  <2>2. l \in Seq(Entry) /\ Len(l) \in Nat
    <3>1. l \in Seq(Entry)
      BY <1>1, <2>1, MergeType, Zenon
    <3> HIDE DEF l
    <3> QED
      BY <3>1
  <2> HIDE DEF l
  <2>3. commit \in Nat /\ (commit <= Len(l) \/ commit = commit_index[n])
    <3>1. Min({m.leader_commit, Len(l)}) \in Nat /\ Min({m.leader_commit, Len(l)}) <= Len(l)
      BY <1>1, <2>2, Smallest, Zenon
    <3> QED
      BY <2>1, <3>1, Zenon DEF last_log_index
  <2> HIDE DEF commit
  <2>4. commit <= Len(l) \/ commit <= Len(applied[n])
    BY <2>3, Zenon DEF TypeInv
  <2>5. /\ applied' \in [Node -> Seq(Entry)]
        /\ \A p \in Node \ {n} : applied'[p] = applied[p]
        /\ commit <= Len(applied'[n])
        /\ replies' \subseteq Reply
        /\ PendingType'
    BY <1>ok, <1>7, <2>2, <2>3, <2>4, ApplyType, Zenon
  <2>6. append_resps' \subseteq AppendResp
    BY <1>1, <1>3, <1>7, <2>2, Zenon DEF reported_match, last_log_index
  <2>7. log' \in [Node -> Seq(Entry)] /\ commit_index' \in [Node -> Nat]
    BY <1>ok, <1>7, <2>2, <2>3, Zenon DEF TypeOK
  <2>8. \A p \in Node : commit_index'[p] <= Len(applied'[p])
    BY <1>ok, <1>7, <2>5, Zenon DEF TypeInv, TypeOK
  <2>9. TypeOK'
    BY <1>ok, <1>1, <1>2, <1>4, <1>7, <2>5, <2>6, <2>7, StepDownType, Zenon DEF TypeOK
  <2> QED
    BY <1>1, <1>7, <2>8, <2>9, StepDownType, Zenon DEF TypeInv
<1> QED
  BY <1>5, <1>6, <1>7, Zenon DEF handle_append_entries

LEMMA AppendResponseType ==
  ASSUME SetFacts, TypeInv, NEW n \in Node, NEW m \in append_resps, handle_append_response(n, m)
  PROVE  TypeInv'
<1> USE DEF nodeVars, logVars, leaderVars, clientVars, voteMsgs, appendMsgs, history
<1>ok. TypeOK
  BY Zenon DEF TypeInv
<1>1. m.term \in Term /\ m.from \in Node /\ m.match_index \in Nat
  BY <1>ok, Zenon DEF TypeOK, AppendResp
<1>2. UNCHANGED <<proposal_rx, issued, voteMsgs, appendMsgs, leader_hints, history>>
  BY Zenon DEF handle_append_response
<1>3. /\ next_index \in [Node -> [Node -> Nat \ {0}]]
      /\ match_index \in [Node -> [Node -> Nat]]
      /\ log[n] \in Seq(Entry) /\ commit_index[n] \in Nat
  BY <1>ok, Zenon DEF TypeOK
<1>4. CASE step_down(n, m.term) /\ UNCHANGED <<leaderVars, logVars, pending, replies>>
  <2>1. TypeOK'
    BY <1>ok, PendingKept, <1>1, <1>2, <1>4, StepDownType, Zenon DEF TypeOK
  <2> QED
    BY <1>1, <1>4, <2>1, StepDownType, Zenon DEF TypeInv
<1> DEFINE commit == try_advance_commit(n, match_index'[n])
<1>5. CASE /\ next_index' = [next_index EXCEPT ![n][m.from] = m.match_index + 1]
           /\ match_index' = [match_index EXCEPT ![n][m.from] = m.match_index]
           /\ commit_index' = [commit_index EXCEPT ![n] = commit]
           /\ apply_committed(n, log[n], commit)
           /\ UNCHANGED <<nodeVars, log>>
  <2>1. commit \in Nat /\ (commit <= Len(log[n]) \/ commit = commit_index[n])
    BY <1>ok, CommitType, Zenon
  <2> HIDE DEF commit
  <2>2. commit <= Len(log[n]) \/ commit <= Len(applied[n])
    BY <2>1, Zenon DEF TypeInv
  <2>3. /\ applied' \in [Node -> Seq(Entry)]
        /\ \A p \in Node \ {n} : applied'[p] = applied[p]
        /\ commit <= Len(applied'[n])
        /\ replies' \subseteq Reply
        /\ PendingType'
    BY <1>ok, <1>3, <1>5, <2>1, <2>2, ApplyType, Zenon
  <2>4. /\ next_index' \in [Node -> [Node -> Nat \ {0}]]
        /\ match_index' \in [Node -> [Node -> Nat]]
    BY <1>1, <1>3, <1>5, SMTT(40)
  <2>5. commit_index' \in [Node -> Nat]
    BY <1>ok, <1>5, <2>1, Zenon DEF TypeOK
  <2>6. \A p \in Node : commit_index'[p] <= Len(applied'[p])
    BY <1>ok, <1>5, <2>3, Zenon DEF TypeInv, TypeOK
  <2>7. TypeOK'
    BY <1>ok, <1>2, <1>5, <2>3, <2>4, <2>5, Zenon DEF TypeOK
  <2> QED
    BY <1>5, <2>6, <2>7, Zenon DEF TypeInv
<1>6. CASE /\ next_index' = [next_index EXCEPT ![n][m.from] = backed_up(@)]
           /\ UNCHANGED <<nodeVars, match_index, logVars, pending, replies>>
  <2>1. next_index' \in [Node -> [Node -> Nat \ {0}]]
    BY <1>1, <1>3, <1>6, SMTT(40) DEF backed_up
  <2>2. TypeOK'
    BY <1>ok, PendingKept, <1>2, <1>6, <2>1, Zenon DEF TypeOK
  <2> QED
    BY <1>6, <2>2, Zenon DEF TypeInv
<1> QED
  BY <1>4, <1>5, <1>6, Zenon DEF handle_append_response

LEMMA ExecuteType ==
  ASSUME SetFacts, TypeInv, NEW n \in Node, NEW c \in Command, execute(n, c)
  PROVE  TypeInv'
<1> USE DEF nodeVars, logVars, leaderVars, clientVars, voteMsgs, appendMsgs, history
<1>ok. TypeOK
  BY Zenon DEF TypeInv
<1>1. proposal_rx' \in [Node -> Seq(Command)]
  <2>1. proposal_rx \in [Node -> Seq(Command)]
    BY <1>ok, Zenon DEF TypeOK
  <2> QED
    BY <2>1 DEF execute
<1>2. TypeOK'
  BY <1>ok, PendingKept, <1>1, Zenon DEF execute, TypeOK
<1> QED
  BY <1>2, Zenon DEF execute, TypeInv

LEMMA ProposalType ==
  ASSUME SetFacts, TypeInv, NEW n \in Node, append_proposal(n)
  PROVE  TypeInv'
<1> USE DEF nodeVars, logVars, leaderVars, clientVars, voteMsgs, appendMsgs, history
<1>ok. TypeOK
  BY Zenon DEF TypeInv
<1> DEFINE c == Head(proposal_rx[n])
           l == Append(log[n], [term |-> current_term[n], command |-> c])
           index == Len(l)
<1>1. /\ UNCHANGED <<nodeVars, commit_index, applied, leaderVars, voteMsgs,
                     append_resps, leader_hints, votes>>
      /\ proposal_rx[n] # <<>> /\ proposal_rx' = [proposal_rx EXCEPT ![n] = Tail(@)]
  BY Zenon DEF append_proposal
<1>2. c \in Command /\ proposal_rx' \in [Node -> Seq(Command)]
  <2>1. proposal_rx \in [Node -> Seq(Command)]
    BY <1>ok, Zenon DEF TypeOK
  <2>2. c \in Command /\ Tail(proposal_rx[n]) \in Seq(Command)
    BY <1>1, <2>1
  <2> QED
    BY <1>1, <2>1, <2>2, Zenon
<1> HIDE DEF c
<1>3. CASE /\ role[n] = "Leader"
           /\ log' = [log EXCEPT ![n] = l]
           /\ pending' = [pending EXCEPT ![n] =
                [i \in DOMAIN @ \cup {index} |-> IF i = index THEN c ELSE @[i]]]
           /\ replies' = replies \cup
                {[to |-> pending[n][i], kind |-> "dropped", of |-> pending[n][i]] :
                   i \in {index} \cap DOMAIN pending[n]}
           /\ send_append_entries(n, l)
           /\ leader_log' = [leader_log EXCEPT ![current_term[n]] = l]
           /\ UNCHANGED issued
  <2>1. current_term[n] \in Term \ {0} /\ log[n] \in Seq(Entry)
    BY <1>ok, <1>3, Zenon DEF TypeInv, TypeOK
  <2>2. [term |-> current_term[n], command |-> c] \in Entry
    BY <1>2, <2>1, Zenon DEF Entry
  <2>3. l \in Seq(Entry) /\ index \in Nat
    BY <2>1, <2>2
  <2> HIDE DEF l, index
  <2>4. append_reqs' \subseteq AppendReq
    <3>1. append_reqs \subseteq AppendReq
      BY <1>ok, Zenon DEF TypeOK
    <3> QED
      BY <1>ok, <1>3, <2>3, <3>1, AppendReqType, Zenon DEF send_append_entries, Peers
  <2>5. /\ DOMAIN pending = Node
        /\ \A p \in Node : pending[p] = [i \in DOMAIN pending[p] |-> pending[p][i]]
        /\ \A p \in Node : \A i \in DOMAIN pending[p] : i \in Nat /\ pending[p][i] \in Command
    BY <1>ok, Zenon DEF TypeOK, PendingType
  <2>6. PendingType'
    <3> DEFINE f == [i \in DOMAIN pending[n] \cup {index} |->
                       IF i = index THEN c ELSE pending[n][i]]
    <3>1. \A p \in Node : pending'[p] = IF p = n THEN f ELSE pending[p]
      BY <1>3, <2>5, Zenon
    <3>2. \A p \in Node : pending'[p] = [i \in DOMAIN pending'[p] |-> pending'[p][i]]
      BY <2>5, <3>1, Zenon
    <3>3. pending' = [p \in Node |-> [i \in DOMAIN pending'[p] |-> pending'[p][i]]]
      BY <1>3, <2>5, <3>2, Zenon
    <3>4. \A i \in DOMAIN f : i \in Nat /\ f[i] \in Command
      BY <1>2, <2>3, <2>5, Zenon
    <3>5. \A p \in Node : \A i \in DOMAIN pending'[p] : i \in Nat /\ pending'[p][i] \in Command
      BY <2>5, <3>1, <3>4, Zenon
    <3> QED
      BY <3>3, <3>5, Zenon DEF PendingType
  <2>7. replies' \subseteq Reply
    <3>1. \A i \in DOMAIN pending[n] :
            [to |-> pending[n][i], kind |-> "dropped", of |-> pending[n][i]] \in Reply
      BY <2>5, Zenon DEF Reply
    <3>2. replies \subseteq Reply
      BY <1>ok, Zenon DEF TypeOK
    <3> QED
      BY <1>3, <3>1, <3>2, Zenon
  <2>8. log' \in [Node -> Seq(Entry)] /\ leader_log' \in [Term \ {0} -> Seq(Entry)]
    BY <1>ok, <1>3, <2>1, <2>3, Zenon DEF TypeOK
  <2>9. TypeOK'
    BY <1>ok, <1>1, <1>2, <1>3, <2>4, <2>6, <2>7, <2>8, Zenon DEF TypeOK
  <2> QED
    BY <1>1, <2>9, Zenon DEF TypeInv
<1>4. CASE /\ issued' = issued \ {c}
           /\ UNCHANGED <<log, pending, replies, append_reqs, leader_log>>
  <2>1. TypeOK'
    BY <1>ok, PendingKept, <1>1, <1>2, <1>4, Zenon DEF TypeOK
  <2> QED
    BY <1>1, <2>1, Zenon DEF TypeInv
<1> QED
  BY <1>3, <1>4, Zenon DEF append_proposal, c

LEMMA NextTypeInv ==
  ASSUME SetFacts, TypeInv, [Next]_vars
  PROVE  TypeInv'
<1>1. CASE UNCHANGED vars
  <2> USE DEF nodeVars, logVars, leaderVars, clientVars, voteMsgs, appendMsgs, history
  <2>1. TypeOK
    BY Zenon DEF TypeInv
  <2>2. TypeOK'
    BY <1>1, <2>1, PendingKept, Zenon DEF TypeOK, vars
  <2> QED
    BY <1>1, <2>2, Zenon DEF TypeInv, vars
<1> QED
  BY <1>1, StartElectionType, HeartbeatsType, RequestVoteType, VoteResponseType,
     AppendEntriesType, AppendResponseType, ExecuteType, ProposalType, Zenon DEF Next

-----------------------------------------------------------------------------
(***************************************************************************)
(* Election safety of Raft, for every group of nodes.                      *)
(*                                                                         *)
(* The code counts granted answers without looking at their sender, so the *)
(* count is tied to real votes by the messages: one RequestVote per peer,  *)
(* term and candidate is in flight at most once, it is answered once, and  *)
(* a granted answer that is still in flight has not been counted.          *)
(***************************************************************************)

Ballot(v, t, c) == [voter |-> v, term |-> t, for |-> c]

Granted(v, t, c) == [from |-> v, to |-> c, term |-> t, vote_granted |-> TRUE]

(* The voters whose granted answer candidate c has already counted. *)
Counted(c) ==
  {v \in VotersFor(c, current_term[c]) : Granted(v, current_term[c], c) \notin vote_resps}

(* A vote belongs to a term its voter and its candidate have reached, and  *)
(* a voter still in that term remembers it.                                *)
VotesRemembered ==
  \A v \in votes :
    /\ v.term >= 1
    /\ v.term <= current_term[v.voter] /\ v.term <= current_term[v.for]
    /\ v.term = current_term[v.voter] => voted_for[v.voter] = v.for

(* A RequestVote in flight is unanswered and the only one of its kind. *)
RequestsFresh ==
  /\ \A m \in vote_reqs :
       /\ m.term >= 1 /\ m.term <= current_term[m.candidate_id]
       /\ m.to # m.candidate_id
       /\ Ballot(m.to, m.term, m.candidate_id) \notin votes
  /\ \A m1, m2 \in vote_reqs :
       m1.to = m2.to /\ m1.term = m2.term /\ m1.candidate_id = m2.candidate_id => m1 = m2

(* A granted answer stands for a vote of another node. *)
GrantsBacked ==
  \A r \in vote_resps :
    r.vote_granted => r.from # r.to /\ Ballot(r.from, r.term, r.to) \in votes

(* A candidate has counted no more votes than it was given. *)
CountBacked ==
  \A c \in Node : role[c] = "Candidate" => votes_received[c] <= Cardinality(Counted(c))

(* Leaders, and the senders of AppendEntries, were elected. *)
LeadersElected == \A c \in Node : role[c] = "Leader" => Elected(c, current_term[c])

SendersElected ==
  \A m \in append_reqs :
    m.term >= 1 /\ m.to # m.leader_id /\ Elected(m.leader_id, m.term)

ElectionInv ==
  /\ TypeInv
  /\ OneVotePerTerm /\ VotesRemembered /\ RequestsFresh /\ GrantsBacked
  /\ CountBacked /\ LeadersElected /\ SendersElected /\ HintWasLeader

-----------------------------------------------------------------------------
(* An election is not undone by further votes. *)
LEMMA MoreVotes ==
  ASSUME SetFacts, votes \subseteq votes', NEW c, NEW t, Elected(c, t)
  PROVE  Elected(c, t)'
<1>1. /\ VotersFor(c, t) \subseteq VotersFor(c, t)'
      /\ VotersFor(c, t) \in SUBSET Node /\ VotersFor(c, t)' \in SUBSET Node
  BY Zenon DEF VotersFor
<1>2. /\ Cardinality(VotersFor(c, t)) \in Nat
      /\ Cardinality(VotersFor(c, t)') \in Nat
      /\ Cardinality(VotersFor(c, t)) <= Cardinality(VotersFor(c, t)')
  BY <1>1, Larger, Zenon
<1>3. quorum \in Nat
  BY Zenon DEF SetFacts
<1> QED
  BY <1>2, <1>3 DEF Elected

(* Terms are natural numbers, before and after a step. *)
LEMMA TermsNat ==
  ASSUME TypeOK, TypeOK'
  PROVE  /\ current_term \in [Node -> Nat] /\ current_term' \in [Node -> Nat]
         /\ voted_for \in [Node -> Node \cup {None}]
         /\ \A v \in votes : v.voter \in Node /\ v.for \in Node /\ v.term \in Nat
         /\ \A m \in vote_reqs : m.to \in Node /\ m.candidate_id \in Node /\ m.term \in Nat
<1>1. Term \subseteq Nat
  BY MaxTermAssumption DEF Term
<1>2. /\ current_term \in [Node -> Term] /\ current_term' \in [Node -> Term]
      /\ voted_for \in [Node -> Node \cup {None}]
      /\ votes \subseteq Vote /\ vote_reqs \subseteq VoteReq
  BY Zenon DEF TypeOK
<1> QED
  BY <1>1, <1>2, Zenon DEF Vote, VoteReq

(* In a step no term falls, and a node that keeps its term keeps its vote  *)
(* or gives the one it had not given.                                      *)
TermsGrow ==
  \A p \in Node :
    /\ current_term[p] <= current_term'[p]
    /\ current_term'[p] = current_term[p] => voted_for[p] \in {None, voted_for'[p]}

(* In a step no one becomes a candidate or a leader, or counts a vote. *)
NoneRises ==
  \A p \in Node :
    role'[p] # "Follower" =>
      /\ role'[p] = role[p] /\ current_term'[p] = current_term[p]
      /\ votes_received'[p] = votes_received[p]

(* Votes stay remembered, when the new ones are. *)
LEMMA VotesKept ==
  ASSUME TypeOK, TypeOK', VotesRemembered, TermsGrow,
         \A v \in votes' \ votes :
           /\ v.term >= 1 /\ v.term <= current_term'[v.voter] /\ v.term <= current_term'[v.for]
           /\ voted_for'[v.voter] = v.for
  PROVE  VotesRemembered'
<1> SUFFICES ASSUME NEW v \in votes
             PROVE  /\ v.term >= 1
                    /\ v.term <= current_term'[v.voter] /\ v.term <= current_term'[v.for]
                    /\ v.term = current_term'[v.voter] => voted_for'[v.voter] = v.for
  BY Zenon DEF VotesRemembered
<1>1. v.voter \in Node /\ v.for \in Node /\ v.term \in Nat /\ v.for # None
  BY TermsNat, NoneAssumption, Zenon
<1>2. /\ v.term >= 1
      /\ v.term <= current_term[v.voter] /\ v.term <= current_term[v.for]
      /\ v.term = current_term[v.voter] => voted_for[v.voter] = v.for
  BY Zenon DEF VotesRemembered
<1>3. \A p \in Node : current_term[p] \in Nat /\ current_term'[p] \in Nat
  BY TermsNat, Zenon
<1> QED
  BY <1>1, <1>2, <1>3 DEF TermsGrow

(* Requests stay fresh as terms grow, while no vote answers one of them. *)
LEMMA RequestsKept ==
  ASSUME TypeOK, TypeOK', RequestsFresh, TermsGrow, vote_reqs' \subseteq vote_reqs,
         \A r \in vote_reqs' : Ballot(r.to, r.term, r.candidate_id) \notin votes' \ votes
  PROVE  RequestsFresh'
<1>1. ASSUME NEW r \in vote_reqs'
      PROVE  r.term <= current_term'[r.candidate_id]
  <2>1. r.candidate_id \in Node /\ r.term \in Nat /\ r.term <= current_term[r.candidate_id]
    BY TermsNat, Zenon DEF RequestsFresh
  <2>2. \A p \in Node : current_term[p] \in Nat /\ current_term'[p] \in Nat
    BY TermsNat, Zenon
  <2> QED
    BY <2>1, <2>2 DEF TermsGrow
<1> QED
  BY <1>1, Zenon DEF RequestsFresh

(* What candidates counted stays counted while votes are only added and no *)
(* new grant concerns a counted vote.                                      *)
LEMMA CountKept ==
  ASSUME SetFacts, TypeOK, CountBacked, votes \subseteq votes',
         NEW c \in Node, role[c] = "Candidate",
         current_term'[c] = current_term[c], votes_received'[c] = votes_received[c],
         \A v \in Counted(c) : Granted(v, current_term[c], c) \notin vote_resps'
  PROVE  votes_received'[c] <= Cardinality(Counted(c)')
<1>1. /\ Counted(c) \subseteq Counted(c)'
      /\ Counted(c) \in SUBSET Node /\ Counted(c)' \in SUBSET Node
  BY Zenon DEF Counted, VotersFor
<1>2. /\ Cardinality(Counted(c)) \in Nat /\ Cardinality(Counted(c)') \in Nat
      /\ Cardinality(Counted(c)) <= Cardinality(Counted(c)')
  BY <1>1, Larger, Zenon
<1>3. votes_received[c] \in Nat /\ votes_received[c] <= Cardinality(Counted(c))
  BY Zenon DEF TypeOK, CountBacked
<1> QED
  BY <1>2, <1>3

LEMMA CountsKept ==
  ASSUME SetFacts, TypeOK, CountBacked, votes \subseteq votes', NoneRises,
         \A c \in Node : \A v \in Counted(c) : Granted(v, current_term[c], c) \notin vote_resps'
  PROVE  CountBacked'
<1> SUFFICES ASSUME NEW c \in Node, role'[c] = "Candidate"
             PROVE  votes_received'[c] <= Cardinality(Counted(c)')
  BY Zenon DEF CountBacked
<1>1. /\ role[c] = "Candidate" /\ current_term'[c] = current_term[c]
      /\ votes_received'[c] = votes_received[c]
  BY Zenon DEF NoneRises
<1> QED
  BY <1>1, CountKept, Zenon

(* Leaders that stay leaders in their term stay elected. *)
LEMMA LeadersKept ==
  ASSUME SetFacts, LeadersElected, votes \subseteq votes',
         \A c \in Node : role'[c] = "Leader" =>
                           role[c] = "Leader" /\ current_term'[c] = current_term[c]
  PROVE  LeadersElected'
<1> SUFFICES ASSUME NEW c \in Node, role'[c] = "Leader" PROVE Elected(c, current_term[c])'
  BY Zenon DEF LeadersElected
<1>1. current_term'[c] = current_term[c]
  BY Zenon
<1>2. PICK t : t = current_term[c] /\ Elected(c, t)
  BY Zenon DEF LeadersElected
<1>3. Elected(c, t)'
  BY <1>2, MoreVotes, Zenon
<1> QED
  BY <1>1, <1>2, <1>3, Zenon

(* Old leader hints stay justified as terms grow and votes are added. *)
LEMMA HintsKept ==
  ASSUME SetFacts, TypeOK, TypeOK', HintWasLeader, votes \subseteq votes', TermsGrow,
         \A p \in Node : \A h \in leader_hints'[p] \ leader_hints[p] :
           \E t \in 1..current_term'[p] : Elected(h, t)'
  PROVE  HintWasLeader'
<1> SUFFICES ASSUME NEW p \in Node, NEW h \in leader_hints[p]
             PROVE  \E t \in 1..current_term'[p] : Elected(h, t)'
  BY Zenon DEF HintWasLeader
<1>1. PICK t \in 1..current_term[p] : Elected(h, t)
  BY Zenon DEF HintWasLeader
<1>2. t \in 1..current_term'[p]
  <2>1. /\ current_term[p] \in Nat /\ current_term'[p] \in Nat
        /\ current_term[p] <= current_term'[p]
    BY TermsNat, Zenon DEF TermsGrow
  <2> QED
    BY <2>1
<1>3. Elected(h, t)'
  BY <1>1, MoreVotes, Zenon
<1> QED
  BY <1>2, <1>3, Zenon

(* AppendEntries sent before stay justified, and so are those of a leader. *)
LEMMA SendersKept ==
  ASSUME SetFacts, SendersElected, votes \subseteq votes',
         \A m \in append_reqs' \ append_reqs :
           m.term >= 1 /\ m.to # m.leader_id /\ Elected(m.leader_id, m.term)'
  PROVE  SendersElected'
<1> SUFFICES ASSUME NEW m \in append_reqs PROVE Elected(m.leader_id, m.term)'
  BY Zenon DEF SendersElected
<1>1. Elected(m.leader_id, m.term)
  BY Zenon DEF SendersElected
<1> QED
  BY <1>1, MoreVotes, Zenon

LEMMA LeaderSends ==
  ASSUME SetFacts, ElectionInv, NEW n \in Node, role[n] = "Leader", NEW l,
         send_append_entries(n, l), votes' = votes
  PROVE  SendersElected'
<1>1. current_term[n] \in Nat /\ current_term[n] >= 1 /\ Elected(n, current_term[n])
  BY MaxTermAssumption DEF ElectionInv, TypeInv, TypeOK, LeadersElected, Term
<1>2. ASSUME NEW m \in append_reqs' \ append_reqs
      PROVE  m.term >= 1 /\ m.to # m.leader_id /\ Elected(m.leader_id, m.term)'
  <2>1. m.term = current_term[n] /\ m.leader_id = n /\ m.to # n
    BY DEF send_append_entries, AppendEntriesRpc, Peers
  <2>2. Elected(m.leader_id, m.term)
    BY <1>1, <2>1, Zenon
  <2> QED
    BY <1>1, <2>1, <2>2, MoreVotes, Zenon
<1> QED
  BY <1>2, SendersKept, Zenon DEF ElectionInv

(* Stepping down, or changing no role, without sending vote messages. *)
LEMMA QuietStep ==
  ASSUME SetFacts, ElectionInv, TypeOK', NEW n \in Node, NEW t \in Term,
         step_down(n, t) \/ UNCHANGED nodeVars,
         votes' = votes, vote_reqs' = vote_reqs, vote_resps' \subseteq vote_resps
  PROVE  /\ OneVotePerTerm' /\ VotesRemembered' /\ RequestsFresh' /\ GrantsBacked'
         /\ CountBacked' /\ LeadersElected' /\ TermsGrow
<1>0. /\ TypeOK /\ current_term \in [Node -> Term]
      /\ role \in [Node -> {"Follower", "Candidate", "Leader"}]
      /\ voted_for \in [Node -> Node \cup {None}]
  BY Zenon DEF ElectionInv, TypeInv, TypeOK
<1>1. TermsGrow /\ NoneRises
  BY <1>0, MaxTermAssumption DEF step_down, nodeVars, Term, TermsGrow, NoneRises
<1>2. OneVotePerTerm' /\ GrantsBacked'
  BY Zenon DEF ElectionInv, OneVotePerTerm, GrantsBacked
<1>3. VotesRemembered' /\ RequestsFresh'
  BY <1>0, <1>1, VotesKept, RequestsKept, Zenon DEF ElectionInv
<1>4. CountBacked' /\ LeadersElected'
  <2>1. \A c \in Node : \A v \in Counted(c) : Granted(v, current_term[c], c) \notin vote_resps'
    BY Zenon DEF Counted
  <2>2. \A c \in Node : role'[c] = "Leader" =>
                           role[c] = "Leader" /\ current_term'[c] = current_term[c]
    BY <1>1, Zenon DEF NoneRises
  <2> QED
    BY <1>0, <1>1, <2>1, <2>2, CountsKept, LeadersKept, Zenon DEF ElectionInv
<1> QED
  BY <1>1, <1>2, <1>3, <1>4, Zenon

LEMMA InitElectionInv == Init => ElectionInv
<1> SUFFICES ASSUME Init PROVE ElectionInv
  BY Zenon
<1>1. TypeInv
  BY InitTypeInv, Zenon
<1>2. /\ OneVotePerTerm /\ VotesRemembered /\ RequestsFresh /\ GrantsBacked
      /\ SendersElected /\ HintWasLeader
  BY Zenon DEF Init, OneVotePerTerm, VotesRemembered, RequestsFresh, GrantsBacked,
         SendersElected, HintWasLeader
<1>3. CountBacked /\ LeadersElected
  BY Zenon DEF Init, CountBacked, LeadersElected
<1> QED
  BY <1>1, <1>2, <1>3, Zenon DEF ElectionInv

(* A candidate enters a term past every vote it gave or was given, and     *)
(* asks each peer once.                                                    *)
LEMMA StartElectionFresh ==
  ASSUME ElectionInv, TypeInv', NEW n \in Node, start_election(n)
  PROVE  /\ TermsGrow /\ OneVotePerTerm' /\ VotesRemembered'
         /\ \A v \in votes : v.voter = n \/ v.for = n => v.term < current_term[n] + 1
         /\ votes' = votes \cup {Ballot(n, current_term[n] + 1, n)}
<1> DEFINE t == current_term[n] + 1
           own == Ballot(n, t, n)
<1>t. TypeOK /\ TypeOK'
  BY Zenon DEF ElectionInv, TypeInv
<1>0. /\ current_term \in [Node -> Nat] /\ current_term' \in [Node -> Nat]
      /\ voted_for \in [Node -> Node \cup {None}]
      /\ \A v \in votes : v.voter \in Node /\ v.for \in Node /\ v.term \in Nat
  BY <1>t, TermsNat, Zenon
<1>1. /\ current_term' = [current_term EXCEPT ![n] = t]
      /\ voted_for' = [voted_for EXCEPT ![n] = n]
      /\ votes' = votes \cup {own}
  BY Zenon DEF start_election, Ballot
<1>2. TermsGrow
  BY <1>0, <1>1 DEF TermsGrow
<1>3. \A v \in votes : v.voter = n \/ v.for = n => v.term < t
  BY <1>0 DEF ElectionInv, VotesRemembered
<1>4. OneVotePerTerm'
  BY <1>0, <1>1, <1>3 DEF ElectionInv, OneVotePerTerm, Ballot
<1>5. VotesRemembered'
  <2>1. \A v \in votes' \ votes :
          /\ v.term >= 1 /\ v.term <= current_term'[v.voter] /\ v.term <= current_term'[v.for]
          /\ voted_for'[v.voter] = v.for
    BY <1>0, <1>1 DEF Ballot
  <2> QED
    BY <1>2, <1>t, <2>1, VotesKept, Zenon DEF ElectionInv
<1> QED
  BY <1>1, <1>2, <1>3, <1>4, <1>5, Zenon

LEMMA StartElectionRequests ==
  ASSUME ElectionInv, TypeInv', NEW n \in Node, start_election(n)
  PROVE  RequestsFresh'
<1> DEFINE t == current_term[n] + 1
           own == Ballot(n, t, n)
<1>t. TypeOK /\ TypeOK' /\ RequestsFresh
  BY Zenon DEF ElectionInv, TypeInv
<1>0. /\ current_term \in [Node -> Nat] /\ current_term' \in [Node -> Nat]
      /\ current_term' = [current_term EXCEPT ![n] = t]
      /\ \A m \in vote_reqs : m.candidate_id \in Node /\ m.term \in Nat
  BY <1>t, TermsNat, Zenon DEF start_election
<1>1. /\ \A v \in votes : v.voter = n \/ v.for = n => v.term < t
      /\ votes' = votes \cup {own}
  BY StartElectionFresh, Zenon
<1>2. \A m \in vote_reqs' \ vote_reqs :
        /\ m.term = t /\ m.candidate_id = n /\ m.to # n
        /\ m = [term |-> t, candidate_id |-> n, to |-> m.to,
                last_log_index |-> last_log_index(log[n]),
                last_log_term |-> last_log_term(log[n])]
  BY DEF start_election, Peers
<1>3. \A m \in vote_reqs : m.candidate_id = n => m.term < t
  BY <1>0, <1>t DEF RequestsFresh
<1>4. ASSUME NEW m \in vote_reqs'
      PROVE  /\ m.term >= 1 /\ m.term <= current_term'[m.candidate_id]
             /\ m.to # m.candidate_id
             /\ Ballot(m.to, m.term, m.candidate_id) \notin votes'
  <2>1. CASE m \in vote_reqs
    <3>1. /\ m.term >= 1 /\ m.term <= current_term[m.candidate_id]
          /\ m.to # m.candidate_id
          /\ Ballot(m.to, m.term, m.candidate_id) \notin votes
      BY <1>t, <2>1, Zenon DEF RequestsFresh
    <3>2. Ballot(m.to, m.term, m.candidate_id) # own
      BY <3>1, Zenon DEF Ballot
    <3> QED
      BY <1>0, <1>1, <2>1, <3>1, <3>2
  <2>2. CASE m \notin vote_reqs
    <3>1. m.term = t /\ m.candidate_id = n /\ m.to # n
      BY <1>2, <2>2, Zenon
    <3>2. Ballot(m.to, t, n) # own /\ Ballot(m.to, t, n) \notin votes
      BY <1>0, <1>1, <3>1 DEF Ballot
    <3> QED
      BY <1>0, <1>1, <3>1, <3>2
  <2> QED
    BY <2>1, <2>2, Zenon
<1>5. ASSUME NEW m1 \in vote_reqs', NEW m2 \in vote_reqs',
             m1.to = m2.to, m1.term = m2.term, m1.candidate_id = m2.candidate_id
      PROVE  m1 = m2
  <2>1. CASE m1 \in vote_reqs /\ m2 \in vote_reqs
    BY <1>5, <1>t, <2>1, Zenon DEF RequestsFresh
  <2>2. CASE m1 \notin vote_reqs /\ m2 \notin vote_reqs
    BY <1>2, <1>5, <2>2, Zenon
  <2>3. m1 \in vote_reqs <=> m2 \in vote_reqs
    BY <1>0, <1>2, <1>3, <1>5
  <2> QED
    BY <2>1, <2>2, <2>3, Zenon
<1> QED
  BY <1>4, <1>5, Zenon DEF RequestsFresh

(* A candidate counts its own vote, which it does not send. *)
LEMMA StartElectionCount ==
  ASSUME SetFacts, ElectionInv, TypeInv', NEW n \in Node, start_election(n)
  PROVE  CountBacked'
<1>t. TypeOK /\ TypeOK'
  BY Zenon DEF ElectionInv, TypeInv
<1>1. /\ current_term' = [current_term EXCEPT ![n] = current_term[n] + 1]
      /\ role' = [role EXCEPT ![n] = "Candidate"]
      /\ votes_received' = [votes_received EXCEPT ![n] = 1]
      /\ vote_resps' = vote_resps
      /\ votes' = votes \cup {Ballot(n, current_term[n] + 1, n)}
  BY Zenon DEF start_election, Ballot
<1>2. /\ current_term'[n] = current_term[n] + 1 /\ votes_received'[n] = 1
      /\ \A c \in Node \ {n} : /\ role'[c] = role[c] /\ current_term'[c] = current_term[c]
                               /\ votes_received'[c] = votes_received[c]
  BY <1>1, <1>t DEF TypeOK
<1>3. votes_received'[n] <= Cardinality(Counted(n)')
  <2>1. Granted(n, current_term[n] + 1, n) \notin vote_resps
    BY Zenon DEF ElectionInv, GrantsBacked, Granted
  <2>2. n \in Counted(n)'
    BY <1>1, <1>2, <2>1 DEF Counted, VotersFor, Ballot
  <2>3. {n} \subseteq Counted(n)' /\ Counted(n)' \in SUBSET Node /\ {n} \in SUBSET Node
    BY <2>2, Zenon DEF Counted, VotersFor
  <2>4. Cardinality({n}) = 1
    BY Zenon DEF SetFacts
  <2>5. 1 <= Cardinality(Counted(n)')
    BY <2>3, <2>4, Larger, Zenon
  <2> QED
    BY <1>2, <2>5, Zenon
<1>4. ASSUME NEW c \in Node \ {n}, role'[c] = "Candidate"
      PROVE  votes_received'[c] <= Cardinality(Counted(c)')
  <2>1. \A v \in Counted(c) : Granted(v, current_term[c], c) \notin vote_resps'
    BY <1>1, Zenon DEF Counted
  <2>2. votes \subseteq votes' /\ role[c] = "Candidate"
    BY <1>1, <1>2, <1>4, Zenon
  <2> QED
    BY <1>2, <1>t, <2>1, <2>2, CountKept, Zenon DEF ElectionInv
<1> QED
  BY <1>3, <1>4, Zenon DEF CountBacked

LEMMA StartElectionInv ==
  ASSUME SetFacts, ElectionInv, TypeInv', NEW n \in Node, start_election(n)
  PROVE  ElectionInv'
<1>t. TypeOK /\ TypeOK'
  BY Zenon DEF ElectionInv, TypeInv
<1>1. /\ TermsGrow /\ OneVotePerTerm' /\ VotesRemembered' /\ votes \subseteq votes'
  BY StartElectionFresh, Zenon
<1>2. /\ vote_resps' = vote_resps /\ append_reqs' = append_reqs
      /\ leader_hints' = leader_hints
      /\ current_term' = [current_term EXCEPT ![n] = current_term[n] + 1]
      /\ role' = [role EXCEPT ![n] = "Candidate"]
  BY Zenon DEF start_election, appendMsgs
<1>3. GrantsBacked'
  BY <1>1, <1>2, Zenon DEF ElectionInv, GrantsBacked
<1>4. LeadersElected'
  <2>1. \A c \in Node : role'[c] = "Leader" =>
                          role[c] = "Leader" /\ current_term'[c] = current_term[c]
    BY <1>2, <1>t, Zenon DEF TypeOK
  <2> QED
    BY <1>1, <2>1, LeadersKept, Zenon DEF ElectionInv
<1>5. SendersElected' /\ HintWasLeader'
  BY <1>1, <1>2, <1>t, SendersKept, HintsKept, Zenon DEF ElectionInv
<1> QED
  BY <1>1, <1>3, <1>4, <1>5, StartElectionRequests, StartElectionCount, Zenon DEF ElectionInv

(* What node n's answer to the request m changes: it may cast the one vote *)
(* that m asks for, in a term in which n had cast none, and a granted      *)
(* answer is for that vote.                                                *)
VoteCast(n, m) ==
  /\ votes \subseteq votes'
  /\ \A v \in votes' \ votes :
       /\ v = Ballot(n, m.term, m.candidate_id)
       /\ current_term'[n] = m.term /\ voted_for'[n] = m.candidate_id
       /\ \A w \in votes : w.voter = n => w.term # m.term
  /\ \A r \in vote_resps' \ vote_resps :
       r.vote_granted => /\ r.from = n /\ r.to = m.candidate_id /\ r.term = m.term
                         /\ Ballot(n, m.term, m.candidate_id) \in votes'

LEMMA RequestVoteRequest ==
  ASSUME ElectionInv, NEW n \in Node, NEW m \in vote_reqs, m.to = n
  PROVE  /\ m.candidate_id \in Node /\ m.candidate_id # n /\ m.term \in Nat
         /\ m.term >= 1 /\ m.term <= current_term[m.candidate_id]
         /\ Ballot(n, m.term, m.candidate_id) \notin votes
<1>1. m \in VoteReq /\ Term \subseteq Nat
  BY MaxTermAssumption DEF ElectionInv, TypeInv, TypeOK, Term
<1> QED
  BY <1>1, Zenon DEF ElectionInv, RequestsFresh, VoteReq

(* The terms and votes that the answer leaves. *)
LEMMA RequestVoteTerms ==
  ASSUME ElectionInv, TypeInv', NEW n \in Node, NEW m \in vote_reqs, handle_request_vote(n, m)
  PROVE  /\ TermsGrow /\ NoneRises /\ m.term <= current_term'[n]
         /\ current_term'[n] = IF m.term > current_term[n] THEN m.term ELSE current_term[n]
<1>0. /\ current_term \in [Node -> Nat] /\ voted_for \in [Node -> Node \cup {None}]
      /\ role \in [Node -> {"Follower", "Candidate", "Leader"}]
      /\ m.term \in Nat
  BY TermsNat, Zenon DEF ElectionInv, TypeInv, TypeOK
<1>1. /\ votes_received' = votes_received
      /\ \/ UNCHANGED <<current_term, role>> /\ m.term <= current_term[n]
         \/ /\ m.term > current_term[n] /\ current_term' = [current_term EXCEPT ![n] = m.term]
            /\ role' = [role EXCEPT ![n] = "Follower"]
      /\ voted_for' = [voted_for EXCEPT ![n] =
           IF can_grant(n, m) THEN m.candidate_id
           ELSE IF m.term > current_term[n] THEN None ELSE @]
  BY <1>0 DEF handle_request_vote
<1>2. can_grant(n, m) => m.term > current_term[n] \/ voted_for[n] \in {None, m.candidate_id}
  BY Zenon DEF can_grant
<1>3. m.term <= current_term[n] => voted_for[n] \in {None, voted_for'[n]}
  BY <1>0, <1>1, <1>2
<1>4. \A p \in Node \ {n} : voted_for'[p] = voted_for[p]
  BY <1>0, <1>1, Zenon
<1> QED
  BY <1>0, <1>1, <1>3, <1>4 DEF TermsGrow, NoneRises

LEMMA RequestVoteCast ==
  ASSUME ElectionInv, TypeInv', NEW n \in Node, NEW m \in vote_reqs, handle_request_vote(n, m)
  PROVE  VoteCast(n, m)
<1> DEFINE c == m.candidate_id
           t == m.term
           resp(g) == [from |-> n, to |-> c, term |-> current_term'[n], vote_granted |-> g]
<1>1. m.to = n /\ c \in Node /\ t \in Nat /\ Ballot(n, t, c) \notin votes
  BY RequestVoteRequest, Zenon DEF handle_request_vote
<1>2. CASE can_grant(n, m)
  <2>1. /\ votes' = votes \cup {Ballot(n, t, c)} /\ voted_for' = [voted_for EXCEPT ![n] = c]
        /\ vote_resps' = vote_resps \cup {resp(can_grant(n, m))}
    BY <1>2, Zenon DEF handle_request_vote, Ballot
  <2>2. t >= current_term[n] /\ (t > current_term[n] \/ voted_for[n] \in {None, c})
    BY <1>2, Zenon DEF can_grant
  <2>3. current_term[n] \in Nat /\ voted_for'[n] = c /\ current_term'[n] = t
    <3>1. current_term \in [Node -> Nat] /\ voted_for \in [Node -> Node \cup {None}]
      BY TermsNat, Zenon DEF ElectionInv, TypeInv
    <3> QED
      BY <1>1, <2>1, <2>2, <3>1, RequestVoteTerms
  <2>4. ASSUME NEW w \in votes, w.voter = n PROVE w.term # t
    <3>1. /\ w.term <= current_term[n] /\ w.term \in Nat /\ w.for \in Node
          /\ w.term = current_term[n] => voted_for[n] = w.for
      BY <2>4, TermsNat, Zenon DEF ElectionInv, TypeInv, VotesRemembered
    <3>2. w = Ballot(w.voter, w.term, w.for)
      BY Zenon DEF ElectionInv, TypeInv, TypeOK, Vote, Ballot
    <3> QED
      BY <1>1, <2>2, <2>3, <2>4, <3>1, <3>2, NoneAssumption
  <2>5. \A g : resp(g).from = n /\ resp(g).to = c /\ resp(g).term = t
    BY <2>3, Zenon
  <2> QED
    BY <2>1, <2>3, <2>4, <2>5, Zenon DEF VoteCast
<1>3. CASE ~can_grant(n, m)
  <2>1. can_grant(n, m) = FALSE
    BY <1>3, Zenon DEF can_grant
  <2>2. votes' = votes /\ vote_resps' = vote_resps \cup {resp(FALSE)}
    BY <2>1, Zenon DEF handle_request_vote
  <2>3. resp(FALSE).vote_granted = FALSE
    BY Zenon
  <2> QED
    BY <2>2, <2>3, Zenon DEF VoteCast
<1> QED
  BY <1>2, <1>3, Zenon

(* A vote is granted only in a term in which the voter has voted for no    *)
(* one else, and its answer is the first one to that request.              *)
LEMMA RequestVoteKept ==
  ASSUME ElectionInv, TypeInv', NEW n \in Node, NEW m \in vote_reqs, handle_request_vote(n, m)
  PROVE  OneVotePerTerm' /\ VotesRemembered' /\ RequestsFresh' /\ GrantsBacked'
<1>t. /\ TypeOK /\ TypeOK' /\ TermsGrow
      /\ OneVotePerTerm /\ VotesRemembered /\ RequestsFresh /\ GrantsBacked
  BY RequestVoteTerms, Zenon DEF ElectionInv, TypeInv
<1>0. VoteCast(n, m)
  BY RequestVoteCast, Zenon
<1>m. /\ m.to = n /\ m.candidate_id \in Node /\ m.candidate_id # n /\ m.term \in Nat
      /\ m.term >= 1 /\ m.term <= current_term[m.candidate_id]
      /\ vote_reqs' = vote_reqs \ {m}
  BY RequestVoteRequest, Zenon DEF handle_request_vote
<1>1. OneVotePerTerm'
  BY <1>0, <1>t DEF VoteCast, OneVotePerTerm, Ballot
<1>2. VotesRemembered'
  <2>1. m.term <= current_term'[m.candidate_id]
    <3>1. \A p \in Node : current_term[p] \in Nat /\ current_term'[p] \in Nat
      BY <1>t, TermsNat, Zenon
    <3> QED
      BY <1>m, <1>t, <3>1 DEF TermsGrow
  <2>2. \A v \in votes' \ votes :
          /\ v.term >= 1 /\ v.term <= current_term'[v.voter] /\ v.term <= current_term'[v.for]
          /\ voted_for'[v.voter] = v.for
    BY <1>0, <1>m, <2>1 DEF VoteCast, Ballot
  <2> QED
    BY <1>t, <2>2, VotesKept, Zenon
<1>3. RequestsFresh'
  <2>1. \A r \in vote_reqs' : Ballot(r.to, r.term, r.candidate_id) \notin votes' \ votes
    BY <1>0, <1>m, <1>t, Zenon DEF VoteCast, RequestsFresh, Ballot
  <2> QED
    BY <1>m, <1>t, <2>1, RequestsKept, Zenon
<1>4. GrantsBacked'
  BY <1>0, <1>m, <1>t, Zenon DEF VoteCast, GrantsBacked
<1> QED
  BY <1>1, <1>2, <1>3, <1>4, Zenon

LEMMA RequestVoteInv ==
  ASSUME SetFacts, ElectionInv, TypeInv', NEW n \in Node, NEW m \in vote_reqs,
         handle_request_vote(n, m)
  PROVE  ElectionInv'
<1>t. TypeOK /\ TypeOK' /\ TermsGrow /\ NoneRises
  BY RequestVoteTerms, Zenon DEF ElectionInv, TypeInv
<1>0. VoteCast(n, m) /\ votes \subseteq votes'
  BY RequestVoteCast, Zenon DEF VoteCast
<1>1. append_reqs' = append_reqs /\ leader_hints' = leader_hints
  BY Zenon DEF handle_request_vote, appendMsgs
<1>2. CountBacked'
  <2>1. ASSUME NEW c \in Node, NEW v \in Counted(c)
        PROVE  Granted(v, current_term[c], c) \notin vote_resps'
    <3>1. Ballot(v, current_term[c], c) \in votes /\ Granted(v, current_term[c], c) \notin vote_resps
      BY Zenon DEF Counted, VotersFor, Ballot
    <3>2. Ballot(n, m.term, m.candidate_id) \notin votes
      BY RequestVoteRequest, Zenon DEF handle_request_vote
    <3> QED
      BY <1>0, <3>1, <3>2 DEF VoteCast, Granted
  <2> QED
    BY <1>0, <1>t, <2>1, CountsKept, Zenon DEF ElectionInv
<1>3. LeadersElected'
  BY <1>0, <1>t, LeadersKept, Zenon DEF ElectionInv, NoneRises
<1>4. SendersElected' /\ HintWasLeader'
  BY <1>0, <1>1, <1>t, SendersKept, HintsKept, Zenon DEF ElectionInv
<1> QED
  BY <1>2, <1>3, <1>4, RequestVoteKept, Zenon DEF ElectionInv

(* A granted answer is counted once: the candidate counts a voter it had   *)
(* not counted.                                                            *)
LEMMA VoteCounted ==
  ASSUME SetFacts, ElectionInv, NEW n \in Node, NEW m \in vote_resps, m.to = n,
         m.term = current_term[n], role[n] = "Candidate", m.vote_granted,
         votes' = votes, current_term' = current_term, vote_resps' = vote_resps \ {m},
         votes_received' = [votes_received EXCEPT ![n] = @ + 1]
  PROVE  /\ votes_received[n] \in Nat
         /\ votes_received'[n] = votes_received[n] + 1
         /\ votes_received'[n] <= Cardinality(Counted(n)')
         /\ Cardinality(Counted(n)') \in Nat
<1> DEFINE t == current_term[n]
<1>t. m \in VoteResp /\ votes_received \in [Node -> Nat]
  BY Zenon DEF ElectionInv, TypeInv, TypeOK
<1>0. m.from \in Node /\ m = Granted(m.from, t, n)
  BY <1>t, Zenon DEF VoteResp, Granted
<1>1. m.from \in VotersFor(n, t)
  BY <1>0, Zenon DEF ElectionInv, GrantsBacked, VotersFor, Ballot
<1>2. m.from \notin Counted(n)
  BY <1>0, Zenon DEF Counted
<1>3. \A v \in Node : Granted(v, t, n) \in vote_resps' <=>
                        Granted(v, t, n) \in vote_resps /\ v # m.from
  BY <1>0 DEF Granted
<1>4. VotersFor(n, t)' = VotersFor(n, t) /\ VotersFor(n, t) \subseteq Node
  BY Zenon DEF VotersFor
<1>5. Counted(n)' = Counted(n) \cup {m.from} /\ Counted(n) \in SUBSET Node
  BY <1>1, <1>3, <1>4 DEF Counted
<1>6. /\ Cardinality(Counted(n)) \in Nat
      /\ Cardinality(Counted(n)') = Cardinality(Counted(n)) + 1
  BY <1>0, <1>2, <1>5, Zenon DEF SetFacts
<1>7. votes_received[n] <= Cardinality(Counted(n))
  BY Zenon DEF ElectionInv, CountBacked
<1>8. votes_received[n] \in Nat /\ votes_received'[n] = votes_received[n] + 1
  BY <1>t, Zenon
<1> QED
  BY <1>6, <1>7, <1>8

(* A quorum of counted votes is an election. *)
LEMMA QuorumElects ==
  ASSUME SetFacts, NEW n \in Node, NEW k \in Nat, k >= quorum,
         k <= Cardinality(Counted(n)'), Cardinality(Counted(n)') \in Nat
  PROVE  Elected(n, current_term[n])'
<1>1. Counted(n)' \subseteq VotersFor(n, current_term[n])'
      /\ VotersFor(n, current_term[n])' \in SUBSET Node
  BY Zenon DEF Counted, VotersFor
<1>2. /\ Cardinality(VotersFor(n, current_term[n])') \in Nat
      /\ Cardinality(Counted(n)') <= Cardinality(VotersFor(n, current_term[n])')
  BY <1>1, Larger, Zenon
<1>3. quorum \in Nat
  BY Zenon DEF SetFacts
<1>4. Cardinality(VotersFor(n, current_term[n])') >= quorum
  BY <1>2, <1>3
<1> QED
  BY <1>4, Zenon DEF Elected

(* The answer that is counted, with or without a quorum. *)
LEMMA VoteResponseCounted ==
  ASSUME SetFacts, ElectionInv, TypeInv', NEW n \in Node, NEW m \in vote_resps, m.to = n,
         m.term = current_term[n], role[n] = "Candidate", m.vote_granted,
         votes' = votes, current_term' = current_term, vote_resps' = vote_resps \ {m},
         votes_received' = [votes_received EXCEPT ![n] = @ + 1],
         IF votes_received[n] + 1 >= quorum
         THEN become_leader(n)
         ELSE UNCHANGED <<role, is_leader, leaderVars, leader_hints, leader_log>>
  PROVE  /\ CountBacked' /\ LeadersElected'
         /\ \A p \in Node : \A h \in leader_hints'[p] \ leader_hints[p] :
              \E u \in 1..current_term'[p] : Elected(h, u)'
<1>t. /\ TypeOK /\ TypeOK' /\ role \in [Node -> {"Follower", "Candidate", "Leader"}]
      /\ leader_hints \in [Node -> SUBSET Node] /\ votes_received \in [Node -> Nat]
  BY Zenon DEF ElectionInv, TypeInv, TypeOK
<1>1. /\ votes_received[n] \in Nat
      /\ votes_received'[n] = votes_received[n] + 1
      /\ votes_received'[n] <= Cardinality(Counted(n)')
      /\ Cardinality(Counted(n)') \in Nat
  BY VoteCounted, Zenon
<1>2. ASSUME NEW c \in Node \ {n}, role[c] = "Candidate"
      PROVE  votes_received'[c] <= Cardinality(Counted(c)')
  <2>1. votes_received'[c] = votes_received[c] /\ current_term'[c] = current_term[c]
    BY <1>t, Zenon
  <2>2. \A v \in Counted(c) : Granted(v, current_term[c], c) \notin vote_resps'
    BY Zenon DEF Counted
  <2> QED
    BY <1>2, <1>t, <2>1, <2>2, CountKept, Zenon DEF ElectionInv
<1>3. ASSUME NEW c \in Node, role[c] = "Leader" PROVE Elected(c, current_term[c])'
  BY <1>3, Zenon DEF ElectionInv, LeadersElected, Elected, VotersFor
<1>4. CASE votes_received[n] + 1 >= quorum
  <2>1. Elected(n, current_term[n])'
    BY <1>1, <1>4, QuorumElects
  <2>2. /\ role' = [role EXCEPT ![n] = "Leader"]
        /\ leader_hints' = [leader_hints EXCEPT ![n] = @ \cup {n}]
    BY <1>4, Zenon DEF become_leader, set_leader
  <2>3. \A c \in Node : role'[c] = IF c = n THEN "Leader" ELSE role[c]
    BY <1>t, <2>2, Zenon
  <2>4. CountBacked' /\ LeadersElected'
    BY <1>2, <1>3, <2>1, <2>3, Zenon DEF CountBacked, LeadersElected
  <2>5. current_term'[n] \in 1..current_term'[n]
    <3>1. current_term[n] # 0
      BY Zenon DEF ElectionInv, TypeInv
    <3>2. current_term'[n] \in Nat
      BY <1>t, TermsNat, Zenon
    <3> QED
      BY <3>1, <3>2
  <2>6. \A p \in Node : \A h \in leader_hints'[p] \ leader_hints[p] : p = n /\ h = n
    BY <1>t, <2>2, Zenon
  <2>7. PICK u : u = current_term'[n] /\ Elected(n, u)'
    BY <2>1, Zenon
  <2> QED
    BY <2>4, <2>5, <2>6, <2>7, Zenon
<1>5. CASE ~(votes_received[n] + 1 >= quorum)
  <2>1. role' = role /\ leader_hints' = leader_hints
    BY <1>5, Zenon
  <2> QED
    BY <1>1, <1>2, <1>3, <2>1, Zenon DEF CountBacked, LeadersElected
<1> QED
  BY <1>4, <1>5, Zenon

LEMMA VoteResponseInv ==
  ASSUME SetFacts, ElectionInv, TypeInv', NEW n \in Node, NEW m \in vote_resps,
         handle_vote_response(n, m)
  PROVE  ElectionInv'
<1>t. TypeOK /\ TypeOK' /\ m.term \in Term
  BY Zenon DEF ElectionInv, TypeInv, TypeOK, VoteResp
<1>1. /\ votes' = votes /\ vote_reqs' = vote_reqs /\ vote_resps' = vote_resps \ {m}
      /\ append_reqs' = append_reqs /\ m.to = n
  BY Zenon DEF handle_vote_response, appendMsgs
<1>2. SendersElected'
  BY <1>1, SendersKept, Zenon DEF ElectionInv
<1>3. CASE /\ step_down(n, m.term) \/ UNCHANGED nodeVars
           /\ UNCHANGED leader_hints
  <2>1. /\ OneVotePerTerm' /\ VotesRemembered' /\ RequestsFresh' /\ GrantsBacked'
        /\ CountBacked' /\ LeadersElected' /\ TermsGrow
    BY <1>1, <1>3, <1>t, QuietStep, Zenon
  <2>2. HintWasLeader'
    BY <1>1, <1>3, <1>t, <2>1, HintsKept, Zenon DEF ElectionInv
  <2> QED
    BY <1>2, <2>1, <2>2, Zenon DEF ElectionInv
<1>4. CASE /\ m.term = current_term[n] /\ role[n] = "Candidate" /\ m.vote_granted
           /\ votes_received' = [votes_received EXCEPT ![n] = @ + 1]
           /\ UNCHANGED <<current_term, voted_for>>
           /\ IF votes_received[n] + 1 >= quorum
              THEN become_leader(n)
              ELSE UNCHANGED <<role, is_leader, leaderVars, leader_hints, leader_log>>
  <2>1. OneVotePerTerm' /\ VotesRemembered' /\ RequestsFresh' /\ GrantsBacked'
    BY <1>1, <1>4, Zenon DEF ElectionInv, OneVotePerTerm, VotesRemembered, RequestsFresh, GrantsBacked
  <2>2. /\ CountBacked' /\ LeadersElected'
        /\ \A p \in Node : \A h \in leader_hints'[p] \ leader_hints[p] :
             \E u \in 1..current_term'[p] : Elected(h, u)'
    BY <1>1, <1>4, VoteResponseCounted, Zenon
  <2>3. TermsGrow
    <3>1. current_term' = current_term /\ voted_for' = voted_for
      BY <1>4, Zenon
    <3>2. \A p \in Node : current_term[p] \in Nat
      BY <1>t, TermsNat, Zenon
    <3> QED
      BY <3>1, <3>2 DEF TermsGrow
  <2>4. HintWasLeader'
    BY <1>1, <1>t, <2>2, <2>3, HintsKept, Zenon DEF ElectionInv
  <2> QED
    BY <1>2, <2>1, <2>2, <2>4, Zenon DEF ElectionInv
<1> QED
  BY <1>3, <1>4, Zenon DEF handle_vote_response

(* A follower takes the sender's term and its name as the leader's. *)
LEMMA AppendEntriesHints ==
  ASSUME SetFacts, ElectionInv, TypeOK', NEW n \in Node, NEW m \in append_reqs,
         m.term >= current_term[n], step_down(n, m.term), set_leader(n, m.leader_id),
         votes' = votes
  PROVE  \A p \in Node : \A h \in leader_hints'[p] \ leader_hints[p] :
           \E t \in 1..current_term'[p] : Elected(h, t)'
<1>t. TypeOK /\ leader_hints \in [Node -> SUBSET Node] /\ m.term \in Term
  BY Zenon DEF ElectionInv, TypeInv, TypeOK, AppendReq
<1>1. \A p \in Node : \A h \in leader_hints'[p] \ leader_hints[p] : p = n /\ h = m.leader_id
  BY <1>t, Zenon DEF set_leader
<1>2. m.term >= 1 /\ Elected(m.leader_id, m.term)
  BY Zenon DEF ElectionInv, SendersElected
<1>3. Elected(m.leader_id, m.term)'
  BY <1>2, MoreVotes, Zenon
<1>4. current_term[n] \in Nat /\ m.term \in Nat /\ current_term \in [Node -> Nat]
  <2>1. Term \subseteq Nat
    BY MaxTermAssumption DEF Term
  <2> QED
    BY <1>t, <2>1, TermsNat, Zenon
<1>5. current_term'[n] = m.term
  BY <1>4 DEF step_down
<1> QED
  BY <1>1, <1>2, <1>3, <1>4, <1>5

LEMMA AppendEntriesElection ==
  ASSUME SetFacts, ElectionInv, TypeInv', NEW n \in Node, NEW m \in append_reqs,
         handle_append_entries(n, m)
  PROVE  ElectionInv'
<1>t. TypeOK /\ TypeOK' /\ m.term \in Term
  BY Zenon DEF ElectionInv, TypeInv, TypeOK, AppendReq
<1>1. /\ votes' = votes /\ vote_reqs' = vote_reqs /\ vote_resps' \subseteq vote_resps
      /\ append_reqs' = append_reqs
  BY Zenon DEF handle_append_entries, voteMsgs, history
<1>2. \/ UNCHANGED <<nodeVars, leader_hints>>
      \/ m.term >= current_term[n] /\ step_down(n, m.term) /\ set_leader(n, m.leader_id)
  BY Zenon DEF handle_append_entries
<1>3. /\ OneVotePerTerm' /\ VotesRemembered' /\ RequestsFresh' /\ GrantsBacked'
      /\ CountBacked' /\ LeadersElected' /\ TermsGrow
  BY <1>1, <1>2, <1>t, QuietStep, Zenon
<1>4. SendersElected'
  BY <1>1, SendersKept, Zenon DEF ElectionInv
<1>5. \A p \in Node : \A h \in leader_hints'[p] \ leader_hints[p] :
        \E t \in 1..current_term'[p] : Elected(h, t)'
  BY <1>1, <1>2, <1>t, AppendEntriesHints, Zenon
<1>6. HintWasLeader'
  BY <1>1, <1>3, <1>5, <1>t, HintsKept, Zenon DEF ElectionInv
<1> QED
  BY <1>3, <1>4, <1>6, Zenon DEF ElectionInv

LEMMA AppendResponseElection ==
  ASSUME SetFacts, ElectionInv, TypeInv', NEW n \in Node, NEW m \in append_resps,
         handle_append_response(n, m)
  PROVE  ElectionInv'
<1>t. TypeOK /\ TypeOK' /\ m.term \in Term
  BY Zenon DEF ElectionInv, TypeInv, TypeOK, AppendResp
<1>1. /\ votes' = votes /\ vote_reqs' = vote_reqs /\ vote_resps' \subseteq vote_resps
      /\ append_reqs' = append_reqs /\ leader_hints' = leader_hints
      /\ step_down(n, m.term) \/ UNCHANGED nodeVars
  BY Zenon DEF handle_append_response, voteMsgs, appendMsgs, history
<1>2. /\ OneVotePerTerm' /\ VotesRemembered' /\ RequestsFresh' /\ GrantsBacked'
      /\ CountBacked' /\ LeadersElected' /\ TermsGrow
  BY <1>1, <1>t, QuietStep, Zenon
<1>3. SendersElected' /\ HintWasLeader'
  BY <1>1, <1>2, <1>t, SendersKept, HintsKept, Zenon DEF ElectionInv
<1> QED
  BY <1>2, <1>3, Zenon DEF ElectionInv

(* A step that touches nothing of elections but the AppendEntries sent. *)
LEMMA NoElection ==
  ASSUME SetFacts, ElectionInv, TypeInv', SendersElected',
         UNCHANGED <<nodeVars, voteMsgs, votes, leader_hints>>
  PROVE  ElectionInv'
<1>t. TypeOK /\ TypeOK' /\ 0 \in Term
  BY MaxTermAssumption DEF ElectionInv, TypeInv, Term
<1>1. /\ votes' = votes /\ vote_reqs' = vote_reqs /\ vote_resps' \subseteq vote_resps
      /\ leader_hints' = leader_hints /\ UNCHANGED nodeVars
  BY Zenon DEF voteMsgs
<1>2. PICK n \in Node : TRUE
  BY NodeAssumption, Zenon
<1>3. /\ OneVotePerTerm' /\ VotesRemembered' /\ RequestsFresh' /\ GrantsBacked'
      /\ CountBacked' /\ LeadersElected' /\ TermsGrow
  BY <1>1, <1>2, <1>t, QuietStep, Zenon
<1>4. HintWasLeader'
  BY <1>1, <1>3, <1>t, HintsKept, Zenon DEF ElectionInv
<1> QED
  BY <1>3, <1>4, Zenon DEF ElectionInv

LEMMA HeartbeatsElection ==
  ASSUME SetFacts, ElectionInv, TypeInv', NEW n \in Node, send_heartbeats(n)
  PROVE  ElectionInv'
<1>1. SendersElected'
  BY LeaderSends, Zenon DEF send_heartbeats, history
<1> QED
  BY <1>1, NoElection, Zenon DEF send_heartbeats, history

LEMMA ProposalElection ==
  ASSUME SetFacts, ElectionInv, TypeInv', NEW n \in Node, append_proposal(n)
  PROVE  ElectionInv'
<1>1. votes' = votes /\ UNCHANGED <<nodeVars, voteMsgs, votes, leader_hints>>
  BY Zenon DEF append_proposal
<1>2. CASE role[n] = "Leader"
  BY <1>1, <1>2, LeaderSends, NoElection, Zenon DEF append_proposal
<1>3. CASE role[n] # "Leader"
  <2>1. append_reqs' = append_reqs
    BY <1>3, Zenon DEF append_proposal
  <2>2. SendersElected'
    BY <1>1, <2>1, SendersKept, Zenon DEF ElectionInv
  <2> QED
    BY <1>1, <2>2, NoElection, Zenon
<1> QED
  BY <1>2, <1>3, Zenon

LEMMA NextElectionInv ==
  ASSUME SetFacts, ElectionInv, [Next]_vars
  PROVE  ElectionInv'
<1>t. TypeInv'
  BY NextTypeInv, Zenon DEF ElectionInv
<1>1. ASSUME UNCHANGED <<nodeVars, voteMsgs, votes, leader_hints, append_reqs>>
      PROVE  ElectionInv'
  <2>1. SendersElected'
    BY <1>1, SendersKept, Zenon DEF ElectionInv
  <2> QED
    BY <1>1, <1>t, <2>1, NoElection, Zenon
<1>2. ASSUME NEW n \in Node, NEW c \in Command, execute(n, c) PROVE ElectionInv'
  BY <1>1, <1>2, Zenon DEF execute, appendMsgs, history
<1>3. CASE UNCHANGED vars
  BY <1>1, <1>3, Zenon DEF vars, appendMsgs, history
<1> QED
  BY <1>2, <1>3, <1>t, StartElectionInv, HeartbeatsElection, RequestVoteInv, VoteResponseInv,
     AppendEntriesElection, AppendResponseElection, ProposalElection, Zenon DEF Next

-----------------------------------------------------------------------------
(* Where the clients are *)

(* The commands in the proposal channels q, those that wait in the pending *)
(* proposals p, and those answered by r.                                   *)
Queued(c, q) == \E n \in Node : \E i \in 1..Len(q[n]) : q[n][i] = c
Waits(c, p) == \E n \in Node : \E i \in DOMAIN p[n] : p[n][i] = c
Answered(c, r) == \E a \in r : a.to = c

QueuedOnce(q) ==
  \A m, n \in Node : \A i \in 1..Len(q[m]), j \in 1..Len(q[n]) : q[m][i] = q[n][j] => m = n /\ i = j
WaitsOnce(p) ==
  \A m, n \in Node : \A i \in DOMAIN p[m], j \in DOMAIN p[n] : p[m][i] = p[n][j] => m = n /\ i = j
AnsweredOnce(r) == \A a, b \in r : a.to = b.to => a = b

(* The commands that are issued are the ones in these places, each in one. *)
OnePlaceEach(q, p, r, iss) ==
  /\ \A c \in Command : ~(Queued(c, q) /\ Waits(c, p))
  /\ \A c \in Command : ~(Queued(c, q) /\ Answered(c, r))
  /\ \A c \in Command : ~(Waits(c, p) /\ Answered(c, r))
  /\ \A c \in Command : c \in iss <=> Queued(c, q) \/ Waits(c, p) \/ Answered(c, r)

Accounted(q, p, r, iss) ==
  QueuedOnce(q) /\ WaitsOnce(p) /\ AnsweredOnce(r) /\ OnePlaceEach(q, p, r, iss)

Channels == [Node -> Seq(Command)]

IsPending(p) ==
  /\ p = [n \in Node |-> p[n]]
  /\ \A n \in Node : \A i \in DOMAIN p[n] : p[n][i] \in Command

(* A new command joins a channel. *)
LEMMA Joins ==
  ASSUME NEW q \in Channels, NEW p, NEW r, NEW iss \in SUBSET Command, Accounted(q, p, r, iss),
         NEW n \in Node, NEW c \in Command \ iss,
         NEW q2, q2 = [q EXCEPT ![n] = Append(q[n], c)]
  PROVE  Accounted(q2, p, r, iss \cup {c})
<1>1. /\ \A m \in Node : q[m] \in Seq(Command) /\ Len(q[m]) \in Nat
      /\ \A m \in Node \ {n} : q2[m] = q[m]
      /\ q2[n] = Append(q[n], c)
  BY DEF Channels
<1>2. /\ Len(q2[n]) = Len(q[n]) + 1 /\ q2[n][Len(q[n]) + 1] = c
      /\ \A i \in 1..Len(q[n]) : q2[n][i] = q[n][i]
  BY <1>1
<1>3. ~Queued(c, q) /\ ~Waits(c, p) /\ ~Answered(c, r)
  BY Zenon DEF Accounted, OnePlaceEach
<1>4. \A m \in Node : \A i \in 1..Len(q2[m]) :
        \/ i \in 1..Len(q[m]) /\ q2[m][i] = q[m][i] /\ q[m][i] # c
        \/ m = n /\ i = Len(q[n]) + 1 /\ q2[m][i] = c
  <2> SUFFICES ASSUME NEW m \in Node, NEW i \in 1..Len(q2[m])
               PROVE  \/ i \in 1..Len(q[m]) /\ q2[m][i] = q[m][i] /\ q[m][i] # c
                      \/ m = n /\ i = Len(q[n]) + 1 /\ q2[m][i] = c
    BY Zenon
  <2>1. i \in 1..Len(q[m]) => q[m][i] # c
    BY <1>3, Zenon DEF Queued
  <2> QED BY <1>1, <1>2, <2>1
<1>5. QueuedOnce(q2)
  <2> SUFFICES ASSUME NEW k \in Node, NEW m \in Node, NEW i \in 1..Len(q2[k]), NEW j \in 1..Len(q2[m]),
                      q2[k][i] = q2[m][j]
               PROVE  k = m /\ i = j
    BY Zenon DEF QueuedOnce
  <2> QED BY <1>4 DEF Accounted, QueuedOnce
<1>6. \A x \in Command : Queued(x, q2) <=> Queued(x, q) \/ x = c
  <2>1. ASSUME NEW x \in Command, Queued(x, q2) PROVE Queued(x, q) \/ x = c
    BY <1>4, <2>1 DEF Queued
  <2>2. ASSUME NEW x \in Command, Queued(x, q) PROVE Queued(x, q2)
    <3>m. PICK m \in Node : \E i \in 1..Len(q[m]) : q[m][i] = x
      BY <2>2, Zenon DEF Queued
    <3>1. PICK i \in 1..Len(q[m]) : q[m][i] = x
      BY <3>m, Zenon
    <3>2. i \in 1..Len(q2[m]) /\ q2[m][i] = x
      BY <1>1, <1>2, <3>1
    <3> QED BY <3>2, Zenon DEF Queued
  <2>3. Queued(c, q2)
    <3>1. Len(q[n]) + 1 \in 1..Len(q2[n])
      BY <1>1, <1>2
    <3> QED BY <1>2, <3>1, Zenon DEF Queued
  <2> QED BY <2>1, <2>2, <2>3, Zenon
<1>7. OnePlaceEach(q2, p, r, iss \cup {c})
  BY <1>3, <1>6, Zenon DEF Accounted, OnePlaceEach
<1> QED BY <1>5, <1>7, Zenon DEF Accounted

(* A channel and what is behind its first command. *)
LEMMA FirstAndRest ==
  ASSUME NEW s \in Seq(Command), s # <<>>
  PROVE  /\ Len(s) >= 1 /\ Len(Tail(s)) = Len(s) - 1 /\ Head(s) = s[1] /\ Head(s) \in Command
         /\ \A i \in 1..Len(s) - 1 : Tail(s)[i] = s[i + 1]
<1>1. Len(s) >= 1 /\ Len(Tail(s)) = Len(s) - 1 /\ Head(s) = s[1]
  OBVIOUS
<1>2. Head(s) \in Command /\ \A i \in 1..Len(s) - 1 : Tail(s)[i] = s[i + 1]
  BY <1>1
<1> QED BY <1>1, <1>2, Zenon

(* The first command of a channel leaves it. *)
LEMMA Leaves ==
  ASSUME NEW q \in Channels, NEW p, NEW r, NEW iss \in SUBSET Command, Accounted(q, p, r, iss),
         NEW n \in Node, q[n] # <<>>,
         NEW q2, q2 = [q EXCEPT ![n] = Tail(q[n])]
  PROVE  /\ Accounted(q2, p, r, iss \ {Head(q[n])})
         /\ Head(q[n]) \in iss
<1> DEFINE c == Head(q[n])
<1>1. /\ \A m \in Node : q[m] \in Seq(Command) /\ Len(q[m]) \in Nat
      /\ \A m \in Node \ {n} : q2[m] = q[m]
      /\ q2[n] = Tail(q[n])
  BY DEF Channels
<1>2. /\ Len(q[n]) >= 1 /\ Len(q2[n]) = Len(q[n]) - 1 /\ c = q[n][1] /\ c \in Command
      /\ \A i \in 1..Len(q[n]) - 1 : q2[n][i] = q[n][i + 1]
  <2>1. q[n] \in Seq(Command) /\ q[n] # <<>>
    BY <1>1, Zenon
  <2>2. /\ Len(q[n]) >= 1 /\ Len(Tail(q[n])) = Len(q[n]) - 1 /\ c = q[n][1] /\ c \in Command
        /\ \A i \in 1..Len(q[n]) - 1 : Tail(q[n])[i] = q[n][i + 1]
    BY <2>1, FirstAndRest, Zenon
  <2> QED
    BY <1>1, <2>2, Zenon
<1> HIDE DEF c
<1>3. Queued(c, q)
  <2>1. 1 \in 1..Len(q[n])
    BY <1>1, <1>2
  <2> QED BY <1>2, <2>1, Zenon DEF Queued
<1>o. QueuedOnce(q) /\ OnePlaceEach(q, p, r, iss)
  BY Zenon DEF Accounted
<1> DEFINE old(m, i) == IF m = n THEN i + 1 ELSE i
<1>4. \A m \in Node : \A i \in 1..Len(q2[m]) :
        old(m, i) \in 1..Len(q[m]) /\ q2[m][i] = q[m][old(m, i)] /\ q2[m][i] # c
  <2> SUFFICES ASSUME NEW m \in Node, NEW i \in 1..Len(q2[m])
               PROVE  old(m, i) \in 1..Len(q[m]) /\ q2[m][i] = q[m][old(m, i)] /\ q2[m][i] # c
    BY Zenon
  <2>1. old(m, i) \in 1..Len(q[m]) /\ q2[m][i] = q[m][old(m, i)]
    BY <1>1, <1>2
  <2>2. m # n \/ old(m, i) # 1
    BY <1>1, <1>2
  <2>3. 1 \in 1..Len(q[n])
    BY <1>1, <1>2
  <2> QED BY <1>o, <1>2, <2>1, <2>2, <2>3 DEF QueuedOnce
<1>5. QueuedOnce(q2)
  <2> SUFFICES ASSUME NEW k \in Node, NEW m \in Node, NEW i \in 1..Len(q2[k]), NEW j \in 1..Len(q2[m]),
                      q2[k][i] = q2[m][j]
               PROVE  k = m /\ i = j
    BY Zenon DEF QueuedOnce
  <2>1. k = m /\ old(k, i) = old(m, j)
    <3>1. /\ old(k, i) \in 1..Len(q[k]) /\ q2[k][i] = q[k][old(k, i)]
          /\ old(m, j) \in 1..Len(q[m]) /\ q2[m][j] = q[m][old(m, j)]
      BY <1>4, Zenon
    <3> HIDE DEF old
    <3>2. q[k][old(k, i)] = q[m][old(m, j)]
      BY <3>1, Zenon
    <3> DEFINE a == old(k, i)
               b == old(m, j)
    <3>3. a \in 1..Len(q[k]) /\ b \in 1..Len(q[m]) /\ q[k][a] = q[m][b]
      BY <3>1, <3>2, Zenon
    <3> HIDE DEF a, b
    <3>4. k = m /\ a = b
      <4>1. QueuedOnce(q)
        BY <1>o, Zenon
      <4> QED BY <3>3, <4>1 DEF QueuedOnce
    <3> QED BY <3>4, Zenon DEF a, b
  <2>2. i \in Int /\ j \in Int
    OBVIOUS
  <2> QED BY <2>1, <2>2
<1>6. \A x \in Command : Queued(x, q2) <=> Queued(x, q) /\ x # c
  <2>1. ASSUME NEW x \in Command, Queued(x, q2) PROVE Queued(x, q) /\ x # c
    BY <1>4, <2>1 DEF Queued
  <2>2. ASSUME NEW x \in Command, Queued(x, q), x # c PROVE Queued(x, q2)
    <3>m. PICK m \in Node : \E i \in 1..Len(q[m]) : q[m][i] = x
      BY <2>2, Zenon DEF Queued
    <3>1. PICK i \in 1..Len(q[m]) : q[m][i] = x
      BY <3>m, Zenon
    <3>2. CASE m # n
      BY <1>1, <3>1, <3>2, Zenon DEF Queued
    <3>3. CASE m = n
      <4>1. i - 1 \in 1..Len(q2[n]) /\ q2[n][i - 1] = x
        BY <1>1, <1>2, <2>2, <3>1, <3>3
      <4> QED BY <4>1, Zenon DEF Queued
    <3> QED BY <3>2, <3>3, Zenon
  <2> QED BY <2>1, <2>2, Zenon
<1>7. c \in iss /\ ~Waits(c, p) /\ ~Answered(c, r)
  BY <1>2, <1>3, <1>o, Zenon DEF OnePlaceEach
<1>8. OnePlaceEach(q2, p, r, iss \ {c})
  BY <1>6, <1>7, <1>o, Zenon DEF OnePlaceEach
<1> QED BY <1>5, <1>7, <1>8, Zenon DEF Accounted, c

(* The clients that wait at the indexes A of node n are answered, by ans. *)
Answering(n, A, ans, p, p2, r, r2) ==
  /\ A \subseteq DOMAIN p[n]
  /\ \A i \in A : ans[i].to = p[n][i]
  /\ p2 = [p EXCEPT ![n] = [i \in DOMAIN p[n] \ A |-> p[n][i]]]
  /\ r2 = r \cup {ans[i] : i \in A}

LEMMA AnswersThem ==
  ASSUME NEW q, NEW p, IsPending(p), NEW r, NEW iss, Accounted(q, p, r, iss),
         NEW n \in Node, NEW A, NEW ans, NEW p2, NEW r2, Answering(n, A, ans, p, p2, r, r2)
  PROVE  Accounted(q, p2, r2, iss) /\ IsPending(p2)
<1> USE DEF Answering
<1>1. /\ \A m \in Node \ {n} : p2[m] = p[m]
      /\ p2[n] = [i \in DOMAIN p[n] \ A |-> p[n][i]]
      /\ p2 = [m \in Node |-> p2[m]]
  BY Zenon DEF IsPending
<1>2. \A m \in Node : \A i \in DOMAIN p2[m] :
        i \in DOMAIN p[m] /\ p2[m][i] = p[m][i] /\ ~(m = n /\ i \in A)
  BY <1>1
<1>3. IsPending(p2)
  BY <1>1, <1>2, Zenon DEF IsPending
<1>o. /\ QueuedOnce(q) /\ WaitsOnce(p) /\ AnsweredOnce(r) /\ OnePlaceEach(q, p, r, iss)
      /\ \A m \in Node : \A i \in DOMAIN p[m] : p[m][i] \in Command
  BY Zenon DEF Accounted, IsPending
<1> DEFINE Given(x) == \E i \in A : p[n][i] = x
<1>4. \A x \in Command : Waits(x, p2) <=> Waits(x, p) /\ ~Given(x)
  <2>1. ASSUME NEW x \in Command, Waits(x, p2) PROVE Waits(x, p) /\ ~Given(x)
    <3>1. PICK m \in Node : \E i \in DOMAIN p2[m] : p2[m][i] = x
      BY <2>1, Zenon DEF Waits
    <3>2. PICK i \in DOMAIN p2[m] : p2[m][i] = x
      BY <3>1, Zenon
    <3>3. i \in DOMAIN p[m] /\ p[m][i] = x /\ ~(m = n /\ i \in A)
      BY <1>2, <3>2, Zenon
    <3>4. Waits(x, p)
      BY <3>3, Zenon DEF Waits
    <3>5. ASSUME NEW j \in A PROVE p[n][j] # x
      BY <1>o, <3>3 DEF WaitsOnce
    <3> QED BY <3>4, <3>5, Zenon
  <2>2. ASSUME NEW x \in Command, Waits(x, p), ~Given(x) PROVE Waits(x, p2)
    <3>1. PICK m \in Node : \E i \in DOMAIN p[m] : p[m][i] = x
      BY <2>2, Zenon DEF Waits
    <3>2. PICK i \in DOMAIN p[m] : p[m][i] = x
      BY <3>1, Zenon
    <3>3. i \in DOMAIN p2[m] /\ p2[m][i] = x
      BY <1>1, <2>2, <3>2, Zenon
    <3> QED BY <3>3, Zenon DEF Waits
  <2> QED BY <2>1, <2>2, Zenon
<1>5. \A x \in Command : Answered(x, r2) <=> Answered(x, r) \/ Given(x)
  BY Zenon DEF Answered
<1>6. \A x \in Command : Given(x) => Waits(x, p)
  BY Zenon DEF Waits
<1>7. WaitsOnce(p2)
  <2> SUFFICES ASSUME NEW k \in Node, NEW m \in Node, NEW i \in DOMAIN p2[k], NEW j \in DOMAIN p2[m],
                      p2[k][i] = p2[m][j]
               PROVE  k = m /\ i = j
    BY Zenon DEF WaitsOnce
  <2> QED BY <1>2, <1>o DEF WaitsOnce
<1>8. AnsweredOnce(r2)
  <2> SUFFICES ASSUME NEW a \in r2, NEW b \in r2, a.to = b.to PROVE a = b
    BY Zenon DEF AnsweredOnce
  <2>1. \A i \in A : ans[i].to \in Command /\ Waits(ans[i].to, p)
    BY <1>o, Zenon DEF Waits
  <2>2. \A i \in A : ~Answered(ans[i].to, r)
    BY <1>o, <2>1, Zenon DEF OnePlaceEach
  <2>3. \A i, j \in A : ans[i].to = ans[j].to => i = j
    BY <1>o DEF WaitsOnce
  <2>4. CASE a \in r /\ b \in r
    BY <1>o, <2>4, Zenon DEF AnsweredOnce
  <2>5. CASE a \in r /\ b \notin r
    BY <2>2, <2>5, Zenon DEF Answered
  <2>6. CASE a \notin r /\ b \in r
    BY <2>2, <2>6, Zenon DEF Answered
  <2>7. CASE a \notin r /\ b \notin r
    BY <2>3, <2>7
  <2> QED BY <2>4, <2>5, <2>6, <2>7, Zenon
<1> HIDE DEF Given
<1>9. OnePlaceEach(q, p2, r2, iss)
  BY <1>4, <1>5, <1>6, <1>o, Zenon DEF OnePlaceEach
<1> QED BY <1>3, <1>7, <1>8, <1>9, <1>o, Zenon DEF Accounted

(* A command that is nowhere waits at the free index x of node n. *)
Waiting(n, x, c, p, p2) ==
  /\ x \notin DOMAIN p[n]
  /\ p2 = [p EXCEPT ![n] = [i \in DOMAIN p[n] \cup {x} |-> IF i = x THEN c ELSE p[n][i]]]

LEMMA WaitsThere ==
  ASSUME NEW q, NEW p, IsPending(p), NEW r, NEW iss \in SUBSET Command, Accounted(q, p, r, iss),
         NEW n \in Node, NEW c \in Command \ iss, NEW x, NEW p2, Waiting(n, x, c, p, p2)
  PROVE  Accounted(q, p2, r, iss \cup {c})
<1> USE DEF Waiting
<1>1. /\ \A m \in Node \ {n} : p2[m] = p[m]
      /\ p2[n] = [i \in DOMAIN p[n] \cup {x} |-> IF i = x THEN c ELSE p[n][i]]
  BY Zenon DEF IsPending
<1>o. QueuedOnce(q) /\ WaitsOnce(p) /\ AnsweredOnce(r) /\ OnePlaceEach(q, p, r, iss)
  BY Zenon DEF Accounted
<1>2. ~Queued(c, q) /\ ~Waits(c, p) /\ ~Answered(c, r)
  BY <1>o, Zenon DEF OnePlaceEach
<1>3. \A m \in Node : \A i \in DOMAIN p2[m] :
        \/ i \in DOMAIN p[m] /\ p2[m][i] = p[m][i] /\ p[m][i] # c
        \/ m = n /\ i = x /\ p2[m][i] = c
  BY <1>1, <1>2 DEF Waits
<1>4. \A y \in Command : Waits(y, p2) <=> Waits(y, p) \/ y = c
  <2>1. ASSUME NEW y \in Command, Waits(y, p2) PROVE Waits(y, p) \/ y = c
    BY <1>3, <2>1 DEF Waits
  <2>2. ASSUME NEW y \in Command, Waits(y, p) PROVE Waits(y, p2)
    <3>1. PICK m \in Node : \E i \in DOMAIN p[m] : p[m][i] = y
      BY <2>2, Zenon DEF Waits
    <3>2. PICK i \in DOMAIN p[m] : p[m][i] = y
      BY <3>1, Zenon
    <3>3. i \in DOMAIN p2[m] /\ p2[m][i] = y
      BY <1>1, <3>2, Zenon
    <3> QED BY <3>3, Zenon DEF Waits
  <2>3. Waits(c, p2)
    <3>1. x \in DOMAIN p2[n] /\ p2[n][x] = c
      BY <1>1, Zenon
    <3> QED BY <3>1, Zenon DEF Waits
  <2> QED BY <2>1, <2>2, <2>3, Zenon
<1>5. WaitsOnce(p2)
  <2> SUFFICES ASSUME NEW k \in Node, NEW m \in Node, NEW i \in DOMAIN p2[k], NEW j \in DOMAIN p2[m],
                      p2[k][i] = p2[m][j]
               PROVE  k = m /\ i = j
    BY Zenon DEF WaitsOnce
  <2>1. \/ i \in DOMAIN p[k] /\ p2[k][i] = p[k][i] /\ p[k][i] # c
        \/ k = n /\ i = x /\ p2[k][i] = c
    BY <1>3, Zenon
  <2>2. \/ j \in DOMAIN p[m] /\ p2[m][j] = p[m][j] /\ p[m][j] # c
        \/ m = n /\ j = x /\ p2[m][j] = c
    BY <1>3, Zenon
  <2>3. i \in DOMAIN p[k] /\ j \in DOMAIN p[m] /\ p[k][i] = p[m][j] => k = m /\ i = j
    <3>1. WaitsOnce(p)
      BY <1>o, Zenon
    <3> QED BY <3>1 DEF WaitsOnce
  <2> QED BY <2>1, <2>2, <2>3, Zenon
<1>6. OnePlaceEach(q, p2, r, iss \cup {c})
  BY <1>2, <1>4, <1>o, Zenon DEF OnePlaceEach
<1> QED BY <1>5, <1>6, <1>o, Zenon DEF Accounted

(* The invariant of the client requests. *)
ClientInv == Accounted(proposal_rx, pending, replies, issued)

LEMMA InitClientInv == Init => ClientInv
<1> SUFFICES ASSUME Init PROVE ClientInv
  BY Zenon
<1>1. \A n \in Node : Len(proposal_rx[n]) = 0 /\ DOMAIN pending[n] = {}
  BY DEF Init
<1>2. replies = {} /\ issued = {}
  BY Zenon DEF Init
<1>3. \A c \in Command : ~Queued(c, proposal_rx) /\ ~Waits(c, pending) /\ ~Answered(c, replies)
  BY <1>1, <1>2 DEF Queued, Waits, Answered
<1>4. QueuedOnce(proposal_rx) /\ WaitsOnce(pending) /\ AnsweredOnce(replies)
  BY <1>1, <1>2 DEF QueuedOnce, WaitsOnce, AnsweredOnce
<1> QED BY <1>2, <1>3, <1>4, Zenon DEF ClientInv, Accounted, OnePlaceEach

(* What the client variables have of their types. *)
LEMMA ClientTypes ==
  ASSUME TypeOK
  PROVE  proposal_rx \in Channels /\ IsPending(pending) /\ issued \in SUBSET Command
<1>1. PendingType
  BY Zenon DEF TypeOK
<1>2. DOMAIN pending = Node
  BY <1>1, Zenon DEF PendingType
<1>3. \A n \in Node : \A i \in DOMAIN pending[n] : pending[n][i] \in Command
  BY <1>1, Zenon DEF PendingType
<1>4. pending = [n \in Node |-> pending[n]]
  <2>1. pending = [n \in Node |-> [i \in DOMAIN pending[n] |-> pending[n][i]]]
    BY <1>1, Zenon DEF PendingType
  <2>2. \A n \in Node : pending[n] = [i \in DOMAIN pending[n] |-> pending[n][i]]
    BY <2>1, Zenon
  <2> QED BY <2>1, <2>2, Zenon
<1> QED BY <1>3, <1>4, Zenon DEF TypeOK, Channels, IsPending

(* apply_committed answers whoever waits at the indexes it applies. *)
LEMMA ApplyClientInv ==
  ASSUME TypeOK, ClientInv, NEW n \in Node, NEW l, NEW commit,
         apply_committed(n, l, commit), UNCHANGED <<proposal_rx, issued>>
  PROVE  ClientInv'
<1> DEFINE A == {i \in DOMAIN pending[n] : Len(applied[n]) < i /\ i <= commit}
           ans == [i \in A |-> [to |-> pending[n][i], kind |-> "applied", of |-> l[i].command]]
<1>1. A \in SUBSET DOMAIN pending[n]
  BY Zenon
<1>2. pending' = [pending EXCEPT ![n] = [i \in DOMAIN pending[n] \ A |-> pending[n][i]]]
  BY Zenon DEF apply_committed
<1>3. replies' = replies \cup {ans[i] : i \in A}
  BY Zenon DEF apply_committed
<1>4. \A i \in A : ans[i].to = pending[n][i]
  BY Zenon
<1>5. Accounted(proposal_rx, pending, replies, issued) /\ IsPending(pending)
  BY ClientTypes, Zenon DEF ClientInv
<1> HIDE DEF A, ans
<1>6. Answering(n, A, ans, pending, pending', replies, replies')
  BY <1>1, <1>2, <1>3, <1>4, Zenon DEF Answering
<1>7. Accounted(proposal_rx, pending', replies', issued)
  BY <1>5, <1>6, AnswersThem, Zenon
<1> QED BY <1>7, Zenon DEF ClientInv

LEMMA ProposalClientInv ==
  ASSUME TypeOK, ClientInv, NEW n \in Node, append_proposal(n)
  PROVE  ClientInv'
<1> DEFINE c == Head(proposal_rx[n])
           x == Len(Append(log[n], [term |-> current_term[n], command |-> c]))
           rest == issued \ {c}
<1>1. proposal_rx \in Channels /\ IsPending(pending) /\ issued \in SUBSET Command
  BY ClientTypes, Zenon
<1>2. Accounted(proposal_rx', pending, replies, rest) /\ c \in issued
  <2>1. proposal_rx[n] # <<>> /\ proposal_rx' = [proposal_rx EXCEPT ![n] = Tail(proposal_rx[n])]
    BY Zenon DEF append_proposal
  <2> QED BY <1>1, <2>1, Leaves, Zenon DEF ClientInv
<1>3. CASE role[n] # "Leader"
  <2>1. issued' = rest /\ UNCHANGED <<pending, replies>>
    BY <1>3, Zenon DEF append_proposal
  <2> HIDE DEF c, rest
  <2> QED BY <1>2, <2>1, Zenon DEF ClientInv
<1>4. CASE role[n] = "Leader"
  <2>1. /\ pending' = [pending EXCEPT ![n] =
              [i \in DOMAIN pending[n] \cup {x} |-> IF i = x THEN c ELSE pending[n][i]]]
        /\ replies' = replies \cup
              {[to |-> pending[n][i], kind |-> "dropped", of |-> pending[n][i]] :
                 i \in {x} \cap DOMAIN pending[n]}
        /\ issued' = issued
    BY <1>4, Zenon DEF append_proposal
  <2> HIDE DEF x
  <2> DEFINE A == {x} \cap DOMAIN pending[n]
             ans == [i \in A |-> [to |-> pending[n][i], kind |-> "dropped", of |-> pending[n][i]]]
             free == [pending EXCEPT ![n] = [i \in DOMAIN pending[n] \ A |-> pending[n][i]]]
  <2>2. replies' = replies \cup {ans[i] : i \in A}
    BY <2>1, Zenon
  <2>3. A \in SUBSET DOMAIN pending[n] /\ \A i \in A : ans[i].to = pending[n][i]
    BY Zenon
  <2>4. pending' = [free EXCEPT ![n] =
                      [i \in DOMAIN free[n] \cup {x} |-> IF i = x THEN c ELSE free[n][i]]]
        /\ x \notin DOMAIN free[n]
    <3>1. pending = [m \in Node |-> pending[m]]
      BY <1>1, Zenon DEF IsPending
    <3>2. free[n] = [i \in DOMAIN pending[n] \ A |-> pending[n][i]]
      BY <3>1, Zenon
    <3>3. DOMAIN free[n] = DOMAIN pending[n] \ {x} /\ \A i \in DOMAIN free[n] : free[n][i] = pending[n][i]
      BY <3>2, Zenon
    <3>4. [i \in DOMAIN free[n] \cup {x} |-> IF i = x THEN c ELSE free[n][i]]
           = [i \in DOMAIN pending[n] \cup {x} |-> IF i = x THEN c ELSE pending[n][i]]
      <4> HIDE DEF free, c
      <4> QED BY <3>3, Zenon
    <3>5. \A v : [pending EXCEPT ![n] = v] = [free EXCEPT ![n] = v]
      BY <3>1, Zenon
    <3> HIDE DEF free, c
    <3> QED BY <2>1, <3>3, <3>4, <3>5, Zenon
  <2> HIDE DEF A, ans, rest
  <2>5. Accounted(proposal_rx', free, replies', rest) /\ IsPending(free)
    <3>1. Answering(n, A, ans, pending, free, replies, replies')
      BY <2>2, <2>3, Zenon DEF Answering
    <3> HIDE DEF free, c
    <3> QED BY <1>1, <1>2, <3>1, AnswersThem, Zenon
  <2>6. c \in Command \ rest /\ rest \in SUBSET Command
    BY <1>1, <1>2, Zenon DEF rest
  <2> HIDE DEF free, c
  <2>7. Accounted(proposal_rx', pending', replies', rest \cup {c})
    <3>1. Waiting(n, x, c, free, pending')
      BY <2>4, Zenon DEF Waiting
    <3> QED BY <2>5, <2>6, <3>1, WaitsThere, Zenon
  <2>8. rest \cup {c} = issued
    BY <1>2, Zenon DEF rest
  <2> QED BY <2>1, <2>7, <2>8, Zenon DEF ClientInv
<1> QED BY <1>3, <1>4, Zenon

LEMMA NextClientInv ==
  ASSUME TypeOK, ClientInv, [Next]_vars
  PROVE  ClientInv'
<1>q. ASSUME UNCHANGED clientVars PROVE ClientInv'
  BY <1>q, Zenon DEF ClientInv, clientVars
<1>1. ASSUME NEW n \in Node, start_election(n) PROVE ClientInv'
  BY <1>q, <1>1, Zenon DEF start_election
<1>2. ASSUME NEW n \in Node, send_heartbeats(n) PROVE ClientInv'
  BY <1>q, <1>2, Zenon DEF send_heartbeats
<1>3. ASSUME NEW n \in Node, NEW m \in vote_reqs, handle_request_vote(n, m) PROVE ClientInv'
  BY <1>q, <1>3, Zenon DEF handle_request_vote
<1>4. ASSUME NEW n \in Node, NEW m \in vote_resps, handle_vote_response(n, m) PROVE ClientInv'
  BY <1>q, <1>4, Zenon DEF handle_vote_response
<1>5. ASSUME NEW n \in Node, NEW m \in append_reqs, handle_append_entries(n, m) PROVE ClientInv'
  <2>1. UNCHANGED <<proposal_rx, issued>>
    BY <1>5, Zenon DEF handle_append_entries
  <2>2. CASE UNCHANGED <<pending, replies>>
    BY <1>q, <2>1, <2>2, Zenon DEF clientVars
  <2>3. CASE \E l, commit : apply_committed(n, l, commit)
    BY <2>1, <2>3, ApplyClientInv, Zenon
  <2>4. UNCHANGED <<pending, replies>> \/ \E l, commit : apply_committed(n, l, commit)
    BY <1>5, Zenon DEF handle_append_entries
  <2> QED BY <2>2, <2>3, <2>4, Zenon
<1>6. ASSUME NEW n \in Node, NEW m \in append_resps, handle_append_response(n, m) PROVE ClientInv'
  <2>1. UNCHANGED <<proposal_rx, issued>>
    BY <1>6 DEF handle_append_response
  <2>2. CASE UNCHANGED <<pending, replies>>
    BY <1>q, <2>1, <2>2, Zenon DEF clientVars
  <2>3. CASE \E l, commit : apply_committed(n, l, commit)
    BY <2>1, <2>3, ApplyClientInv, Zenon
  <2>4. UNCHANGED <<pending, replies>> \/ \E l, commit : apply_committed(n, l, commit)
    BY <1>6, Zenon DEF handle_append_response
  <2> QED BY <2>2, <2>3, <2>4, Zenon
<1>7. ASSUME NEW n \in Node, NEW c \in Command, execute(n, c) PROVE ClientInv'
  <2>1. /\ c \in Command \ issued /\ issued' = issued \cup {c} /\ UNCHANGED <<pending, replies>>
        /\ proposal_rx' = [proposal_rx EXCEPT ![n] = Append(proposal_rx[n], c)]
    BY <1>7, Zenon DEF execute
  <2>2. proposal_rx \in Channels /\ issued \in SUBSET Command
    BY ClientTypes, Zenon
  <2>3. Accounted(proposal_rx', pending, replies, issued \cup {c})
    BY <2>1, <2>2, Joins, Zenon DEF ClientInv
  <2> QED BY <2>1, <2>3, Zenon DEF ClientInv
<1>8. ASSUME NEW n \in Node, append_proposal(n) PROVE ClientInv'
  BY <1>8, ProposalClientInv, Zenon
<1>9. CASE UNCHANGED vars
  BY <1>q, <1>9, Zenon DEF vars
<1> QED BY <1>1, <1>2, <1>3, <1>4, <1>5, <1>6, <1>7, <1>8, <1>9 DEF Next

(* Issued commands are in one place, which is what ClientAccounting says. *)
LEMMA OnePlaceImplied ==
  ASSUME TypeOK, ClientInv
  PROVE  ClientAccounting
<1>1. SUFFICES ASSUME NEW c \in issued PROVE \E p \in Places(c) : Places(c) = {p}
  BY Zenon DEF ClientAccounting
<1>2. c \in Command
  BY Zenon DEF TypeOK
<1>o. /\ QueuedOnce(proposal_rx) /\ WaitsOnce(pending) /\ AnsweredOnce(replies)
      /\ OnePlaceEach(proposal_rx, pending, replies, issued)
  BY Zenon DEF ClientInv, Accounted
<1> DEFINE InQueue(n, i) == n \in Node /\ i \in 1..Len(proposal_rx[n]) /\ proposal_rx[n][i] = c
           AtIndex(n, i) == n \in Node /\ i \in DOMAIN pending[n] /\ pending[n][i] = c
           Got(r) == r \in replies /\ r.to = c
<1>3. \A p : p \in Places(c) <=>
               \/ \E n, i : InQueue(n, i) /\ p = <<"queued", n, i>>
               \/ \E n, i : AtIndex(n, i) /\ p = <<"waiting", n, i>>
               \/ \E r : Got(r) /\ p = <<"answered", r.kind, r.of>>
  <2> TAKE p
  <2> DEFINE Q(n) == {<<"queued", n, i>> : i \in {i \in 1..Len(proposal_rx[n]) : proposal_rx[n][i] = c}}
             W(n) == {<<"waiting", n, i>> : i \in {i \in DOMAIN pending[n] : pending[n][i] = c}}
             R == {<<"answered", r.kind, r.of>> : r \in {r \in replies : r.to = c}}
  <2>1. p \in Places(c) <=> (\E n \in Node : p \in Q(n)) \/ (\E n \in Node : p \in W(n)) \/ p \in R
    <3> DEFINE S == UNION {Q(n) \cup W(n) : n \in Node}
    <3>1. Places(c) = R \cup S
      BY Zenon DEF Places
    <3>2. p \in S <=> \E n \in Node : p \in Q(n) \cup W(n)
      BY Zenon
    <3> HIDE DEF Q, W, R, S
    <3> QED BY <3>1, <3>2, Zenon
  <2>2. \A n : p \in Q(n) <=> \E i : /\ i \in 1..Len(proposal_rx[n]) /\ proposal_rx[n][i] = c
                                    /\ p = <<"queued", n, i>>
    BY Zenon
  <2>3. \A n : p \in W(n) <=> \E i : /\ i \in DOMAIN pending[n] /\ pending[n][i] = c
                                    /\ p = <<"waiting", n, i>>
    BY Zenon
  <2>4. p \in R <=> \E r : Got(r) /\ p = <<"answered", r.kind, r.of>>
    BY Zenon
  <2> HIDE DEF Q, W, R, Got
  <2> QED BY <2>1, <2>2, <2>3, <2>4, Zenon
<1>4. \A m, n, i, j : InQueue(m, i) /\ InQueue(n, j) => m = n /\ i = j
  BY <1>o DEF QueuedOnce
<1>5. \A m, n, i, j : AtIndex(m, i) /\ AtIndex(n, j) => m = n /\ i = j
  BY <1>o DEF WaitsOnce
<1>6. \A r, s : Got(r) /\ Got(s) => r = s
  BY <1>o, Zenon DEF AnsweredOnce
<1>7. /\ Queued(c, proposal_rx) <=> \E n, i : InQueue(n, i)
      /\ Waits(c, pending) <=> \E n, i : AtIndex(n, i)
      /\ Answered(c, replies) <=> \E r : Got(r)
  BY Zenon DEF Queued, Waits, Answered
<1> HIDE DEF InQueue, AtIndex, Got
<1>8. /\ Queued(c, proposal_rx) \/ Waits(c, pending) \/ Answered(c, replies)
      /\ ~(Queued(c, proposal_rx) /\ Waits(c, pending))
      /\ ~(Queued(c, proposal_rx) /\ Answered(c, replies))
      /\ ~(Waits(c, pending) /\ Answered(c, replies))
  BY <1>2, <1>o, Zenon DEF OnePlaceEach
<1>9. CASE Queued(c, proposal_rx)
  <2>1. PICK n, i : InQueue(n, i)
    BY <1>7, <1>9, Zenon
  <2>2. Places(c) = {<<"queued", n, i>>}
    BY <1>3, <1>4, <1>7, <1>8, <1>9, <2>1
  <2> QED BY <2>2, Zenon
<1>10. CASE Waits(c, pending)
  <2>1. PICK n, i : AtIndex(n, i)
    BY <1>7, <1>10, Zenon
  <2>2. Places(c) = {<<"waiting", n, i>>}
    BY <1>3, <1>5, <1>7, <1>8, <1>10, <2>1
  <2> QED BY <2>2, Zenon
<1>11. CASE Answered(c, replies)
  <2>1. PICK r : Got(r)
    BY <1>7, <1>11, Zenon
  <2>2. Places(c) = {<<"answered", r.kind, r.of>>}
    BY <1>3, <1>6, <1>7, <1>8, <1>11, <2>1, Zenon
  <2> QED BY <2>2, Zenon
<1> QED BY <1>8, <1>9, <1>10, <1>11, Zenon

-----------------------------------------------------------------------------
(* The log of a leader *)

(* Two leaders of one term share a voter, who voted for both. *)
LEMMA OneElected ==
  ASSUME SetFacts, OneVotePerTerm, NEW a \in Node, NEW b \in Node, NEW t, Elected(a, t), Elected(b, t)
  PROVE  a = b
<1>1. PICK v \in VotersFor(a, t) : v \in VotersFor(b, t)
  <2>1. VotersFor(a, t) \in SUBSET Node /\ VotersFor(b, t) \in SUBSET Node
    BY Zenon DEF VotersFor
  <2>2. VotersFor(a, t) \cap VotersFor(b, t) # {}
    BY <2>1, Zenon DEF SetFacts, Elected
  <2> QED
    BY <2>2, Zenon
<1>2. /\ [voter |-> v, term |-> t, for |-> a] \in votes
      /\ [voter |-> v, term |-> t, for |-> b] \in votes
  BY <1>1, Zenon DEF VotersFor
<1> QED
  BY <1>2, Zenon DEF OneVotePerTerm

LEMMA LeaderLogKept ==
  ASSUME SetFacts, ElectionInv, Next, NEW n \in Node,
         role[n] = "Leader", current_term'[n] = current_term[n]
  PROVE  /\ role'[n] = "Leader"
         /\ Len(log[n]) <= Len(log'[n])
         /\ SubSeq(log'[n], 1, Len(log[n])) = log[n]
<1>t. /\ role \in [Node -> {"Follower", "Candidate", "Leader"}]
      /\ current_term \in [Node -> Nat] /\ log \in [Node -> Seq(Entry)]
  <2>1. /\ role \in [Node -> {"Follower", "Candidate", "Leader"}]
        /\ current_term \in [Node -> Term] /\ log \in [Node -> Seq(Entry)]
    BY Zenon DEF ElectionInv, TypeInv, TypeOK
  <2> QED
    BY <2>1, MaxTermAssumption DEF Term
<1>s. log'[n] = log[n] => /\ Len(log[n]) <= Len(log'[n])
                          /\ SubSeq(log'[n], 1, Len(log[n])) = log[n]
  <2>1. log[n] \in Seq(Entry)
    BY <1>t, Zenon
  <2>2. Len(log[n]) \in Nat /\ SubSeq(log[n], 1, Len(log[n])) = log[n]
    BY <2>1
  <2>3. Len(log[n]) <= Len(log[n])
    BY <2>2
  <2> QED
    BY <2>2, <2>3, Zenon
<1>d. \A p \in Node : \A t : step_down(p, t) /\ t > current_term[p] => p # n
  BY <1>t DEF step_down
<1>1. ASSUME NEW p \in Node, start_election(p) PROVE role'[n] = "Leader" /\ log'[n] = log[n]
  BY <1>1, <1>t, Zenon DEF start_election, logVars
<1>2. ASSUME NEW p \in Node, NEW m \in vote_reqs, handle_request_vote(p, m)
      PROVE  role'[n] = "Leader" /\ log'[n] = log[n]
  <2>1. CASE m.term > current_term[p]
    <3>1. current_term' = [current_term EXCEPT ![p] = m.term]
          /\ role' = [role EXCEPT ![p] = "Follower"] /\ log' = log
      BY <1>2, <2>1, Zenon DEF handle_request_vote, logVars
    <3>2. m.term # current_term[p]
      <4>1. m \in VoteReq
        BY Zenon DEF ElectionInv, TypeInv, TypeOK
      <4> QED
        BY <1>t, <2>1, <4>1, MaxTermAssumption DEF VoteReq, Term
    <3>3. p # n
      BY <1>t, <3>1, <3>2, Zenon
    <3> QED
      BY <1>t, <3>1, <3>3, Zenon
  <2>2. CASE ~(m.term > current_term[p])
    BY <1>2, <2>2, Zenon DEF handle_request_vote, logVars
  <2> QED
    BY <2>1, <2>2, Zenon
<1>3. ASSUME NEW p \in Node, NEW m \in vote_resps, handle_vote_response(p, m)
      PROVE  role'[n] = "Leader" /\ log'[n] = log[n]
  BY <1>3, <1>d, <1>t DEF handle_vote_response, step_down, become_leader, nodeVars, logVars
<1>4. ASSUME NEW p \in Node, NEW m \in append_reqs, handle_append_entries(p, m)
      PROVE  role'[n] = "Leader" /\ log'[n] = log[n]
  <2>1. m.to = p /\ m.term \in Nat /\ m.leader_id \in Node
    <3>1. m \in AppendReq
      BY Zenon DEF ElectionInv, TypeInv, TypeOK
    <3> QED
      <4>1. m.to = p
        BY <1>4, Zenon DEF handle_append_entries
      <4>2. m.term \in Term /\ m.leader_id \in Node
        BY <3>1, Zenon DEF AppendReq
      <4>3. Term \subseteq Nat
        BY MaxTermAssumption DEF Term
      <4> QED
        BY <4>1, <4>2, <4>3, Zenon
  <2>2. ~ (p = n /\ m.term = current_term[n])
    <3>1. m.to # m.leader_id /\ Elected(m.leader_id, m.term)
      BY Zenon DEF ElectionInv, SendersElected
    <3>2. Elected(n, current_term[n])
      BY Zenon DEF ElectionInv, LeadersElected
    <3> QED
      BY <2>1, <3>1, <3>2, OneElected, Zenon DEF ElectionInv
  <2>3. \/ UNCHANGED <<nodeVars, logVars>>
        \/ /\ m.term >= current_term[p] /\ step_down(p, m.term)
           /\ \/ UNCHANGED log
              \/ \E l : log' = [log EXCEPT ![p] = l]
    BY <1>4, Zenon DEF handle_append_entries, logVars
  <2>4. CASE UNCHANGED <<nodeVars, logVars>>
    BY <2>4, Zenon DEF nodeVars, logVars
  <2>5. CASE /\ m.term >= current_term[p] /\ step_down(p, m.term)
             /\ \/ UNCHANGED log
                \/ \E l : log' = [log EXCEPT ![p] = l]
    <3>1. p # n
      <4> SUFFICES ASSUME p = n PROVE FALSE
        BY Zenon
      <4>1. m.term > current_term[n]
        <5>1. current_term[n] \in Nat
          BY <1>t, Zenon
        <5>2. m.term >= current_term[n] /\ m.term # current_term[n]
          BY <2>2, <2>5, Zenon
        <5> QED
          BY <2>1, <5>1, <5>2
      <4>2. step_down(n, m.term)
        BY <2>5, Zenon
      <4> QED
        BY <1>d, <4>1, <4>2, Zenon
    <3>2. role'[n] = role[n]
      BY <1>t, <2>5, <3>1, Zenon DEF step_down
    <3>3. log'[n] = log[n]
      BY <1>t, <2>5, <3>1, Zenon
    <3> QED
      BY <3>2, <3>3, Zenon
  <2> QED
    BY <2>3, <2>4, <2>5, Zenon
<1>5. ASSUME NEW p \in Node, NEW m \in append_resps, handle_append_response(p, m)
      PROVE  role'[n] = "Leader" /\ log'[n] = log[n]
  BY <1>5, <1>d, <1>t, Zenon DEF handle_append_response, step_down, nodeVars, logVars
<1>6. ASSUME NEW p \in Node, send_heartbeats(p) \/ \E c \in Command : execute(p, c)
      PROVE  role'[n] = "Leader" /\ log'[n] = log[n]
  BY <1>6, Zenon DEF send_heartbeats, execute, nodeVars, logVars
<1>7. ASSUME NEW p \in Node, append_proposal(p)
      PROVE  /\ role'[n] = "Leader"
             /\ Len(log[n]) <= Len(log'[n])
             /\ SubSeq(log'[n], 1, Len(log[n])) = log[n]
  <2>1. role'[n] = "Leader"
    BY <1>7, Zenon DEF append_proposal, nodeVars
  <2>2. CASE log'[n] = log[n]
    BY <1>s, <2>1, <2>2, Zenon
  <2>3. CASE \E e \in Entry : log'[n] = Append(log[n], e)
    BY <1>t, <2>1, <2>3
  <2>4. log'[n] = log[n] \/ \E e \in Entry : log'[n] = Append(log[n], e)
    <3>1. CASE p = n
      <4>1. Head(proposal_rx[n]) \in Command
        <5>1. proposal_rx \in [Node -> Seq(Command)]
          BY Zenon DEF ElectionInv, TypeInv, TypeOK
        <5> QED
          BY <1>7, <3>1, <5>1 DEF append_proposal
      <4>2. current_term[n] \in Term \ {0}
        BY Zenon DEF ElectionInv, TypeInv, TypeOK
      <4>3. [term |-> current_term[n], command |-> Head(proposal_rx[n])] \in Entry
        BY <4>1, <4>2, Zenon DEF Entry
      <4> QED
        BY <1>7, <1>t, <3>1, <4>3, Zenon DEF append_proposal
    <3>2. CASE p # n
      BY <1>7, <1>t, <3>2, Zenon DEF append_proposal
    <3> QED
      BY <3>1, <3>2, Zenon
  <2> QED
    BY <2>2, <2>3, <2>4, Zenon
<1> QED
  BY <1>1, <1>2, <1>3, <1>4, <1>5, <1>6, <1>7, <1>s DEF Next

-----------------------------------------------------------------------------
(* Where entries come from *)

Ledger == [Term \ {0} -> Seq(Entry)]

(* Up to each of its entries, l is the log of the leader of the entry's    *)
(* term.                                                                   *)
CopiedFrom(l, ll) ==
  \A i \in 1..Len(l) :
    /\ i <= Len(ll[l[i].term])
    /\ \A j \in 1..i : l[j] = ll[l[i].term][j]

(* l is the beginning of L. *)
Begins(l, L) == Len(l) <= Len(L) /\ \A j \in 1..Len(l) : l[j] = L[j]

(* An AppendEntries carries a part of L and the term of the entry before.  *)
(* A leader that believes a peer's log to be longer than its own sends 0,  *)
(* which no entry has.                                                     *)
PartOf(m, L) ==
  /\ \A k \in 1..Len(m.entries) :
       m.prev_log_index + k <= Len(L) /\ m.entries[k] = L[m.prev_log_index + k]
  /\ m.prev_log_term # 0 =>
       m.prev_log_index \in 1..Len(L) /\ L[m.prev_log_index].term = m.prev_log_term

LogsCopied ==
  /\ \A n \in Node : CopiedFrom(log[n], leader_log)
  /\ \A t \in Term \ {0} : CopiedFrom(leader_log[t], leader_log)

LeadersRecorded ==
  \A n \in Node : role[n] = "Leader" => log[n] = leader_log[current_term[n]]

(* A term with a recorded log has had its leader, who cannot be elected in *)
(* it again.                                                               *)
TermsTaken ==
  \A t \in Term \ {0} : leader_log[t] # <<>> =>
    \E n \in Node : /\ Elected(n, t)
                    /\ current_term[n] >= t
                    /\ current_term[n] = t => role[n] # "Candidate"

RpcsCopied == \A m \in append_reqs : PartOf(m, leader_log[m.term])

LogInv == LogsCopied /\ LeadersRecorded /\ TermsTaken /\ RpcsCopied

-----------------------------------------------------------------------------
(* Logs *)

(* Two logs that have an entry of one term at one index agree up to it. *)
LEMMA SameTerm ==
  ASSUME NEW ll \in Ledger, NEW a \in Seq(Entry), NEW b \in Seq(Entry),
         CopiedFrom(a, ll), CopiedFrom(b, ll),
         NEW i \in 1..Len(a), i <= Len(b), a[i].term = b[i].term
  PROVE  \A j \in 1..i : a[j] = b[j]
<1>1. i \in 1..Len(b)
  OBVIOUS
<1>2. \A j \in 1..i : a[j] = ll[a[i].term][j]
  BY Zenon DEF CopiedFrom
<1>3. \A j \in 1..i : b[j] = ll[b[i].term][j]
  BY <1>1, Zenon DEF CopiedFrom
<1> QED
  BY <1>2, <1>3, Zenon

(* The leaders' logs may grow. *)
LEMMA GrowCopied ==
  ASSUME NEW ll \in Ledger, NEW mm \in Ledger,
         \A t \in Term \ {0} : Begins(ll[t], mm[t]),
         NEW l \in Seq(Entry), CopiedFrom(l, ll)
  PROVE  CopiedFrom(l, mm)
<1> SUFFICES ASSUME NEW i \in 1..Len(l)
             PROVE  /\ i <= Len(mm[l[i].term])
                    /\ \A j \in 1..i : l[j] = mm[l[i].term][j]
  BY Zenon DEF CopiedFrom
<1> DEFINE t == l[i].term
<1>1. t \in Term \ {0}
  <2>1. l[i] \in Entry
    OBVIOUS
  <2> QED
    BY <2>1, Zenon DEF Entry
<1>2. i <= Len(ll[t]) /\ \A j \in 1..i : l[j] = ll[t][j]
  BY Zenon DEF CopiedFrom
<1>3. Begins(ll[t], mm[t]) /\ ll[t] \in Seq(Entry) /\ mm[t] \in Seq(Entry)
  BY <1>1, Zenon DEF Ledger
<1>4. Len(ll[t]) \in Nat /\ Len(mm[t]) \in Nat
  BY <1>3
<1> HIDE DEF t
<1> QED
  BY <1>2, <1>3, <1>4 DEF Begins, t

LEMMA GrowPart ==
  ASSUME NEW K \in Seq(Entry), NEW L \in Seq(Entry), Begins(K, L),
         NEW m \in AppendReq, PartOf(m, K)
  PROVE  PartOf(m, L)
<1>1. Len(K) \in Nat /\ Len(L) \in Nat /\ m.prev_log_index \in Nat /\ Len(m.entries) \in Nat
  BY DEF AppendReq
<1>2. ASSUME NEW k \in 1..Len(m.entries)
      PROVE  m.prev_log_index + k <= Len(L) /\ m.entries[k] = L[m.prev_log_index + k]
  <2>1. m.prev_log_index + k <= Len(K) /\ m.entries[k] = K[m.prev_log_index + k]
    BY Zenon DEF PartOf
  <2>2. m.prev_log_index + k \in 1..Len(K)
    BY <1>1, <2>1
  <2> QED
    BY <1>1, <2>1, <2>2 DEF Begins
<1>3. m.prev_log_term # 0 =>
        m.prev_log_index \in 1..Len(L) /\ L[m.prev_log_index].term = m.prev_log_term
  BY <1>1 DEF PartOf, Begins
<1> QED
  BY <1>2, <1>3, Zenon DEF PartOf

(* The beginning of a copied log is copied. *)
LEMMA BeginCopied ==
  ASSUME NEW ll \in Ledger, NEW L \in Seq(Entry), CopiedFrom(L, ll),
         NEW l \in Seq(Entry), Begins(l, L)
  PROVE  CopiedFrom(l, ll)
<1> SUFFICES ASSUME NEW i \in 1..Len(l)
             PROVE  /\ i <= Len(ll[l[i].term])
                    /\ \A j \in 1..i : l[j] = ll[l[i].term][j]
  BY Zenon DEF CopiedFrom
<1>1. Len(l) \in Nat /\ Len(L) \in Nat /\ i \in 1..Len(L) /\ l[i] = L[i]
  BY DEF Begins
<1>2. \A j \in 1..i : l[j] = L[j]
  BY <1>1 DEF Begins
<1>3. i <= Len(ll[L[i].term]) /\ \A j \in 1..i : L[j] = ll[L[i].term][j]
  BY <1>1, Zenon DEF CopiedFrom
<1> QED
  BY <1>1, <1>2, <1>3, Zenon

(* So is a leader's log with one more entry of its term. *)
LEMMA AppendCopied ==
  ASSUME NEW ll \in Ledger, NEW l \in Seq(Entry), CopiedFrom(l, ll),
         NEW e \in Entry, ll[e.term] = Append(l, e)
  PROVE  CopiedFrom(Append(l, e), ll)
<1> DEFINE L == Append(l, e)
<1>1. /\ L \in Seq(Entry) /\ Len(L) = Len(l) + 1 /\ Len(l) \in Nat
      /\ L[Len(l) + 1] = e /\ \A j \in 1..Len(l) : L[j] = l[j]
  OBVIOUS
<1> SUFFICES ASSUME NEW i \in 1..Len(L)
             PROVE  /\ i <= Len(ll[L[i].term])
                    /\ \A j \in 1..i : L[j] = ll[L[i].term][j]
  BY Zenon DEF CopiedFrom
<1> HIDE DEF L
<1>2. CASE i = Len(l) + 1
  BY <1>1, <1>2 DEF L
<1>3. CASE i # Len(l) + 1
  <2>1. i \in 1..Len(l) /\ L[i] = l[i] /\ \A j \in 1..i : L[j] = l[j]
    BY <1>1, <1>3
  <2>2. i <= Len(ll[l[i].term]) /\ \A j \in 1..i : l[j] = ll[l[i].term][j]
    BY <2>1, Zenon DEF CopiedFrom
  <2> QED
    BY <2>1, <2>2, Zenon
<1> QED
  BY <1>2, <1>3, Zenon

(* A beginning of L, continued with the rest of a part of L. *)
LEMMA ContinueBegins ==
  ASSUME NEW L \in Seq(Entry), NEW kept \in Seq(Entry), Begins(kept, L),
         NEW prev \in Nat, prev <= Len(kept), NEW e \in Seq(Entry),
         Len(kept) <= prev + Len(e),
         \A k \in 1..Len(e) : prev + k <= Len(L) /\ e[k] = L[prev + k]
  PROVE  Begins(kept \o SubSeq(e, Len(kept) - prev + 1, Len(e)), L)
<1> DEFINE K == Len(kept)
           E == Len(e)
           new == SubSeq(e, K - prev + 1, E)
           r == kept \o new
<1>1. K \in Nat /\ E \in Nat /\ Len(L) \in Nat
  OBVIOUS
<1>2. new \in Seq(Entry) /\ Len(new) = prev + E - K
  <2>1. \A i \in K - prev + 1 .. E : e[i] \in Entry
    BY <1>1
  <2>2. K - prev + 1 \in Int /\ E \in Int
    BY <1>1
  <2>3. /\ new \in Seq(Entry)
        /\ Len(new) = IF K - prev + 1 <= E THEN E - (K - prev + 1) + 1 ELSE 0
    BY <2>1, <2>2
  <2>4. Len(new) = prev + E - K
    <3>1. K <= prev + E
      BY Zenon
    <3> HIDE DEF new, K, E
    <3>2. IF K - prev + 1 <= E THEN E - (K - prev + 1) + 1 = prev + E - K ELSE prev + E - K = 0
      BY <1>1, <3>1
    <3> QED
      BY <2>3, <3>2
  <2> QED
    BY <2>3, <2>4, Zenon
<1>3. \A i \in 1..Len(new) : new[i] = e[K - prev + i]
  BY <1>1, <1>2
<1>4. Len(r) = prev + E
  BY <1>1, <1>2
<1>5. \A j \in 1..K : r[j] = kept[j]
  BY <1>1, <1>2
<1>6. \A j \in K + 1 .. prev + E : r[j] = new[j - K]
  BY <1>1, <1>2
<1> HIDE DEF new, r
<1>7. ASSUME NEW j \in 1..Len(r) PROVE r[j] = L[j]
  <2>1. CASE j <= K
    BY <1>1, <1>4, <1>5, <2>1 DEF Begins
  <2>2. CASE j > K
    <3>1. j - K \in 1..Len(new) /\ j - prev \in 1..E /\ K - prev + (j - K) = j - prev
      BY <1>1, <1>2, <1>4, <2>2
    <3>2. r[j] = e[j - prev]
      <4>1. j \in K + 1 .. prev + E
        BY <1>1, <1>4, <2>2
      <4>2. r[j] = new[j - K] /\ new[j - K] = e[K - prev + (j - K)]
        BY <1>3, <1>6, <3>1, <4>1, Zenon
      <4> QED
        BY <3>1, <4>2, Zenon
    <3>3. \A k \in 1..E : e[k] = L[prev + k]
      BY Zenon
    <3>4. prev + (j - prev) = j
      BY <1>1
    <3> QED
      BY <3>1, <3>2, <3>3, <3>4, Zenon
  <2> QED
    BY <1>1, <1>4, <2>1, <2>2
<1>8. Len(r) <= Len(L)
  <2>1. CASE E = 0
    BY <1>1, <1>4, <2>1 DEF Begins
  <2>2. CASE E > 0
    BY <1>1, <1>4, <2>2
  <2> QED
    BY <1>1, <2>1, <2>2
<1> QED
  BY <1>7, <1>8, Zenon DEF Begins, r, new

(* Merging a part of L into l leaves l as it was, or makes it a beginning  *)
(* of L.                                                                   *)
LEMMA MergeBegins ==
  ASSUME SetFacts, NEW L \in Seq(Entry), NEW l \in Seq(Entry), NEW prev \in Nat, prev <= Len(l),
         prev <= Len(L), \A j \in 1..prev : l[j] = L[j],
         \A i \in 1..Len(l) : i <= Len(L) /\ l[i].term = L[i].term => \A j \in 1..i : l[j] = L[j],
         NEW e \in Seq(Entry),
         \A k \in 1..Len(e) : prev + k <= Len(L) /\ e[k] = L[prev + k]
  PROVE  append_new_entries(l, prev, e) = l \/ Begins(append_new_entries(l, prev, e), L)
<1> DEFINE C == {k \in 1..Len(e) : prev + k <= Len(l) /\ l[prev + k].term # e[k].term}
           kept == IF C = {} THEN l ELSE SubSeq(l, 1, prev + Min(C) - 1)
<1>0. append_new_entries(l, prev, e) = kept \o SubSeq(e, Len(kept) - prev + 1, Len(e))
  BY Zenon DEF append_new_entries
<1>1. Len(l) \in Nat /\ Len(e) \in Nat /\ Len(L) \in Nat
  OBVIOUS
<1>c. /\ C \in SUBSET Nat
      /\ \A k \in C : k \in 1..Len(e) /\ prev + k <= Len(l)
      /\ \A k \in 1..Len(e) : prev + k <= Len(l) /\ k \notin C => l[prev + k].term = e[k].term
  BY <1>1
<1>k. /\ C = {} => kept = l
      /\ C # {} => kept = SubSeq(l, 1, prev + Min(C) - 1)
  BY Zenon
<1> HIDE DEF C, kept
<1>2. ASSUME NEW k \in 0..Len(e), prev + k <= Len(l), k # 0 => k \notin C
      PROVE  prev + k <= Len(L) /\ \A j \in 1 .. prev + k : l[j] = L[j]
  <2>1. CASE k = 0
    BY <1>2, <2>1
  <2>2. CASE k # 0
    <3>1. k \in 1..Len(e) /\ prev + k \in 1..Len(l)
      BY <1>1, <1>2, <2>2
    <3>2. l[prev + k].term = e[k].term
      BY <1>2, <1>c, <2>2, <3>1, Zenon
    <3>3. prev + k <= Len(L) /\ e[k] = L[prev + k]
      BY <3>1, Zenon
    <3> QED
      BY <3>1, <3>2, <3>3, Zenon
  <2> QED
    BY <2>1, <2>2, Zenon
<1>3. CASE C = {} /\ Len(l) >= prev + Len(e)
  <2>1. SubSeq(e, Len(l) - prev + 1, Len(e)) = <<>>
    BY <1>1, <1>3
  <2>2. l \o <<>> = l
    BY <1>1
  <2> QED
    BY <1>0, <1>3, <1>k, <2>1, <2>2, Zenon
<1>4. CASE C = {} /\ Len(l) < prev + Len(e)
  <2>1. Begins(l, L)
    <3> DEFINE k == Len(l) - prev
    <3>1. k \in 0..Len(e) /\ prev + k = Len(l)
      BY <1>1, <1>4
    <3> HIDE DEF k
    <3>2. prev + k <= Len(L) /\ \A j \in 1 .. prev + k : l[j] = L[j]
      BY <1>1, <1>2, <1>4, <3>1
    <3> QED
      BY <3>1, <3>2, Zenon DEF Begins
  <2>2. Len(l) <= prev + Len(e)
    BY <1>1, <1>4
  <2>3. Begins(l \o SubSeq(e, Len(l) - prev + 1, Len(e)), L)
    BY <2>1, <2>2, ContinueBegins, Zenon
  <2> QED
    BY <1>0, <1>4, <1>k, <2>3, Zenon
<1>5. CASE C # {}
  <2> DEFINE c == Min(C)
             K == SubSeq(l, 1, prev + c - 1)
  <2>1. c \in C /\ \A k \in C : c <= k
    BY <1>5, <1>c, Smallest, Zenon
  <2>2. kept = K
    BY <1>5, <1>k, Zenon
  <2> HIDE DEF c
  <2>3. c \in 1..Len(e) /\ prev + c <= Len(l)
    BY <1>c, <2>1, Zenon
  <2>4. c - 1 \in 0..Len(e) /\ prev + (c - 1) <= Len(l) /\ c - 1 \notin C /\ prev + (c - 1) = prev + c - 1
    BY <1>1, <1>c, <2>1, <2>3
  <2>5. prev + c - 1 <= Len(L) /\ \A j \in 1 .. prev + c - 1 : l[j] = L[j]
    BY <1>2, <2>4, Zenon
  <2>6. K \in Seq(Entry) /\ Len(K) = prev + c - 1 /\ \A j \in 1 .. prev + c - 1 : K[j] = l[j]
    <3>1. \A i \in 1 .. prev + c - 1 : l[i] \in Entry
      BY <1>1, <2>3
    <3> DEFINE d == prev + c - 1
    <3>2. d \in Nat /\ (1 <= d \/ d = 0) /\ \A i \in 1..d : l[i] \in Entry
      BY <1>1, <2>3, <3>1
    <3> HIDE DEF d
    <3>3. SubSeq(l, 1, d) \in Seq(Entry) /\ Len(SubSeq(l, 1, d)) = d /\ \A j \in 1..d : SubSeq(l, 1, d)[j] = l[j]
      BY <3>2
    <3> QED
      BY <3>3, Zenon DEF d
  <2> HIDE DEF K
  <2>7. Begins(K, L)
    BY <2>5, <2>6, Zenon DEF Begins
  <2>8. prev <= Len(K) /\ Len(K) <= prev + Len(e)
    BY <1>1, <2>3, <2>6
  <2>9. Begins(K \o SubSeq(e, Len(K) - prev + 1, Len(e)), L)
    BY <2>6, <2>7, <2>8, ContinueBegins, Zenon
  <2> QED
    BY <1>0, <2>2, <2>9, Zenon
<1> QED
  BY <1>1, <1>3, <1>4, <1>5

(* What a leader sends is a part of its log. *)
LEMMA RpcPart ==
  ASSUME TypeOK, NEW n \in Node, NEW p \in Node, NEW l \in Seq(Entry)
  PROVE  PartOf(AppendEntriesRpc(n, p, l), l)
<1> DEFINE next == next_index[n][p]
           m == AppendEntriesRpc(n, p, l)
<1>1. next \in Nat \ {0} /\ Len(l) \in Nat
  BY DEF TypeOK
<1>2. /\ m.entries = SubSeq(l, next, Len(l)) /\ m.prev_log_index = next - 1
      /\ m.prev_log_term = log_term_at(l, next - 1)
  BY Zenon DEF AppendEntriesRpc
<1> HIDE DEF next, m
<1>3. ASSUME NEW k \in 1..Len(SubSeq(l, next, Len(l)))
      PROVE  next - 1 + k <= Len(l) /\ SubSeq(l, next, Len(l))[k] = l[next - 1 + k]
  <2>1. \A i \in next..Len(l) : l[i] \in Entry
    BY <1>1
  <2>2. /\ Len(SubSeq(l, next, Len(l))) = IF next <= Len(l) THEN Len(l) - next + 1 ELSE 0
        /\ \A i \in 1 .. Len(l) - next + 1 : SubSeq(l, next, Len(l))[i] = l[next + i - 1]
    BY <1>1, <2>1
  <2>3. next <= Len(l) /\ k \in 1 .. Len(l) - next + 1
    BY <1>1, <2>2
  <2>4. next + k - 1 = next - 1 + k
    BY <1>1, <2>3
  <2> QED
    BY <1>1, <2>2, <2>3, <2>4
<1>4. m.prev_log_term # 0 => next - 1 \in 1..Len(l) /\ l[next - 1].term = m.prev_log_term
  BY <1>1, <1>2, Zenon DEF log_term_at
<1> QED
  BY <1>2, <1>3, <1>4, Zenon DEF PartOf, m

-----------------------------------------------------------------------------
(* Steps *)

(* What is known of the types of a state. *)
LEMMA LogTypes ==
  ASSUME TypeOK
  PROVE  /\ leader_log \in Ledger /\ log \in [Node -> Seq(Entry)] /\ append_reqs \subseteq AppendReq
         /\ current_term \in [Node -> Nat] /\ role \in [Node -> {"Follower", "Candidate", "Leader"}]
         /\ Term \subseteq Nat
<1>1. Term \subseteq Nat
  BY MaxTermAssumption DEF Term
<1> QED
  BY <1>1, Zenon DEF TypeOK, Ledger

LEMMA Begun ==
  ASSUME NEW l \in Seq(Entry)
  PROVE  Begins(l, l) /\ Begins(<<>>, l)
BY DEF Begins

(* When the leaders' logs only grow, copies stay copies. *)
LEMMA CopiesKept ==
  ASSUME TypeOK, TypeOK', LogInv, SendersElected,
         \A t \in Term \ {0} : Begins(leader_log[t], leader_log'[t])
  PROVE  /\ \A n \in Node : CopiedFrom(log[n], leader_log')
         /\ \A t \in Term \ {0} : CopiedFrom(leader_log[t], leader_log')
         /\ \A m \in append_reqs : PartOf(m, leader_log'[m.term])
<1>1. /\ leader_log \in Ledger /\ leader_log' \in Ledger /\ log \in [Node -> Seq(Entry)]
      /\ append_reqs \subseteq AppendReq
  BY LogTypes, Zenon DEF TypeOK, Ledger
<1>2. ASSUME NEW n \in Node PROVE CopiedFrom(log[n], leader_log')
  <2>1. log[n] \in Seq(Entry) /\ CopiedFrom(log[n], leader_log)
    BY <1>1, Zenon DEF LogInv, LogsCopied
  <2> QED
    BY <1>1, <2>1, GrowCopied, Zenon
<1>3. ASSUME NEW t \in Term \ {0} PROVE CopiedFrom(leader_log[t], leader_log')
  <2>1. leader_log[t] \in Seq(Entry) /\ CopiedFrom(leader_log[t], leader_log)
    BY <1>1, Zenon DEF LogInv, LogsCopied, Ledger
  <2> QED
    BY <1>1, <2>1, GrowCopied, Zenon
<1>4. ASSUME NEW m \in append_reqs PROVE PartOf(m, leader_log'[m.term])
  <2>1. m \in AppendReq /\ PartOf(m, leader_log[m.term])
    BY <1>1, Zenon DEF LogInv, RpcsCopied
  <2>2. m.term \in Term \ {0}
    <3>1. m.term \in Term
      BY <2>1, Zenon DEF AppendReq
    <3>2. m.term >= 1
      BY Zenon DEF SendersElected
    <3> QED
      BY <3>1, <3>2
  <2>3. leader_log[m.term] \in Seq(Entry) /\ leader_log'[m.term] \in Seq(Entry)
    BY <1>1, <2>2, Zenon DEF Ledger
  <2> QED
    BY <2>1, <2>2, <2>3, GrowPart, Zenon
<1> QED
  BY <1>2, <1>3, <1>4, Zenon

LEMMA TakenKept ==
  ASSUME SetFacts, TypeOK, TypeOK', TermsTaken, votes \subseteq votes',
         \A p \in Node : /\ current_term[p] <= current_term'[p]
                         /\ role'[p] = "Candidate" /\ current_term'[p] = current_term[p]
                              => role[p] = "Candidate",
         \A t \in Term \ {0} :
           \/ leader_log'[t] = <<>> \/ leader_log[t] # <<>>
           \/ \E p \in Node : Elected(p, t)' /\ current_term'[p] = t /\ role'[p] # "Candidate"
  PROVE  TermsTaken'
<1> SUFFICES ASSUME NEW t \in Term \ {0}, leader_log'[t] # <<>>
             PROVE  \E n \in Node : /\ Elected(n, t)'
                                    /\ current_term'[n] >= t
                                    /\ current_term'[n] = t => role'[n] # "Candidate"
  BY Zenon DEF TermsTaken
<1>0. t \in Nat /\ current_term \in [Node -> Nat] /\ current_term' \in [Node -> Nat]
  BY LogTypes, TermsNat, Zenon
<1>1. CASE leader_log[t] # <<>>
  <2>1. PICK n \in Node : /\ Elected(n, t)
                          /\ current_term[n] >= t
                          /\ current_term[n] = t => role[n] # "Candidate"
    BY <1>1, Zenon DEF TermsTaken
  <2>2. Elected(n, t)'
    BY <2>1, MoreVotes, Zenon
  <2>3. current_term'[n] >= t /\ (current_term'[n] = t => role'[n] # "Candidate")
    BY <1>0, <2>1
  <2> QED
    BY <2>2, <2>3, Zenon
<1>2. CASE leader_log[t] = <<>>
  <2>1. PICK p \in Node : Elected(p, t)' /\ current_term'[p] = t /\ role'[p] # "Candidate"
    BY <1>2, Zenon
  <2> QED
    BY <1>0, <2>1
<1> QED
  BY <1>1, <1>2, Zenon

(* A step that touches no log and makes no leader. *)
LEMMA QuietLogs ==
  ASSUME SetFacts, TypeOK, TypeOK', LogInv, votes \subseteq votes',
         UNCHANGED <<log, leader_log, append_reqs>>,
         \A p \in Node : /\ current_term[p] <= current_term'[p]
                         /\ role'[p] = "Candidate" /\ current_term'[p] = current_term[p]
                              => role[p] = "Candidate"
                         /\ role'[p] = "Leader" =>
                              role[p] = "Leader" /\ current_term'[p] = current_term[p]
  PROVE  LogInv'
<1>1. LogsCopied' /\ RpcsCopied'
  BY Zenon DEF LogInv, LogsCopied, RpcsCopied
<1>2. LeadersRecorded'
  BY Zenon DEF LogInv, LeadersRecorded
<1>3. TermsTaken'
  <2>1. \A t \in Term \ {0} : leader_log'[t] = <<>> \/ leader_log[t] # <<>>
    BY Zenon
  <2> QED
    BY <2>1, TakenKept, Zenon DEF LogInv
<1> QED
  BY <1>1, <1>2, <1>3, Zenon DEF LogInv

(* A follower's log after handle_append_entries is still copied. *)
LEMMA MergeCopied ==
  ASSUME SetFacts, ElectionInv, LogInv, NEW n \in Node, NEW m \in append_reqs, prev_log_ok(log[n], m)
  PROVE  CopiedFrom(append_new_entries(log[n], m.prev_log_index, m.entries), leader_log)
<1> DEFINE l == log[n]
           L == leader_log[m.term]
           prev == m.prev_log_index
           r == append_new_entries(l, prev, m.entries)
<1>1. /\ TypeOK /\ leader_log \in Ledger /\ l \in Seq(Entry) /\ m \in AppendReq
      /\ Term \subseteq Nat
  <2>1. TypeOK
    BY Zenon DEF ElectionInv, TypeInv
  <2> QED
    BY <2>1, LogTypes, Zenon
<1>2. prev \in Nat /\ m.entries \in Seq(Entry) /\ m.term \in Term /\ m.prev_log_term \in Nat
  BY <1>1, Zenon DEF AppendReq
<1>3. m.term \in Term \ {0}
  BY <1>1, <1>2 DEF ElectionInv, SendersElected
<1>4. L \in Seq(Entry) /\ Len(L) \in Nat /\ Len(l) \in Nat
  <2>1. L \in Seq(Entry)
    BY <1>1, <1>3, Zenon DEF Ledger
  <2> HIDE DEF L, l
  <2> QED
    BY <1>1, <2>1
<1>5. CopiedFrom(l, leader_log) /\ CopiedFrom(L, leader_log) /\ PartOf(m, L)
  BY <1>3, Zenon DEF LogInv, LogsCopied, RpcsCopied
<1> HIDE DEF l, L
<1>6. \A i \in 1..Len(l) : i <= Len(L) /\ l[i].term = L[i].term => \A j \in 1..i : l[j] = L[j]
  BY <1>1, <1>4, <1>5, SameTerm, Zenon
<1>7. prev <= Len(l) /\ prev <= Len(L) /\ \A j \in 1..prev : l[j] = L[j]
  <2>1. CASE prev = 0
    BY <1>4, <2>1
  <2>2. CASE prev # 0
    <3>1. prev \in 1..Len(l) /\ l[prev].term = m.prev_log_term
      BY <1>2, <1>4, <2>2 DEF prev_log_ok, l
    <3>2. l[prev].term # 0
      <4>1. l[prev] \in Entry
        BY <1>1, <3>1
      <4> QED
        BY <4>1, Zenon DEF Entry
    <3>3. prev \in 1..Len(L) /\ L[prev].term = m.prev_log_term
      BY <1>5, <3>1, <3>2, Zenon DEF PartOf
    <3>4. \A j \in 1..prev : l[j] = L[j]
      BY <1>6, <3>1, <3>3
    <3>5. prev <= Len(l) /\ prev <= Len(L)
      BY <1>4, <3>1, <3>3
    <3> QED
      BY <3>4, <3>5, Zenon
  <2> QED
    BY <2>1, <2>2, Zenon
<1>8. r = l \/ Begins(r, L)
  BY <1>1, <1>2, <1>4, <1>5, <1>6, <1>7, MergeBegins, Zenon DEF PartOf
<1>9. r \in Seq(Entry)
  BY <1>1, <1>2, <1>7, MergeType DEF l
<1> QED
  BY <1>1, <1>4, <1>5, <1>8, <1>9, BeginCopied, Zenon DEF l

LEMMA InitLogInv == Init => LogInv
<1> SUFFICES ASSUME Init PROVE LogInv
  BY Zenon
<1>1. /\ log = [n \in Node |-> <<>>] /\ role = [n \in Node |-> "Follower"]
      /\ leader_log = [t \in Term \ {0} |-> <<>>] /\ append_reqs = {}
  BY Zenon DEF Init
<1>2. \A ll : CopiedFrom(<<>>, ll)
  BY DEF CopiedFrom
<1>3. LogsCopied
  BY <1>1, <1>2, Zenon DEF LogsCopied
<1>4. LeadersRecorded /\ TermsTaken /\ RpcsCopied
  BY <1>1, Zenon DEF LeadersRecorded, TermsTaken, RpcsCopied
<1> QED
  BY <1>3, <1>4, Zenon DEF LogInv

(* The AppendEntries of a leader whose log is l, recorded as its term's. *)
LEMMA SentCopied ==
  ASSUME TypeOK, NEW n \in Node, NEW l \in Seq(Entry), send_append_entries(n, l),
         NEW ll, ll[current_term[n]] = l, \A m \in append_reqs : PartOf(m, ll[m.term])
  PROVE  \A m \in append_reqs' : PartOf(m, ll[m.term])
<1> SUFFICES ASSUME NEW p \in Node
             PROVE  PartOf(AppendEntriesRpc(n, p, l), ll[AppendEntriesRpc(n, p, l).term])
  BY Zenon DEF send_append_entries, Peers
<1>1. AppendEntriesRpc(n, p, l).term = current_term[n]
  BY Zenon DEF AppendEntriesRpc
<1> QED
  BY <1>1, RpcPart, Zenon

(* become_leader: the term had no leader before, so its log starts here. *)
LEMMA BecomeLeaderLogInv ==
  ASSUME SetFacts, ElectionInv, ElectionInv', LogInv, NEW n \in Node, role[n] = "Candidate",
         role' = [role EXCEPT ![n] = "Leader"],
         leader_log' = [leader_log EXCEPT ![current_term[n]] = log[n]],
         UNCHANGED <<current_term, log, append_reqs, votes>>
  PROVE  LogInv'
<1> DEFINE t == current_term[n]
<1>t. /\ TypeOK /\ TypeOK' /\ SendersElected /\ OneVotePerTerm /\ LeadersElected'
      /\ role \in [Node -> {"Follower", "Candidate", "Leader"}]
  BY Zenon DEF ElectionInv, TypeInv, TypeOK
<1>l. /\ leader_log \in Ledger /\ leader_log' \in Ledger /\ log \in [Node -> Seq(Entry)]
      /\ current_term \in [Node -> Nat]
  BY <1>t, LogTypes, Zenon DEF Ledger
<1>1. t \in Term \ {0}
  <2>1. current_term[n] # 0 /\ TypeOK
    BY Zenon DEF ElectionInv, TypeInv
  <2> QED
    BY <2>1, Zenon DEF TypeOK
<1>2. Elected(n, t)
  <2>1. Elected(n, current_term[n])'
    BY <1>t, Zenon DEF LeadersElected
  <2> QED
    BY <2>1, Zenon DEF Elected, VotersFor
<1>3. leader_log[t] = <<>>
  <2> SUFFICES ASSUME leader_log[t] # <<>> PROVE FALSE
    BY Zenon
  <2>1. PICK p \in Node : /\ Elected(p, t)
                          /\ current_term[p] = t => role[p] # "Candidate"
    BY <1>1, Zenon DEF LogInv, TermsTaken
  <2>2. p = n
    BY <1>2, <1>t, <2>1, OneElected, Zenon
  <2> QED
    BY <2>1, <2>2, Zenon
<1>4. leader_log'[t] = log[n] /\ \A u \in Term \ {0} : u # t => leader_log'[u] = leader_log[u]
  BY <1>1, <1>l, Zenon DEF Ledger
<1>5. \A u \in Term \ {0} : Begins(leader_log[u], leader_log'[u])
  <2> TAKE u \in Term \ {0}
  <2>1. leader_log[u] \in Seq(Entry) /\ log[n] \in Seq(Entry)
    BY <1>l, Zenon DEF Ledger
  <2> QED
    BY <1>3, <1>4, <2>1, Begun, Zenon
<1>6. /\ \A p \in Node : CopiedFrom(log[p], leader_log')
      /\ \A u \in Term \ {0} : CopiedFrom(leader_log[u], leader_log')
      /\ \A m \in append_reqs : PartOf(m, leader_log'[m.term])
  BY <1>5, <1>t, CopiesKept, Zenon
<1>7. LogsCopied' /\ RpcsCopied'
  BY <1>4, <1>6, Zenon DEF LogsCopied, RpcsCopied
<1>8. LeadersRecorded'
  <2> SUFFICES ASSUME NEW p \in Node, role'[p] = "Leader"
               PROVE  log[p] = leader_log'[current_term[p]]
    BY Zenon DEF LeadersRecorded
  <2>1. CASE p = n
    BY <1>4, <2>1, Zenon
  <2>2. CASE p # n
    <3>1. role[p] = "Leader"
      BY <1>t, <2>2, Zenon
    <3>2. Elected(p, current_term[p])
      BY <3>1, Zenon DEF ElectionInv, LeadersElected
    <3>3. current_term[p] # t
      BY <1>2, <1>t, <2>2, <3>2, OneElected
    <3>4. current_term[p] \in Term \ {0}
      BY <1>t, <3>1, Zenon DEF ElectionInv, TypeInv, TypeOK
    <3> QED
      BY <1>4, <3>1, <3>3, <3>4 DEF LogInv, LeadersRecorded
  <2> QED
    BY <2>1, <2>2, Zenon
<1>9. TermsTaken'
  <2>1. Elected(n, t)' /\ current_term'[n] = t /\ role'[n] # "Candidate"
    BY <1>2, <1>t, Zenon DEF Elected, VotersFor
  <2>2. \A u \in Term \ {0} : leader_log'[u] = <<>> \/ leader_log[u] # <<>>
          \/ \E p \in Node : Elected(p, u)' /\ current_term'[p] = u /\ role'[p] # "Candidate"
    BY <1>4, <2>1, Zenon
  <2>3. \A p \in Node : /\ current_term[p] <= current_term'[p]
                        /\ role'[p] = "Candidate" => role[p] = "Candidate"
    BY <1>l, <1>t
  <2> QED
    BY <1>t, <2>2, <2>3, TakenKept DEF LogInv
<1> QED
  BY <1>7, <1>8, <1>9, Zenon DEF LogInv

(* append_proposal on the leader: one more entry of its term. *)
LEMMA ProposalLogInv ==
  ASSUME SetFacts, ElectionInv, ElectionInv', LogInv, NEW n \in Node, role[n] = "Leader",
         append_proposal(n)
  PROVE  LogInv'
<1> DEFINE t == current_term[n]
           e == [term |-> t, command |-> Head(proposal_rx[n])]
           l == Append(log[n], e)
<1>t. /\ TypeOK /\ TypeOK' /\ SendersElected /\ OneVotePerTerm /\ LeadersElected
      /\ role \in [Node -> {"Follower", "Candidate", "Leader"}]
  BY Zenon DEF ElectionInv, TypeInv, TypeOK
<1>l. /\ leader_log \in Ledger /\ leader_log' \in Ledger /\ log \in [Node -> Seq(Entry)]
      /\ current_term \in [Node -> Nat] /\ log[n] \in Seq(Entry)
  <2>1. leader_log' \in Ledger
    BY <1>t, Zenon DEF Ledger, TypeOK
  <2>2. leader_log \in Ledger /\ log \in [Node -> Seq(Entry)] /\ current_term \in [Node -> Nat]
    BY <1>t, LogTypes, Zenon
  <2> QED
    BY <2>1, <2>2
<1>u. /\ log' = [log EXCEPT ![n] = l] /\ leader_log' = [leader_log EXCEPT ![t] = l]
      /\ send_append_entries(n, l) /\ UNCHANGED <<role, current_term, votes>>
  <2>1. UNCHANGED <<role, current_term, votes>>
    BY Zenon DEF append_proposal, nodeVars
  <2>2. log' = [log EXCEPT ![n] = l] /\ leader_log' = [leader_log EXCEPT ![t] = l]
    BY Zenon DEF append_proposal
  <2>3. send_append_entries(n, l)
    BY Zenon DEF append_proposal
  <2> QED
    BY <2>1, <2>2, <2>3, Zenon
<1>1. t \in Term \ {0}
  <2>1. current_term[n] # 0 /\ TypeOK
    BY Zenon DEF ElectionInv, TypeInv
  <2> QED
    BY <2>1, Zenon DEF TypeOK
<1>2. e \in Entry /\ e.term = t
  <2>1. Head(proposal_rx[n]) \in Command
    <3>1. proposal_rx[n] \in Seq(Command) /\ proposal_rx[n] # <<>>
      BY <1>t, Zenon DEF TypeOK, append_proposal
    <3> QED
      BY <3>1
  <2> QED
    BY <1>1, <2>1, Zenon DEF Entry
<1> HIDE DEF e
<1>3. l \in Seq(Entry) /\ Begins(log[n], l)
  BY <1>2, <1>l DEF Begins
<1>4. /\ leader_log'[t] = l /\ \A u \in Term \ {0} : u # t => leader_log'[u] = leader_log[u]
      /\ leader_log[t] = log[n]
      /\ log'[n] = l /\ \A p \in Node : p # n => log'[p] = log[p]
  BY <1>1, <1>l, <1>u, Zenon DEF Ledger, LogInv, LeadersRecorded
<1>5. \A u \in Term \ {0} : Begins(leader_log[u], leader_log'[u])
  <2> TAKE u \in Term \ {0}
  <2>1. leader_log[u] \in Seq(Entry)
    BY <1>l, Zenon DEF Ledger
  <2> QED
    BY <1>3, <1>4, <2>1, Begun, Zenon
<1>6. /\ \A p \in Node : CopiedFrom(log[p], leader_log')
      /\ \A u \in Term \ {0} : CopiedFrom(leader_log[u], leader_log')
      /\ \A m \in append_reqs : PartOf(m, leader_log'[m.term])
  BY <1>5, <1>t, CopiesKept
<1>7. CopiedFrom(l, leader_log')
  <2>1. leader_log'[e.term] = Append(log[n], e)
    BY <1>2, <1>4
  <2> QED
    BY <1>2, <1>6, <1>l, <2>1, AppendCopied, Zenon
<1> HIDE DEF l
<1>8. LogsCopied'
  BY <1>4, <1>6, <1>7, Zenon DEF LogsCopied
<1>9. RpcsCopied'
  <2>1. \A m \in append_reqs' : PartOf(m, leader_log'[m.term])
    BY <1>3, <1>4, <1>6, <1>t, <1>u, SentCopied, Zenon
  <2> QED
    BY <2>1, Zenon DEF RpcsCopied
<1>10. LeadersRecorded'
  <2> SUFFICES ASSUME NEW p \in Node, role[p] = "Leader"
               PROVE  log'[p] = leader_log'[current_term[p]]
    BY <1>u, Zenon DEF LeadersRecorded
  <2>1. CASE p = n
    BY <1>4, <2>1, Zenon
  <2>2. CASE p # n
    <3>1. Elected(p, current_term[p]) /\ Elected(n, t)
      BY <1>t, Zenon DEF LeadersElected
    <3>2. current_term[p] # t
      BY <1>t, <2>2, <3>1, OneElected
    <3>3. current_term[p] \in Term \ {0}
      BY <1>t, Zenon DEF ElectionInv, TypeInv, TypeOK
    <3> QED
      BY <1>4, <2>2, <3>2, <3>3, Zenon DEF LogInv, LeadersRecorded
  <2> QED
    BY <2>1, <2>2, Zenon
<1>11. TermsTaken'
  <2>1. Elected(n, t)' /\ current_term'[n] = t /\ role'[n] # "Candidate"
    <3>1. Elected(n, t)
      BY <1>t, Zenon DEF LeadersElected
    <3> QED
      BY <1>u, <3>1, MoreVotes
  <2>2. \A u \in Term \ {0} : leader_log'[u] = <<>> \/ leader_log[u] # <<>>
          \/ \E p \in Node : Elected(p, u)' /\ current_term'[p] = u /\ role'[p] # "Candidate"
    BY <1>4, <2>1, Zenon
  <2>3. \A p \in Node : /\ current_term[p] <= current_term'[p]
                        /\ role'[p] = "Candidate" => role[p] = "Candidate"
    BY <1>l, <1>u
  <2> QED
    BY <1>t, <1>u, <2>2, <2>3, TakenKept, Zenon DEF LogInv
<1> QED
  BY <1>8, <1>9, <1>10, <1>11, Zenon DEF LogInv

LEMMA NextLogInv ==
  ASSUME SetFacts, ElectionInv, ElectionInv', LogInv, [Next]_vars
  PROVE  LogInv'
<1>t. /\ TypeOK /\ TypeOK' /\ SendersElected /\ current_term \in [Node -> Nat]
      /\ role \in [Node -> {"Follower", "Candidate", "Leader"}]
  <2>1. TypeOK /\ TypeOK' /\ SendersElected
    BY Zenon DEF ElectionInv, TypeInv
  <2> QED
    BY <2>1, LogTypes
<1>s. ASSUME NEW n \in Node, NEW term \in Nat, step_down(n, term)
      PROVE  \A p \in Node : /\ current_term[p] <= current_term'[p]
                             /\ role'[p] = "Candidate" => role[p] = "Candidate"
                             /\ role'[p] = "Leader" =>
                                  role[p] = "Leader" /\ current_term'[p] = current_term[p]
  BY <1>s, <1>t DEF step_down
<1>q. ASSUME votes' = votes, UNCHANGED <<log, leader_log, append_reqs>>,
             \/ UNCHANGED <<current_term, role>>
             \/ \E n \in Node : \E term \in Nat : step_down(n, term)
      PROVE  LogInv'
  <2>1. \A p \in Node : /\ current_term[p] <= current_term'[p]
                        /\ role'[p] = "Candidate" => role[p] = "Candidate"
                        /\ role'[p] = "Leader" =>
                             role[p] = "Leader" /\ current_term'[p] = current_term[p]
    BY <1>q, <1>s, <1>t
  <2> QED
    BY <1>q, <1>t, <2>1, QuietLogs, Zenon
<1>1. ASSUME NEW n \in Node, start_election(n) PROVE LogInv'
  <2>1. /\ current_term' = [current_term EXCEPT ![n] = @ + 1]
        /\ role' = [role EXCEPT ![n] = "Candidate"] /\ votes \subseteq votes'
        /\ UNCHANGED <<log, leader_log, append_reqs>>
    BY <1>1, Zenon DEF start_election, logVars, appendMsgs
  <2>2. \A p \in Node : /\ current_term[p] <= current_term'[p]
                        /\ role'[p] = "Candidate" /\ current_term'[p] = current_term[p]
                             => role[p] = "Candidate"
                        /\ role'[p] = "Leader" =>
                             role[p] = "Leader" /\ current_term'[p] = current_term[p]
    BY <1>t, <2>1
  <2> QED
    BY <1>t, <2>1, <2>2, QuietLogs, Zenon
<1>2. ASSUME NEW n \in Node, send_heartbeats(n) PROVE LogInv'
  <2>1. /\ role[n] = "Leader" /\ send_append_entries(n, log[n])
        /\ UNCHANGED <<log, leader_log, current_term, role, votes>>
    BY <1>2, Zenon DEF send_heartbeats, nodeVars, logVars, history
  <2>2. log[n] \in Seq(Entry) /\ leader_log[current_term[n]] = log[n]
    BY <1>t, <2>1 DEF TypeOK, LogInv, LeadersRecorded
  <2>3. \A m \in append_reqs' : PartOf(m, leader_log[m.term])
    BY <1>t, <2>1, <2>2, SentCopied, Zenon DEF LogInv, RpcsCopied
  <2>4. LogsCopied' /\ LeadersRecorded' /\ RpcsCopied'
    BY <2>1, <2>3, Zenon DEF LogInv, LogsCopied, LeadersRecorded, RpcsCopied
  <2>5. TermsTaken'
    BY <2>1, Zenon DEF LogInv, TermsTaken, Elected, VotersFor
  <2> QED
    BY <2>4, <2>5, Zenon DEF LogInv
<1>3. ASSUME NEW n \in Node, NEW m \in vote_reqs, handle_request_vote(n, m) PROVE LogInv'
  <2>0. m.term \in Nat
    BY <1>t, TermsNat, Zenon
  <2>1. /\ \/ UNCHANGED <<current_term, role>>
           \/ /\ m.term > current_term[n]
              /\ current_term' = [current_term EXCEPT ![n] = m.term]
              /\ role' = [role EXCEPT ![n] = "Follower"]
        /\ votes \subseteq votes' /\ UNCHANGED <<log, leader_log, append_reqs>>
    BY <1>3 DEF handle_request_vote, logVars, appendMsgs
  <2>2. \A p \in Node : /\ current_term[p] <= current_term'[p]
                        /\ role'[p] = "Candidate" => role[p] = "Candidate"
                        /\ role'[p] = "Leader" =>
                             role[p] = "Leader" /\ current_term'[p] = current_term[p]
    BY <1>t, <2>0, <2>1
  <2> QED
    BY <1>t, <2>1, <2>2, QuietLogs
<1>4. ASSUME NEW n \in Node, NEW m \in vote_resps, handle_vote_response(n, m) PROVE LogInv'
  <2>0. m.term \in Nat
    BY <1>t, MaxTermAssumption DEF TypeOK, VoteResp, Term
  <2>1. UNCHANGED <<log, append_reqs, votes>>
    BY <1>4, Zenon DEF handle_vote_response, logVars, appendMsgs
  <2>2. \/ step_down(n, m.term) /\ UNCHANGED leader_log
        \/ UNCHANGED <<current_term, role, leader_log>>
        \/ role[n] = "Candidate" /\ UNCHANGED current_term /\ become_leader(n)
    BY <1>4 DEF handle_vote_response, nodeVars
  <2>3. CASE role[n] = "Candidate" /\ UNCHANGED current_term /\ become_leader(n)
    BY <2>1, <2>3, BecomeLeaderLogInv, Zenon DEF become_leader
  <2> QED
    BY <1>q, <2>0, <2>1, <2>2, <2>3, Zenon
<1>5. ASSUME NEW n \in Node, NEW m \in append_reqs, handle_append_entries(n, m) PROVE LogInv'
  <2>0. m.term \in Nat
    BY <1>t, MaxTermAssumption DEF TypeOK, AppendReq, Term
  <2> DEFINE r == append_new_entries(log[n], m.prev_log_index, m.entries)
  <2>1. UNCHANGED <<leader_log, append_reqs, votes>>
    BY <1>5, Zenon DEF handle_append_entries, history
  <2>2. \/ UNCHANGED <<current_term, role, log>>
        \/ step_down(n, m.term) /\ UNCHANGED log
        \/ /\ prev_log_ok(log[n], m) /\ step_down(n, m.term)
           /\ log' = [log EXCEPT ![n] = r]
    BY <1>5, Zenon DEF handle_append_entries, nodeVars, logVars
  <2>3. CASE prev_log_ok(log[n], m) /\ step_down(n, m.term) /\ log' = [log EXCEPT ![n] = r]
    <3>1. CopiedFrom(r, leader_log)
      BY <2>3, MergeCopied, Zenon
    <3> HIDE DEF r
    <3>2. log'[n] = r /\ role'[n] = "Follower" /\ \A p \in Node : p # n => log'[p] = log[p]
      BY <1>t, <2>3 DEF TypeOK, step_down
    <3>3. LogsCopied' /\ RpcsCopied'
      BY <2>1, <3>1, <3>2, Zenon DEF LogInv, LogsCopied, RpcsCopied
    <3>4. \A p \in Node : /\ current_term[p] <= current_term'[p]
                          /\ role'[p] = "Candidate" => role[p] = "Candidate"
                          /\ role'[p] = "Leader" =>
                               role[p] = "Leader" /\ current_term'[p] = current_term[p]
      BY <1>s, <2>0, <2>3
    <3>5. LeadersRecorded'
      BY <2>1, <3>2, <3>4, Zenon DEF LogInv, LeadersRecorded
    <3>6. TermsTaken'
      <4>1. \A u \in Term \ {0} : leader_log'[u] = <<>> \/ leader_log[u] # <<>>
        BY <2>1, Zenon
      <4> QED
        BY <1>t, <2>1, <3>4, <4>1, TakenKept, Zenon DEF LogInv
    <3> QED
      BY <3>3, <3>5, <3>6, Zenon DEF LogInv
  <2> QED
    BY <1>q, <2>0, <2>1, <2>2, <2>3, Zenon
<1>6. ASSUME NEW n \in Node, NEW m \in append_resps, handle_append_response(n, m) PROVE LogInv'
  <2>0. m.term \in Nat
    BY <1>t, MaxTermAssumption DEF TypeOK, AppendResp, Term
  <2>1. /\ UNCHANGED <<log, leader_log, append_reqs, votes>>
        /\ step_down(n, m.term) \/ UNCHANGED <<current_term, role>>
    BY <1>6, Zenon DEF handle_append_response, nodeVars, logVars, appendMsgs, history
  <2> QED
    BY <1>q, <2>0, <2>1, Zenon
<1>7. ASSUME NEW n \in Node, NEW c \in Command, execute(n, c) PROVE LogInv'
  BY <1>7, <1>q, Zenon DEF execute, nodeVars, logVars, appendMsgs, history
<1>8. ASSUME NEW n \in Node, append_proposal(n) PROVE LogInv'
  <2>1. CASE role[n] = "Leader"
    BY <1>8, <2>1, ProposalLogInv, Zenon
  <2>2. CASE role[n] # "Leader"
    BY <1>8, <1>q, <2>2 DEF append_proposal, nodeVars
  <2> QED
    BY <2>1, <2>2
<1>9. CASE UNCHANGED vars
  BY <1>9, <1>q, Zenon DEF vars, nodeVars, logVars, appendMsgs, history
<1> QED
  BY <1>1, <1>2, <1>3, <1>4, <1>5, <1>6, <1>7, <1>8, <1>9, Zenon DEF Next

=============================================================================
