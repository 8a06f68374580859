-------------------------------- MODULE Raft --------------------------------
(***************************************************************************)
(* The Raft engine of src/src/consensus/mod.rs.                            *)
(*                                                                         *)
(* Every node runs one event loop (run_node): an iteration takes one event *)
(* (timer, peer RPC, vote response, append response, client proposal),     *)
(* runs its handler and then apply_committed.  One action below is one     *)
(* such iteration, so apply_committed is a conjunct of every action that   *)
(* can move commit_index.                                                  *)
(*                                                                         *)
(* The network.  Each RPC travels on a connection of its own with a        *)
(* timeout, so it may be delayed, reordered or lost; lost is "never        *)
(* handled".  A RequestVote is sent once per election and peer, hence it   *)
(* and its answer are removed when they are handled.  A leader repeats the *)
(* same AppendEntries on every heartbeat, so one element of append_reqs    *)
(* (and of append_resps) stands for any number of identical copies and is  *)
(* never removed.                                                          *)
(***************************************************************************)
EXTENDS Integers, Sequences, FiniteSets

CONSTANTS
  Node,     \* addresses of the Raft group: a node and its peers
  Command,  \* client write commands, each issued by a client of its own
  None,     \* voted_for when no vote was cast
  MaxTerm   \* bound on current_term, so that elections end

ASSUME NodeAssumption == IsFiniteSet(Node) /\ Node # {}
ASSUME NoneAssumption == None \notin Node
ASSUME MaxTermAssumption == MaxTerm \in Nat

VARIABLES
  current_term, voted_for, log,   \* "persistent" state, kept in memory only
  commit_index,
  applied,                        \* the entries applied so far, in order: the
                                  \* state machine, and last_applied its length
  next_index, match_index,
  role, votes_received,
  pending,                        \* log index -> command whose client waits
  is_leader,                      \* the flag shared with the Raft handle
  leader_hints,                   \* ids that spawned set_leader tasks write to
                                  \* leader_id: a reader may see any of them
  proposal_rx,                    \* channel of submitted proposals
  vote_reqs, vote_resps, append_reqs, append_resps,
  issued,                         \* commands whose client has an open request
  replies                         \* what the clients were answered

(* History, read by no action: every vote cast, and the log of the leader  *)
(* of each term as that leader last had it.                                *)
VARIABLES votes, leader_log

nodeVars == <<current_term, voted_for, role, is_leader, votes_received>>
logVars == <<log, commit_index, applied>>
leaderVars == <<next_index, match_index>>
clientVars == <<proposal_rx, pending, issued, replies>>
voteMsgs == <<vote_reqs, vote_resps>>
appendMsgs == <<append_reqs, append_resps>>
history == <<votes, leader_log>>
vars == <<nodeVars, logVars, leaderVars, clientVars, voteMsgs, appendMsgs,
          leader_hints, history>>

-----------------------------------------------------------------------------
(* Variant: the node itself is listed among its peers. *)
Peers_with_self(n) == Node

Peers(n) == Node \ {n}

quorum == Cardinality(Node) \div 2 + 1

(* As in FiniteSetsExt, without the folds that it brings into every proof. *)
Min(S) == CHOOSE i \in S : \A j \in S : i <= j
Max(S) == CHOOSE i \in S : \A j \in S : i >= j

Term == 0..MaxTerm

Entry == [term : Term \ {0}, command : Command]

(* The code's log has a sentinel of term 0 at index 0; here it is implicit *)
(* and the sequence starts at index 1.                                     *)
last_log_index(l) == Len(l)
log_term_at(l, i) == IF i \in 1..Len(l) THEN l[i].term ELSE 0
last_log_term(l) == log_term_at(l, Len(l))

Init ==
  /\ current_term = [n \in Node |-> 0]
  /\ voted_for = [n \in Node |-> None]
  /\ log = [n \in Node |-> <<>>]
  /\ commit_index = [n \in Node |-> 0]
  /\ applied = [n \in Node |-> <<>>]
  /\ next_index = [n \in Node |-> [p \in Node |-> 1]]
  /\ match_index = [n \in Node |-> [p \in Node |-> 0]]
  /\ role = [n \in Node |-> "Follower"]
  /\ votes_received = [n \in Node |-> 0]
  /\ pending = [n \in Node |-> <<>>]
  /\ is_leader = [n \in Node |-> FALSE]
  /\ leader_hints = [n \in Node |-> {}]
  /\ proposal_rx = [n \in Node |-> <<>>]
  /\ vote_reqs = {} /\ vote_resps = {}
  /\ append_reqs = {} /\ append_resps = {}
  /\ issued = {} /\ replies = {}
  /\ votes = {} /\ leader_log = [t \in Term \ {0} |-> <<>>]

-----------------------------------------------------------------------------
(* Role changes *)

(* Variant: the vote is forgotten on every step down, newer term or not. *)
step_down_forgetting_vote(n, term) ==
  /\ current_term' = [current_term EXCEPT ![n] = IF term > @ THEN term ELSE @]
  /\ voted_for' = [voted_for EXCEPT ![n] = None]
  /\ role' = [role EXCEPT ![n] = "Follower"]
  /\ is_leader' = [is_leader EXCEPT ![n] = FALSE]
  /\ UNCHANGED votes_received

(* step_down: adopt a newer term (forgetting the vote) and follow. Pending *)
(* proposals, next_index and match_index stay as they are.                 *)
step_down(n, term) ==
  /\ current_term' = [current_term EXCEPT ![n] = IF term > @ THEN term ELSE @]
  /\ voted_for' = [voted_for EXCEPT ![n] =
                     IF term > current_term[n] THEN None ELSE @]
  /\ role' = [role EXCEPT ![n] = "Follower"]
  /\ is_leader' = [is_leader EXCEPT ![n] = FALSE]
  /\ UNCHANGED votes_received

(* Variant: the node a vote went to is recorded as the leader. *)
set_leader_voted(n, id) == leader_hints' = [leader_hints EXCEPT ![n] = @ \cup {voted_for[n]}]

set_leader(n, id) == leader_hints' = [leader_hints EXCEPT ![n] = @ \cup {id}]

become_leader(n) ==
  /\ role' = [role EXCEPT ![n] = "Leader"]
  /\ is_leader' = [is_leader EXCEPT ![n] = TRUE]
  /\ set_leader(n, n)
  /\ next_index' = [next_index EXCEPT ![n] =
       [p \in Node |-> IF p \in Peers(n) THEN last_log_index(log[n]) + 1 ELSE @[p]]]
  /\ match_index' = [match_index EXCEPT ![n] =
       [p \in Node |-> IF p \in Peers(n) THEN 0 ELSE @[p]]]
  /\ leader_log' = [leader_log EXCEPT ![current_term[n]] = log[n]]

-----------------------------------------------------------------------------
(* Applying, sending and committing *)

(* Variant: an answered proposal stays pending. *)
apply_committed_keeping_pending(n, l, commit) ==
  LET answered == {i \in DOMAIN pending[n] : Len(applied[n]) < i /\ i <= commit}
  IN /\ applied' = [applied EXCEPT ![n] = @ \o SubSeq(l, Len(@) + 1, commit)]
     /\ replies' = replies \cup
           {[to |-> pending[n][i], kind |-> "applied", of |-> l[i].command] : i \in answered}
     /\ UNCHANGED pending

(* apply_committed, given the log and commit_index the handler leaves:     *)
(* apply every entry up to commit_index and answer whoever waits at its    *)
(* index.                                                                  *)
apply_committed(n, l, commit) ==
  LET answered == {i \in DOMAIN pending[n] : Len(applied[n]) < i /\ i <= commit}
  IN /\ applied' = [applied EXCEPT ![n] = @ \o SubSeq(l, Len(@) + 1, commit)]
     /\ replies' = replies \cup
           {[to |-> pending[n][i], kind |-> "applied", of |-> l[i].command] : i \in answered}
     /\ pending' = [pending EXCEPT ![n] =
           [i \in DOMAIN @ \ answered |-> @[i]]]

(* The AppendEntries n sends to peer p when its log is l. *)
AppendEntriesRpc(n, p, l) ==
  LET next == next_index[n][p]
      prev == next - 1
  IN [term |-> current_term[n], leader_id |-> n, to |-> p,
      prev_log_index |-> prev, prev_log_term |-> log_term_at(l, prev),
      entries |-> SubSeq(l, next, Len(l)), leader_commit |-> commit_index[n]]

send_append_entries(n, l) ==
  append_reqs' = append_reqs \cup {AppendEntriesRpc(n, p, l) : p \in Peers(n)}

(* commit_index after try_advance_commit with match_index[n] = mi. *)
try_advance_commit(n, mi) ==
  LET matching(i) == 1 + Cardinality({p \in Peers(n) : mi[p] >= i})
      able == {i \in commit_index[n] + 1 .. last_log_index(log[n]) :
                 /\ log_term_at(log[n], i) = current_term[n]
                 /\ matching(i) >= quorum}
  IN IF able = {} THEN commit_index[n] ELSE Max(able)

(* Variant: entries that a repeated AppendEntries brings again are appended again. *)
append_all_entries(l, prev, entries) ==
  LET conflicts == {k \in 1..Len(entries) :
                      prev + k <= Len(l) /\ l[prev + k].term # entries[k].term}
      kept == IF conflicts = {} THEN l ELSE SubSeq(l, 1, prev + Min(conflicts) - 1)
  IN kept \o entries

(* The log after the entries that follow prev are merged into l: truncated *)
(* at the first entry whose term conflicts, then extended.                 *)
append_new_entries(l, prev, entries) ==
  LET conflicts == {k \in 1..Len(entries) :
                      prev + k <= Len(l) /\ l[prev + k].term # entries[k].term}
      kept == IF conflicts = {} THEN l ELSE SubSeq(l, 1, prev + Min(conflicts) - 1)
  IN kept \o SubSeq(entries, Len(kept) - prev + 1, Len(entries))

-----------------------------------------------------------------------------
(* The event loop: one action per event of run_node *)

(* The election timer fires on a node that is not the leader. *)
start_election(n) ==
  /\ role[n] # "Leader"
  /\ current_term[n] < MaxTerm
  /\ current_term' = [current_term EXCEPT ![n] = @ + 1]
  /\ role' = [role EXCEPT ![n] = "Candidate"]
  /\ voted_for' = [voted_for EXCEPT ![n] = n]
  /\ votes_received' = [votes_received EXCEPT ![n] = 1]
  /\ vote_reqs' = vote_reqs \cup
       {[term |-> current_term[n] + 1, candidate_id |-> n, to |-> p,
         last_log_index |-> last_log_index(log[n]),
         last_log_term |-> last_log_term(log[n])] : p \in Peers(n)}
  /\ votes' = votes \cup {[voter |-> n, term |-> current_term[n] + 1, for |-> n]}
  /\ UNCHANGED <<is_leader, logVars, leaderVars, clientVars, vote_resps,
                 appendMsgs, leader_hints, leader_log>>

(* The heartbeat timer fires on the leader. *)
send_heartbeats(n) ==
  /\ role[n] = "Leader"
  /\ send_append_entries(n, log[n])
  /\ UNCHANGED <<nodeVars, logVars, leaderVars, clientVars, voteMsgs,
                 append_resps, leader_hints, history>>

(* Node n answers the RequestVote m. *)
log_up_to_date(n, m) ==
  \/ m.last_log_term > last_log_term(log[n])
  \/ /\ m.last_log_term = last_log_term(log[n])
     /\ m.last_log_index >= last_log_index(log[n])

(* Variant: an earlier vote of the same term is not looked at. *)
can_grant_again(n, m) ==
  /\ m.term >= current_term[n]
  /\ log_up_to_date(n, m)

can_grant(n, m) ==
  /\ m.term >= current_term[n]
  /\ m.term > current_term[n] \/ voted_for[n] \in {None, m.candidate_id}
  /\ log_up_to_date(n, m)

handle_request_vote(n, m) ==
  /\ m.to = n
  /\ IF m.term > current_term[n]
     THEN /\ current_term' = [current_term EXCEPT ![n] = m.term]
          /\ role' = [role EXCEPT ![n] = "Follower"]
          /\ is_leader' = [is_leader EXCEPT ![n] = FALSE]
     ELSE UNCHANGED <<current_term, role, is_leader>>
  /\ voted_for' = [voted_for EXCEPT ![n] =
       IF can_grant(n, m) THEN m.candidate_id
       ELSE IF m.term > current_term[n] THEN None ELSE @]
  /\ vote_reqs' = vote_reqs \ {m}
  /\ vote_resps' = vote_resps \cup
       {[from |-> n, to |-> m.candidate_id, term |-> current_term'[n],
         vote_granted |-> can_grant(n, m)]}
  /\ votes' = IF can_grant(n, m)
              THEN votes \cup {[voter |-> n, term |-> m.term, for |-> m.candidate_id]}
              ELSE votes
  /\ UNCHANGED <<votes_received, logVars, leaderVars, clientVars, appendMsgs,
                 leader_hints, leader_log>>

(* Candidate n takes the vote response m off its channel.  The code counts *)
(* granted answers and does not look at who sent them.                     *)
handle_vote_response(n, m) ==
  /\ m.to = n
  /\ vote_resps' = vote_resps \ {m}
  /\ \/ /\ m.term > current_term[n]
        /\ step_down(n, m.term)
        /\ UNCHANGED <<leaderVars, leader_hints, leader_log>>
     \/ /\ \/ m.term < current_term[n]
           \/ m.term = current_term[n] /\ (role[n] # "Candidate" \/ ~m.vote_granted)
        /\ UNCHANGED <<nodeVars, leaderVars, leader_hints, leader_log>>
     \/ /\ m.term = current_term[n] /\ role[n] = "Candidate" /\ m.vote_granted
        /\ votes_received' = [votes_received EXCEPT ![n] = @ + 1]
        /\ UNCHANGED <<current_term, voted_for>>
        /\ IF votes_received[n] + 1 >= quorum
           THEN become_leader(n)
           ELSE UNCHANGED <<role, is_leader, leaderVars, leader_hints, leader_log>>
  /\ UNCHANGED <<logVars, clientVars, vote_reqs, appendMsgs, votes>>

(* Node n answers the AppendEntries m. *)
prev_log_ok(l, m) ==
  \/ m.prev_log_index = 0
  \/ /\ m.prev_log_index > 0
     /\ m.prev_log_index <= Len(l)
     /\ l[m.prev_log_index].term = m.prev_log_term

(* The match_index a follower reports: the end of its own log. *)
reported_match(m, l) == last_log_index(l)

AppendEntriesResp(n, m, term, success, match) ==
  append_resps' = append_resps \cup
    {[from |-> n, to |-> m.leader_id, term |-> term, success |-> success,
      match_index |-> match]}

handle_append_entries(n, m) ==
  /\ m.to = n
  /\ \/ /\ m.term < current_term[n]
        /\ AppendEntriesResp(n, m, current_term[n], FALSE, 0)
        /\ UNCHANGED <<nodeVars, logVars, leader_hints, pending, replies>>
     \/ /\ m.term >= current_term[n] /\ ~prev_log_ok(log[n], m)
        /\ step_down(n, m.term)
        /\ set_leader(n, m.leader_id)
        /\ AppendEntriesResp(n, m, m.term, FALSE, 0)
        /\ UNCHANGED <<logVars, pending, replies>>
     \/ /\ m.term >= current_term[n] /\ prev_log_ok(log[n], m)
        /\ step_down(n, m.term)
        /\ set_leader(n, m.leader_id)
        /\ LET l == append_new_entries(log[n], m.prev_log_index, m.entries)
               commit == IF m.leader_commit > commit_index[n]
                         THEN Min({m.leader_commit, last_log_index(l)})
                         ELSE commit_index[n]
           IN /\ log' = [log EXCEPT ![n] = l]
              /\ commit_index' = [commit_index EXCEPT ![n] = commit]
              /\ AppendEntriesResp(n, m, m.term, TRUE, reported_match(m, l))
              /\ apply_committed(n, l, commit)
  /\ UNCHANGED <<leaderVars, proposal_rx, issued, voteMsgs, append_reqs, history>>

(* Variant: next_index is backed up without stopping at 1. *)
backed_up_unguarded(next) == next - 1

(* next_index after a rejection. *)
backed_up(next) == IF next > 1 THEN next - 1 ELSE next

(* Node n takes the append response m off its channel. *)
handle_append_response(n, m) ==
  /\ m.to = n
  /\ \/ /\ m.term > current_term[n]
        /\ step_down(n, m.term)
        /\ UNCHANGED <<leaderVars, logVars, pending, replies>>
     \/ /\ m.term <= current_term[n] /\ role[n] = "Leader" /\ m.success
        /\ next_index' = [next_index EXCEPT ![n][m.from] = m.match_index + 1]
        /\ match_index' = [match_index EXCEPT ![n][m.from] = m.match_index]
        /\ LET commit == try_advance_commit(n, match_index'[n])
           IN /\ commit_index' = [commit_index EXCEPT ![n] = commit]
              /\ apply_committed(n, log[n], commit)
        /\ UNCHANGED <<nodeVars, log>>
     \/ /\ m.term <= current_term[n] /\ role[n] = "Leader" /\ ~m.success
        /\ next_index' = [next_index EXCEPT ![n][m.from] = backed_up(@)]
        /\ UNCHANGED <<nodeVars, match_index, logVars, pending, replies>>
  /\ UNCHANGED <<proposal_rx, issued, voteMsgs, appendMsgs, leader_hints, history>>

(* A client's write reaches node n.  execute reads the is_leader flag and  *)
(* only then hands the command to propose; a MOVED answer changes nothing. *)
execute(n, c) ==
  /\ c \notin issued
  /\ is_leader[n]
  /\ issued' = issued \cup {c}
  /\ proposal_rx' = [proposal_rx EXCEPT ![n] = Append(@, c)]
  /\ UNCHANGED <<nodeVars, logVars, leaderVars, pending, replies, voteMsgs,
                 appendMsgs, leader_hints, history>>

(* Node n takes a proposal off its channel: the leader appends it, records *)
(* the waiting client (dropping one that already waits at that index) and  *)
(* sends it to every peer; any other node answers MOVED and the client may *)
(* issue the command again.                                                *)
append_proposal(n) ==
  /\ proposal_rx[n] # <<>>
  /\ proposal_rx' = [proposal_rx EXCEPT ![n] = Tail(@)]
  /\ LET c == Head(proposal_rx[n])
         l == Append(log[n], [term |-> current_term[n], command |-> c])
         index == Len(l)
     IN \/ /\ role[n] = "Leader"
           /\ log' = [log EXCEPT ![n] = l]
           /\ pending' = [pending EXCEPT ![n] =
                [i \in DOMAIN @ \cup {index} |-> IF i = index THEN c ELSE @[i]]]
           /\ replies' = replies \cup
                {[to |-> pending[n][i], kind |-> "dropped", of |-> pending[n][i]] :
                   i \in {index} \cap DOMAIN pending[n]}
           /\ send_append_entries(n, l)
           /\ leader_log' = [leader_log EXCEPT ![current_term[n]] = l]
           /\ UNCHANGED issued
        \/ /\ role[n] # "Leader"
           /\ issued' = issued \ {c}
           /\ UNCHANGED <<log, pending, replies, append_reqs, leader_log>>
  /\ UNCHANGED <<nodeVars, commit_index, applied, leaderVars, voteMsgs,
                 append_resps, leader_hints, votes>>

Next ==
  \/ \E n \in Node : start_election(n)
  \/ \E n \in Node : send_heartbeats(n)
  \/ \E n \in Node : \E m \in vote_reqs : handle_request_vote(n, m)
  \/ \E n \in Node : \E m \in vote_resps : handle_vote_response(n, m)
  \/ \E n \in Node : \E m \in append_reqs : handle_append_entries(n, m)
  \/ \E n \in Node : \E m \in append_resps : handle_append_response(n, m)
  \/ \E n \in Node : \E c \in Command : execute(n, c)
  \/ \E n \in Node : append_proposal(n)

Spec == Init /\ [][Next]_vars

-----------------------------------------------------------------------------
(* Properties *)

VoteReq == [term : Term, candidate_id : Node, to : Node,
            last_log_index : Nat, last_log_term : Term]
VoteResp == [from : Node, to : Node, term : Term, vote_granted : BOOLEAN]
AppendReq == [term : Term, leader_id : Node, to : Node, prev_log_index : Nat,
              prev_log_term : Term, entries : Seq(Entry), leader_commit : Nat]
AppendResp == [from : Node, to : Node, term : Term, success : BOOLEAN,
               match_index : Nat]
Vote == [voter : Node, term : Term, for : Node]
Reply == [to : Command, kind : {"applied", "dropped"}, of : Command]

(* Node c received the votes of a majority for term t. *)
VotersFor(c, t) == {v \in Node : [voter |-> v, term |-> t, for |-> c] \in votes}
Elected(c, t) == Cardinality(VotersFor(c, t)) >= quorum

(* Each node's pending proposals are a partial function from indexes. *)
PendingType ==
  /\ pending = [n \in Node |-> [i \in DOMAIN pending[n] |-> pending[n][i]]]
  /\ \A n \in Node : \A i \in DOMAIN pending[n] : i \in Nat /\ pending[n][i] \in Command

(* The type invariant of RaftNode, its channels and its RPCs. *)
TypeOK ==
  /\ current_term \in [Node -> Term]
  /\ voted_for \in [Node -> Node \cup {None}]
  /\ log \in [Node -> Seq(Entry)]
  /\ commit_index \in [Node -> Nat]
  /\ applied \in [Node -> Seq(Entry)]
  /\ next_index \in [Node -> [Node -> Nat \ {0}]]
  /\ match_index \in [Node -> [Node -> Nat]]
  /\ role \in [Node -> {"Follower", "Candidate", "Leader"}]
  /\ votes_received \in [Node -> Nat]
  /\ PendingType
  /\ is_leader \in [Node -> BOOLEAN]
  /\ leader_hints \in [Node -> SUBSET Node]
  /\ proposal_rx \in [Node -> Seq(Command)]
  /\ vote_reqs \subseteq VoteReq /\ vote_resps \subseteq VoteResp
  /\ append_reqs \subseteq AppendReq /\ append_resps \subseteq AppendResp
  /\ issued \subseteq Command /\ replies \subseteq Reply
  /\ votes \subseteq Vote /\ leader_log \in [Term \ {0} -> Seq(Entry)]

(* Two nodes are never leader of the same term, although votes are counted *)
(* without looking at the sender and answers arrive in any order           *)
(* (handle_vote_response, become_leader).                                  *)
ElectionSafety ==
  \A a, b \in Node :
    role[a] = "Leader" /\ role[b] = "Leader" /\ current_term[a] = current_term[b]
      => a = b

(* No node votes for two candidates in one term, also when it steps down   *)
(* and hears of the term several times (step_down, handle_request_vote).   *)
OneVotePerTerm ==
  \A v, w \in votes : v.voter = w.voter /\ v.term = w.term => v = w

(* Two logs that hold an entry of the same term at the same index agree up *)
(* to it, whatever mixture of old and new leaders wrote them               *)
(* (handle_append_entries's consistency check and truncation).             *)
LogMatching ==
  \A a, b \in Node : \A i \in 1..Len(log[a]) :
    i <= Len(log[b]) /\ log[a][i].term = log[b][i].term
      => SubSeq(log[a], 1, i) = SubSeq(log[b], 1, i)

(* A leader yields only to a newer term, and until then its log is only    *)
(* extended: handle_append_entries steps down and truncates for any RPC    *)
(* of the leader's own term, so this rests on no such RPC ever reaching it.*)
LeaderAppendOnly ==
  [][\A n \in Node :
       role[n] = "Leader" /\ current_term'[n] = current_term[n]
         => /\ role'[n] = "Leader"
            /\ Len(log[n]) <= Len(log'[n])
            /\ SubSeq(log'[n], 1, Len(log[n])) = log[n]]_vars

(* The leader id a MOVED answer may carry (leader_id_shared, written by    *)
(* spawned tasks in any order) always names a node that a majority elected *)
(* in some term the answering node has reached.                            *)
HintWasLeader ==
  \A n \in Node : \A h \in leader_hints[n] :
    \E t \in 1..current_term[n] : Elected(h, t)

(* Where the client of command c is: the positions of c in the proposal    *)
(* channels, the indexes it waits at, and the answers it got.              *)
Places(c) ==
  LET queued(n) == {<<"queued", n, i>> : i \in {i \in 1..Len(proposal_rx[n]) : proposal_rx[n][i] = c}}
      waiting(n) == {<<"waiting", n, i>> : i \in {i \in DOMAIN pending[n] : pending[n][i] = c}}
      answered == {<<"answered", r.kind, r.of>> : r \in {r \in replies : r.to = c}}
  IN answered \cup UNION {queued(n) \cup waiting(n) : n \in Node}

(* An open client request is in exactly one place: a proposal channel, one *)
(* pending slot of one node, or answered once.  Elections, truncation and  *)
(* re-used log indexes neither lose a waiting client nor answer it twice   *)
(* (append_proposal, apply_committed).                                     *)
ClientAccounting == \A c \in issued : \E p \in Places(c) : Places(c) = {p}

(* What docs/Architecture.md promises: a command is acknowledged only      *)
(* after its entry is on a majority.  A leader's commit_index covers an    *)
(* entry of its own term only if a quorum of logs holds that entry.        *)
CommittedOnMajority ==
  \A n \in Node : role[n] = "Leader" =>
    \A i \in 1..commit_index[n] :
      log[n][i].term = current_term[n] =>
        Cardinality({p \in Node : i <= Len(log[p]) /\ log[p][i] = log[n][i]}) >= quorum

(* What the comment on Raft::propose promises: a client is answered with   *)
(* the result of the command it submitted.                                 *)
ReplyIsOwn == \A r \in replies : r.of = r.to

=============================================================================
