------------------------------- MODULE Health -------------------------------
(***************************************************************************)
(* Failure detection, gossip and auto-heal of the cluster (src/src/cluster *)
(* phase 8, and CLUSTER GOSSIP and CLUSTER SYNC of src/src/commands).      *)
(*                                                                         *)
(* Every node runs one heartbeat task.  It pings the peers of its          *)
(* configuration in order, gossips its health table to a peer that answers *)
(* and, at the third miss in a row, removes the peer from its              *)
(* configuration and tells the others.  The handlers of GOSSIP and SYNC    *)
(* run concurrently with the task: state the task read before a ping or    *)
(* before taking a lock may have changed after it.                         *)
(***************************************************************************)
EXTENDS Integers, FiniteSets, FiniteSetsExt

CONSTANTS
  Node,            \* addresses, numbered in the order the configuration sorts them
  FAIL_THRESHOLD,  \* consecutive misses before a peer is Failed
  MaxCrashes,
  MaxFaults,       \* bound on restarts, pings of a running node that time out and lost SYNCs together
  MaxInFlight      \* bound on messages under way

ASSUME NodeAssumption == Node \subseteq Nat /\ IsFiniteSet(Node)
ASSUME ThresholdAssumption == FAIL_THRESHOLD \in Nat \ {0}

VARIABLES
  up,        \* the node's process runs
  config,    \* the node list of each node's routing configuration
  health,    \* each node's health table
  task,      \* each node's heartbeat task
  net,       \* GOSSIP and SYNC messages under way
  crashes, restarts, timeouts, lost

(* History: misses in a row each node has seen of each other one, and the  *)
(* nodes somebody missed FAIL_THRESHOLD times in a row.                    *)
VARIABLES streak, condemned

counters == <<crashes, restarts, timeouts, lost>>
vars == <<up, config, health, task, net, counters, streak, condemned>>

more_faults == restarts + timeouts + lost < MaxFaults

-----------------------------------------------------------------------------
(* The health table: none is an address without an entry. *)
NodeState == {"none", "alive", "suspected", "failed"}
NodeHealth == [state : NodeState, missed : 0..FAIL_THRESHOLD]
none == [state |-> "none", missed |-> 0]
default_health == [state |-> "alive", missed |-> 0]

or_default(h) == IF h.state = "none" THEN default_health ELSE h

(* Variant: the state goes back and the counter does not. *)
mark_alive_keeping_missed(h) == [or_default(h) EXCEPT !.state = "alive"]

mark_alive(h) == default_health

(* Variant: declared failed one miss late. *)
record_miss_late(h) ==
  LET missed == or_default(h).missed + 1
  IN [state |-> IF missed > FAIL_THRESHOLD THEN "failed" ELSE "suspected",
      missed |-> missed]

record_miss(h) ==
  LET missed == or_default(h).missed + 1
  IN [state |-> IF missed >= FAIL_THRESHOLD THEN "failed" ELSE "suspected",
      missed |-> missed]

sync_nodes(table, addrs) ==
  [a \in Node |-> IF a \in addrs THEN or_default(table[a]) ELSE none]

worse(old, new) ==
  \/ old = "alive" /\ new \in {"suspected", "failed"}
  \/ old = "suspected" /\ new = "failed"

(* Variant: what the peer says replaces what the node knew. *)
apply_gossip_replacing(table, csv) ==
  [a \in Node |-> IF csv[a] = "none" THEN table[a]
                  ELSE [or_default(table[a]) EXCEPT !.state = csv[a]]]

apply_gossip(table, csv) ==
  [a \in Node |->
     IF csv[a] = "none" THEN table[a]
     ELSE LET h == or_default(table[a])
          IN IF worse(h.state, csv[a]) THEN [h EXCEPT !.state = csv[a]] ELSE h]

to_csv(table) == [a \in Node |-> table[a].state]

-----------------------------------------------------------------------------
(* The heartbeat task: between two peers (asleep when there is none left), *)
(* waiting for the answer of one, about to write the configuration it      *)
(* computed, or telling the other nodes of it.                             *)
asleep == [pc |-> "round", peers |-> {}, peer |-> 0, nodes |-> {}, tell |-> {}]
Task == [pc : {"round", "ping", "heal", "tell"}, peers : SUBSET Node,
         peer : Node \cup {0}, nodes : SUBSET Node, tell : SUBSET Node]

Message ==
  [type : {"GOSSIP"}, to : Node, csv : [Node -> NodeState]]
    \cup [type : {"SYNC"}, to : Node, nodes : SUBSET Node]

(* A node starts with its peers alive and no entry of its own. *)
fresh_table(n) == [a \in Node |-> IF a = n THEN none ELSE default_health]

Init ==
  /\ up = [n \in Node |-> TRUE]
  /\ config = [n \in Node |-> Node]
  /\ health = [n \in Node |-> fresh_table(n)]
  /\ task = [n \in Node |-> asleep]
  /\ net = {}
  /\ crashes = 0 /\ restarts = 0 /\ timeouts = 0 /\ lost = 0
  /\ streak = [n \in Node |-> [m \in Node |-> 0]] /\ condemned = {}

(* The interval has passed: the task reads the node list and brings the    *)
(* health table in line with it.                                           *)
begin_round(n) ==
  /\ up[n] /\ task[n] = asleep
  /\ task' = [task EXCEPT ![n].peers = config[n] \ {n}]
  /\ health' = [health EXCEPT ![n] = sync_nodes(@, config[n])]
  /\ UNCHANGED <<up, config, net, counters, streak, condemned>>

(* Variant: a suspected peer is skipped, too. *)
next_peer_alive(n) ==
  LET p == Min(task[n].peers)
  IN /\ up[n] /\ task[n].pc = "round" /\ task[n].peers # {}
     /\ task' = IF health[n][p].state # "alive"
                THEN [task EXCEPT ![n].peers = @ \ {p}]
                ELSE [task EXCEPT ![n].peers = @ \ {p}, ![n].pc = "ping", ![n].peer = p]
     /\ UNCHANGED <<up, config, health, net, counters, streak, condemned>>

(* The next peer is skipped when it is failed, else pinged. *)
next_peer(n) ==
  LET p == Min(task[n].peers)
  IN /\ up[n] /\ task[n].pc = "round" /\ task[n].peers # {}
     /\ task' = IF health[n][p].state = "failed"
                THEN [task EXCEPT ![n].peers = @ \ {p}]
                ELSE [task EXCEPT ![n].peers = @ \ {p}, ![n].pc = "ping", ![n].peer = p]
     /\ UNCHANGED <<up, config, health, net, counters, streak, condemned>>

(* The peer answers: it is marked alive and sent the health table; a       *)
(* gossip that fails is forgotten.                                         *)
ping_ok(n) ==
  LET p == task[n].peer
      table == [health[n] EXCEPT ![p] = mark_alive(@)]
  IN /\ up[n] /\ task[n].pc = "ping" /\ up[p]
     /\ health' = [health EXCEPT ![n] = table]
     /\ \/ /\ Cardinality(net) < MaxInFlight
           /\ net' = net \cup {[type |-> "GOSSIP", to |-> p, csv |-> to_csv(table)]}
        \/ UNCHANGED net
     /\ task' = [task EXCEPT ![n].pc = "round", ![n].peer = 0]
     /\ streak' = [streak EXCEPT ![n][p] = 0]
     /\ UNCHANGED <<up, config, counters, condemned>>

(* No answer in time.  A peer that this makes Failed is healed: auto_heal  *)
(* computes the node list without it, unless it is gone already.           *)
ping_missed(n) ==
  LET p == task[n].peer
      h == record_miss(health[n][p])
      run == Min({streak[n][p] + 1, FAIL_THRESHOLD})
      rest == config[n] \ {p}
      heal == h.state = "failed" /\ p \in config[n] /\ rest # {} /\ n \in rest
  IN /\ up[n] /\ task[n].pc = "ping"
     /\ \/ ~up[p] /\ UNCHANGED timeouts
        \/ up[p] /\ more_faults /\ timeouts' = timeouts + 1
     /\ health' = [health EXCEPT ![n][p] = h]
     /\ streak' = [streak EXCEPT ![n][p] = run]
     /\ condemned' = IF run = FAIL_THRESHOLD THEN condemned \cup {p} ELSE condemned
     /\ task' = IF heal
                THEN [task EXCEPT ![n].pc = "heal", ![n].nodes = rest, ![n].tell = rest \ {n}]
                ELSE [task EXCEPT ![n].pc = "round", ![n].peer = 0]
     /\ UNCHANGED <<up, config, net, crashes, restarts, lost>>

(* The rest of the round, when there is nobody (more) to tell. *)
resume(t) == IF t.tell = {} THEN [asleep EXCEPT !.peers = t.peers] ELSE [t EXCEPT !.pc = "tell"]

(* auto_heal takes the write lock. *)
heal(n) ==
  /\ up[n] /\ task[n].pc = "heal"
  /\ config' = [config EXCEPT ![n] = task[n].nodes]
  /\ task' = [task EXCEPT ![n] = resume(@)]
  /\ UNCHANGED <<up, health, net, counters, streak, condemned>>

(* auto_heal sends the node list to the next peer that is not failed; the  *)
(* message may get lost.                                                   *)
tell(n) ==
  LET p == Min(task[n].tell)
      told == [task[n] EXCEPT !.tell = @ \ {p}]
  IN /\ up[n] /\ task[n].pc = "tell"
     /\ task' = [task EXCEPT ![n] = resume(told)]
     /\ \/ (health[n][p].state = "failed" \/ ~up[p]) /\ UNCHANGED <<net, lost>>
        \/ /\ health[n][p].state # "failed" /\ up[p]
           /\ net' = net \cup {[type |-> "SYNC", to |-> p, nodes |-> task[n].nodes]}
           /\ UNCHANGED lost
        \/ /\ health[n][p].state # "failed" /\ up[p]
           /\ more_faults /\ lost' = lost + 1
           /\ UNCHANGED net
     /\ UNCHANGED <<up, config, health, crashes, restarts, timeouts, streak, condemned>>

-----------------------------------------------------------------------------
(* The CLUSTER handlers *)

receive_gossip(m) ==
  /\ m.type = "GOSSIP" /\ up[m.to]
  /\ net' = net \ {m}
  /\ health' = [health EXCEPT ![m.to] = apply_gossip(@, m.csv)]
  /\ UNCHANGED <<up, config, task, counters, streak, condemned>>

(* A list without the receiver is refused. *)
receive_sync(m) ==
  /\ m.type = "SYNC" /\ up[m.to]
  /\ net' = net \ {m}
  /\ config' = IF m.to \in m.nodes THEN [config EXCEPT ![m.to] = m.nodes] ELSE config
  /\ UNCHANGED <<up, health, task, counters, streak, condemned>>

(* Its memory and the connections to it are gone; started again from the   *)
(* command line, it has all nodes and all alive.                           *)
crash(n) ==
  /\ up[n] /\ crashes < MaxCrashes
  /\ crashes' = crashes + 1
  /\ up' = [up EXCEPT ![n] = FALSE]
  /\ task' = [task EXCEPT ![n] = asleep]
  /\ config' = [config EXCEPT ![n] = Node]
  /\ health' = [health EXCEPT ![n] = fresh_table(n)]
  /\ streak' = [streak EXCEPT ![n] = [m \in Node |-> 0]]
  /\ net' = {m \in net : m.to # n}
  /\ UNCHANGED <<restarts, timeouts, lost, condemned>>

restart(n) ==
  /\ ~up[n] /\ more_faults
  /\ restarts' = restarts + 1
  /\ up' = [up EXCEPT ![n] = TRUE]
  /\ UNCHANGED <<config, health, task, net, crashes, timeouts, lost, streak, condemned>>

heartbeat(n) ==
  begin_round(n) \/ next_peer(n) \/ ping_ok(n) \/ ping_missed(n) \/ heal(n) \/ tell(n)

Next ==
  \/ \E n \in Node : heartbeat(n) \/ crash(n) \/ restart(n)
  \/ \E m \in net : receive_gossip(m) \/ receive_sync(m)

Spec == Init /\ [][Next]_vars

(* The tasks of a running node are scheduled and a SYNC that is not lost   *)
(* arrives; nothing needs to crash and no gossip needs to arrive.          *)
Fairness ==
  \A n \in Node :
    /\ WF_vars(heartbeat(n))
    /\ WF_vars(\E m \in net : m.to = n /\ receive_sync(m))

FairSpec == Spec /\ Fairness

-----------------------------------------------------------------------------
(* Properties *)

(* The types; a peer with FAIL_THRESHOLD misses on record is Failed, so    *)
(* the counter stops there.                                                *)
TypeOK ==
  /\ up \in [Node -> BOOLEAN]
  /\ config \in [Node -> SUBSET Node]
  /\ health \in [Node -> [Node -> NodeHealth]]
  /\ \A n, m \in Node : health[n][m].missed = FAIL_THRESHOLD => health[n][m].state = "failed"
  /\ task \in [Node -> Task]
  /\ net \subseteq Message
  /\ condemned \subseteq Node

(* Whatever is gossiped and told, a node is Failed or out of a node list   *)
(* somewhere only if some node missed its answer FAIL_THRESHOLD times in a *)
(* row.                                                                    *)
MissedInARow ==
  \A n, m \in Node :
    health[n][m].state = "failed" \/ m \notin config[n] => m \in condemned

(* "A node returns to Alive only through a direct PING": gossip and misses *)
(* never turn a suspected or failed entry back into an alive one.          *)
OnlyPingRevives ==
  [][\A n, m \in Node :
       /\ up[n] /\ up'[n]
       /\ health[n][m].state \in {"suspected", "failed"}
       /\ health'[n][m].state = "alive"
       => task[n].pc = "ping" /\ task[n].peer = m /\ up[m]]_vars

(* A node that is down for good is, from some time on, Failed at every     *)
(* node that runs or out of its list, whatever is gossiped, lost or timed  *)
(* out meanwhile: no order of answers and gossip keeps a dead peer alive   *)
(* or suspected.                                                           *)
DeadNoticed ==
  \A m \in Node :
    <>[]~up[m] =>
      <>[](\A n \in Node : up[n] /\ n # m => health[n][m].state = "failed" \/ m \notin config[n])

(* "When a peer is declared failed, each surviving node independently runs *)
(* auto_heal": a peer a running node holds for Failed leaves the node's    *)
(* list, or is no longer held for Failed.  A node that has it from gossip  *)
(* does not ping the peer, so that it never runs auto_heal for it and      *)
(* keeps it for ever if the one SYNC of the node that did is lost.         *)
FailedHealed ==
  \A n \in Node : \A m \in Node \ {n} :
    up[n] /\ health[n][m].state = "failed" ~> health[n][m].state # "failed" \/ m \notin config[n] \/ ~up[n]

=============================================================================
