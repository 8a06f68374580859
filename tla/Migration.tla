----------------------------- MODULE Migration -----------------------------
(***************************************************************************)
(* Dynamic membership (CLUSTER MEET, FORGET, SYNC and DRAIN), the routing  *)
(* of commands::execute, the transparent proxy and MIGRATE: who holds      *)
(* which key while the node list changes.                                  *)
(*                                                                         *)
(* One operator runs one MEET or FORGET.  Its coordinator sends SYNC or    *)
(* DRAIN to a node and waits for the answer, or for the timeout; a call    *)
(* that does not reach its node is not repeated.  A node that hands slots  *)
(* over reads and deletes its keys one by one and then sends them as       *)
(* ordinary commands: the receiver routes them by the node list it has at  *)
(* that moment.  A key stands for its slot.                                *)
(***************************************************************************)
EXTENDS Slots, FiniteSetsExt

CONSTANTS
  Key,          \* the keys, a subset of Slot
  MaxEvents     \* bound on client writes, MIGRATEs, timeouts, undelivered calls and a failed command
                \* together; a command goes round, and fails, beyond it

ASSUME KeyAssumption == Key \subseteq Slot
ASSUME EventsAssumption == MaxEvents \in Nat

VARIABLES
  config,    \* the node list of each node
  store,     \* per node and key: the version held, 0 for none
  job,       \* per node: the CLUSTER handler running there
  request,   \* per node: the command its handler is sending; client: the write of a client;
             \* migrate: the SET of a MIGRATE
  source,    \* the node MIGRATE waits on, 0 for none
  started,   \* the operator has issued the MEET or FORGET
  puts, timeouts, migrates

(* History: a command between nodes or of a client failed; the nodes that  *)
(* a SYNC or DRAIN did not reach; while a MIGRATE waited its key was       *)
(* written on the node it was read from.                                   *)
VARIABLES failed, unreached, returned

vars == <<config, store, job, request, source, started, puts, timeouts, migrates,
          failed, unreached, returned>>
moving == <<source, migrates, returned>>
events == <<puts, timeouts, failed, unreached>>

-----------------------------------------------------------------------------
Version == 0 .. MaxEvents + 1
more_events == puts + timeouts + migrates + (IF failed THEN 1 ELSE 0) < MaxEvents
client == 0
migrate == -1
Requester == Node \cup {client, migrate}
NoKey == -1

(* A handler: what it is, the node list it installs, the nodes it has to   *)
(* call, the one it waits for, the keys it has to hand over, those of them *)
(* listed by drain_slots, the one being removed, and those removed.        *)
NoJob == [kind |-> "none", nodes |-> {}, calls |-> {}, awaits |-> 0, leaving |-> 0,
          keys |-> {}, listed |-> {}, taking |-> NoKey, hand |-> {}, commit |-> FALSE]

NoRequest == [pc |-> "none", key |-> NoKey, version |-> 0, at |-> 0]

Members(nodes) == [n \in Node |-> IF n \in nodes THEN nodes ELSE {n}]

(* A cluster with its keys where they belong; other nodes run on their own. *)
Init ==
  /\ \E nodes \in NodeList :
       /\ Cardinality(nodes) > 1
       /\ config = Members(nodes)
       /\ store = [n \in Node |->
                     [k \in Key |-> IF n \in nodes /\ node_for_slot(nodes, k) = n THEN 1 ELSE 0]]
  /\ job = [n \in Node |-> NoJob]
  /\ request = [r \in Requester |-> NoRequest]
  /\ started = FALSE /\ puts = 0 /\ timeouts = 0 /\ failed = FALSE /\ unreached = {}
  /\ source = 0 /\ migrates = 0 /\ returned = FALSE

(* The keys node n hands over for its own share of a new list. *)
outbound(n, new) == {k \in Key : \E t \in Node : <<k, t>> \in slots_to_send(config[n], new, n)}

-----------------------------------------------------------------------------
(* The operator *)

(* MEET, sent to a member of the cluster: the new node and all peers are   *)
(* sent the list before this node hands over its keys and installs it.     *)
meet(n, new) ==
  LET nodes == config[n] \cup {new}
  IN /\ ~started /\ new \notin config[n] /\ Cardinality(config[n]) > 1 /\ nodes \in NodeList
     /\ started' = TRUE
     /\ job' = [job EXCEPT ![n] = [NoJob EXCEPT !.kind = "MEET", !.nodes = nodes,
                  !.calls = nodes \ {n}, !.keys = outbound(n, nodes), !.commit = TRUE]]
     /\ UNCHANGED <<config, store, request, moving, events>>

(* FORGET: this node installs the list, then the peers are sent it, then   *)
(* the leaving node is drained.                                            *)
forget(n, leaving) ==
  LET nodes == config[n] \ {leaving}
  IN /\ ~started /\ leaving \in config[n] /\ leaving # n
     /\ started' = TRUE
     /\ config' = [config EXCEPT ![n] = nodes]
     /\ job' = [job EXCEPT ![n] = [NoJob EXCEPT !.kind = "FORGET", !.nodes = nodes,
                  !.calls = config[n] \ {n}, !.leaving = leaving]]
     /\ UNCHANGED <<store, request, moving, events>>

(* The next node to call: MEET begins with the new one, FORGET ends with   *)
(* the leaving one.                                                        *)
next_call(n) ==
  LET fresh == job[n].calls \ config[n]
      peers == job[n].calls \ {job[n].leaving}
  IN IF job[n].kind = "MEET" /\ fresh # {} THEN Min(fresh)
     ELSE IF peers # {} THEN Min(peers)
     ELSE job[n].leaving

(* Variant: SYNC keeps the old list. *)
sync_job_uncommitted(p, nodes) ==
  [NoJob EXCEPT !.kind = "SYNC", !.nodes = nodes, !.keys = outbound(p, nodes)]

(* SYNC: hand over the keys of the slots that move, then install the list. *)
sync_job(p, nodes) ==
  [NoJob EXCEPT !.kind = "SYNC", !.nodes = nodes, !.keys = outbound(p, nodes), !.commit = TRUE]

(* DRAIN: hand over the keys of all own slots; the list stays as it is. *)
drain_job(p, nodes) ==
  [NoJob EXCEPT !.kind = "DRAIN", !.nodes = nodes,
                !.keys = {k \in Key : is_mine(config[p], p, k) /\ node_for_slot(nodes, k) # p}]

(* Variant: a node installs the list before it hands its keys over. *)
send_internal_installs_first(n) ==
  LET p == next_call(n)
  IN /\ job[n].calls # {} /\ job[n].awaits = 0 /\ job[p] = NoJob
     /\ job' = [job EXCEPT ![n].calls = @ \ {p}, ![n].awaits = p,
                           ![p] = IF p = job[n].leaving THEN drain_job(p, job[n].nodes)
                                                        ELSE sync_job(p, job[n].nodes)]
     /\ config' = IF p = job[n].leaving THEN config ELSE [config EXCEPT ![p] = job[n].nodes]
     /\ UNCHANGED <<store, request, started, moving, events>>

(* The coordinator calls the next node, whose handler starts. *)
send_internal(n) ==
  LET p == next_call(n)
  IN /\ job[n].calls # {} /\ job[n].awaits = 0 /\ job[p] = NoJob
     /\ job' = [job EXCEPT ![n].calls = @ \ {p}, ![n].awaits = p,
                           ![p] = IF p = job[n].leaving THEN drain_job(p, job[n].nodes)
                                                        ELSE sync_job(p, job[n].nodes)]
     /\ UNCHANGED <<config, store, request, started, moving, events>>

(* The call fails before the node has it: the coordinator goes on to the   *)
(* next node, and does not try again.                                      *)
send_internal_fails(n) ==
  LET p == next_call(n)
  IN /\ job[n].calls # {} /\ job[n].awaits = 0
     /\ more_events /\ timeouts' = timeouts + 1
     /\ unreached' = unreached \cup {p}
     /\ job' = [job EXCEPT ![n].calls = @ \ {p}]
     /\ UNCHANGED <<config, store, request, started, moving, puts, failed>>

(* The answer arrives, or the call times out while the handler goes on. *)
answered(n) ==
  /\ job[n].awaits # 0
  /\ \/ job[job[n].awaits] = NoJob /\ UNCHANGED timeouts
     \/ /\ job[job[n].awaits] # NoJob
        /\ more_events /\ timeouts' = timeouts + 1
  /\ job' = [job EXCEPT ![n].awaits = 0]
  /\ UNCHANGED <<config, store, request, started, moving, puts, failed, unreached>>

-----------------------------------------------------------------------------
(* Handing keys over: drain_slots and push_entries_to for one target after *)
(* the other                                                               *)

called(n) == job[n].kind # "none" /\ job[n].calls = {} /\ job[n].awaits = 0
target(n, k) == node_for_slot(job[n].nodes, k)

(* drain_slots lists the keys it finds in the slots of a target. *)
list_keys(n, t) ==
  LET mine == {k \in job[n].keys : target(n, k) = t}
  IN /\ called(n) /\ mine # {}
     /\ job[n].listed = {} /\ job[n].hand = {} /\ request[n] = NoRequest
     /\ job' = [job EXCEPT ![n].keys = @ \ mine, ![n].listed = {k \in mine : store[n][k] # 0}]
     /\ UNCHANGED <<config, store, request, started, moving, events>>

(* Variant: the key is deleted before it is read. *)
take_after_del(n, k) ==
  /\ k \in job[n].listed /\ job[n].taking = NoKey
  /\ job' = [job EXCEPT ![n].taking = k]
  /\ UNCHANGED <<config, store, request, started, moving, events>>

(* It reads a key, unless the key is gone, ... *)
take(n, k) ==
  /\ k \in job[n].listed /\ job[n].taking = NoKey
  /\ job' = IF store[n][k] = 0
            THEN [job EXCEPT ![n].listed = @ \ {k}]
            ELSE [job EXCEPT ![n].taking = k, ![n].hand = @ \cup {<<k, store[n][k]>>}]
  /\ UNCHANGED <<config, store, request, started, moving, events>>

(* ... and deletes it. *)
del(n) ==
  LET k == job[n].taking
  IN /\ k # NoKey
     /\ store' = [store EXCEPT ![n][k] = 0]
     /\ job' = [job EXCEPT ![n].listed = @ \ {k}, ![n].taking = NoKey]
     /\ UNCHANGED <<config, request, started, moving, events>>

(* push_entries_to sends the next key to its target. *)
push(n, k, v) ==
  /\ job[n].listed = {} /\ <<k, v>> \in job[n].hand /\ request[n] = NoRequest
  /\ request' = [request EXCEPT ![n] = [pc |-> "route", key |-> k, version |-> v,
                                        at |-> target(n, k)]]
  /\ job' = [job EXCEPT ![n].hand = @ \ {<<k, v>>}]
  /\ UNCHANGED <<config, store, started, moving, events>>

(* Everything is handed over: SYNC and MEET install the list. *)
finish(n) ==
  /\ called(n) /\ job[n].keys = {} /\ job[n].listed = {} /\ job[n].hand = {}
  /\ request[n] = NoRequest
  /\ config' = IF job[n].commit THEN [config EXCEPT ![n] = job[n].nodes] ELSE config
  /\ job' = [job EXCEPT ![n] = NoJob]
  /\ UNCHANGED <<store, request, started, moving, events>>

-----------------------------------------------------------------------------
(* Commands: execute and proxy_to *)

(* A client of the cluster sends SET to some node. *)
put(k, n) ==
  /\ Cardinality(config[n]) > 1
  /\ request[client] = NoRequest /\ more_events
  /\ puts' = puts + 1
  /\ request' = [request EXCEPT ![client] = [pc |-> "route", key |-> k, version |-> puts + 2,
                                             at |-> n]]
  /\ UNCHANGED <<config, store, job, started, moving, timeouts, failed, unreached>>

(* The node the command has reached executes it if the slot is its own,    *)
(* and else forwards it; it decides under a lock and acts after releasing  *)
(* it.                                                                     *)
route(r) ==
  LET q == request[r]
  IN /\ q.pc = "route"
     /\ request' = IF is_mine(config[q.at], q.at, q.key)
                   THEN [request EXCEPT ![r].pc = "execute"]
                   ELSE [request EXCEPT ![r].at = node_for_slot(config[q.at], q.key)]
     /\ UNCHANGED <<config, store, job, started, moving, events>>

(* MIGRATE gets its answer with the execution; any other command is done.  *)
execute(r) ==
  LET q == request[r]
      awaited == r = migrate /\ source # 0
  IN /\ q.pc = "execute"
     /\ store' = [store EXCEPT ![q.at][q.key] = q.version]
     /\ request' = [request EXCEPT ![r] = IF awaited THEN [q EXCEPT !.pc = "answered"] ELSE NoRequest]
     /\ returned' = (returned \/ (q.at = source /\ q.key = request[migrate].key))
     /\ UNCHANGED <<config, job, source, started, migrates, events>>

(* A command fails on the way: a proxy that times out answers with an      *)
(* error, which push_entries_to takes for an answer; when the connection   *)
(* fails it gives up the rest of the keys as well.  MIGRATE returns the    *)
(* error and keeps its key.                                                *)
request_fails(r) ==
  /\ request[r].pc = "route" /\ (more_events \/ unreached # {})
  /\ failed' = TRUE
  /\ request' = [request EXCEPT ![r] = NoRequest]
  /\ source' = IF r = migrate THEN 0 ELSE source
  /\ \/ UNCHANGED job
     \/ r \in Node /\ job' = [job EXCEPT ![r].hand = {}]
  /\ UNCHANGED <<config, store, started, puts, timeouts, migrates, unreached, returned>>

-----------------------------------------------------------------------------
(* MIGRATE: it is not routed, reads the key of the node it is sent to and  *)
(* sends a SET to the target, which routes that like any other.            *)
cmd_migrate(n, k, t) ==
  /\ more_events /\ request[migrate] = NoRequest /\ source = 0
  /\ store[n][k] # 0
  /\ migrates' = migrates + 1 /\ source' = n
  /\ request' = [request EXCEPT ![migrate] = [pc |-> "route", key |-> k, version |-> store[n][k],
                                              at |-> t]]
  /\ UNCHANGED <<config, store, job, started, returned, events>>

(* With the answer it deletes the key, unless COPY is given; when the call *)
(* times out it returns an error and keeps the key.                        *)
migrated ==
  /\ source # 0
  /\ \/ /\ request[migrate].pc = "answered"
        /\ \/ store' = [store EXCEPT ![source][request[migrate].key] = 0]
           \/ UNCHANGED store
        /\ request' = [request EXCEPT ![migrate] = NoRequest]
        /\ UNCHANGED timeouts
     \/ /\ request[migrate].pc \in {"route", "execute"}
        /\ more_events /\ timeouts' = timeouts + 1
        /\ UNCHANGED <<store, request>>
  /\ source' = 0
  /\ UNCHANGED <<config, job, started, migrates, returned, puts, failed, unreached>>

Handler(n) ==
  \/ send_internal(n) \/ answered(n) \/ finish(n) \/ del(n)
  \/ \E t \in Node : list_keys(n, t)
  \/ \E k \in Key : take(n, k)
  \/ \E k \in Key, v \in Version : push(n, k, v)

Next ==
  \/ \E n, m \in Node : meet(n, m) \/ forget(n, m)
  \/ \E n \in Node : Handler(n) \/ send_internal_fails(n)
  \/ \E k \in Key, n \in Node : put(k, n)
  \/ \E r \in Requester : route(r) \/ execute(r) \/ request_fails(r)
  \/ \E n \in Node, k \in Key, t \in Node : cmd_migrate(n, k, t)
  \/ migrated

Spec == Init /\ [][Next]_vars

(* Handlers and commands are scheduled; calls need not time out.  Once a   *)
(* call did not reach its node, the nodes can forward a command to each    *)
(* other without end, and it fails with the timeout of proxy_to; as long   *)
(* as all calls arrive no command needs that timeout.                      *)
Fairness ==
  /\ \A n \in Node : WF_vars(Handler(n))
  /\ \A r \in Requester : WF_vars(route(r) \/ execute(r)) /\ WF_vars(unreached # {} /\ request_fails(r))

FairSpec == Spec /\ Fairness

-----------------------------------------------------------------------------
(* Properties *)

Idle == \A n \in Node : job[n] = NoJob /\ request[n] = NoRequest

(* The node list of a cluster: everybody on it has it. *)
Agreed(nodes) == Cardinality(nodes) > 1 /\ \A n \in nodes : config[n] = nodes

(* As long as no command between nodes fails, a key is never without a     *)
(* copy, in a store or on its way, whatever clients write meanwhile,       *)
(* whichever calls time out and whatever MIGRATE moves, unless the node    *)
(* that MIGRATE moves a key from wrote it again before it deletes it: the  *)
(* SET of the MIGRATE, routed back, or a key handed back to it.            *)
KeyNeverVanishes ==
  ~failed /\ ~returned =>
    \A k \in Key :
      \E n \in Node :
        store[n][k] # 0 \/ request[n].key = k \/ \E v \in Version : <<k, v>> \in job[n].hand

(* When the handlers are done, two nodes that count each other as members  *)
(* route by the same node list, also when calls timed out, if SYNC reached *)
(* both of them or neither: a node it did not reach stays behind with the  *)
(* old list, for nothing sends it the new one again.                       *)
AgreeWhenDone ==
  Idle =>
    \A n, m \in Node :
      /\ m \in config[n] /\ n \in config[m]
      /\ n \in unreached <=> m \in unreached
      => config[n] = config[m]

(* MEET and FORGET come to an end: no two nodes wait for each other, and   *)
(* no key goes round in circles between them, unless a call was lost and   *)
(* until the proxy times out.                                              *)
HandlersFinish == <>[]Idle

(* After a MEET or FORGET in which nothing failed, every key is where the  *)
(* cluster looks for it.                                                   *)
DataReachable ==
  Idle /\ ~failed /\ timeouts = 0 =>
    \A nodes \in NodeList :
      Agreed(nodes) => \A k \in Key : store[node_for_slot(nodes, k)][k] # 0

=============================================================================
