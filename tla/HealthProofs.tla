---------------------------- MODULE HealthProofs ----------------------------
(***************************************************************************)
(* The failure detector accuses no node that answered and counts no misses *)
(* past the threshold, for every set of nodes, every threshold and any     *)
(* number of crashes, timeouts and lost messages.                          *)
(***************************************************************************)
EXTENDS Health, FiniteSetTheorems, TLAPS

Types ==
  /\ config = [n \in Node |-> config[n]]
  /\ health \in [Node -> [Node -> [state : NodeState, missed : Nat]]]
  /\ streak \in [Node -> [Node -> Nat]]

(* The misses on record are misses in a row, or there were enough of those. *)
Counted ==
  \A n, m \in Node : health[n][m].missed <= streak[n][m] \/ streak[n][m] >= FAIL_THRESHOLD
(* Who had enough of them is known. *)
Recorded ==
  \A n, m \in Node : streak[n][m] >= FAIL_THRESHOLD => m \in condemned

(* What the task is about to install or to tell, and what is under way,    *)
(* leaves out and accuses nobody else.                                     *)
Justified(nodes) == \A a \in Node : a \notin nodes => a \in condemned
TaskFields(t) ==
  t = [pc |-> t.pc, peers |-> t.peers, peer |-> t.peer, nodes |-> t.nodes, tell |-> t.tell]
TaskJustified ==
  /\ task = [n \in Node |-> task[n]]
  /\ \A n \in Node : /\ TaskFields(task[n])
                     /\ task[n].pc \in {"heal", "tell"} => Justified(task[n].nodes)
NetJustified ==
  \A m \in net : /\ m.type = "SYNC" => Justified(m.nodes)
                 /\ m.type = "GOSSIP" => \A a \in Node : m.csv[a] = "failed" => a \in condemned

IInv == Types /\ Counted /\ Recorded /\ TaskJustified /\ NetJustified /\ MissedInARow

-----------------------------------------------------------------------------
(* The health table *)

Entry == [state : NodeState, missed : Nat]

LEMMA OrDefault ==
  ASSUME NEW h \in Entry
  PROVE  /\ or_default(h) \in Entry
         /\ or_default(h).missed <= h.missed
         /\ or_default(h).state = "failed" <=> h.state = "failed"
         /\ h.state # "none" => or_default(h) = h
BY DEF or_default, Entry, default_health, NodeState

LEMMA RecordMiss ==
  ASSUME NEW h \in Entry
  PROVE  /\ record_miss(h) \in Entry
         /\ record_miss(h).missed <= h.missed + 1
         /\ record_miss(h).state \in {"suspected", "failed"}
         /\ record_miss(h).state = "failed" => h.missed + 1 >= FAIL_THRESHOLD
<1> DEFINE o == or_default(h)
<1>1. o \in Entry /\ o.missed <= h.missed
  BY OrDefault
<1> HIDE DEF o
<1>2. o.missed \in Nat /\ h.missed \in Nat
  BY <1>1 DEF Entry
<1>3. record_miss(h) = [state |-> IF o.missed + 1 >= FAIL_THRESHOLD THEN "failed" ELSE "suspected",
                        missed |-> o.missed + 1]
  BY DEF record_miss, o
<1> QED BY <1>1, <1>2, <1>3, ThresholdAssumption DEF Entry, NodeState

LEMMA SyncNodes ==
  ASSUME NEW table \in [Node -> Entry], NEW addrs
  PROVE  /\ sync_nodes(table, addrs) \in [Node -> Entry]
         /\ \A a \in Node : /\ sync_nodes(table, addrs)[a].missed <= table[a].missed
                            /\ sync_nodes(table, addrs)[a].state = "failed" => table[a].state = "failed"
                            /\ table[a].state \in {"suspected", "failed"} =>
                                 sync_nodes(table, addrs)[a].state # "alive"
<1>1. none \in Entry /\ none.missed = 0 /\ none.state = "none"
  BY DEF none, Entry, NodeState
<1>2. ASSUME NEW a \in Node
      PROVE  LET x == sync_nodes(table, addrs)[a]
             IN /\ x \in Entry /\ x.missed <= table[a].missed
                /\ x.state = "failed" => table[a].state = "failed"
                /\ table[a].state \in {"suspected", "failed"} => x.state # "alive"
  <2>1. sync_nodes(table, addrs)[a] = IF a \in addrs THEN or_default(table[a]) ELSE none
    BY DEF sync_nodes
  <2>2. table[a] \in Entry /\ table[a].missed \in Nat
    BY DEF Entry
  <2>3. CASE a \in addrs
    BY <2>1, <2>2, <2>3, OrDefault
  <2>4. CASE a \notin addrs
    BY <1>1, <2>1, <2>2, <2>4
  <2> QED BY <2>3, <2>4
<1> QED BY <1>2 DEF sync_nodes

LEMMA ApplyGossip ==
  ASSUME NEW table \in [Node -> Entry], NEW csv
  PROVE  /\ apply_gossip(table, csv) \in [Node -> Entry]
         /\ \A a \in Node : /\ apply_gossip(table, csv)[a].missed <= table[a].missed
                            /\ apply_gossip(table, csv)[a].state = "failed" =>
                                 table[a].state = "failed" \/ csv[a] = "failed"
                            /\ table[a].state \in {"suspected", "failed"} =>
                                 apply_gossip(table, csv)[a].state # "alive"
<1>1. ASSUME NEW a \in Node
      PROVE  LET x == apply_gossip(table, csv)[a]
             IN /\ x \in Entry /\ x.missed <= table[a].missed
                /\ x.state = "failed" => table[a].state = "failed" \/ csv[a] = "failed"
                /\ table[a].state \in {"suspected", "failed"} => x.state # "alive"
  <2> DEFINE h == or_default(table[a])
             x == apply_gossip(table, csv)[a]
  <2>1. x = IF csv[a] = "none" THEN table[a]
            ELSE IF worse(h.state, csv[a]) THEN [h EXCEPT !.state = csv[a]] ELSE h
    BY DEF apply_gossip
  <2>2. /\ table[a] \in Entry /\ table[a].missed \in Nat /\ h \in Entry
        /\ h.missed <= table[a].missed /\ (h.state = "failed" <=> table[a].state = "failed")
        /\ table[a].state # "none" => h = table[a]
    BY OrDefault DEF Entry
  <2> HIDE DEF h, x
  <2>3. CASE csv[a] # "none" /\ worse(h.state, csv[a])
    <3>1. x = [h EXCEPT !.state = csv[a]] /\ csv[a] \in {"suspected", "failed"}
      BY <2>1, <2>3 DEF worse
    <3>2. x \in Entry /\ x.missed = h.missed /\ x.state = csv[a]
      BY <2>2, <3>1 DEF Entry, NodeState
    <3> QED BY <2>2, <3>1, <3>2 DEF x
  <2>4. CASE csv[a] = "none"
    BY <2>1, <2>2, <2>4 DEF x
  <2>5. CASE csv[a] # "none" /\ ~worse(h.state, csv[a])
    BY <2>1, <2>2, <2>5 DEF x
  <2> QED BY <2>3, <2>4, <2>5
<1> QED BY <1>1 DEF apply_gossip

LEMMA MinOfTwo ==
  ASSUME NEW a \in Nat, NEW b \in Nat
  PROVE  Min({a, b}) \in {a, b} /\ Min({a, b}) <= a /\ Min({a, b}) <= b
<1>1. \E x \in {a, b} : \A y \in {a, b} : x <= y
  <2>1. CASE a <= b
    BY <2>1
  <2>2. CASE b <= a
    BY <2>2
  <2> QED BY <2>1, <2>2
<1> QED BY <1>1 DEF Min

-----------------------------------------------------------------------------
(* The invariant *)

LEMMA InitIInv == Init => IInv
<1> SUFFICES ASSUME Init PROVE IInv
  OBVIOUS
<1>1. \A n \in Node : fresh_table(n) \in [Node -> Entry]
  BY DEF fresh_table, none, default_health, Entry, NodeState
<1>2. \A n, m \in Node : health[n][m].missed = 0 /\ health[n][m].state # "failed"
  BY DEF Init, fresh_table, none, default_health
<1>3. Types
  BY <1>1 DEF Init, Types, Entry
<1>4. Counted /\ Recorded
  BY <1>2, ThresholdAssumption DEF Init, Counted, Recorded
<1>5. TaskJustified
  BY DEF Init, TaskJustified, TaskFields, asleep
<1>6. NetJustified /\ MissedInARow
  BY <1>2 DEF Init, NetJustified, MissedInARow
<1> QED BY <1>3, <1>4, <1>5, <1>6 DEF IInv

(* A table the node replaces by one that accuses no more. *)
LEMMA TableStep ==
  ASSUME IInv, NEW n, NEW table,
         n \in Node => /\ table \in [Node -> Entry]
                       /\ \A a \in Node : table[a].missed <= health[n][a].missed
                       /\ \A a \in Node : table[a].state = "failed" => a \in condemned,
         health' = [health EXCEPT ![n] = table],
         UNCHANGED <<config, streak, condemned>>
  PROVE  Types' /\ Counted' /\ Recorded' /\ MissedInARow'
<1>1. \A k \in Node : health'[k] = IF k = n THEN table ELSE health[k]
  BY DEF IInv, Types
<1>2. health' \in [Node -> [Node -> Entry]]
  BY DEF IInv, Types, Entry
<1>3. \A k, a \in Node : /\ health'[k][a].missed \in Nat /\ health[k][a].missed \in Nat
                         /\ streak[k][a] \in Nat
  BY <1>2 DEF IInv, Types, Entry
<1>4. \A k, a \in Node : health'[k][a].missed <= health[k][a].missed
  BY <1>1, <1>3
<1>5. Types'
  BY <1>2 DEF IInv, Types, Entry
<1>6. Counted'
  BY <1>3, <1>4, ThresholdAssumption DEF IInv, Counted
<1>7. MissedInARow'
  BY <1>1 DEF IInv, MissedInARow
<1>8. Recorded'
  BY DEF IInv, Recorded
<1> QED BY <1>5, <1>6, <1>7, <1>8

(* What an update of a task's fields leaves. *)
LEMMA TaskUpdate ==
  ASSUME NEW t, TaskFields(t), NEW x, NEW y
  PROVE  /\ TaskFields([t EXCEPT !.pc = "round", !.peer = 0])
         /\ [t EXCEPT !.pc = "round", !.peer = 0].pc = "round"
         /\ TaskFields([t EXCEPT !.pc = "heal", !.nodes = x, !.tell = y])
         /\ [t EXCEPT !.pc = "heal", !.nodes = x, !.tell = y].nodes = x
<1> DEFINE r1 == [t EXCEPT !.pc = "round"]
           r2 == [r1 EXCEPT !.peer = 0]
           h1 == [t EXCEPT !.pc = "heal"]
           h2 == [h1 EXCEPT !.nodes = x]
           h3 == [h2 EXCEPT !.tell = y]
<1>1. TaskFields(r1) /\ r1.pc = "round"
  BY DEF TaskFields
<1>2. TaskFields(h1)
  BY DEF TaskFields
<1> HIDE DEF r1, h1
<1>3. TaskFields(r2) /\ r2.pc = "round"
  BY <1>1 DEF TaskFields
<1>4. TaskFields(h2) /\ h2.nodes = x
  BY <1>2 DEF TaskFields
<1> HIDE DEF h2
<1>5. TaskFields(h3) /\ h3.nodes = x
  BY <1>4 DEF TaskFields
<1> QED BY <1>3, <1>5 DEF r1, h1, h2

(* A task that moves on, while the known offenders grow. *)
LEMMA TaskStep ==
  ASSUME IInv, NEW n \in Node, NEW t, TaskFields(t),
         t.pc \in {"heal", "tell"} => \A a \in Node : a \notin t.nodes => a \in condemned',
         task' = [task EXCEPT ![n] = t],
         condemned \subseteq condemned'
  PROVE  TaskJustified'
<1>1. \A k \in Node : task'[k] = IF k = n THEN t ELSE task[k]
  BY DEF IInv, TaskJustified
<1>2. task' = [k \in Node |-> task'[k]]
  BY DEF IInv, TaskJustified
<1>3. \A k \in Node : TaskFields(task'[k])
  BY <1>1 DEF IInv, TaskJustified
<1>4. ASSUME NEW k \in Node, task'[k].pc \in {"heal", "tell"}
      PROVE  \A a \in Node : a \notin task'[k].nodes => a \in condemned'
  <2>1. CASE k = n
    BY <1>1, <1>4, <2>1
  <2>2. CASE k # n
    BY <1>1, <1>4, <2>2 DEF IInv, TaskJustified, Justified
  <2> QED BY <2>1, <2>2
<1> QED BY <1>2, <1>3, <1>4 DEF TaskJustified, TaskFields, Justified

LEMMA BeginRound ==
  ASSUME IInv, NEW n \in Node, begin_round(n)
  PROVE  IInv'
<1> DEFINE table == sync_nodes(health[n], config[n])
<1>1. health[n] \in [Node -> Entry]
  BY DEF IInv, Types, Entry
<1>2. /\ table \in [Node -> Entry]
      /\ \A a \in Node : table[a].missed <= health[n][a].missed
      /\ \A a \in Node : table[a].state = "failed" => a \in condemned
  BY <1>1, SyncNodes DEF IInv, MissedInARow
<1>3. health' = [health EXCEPT ![n] = table] /\ UNCHANGED <<config, streak, condemned>>
  BY DEF begin_round, IInv, Types
<1> HIDE DEF table
<1>4. Types' /\ Counted' /\ Recorded' /\ MissedInARow'
  BY <1>2, <1>3, TableStep
<1>5. TaskJustified'
  BY DEF begin_round, IInv, TaskJustified, TaskFields, Justified, asleep
<1>6. NetJustified'
  BY DEF begin_round, IInv, NetJustified, Justified
<1> QED BY <1>4, <1>5, <1>6 DEF IInv

LEMMA NextPeer ==
  ASSUME IInv, NEW n \in Node, next_peer(n)
  PROVE  IInv'
<1> DEFINE p == Min(task[n].peers)
<1>1. /\ task' = [task EXCEPT ![n].peers = @ \ {p}]
         \/ task' = [task EXCEPT ![n].peers = @ \ {p}, ![n].pc = "ping", ![n].peer = p]
      /\ task[n].pc = "round"
      /\ UNCHANGED <<config, health, net, streak, condemned>>
  BY DEF next_peer
<1> HIDE DEF p
<1>2. TaskJustified'
  BY <1>1 DEF IInv, TaskJustified, TaskFields, Justified
<1>3. Types' /\ Counted' /\ Recorded' /\ NetJustified' /\ MissedInARow'
  BY <1>1 DEF IInv, Types, Counted, Recorded, NetJustified, MissedInARow, Justified
<1> QED BY <1>2, <1>3 DEF IInv

LEMMA PingOk ==
  ASSUME IInv, NEW n \in Node, ping_ok(n)
  PROVE  IInv'
<1> DEFINE p == task[n].peer
           table == [health[n] EXCEPT ![p] = default_health]
           g == [type |-> "GOSSIP", to |-> p, csv |-> to_csv(table)]
<1>1. /\ task[n].pc = "ping"
      /\ health' = [health EXCEPT ![n] = table]
      /\ net' = net \cup {g} \/ net' = net
      /\ task' = [task EXCEPT ![n].pc = "round", ![n].peer = 0]
      /\ streak' = [streak EXCEPT ![n][p] = 0]
      /\ UNCHANGED <<config, condemned>>
  BY DEF ping_ok, mark_alive
<1>2. /\ health[n] \in [Node -> Entry] /\ default_health \in Entry
      /\ default_health.missed = 0 /\ default_health.state = "alive"
  BY DEF IInv, Types, Entry, default_health, NodeState
<1>3. /\ table \in [Node -> Entry]
      /\ \A a \in Node : table[a] = IF a = p THEN default_health ELSE health[n][a]
  BY <1>2
<1>4. \A a \in Node : table[a].state = "failed" => a \in condemned
  BY <1>2, <1>3 DEF IInv, MissedInARow
<1>5. g.type = "GOSSIP" /\ \A a \in Node : g.csv[a] = table[a].state
  BY DEF to_csv
<1> HIDE DEF table, g, p
<1>6. /\ \A k \in Node : health'[k] = IF k = n THEN table ELSE health[k]
      /\ health' \in [Node -> [Node -> Entry]]
  BY <1>1, <1>3 DEF IInv, Types, Entry
<1>7. /\ \A k, a \in Node : streak'[k][a] = IF k = n /\ a = p THEN 0 ELSE streak[k][a]
      /\ streak' \in [Node -> [Node -> Nat]]
  BY <1>1 DEF IInv, Types
<1>8. Types'
  BY <1>1, <1>6, <1>7 DEF IInv, Types, Entry
<1>9. Counted'
  <2> SUFFICES ASSUME NEW k \in Node, NEW a \in Node
               PROVE  health'[k][a].missed <= streak'[k][a] \/ streak'[k][a] >= FAIL_THRESHOLD
    BY DEF Counted
  <2>1. CASE k = n /\ a = p
    BY <2>1, <1>2, <1>3, <1>6, <1>7
  <2>2. CASE ~(k = n /\ a = p)
    <3>1. health'[k][a] = health[k][a] /\ streak'[k][a] = streak[k][a]
      BY <2>2, <1>3, <1>6, <1>7
    <3> QED BY <3>1 DEF IInv, Counted
  <2> QED BY <2>1, <2>2
<1>10. Recorded'
  BY <1>1, <1>7, ThresholdAssumption DEF IInv, Recorded
<1>11. MissedInARow'
  BY <1>1, <1>4, <1>6 DEF IInv, MissedInARow
<1>12. TaskJustified'
  <2> DEFINE t == [task[n] EXCEPT !.pc = "round", !.peer = 0]
  <2>1. TaskFields(task[n])
    BY DEF IInv, TaskJustified
  <2>3. TaskFields(t) /\ t.pc = "round"
    BY <2>1, TaskUpdate, Zenon
  <2>2. task' = [task EXCEPT ![n] = t]
    BY <1>1
  <2> HIDE DEF t
  <2> QED BY <1>1, <2>2, <2>3, TaskStep
<1>13. NetJustified'
  BY <1>1, <1>4, <1>5 DEF IInv, NetJustified, Justified
<1> QED BY <1>8, <1>9, <1>10, <1>11, <1>12, <1>13 DEF IInv

LEMMA PingMissed ==
  ASSUME IInv, NEW n \in Node, ping_missed(n)
  PROVE  IInv'
<1> DEFINE p == task[n].peer
           h == record_miss(health[n][p])
           run == Min({streak[n][p] + 1, FAIL_THRESHOLD})
           rest == config[n] \ {p}
           told == [task[n] EXCEPT !.pc = "heal", !.nodes = rest, !.tell = rest \ {n}]
           back == [task[n] EXCEPT !.pc = "round", !.peer = 0]
<1>1. /\ health' = [health EXCEPT ![n][p] = h]
      /\ streak' = [streak EXCEPT ![n][p] = run]
      /\ condemned' = IF run = FAIL_THRESHOLD THEN condemned \cup {p} ELSE condemned
      /\ UNCHANGED <<config, net>>
  BY DEF ping_missed
<1>2. \/ task' = [task EXCEPT ![n] = told] /\ h.state = "failed"
      \/ task' = [task EXCEPT ![n] = back]
  BY DEF ping_missed
<1>3. ASSUME p \in Node
      PROVE  /\ h \in Entry /\ run \in Nat /\ run <= FAIL_THRESHOLD
             /\ h.missed <= run \/ run >= FAIL_THRESHOLD
             /\ h.state = "failed" => run = FAIL_THRESHOLD
  <2>1. /\ health[n][p] \in Entry /\ health[n][p].missed \in Nat /\ streak[n][p] \in Nat
        /\ health[n][p].missed <= streak[n][p] \/ streak[n][p] >= FAIL_THRESHOLD
    BY <1>3 DEF IInv, Types, Counted, Entry
  <2>2. /\ h \in Entry /\ h.missed <= health[n][p].missed + 1
        /\ h.state = "failed" => health[n][p].missed + 1 >= FAIL_THRESHOLD
    BY <2>1, RecordMiss
  <2>3. h.missed \in Nat
    BY <2>2 DEF Entry
  <2>4. /\ run \in {streak[n][p] + 1, FAIL_THRESHOLD}
        /\ run <= streak[n][p] + 1 /\ run <= FAIL_THRESHOLD
    <3> DEFINE next == streak[n][p] + 1
    <3>1. next \in Nat /\ FAIL_THRESHOLD \in Nat
      BY <2>1, ThresholdAssumption
    <3> HIDE DEF next
    <3>2. /\ Min({next, FAIL_THRESHOLD}) \in {next, FAIL_THRESHOLD}
          /\ Min({next, FAIL_THRESHOLD}) <= next /\ Min({next, FAIL_THRESHOLD}) <= FAIL_THRESHOLD
      BY <3>1, MinOfTwo, Zenon
    <3> QED BY <3>2 DEF next
  <2> HIDE DEF h, run
  <2> QED BY <2>1, <2>2, <2>3, <2>4, ThresholdAssumption
<1>4. TaskFields(told) /\ TaskFields(back) /\ back.pc = "round" /\ told.nodes = rest
  <2>1. TaskFields(task[n])
    BY DEF IInv, TaskJustified
  <2>2. TaskFields(told) /\ told.nodes = rest
    <3> DEFINE others == rest \ {n}
    <3> HIDE DEF rest, others
    <3>1. LET r == [task[n] EXCEPT !.pc = "heal", !.nodes = rest, !.tell = others]
          IN TaskFields(r) /\ r.nodes = rest
      BY <2>1, TaskUpdate
    <3> QED BY <3>1 DEF others
  <2>3. TaskFields(back) /\ back.pc = "round"
    BY <2>1, TaskUpdate
  <2> QED BY <2>2, <2>3
<1> HIDE DEF h, run, told, back
<1>5. condemned \subseteq condemned'
  BY <1>1
<1>6. /\ \A k, a \in Node : health'[k][a] = IF k = n /\ a = p THEN h ELSE health[k][a]
      /\ health' \in [Node -> [Node -> Entry]]
  BY <1>1, <1>3 DEF IInv, Types, Entry
<1>7. /\ \A k, a \in Node : streak'[k][a] = IF k = n /\ a = p THEN run ELSE streak[k][a]
      /\ streak' \in [Node -> [Node -> Nat]]
  BY <1>1, <1>3 DEF IInv, Types
<1>8. Types'
  BY <1>1, <1>6, <1>7 DEF IInv, Types, Entry
<1>9. Counted'
  BY <1>3, <1>6, <1>7 DEF IInv, Counted
<1>10. Recorded'
  <2> SUFFICES ASSUME NEW k \in Node, NEW a \in Node, streak'[k][a] >= FAIL_THRESHOLD
               PROVE  a \in condemned'
    BY DEF Recorded
  <2>1. CASE k = n /\ a = p
    <3>1. run \in Nat /\ run <= FAIL_THRESHOLD /\ run >= FAIL_THRESHOLD
      BY <1>3, <1>7, <2>1
    <3>2. run = FAIL_THRESHOLD
      BY <3>1, ThresholdAssumption
    <3> QED BY <1>1, <2>1, <3>2
  <2>2. CASE ~(k = n /\ a = p)
    BY <1>5, <1>7, <2>2 DEF IInv, Recorded
  <2> QED BY <2>1, <2>2
<1>11. MissedInARow'
  <2> SUFFICES ASSUME NEW k \in Node, NEW a \in Node,
                      health'[k][a].state = "failed" \/ a \notin config'[k]
               PROVE  a \in condemned'
    BY DEF MissedInARow
  <2>1. CASE a \notin config'[k]
    BY <1>1, <1>5, <2>1 DEF IInv, MissedInARow
  <2>2. CASE health'[k][a].state = "failed" /\ k = n /\ a = p
    BY <1>1, <1>3, <1>6, <2>2
  <2>3. CASE health'[k][a].state = "failed" /\ ~(k = n /\ a = p)
    BY <1>5, <1>6, <2>3 DEF IInv, MissedInARow
  <2> QED BY <2>1, <2>2, <2>3
<1>12. TaskJustified'
  <2>1. CASE task' = [task EXCEPT ![n] = told] /\ h.state = "failed"
    <3>1. \A a \in Node : a \notin told.nodes => a \in condemned'
      BY <1>1, <1>3, <1>4, <1>5, <2>1 DEF IInv, MissedInARow
    <3> QED BY <1>4, <1>5, <2>1, <3>1, TaskStep
  <2>2. CASE task' = [task EXCEPT ![n] = back]
    BY <1>4, <1>5, <2>2, TaskStep
  <2> QED BY <1>2, <2>1, <2>2
<1>13. NetJustified'
  BY <1>1, <1>5 DEF IInv, NetJustified, Justified
<1> QED BY <1>8, <1>9, <1>10, <1>11, <1>12, <1>13 DEF IInv

LEMMA Resume ==
  ASSUME NEW t, TaskFields(t)
  PROVE  /\ TaskFields(resume(t))
         /\ resume(t).pc = "round" \/ resume(t).nodes = t.nodes
BY DEF TaskFields, resume, asleep

LEMMA Heal ==
  ASSUME IInv, NEW n \in Node, heal(n)
  PROVE  IInv'
<1>1. /\ config' = [config EXCEPT ![n] = task[n].nodes]
      /\ task' = [task EXCEPT ![n] = resume(task[n])]
      /\ UNCHANGED <<health, net, streak, condemned>>
  BY DEF heal
<1>2. TaskFields(task[n]) /\ \A a \in Node : a \notin task[n].nodes => a \in condemned
  BY DEF heal, IInv, TaskJustified, Justified
<1>3. TaskJustified'
  <2> DEFINE t == resume(task[n])
  <2>1. TaskFields(t) /\ (t.pc = "round" \/ t.nodes = task[n].nodes)
    BY <1>2, Resume
  <2>2. task' = [task EXCEPT ![n] = t]
    BY <1>1
  <2> HIDE DEF t
  <2> QED BY <1>1, <1>2, <2>1, <2>2, TaskStep
<1>4. Types' /\ Counted' /\ Recorded' /\ NetJustified'
  BY <1>1 DEF IInv, Types, Counted, Recorded, NetJustified, Justified
<1>5. \A k \in Node : config'[k] = IF k = n THEN task[n].nodes ELSE config[k]
  BY <1>1 DEF IInv, Types
<1>6. MissedInARow'
  BY <1>1, <1>2, <1>5 DEF IInv, MissedInARow
<1> QED BY <1>3, <1>4, <1>6 DEF IInv

LEMMA Tell ==
  ASSUME IInv, NEW n \in Node, tell(n)
  PROVE  IInv'
<1> DEFINE p == Min(task[n].tell)
           u == [task[n] EXCEPT !.tell = @ \ {p}]
           m == [type |-> "SYNC", to |-> p, nodes |-> task[n].nodes]
<1>1. /\ task' = [task EXCEPT ![n] = resume(u)]
      /\ net' = net \cup {m} \/ net' = net
      /\ UNCHANGED <<config, health, streak, condemned>>
  BY DEF tell
<1>2. TaskFields(task[n]) /\ \A a \in Node : a \notin task[n].nodes => a \in condemned
  BY DEF tell, IInv, TaskJustified, Justified
<1>3. TaskFields(u) /\ u.nodes = task[n].nodes
  BY <1>2 DEF TaskFields
<1>4. m.type = "SYNC" /\ m.nodes = task[n].nodes
  OBVIOUS
<1> HIDE DEF u, m, p
<1>5. TaskJustified'
  <2> DEFINE t == resume(u)
  <2>1. TaskFields(t) /\ (t.pc = "round" \/ t.nodes = task[n].nodes)
    BY <1>3, Resume
  <2>2. task' = [task EXCEPT ![n] = t]
    BY <1>1
  <2> HIDE DEF t
  <2> QED BY <1>1, <1>2, <2>1, <2>2, TaskStep
<1>6. Types' /\ Counted' /\ Recorded' /\ MissedInARow'
  BY <1>1 DEF IInv, Types, Counted, Recorded, MissedInARow
<1>7. NetJustified'
  BY <1>1, <1>2, <1>4 DEF IInv, NetJustified, Justified
<1> QED BY <1>5, <1>6, <1>7 DEF IInv

LEMMA ReceiveGossip ==
  ASSUME IInv, NEW m \in net, receive_gossip(m)
  PROVE  IInv'
<1> DEFINE table == apply_gossip(health[m.to], m.csv)
<1>1. /\ health' = [health EXCEPT ![m.to] = table] /\ net' = net \ {m}
      /\ UNCHANGED <<config, task, streak, condemned>>
  BY DEF receive_gossip
<1>2. ASSUME m.to \in Node
      PROVE  /\ table \in [Node -> Entry]
             /\ \A a \in Node : table[a].missed <= health[m.to][a].missed
             /\ \A a \in Node : table[a].state = "failed" => a \in condemned
  <2>1. health[m.to] \in [Node -> Entry]
    BY <1>2 DEF IInv, Types, Entry
  <2>2. \A a \in Node : m.csv[a] = "failed" => a \in condemned
    BY DEF receive_gossip, IInv, NetJustified
  <2> QED BY <1>2, <2>1, <2>2, ApplyGossip DEF IInv, MissedInARow
<1> HIDE DEF table
<1>3. Types' /\ Counted' /\ Recorded' /\ MissedInARow'
  BY <1>1, <1>2, TableStep
<1>4. TaskJustified' /\ NetJustified'
  BY <1>1 DEF IInv, TaskJustified, TaskFields, NetJustified, Justified
<1> QED BY <1>3, <1>4 DEF IInv

LEMMA ReceiveSync ==
  ASSUME IInv, NEW m \in net, receive_sync(m)
  PROVE  IInv'
<1>1. /\ config' = [config EXCEPT ![m.to] = m.nodes] \/ config' = config
      /\ net' = net \ {m} /\ UNCHANGED <<health, task, streak, condemned>>
  BY DEF receive_sync
<1>2. \A a \in Node : a \notin m.nodes => a \in condemned
  BY DEF receive_sync, IInv, NetJustified, Justified
<1>3. \A k \in Node : config'[k] = m.nodes \/ config'[k] = config[k]
  BY <1>1 DEF IInv, Types
<1>4. MissedInARow'
  BY <1>1, <1>2, <1>3 DEF IInv, MissedInARow
<1>5. Types' /\ Counted' /\ Recorded'
  BY <1>1 DEF IInv, Types, Counted, Recorded
<1>6. TaskJustified' /\ NetJustified'
  BY <1>1 DEF IInv, TaskJustified, TaskFields, NetJustified, Justified
<1> QED BY <1>4, <1>5, <1>6 DEF IInv

LEMMA Crash ==
  ASSUME IInv, NEW n \in Node, crash(n)
  PROVE  IInv'
<1> DEFINE zero == [m \in Node |-> 0]
<1>1. /\ task' = [task EXCEPT ![n] = asleep] /\ config' = [config EXCEPT ![n] = Node]
      /\ health' = [health EXCEPT ![n] = fresh_table(n)]
      /\ streak' = [streak EXCEPT ![n] = zero]
      /\ net' \subseteq net /\ UNCHANGED condemned
  BY DEF crash
<1>2. /\ fresh_table(n) \in [Node -> Entry]
      /\ \A a \in Node : fresh_table(n)[a].missed = 0 /\ fresh_table(n)[a].state # "failed"
  BY DEF fresh_table, none, default_health, Entry, NodeState
<1>3. zero \in [Node -> Nat] /\ \A a \in Node : zero[a] = 0
  OBVIOUS
<1> HIDE DEF zero
<1>4. \A k \in Node : /\ health'[k] = IF k = n THEN fresh_table(n) ELSE health[k]
                      /\ streak'[k] = IF k = n THEN zero ELSE streak[k]
                      /\ config'[k] = IF k = n THEN Node ELSE config[k]
  BY <1>1 DEF IInv, Types
<1>5. Types'
  BY <1>1, <1>2, <1>3 DEF IInv, Types, Entry
<1>6. Counted' /\ Recorded' /\ MissedInARow'
  BY <1>1, <1>2, <1>3, <1>4, ThresholdAssumption DEF IInv, Counted, Recorded, MissedInARow
<1>7. TaskJustified'
  <2>1. TaskFields(asleep) /\ asleep.pc = "round"
    BY DEF TaskFields, asleep
  <2> QED BY <1>1, <2>1, TaskStep
<1>8. NetJustified'
  BY <1>1 DEF IInv, NetJustified, Justified
<1> QED BY <1>5, <1>6, <1>7, <1>8 DEF IInv

LEMMA StepIInv == IInv /\ [Next]_vars => IInv'
<1> SUFFICES ASSUME IInv, [Next]_vars PROVE IInv'
  OBVIOUS
<1>1. ASSUME NEW n \in Node, heartbeat(n) PROVE IInv'
  BY <1>1, BeginRound, NextPeer, PingOk, PingMissed, Heal, Tell DEF heartbeat
<1>2. ASSUME NEW n \in Node, crash(n) PROVE IInv'
  BY <1>2, Crash
<1>3. ASSUME UNCHANGED <<config, health, task, net, streak, condemned>> PROVE IInv'
  BY <1>3 DEF IInv, Types, Counted, Recorded, TaskJustified, TaskFields, NetJustified,
              Justified, MissedInARow
<1>4. ASSUME NEW n \in Node, restart(n) PROVE IInv'
  BY <1>3, <1>4 DEF restart
<1>5. ASSUME NEW m \in net, receive_gossip(m) \/ receive_sync(m) PROVE IInv'
  BY <1>5, ReceiveGossip, ReceiveSync
<1>6. CASE UNCHANGED vars
  BY <1>3, <1>6 DEF vars
<1> QED BY <1>1, <1>2, <1>4, <1>5, <1>6 DEF Next

(* The heartbeat task, GOSSIP and SYNC hold no node for Failed and leave   *)
(* none out of a node list that nobody missed FAIL_THRESHOLD times in a    *)
(* row, for every number of nodes, crashes, timeouts and lost messages.    *)
THEOREM FailureIsWitnessed == Spec => []MissedInARow
<1>1. IInv => MissedInARow
  BY DEF IInv
<1> QED BY InitIInv, StepIInv, <1>1, PTL DEF Spec

UpOK == up \in [Node -> BOOLEAN]

LEMMA InitUp == Init => UpOK
BY DEF Init, UpOK

LEMMA StepUp == UpOK /\ [Next]_vars => UpOK'
BY DEF UpOK, Next, vars, heartbeat, begin_round, next_peer, ping_ok, ping_missed, heal, tell,
       crash, restart, receive_gossip, receive_sync

(* "A node returns to Alive only through a direct PING": neither a table   *)
(* brought in line with the node list, nor gossip, nor a miss turns a      *)
(* suspected or failed entry of a running node back into an alive one.     *)
THEOREM PingRevives == Spec => OnlyPingRevives
<1> DEFINE Revived(n, m) == /\ up[n] /\ up'[n]
                            /\ health[n][m].state \in {"suspected", "failed"}
                            /\ health'[n][m].state = "alive"
           Step == \A n, m \in Node :
                     Revived(n, m) => task[n].pc = "ping" /\ task[n].peer = m /\ up[m]
<1>1. IInv /\ UpOK /\ [Next]_vars => [Step]_vars
  <2> SUFFICES ASSUME IInv, UpOK, Next, NEW n \in Node, NEW m \in Node, Revived(n, m)
               PROVE  task[n].pc = "ping" /\ task[n].peer = m /\ up[m]
    OBVIOUS
  <2>0. /\ health = [k \in Node |-> health[k]]
        /\ \A k \in Node : health[k] \in [Node -> Entry]
    BY DEF IInv, Types, Entry
  <2>1. ASSUME NEW k \in Node, begin_round(k) PROVE FALSE
    <3>1. health'[n] = IF n = k THEN sync_nodes(health[n], config[n]) ELSE health[n]
      BY <2>0, <2>1 DEF begin_round
    <3> QED BY <2>0, <3>1, SyncNodes
  <2>2. ASSUME UNCHANGED health PROVE FALSE
    BY <2>2
  <2>3. ASSUME NEW k \in Node, ping_ok(k)
        PROVE  task[n].pc = "ping" /\ task[n].peer = m /\ up[m]
    <3> DEFINE p == task[k].peer
               table == [health[k] EXCEPT ![p] = default_health]
    <3>1. health' = [health EXCEPT ![k] = table] /\ task[k].pc = "ping" /\ up[p]
      BY <2>3 DEF ping_ok, mark_alive
    <3>2. \A a \in Node : a # p => table[a] = health[k][a]
      BY <2>0
    <3> HIDE DEF table
    <3>3. \A j \in Node : health'[j] = IF j = k THEN table ELSE health[j]
      BY <2>0, <3>1
    <3>4. n = k /\ m = p
      BY <3>2, <3>3
    <3> QED BY <3>1, <3>4
  <2>4. ASSUME NEW k \in Node, ping_missed(k) PROVE FALSE
    <3> DEFINE p == task[k].peer
               h == record_miss(health[k][p])
    <3>1. health' = [health EXCEPT ![k][p] = h]
      BY <2>4 DEF ping_missed
    <3>2. p \in Node => h.state # "alive"
      BY <2>0, RecordMiss
    <3> HIDE DEF h, p
    <3>3. health'[n][m] = IF n = k /\ m = p THEN h ELSE health[n][m]
      BY <2>0, <3>1
    <3> QED BY <3>2, <3>3
  <2>5. ASSUME NEW g \in net, receive_gossip(g) PROVE FALSE
    <3>1. health'[n] = IF n = g.to THEN apply_gossip(health[n], g.csv) ELSE health[n]
      BY <2>0, <2>5 DEF receive_gossip
    <3> QED BY <2>0, <3>1, ApplyGossip
  <2>6. ASSUME NEW k \in Node, crash(k) PROVE FALSE
    <3>1. health' = [health EXCEPT ![k] = fresh_table(k)] /\ up' = [up EXCEPT ![k] = FALSE]
      BY <2>6 DEF crash
    <3>2. CASE n = k
      BY <3>1, <3>2 DEF UpOK
    <3>3. CASE n # k
      BY <2>0, <3>1, <3>3
    <3> QED BY <3>2, <3>3
  <2> QED BY <2>1, <2>2, <2>3, <2>4, <2>5, <2>6
          DEF Next, heartbeat, next_peer, heal, tell, restart, receive_sync
<1> QED BY InitIInv, StepIInv, InitUp, StepUp, <1>1, PTL DEF Spec, OnlyPingRevives

-----------------------------------------------------------------------------
(* The counter of misses *)

(* An entry that has reached the threshold is Failed. *)
Limited == {h \in NodeHealth : h.missed = FAIL_THRESHOLD => h.state = "failed"}

(* The peer that is waited for has not reached it, and what is told is     *)
(* told to somebody.                                                       *)
TaskLimited ==
  \A n \in Node :
    /\ task[n].pc = "ping" =>
         task[n].peer \in Node /\ health[n][task[n].peer].missed < FAIL_THRESHOLD
    /\ task[n].pc = "tell" => task[n].tell # {}

LInv == TypeOK /\ TaskLimited

LEMMA LimitedTable ==
  ASSUME NEW h
  PROVE  h \in [Node -> [Node -> Limited]] <=>
           /\ h \in [Node -> [Node -> NodeHealth]]
           /\ \A n, m \in Node : h[n][m].missed = FAIL_THRESHOLD => h[n][m].state = "failed"
<1>1. ASSUME h \in [Node -> [Node -> NodeHealth]],
             \A n, m \in Node : h[n][m].missed = FAIL_THRESHOLD => h[n][m].state = "failed"
      PROVE  h \in [Node -> [Node -> Limited]]
  <2>1. \A n, m \in Node : h[n][m] \in Limited
    BY <1>1 DEF Limited
  <2>2. \A n \in Node : h[n] \in [Node -> Limited]
    BY <1>1, <2>1
  <2> QED BY <1>1, <2>2
<1>2. ASSUME h \in [Node -> [Node -> Limited]]
      PROVE  /\ h \in [Node -> [Node -> NodeHealth]]
             /\ \A n, m \in Node : h[n][m].missed = FAIL_THRESHOLD => h[n][m].state = "failed"
  <2>1. \A n, m \in Node : h[n][m] \in Limited
    BY <1>2
  <2>2. \A n \in Node : h[n] \in [Node -> NodeHealth]
    BY <1>2, <2>1 DEF Limited
  <2> QED BY <1>2, <2>1, <2>2 DEF Limited
<1> QED BY <1>1, <1>2

LEMMA LimitedTables ==
  TypeOK <=> /\ up \in [Node -> BOOLEAN] /\ config \in [Node -> SUBSET Node]
             /\ health \in [Node -> [Node -> Limited]] /\ task \in [Node -> Task]
             /\ net \subseteq Message /\ condemned \subseteq Node
BY LimitedTable DEF TypeOK

LEMMA LimitedEntry ==
  ASSUME NEW h \in Limited
  PROVE  /\ h \in NodeHealth /\ h.missed \in 0 .. FAIL_THRESHOLD /\ h.state \in NodeState
         /\ or_default(h) \in Limited /\ or_default(h).missed <= h.missed
         /\ h.state # "failed" => h.missed < FAIL_THRESHOLD
<1>1. h \in NodeHealth /\ h.missed \in 0 .. FAIL_THRESHOLD /\ h.state \in NodeState
  BY DEF Limited, NodeHealth
<1>2. default_health \in Limited /\ default_health.missed = 0
  BY ThresholdAssumption DEF default_health, Limited, NodeHealth, NodeState
<1>3. or_default(h) = h \/ or_default(h) = default_health
  BY DEF or_default
<1>4. or_default(h) \in Limited /\ or_default(h).missed <= h.missed
  BY <1>1, <1>2, <1>3, ThresholdAssumption
<1>5. h.state # "failed" => h.missed < FAIL_THRESHOLD
  <2>1. h.state # "failed" => h.missed # FAIL_THRESHOLD
    BY DEF Limited
  <2> QED BY <1>1, <2>1, ThresholdAssumption
<1> QED BY <1>1, <1>4, <1>5

LEMMA LimitedSync ==
  ASSUME NEW table \in [Node -> Limited], NEW addrs
  PROVE  sync_nodes(table, addrs) \in [Node -> Limited]
<1>1. none \in Limited
  BY ThresholdAssumption DEF none, Limited, NodeHealth, NodeState
<1>2. ASSUME NEW a \in Node
      PROVE  (IF a \in addrs THEN or_default(table[a]) ELSE none) \in Limited
  BY <1>1, LimitedEntry
<1> QED BY <1>2 DEF sync_nodes

LEMMA LimitedGossip ==
  ASSUME NEW table \in [Node -> Limited], NEW csv \in [Node -> NodeState]
  PROVE  /\ apply_gossip(table, csv) \in [Node -> Limited]
         /\ \A a \in Node : apply_gossip(table, csv)[a].missed <= table[a].missed
<1>1. ASSUME NEW a \in Node
      PROVE  apply_gossip(table, csv)[a] \in Limited /\ apply_gossip(table, csv)[a].missed <= table[a].missed
  <2> DEFINE h == or_default(table[a])
             x == apply_gossip(table, csv)[a]
  <2>1. x = IF csv[a] = "none" THEN table[a]
            ELSE IF worse(h.state, csv[a]) THEN [h EXCEPT !.state = csv[a]] ELSE h
    BY DEF apply_gossip
  <2>2. table[a] \in Limited /\ h \in Limited /\ h.missed <= table[a].missed /\ table[a].missed \in Nat
    BY LimitedEntry, ThresholdAssumption
  <2> HIDE DEF h, x
  <2>3. CASE csv[a] # "none" /\ worse(h.state, csv[a])
    <3>1. x = [h EXCEPT !.state = csv[a]] /\ csv[a] \in NodeState
      BY <2>1, <2>3
    <3>2. h.missed # FAIL_THRESHOLD /\ h \in NodeHealth
      BY <2>2, <2>3 DEF Limited, worse
    <3>3. x \in NodeHealth /\ x.missed = h.missed
      BY <3>1, <3>2 DEF NodeHealth
    <3> QED BY <2>2, <3>2, <3>3 DEF Limited, x
  <2>4. CASE csv[a] = "none"
    BY <2>1, <2>2, <2>4 DEF x
  <2>5. CASE csv[a] # "none" /\ ~worse(h.state, csv[a])
    BY <2>1, <2>2, <2>5 DEF x
  <2> QED BY <2>3, <2>4, <2>5
<1> QED BY <1>1 DEF apply_gossip

LEMMA LimitedMiss ==
  ASSUME NEW h \in Limited, h.missed < FAIL_THRESHOLD
  PROVE  record_miss(h) \in Limited
<1> DEFINE o == or_default(h)
<1>1. o \in Limited /\ o.missed <= h.missed /\ o.missed \in Nat /\ h.missed \in Nat
  BY LimitedEntry, ThresholdAssumption
<1> HIDE DEF o
<1>2. record_miss(h) = [state |-> IF o.missed + 1 >= FAIL_THRESHOLD THEN "failed" ELSE "suspected",
                        missed |-> o.missed + 1]
  BY DEF record_miss, o
<1>3. o.missed + 1 \in 0 .. FAIL_THRESHOLD
  BY <1>1, ThresholdAssumption
<1> QED BY <1>2, <1>3, ThresholdAssumption DEF Limited, NodeHealth, NodeState

(* The first of a set of nodes. *)
LEMMA FirstNode ==
  ASSUME NEW nodes \in SUBSET Node, nodes # {}
  PROVE  Min(nodes) \in nodes
<1> DEFINE T == 0 .. Cardinality(nodes) - 1
           less(a) == {b \in nodes : b < a}
           f == [a \in nodes |-> Cardinality(less(a))]
<1>1. IsFiniteSet(nodes) /\ nodes \subseteq Nat /\ Cardinality(nodes) \in Nat
  BY NodeAssumption, FS_Subset, FS_CardinalityType
<1>2. Cardinality(nodes) # 0
  BY <1>1, FS_EmptySet
<1>3. ASSUME NEW a \in nodes
      PROVE  IsFiniteSet(less(a)) /\ Cardinality(less(a)) \in T
  <2>1. IsFiniteSet(less(a)) /\ less(a) \subseteq nodes \ {a}
    BY <1>1, FS_Subset
  <2>2. IsFiniteSet(nodes \ {a}) /\ Cardinality(nodes \ {a}) = Cardinality(nodes) - 1
    BY <1>1, FS_RemoveElement
  <2> HIDE DEF less
  <2>3. Cardinality(less(a)) \in Nat /\ Cardinality(less(a)) <= Cardinality(nodes) - 1
    BY <2>1, <2>2, FS_Subset, FS_CardinalityType
  <2> QED BY <1>1, <2>1, <2>3
<1>4. ASSUME NEW a \in nodes, NEW b \in nodes, a < b
      PROVE  Cardinality(less(a)) # Cardinality(less(b))
  <2>1. less(a) \subseteq less(b) /\ a \in less(b) /\ a \notin less(a)
    <3>1. \A c \in nodes : c < a => c < b
      BY <1>1, <1>4
    <3>2. a < b /\ ~(a < a)
      BY <1>1, <1>4
    <3> QED BY <3>1, <3>2
  <2>2. IsFiniteSet(less(b))
    BY <1>3
  <2> HIDE DEF less
  <2> QED BY <2>1, <2>2, FS_Subset
<1>5. ASSUME NEW a \in nodes, NEW b \in nodes, f[a] = f[b]
      PROVE  a = b
  <2>1. ~(a < b) /\ ~(b < a)
    BY <1>4, <1>5
  <2> QED BY <1>1, <2>1
<1>6. f \in [nodes -> T]
  BY <1>3
<1>7. IsFiniteSet(T) /\ Cardinality(T) = Cardinality(nodes) /\ 0 \in T
  <2>1. PICK n \in Nat : n = Cardinality(nodes) /\ n # 0
    BY <1>1, <1>2
  <2>2. n - 1 \in Int /\ ~(0 > n - 1) /\ (n - 1) - 0 + 1 = n /\ 0 \in 0 .. n - 1
    BY <2>1
  <2>3. IsFiniteSet(0 .. n - 1) /\ Cardinality(0 .. n - 1) = n
    <3>1. 0 \in Int
      OBVIOUS
    <3> QED BY <2>2, <3>1, FS_Interval
  <2> QED BY <2>1, <2>2, <2>3
<1> HIDE DEF f, T
<1>8. f \in Injection(nodes, T)
  BY <1>5, <1>6 DEF Injection, IsInjective
<1>9. f \in Surjection(nodes, T)
  BY <1>7, <1>8, FS_Injection
<1>10. PICK a \in nodes : f[a] = 0
  BY <1>7, <1>9 DEF Surjection
<1>11. less(a) = {}
  <2>1. Cardinality(less(a)) = 0
    BY <1>10 DEF f
  <2> HIDE DEF less
  <2> QED BY <1>3, <2>1, FS_EmptySet
<1>12. \A b \in nodes : a <= b
  BY <1>1, <1>11
<1> QED BY <1>12 DEF Min

(* What a step has to show: the task of one node, and its table. *)
LEMMA LimitedStep ==
  ASSUME LInv, NEW n \in Node, NEW t \in Task, task' = [task EXCEPT ![n] = t],
         health' \in [Node -> [Node -> Limited]],
         t.pc = "ping" => t.peer \in Node /\ health'[n][t.peer].missed < FAIL_THRESHOLD,
         t.pc = "tell" => t.tell # {},
         \A k \in Node : k # n => health'[k] = health[k],
         up' \in [Node -> BOOLEAN], config' \in [Node -> SUBSET Node],
         net' \subseteq Message, condemned' \subseteq Node
  PROVE  LInv'
<1>1. task \in [Node -> Task]
  BY DEF LInv, TypeOK
<1>2. task' \in [Node -> Task]
  BY <1>1
<1>3. TypeOK'
  BY <1>2, LimitedTable DEF TypeOK
<1>4. TaskLimited'
  <2> SUFFICES ASSUME NEW k \in Node
               PROVE  /\ task'[k].pc = "ping" =>
                           task'[k].peer \in Node /\ health'[k][task'[k].peer].missed < FAIL_THRESHOLD
                      /\ task'[k].pc = "tell" => task'[k].tell # {}
    BY DEF TaskLimited
  <2>1. CASE k = n
    BY <1>1, <2>1
  <2>2. CASE k # n
    <3>1. task'[k] = task[k] /\ health'[k] = health[k]
      BY <1>1, <2>2
    <3> QED BY <3>1 DEF LInv, TaskLimited
  <2> QED BY <2>1, <2>2
<1> QED BY <1>3, <1>4 DEF LInv

LEMMA Fields ==
  ASSUME LInv, NEW n \in Node
  PROVE  /\ up \in [Node -> BOOLEAN] /\ config \in [Node -> SUBSET Node]
         /\ health \in [Node -> [Node -> Limited]] /\ task \in [Node -> Task]
         /\ net \subseteq Message /\ condemned \subseteq Node
         /\ health[n] \in [Node -> Limited] /\ task[n] \in Task /\ config[n] \in SUBSET Node
BY LimitedTables DEF LInv

LEMMA BeginRoundLimited ==
  ASSUME LInv, NEW n \in Node, begin_round(n)
  PROVE  LInv'
<1> DEFINE C == config[n] \ {n}
           t == [task[n] EXCEPT !.peers = C]
           table == sync_nodes(health[n], config[n])
<1>1. task' = [task EXCEPT ![n] = t]
  BY Fields DEF begin_round
<1>2. t \in Task /\ t.pc = task[n].pc /\ task[n].pc = "round"
  <2>1. C \in SUBSET Node /\ task[n] \in Task
    BY Fields
  <2>2. task[n].pc = "round"
    BY DEF begin_round, asleep
  <2> HIDE DEF C
  <2> QED BY <2>1, <2>2 DEF Task
<1>3. table \in [Node -> Limited]
  BY Fields, LimitedSync
<1>4. health' = [health EXCEPT ![n] = table]
  BY Fields DEF begin_round
<1> HIDE DEF t, table
<1>5. health' \in [Node -> [Node -> Limited]] /\ \A k \in Node : k # n => health'[k] = health[k]
  BY <1>3, <1>4, Fields
<1>6. up' = up /\ config' = config /\ net' = net /\ condemned' = condemned
  BY DEF begin_round
<1> QED BY <1>1, <1>2, <1>5, <1>6, Fields, LimitedStep

LEMMA NextPeerLimited ==
  ASSUME LInv, NEW n \in Node, next_peer(n)
  PROVE  LInv'
<1> DEFINE p == Min(task[n].peers)
           a == [task[n] EXCEPT !.peers = @ \ {p}]
           b == [task[n] EXCEPT !.peers = @ \ {p}, !.pc = "ping", !.peer = p]
<1>1. task[n] \in Task /\ task \in [Node -> Task] /\ task[n].pc = "round" /\ task[n].peers # {}
  BY Fields DEF next_peer
<1>2. p \in Node
  <2>1. task[n].peers \in SUBSET Node
    BY <1>1 DEF Task
  <2> QED BY <1>1, <2>1, FirstNode
<1>3. task' = IF health[n][p].state = "failed" THEN [task EXCEPT ![n].peers = @ \ {p}]
              ELSE [task EXCEPT ![n].peers = @ \ {p}, ![n].pc = "ping", ![n].peer = p]
  BY DEF next_peer
<1>4. health' = health /\ up' = up /\ config' = config /\ net' = net /\ condemned' = condemned
  BY DEF next_peer
<1> HIDE DEF p
<1>5. a \in Task /\ a.pc = "round"
  BY <1>1 DEF Task
<1>6. b \in Task /\ b.pc = "ping" /\ b.peer = p
  BY <1>1, <1>2 DEF Task
<1>7. CASE health[n][p].state = "failed"
  <2>1. task' = [task EXCEPT ![n] = a]
    BY <1>1, <1>3, <1>7
  <2> HIDE DEF a
  <2> QED BY <1>4, <1>5, <2>1, Fields, LimitedStep
<1>8. CASE health[n][p].state # "failed"
  <2>1. task' = [task EXCEPT ![n] = b]
    BY <1>1, <1>3, <1>8
  <2>2. health[n][p].missed < FAIL_THRESHOLD
    <3>1. health[n][p] \in Limited
      BY <1>2, Fields
    <3> QED BY <1>8, <3>1, LimitedEntry
  <2> HIDE DEF b
  <2> QED BY <1>2, <1>4, <1>6, <2>1, <2>2, Fields, LimitedStep
<1> QED BY <1>7, <1>8

LEMMA PingOkLimited ==
  ASSUME LInv, NEW n \in Node, ping_ok(n)
  PROVE  LInv'
<1> DEFINE p == task[n].peer
           table == [health[n] EXCEPT ![p] = default_health]
           t == [task[n] EXCEPT !.pc = "round", !.peer = 0]
           g == [type |-> "GOSSIP", to |-> p, csv |-> to_csv(table)]
<1>1. task[n] \in Task /\ task \in [Node -> Task] /\ p \in Node
  BY Fields DEF ping_ok, LInv, TaskLimited
<1>2. task' = [task EXCEPT ![n] = t]
  BY <1>1 DEF ping_ok
<1>3. t \in Task /\ t.pc = "round"
  BY <1>1 DEF Task
<1>4. default_health \in Limited
  BY ThresholdAssumption DEF default_health, Limited, NodeHealth, NodeState
<1>5. table \in [Node -> Limited]
  BY <1>4, Fields
<1>6. /\ health' = [health EXCEPT ![n] = table] /\ (net' = net \/ net' = net \cup {g})
      /\ up' = up /\ config' = config /\ condemned' = condemned
  BY DEF ping_ok, mark_alive
<1> HIDE DEF table, t
<1>7. g \in Message
  <2>1. to_csv(table) \in [Node -> NodeState]
    BY <1>5, LimitedEntry DEF to_csv
  <2> QED BY <1>1, <2>1 DEF Message
<1>8. health' \in [Node -> [Node -> Limited]] /\ \A k \in Node : k # n => health'[k] = health[k]
  BY <1>5, <1>6, Fields
<1> HIDE DEF g
<1>9. net' \subseteq Message
  BY <1>6, <1>7, Fields
<1> QED BY <1>2, <1>3, <1>6, <1>8, <1>9, Fields, LimitedStep

LEMMA PingMissedLimited ==
  ASSUME LInv, NEW n \in Node, ping_missed(n)
  PROVE  LInv'
<1> DEFINE p == task[n].peer
           h == record_miss(health[n][p])
           rest == config[n] \ {p}
           R == rest \ {n}
           a == [task[n] EXCEPT !.pc = "heal", !.nodes = rest, !.tell = R]
           b == [task[n] EXCEPT !.pc = "round", !.peer = 0]
<1>1. /\ task[n] \in Task /\ task \in [Node -> Task]
      /\ p \in Node /\ health[n][p].missed < FAIL_THRESHOLD
  BY Fields DEF ping_missed, LInv, TaskLimited
<1>2. task' = [task EXCEPT ![n].pc = "heal", ![n].nodes = rest, ![n].tell = R]
      \/ task' = [task EXCEPT ![n].pc = "round", ![n].peer = 0]
  BY DEF ping_missed
<1>3. rest \in SUBSET Node /\ R \in SUBSET Node
  BY Fields
<1>4. h \in Limited
  <2>1. health[n][p] \in Limited
    BY <1>1, Fields
  <2> QED BY <1>1, <2>1, LimitedMiss
<1>5. /\ health' = [health EXCEPT ![n][p] = h]
      /\ condemned' = condemned \/ condemned' = condemned \cup {p}
      /\ up' = up /\ config' = config /\ net' = net
  BY DEF ping_missed
<1> HIDE DEF p, h, rest, R
<1>6. health' \in [Node -> [Node -> Limited]] /\ \A k \in Node : k # n => health'[k] = health[k]
  BY <1>1, <1>4, <1>5, Fields
<1>7. condemned' \subseteq Node
  BY <1>1, <1>5, Fields
<1>8. task' = [task EXCEPT ![n] = a] \/ task' = [task EXCEPT ![n] = b]
  BY <1>1, <1>2
<1>9. a \in Task /\ a.pc = "heal"
  BY <1>1, <1>3 DEF Task
<1>10. b \in Task /\ b.pc = "round"
  BY <1>1 DEF Task
<1> HIDE DEF a, b
<1>11. CASE task' = [task EXCEPT ![n] = a]
  BY <1>5, <1>6, <1>7, <1>9, <1>11, Fields, LimitedStep
<1>12. CASE task' = [task EXCEPT ![n] = b]
  BY <1>5, <1>6, <1>7, <1>10, <1>12, Fields, LimitedStep
<1> QED BY <1>8, <1>11, <1>12

LEMMA ResumeTyped ==
  ASSUME NEW t \in Task
  PROVE  /\ resume(t) \in Task /\ resume(t).pc \in {"round", "tell"}
         /\ resume(t).pc = "tell" => resume(t).tell # {}
<1> DEFINE a == [asleep EXCEPT !.peers = t.peers]
           b == [t EXCEPT !.pc = "tell"]
<1>1. a \in Task /\ a.pc = "round"
  BY DEF asleep, Task
<1>2. b \in Task /\ b.pc = "tell" /\ b.tell = t.tell
  BY DEF Task
<1>3. resume(t) = IF t.tell = {} THEN a ELSE b
  BY DEF resume
<1> HIDE DEF a, b
<1> QED BY <1>1, <1>2, <1>3

LEMMA HealLimited ==
  ASSUME LInv, NEW n \in Node, heal(n)
  PROVE  LInv'
<1> DEFINE t == resume(task[n])
<1>1. t \in Task /\ t.pc \in {"round", "tell"} /\ (t.pc = "tell" => t.tell # {})
  BY Fields, ResumeTyped
<1>2. task' = [task EXCEPT ![n] = t] /\ config' = [config EXCEPT ![n] = task[n].nodes]
      /\ health' = health /\ up' = up /\ net' = net /\ condemned' = condemned
  BY DEF heal
<1>3. config' \in [Node -> SUBSET Node]
  <2>1. task[n].nodes \in SUBSET Node
    BY Fields DEF Task
  <2> QED BY <1>2, <2>1, Fields
<1> HIDE DEF t
<1> QED BY <1>1, <1>2, <1>3, Fields, LimitedStep

LEMMA TellLimited ==
  ASSUME LInv, NEW n \in Node, tell(n)
  PROVE  LInv'
<1> DEFINE p == Min(task[n].tell)
           told == [task[n] EXCEPT !.tell = @ \ {p}]
           t == resume(told)
           m == [type |-> "SYNC", to |-> p, nodes |-> task[n].nodes]
<1>1. /\ task[n] \in Task /\ task[n].tell # {}
      /\ task[n].tell \in SUBSET Node /\ task[n].nodes \in SUBSET Node
  BY Fields DEF tell, LInv, TaskLimited, Task
<1>2. p \in Node
  BY <1>1, FirstNode
<1>3. task' = [task EXCEPT ![n] = t] /\ (net' = net \/ net' = net \cup {m})
      /\ health' = health /\ up' = up /\ config' = config /\ condemned' = condemned
  BY DEF tell
<1> HIDE DEF p
<1>4. told \in Task
  BY <1>1 DEF Task
<1> HIDE DEF told
<1>5. t \in Task /\ t.pc \in {"round", "tell"} /\ (t.pc = "tell" => t.tell # {})
  BY <1>4, ResumeTyped
<1>6. m \in Message
  BY <1>1, <1>2 DEF Message
<1> HIDE DEF t, m
<1>7. net' \subseteq Message
  BY <1>3, <1>6, Fields
<1> QED BY <1>3, <1>5, <1>7, Fields, LimitedStep

LEMMA CrashLimited ==
  ASSUME LInv, NEW n \in Node, crash(n)
  PROVE  LInv'
<1>1. asleep \in Task /\ asleep.pc = "round"
  BY DEF asleep, Task
<1>2. fresh_table(n) \in [Node -> Limited]
  <2>1. none \in Limited /\ default_health \in Limited
    BY ThresholdAssumption DEF none, default_health, Limited, NodeHealth, NodeState
  <2> QED BY <2>1 DEF fresh_table
<1>3. /\ up' = [up EXCEPT ![n] = FALSE] /\ task' = [task EXCEPT ![n] = asleep]
      /\ config' = [config EXCEPT ![n] = Node] /\ health' = [health EXCEPT ![n] = fresh_table(n)]
      /\ net' \subseteq net /\ condemned' = condemned
  BY DEF crash
<1>4. health' \in [Node -> [Node -> Limited]] /\ \A k \in Node : k # n => health'[k] = health[k]
  BY <1>2, <1>3, Fields
<1>5. up' \in [Node -> BOOLEAN] /\ config' \in [Node -> SUBSET Node] /\ net' \subseteq Message
  BY <1>3, Fields
<1> QED BY <1>1, <1>3, <1>4, <1>5, Fields, LimitedStep

LEMMA RestartLimited ==
  ASSUME LInv, NEW n \in Node, restart(n)
  PROVE  LInv'
<1>1. /\ up' \in [Node -> BOOLEAN] /\ task' = task /\ health' = health /\ config' = config
      /\ net' = net /\ condemned' = condemned
  BY Fields DEF restart
<1> QED BY <1>1 DEF LInv, TypeOK, TaskLimited

LEMMA MessageTyped ==
  ASSUME NEW m \in Message
  PROVE  /\ m.to \in Node /\ (m.type = "GOSSIP" => m.csv \in [Node -> NodeState])
         /\ (m.type = "SYNC" => m.nodes \in SUBSET Node)
BY DEF Message

LEMMA ReceiveLimited ==
  ASSUME LInv, NEW m \in net, receive_gossip(m) \/ receive_sync(m)
  PROVE  LInv'
<1> DEFINE n == m.to
<1>1. m \in Message /\ n \in Node /\ net' \subseteq net
  BY MessageTyped DEF LInv, TypeOK, receive_gossip, receive_sync
<1> HIDE DEF n
<1>2. ASSUME receive_gossip(m) PROVE LInv'
  <2> DEFINE table == apply_gossip(health[n], m.csv)
             t == task[n]
  <2>1. health' = [health EXCEPT ![n] = table] /\ up' = up /\ config' = config /\ task' = task
        /\ condemned' = condemned
    BY <1>2 DEF receive_gossip, n
  <2>2. table \in [Node -> Limited] /\ \A a \in Node : table[a].missed <= health[n][a].missed
    BY <1>1, <1>2, MessageTyped, Fields, LimitedGossip DEF receive_gossip
  <2> HIDE DEF table
  <2>3. /\ health' \in [Node -> [Node -> Limited]] /\ \A k \in Node : k # n => health'[k] = health[k]
        /\ health'[n] = table
    BY <1>1, <2>1, <2>2, Fields
  <2>4. t.pc = "ping" => t.peer \in Node /\ health'[n][t.peer].missed < FAIL_THRESHOLD
    <3> SUFFICES ASSUME t.pc = "ping"
                 PROVE  t.peer \in Node /\ health'[n][t.peer].missed < FAIL_THRESHOLD
      OBVIOUS
    <3>1. t.peer \in Node /\ health[n][t.peer].missed < FAIL_THRESHOLD
      BY <1>1 DEF LInv, TaskLimited
    <3>2. table[t.peer] \in Limited /\ health[n][t.peer] \in Limited
      BY <1>1, <2>2, <3>1, Fields
    <3>3. table[t.peer].missed \in Nat /\ health[n][t.peer].missed \in Nat
      BY <3>2, LimitedEntry, ThresholdAssumption
    <3> QED BY <2>2, <2>3, <3>1, <3>3, ThresholdAssumption
  <2>5. t \in Task /\ task' = [task EXCEPT ![n] = t] /\ (t.pc = "tell" => t.tell # {})
    BY <1>1, <2>1, Fields DEF LInv, TaskLimited
  <2>6. net' \subseteq Message
    BY <1>1, Fields
  <2> HIDE DEF t
  <2> QED BY <1>1, <2>1, <2>3, <2>4, <2>5, <2>6, Fields, LimitedStep
<1>3. ASSUME receive_sync(m) PROVE LInv'
  <2>1. health' = health /\ up' = up /\ task' = task /\ condemned' = condemned
        /\ (config' = config \/ config' = [config EXCEPT ![n] = m.nodes])
    BY <1>3 DEF receive_sync, n
  <2>2. m.nodes \in SUBSET Node
    BY <1>1, <1>3, MessageTyped DEF receive_sync
  <2>3. config' \in [Node -> SUBSET Node] /\ net' \subseteq Message
    BY <1>1, <2>1, <2>2, Fields
  <2> QED BY <2>1, <2>3 DEF LInv, TypeOK, TaskLimited
<1> QED BY <1>2, <1>3

(* The types, for every number of nodes; and a counter of misses never     *)
(* passes the threshold: run_heartbeat_task skips a peer that is_failed,   *)
(* and apply_gossip changes states and no counters.                        *)
THEOREM MissesLimited == Spec => []TypeOK
<1>1. Init => LInv
  <2> SUFFICES ASSUME Init PROVE LInv
    OBVIOUS
  <2>1. \A n \in Node : fresh_table(n) \in [Node -> Limited]
    <3>1. none \in Limited /\ default_health \in Limited
      BY ThresholdAssumption DEF none, default_health, Limited, NodeHealth, NodeState
    <3> QED BY <3>1 DEF fresh_table
  <2>2. asleep \in Task /\ asleep.pc = "round"
    BY DEF asleep, Task
  <2>3. TypeOK
    BY <2>1, <2>2, LimitedTables DEF Init
  <2>4. TaskLimited
    BY <2>2 DEF Init, TaskLimited
  <2> QED BY <2>3, <2>4 DEF LInv
<1>2. LInv /\ [Next]_vars => LInv'
  <2> SUFFICES ASSUME LInv, [Next]_vars PROVE LInv'
    OBVIOUS
  <2>1. CASE UNCHANGED vars
    BY <2>1 DEF vars, LInv, TypeOK, TaskLimited
  <2>2. ASSUME NEW n \in Node, heartbeat(n) \/ crash(n) \/ restart(n) PROVE LInv'
    BY <2>2, BeginRoundLimited, NextPeerLimited, PingOkLimited, PingMissedLimited, HealLimited,
       TellLimited, CrashLimited, RestartLimited DEF heartbeat
  <2> QED BY <2>1, <2>2, ReceiveLimited DEF Next
<1>3. LInv => TypeOK
  BY DEF LInv
<1> QED BY <1>1, <1>2, <1>3, PTL DEF Spec

=============================================================================
