------------------------- MODULE ReplicationProofs -------------------------
(***************************************************************************)
(* Replication: type correctness, that a session that sent its snapshot    *)
(* and did not lag has missed no write, and that the replica of a leader   *)
(* with one overwriting client is in sync when it has caught up, for any   *)
(* number of keys and writes and any capacity of the channel.              *)
(***************************************************************************)
EXTENDS Replication, SequenceTheorems, TLAPS

(* A broadcast receiver's buffer: append and take keep what is in it. *)
LEMMA ElementsAppend ==
  ASSUME NEW S, NEW s \in Seq(S), NEW e
  PROVE  Elements(Append(s, e)) = Elements(s) \cup {e}
BY DEF Elements

LEMMA ElementsTail ==
  ASSUME NEW S, NEW s \in Seq(S), s # <<>>
  PROVE  Elements(s) = Elements(Tail(s)) \cup {Head(s)}
<1>1. \A i \in 1..Len(s) : i = 1 \/ (i - 1 \in 1..Len(Tail(s)) /\ s[i] = Tail(s)[i - 1])
  BY DEF Elements
<1>2. \A i \in 1..Len(Tail(s)) : i + 1 \in 1..Len(s) /\ Tail(s)[i] = s[i + 1]
  OBVIOUS
<1>3. Head(s) = s[1] /\ 1 \in 1..Len(s)
  OBVIOUS
<1> QED BY <1>1, <1>2, <1>3 DEF Elements

(* Executing a command on a store yields a store again. *)
LEMMA ExecuteType ==
  ASSUME NEW st \in [Key -> Value], NEW c \in Command
  PROVE  execute(st, c) \in [Key -> Value]
<1> DEFINE v == st[c.key]
<1>1. c.key \in Key /\ c.op \in CommandName /\ c.items \in Seq(Item)
  BY DEF Command
<1>2. v \in Value /\ v.items \in Seq(Item)
  BY <1>1 DEF Value
<1>3. push_back(v.items, c.items) \in Seq(Item)
  BY <1>1, <1>2 DEF push_back
<1>4. pop_front(v.items) \in Seq(Item)
  BY <1>2 DEF pop_front
<1>5. cmd_set(v, c).value \in Value /\ cmd_del(v, c).value \in Value
  BY <1>1 DEF cmd_set, cmd_del, result, Absent, Value
<1>e. cmd_expire(v, c).value \in Value
  BY <1>2 DEF cmd_expire, result, expires, Value
<1>6. cmd_rpush(v, c).value \in Value
  BY <1>2, <1>3 DEF cmd_rpush, result, wrong_type, Value
<1>7. cmd_lpop(v, c).value \in Value
  BY <1>2, <1>4 DEF cmd_lpop, result, wrong_type, Value
<1>8. dispatch(v, c).value \in Value
  BY <1>1, <1>5, <1>6, <1>7, <1>e DEF dispatch, CommandName
<1> QED BY <1>1, <1>8 DEF execute

(* So does the passing of time. *)
LEMMA ExpireType ==
  ASSUME NEW st \in [Key -> Value], NEW k \in Key
  PROVE  [st EXCEPT ![k] = aged(st[k])] \in [Key -> Value]
<1>1. aged(st[k]) \in Value
  <2>1. st[k] \in Value
    OBVIOUS
  <2> QED BY <2>1 DEF aged, expires, Absent, Value
<1> QED BY <1>1

(* The frames of a snapshot are commands. *)
LEMMA SnapshotType ==
  ASSUME NEW v \in Value, NEW k \in Key
  PROVE  snapshot_entry_to_resp(k, v) \in Seq(Command)
<1>1. v.items \in Seq(Item) /\ 0 \in 0..MaxWrites
  BY BoundsAssumption DEF Value
<1>2. /\ [id |-> 0, op |-> "SET", key |-> k, items |-> v.items] \in Command
      /\ [id |-> 0, op |-> "RPUSH", key |-> k, items |-> v.items] \in Command
  BY <1>1 DEF Command, CommandName
<1> QED BY <1>2 DEF snapshot_entry_to_resp

LEMMA InitType == Init => TypeOK
<1> SUFFICES ASSUME Init PROVE TypeOK
  OBVIOUS
<1>1. Absent \in Value
  BY DEF Absent, Value
<1>2. 0 \in 0..MaxWrites /\ 0 \in 0..MaxBreaks /\ 0 \in 0..MaxExpiries /\ 0 <= Capacity
  BY BoundsAssumption, CapacityAssumption
<1>3. <<>> \in Seq(Command) /\ Len(<<>>) = 0
  OBVIOUS
<1>4. leader \in [Key -> Value] /\ replica \in [Key -> Value]
  BY <1>1 DEF Init
<1>5. writer \in [Client -> Command \cup {Idle}]
  BY DEF Init
<1> QED BY <1>2, <1>3, <1>4, <1>5 DEF Init, TypeOK

LEMMA NextType == TypeOK /\ [Next]_vars => TypeOK'
<1> SUFFICES ASSUME TypeOK, [Next]_vars PROVE TypeOK'
  OBVIOUS
<1> USE BoundsAssumption, CapacityAssumption
<1>1. ASSUME NEW cl \in Client, NEW op \in Op, NEW k \in Key, NEW x \in Item,
             write(cl, op, k, x)
      PROVE  TypeOK'
  <2> DEFINE c == [id |-> issued + 1, op |-> op, key |-> k,
                   items |-> IF op \in WithItem THEN <<x>> ELSE <<>>]
  <2>1. issued + 1 \in 0..MaxWrites
    BY <1>1 DEF write, TypeOK
  <2>2. c \in Command
    BY <2>1, OpAssumption DEF Command, CommandName
  <2>5. leader' \in [Key -> Value]
    <3>1. leader \in [Key -> Value] BY DEF TypeOK
    <3>2. leader' = execute(leader, c) BY <1>1 DEF write
    <3> HIDE DEF c
    <3> QED BY <2>2, <3>1, <3>2, ExecuteType
  <2>6. writer' \in [Client -> Command \cup {Idle}] /\ applied \subseteq applied' /\ applied' \subseteq Command
    BY <1>1, <2>2 DEF write, TypeOK
  <2>7. /\ issued' = issued + 1
        /\ UNCHANGED <<replica, session, todo, snap, queue, lagged, wire, breaks, expiries, captured, forwarded>>
    BY <1>1 DEF write, sessionVars, bounds
  <2> QED BY <2>1, <2>5, <2>6, <2>7 DEF TypeOK
<1>2. ASSUME NEW cl \in Client, broadcast(cl) PROVE TypeOK'
  <2>1. writer[cl] \in Command /\ writer' \in [Client -> Command \cup {Idle}]
    BY <1>2 DEF broadcast, TypeOK
  <2>2. /\ UNCHANGED <<leader, replica, issued, session, todo, snap, wire, breaks, expiries,
                       applied, captured, forwarded>>
    BY <1>2 DEF broadcast, history, bounds
  <2>3. queue' \in Seq(Command) /\ Len(queue') <= Capacity /\ lagged' \in BOOLEAN
    <3>1. CASE session = "down"
      BY <1>2, <3>1 DEF broadcast, TypeOK
    <3>2. CASE session # "down" /\ Len(queue) = Capacity
      <4>1. queue \in Seq(Command) /\ queue # <<>> BY <3>2 DEF TypeOK
      <4>2. Tail(queue) \in Seq(Command) /\ Len(Tail(queue)) = Capacity - 1
        BY <3>2, <4>1
      <4>3. queue' = Append(Tail(queue), writer[cl]) /\ lagged' = TRUE
        BY <1>2, <3>2 DEF broadcast
      <4> QED BY <2>1, <4>2, <4>3
    <3>3. CASE session # "down" /\ Len(queue) # Capacity
      <4>1. queue \in Seq(Command) /\ Len(queue) < Capacity /\ lagged \in BOOLEAN
        BY <3>3 DEF TypeOK
      <4>2. queue' = Append(queue, writer[cl]) /\ lagged' = lagged
        BY <1>2, <3>3, <4>1 DEF broadcast
      <4> QED BY <2>1, <4>1, <4>2
    <3> QED BY <3>1, <3>2, <3>3
  <2> QED BY <2>1, <2>2, <2>3 DEF TypeOK
<1>3. CASE replicate_from_leader
  <2>1. <<>> \in Seq(Command) /\ Len(<<>>) <= Capacity
    OBVIOUS
  <2> QED BY <1>3, <2>1 DEF replicate_from_leader, TypeOK, bounds
<1>4. ASSUME NEW k \in Key, snapshot(k) PROVE TypeOK'
  <2>1. snapshot_entry_to_resp(k, leader[k]) \in Seq(Command)
    BY SnapshotType DEF TypeOK
  <2>2. snap' \in Seq(Command) /\ wire' \in Seq(Command)
    <3> DEFINE read == snap \o snapshot_entry_to_resp(k, leader[k])
    <3>1. snap \in Seq(Command) /\ wire \in Seq(Command)
      BY DEF TypeOK
    <3>2. read \in Seq(Command) /\ wire \o read \in Seq(Command)
      BY <2>1, <3>1
    <3>3. \/ snap' = <<>> /\ wire' = wire \o read
          \/ snap' = read /\ wire' = wire
      BY <1>4 DEF snapshot
    <3>4. <<>> \in Seq(Command)
      OBVIOUS
    <3> HIDE DEF read
    <3> QED BY <3>1, <3>2, <3>3, <3>4
  <2> QED BY <1>4, <2>2 DEF snapshot, TypeOK, bounds
<1>5. CASE forward
  <2>1. queue \in Seq(Command) /\ queue # <<>>
    BY <1>5 DEF forward, TypeOK
  <2>2. Head(queue) \in Command /\ Tail(queue) \in Seq(Command) /\ Len(Tail(queue)) <= Len(queue)
    BY <2>1
  <2> QED BY <1>5, <2>2 DEF forward, TypeOK, bounds
<1>6. CASE lag
  <2>1. <<>> \in Seq(Command) /\ Len(<<>>) <= Capacity
    OBVIOUS
  <2> QED BY <1>6, <2>1 DEF lag, TypeOK, history, bounds
<1>7. CASE break
  <2>1. <<>> \in Seq(Command) /\ Len(<<>>) <= Capacity
    OBVIOUS
  <2>2. breaks' \in 0..MaxBreaks
    BY <1>7 DEF break, TypeOK
  <2> QED BY <1>7, <2>1, <2>2 DEF break, TypeOK, history
<1>8. CASE replay
  <2>1. Head(wire) \in Command /\ Tail(wire) \in Seq(Command)
    BY <1>8 DEF replay, TypeOK
  <2>4. replica' \in [Key -> Value]
    <3>1. replica \in [Key -> Value] /\ replica' = execute(replica, Head(wire))
      BY <1>8 DEF replay, TypeOK
    <3> QED BY <2>1, <3>1, ExecuteType
  <2> QED BY <1>8, <2>1, <2>4 DEF replay, TypeOK, history, bounds
<1>9. CASE UNCHANGED vars
  BY <1>9 DEF vars, sessionVars, bounds, history, TypeOK
<1>10. ASSUME NEW k \in Key, expire(k) PROVE TypeOK'
  <2>1. expiries' \in 0..MaxExpiries
    BY <1>10 DEF expire, TypeOK
  <2>2. leader' \in [Key -> Value] /\ replica' \in [Key -> Value]
    <3>1. leader \in [Key -> Value] /\ replica \in [Key -> Value]
      BY DEF TypeOK
    <3>2. \/ leader' = [leader EXCEPT ![k] = aged(leader[k])] /\ replica' = replica
          \/ replica' = [replica EXCEPT ![k] = aged(replica[k])] /\ leader' = leader
      BY <1>10 DEF expire
    <3> QED BY <3>1, <3>2, ExpireType
  <2>3. UNCHANGED <<writer, issued, session, todo, snap, queue, lagged, wire, breaks,
                    applied, captured, forwarded>>
    BY <1>10 DEF expire, sessionVars, history
  <2> QED BY <2>1, <2>2, <2>3 DEF TypeOK
<1> QED BY <1>1, <1>2, <1>3, <1>4, <1>5, <1>6, <1>7, <1>8, <1>9, <1>10 DEF Next

(* Type correctness: no receiver ever buffers more than the capacity.      *)
THEOREM TypeCorrect == Spec => []TypeOK
BY InitType, NextType, PTL DEF Spec

-----------------------------------------------------------------------------
(* Where a session still holds a write: with the snapshot's unread keys,   *)
(* or in one of the places NoMissedWrite names.                            *)
Held(c) ==
  \/ c.key \in todo \/ c \in captured \/ c \in forwarded \/ c \in Elements(queue)
  \/ \E cl \in Client : writer[cl] = c

(* NoMissedWrite says nothing while the snapshot is being read; the        *)
(* inductive invariant does: a write is held from the subscription on.     *)
SessionInv ==
  /\ session = "live" => todo = {}
  /\ session # "down" /\ ~lagged => \A c \in applied : Held(c)

LEMMA InitSession == Init => SessionInv
BY DEF Init, SessionInv

LEMMA NextSession == TypeOK /\ SessionInv /\ [Next]_vars => SessionInv'
<1> SUFFICES ASSUME TypeOK, SessionInv, [Next]_vars PROVE SessionInv'
  OBVIOUS
<1> USE CapacityAssumption
<1>1. ASSUME NEW cl \in Client, NEW op \in Op, NEW k \in Key, NEW x \in Item,
             write(cl, op, k, x)
      PROVE  SessionInv'
  <2>1. UNCHANGED <<session, todo, queue, lagged, captured, forwarded>>
    BY <1>1 DEF write, sessionVars
  <2>2. ASSUME NEW c \in applied, Held(c) PROVE Held(c)'
    <3>1. \A d \in Client : writer[d] = c => d # cl \/ c = Idle
      BY <1>1 DEF write
    <3>2. c # Idle
      <4>1. c \in Command BY DEF TypeOK
      <4>2. c.op # "NONE" BY <4>1 DEF Command, CommandName
      <4> QED BY <4>2 DEF Idle
    <3>3. \A d \in Client : writer[d] = c => writer'[d] = c
      BY <1>1, <3>1, <3>2 DEF write, TypeOK
    <3> QED BY <2>1, <2>2, <3>3 DEF Held, Elements
  <2>3. \A c \in applied' \ applied : Held(c)'
    <3>1. \A c \in applied' \ applied : writer'[cl] = c
      BY <1>1 DEF write, TypeOK
    <3> QED BY <3>1 DEF Held
  <2> QED BY <2>1, <2>2, <2>3 DEF SessionInv
<1>2. ASSUME NEW cl \in Client, broadcast(cl) PROVE SessionInv'
  <2>1. UNCHANGED <<session, todo, applied, captured, forwarded>>
    BY <1>2 DEF broadcast, history
  <2>2. ASSUME session # "down", ~lagged', NEW c \in applied PROVE Held(c)'
    <3>1. ~lagged /\ queue' = Append(queue, writer[cl])
      BY <1>2, <2>2 DEF broadcast
    <3>2. Elements(queue') = Elements(queue) \cup {writer[cl]}
      <4>1. queue \in Seq(Command) BY DEF TypeOK
      <4> QED BY <3>1, <4>1, ElementsAppend
    <3>3. \A d \in Client : writer[d] = c => c \in Elements(queue') \/ writer'[d] = c
      BY <1>2, <3>2 DEF broadcast, TypeOK
    <3>4. Held(c)
      BY <2>2, <3>1 DEF SessionInv
    <3>5. Elements(queue)' = Elements(queue')
      BY DEF Elements
    <3> QED BY <2>1, <3>2, <3>3, <3>4, <3>5 DEF Held
  <2> QED BY <2>1, <2>2 DEF SessionInv
<1>3. CASE replicate_from_leader
  <2>1. \A c \in applied : c.key \in Key
    BY DEF TypeOK, Command
  <2> QED BY <1>3, <2>1 DEF replicate_from_leader, SessionInv, Held
<1>4. ASSUME NEW k \in Key, snapshot(k) PROVE SessionInv'
  <2>1. /\ UNCHANGED <<queue, lagged, writer, applied, forwarded>>
        /\ session = "snapshot" /\ todo' = todo \ {k}
        /\ session' = IF todo' = {} THEN "live" ELSE session
        /\ captured' = captured \cup {c \in applied : c.key = k}
    BY <1>4 DEF snapshot
  <2>2. ASSUME NEW c \in applied, Held(c) PROVE Held(c)'
    BY <2>1, <2>2 DEF Held, Elements
  <2> QED BY <2>1, <2>2 DEF SessionInv
<1>5. CASE forward
  <2>1. /\ UNCHANGED <<session, todo, lagged, writer, applied, captured>>
        /\ queue' = Tail(queue) /\ forwarded' = forwarded \cup {Head(queue)}
    BY <1>5 DEF forward
  <2>2. Elements(queue) = Elements(queue') \cup {Head(queue)}
    <3>1. queue \in Seq(Command) /\ queue # <<>> BY <1>5 DEF TypeOK, forward
    <3> QED BY <2>1, <3>1, ElementsTail
  <2>3. Elements(queue)' = Elements(queue')
    BY DEF Elements
  <2>4. ASSUME NEW c \in applied, Held(c) PROVE Held(c)'
    BY <2>1, <2>2, <2>3, <2>4 DEF Held
  <2> QED BY <2>1, <2>4 DEF SessionInv
<1>6. CASE lag
  BY <1>6 DEF lag, SessionInv
<1>7. CASE break
  BY <1>7 DEF break, SessionInv
<1>8. CASE replay
  BY <1>8 DEF replay, history, SessionInv, Held, Elements
<1>9. CASE UNCHANGED vars
  BY <1>9 DEF vars, sessionVars, history, SessionInv, Held, Elements
<1>10. ASSUME NEW k \in Key, expire(k) PROVE SessionInv'
  BY <1>10 DEF expire, sessionVars, history, SessionInv, Held, Elements
<1> QED BY <1>1, <1>2, <1>3, <1>4, <1>5, <1>6, <1>7, <1>8, <1>9, <1>10 DEF Next

(* Subscribing before the snapshot misses no write: whatever clients write *)
(* while the snapshot is read and sent, the session has it.                *)
THEOREM NothingMissed == Spec => []NoMissedWrite
<1>1. SessionInv => NoMissedWrite
  BY DEF SessionInv, NoMissedWrite, Held
<1> QED BY <1>1, InitType, NextType, InitSession, NextSession, PTL DEF Spec

-----------------------------------------------------------------------------
(* One client that overwrites *)

(* The value a SET stores; the last frame for a key in a sequence stores   *)
(* v; no frame is for the key; all frames are SETs of keys the leader has. *)
Stores(c) == [kind |-> "string", items |-> c.items, expiry |-> "none"]
LastIs(s, k, v) ==
  \A i \in 1..Len(s) :
    s[i].key = k /\ (\A j \in 1..Len(s) : j > i => s[j].key # k) => Stores(s[i]) = v
Silent(s, k) == \A i \in 1..Len(s) : s[i].key # k
Overwrites(s, st) == \A i \in 1..Len(s) : s[i].op = "SET" /\ st[s[i].key] # Absent

(* What the replica has still to hear of a key ends with the value the     *)
(* leader has: the last word is the writer's, else the channel's, else the *)
(* snapshot's or the connection's.  If there is nothing to hear, it has    *)
(* that value.                                                             *)
LastWord(k) ==
  /\ LastIs(queue, k, leader[k])
  /\ Silent(queue, k) => LastIs(snap, k, leader[k]) /\ LastIs(wire, k, leader[k])
  /\ Silent(queue, k) /\ Silent(snap, k) /\ Silent(wire, k) /\ k \notin todo =>
       replica[k] = leader[k]

SetInv(cl) ==
  /\ \A k \in Key : leader[k] = Absent \/ leader[k].kind = "string"
  /\ \A k \in Key : leader[k].expiry = "none" /\ replica[k].expiry = "none"
  /\ \A k \in Key : replica[k] # Absent => leader[k] # Absent
  /\ Overwrites(wire, leader) /\ Overwrites(snap, leader) /\ Overwrites(queue, leader)
  /\ writer[cl] # Idle => writer[cl].op = "SET" /\ leader[writer[cl].key] = Stores(writer[cl])
  /\ session = "snapshot" => wire = <<>>
  /\ session = "live" => snap = <<>> /\ todo = {}
  /\ session # "down" /\ ~lagged =>
       \A k \in Key : (writer[cl] # Idle => writer[cl].key # k) => LastWord(k)

LEMMA Nothing ==
  ASSUME NEW k, NEW v, NEW st
  PROVE  LastIs(<<>>, k, v) /\ Silent(<<>>, k) /\ Overwrites(<<>>, st)
BY DEF LastIs, Silent, Overwrites

LEMMA SilentAppend ==
  ASSUME NEW s \in Seq(Command), NEW e \in Command, NEW k
  PROVE  Silent(Append(s, e), k) <=> Silent(s, k) /\ e.key # k
<1> DEFINE a == Append(s, e)
<1>1. Len(a) = Len(s) + 1 /\ Len(s) \in Nat /\ a[Len(s) + 1] = e /\ \A i \in 1..Len(s) : a[i] = s[i]
  OBVIOUS
<1> HIDE DEF a
<1>2. 1..Len(a) = 1..Len(s) \cup {Len(s) + 1}
  BY <1>1
<1>3. Silent(a, k) <=> (Silent(s, k) /\ e.key # k)
  BY <1>1, <1>2 DEF Silent
<1> QED BY <1>3 DEF a

LEMMA LastAppend ==
  ASSUME NEW s \in Seq(Command), NEW e \in Command, NEW k, NEW v,
         e.key = k => Stores(e) = v, e.key # k => LastIs(s, k, v)
  PROVE  LastIs(Append(s, e), k, v)
<1> DEFINE a == Append(s, e)
<1>1. Len(a) = Len(s) + 1 /\ Len(s) \in Nat /\ a[Len(s) + 1] = e /\ \A i \in 1..Len(s) : a[i] = s[i]
  OBVIOUS
<1> HIDE DEF a
<1>2. SUFFICES ASSUME NEW i \in 1..Len(a), a[i].key = k,
                      \A j \in 1..Len(a) : j > i => a[j].key # k
               PROVE  Stores(a[i]) = v
  BY DEF LastIs, a
<1>3. CASE i = Len(s) + 1
  BY <1>1, <1>2, <1>3
<1>4. CASE i # Len(s) + 1
  <2>1. i \in 1..Len(s) /\ a[i] = s[i]
    BY <1>1, <1>4
  <2>2. e.key # k
    <3>1. Len(s) + 1 \in 1..Len(a) /\ Len(s) + 1 > i
      BY <1>1, <2>1
    <3> QED BY <1>1, <1>2, <3>1
  <2>3. \A j \in 1..Len(s) : j > i => s[j].key # k
    <3>1. \A j \in 1..Len(s) : j \in 1..Len(a) /\ a[j] = s[j]
      BY <1>1
    <3> QED BY <1>2, <3>1
  <2> QED BY <1>2, <2>1, <2>2, <2>3 DEF LastIs
<1> QED BY <1>3, <1>4

LEMMA OverwritesAppend ==
  ASSUME NEW s \in Seq(Command), NEW e \in Command, NEW st,
         Overwrites(s, st), e.op = "SET", st[e.key] # Absent
  PROVE  Overwrites(Append(s, e), st)
<1> DEFINE a == Append(s, e)
<1>1. Len(a) = Len(s) + 1 /\ Len(s) \in Nat /\ a[Len(s) + 1] = e /\ \A i \in 1..Len(s) : a[i] = s[i]
  OBVIOUS
<1> HIDE DEF a
<1>2. \A i \in 1..Len(a) : i \in 1..Len(s) \/ i = Len(s) + 1
  BY <1>1
<1>3. Overwrites(a, st)
  BY <1>1, <1>2 DEF Overwrites
<1> QED BY <1>3 DEF a

(* The first frame and the others. *)
LEMMA FirstFrame ==
  ASSUME NEW s \in Seq(Command), s # <<>>
  PROVE  /\ Head(s) \in Command /\ Tail(s) \in Seq(Command) /\ Len(s) \in Nat \ {0}
         /\ Len(Tail(s)) = Len(s) - 1 /\ Head(s) = s[1]
         /\ \A i \in 1..Len(Tail(s)) : Tail(s)[i] = s[i + 1]
OBVIOUS

LEMMA SilentTail ==
  ASSUME NEW s \in Seq(Command), s # <<>>, NEW k
  PROVE  Silent(s, k) <=> Silent(Tail(s), k) /\ Head(s).key # k
<1> DEFINE t == Tail(s)
           h == Head(s)
<1>1. /\ Len(s) \in Nat \ {0} /\ Len(t) = Len(s) - 1 /\ h = s[1]
      /\ \A i \in 1..Len(t) : t[i] = s[i + 1]
  BY FirstFrame
<1> HIDE DEF t, h
<1>2. 1 \in 1..Len(s) /\ \A i \in 1..Len(t) : i + 1 \in 1..Len(s)
  BY <1>1
<1>3. \A i \in 1..Len(s) : i = 1 \/ (i - 1 \in 1..Len(t) /\ t[i - 1] = s[i])
  BY <1>1
<1>4. Silent(s, k) => Silent(t, k) /\ h.key # k
  BY <1>1, <1>2 DEF Silent
<1>5. Silent(t, k) /\ h.key # k => Silent(s, k)
  BY <1>1, <1>3 DEF Silent
<1> QED BY <1>4, <1>5 DEF t, h

LEMMA LastTail ==
  ASSUME NEW s \in Seq(Command), s # <<>>, NEW k, NEW v, LastIs(s, k, v)
  PROVE  /\ LastIs(Tail(s), k, v)
         /\ Silent(Tail(s), k) /\ Head(s).key = k => Stores(Head(s)) = v
<1> DEFINE t == Tail(s)
           h == Head(s)
<1>1. /\ Len(s) \in Nat \ {0} /\ Len(t) = Len(s) - 1 /\ h = s[1]
      /\ \A i \in 1..Len(t) : t[i] = s[i + 1]
  BY FirstFrame
<1> HIDE DEF t, h
<1>2. \A j \in 1..Len(s) : j # 1 => j - 1 \in 1..Len(t) /\ t[j - 1] = s[j]
  BY <1>1
<1>3. ASSUME NEW i \in 1..Len(t), t[i].key = k, \A j \in 1..Len(t) : j > i => t[j].key # k
      PROVE  Stores(t[i]) = v
  <2>1. i + 1 \in 1..Len(s) /\ s[i + 1] = t[i]
    BY <1>1
  <2>2. ASSUME NEW j \in 1..Len(s), j > i + 1 PROVE s[j].key # k
    <3>1. j - 1 \in 1..Len(t) /\ j - 1 > i /\ t[j - 1] = s[j]
      BY <1>1, <1>2, <2>2
    <3> QED BY <1>3, <3>1
  <2> QED BY <1>3, <2>1, <2>2 DEF LastIs
<1>4. ASSUME Silent(t, k), h.key = k PROVE Stores(h) = v
  <2>1. 1 \in 1..Len(s)
    BY <1>1
  <2>2. ASSUME NEW j \in 1..Len(s), j > 1 PROVE s[j].key # k
    BY <1>2, <1>4, <2>2 DEF Silent
  <2> QED BY <1>1, <1>4, <2>1, <2>2 DEF LastIs
<1>5. LastIs(t, k, v)
  BY <1>3 DEF LastIs
<1> QED BY <1>4, <1>5 DEF t, h

LEMMA OverwritesTail ==
  ASSUME NEW s \in Seq(Command), s # <<>>, NEW st, Overwrites(s, st)
  PROVE  Overwrites(Tail(s), st) /\ Head(s).op = "SET" /\ st[Head(s).key] # Absent
<1> DEFINE t == Tail(s)
           h == Head(s)
<1>1. /\ Len(s) \in Nat \ {0} /\ Len(t) = Len(s) - 1 /\ h = s[1]
      /\ \A i \in 1..Len(t) : t[i] = s[i + 1]
  BY FirstFrame
<1> HIDE DEF t, h
<1>2. 1 \in 1..Len(s) /\ \A i \in 1..Len(t) : i + 1 \in 1..Len(s)
  BY <1>1
<1>3. Overwrites(t, st) /\ h.op = "SET" /\ st[h.key] # Absent
  BY <1>1, <1>2 DEF Overwrites
<1> QED BY <1>3 DEF t, h

(* A SET on a store. *)
LEMMA ExecuteSet ==
  ASSUME NEW st \in [Key -> Value], NEW c \in Command, c.op = "SET"
  PROVE  execute(st, c) = [st EXCEPT ![c.key] = Stores(c)] /\ Stores(c) # Absent /\ c.key \in Key
<1>1. dispatch(st[c.key], c).value = Stores(c)
  BY DEF dispatch, cmd_set, result, Stores
<1>2. Stores(c) # Absent
  BY DEF Stores, Absent
<1>3. c.key \in Key
  BY DEF Command
<1> QED BY <1>1, <1>2, <1>3 DEF execute

(* The invariant of the state after a step, conjunct by conjunct. *)
LEMMA SetInvAfter ==
  ASSUME NEW cl \in Client,
         \A k \in Key : leader'[k] = Absent \/ leader'[k].kind = "string",
         \A k \in Key : leader'[k].expiry = "none" /\ replica'[k].expiry = "none",
         \A k \in Key : replica'[k] # Absent => leader'[k] # Absent,
         Overwrites(wire', leader'), Overwrites(snap', leader'), Overwrites(queue', leader'),
         writer'[cl] # Idle =>
           writer'[cl].op = "SET" /\ leader'[writer'[cl].key] = Stores(writer'[cl]),
         session' = "snapshot" => wire' = <<>>,
         session' = "live" => snap' = <<>> /\ todo' = {},
         session' # "down" /\ ~lagged' =>
           \A k \in Key : (writer'[cl] # Idle => writer'[cl].key # k) =>
             /\ LastIs(queue', k, leader'[k])
             /\ Silent(queue', k) => LastIs(snap', k, leader'[k]) /\ LastIs(wire', k, leader'[k])
             /\ Silent(queue', k) /\ Silent(snap', k) /\ Silent(wire', k) /\ k \notin todo' =>
                  replica'[k] = leader'[k]
  PROVE  SetInv(cl)'
<1>1. (Overwrites(wire, leader) /\ Overwrites(snap, leader) /\ Overwrites(queue, leader))'
  BY DEF Overwrites
<1>2. \A k \in Key : LastIs(queue, k, leader[k])' <=> LastIs(queue', k, leader'[k])
  BY DEF LastIs
<1>3. \A k \in Key : LastIs(snap, k, leader[k])' <=> LastIs(snap', k, leader'[k])
  BY DEF LastIs
<1>4. \A k \in Key : LastIs(wire, k, leader[k])' <=> LastIs(wire', k, leader'[k])
  BY DEF LastIs
<1>5. \A k \in Key : /\ Silent(queue, k)' <=> Silent(queue', k)
                     /\ Silent(snap, k)' <=> Silent(snap', k)
                     /\ Silent(wire, k)' <=> Silent(wire', k)
  BY DEF Silent
<1>6. session' # "down" /\ ~lagged' =>
        \A k \in Key : (writer'[cl] # Idle => writer'[cl].key # k) => LastWord(k)'
  BY <1>2, <1>3, <1>4, <1>5 DEF LastWord
<1>7. (writer[cl] # Idle => writer[cl].op = "SET" /\ leader[writer[cl].key] = Stores(writer[cl]))'
  BY DEF Stores, Idle
<1> QED BY <1>1, <1>6, <1>7 DEF SetInv, Idle

(* Only commands that overwrite were used before, too. *)
LEMMA OnlySetBefore ==
  ASSUME [Next]_vars, OnlySet'
  PROVE  OnlySet
<1>1. applied \subseteq applied'
  <2>1. ASSUME NEW cl \in Client, NEW op \in Op, NEW k \in Key, NEW x \in Item,
               write(cl, op, k, x)
        PROVE  applied \subseteq applied'
    BY <2>1 DEF write
  <2>2. ASSUME NEW cl \in Client, broadcast(cl) PROVE applied' = applied
    BY <2>2 DEF broadcast, history
  <2>3. replicate_from_leader \/ (\E k \in Key : snapshot(k) \/ expire(k)) => applied' = applied
    BY DEF replicate_from_leader, snapshot, expire, history
  <2>4. forward \/ lag \/ break \/ replay => applied' = applied
    BY DEF forward, lag, break, replay, history
  <2>5. UNCHANGED vars => applied' = applied
    BY DEF vars, history
  <2> QED BY <2>1, <2>2, <2>3, <2>4, <2>5 DEF Next
<1> QED BY <1>1 DEF OnlySet

LEMMA WriteSet ==
  ASSUME TypeOK, NEW cl \in Client, SetInv(cl), OnlySet',
         NEW op \in Op, NEW k \in Key, NEW x \in Item, write(cl, op, k, x)
  PROVE  SetInv(cl)'
<1> DEFINE c == [id |-> issued + 1, op |-> op, key |-> k,
                 items |-> IF op \in WithItem THEN <<x>> ELSE <<>>]
<1>1. UNCHANGED <<replica, session, todo, snap, queue, lagged, wire>> /\ writer[cl] = Idle
  BY DEF write, sessionVars
<1>2. c \in Command /\ c.key = k /\ c.op = op
  <2>1. issued + 1 \in 0..MaxWrites
    BY BoundsAssumption DEF write, TypeOK
  <2>2. c.items \in Seq(Item)
    OBVIOUS
  <2>3. op \in CommandName
    BY OpAssumption
  <2> QED BY <2>1, <2>2, <2>3 DEF Command
<1>3. leader' = execute(leader, c) /\ leader \in [Key -> Value] /\ writer \in [Client -> Command \cup {Idle}]
  BY DEF write, TypeOK
<1>4. CASE dispatch(leader[k], c).error
  <2>1. writer' = writer
    BY <1>4 DEF write
  <2>2. dispatch(leader[k], c).value = leader[k]
    <3> HIDE DEF c
    <3>1. c.op \in CommandName
      BY <1>2 DEF Command
    <3> QED BY <1>4, <3>1 DEF dispatch, CommandName, cmd_set, cmd_expire, cmd_del, cmd_rpush, cmd_lpop, result, wrong_type
  <2> HIDE DEF c
  <2>3. leader' = leader
    BY <1>2, <1>3, <2>2 DEF execute
  <2> QED BY <1>1, <2>1, <2>3, SetInvAfter DEF SetInv, LastWord
<1>5. CASE ~dispatch(leader[k], c).error
  <2>1. writer' = [writer EXCEPT ![cl] = c] /\ c \in applied'
    BY <1>5 DEF write
  <2> HIDE DEF c
  <2>2. writer'[cl] = c /\ c.op = "SET"
    BY <1>3, <2>1 DEF OnlySet
  <2>3. leader' = [leader EXCEPT ![k] = Stores(c)] /\ Stores(c) # Absent
    BY <1>2, <1>3, <2>2, ExecuteSet
  <2>4. /\ leader'[k] = Stores(c) /\ \A l \in Key : l # k => leader'[l] = leader[l]
        /\ \A l \in Key : leader[l] # Absent => leader'[l] # Absent
    BY <1>3, <2>3
  <2>5. c # Idle /\ Stores(c).kind = "string" /\ Stores(c).expiry = "none"
    <3>1. Idle.op = "NONE"
      BY DEF Idle
    <3> QED BY <2>2, <3>1 DEF Stores
  <2>6. ASSUME NEW s \in Seq(Command), Overwrites(s, leader) PROVE Overwrites(s, leader')
    <3>1. \A i \in 1..Len(s) : s[i].key \in Key
      <4> SUFFICES ASSUME NEW i \in 1..Len(s) PROVE s[i].key \in Key
        OBVIOUS
      <4>1. s[i] \in Command
        OBVIOUS
      <4> QED BY <4>1 DEF Command
    <3> QED BY <2>4, <2>6, <3>1 DEF Overwrites
  <2>7. Overwrites(wire', leader') /\ Overwrites(snap', leader') /\ Overwrites(queue', leader')
    BY <1>1, <2>6 DEF SetInv, TypeOK
  <2>8. session' # "down" /\ ~lagged' =>
          \A l \in Key : l # k =>
             /\ LastIs(queue', l, leader'[l])
             /\ Silent(queue', l) => LastIs(snap', l, leader'[l]) /\ LastIs(wire', l, leader'[l])
             /\ Silent(queue', l) /\ Silent(snap', l) /\ Silent(wire', l) /\ l \notin todo' =>
                  replica'[l] = leader'[l]
    BY <1>1, <2>4 DEF SetInv, LastWord
  <2>9. /\ \A l \in Key : leader'[l] = Absent \/ leader'[l].kind = "string"
        /\ \A l \in Key : leader'[l].expiry = "none" /\ replica'[l].expiry = "none"
        /\ \A l \in Key : replica'[l] # Absent => leader'[l] # Absent
        /\ session' = "snapshot" => wire' = <<>>
        /\ session' = "live" => snap' = <<>> /\ todo' = {}
    BY <1>1, <2>4, <2>5 DEF SetInv
  <2> QED BY <1>2, <2>2, <2>4, <2>5, <2>7, <2>8, <2>9, SetInvAfter
<1> QED BY <1>4, <1>5

LEMMA BroadcastSet ==
  ASSUME TypeOK, NEW cl \in Client, SetInv(cl), broadcast(cl)
  PROVE  SetInv(cl)'
<1> DEFINE w == writer[cl]
<1>1. UNCHANGED <<leader, replica, session, todo, snap, wire>> /\ w # Idle /\ w \in Command
      /\ writer'[cl] = Idle /\ queue \in Seq(Command)
  BY DEF broadcast, TypeOK
<1>2. w.op = "SET" /\ leader[w.key] = Stores(w) /\ leader[w.key] # Absent
  <2>1. w.op = "SET" /\ leader[w.key] = Stores(w)
    BY <1>1 DEF SetInv
  <2>2. Stores(w).kind = "string" /\ Absent.kind # "string"
    BY DEF Stores, Absent
  <2> QED BY <2>1, <2>2
<1>3. session # "down" =>
        /\ queue' = Append(IF Len(queue) = Capacity THEN Tail(queue) ELSE queue, w)
        /\ lagged' = (lagged \/ Len(queue) = Capacity)
  BY DEF broadcast
<1>4. session = "down" => queue' = queue
  BY DEF broadcast
<1>5. Overwrites(queue, leader)
  BY DEF SetInv
<1> HIDE DEF w
<1>6. Overwrites(queue', leader')
  <2>1. CASE session = "down"
    BY <1>1, <1>4, <1>5, <2>1
  <2>2. CASE session # "down" /\ Len(queue) = Capacity
    <3>1. queue # <<>>
      BY <2>2, CapacityAssumption
    <3>2. Tail(queue) \in Seq(Command) /\ Overwrites(Tail(queue), leader)
      BY <1>1, <1>5, <3>1, OverwritesTail, FirstFrame
    <3> QED BY <1>1, <1>2, <1>3, <2>2, <3>2, OverwritesAppend
  <2>3. CASE session # "down" /\ Len(queue) # Capacity
    BY <1>1, <1>2, <1>3, <1>5, <2>3, OverwritesAppend
  <2> QED BY <2>1, <2>2, <2>3
<1>7. ASSUME session' # "down", ~lagged', NEW k \in Key
      PROVE  /\ LastIs(queue', k, leader'[k])
             /\ Silent(queue', k) => LastIs(snap', k, leader'[k]) /\ LastIs(wire', k, leader'[k])
             /\ Silent(queue', k) /\ Silent(snap', k) /\ Silent(wire', k) /\ k \notin todo' =>
                  replica'[k] = leader'[k]
  <2>1. queue' = Append(queue, w) /\ ~lagged /\ session # "down"
    BY <1>1, <1>3, <1>7
  <2>2. w.key # k => LastWord(k)
    BY <2>1 DEF SetInv, w
  <2>3. LastIs(Append(queue, w), k, leader[k])
    BY <1>1, <1>2, <2>2, LastAppend DEF LastWord
  <2>4. Silent(Append(queue, w), k) <=> (Silent(queue, k) /\ w.key # k)
    BY <1>1, SilentAppend
  <2> QED BY <1>1, <2>1, <2>2, <2>3, <2>4 DEF LastWord
<1> QED BY <1>1, <1>6, <1>7, SetInvAfter DEF SetInv

LEMMA ReplicateSet ==
  ASSUME TypeOK, NEW cl \in Client, SetInv(cl), replicate_from_leader
  PROVE  SetInv(cl)'
<1>1. /\ UNCHANGED <<leader, replica, writer, wire>> /\ wire = <<>>
      /\ session' = "snapshot" /\ todo' = Key /\ snap' = <<>> /\ queue' = <<>>
  BY DEF replicate_from_leader
<1> QED BY <1>1, Nothing, SetInvAfter DEF SetInv

LEMMA SnapshotSet ==
  ASSUME TypeOK, NEW cl \in Client, SetInv(cl), NEW k \in Key, snapshot(k)
  PROVE  SetInv(cl)'
<1> DEFINE e == [id |-> 0, op |-> "SET", key |-> k, items |-> leader[k].items]
           read == IF leader[k] = Absent THEN snap ELSE Append(snap, e)
<1>1. /\ UNCHANGED <<leader, replica, writer, queue, lagged>>
      /\ session = "snapshot" /\ todo' = todo \ {k} /\ wire = <<>>
      /\ session' = IF todo' = {} THEN "live" ELSE session
  BY DEF snapshot, SetInv
<1>2. snap \in Seq(Command) /\ leader[k] \in Value
  BY DEF TypeOK
<1>3. snap \o snapshot_entry_to_resp(k, leader[k]) = read
  <2>1. CASE leader[k] = Absent
    <3>1. snapshot_entry_to_resp(k, leader[k]) = <<>>
      BY <2>1 DEF snapshot_entry_to_resp, Absent, is_expired
    <3> QED BY <1>2, <2>1, <3>1
  <2>2. CASE leader[k] # Absent
    <3>1. leader[k].kind = "string" /\ leader[k].expiry = "none"
      BY <2>2 DEF SetInv
    <3>2. snapshot_entry_to_resp(k, leader[k]) = <<e>>
      BY <3>1 DEF snapshot_entry_to_resp, is_expired
    <3> HIDE DEF e
    <3> QED BY <1>2, <2>2, <3>2
  <2> QED BY <2>1, <2>2
<1>4. e \in Command /\ e.key = k /\ e.op = "SET"
  BY <1>2, BoundsAssumption DEF Value, Command, CommandName
<1>5. leader[k] # Absent => Stores(e) = leader[k]
  <2>1. leader[k].expiry = "none" /\ (leader[k] # Absent => leader[k].kind = "string")
    BY DEF SetInv
  <2>2. leader[k] = [kind |-> leader[k].kind, items |-> leader[k].items, expiry |-> leader[k].expiry]
    BY <1>2 DEF Value
  <2> QED BY <2>1, <2>2 DEF Stores
<1>6. \/ todo' = {} /\ snap' = <<>> /\ wire' = read
      \/ todo' # {} /\ snap' = read /\ wire' = <<>>
  <2> DEFINE r == snap \o snapshot_entry_to_resp(k, leader[k])
  <2>1. IF todo' = {} THEN snap' = <<>> /\ wire' = wire \o r ELSE snap' = r /\ wire' = wire
    BY DEF snapshot
  <2>2. r \in Seq(Command) /\ r = read
    BY <1>2, <1>3, SnapshotType
  <2> HIDE DEF r, read
  <2>3. <<>> \o r = r
    BY <2>2
  <2> QED BY <1>1, <2>1, <2>2, <2>3
<1> HIDE DEF e
<1>7. Overwrites(read, leader)
  BY <1>2, <1>4, OverwritesAppend DEF SetInv
<1>8. Overwrites(wire', leader') /\ Overwrites(snap', leader') /\ Overwrites(queue', leader')
  BY <1>1, <1>6, <1>7, Nothing DEF SetInv
<1>9. ASSUME ~lagged', NEW l \in Key, writer[cl] # Idle => writer[cl].key # l
      PROVE  /\ LastIs(queue', l, leader'[l])
             /\ Silent(queue', l) => LastIs(snap', l, leader'[l]) /\ LastIs(wire', l, leader'[l])
             /\ Silent(queue', l) /\ Silent(snap', l) /\ Silent(wire', l) /\ l \notin todo' =>
                  replica'[l] = leader'[l]
  <2>1. LastWord(l)
    BY <1>1, <1>9 DEF SetInv
  <2>2. Silent(queue, l) => LastIs(read, l, leader[l])
    <3>1. leader[k] # Absent /\ Silent(queue, l) => LastIs(Append(snap, e), l, leader[l])
      BY <1>2, <1>4, <1>5, <2>1, LastAppend DEF LastWord
    <3> QED BY <2>1, <3>1 DEF LastWord
  <2>3. Silent(read, l) => Silent(snap, l) /\ (l = k => leader[k] = Absent)
    <3>1. Silent(Append(snap, e), l) <=> (Silent(snap, l) /\ e.key # l)
      BY <1>2, <1>4, SilentAppend
    <3> QED BY <1>4, <3>1
  <2>4. leader[l] = Absent => replica[l] = Absent
    BY DEF SetInv
  <2> HIDE DEF read
  <2>5. Silent(wire, l) /\ LastIs(<<>>, l, leader[l]) /\ Silent(<<>>, l)
    BY <1>1, Nothing
  <2>6. Silent(snap', l) /\ Silent(wire', l) => Silent(read, l)
    BY <1>6
  <2>7. Silent(queue, l) /\ Silent(read, l) /\ l \notin todo' => replica[l] = leader[l]
    BY <1>1, <2>1, <2>3, <2>4, <2>5 DEF LastWord
  <2> QED BY <1>1, <1>6, <2>1, <2>2, <2>5, <2>6, <2>7 DEF LastWord
<1> HIDE DEF read
<1> QED BY <1>1, <1>6, <1>8, <1>9, SetInvAfter DEF SetInv

LEMMA ForwardSet ==
  ASSUME TypeOK, NEW cl \in Client, SetInv(cl), forward
  PROVE  SetInv(cl)'
<1> DEFINE h == Head(queue)
           t == Tail(queue)
<1>1. /\ UNCHANGED <<leader, replica, writer, session, todo, snap, lagged>>
      /\ session = "live" /\ ~lagged /\ queue # <<>> /\ wire' = Append(wire, h) /\ queue' = t
  BY DEF forward
<1>2. queue \in Seq(Command) /\ wire \in Seq(Command)
  BY DEF TypeOK
<1>3. h \in Command /\ t \in Seq(Command)
  BY <1>1, <1>2, FirstFrame
<1>4. Overwrites(t, leader) /\ h.op = "SET" /\ leader[h.key] # Absent
  BY <1>1, <1>2, OverwritesTail DEF SetInv
<1>5. ASSUME NEW k \in Key, writer[cl] # Idle => writer[cl].key # k
      PROVE  /\ LastIs(queue', k, leader'[k])
             /\ Silent(queue', k) => LastIs(snap', k, leader'[k]) /\ LastIs(wire', k, leader'[k])
             /\ Silent(queue', k) /\ Silent(snap', k) /\ Silent(wire', k) /\ k \notin todo' =>
                  replica'[k] = leader'[k]
  <2>1. LastWord(k)
    BY <1>1, <1>5 DEF SetInv
  <2>2. LastIs(t, k, leader[k]) /\ (Silent(t, k) /\ h.key = k => Stores(h) = leader[k])
    BY <1>1, <1>2, <2>1, LastTail DEF LastWord
  <2>3. Silent(queue, k) <=> (Silent(t, k) /\ h.key # k)
    BY <1>1, <1>2, SilentTail
  <2> HIDE DEF h, t
  <2>4. Silent(Append(wire, h), k) <=> (Silent(wire, k) /\ h.key # k)
    BY <1>2, <1>3, SilentAppend
  <2>5. Silent(t, k) => LastIs(Append(wire, h), k, leader[k])
    BY <1>2, <1>3, <2>1, <2>2, <2>3, LastAppend DEF LastWord
  <2>6. LastIs(<<>>, k, leader[k]) /\ snap = <<>>
    BY <1>1, Nothing DEF SetInv
  <2> QED BY <1>1, <2>1, <2>2, <2>3, <2>4, <2>5, <2>6 DEF LastWord
<1> HIDE DEF h, t
<1>6. Overwrites(wire', leader') /\ Overwrites(snap', leader') /\ Overwrites(queue', leader')
  BY <1>1, <1>2, <1>3, <1>4, OverwritesAppend DEF SetInv
<1> QED BY <1>1, <1>5, <1>6, SetInvAfter DEF SetInv

LEMMA ReplaySet ==
  ASSUME TypeOK, NEW cl \in Client, SetInv(cl), replay
  PROVE  SetInv(cl)'
<1> DEFINE h == Head(wire)
           t == Tail(wire)
<1>1. /\ UNCHANGED <<leader, writer, session, todo, snap, queue, lagged>>
      /\ wire # <<>> /\ replica' = execute(replica, h) /\ wire' = t
  BY DEF replay
<1>2. wire \in Seq(Command) /\ replica \in [Key -> Value]
  BY DEF TypeOK
<1>3. h \in Command /\ t \in Seq(Command)
  BY <1>1, <1>2, FirstFrame
<1>4. Overwrites(t, leader) /\ h.op = "SET" /\ leader[h.key] # Absent
  BY <1>1, <1>2, OverwritesTail DEF SetInv
<1>5. ASSUME NEW k \in Key, LastWord(k)
      PROVE  LastIs(t, k, leader[k]) \/ ~Silent(queue, k)
  BY <1>1, <1>2, <1>5, LastTail DEF LastWord
<1>6. ASSUME NEW k \in Key, LastWord(k), Silent(queue, k), Silent(t, k), h.key = k
      PROVE  Stores(h) = leader[k]
  BY <1>1, <1>2, <1>6, LastTail DEF LastWord
<1>7. ASSUME NEW k \in Key, Silent(t, k), h.key # k PROVE Silent(wire, k)
  BY <1>1, <1>2, <1>7, SilentTail
<1> HIDE DEF h, t
<1>8. /\ replica' = [replica EXCEPT ![h.key] = Stores(h)] /\ h.key \in Key
      /\ replica'[h.key] = Stores(h) /\ \A k \in Key : k # h.key => replica'[k] = replica[k]
  BY <1>1, <1>2, <1>3, <1>4, ExecuteSet
<1>9. ASSUME session # "down", ~lagged, NEW k \in Key, writer[cl] # Idle => writer[cl].key # k
      PROVE  /\ LastIs(queue', k, leader'[k])
             /\ Silent(queue', k) => LastIs(snap', k, leader'[k]) /\ LastIs(wire', k, leader'[k])
             /\ Silent(queue', k) /\ Silent(snap', k) /\ Silent(wire', k) /\ k \notin todo' =>
                  replica'[k] = leader'[k]
  <2>1. LastWord(k)
    BY <1>9 DEF SetInv
  <2>2. CASE h.key = k
    BY <1>1, <1>5, <1>6, <1>8, <2>1, <2>2 DEF LastWord
  <2>3. CASE h.key # k
    BY <1>1, <1>5, <1>7, <1>8, <2>1, <2>3 DEF LastWord
  <2> QED BY <2>2, <2>3
<1>10. /\ \A k \in Key : replica'[k] # Absent => leader'[k] # Absent
       /\ \A k \in Key : leader'[k].expiry = "none" /\ replica'[k].expiry = "none"
  BY <1>1, <1>4, <1>8 DEF SetInv, Stores
<1>11. Overwrites(wire', leader') /\ Overwrites(snap', leader') /\ Overwrites(queue', leader')
  BY <1>1, <1>4 DEF SetInv
<1>12. session' = "snapshot" => wire' = <<>>
  BY <1>1 DEF SetInv
<1> QED BY <1>1, <1>9, <1>10, <1>11, <1>12, SetInvAfter DEF SetInv

LEMMA DownSet ==
  ASSUME TypeOK, NEW cl \in Client, SetInv(cl), lag \/ break
  PROVE  SetInv(cl)'
<1>1. /\ UNCHANGED <<leader, replica, writer>> /\ session' = "down" /\ queue' = <<>>
      /\ wire' = wire \/ wire' = <<>>
      /\ snap' = snap \/ snap' = <<>>
  BY DEF lag, break
<1>2. Overwrites(wire', leader') /\ Overwrites(snap', leader') /\ Overwrites(queue', leader')
  BY <1>1, Nothing DEF SetInv
<1> QED BY <1>1, <1>2, SetInvAfter DEF SetInv

(* Nothing that only SET without EX or PX wrote expires.                   *)
LEMMA NothingExpires ==
  ASSUME NEW cl \in Client, SetInv(cl), NEW k \in Key
  PROVE  ~expire(k)
BY DEF SetInv, expire

(* "Followers stay in sync": with one writing client and commands that     *)
(* overwrite, a replica that has read all there is to read holds what the  *)
(* leader holds, through any number of broken connections, lags and        *)
(* writes in the middle of a snapshot, for any keys and any capacity of    *)
(* the channel.                                                            *)
THEOREM FollowerInSync ==
  ASSUME NEW cl, Client = {cl}
  PROVE  Spec => []SetInSync
<1> DEFINE I == OnlySet => SetInv(cl)
<1>1. Init => I
  <2> SUFFICES ASSUME Init PROVE SetInv(cl)
    OBVIOUS
  <2> QED BY Nothing DEF Init, SetInv, Absent
<1>2. TypeOK /\ I /\ [Next]_vars => I'
  <2> SUFFICES ASSUME TypeOK, I, [Next]_vars, OnlySet' PROVE SetInv(cl)'
    BY DEF SetInv
  <2>1. SetInv(cl)
    BY OnlySetBefore
  <2>2. CASE UNCHANGED vars
    BY <2>1, <2>2, SetInvAfter DEF vars, sessionVars, SetInv, LastWord
  <2>3. ASSUME NEW op \in Op, NEW k \in Key, NEW x \in Item, NEW d \in Client, write(d, op, k, x)
        PROVE  SetInv(cl)'
    BY <2>1, <2>3, WriteSet
  <2>4. ASSUME NEW d \in Client, broadcast(d) PROVE SetInv(cl)'
    BY <2>1, <2>4, BroadcastSet
  <2>5. ASSUME NEW k \in Key, snapshot(k) PROVE SetInv(cl)'
    BY <2>1, <2>5, SnapshotSet
  <2> QED BY <2>1, <2>2, <2>3, <2>4, <2>5, ReplicateSet, ForwardSet, ReplaySet, DownSet,
          NothingExpires DEF Next
<1>3. TypeOK /\ I => SetInSync
  <2> SUFFICES ASSUME TypeOK, SetInv(cl), CaughtUp PROVE replica = leader
    BY DEF SetInSync, InSync
  <2>1. /\ session = "live" /\ ~lagged /\ queue = <<>> /\ wire = <<>> /\ snap = <<>> /\ todo = {}
        /\ writer[cl] = Idle
    BY DEF CaughtUp, SetInv
  <2>2. \A k \in Key : replica[k] = leader[k]
    BY <2>1, Nothing DEF SetInv, LastWord
  <2> QED BY <2>2 DEF TypeOK
<1> HIDE DEF I
<1> QED BY <1>1, <1>2, <1>3, InitType, NextType, PTL DEF Spec

=============================================================================
