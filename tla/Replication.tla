---------------------------- MODULE Replication ----------------------------
(***************************************************************************)
(* Leader-follower replication (src/src/replication, src/src/network and   *)
(* the replication path of commands::execute): a leader, its clients and   *)
(* one replica.                                                            *)
(*                                                                         *)
(* A client task writes to the store and then broadcasts the command, two  *)
(* steps that other tasks may come between.  A replica session subscribes  *)
(* to the broadcast channel, reads the store key by key (DashMap iteration *)
(* is not a consistent cut), sends what it read and then forwards the      *)
(* channel.  The TCP connection is the sequence wire.                      *)
(***************************************************************************)
EXTENDS Commands

CONSTANTS
  Client,      \* client connections of the leader, a task each
  Op,          \* the commands clients use: a subset of CommandName
  Capacity,    \* BROADCAST_CAPACITY
  MaxWrites,   \* bound on the commands issued
  MaxBreaks,   \* bound on broken connections
  MaxExpiries  \* bound on steps of time

ASSUME OpAssumption == Op \subseteq CommandName
ASSUME CapacityAssumption == Capacity \in Nat \ {0}
ASSUME BoundsAssumption == MaxWrites \in Nat /\ MaxBreaks \in Nat /\ MaxExpiries \in Nat

VARIABLES
  leader, replica,  \* the two stores
  writer,           \* per client: the command written and not yet broadcast
  issued,           \* number of commands issued
  session,          \* the replica's session on the leader
  todo, snap,       \* keys the snapshot has still to read, frames of those read
  queue, lagged,    \* the session's broadcast receiver
  wire,             \* frames sent to the replica and not yet applied
  breaks, expiries  \* numbers of broken connections and of steps of time

(* History of the session, read by no action: the writes applied to the    *)
(* leader's store, those a snapshot read came after, those forwarded.      *)
VARIABLES applied, captured, forwarded

sessionVars == <<session, todo, snap, queue, lagged, wire>>
history == <<applied, captured, forwarded>>
bounds == <<breaks, expiries>>
vars == <<leader, replica, writer, issued, sessionVars, bounds, history>>

-----------------------------------------------------------------------------
(* A frame with the number of the write it stands for, 0 in a snapshot. *)
Command == [id : 0..MaxWrites, op : CommandName, key : Key, items : Seq(Item)]
Idle == [id |-> 0, op |-> "NONE"]

(* The frames that recreate a value, without its expiry: none for an       *)
(* absent key, an expired value or an empty list.                          *)
snapshot_entry_to_resp(k, v) ==
  CASE is_expired(v) -> <<>>
    [] ~is_expired(v) /\ v.kind = "string" -> <<[id |-> 0, op |-> "SET", key |-> k, items |-> v.items]>>
    [] ~is_expired(v) /\ v.kind = "list" /\ v.items # <<>> ->
         <<[id |-> 0, op |-> "RPUSH", key |-> k, items |-> v.items]>>
    [] OTHER -> <<>>

Init ==
  /\ leader = [k \in Key |-> Absent] /\ replica = [k \in Key |-> Absent]
  /\ writer = [cl \in Client |-> Idle] /\ issued = 0
  /\ session = "down" /\ todo = {} /\ snap = <<>> /\ queue = <<>> /\ lagged = FALSE /\ wire = <<>>
  /\ breaks = 0 /\ expiries = 0
  /\ applied = {} /\ captured = {} /\ forwarded = {}

-----------------------------------------------------------------------------
(* The leader's clients: commands::execute *)

(* The store executes the command; only a successful one is broadcast. *)
write(cl, op, k, x) ==
  LET c == [id |-> issued + 1, op |-> op, key |-> k,
            items |-> IF op \in WithItem THEN <<x>> ELSE <<>>]
  IN /\ writer[cl] = Idle
     /\ issued < MaxWrites
     /\ issued' = issued + 1
     /\ leader' = execute(leader, c)
     /\ IF dispatch(leader[k], c).error
        THEN UNCHANGED <<writer, applied>>
        ELSE writer' = [writer EXCEPT ![cl] = c] /\ applied' = applied \cup {c}
     /\ UNCHANGED <<replica, sessionVars, bounds, captured, forwarded>>

(* Variant: the receiver's buffer has no limit. *)
broadcast_unbounded(cl) ==
  /\ writer[cl] # Idle
  /\ writer' = [writer EXCEPT ![cl] = Idle]
  /\ queue' = IF session = "down" THEN queue ELSE Append(queue, writer[cl])
  /\ UNCHANGED <<leader, replica, issued, session, todo, snap, lagged, wire, bounds, history>>

(* The channel keeps the last Capacity commands a receiver has not read;   *)
(* without a receiver the command goes nowhere.                            *)
broadcast(cl) ==
  /\ writer[cl] # Idle
  /\ writer' = [writer EXCEPT ![cl] = Idle]
  /\ IF session = "down"
     THEN UNCHANGED <<queue, lagged>>
     ELSE /\ lagged' = (lagged \/ Len(queue) = Capacity)
          /\ queue' = Append(IF Len(queue) = Capacity THEN Tail(queue) ELSE queue, writer[cl])
  /\ UNCHANGED <<leader, replica, issued, session, todo, snap, wire, bounds, history>>

(* The time a value expires at comes, and after that a reader removes it:  *)
(* on the leader and on the replica each by its own clock, and nothing is  *)
(* broadcast.                                                              *)
aged(v) == IF is_expired(v) THEN Absent ELSE expires(v, "past")

expire(k) ==
  /\ expiries < MaxExpiries /\ expiries' = expiries + 1
  /\ \/ /\ leader[k].expiry # "none"
        /\ leader' = [leader EXCEPT ![k] = aged(@)] /\ UNCHANGED replica
     \/ /\ replica[k].expiry # "none"
        /\ replica' = [replica EXCEPT ![k] = aged(@)] /\ UNCHANGED leader
  /\ UNCHANGED <<writer, issued, sessionVars, breaks, history>>

-----------------------------------------------------------------------------
(* The replica's session on the leader: handle_replica_sync *)

(* run_follower_loop reconnects and sends SYNC; the leader subscribes. The *)
(* replica keeps the keys it has.                                          *)
replicate_from_leader ==
  /\ session = "down" /\ wire = <<>>
  /\ session' = "snapshot" /\ todo' = Key /\ snap' = <<>>
  /\ queue' = <<>> /\ lagged' = FALSE
  /\ captured' = {} /\ forwarded' = {}
  /\ UNCHANGED <<leader, replica, writer, issued, wire, bounds, applied>>

(* Variant: the session subscribes when the snapshot is complete. *)
snapshot_then_subscribe(k) ==
  /\ session = "snapshot" /\ k \in todo
  /\ todo' = todo \ {k}
  /\ session' = IF todo' = {} THEN "live" ELSE session
  /\ queue' = IF todo' = {} THEN <<>> ELSE queue
  /\ LET read == snap \o snapshot_entry_to_resp(k, leader[k])
     IN IF todo' = {} THEN snap' = <<>> /\ wire' = wire \o read
                      ELSE snap' = read /\ UNCHANGED wire
  /\ captured' = captured \cup {c \in applied : c.key = k}
  /\ UNCHANGED <<leader, replica, writer, issued, lagged, bounds, applied, forwarded>>

(* The snapshot reads one more key; with the last one its frames are sent. *)
snapshot(k) ==
  /\ session = "snapshot" /\ k \in todo
  /\ todo' = todo \ {k}
  /\ session' = IF todo' = {} THEN "live" ELSE session
  /\ LET read == snap \o snapshot_entry_to_resp(k, leader[k])
     IN IF todo' = {} THEN snap' = <<>> /\ wire' = wire \o read
                      ELSE snap' = read /\ UNCHANGED wire
  /\ captured' = captured \cup {c \in applied : c.key = k}
  /\ UNCHANGED <<leader, replica, writer, issued, queue, lagged, bounds, applied, forwarded>>

(* rx.recv returns the oldest command. *)
forward ==
  /\ session = "live" /\ ~lagged /\ queue # <<>>
  /\ wire' = Append(wire, Head(queue))
  /\ queue' = Tail(queue)
  /\ forwarded' = forwarded \cup {Head(queue)}
  /\ UNCHANGED <<leader, replica, writer, issued, session, todo, snap, lagged, bounds,
                 applied, captured>>

(* Variant: the session goes on with what the channel still holds. *)
lag_ignored ==
  /\ session = "live" /\ lagged
  /\ lagged' = FALSE
  /\ UNCHANGED <<leader, replica, writer, issued, session, todo, snap, queue, wire, bounds,
                 history>>

(* rx.recv returns Lagged: the leader closes the connection, and what was  *)
(* sent before still arrives.                                              *)
lag ==
  /\ session = "live" /\ lagged
  /\ session' = "down" /\ lagged' = FALSE /\ queue' = <<>>
  /\ UNCHANGED <<leader, replica, writer, issued, todo, snap, wire, bounds, history>>

(* The connection breaks: frames on the way are lost. *)
break ==
  /\ session # "down" /\ breaks < MaxBreaks
  /\ breaks' = breaks + 1
  /\ session' = "down" /\ todo' = {} /\ snap' = <<>>
  /\ queue' = <<>> /\ lagged' = FALSE /\ wire' = <<>>
  /\ UNCHANGED <<leader, replica, writer, issued, expiries, history>>

(* The replica executes the next frame, ignoring the answer. *)
replay ==
  /\ wire # <<>>
  /\ replica' = execute(replica, Head(wire))
  /\ wire' = Tail(wire)
  /\ UNCHANGED <<leader, writer, issued, session, todo, snap, queue, lagged, bounds, history>>

Next ==
  \/ \E cl \in Client, op \in Op, k \in Key, x \in Item : write(cl, op, k, x)
  \/ \E cl \in Client : broadcast(cl)
  \/ \E k \in Key : expire(k)
  \/ replicate_from_leader
  \/ \E k \in Key : snapshot(k)
  \/ forward
  \/ lag
  \/ break
  \/ replay

Spec == Init /\ [][Next]_vars

(* Tasks are scheduled and the replica retries for ever; clients need not  *)
(* write.                                                                  *)
Fairness ==
  /\ \A cl \in Client : WF_vars(broadcast(cl))
  /\ WF_vars(replicate_from_leader)
  /\ \A k \in Key : WF_vars(snapshot(k))
  /\ WF_vars(forward) /\ WF_vars(lag) /\ WF_vars(replay)

FairSpec == Spec /\ Fairness

-----------------------------------------------------------------------------
(* Properties *)

(* The types; a receiver never buffers more than the channel's capacity. *)
TypeOK ==
  /\ leader \in [Key -> Value] /\ replica \in [Key -> Value]
  /\ writer \in [Client -> Command \cup {Idle}]
  /\ issued \in 0..MaxWrites /\ breaks \in 0..MaxBreaks /\ expiries \in 0..MaxExpiries
  /\ session \in {"down", "snapshot", "live"} /\ todo \subseteq Key
  /\ queue \in Seq(Command) /\ Len(queue) <= Capacity
  /\ lagged \in BOOLEAN /\ snap \in Seq(Command) /\ wire \in Seq(Command)
  /\ applied \subseteq Command /\ captured \subseteq Command /\ forwarded \subseteq Command

(* The commands of a sequence. *)
Elements(s) == {s[i] : i \in 1..Len(s)}

(* What subscribing before the snapshot is for: in a session that has sent *)
(* its snapshot and has not lagged, every write is in the snapshot, was    *)
(* forwarded, waits in the channel or is about to be broadcast.            *)
NoMissedWrite ==
  session = "live" /\ ~lagged =>
    \A c \in applied :
      \/ c \in captured \/ c \in forwarded \/ c \in Elements(queue)
      \/ \E cl \in Client : writer[cl] = c

(* A replica that is connected and has nothing left to read. *)
CaughtUp ==
  /\ session = "live" /\ queue = <<>> /\ ~lagged /\ wire = <<>>
  /\ \A cl \in Client : writer[cl] = Idle

(* "Followers stay in sync": a replica that has caught up holds what the   *)
(* leader holds.                                                           *)
InSync == CaughtUp => replica = leader

(* Only commands that overwrite were used, and without an expiry: the      *)
(* snapshot forgets that, and the replica keeps what the leader drops.     *)
OnlySet == \A c \in applied : c.op = "SET"

(* It is so for one writing client and SET without EX or PX: a write       *)
(* that arrives twice, with the snapshot and with the stream, does no      *)
(* harm, and neither do the keys a reconnecting replica still has.         *)
SetInSync == OnlySet => InSync

(* When writes and broken connections stop, the replica ends up with the   *)
(* leader's data and keeps it, also after it lagged and was disconnected.  *)
SetConverges == []OnlySet => <>[](replica = leader)

=============================================================================
