--------------------------------- MODULE Key ----------------------------------
(***************************************************************************)
(* One key of the store and its access by the functions of                 *)
(* src/src/storage/mod.rs.  Each of them holds the lock of the key's shard *)
(* from its look-up to its end, so a command on one key is one step.       *)
(***************************************************************************)
EXTENDS Integers, FiniteSets, Sequences, Replies

CONSTANTS
  I64_MAX,               \* the largest count, index or rank a client can send
  MAX_CAPACITY           \* the most elements a vector can be asked to have room for

ASSUME Width == I64_MAX \in Nat /\ MAX_CAPACITY \in Nat

VARIABLES
  entry,                 \* the entry of the key: the kind of its value, the value, and
                         \* whether it expires
  cmd,                   \* the command executed last
  reply                  \* and its answer

vars == <<entry, cmd, reply>>

none == [kind |-> "none", data |-> [enc |-> "none"], ttl |-> FALSE]
string(v, ttl) == [kind |-> "string", data |-> [text |-> v], ttl |-> ttl]

-----------------------------------------------------------------------------
(* Access to the entry *)

result(d, r) == [data |-> d, reply |-> r]

(* The entry with another value: it keeps its expiry. *)
with(k, d) == [kind |-> k, data |-> d, ttl |-> entry.ttl]

(* data.get or data.get_mut: a missing key has an answer of its own. *)
with_value(c, k, missing, results) ==
  /\ cmd' = c
  /\ \/ /\ entry.kind = "none"
        /\ reply' = missing
        /\ UNCHANGED entry
     \/ /\ entry.kind = k
        /\ \E r \in results : entry' = with(k, r.data) /\ reply' = r.reply
     \/ /\ entry.kind \notin {"none", k}
        /\ reply' = wrongtype
        /\ UNCHANGED entry

(* entry().or_insert_with: a missing key is created, and stays, whatever   *)
(* the command does next.                                                  *)
or_insert(c, k, results) ==
  /\ cmd' = c
  /\ \/ /\ entry.kind \in {"none", k}
        /\ \E r \in results : entry' = with(k, r.data) /\ reply' = r.reply
     \/ /\ entry.kind \notin {"none", k}
        /\ reply' = wrongtype
        /\ UNCHANGED entry

(* A command that only reads. *)
read(c, k, missing, replies) ==
  with_value(c, k, missing, {result(entry.data, r) : r \in replies})

(* The value a command works on: a new one where there is none. *)
data_or(k, new) == IF entry.kind = k THEN entry.data ELSE new

-----------------------------------------------------------------------------
(* Commands on every type *)

Init == entry = none /\ cmd = request("none", <<>>) /\ reply = null_bulk

cmd_type ==
  cmd' = request("type", <<>>) /\ reply' = bulk(entry.kind) /\ UNCHANGED entry
cmd_del ==
  /\ cmd' = request("del", <<>>)
  /\ reply' = integer(IF entry.kind = "none" THEN 0 ELSE 1)
  /\ entry' = none

-----------------------------------------------------------------------------
(* Arguments of the requests *)

(* One or two arguments of a variadic command. *)
OneOrTwo(A) == {<<x>> : x \in A} \cup (A \X A)

(* An optional count. *)
Counts == {<<>>, <<-1>>, <<0>>, <<1>>, <<2>>, <<I64_MAX>>}

=============================================================================
