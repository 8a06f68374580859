----------------------------- MODULE Commands -----------------------------
(***************************************************************************)
(* Write commands on one key (src/src/commands): what they do to the value *)
(* stored under the key, whether they answer with an error, and what they  *)
(* leave in the append-only file.  Strings and lists stand for the value   *)
(* types; SET, RPUSH, LPOP and DEL for the commands that overwrite, add,   *)
(* take away and remove; SETEX for SET with EX or PX, EXPIRE also for      *)
(* PEXPIRE.  An item is a byte string; a value has no expiry, expires      *)
(* later, or has expired and is still in the store.                        *)
(***************************************************************************)
EXTENDS Integers, Sequences

CONSTANTS Key, Item

(* A list that was popped empty stays in the store. *)
Value == [kind : {"none", "string", "list"}, items : Seq(Item),
          expiry : {"none", "later", "past"}]
Absent == [kind |-> "none", items |-> <<>>, expiry |-> "none"]
is_expired(v) == v.expiry = "past"
expires(v, e) == [kind |-> v.kind, items |-> v.items, expiry |-> e]

CommandName == {"SET", "SETEX", "EXPIRE", "RPUSH", "LPOP", "DEL"}
WithItem == {"SET", "SETEX", "RPUSH"}

(* The frame of a command. *)
Frame == [op : CommandName, key : Key, items : Seq(Item)]
frame(op, k, s) == [op |-> op, key |-> k, items |-> s]

(* What a handler does: the new value, whether it answers with an error,   *)
(* and the frames it appends to the file.                                  *)
result(v, log) == [value |-> v, error |-> FALSE, log |-> log]
wrong_type(v) == [value |-> v, error |-> TRUE, log |-> <<>>]

(* log_set writes the key and the value, never the expiry. *)
cmd_set(v, c) ==
  result([kind |-> "string", items |-> c.items,
          expiry |-> IF c.op = "SETEX" THEN "later" ELSE "none"],
         <<[c EXCEPT !.op = "SET"]>>)

(* EXPIRE is never logged. *)
cmd_expire(v, c) ==
  result(IF v = Absent \/ is_expired(v) THEN v ELSE expires(v, "later"), <<>>)

(* Variant: DEL is not logged. *)
cmd_del_unlogged(v, c) == result(Absent, <<>>)

(* Nothing is logged when there was nothing to delete. *)
cmd_del(v, c) ==
  result(Absent, IF v = Absent THEN <<>> ELSE <<c>>)

(* A push starts from an empty list where there is no value, and keeps the *)
(* expiry, also one that has passed.                                       *)
push_back(l, items) == l \o items

cmd_rpush(v, c) ==
  IF v.kind = "string" THEN wrong_type(v)
  ELSE result([kind |-> "list", items |-> push_back(v.items, c.items), expiry |-> v.expiry],
              <<c>>)

(* A pop that leaves nothing keeps the empty list; LPOP is never logged. *)
pop_front(l) == IF l = <<>> THEN l ELSE Tail(l)

cmd_lpop(v, c) ==
  IF v.kind = "string" THEN wrong_type(v)
  ELSE result([v EXCEPT !.items = pop_front(@)], <<>>)

dispatch(v, c) ==
  CASE c.op \in {"SET", "SETEX"} -> cmd_set(v, c)
    [] c.op = "EXPIRE" -> cmd_expire(v, c)
    [] c.op = "DEL" -> cmd_del(v, c)
    [] c.op = "RPUSH" -> cmd_rpush(v, c)
    [] c.op = "LPOP" -> cmd_lpop(v, c)

(* A store after executing a frame. *)
execute(store, c) == [store EXCEPT ![c.key] = dispatch(@, c).value]

=============================================================================
