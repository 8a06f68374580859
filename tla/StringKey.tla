------------------------------ MODULE StringKey -------------------------------
(***************************************************************************)
(* The string commands (src/src/commands/mod.rs) on one key, and what they *)
(* append to the append-only file.  Of an expiry only its presence counts  *)
(* here; the passing of time, and the two accesses of GETSET and of the    *)
(* conditional SET, are the subject of Keyspace.                           *)
(***************************************************************************)
EXTENDS Key

CONSTANTS
  BASE,                  \* of the numerals
  MaxText                \* bound on the length of a string

T == INSTANCE Strings

text == IF entry.kind = "string" THEN entry.data.text ELSE <<>>

-----------------------------------------------------------------------------
(* The commands *)

cmd_get == read(request("get", <<>>), "string", null_bulk, {bulk(text)})
cmd_strlen == read(request("strlen", <<>>), "string", integer(0), {integer(Len(text))})

(* EX or PX with an amount that is no positive number is no expiry. *)
cmd_set(v, cond, ttl) ==
  LET refused == (cond = "NX" /\ entry # none) \/ (cond = "XX" /\ entry = none)
  IN /\ cmd' = request("set", <<v, cond, ttl>>)
     /\ entry' = IF refused THEN entry ELSE string(v, ttl)
     /\ reply' = IF refused THEN null_bulk ELSE ok
cmd_setnx(v) ==
  /\ cmd' = request("setnx", <<v>>)
  /\ entry' = IF entry = none THEN string(v, FALSE) ELSE entry
  /\ reply' = integer(IF entry = none THEN 1 ELSE 0)

(* Of a value that is no string GETSET answers nothing, and replaces it. *)
cmd_getset(v) ==
  /\ cmd' = request("getset", <<v>>)
  /\ entry' = string(v, FALSE)
  /\ reply' = IF entry.kind = "string" THEN bulk(text) ELSE null_bulk

cmd_append(v) ==
  /\ Len(text \o v) <= MaxText
  /\ or_insert(request("append", <<v>>), "string",
       {result([text |-> text \o v], integer(Len(text \o v)))})

(* The text INCR starts from: 0 where there is no value. *)
number == IF entry.kind = "none" THEN T!to_string(0) ELSE text
added(c, by) ==
  or_insert(c, "string",
    LET sum == T!incrby(number, by)
    IN {IF sum = <<>> THEN result([text |-> number], error)
        ELSE result([text |-> T!to_string(sum[1])], integer(sum[1]))})

cmd_incrby(op, delta) == added(request(op, <<>>), delta)

(* INCRBY and DECRBY multiply the amount by a sign. *)
by(n, sign) == T!wrapping(n * sign)
sign_of(op) == IF op \in {"incr", "incrby"} THEN 1 ELSE -1
cmd_incrby_by(op, n) == added(request(op, <<n>>), by(n, sign_of(op)))

(* Strings a client sends; any other is the result of appending to them. *)
Texts == {<<>>, <<1>>, T!to_string(T!I64_MIN)}

StringCommand ==
  \/ cmd_get \/ cmd_strlen
  \/ \E v \in Texts : cmd_setnx(v) \/ cmd_getset(v)
  \/ \E v \in Texts, cond \in {"", "NX", "XX"}, ttl \in BOOLEAN : cmd_set(v, cond, ttl)
  \/ \E ch \in T!Char : cmd_append(<<ch>>)
  \/ \E op \in {"incr", "decr"} : cmd_incrby(op, sign_of(op))
  \/ \E op \in {"incrby", "decrby"}, n \in T!I64 : cmd_incrby_by(op, n)

-----------------------------------------------------------------------------
(* The append-only file *)

(* Variant: DECRBY is logged as INCRBY. *)
log_as_incrby(c) ==
  CASE c.op \in {"set", "setnx", "getset"} -> request("set", <<c.args[1], "", FALSE>>)
    [] c.op \in {"append", "incr", "decr"} -> c
    [] c.op \in {"incrby", "decrby"} -> request("incrby", <<T!abs(by(c.args[1], sign_of(c.op)))>>)

(* The frame a command appends when it succeeds: of SET the key and the    *)
(* value, and of the amount of INCRBY and DECRBY the absolute value.       *)
log(c) ==
  CASE c.op \in {"set", "setnx", "getset"} -> request("set", <<c.args[1], "", FALSE>>)
    [] c.op \in {"append", "incr", "decr"} -> c
    [] c.op \in {"incrby", "decrby"} -> request(c.op, <<T!abs(by(c.args[1], sign_of(c.op)))>>)

(* The entry after the frame is executed again, on what was there before. *)
replayed(c) ==
  CASE c.op = "set" -> string(c.args[1], c.args[3])
    [] c.op = "append" -> string(text \o c.args[1], entry.ttl)
    [] OTHER ->
         LET sum == T!incrby(number, IF c.args = <<>> THEN sign_of(c.op)
                                     ELSE by(c.args[1], sign_of(c.op)))
         IN string(IF sum = <<>> THEN number ELSE T!to_string(sum[1]), entry.ttl)

-----------------------------------------------------------------------------
(* Property *)

Logged == {"set", "setnx", "getset", "append", "incr", "decr", "incrby", "decrby"}
Done == reply'.tag \in (IF cmd'.op = "getset" THEN {"bulk", "null"} ELSE {"ok", "integer"})
          /\ (cmd'.op = "setnx" => reply' = integer(1))
Expiring == cmd'.op = "set" /\ cmd'.args[3]
Negated == cmd'.op \in {"incrby", "decrby"} /\ cmd'.args[1] \in T!I64_MIN + 1 .. -1

(* The file has the change a string command made: its frame, executed on   *)
(* the entry before the command, gives the entry after it, up to the       *)
(* smallest integer, whose negation and absolute value wrap around.  Two   *)
(* kinds of change are lost.  An amount that is negative is logged without *)
(* its sign, and the replay goes the other way; and SET is logged without  *)
(* EX and PX, so that what replays is the value, with no expiry.           *)
LogReplays ==
  [][cmd'.op \in Logged /\ Done /\ ~Negated =>
       replayed(log(cmd')) = IF Expiring THEN [entry' EXCEPT !.ttl = FALSE] ELSE entry']_vars

=============================================================================
