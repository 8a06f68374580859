------------------------------ MODULE Replies ------------------------------
(***************************************************************************)
(* Requests as the client sends them and the frames that answer them       *)
(* (src/src/protocol/mod.rs): what a frame says, without its bytes.        *)
(***************************************************************************)
EXTENDS Integers, Sequences

frame(tag, n, items) == [tag |-> tag, n |-> n, items |-> items]
integer(n) == frame("integer", n, <<>>)
array(items) == frame("array", 0, items)
bulk(x) == frame("bulk", 0, <<x>>)
null_bulk == frame("null", 0, <<>>)
ok == frame("ok", 0, <<>>)
wrongtype == frame("wrongtype", 0, <<>>)
error == frame("error", 0, <<>>)

(* The handler panicked: its connection ends without an answer. *)
no_reply == frame("closed", 0, <<>>)

(* An optional value is a sequence of length at most 1. *)
bulk_or_null(s) == IF s = <<>> THEN null_bulk ELSE bulk(s[1])

(* Pairs are flattened in an array. *)
flat(pairs) ==
  [i \in 1 .. 2 * Len(pairs) |-> pairs[(i + 1) \div 2][IF i % 2 = 1 THEN 1 ELSE 2]]

request(op, args) == [op |-> op, args |-> args]

=============================================================================
