---------------------------- MODULE MCStructures ----------------------------
(***************************************************************************)
(* The values of a key, in their encodings, implement the values a client  *)
(* thinks of.                                                              *)
(***************************************************************************)
EXTENDS Structures

(* The value a client may think of, without the encoding. *)
Abstract ==
  CASE entry.kind = "string" -> [kind |-> "string", data |-> entry.data.text]
    [] entry.kind = "list" -> [kind |-> "list", data |-> entry.data.items]
    [] entry.kind = "hash" -> [kind |-> "hash", data |-> H!as_map(entry.data)]
    [] entry.kind = "set" -> [kind |-> "set", data |-> S!to_hashset(entry.data)]
    [] entry.kind = "zset" -> [kind |-> "zset", data |-> entry.data.scores]
    [] entry.kind = "none" -> [kind |-> "none", data |-> <<>>]

O == INSTANCE Objects WITH value <- Abstract

(* Every command does to the value, and answers, what the manual says,     *)
(* apart from the departures that Objects names: neither an encoding, nor  *)
(* a promotion, nor the order in the tree, nor an index or an amount at    *)
(* the limit shows in any other way.                                       *)
Refines == O!Practice

=============================================================================
