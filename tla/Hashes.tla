------------------------------- MODULE Hashes -------------------------------
(***************************************************************************)
(* The hash type (src/src/storage/hash.rs): a vector of pairs (Small) until*)
(* a threshold is crossed, then a hash map (Large).  A value is a number   *)
(* of halves, so that 2 * k is the text of the integer k and an odd number *)
(* that of a fraction, or NotNumber, a text that is neither.               *)
(***************************************************************************)
EXTENDS Integers

LOCAL INSTANCE SequencesExt

CONSTANTS
  Field,
  BigField,              \* fields longer than MAX_ELEMENT_BYTES
  Value,
  BigValue,              \* values longer than MAX_ELEMENT_BYTES
  NotNumber,
  MAX_LISTPACK_ENTRIES,
  I64_MAX

Hash == [enc : {"Small"}, vec : Seq(Field \X Value)]
          \cup [enc : {"Large"}, map : UNION {[D -> Value] : D \in SUBSET Field}]
new == [enc |-> "Small", vec |-> <<>>]

keys(h) == IF h.enc = "Small" THEN {h.vec[i][1] : i \in DOMAIN h.vec} ELSE DOMAIN h.map
position(h, f) == SelectInSeq(h.vec, LAMBDA p : p[1] = f)
contains(h, f) == f \in keys(h)
get(h, f) == IF h.enc = "Small" THEN h.vec[position(h, f)][2] ELSE h.map[f]
len(h) == IF h.enc = "Small" THEN Len(h.vec) ELSE Cardinality(DOMAIN h.map)
as_map(h) == [f \in keys(h) |-> get(h, f)]

(* The pairs, in the order of the vector or in any order of the map. *)
all_pairs(h) ==
  IF h.enc = "Small" THEN {h.vec}
  ELSE {[i \in DOMAIN p |-> <<p[i], h.map[p[i]]>>] :
          p \in {p \in [1 .. len(h) -> keys(h)] : ToSet(p) = keys(h)}}

needs_promote(h, f, v) ==
  h.enc = "Small" /\ (Len(h.vec) >= MAX_LISTPACK_ENTRIES \/ f \in BigField \/ v \in BigValue)
promote(h) == IF h.enc = "Small" THEN [enc |-> "Large", map |-> as_map(h)] ELSE h

(* A full vector is promoted even when the field is already in it. *)
hset(h, f, v) ==
  LET r == IF needs_promote(h, f, v) THEN promote(h) ELSE h
  IN IF r.enc = "Large"
     THEN [r EXCEPT !.map = [g \in DOMAIN @ \cup {f} |-> IF g = f THEN v ELSE @[g]]]
     ELSE IF contains(r, f) THEN [r EXCEPT !.vec[position(r, f)] = <<f, v>>]
     ELSE [r EXCEPT !.vec = Append(@, <<f, v>>)]

hdel(h, fs) ==
  IF h.enc = "Small"
  THEN [h EXCEPT !.vec = SelectSeq(@, LAMBDA p : p[1] \notin ToSet(fs))]
  ELSE [h EXCEPT !.map = [g \in DOMAIN @ \ ToSet(fs) |-> @[g]]]

-----------------------------------------------------------------------------
(* The numbers in the values *)

I64 == -(I64_MAX + 1) .. I64_MAX
is_i64(v) == v # NotNumber /\ v % 2 = 0 /\ v \div 2 \in I64
is_f64(v) == v # NotNumber

(* What the increment starts from: a field that is missing counts as 0. *)
old_value(h, f) == IF contains(h, f) THEN get(h, f) ELSE 0

=============================================================================
