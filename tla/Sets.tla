-------------------------------- MODULE Sets --------------------------------
(***************************************************************************)
(* The set type (src/src/storage/set.rs): a vector without duplicates      *)
(* (Small) until it gets too long or is given too long a member, then a    *)
(* hash set (Large), whose iteration order is unknown.                     *)
(***************************************************************************)
EXTENDS Integers

LOCAL INSTANCE SequencesExt

CONSTANTS
  Member,                \* byte strings
  BigMember,             \* those longer than MAX_ELEMENT_BYTES
  MAX_INTSET_ENTRIES

Set == [enc : {"Small"}, vec : Seq(Member)] \cup [enc : {"Large"}, set : SUBSET Member]
new == [enc |-> "Small", vec |-> <<>>]
large(S) == [enc |-> "Large", set |-> S]

len(s) == IF s.enc = "Small" THEN Len(s.vec) ELSE Cardinality(s.set)
to_hashset(s) == IF s.enc = "Small" THEN ToSet(s.vec) ELSE s.set
contains(s, m) == m \in to_hashset(s)

(* The orders in which the members may be listed. *)
orders(S) == {p \in [1 .. Cardinality(S) -> S] : ToSet(p) = S}
members(s) == IF s.enc = "Small" THEN {s.vec} ELSE orders(s.set)

needs_promote(s, m) ==
  s.enc = "Small" /\ (Len(s.vec) >= MAX_INTSET_ENTRIES \/ m \in BigMember)
promote(s) == IF s.enc = "Small" THEN large(ToSet(s.vec)) ELSE s

(* Variant: a full vector is promoted one member late. *)
sadd_late_promote(s, m) ==
  LET r == IF s.enc = "Small" /\ (Len(s.vec) > MAX_INTSET_ENTRIES \/ m \in BigMember)
           THEN promote(s) ELSE s
  IN IF contains(r, m) THEN r
     ELSE IF r.enc = "Small" THEN [r EXCEPT !.vec = Append(@, m)]
                             ELSE [r EXCEPT !.set = @ \cup {m}]

(* SADD of one member: the promotion comes before the search for it. *)
sadd(s, m) ==
  LET r == IF needs_promote(s, m) THEN promote(s) ELSE s
  IN IF contains(r, m) THEN r
     ELSE IF r.enc = "Small" THEN [r EXCEPT !.vec = Append(@, m)]
                             ELSE [r EXCEPT !.set = @ \cup {m}]

(* SREM counts a member given twice once. *)
srem(s, ms) ==
  IF s.enc = "Small"
  THEN LET kept == SelectSeq(s.vec, LAMBDA m : m \notin ToSet(ms))
       IN [set |-> [s EXCEPT !.vec = kept], n |-> Len(s.vec) - Len(kept)]
  ELSE [set |-> [s EXCEPT !.set = @ \ ToSet(ms)], n |-> Cardinality(s.set \cap ToSet(ms))]

(* swap_remove: the last member takes the place of the removed one. *)
remove_one(s, m) ==
  IF s.enc = "Large" THEN [s EXCEPT !.set = @ \ {m}]
  ELSE IF ~contains(s, m) THEN s
  ELSE LET i == SelectInSeq(s.vec, LAMBDA x : x = m)
       IN [s EXCEPT !.vec = Front(ReplaceAt(@, i, Last(@)))]

(* Any n distinct members for n >= 0, any |n| members otherwise. *)
random_members(s, n) ==
  IF len(s) = 0 THEN {<<>>}
  ELSE IF n >= 0 THEN UNION {orders(T) : T \in {T \in SUBSET to_hashset(s) :
                                                  Cardinality(T) = Min({n, len(s)})}}
  ELSE [1 .. -n -> to_hashset(s)]

(* The first members of a shuffled copy are removed one by one. *)
spop(s, count) ==
  {[set |-> FoldLeft(remove_one, s, popped), items |-> popped] :
     popped \in random_members(s, count)}

=============================================================================
