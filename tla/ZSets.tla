------------------------------- MODULE ZSets -------------------------------
(***************************************************************************)
(* The sorted set (src/src/storage/zset.rs): a map from members to scores  *)
(* and a tree of the pairs of encoded score and member, in their order.    *)
(***************************************************************************)
EXTENDS Integers, Floats

LOCAL INSTANCE SequencesExt

CONSTANTS
  Member,                \* byte strings, as numbers in their order
  MAX_CAPACITY,          \* of a vector
  I64_MAX                \* of the ranks given by clients

-----------------------------------------------------------------------------
(* The order of the scores *)

(* Variant: a negative score only has its sign bit cleared. *)
encode_score_clear(x) == IF ~negative(x) THEN x + HALF ELSE x - HALF

encode_score(x) == IF ~negative(x) THEN x + HALF ELSE 2 * HALF - 1 - x
decode_score(e) == IF e >= HALF THEN e - HALF ELSE 2 * HALF - 1 - e

ScoreKey(x, m) == <<encode_score(x), m>>
before(p, q) == p[1] < q[1] \/ (p[1] = q[1] /\ p[2] < q[2])
ordered(S) == SetToSortSeq(S, before)
rank(S, p) == Cardinality({q \in S : before(q, p)})

(* A bound of a range of scores. *)
ScoreBound == [type : {"NegInf", "PosInf", "Inclusive", "Exclusive"}, at : Score]
satisfies_lower(b, x) ==
  CASE b.type = "NegInf" -> TRUE
    [] b.type = "PosInf" -> feq(x, INFINITY)
    [] b.type = "Inclusive" -> fle(b.at, x)
    [] b.type = "Exclusive" -> flt(b.at, x)
satisfies_upper(b, x) ==
  CASE b.type = "PosInf" -> TRUE
    [] b.type = "NegInf" -> feq(x, HALF + INFINITY)
    [] b.type = "Inclusive" -> fle(x, b.at)
    [] b.type = "Exclusive" -> flt(x, b.at)

-----------------------------------------------------------------------------
(* The sorted set *)

ZSet == [scores : UNION {[D -> Score] : D \in SUBSET Member},
         by_score : SUBSET ((0 .. 2 * HALF - 1) \X Member)]
new == [scores |-> [m \in {} |-> 0], by_score |-> {}]
members(z) == DOMAIN z.scores
len(z) == Cardinality(members(z))

(* scores.insert and by_score.insert of a new score. *)
insert(z, m, x) ==
  [scores |-> [k \in members(z) \cup {m} |-> IF k = m THEN x ELSE z.scores[k]],
   by_score |-> z.by_score \cup {ScoreKey(x, m)}]

(* by_score.remove of the score a member has. *)
unindex(z, m) == [z EXCEPT !.by_score = @ \ {ScoreKey(z.scores[m], m)}]

(* The score ZADD gives a member that has one. *)
new_score(old, x, flags) ==
  IF "GT" \in flags THEN IF flt(old, x) THEN x ELSE old
  ELSE IF "LT" \in flags THEN IF flt(x, old) THEN x ELSE old
  ELSE x

(* Variant: the pair with the old score stays in the tree. *)
zadd_keep(z, x, m, flags) ==
  LET done(y, a, c) == [zset |-> y, added |-> a, changed |-> c]
      ns == new_score(z.scores[m], x, flags)
  IN IF is_nan(x) THEN done(z, 0, 0)
     ELSE IF m \notin members(z)
          THEN IF "XX" \in flags THEN done(z, 0, 0) ELSE done(insert(z, m, x), 1, 1)
     ELSE IF "NX" \in flags THEN done(z, 0, 0)
     ELSE IF is_finite(z.scores[m]) /\ feq(ns, z.scores[m]) THEN done(z, 0, 0)
     ELSE done(insert(z, m, ns), 0, 1)

(* A score equal to the old one changes nothing, unless it is infinite:    *)
(* the difference is then NaN, and the pair is written again.              *)
zadd(z, x, m, flags) ==
  LET done(y, a, c) == [zset |-> y, added |-> a, changed |-> c]
      ns == new_score(z.scores[m], x, flags)
  IN IF is_nan(x) THEN done(z, 0, 0)
     ELSE IF m \notin members(z)
          THEN IF "XX" \in flags THEN done(z, 0, 0) ELSE done(insert(z, m, x), 1, 1)
     ELSE IF "NX" \in flags THEN done(z, 0, 0)
     ELSE IF is_finite(z.scores[m]) /\ feq(ns, z.scores[m]) THEN done(z, 0, 0)
     ELSE done(insert(unindex(z, m), m, ns), 0, 1)

(* The sum is stored whatever it is. *)
zincrby(z, delta, m) ==
  LET old == IF m \in members(z) THEN z.scores[m] ELSE 0
  IN {[zset |-> insert(IF m \in members(z) THEN unindex(z, m) ELSE z, m, x), score |-> x] :
        x \in fadd(old, delta)}

(* Members leave both indexes. *)
zrem(z, S) ==
  [scores |-> [k \in members(z) \ S |-> z.scores[k]],
   by_score |-> z.by_score \ {ScoreKey(z.scores[m], m) : m \in S \cap members(z)}]

(* A pair leaves the tree, and its member the map. *)
take(z, S) ==
  [scores |-> [k \in members(z) \ {p[2] : p \in S} |-> z.scores[k]], by_score |-> z.by_score \ S]

(* Room for count pairs is made first; for too large a count that panics. *)
panic(z) == [zset |-> z, pairs |-> <<>>, panics |-> TRUE]
zpopmin(z, count) ==
  LET S == {p \in z.by_score : rank(z.by_score, p) < count}
  IN IF count > MAX_CAPACITY THEN panic(z)
     ELSE [zset |-> take(z, S), pairs |-> ordered(S), panics |-> FALSE]
zpopmax(z, count) ==
  LET S == {p \in z.by_score : Cardinality(z.by_score) - 1 - rank(z.by_score, p) < count}
  IN IF count > MAX_CAPACITY THEN panic(z)
     ELSE [zset |-> take(z, S), pairs |-> Reverse(ordered(S)), panics |-> FALSE]

zrank(z, m) == rank(z.by_score, ScoreKey(z.scores[m], m))
zrevrank(z, m) == len(z) - 1 - zrank(z, m)

as_i64(i) == ((i + I64_MAX + 1) % (2 * (I64_MAX + 1))) - (I64_MAX + 1)

(* The pairs from one rank to another: stop is incremented, and may wrap,  *)
(* before it is cut to the length.                                         *)
zrange_by_rank(z, start, stop) ==
  LET s == Max({0, IF start < 0 THEN len(z) + start ELSE start})
      e == Max({0, Min({len(z), as_i64((IF stop < 0 THEN len(z) + stop ELSE stop) + 1)})})
  IN SubSeq(ordered(z.by_score), s + 1, e)

(* The pairs whose score satisfies both bounds. *)
in_score_range(z, min, max) ==
  {p \in z.by_score : /\ satisfies_lower(min, decode_score(p[1]))
                      /\ satisfies_upper(max, decode_score(p[1]))}

(* The pairs skip(offset).take(limit) leaves; no limit is -1. *)
zrangebyscore(z, min, max, offset, limit, rev) ==
  LET asc == ordered(in_score_range(z, min, max))
      all == IF rev THEN Reverse(asc) ELSE asc
      end == IF limit < 0 THEN Len(all) ELSE Min({Len(all), offset + limit})
  IN SubSeq(all, offset + 1, end)

=============================================================================
