------------------------------ MODULE Objects ------------------------------
(***************************************************************************)
(* What the commands on one key promise, whatever the encoding of its      *)
(* value: a string and a list are sequences, a hash is a function, a set   *)
(* a set and a sorted set a function from members to scores.  A command is *)
(* a relation between the value before, the value after and the answer.    *)
(*                                                                         *)
(* Next is what the manual says (docs/Commands.md, docs/Architecture.md).  *)
(* Where the program departs from it, Departs says what it does instead.   *)
(***************************************************************************)
EXTENDS Integers, SequencesExt, Replies, Floats

CONSTANTS Item, NotNumber, I64_MAX, MAX_CAPACITY, BASE, EMBSTR_MAX

VARIABLES value, cmd, reply

vars == <<value, cmd, reply>>

I64 == -(I64_MAX + 1) .. I64_MAX
missing == [kind |-> "none", data |-> <<>>]

-----------------------------------------------------------------------------
(* Sequences *)

(* The elements at the positions of P, in their order. *)
At(s, P) == LET p == SetToSortSeq(P, <) IN [k \in 1 .. Cardinality(P) |-> s[p[k]]]

-----------------------------------------------------------------------------
(* Strings *)

MINUS == BASE
PLUS == BASE + 1
BLANK == BASE + 2

(* The text t is a numeral of n: blanks, a sign or none, digits, blanks.   *)
Denotes(t, n) ==
  LET P == {p \in DOMAIN t : t[p] # BLANK}
      s == At(t, {p \in DOMAIN t : \E q \in P, r \in P : q <= p /\ p <= r})
      digits == IF s[1] \in {MINUS, PLUS} THEN Tail(s) ELSE s
      weighted(p) == digits[p] * BASE ^ (Len(digits) - p)
      m == MapThenSumSet(weighted, DOMAIN digits)
  IN /\ P # {}
     /\ digits # <<>>
     /\ ToSet(digits) \subseteq 0 .. BASE - 1
     /\ n = IF s[1] = MINUS THEN -m ELSE m

(* The numeral a number is written with has nothing that is not needed.    *)
Plain(t) ==
  LET digits == IF t[1] = MINUS THEN Tail(t) ELSE t
  IN ToSet(t) \cap {PLUS, BLANK} = {} /\ (digits[1] = 0 => t = <<0>>)

(* What is added. *)
Amount(op, a) ==
  CASE op = "incr" -> 1
    [] op = "decr" -> -1
    [] op = "incrby" -> a[1]
    [] op = "decrby" -> -a[1]

StringDoes(op, a, d, e, r) ==
  CASE op = "get" -> e = d /\ r = bulk(d)
    [] op = "strlen" -> e = d /\ r = integer(Len(d))
    [] op = "append" -> e = d \o a[1] /\ r = integer(Len(e))
    [] op \in {"incr", "decr", "incrby", "decrby"} ->
         LET N == {n \in I64 : Denotes(d, n) /\ n + Amount(op, a) \in I64}
         IN IF N = {} THEN e = d /\ r = error
            ELSE \E n \in N : /\ Denotes(e, n + Amount(op, a)) /\ Plain(e)
                              /\ r = integer(n + Amount(op, a))

-----------------------------------------------------------------------------
(* Lists *)

(* Position of an index: negative ones count from the end. *)
Pos(s, i) == IF i < 0 THEN Len(s) + i + 1 ELSE i + 1
Slice(s, i, j) == At(s, {p \in DOMAIN s : Pos(s, i) <= p /\ p <= Pos(s, j)})

First(s, x) == CHOOSE p \in DOMAIN s : s[p] = x /\ \A q \in 1 .. p - 1 : s[q] # x

(* The occurrences of x that LREM removes: all of them, or the first ones  *)
(* from the head or from the tail.                                         *)
Doomed(s, n, x) ==
  LET occ == {p \in DOMAIN s : s[p] = x}
  IN {p \in occ : \/ n = 0
                  \/ n > 0 /\ Cardinality({q \in occ : q < p}) < n
                  \/ n < 0 /\ Cardinality({q \in occ : q > p}) < -n}

(* The commands with an optional count. *)
Asked(count) == IF count = <<>> THEN 1 ELSE Max({0, count[1]})
Popped(count, v) == IF count = <<>> THEN bulk_or_null(v) ELSE array(v)

ListDoes(op, a, d, e, r) ==
  CASE op = "lpush" -> e = Reverse(a) \o d /\ r = integer(Len(e))
    [] op = "rpush" -> e = d \o a /\ r = integer(Len(e))
    [] op = "lpop" -> \E k \in {Min({Len(d), Asked(a)})} :
                        e = At(d, k + 1 .. Len(d)) /\ r = Popped(a, At(d, 1 .. k))
    [] op = "rpop" -> \E k \in {Len(d) - Min({Len(d), Asked(a)})} :
                        e = At(d, 1 .. k) /\ r = Popped(a, Reverse(At(d, k + 1 .. Len(d))))
    [] op = "llen" -> e = d /\ r = integer(Len(d))
    [] op = "lrange" -> e = d /\ r = array(Slice(d, a[1], a[2]))
    [] op = "lindex" -> e = d /\ r = bulk_or_null(Slice(d, a[1], a[1]))
    [] op = "lset" -> IF Pos(d, a[1]) \in DOMAIN d
                      THEN e = [d EXCEPT ![Pos(d, a[1])] = a[2]] /\ r = ok
                      ELSE e = d /\ r = error
    [] op \in {"linsert_before", "linsert_after"} ->
         IF a[1] \notin ToSet(d) THEN e = d /\ r = integer(-1)
         ELSE /\ \E p \in {IF op = "linsert_before" THEN First(d, a[1]) - 1 ELSE First(d, a[1])} :
                   e = At(d, 1 .. p) \o <<a[2]>> \o At(d, p + 1 .. Len(d))
              /\ r = integer(Len(e))
    [] op = "lrem" -> \E P \in {Doomed(d, a[1], a[2])} :
                        e = At(d, DOMAIN d \ P) /\ r = integer(Cardinality(P))
    [] op = "ltrim" -> e = Slice(d, a[1], a[2]) /\ r = ok

-----------------------------------------------------------------------------
(* Hashes and sets *)

Put(d, f, v) == [g \in DOMAIN d \cup {f} |-> IF g = f THEN v ELSE d[g]]
Without(d, F) == [g \in DOMAIN d \ F |-> d[g]]

(* s lists the elements of S, each once, in some order. *)
Lists(s, S) == Len(s) = Cardinality(S) /\ ToSet(s) = S

(* Every second element of an array. *)
Evens(s) == [k \in 1 .. Len(s) \div 2 |-> s[2 * k]]
Odds(s) == [k \in 1 .. Len(s) \div 2 |-> s[2 * k - 1]]

Number(d, f) == IF f \in DOMAIN d THEN d[f] ELSE 0
IsInteger(v) == v # NotNumber /\ v % 2 = 0 /\ v \div 2 \in I64

HashDoes(op, a, d, e, r) ==
  CASE op = "hset" ->
         e = Put(d, a[1], a[2]) /\ r = integer(Cardinality(DOMAIN e \ DOMAIN d))
    [] op = "hsetnx" -> IF a[1] \in DOMAIN d THEN e = d /\ r = integer(0)
                        ELSE e = Put(d, a[1], a[2]) /\ r = integer(1)
    [] op = "hdel" -> e = Without(d, ToSet(a)) /\ r = integer(Cardinality(DOMAIN d \ DOMAIN e))
    [] op = "hget" -> e = d /\ r = IF a[1] \in DOMAIN d THEN bulk(d[a[1]]) ELSE null_bulk
    [] op = "hexists" -> e = d /\ r = integer(IF a[1] \in DOMAIN d THEN 1 ELSE 0)
    [] op = "hlen" -> e = d /\ r = integer(Cardinality(DOMAIN d))
    [] op = "hgetall" -> /\ e = d
                         /\ r = array(r.items)
                         /\ Lists(Odds(r.items), DOMAIN d)
                         /\ Evens(r.items) = [k \in DOMAIN Odds(r.items) |-> d[Odds(r.items)[k]]]
    [] op = "hkeys" -> e = d /\ r = array(r.items) /\ Lists(r.items, DOMAIN d)
    [] op = "hvals" -> /\ e = d
                       /\ r = array(r.items)
                       /\ Len(r.items) = Cardinality(DOMAIN d)
                       /\ \A v \in {d[f] : f \in DOMAIN d} \cup ToSet(r.items) :
                            Cardinality({k \in DOMAIN r.items : r.items[k] = v})
                              = Cardinality({f \in DOMAIN d : d[f] = v})
    [] op = "hincrby" ->
         IF IsInteger(Number(d, a[1])) /\ Number(d, a[1]) \div 2 + a[2] \in I64
         THEN /\ e = Put(d, a[1], Number(d, a[1]) + 2 * a[2])
              /\ r = integer(e[a[1]] \div 2)
         ELSE e = d /\ r = error
    [] op = "hincrbyfloat" ->
         IF Number(d, a[1]) = NotNumber THEN e = d /\ r = error
         ELSE e = Put(d, a[1], Number(d, a[1]) + a[2]) /\ r = bulk(e[a[1]])

SetDoes(op, a, d, e, r) ==
  CASE op = "sadd" -> e = d \cup ToSet(a) /\ r = integer(Cardinality(e \ d))
    [] op = "srem" -> e = d \ ToSet(a) /\ r = integer(Cardinality(d \ e))
    [] op = "spop" -> /\ e \subseteq d
                      /\ Cardinality(d \ e) = Min({Cardinality(d), Asked(a)})
                      /\ r = Popped(a, r.items) /\ Lists(r.items, d \ e)
    [] op = "smembers" -> e = d /\ r = array(r.items) /\ Lists(r.items, d)
    [] op = "sismember" -> e = d /\ r = integer(IF a[1] \in d THEN 1 ELSE 0)
    [] op = "scard" -> e = d /\ r = integer(Cardinality(d))
    [] op = "srandmember" -> /\ e = d
                             /\ r = Popped(a, r.items)
                             /\ ToSet(r.items) \subseteq d
                             /\ IF a # <<>> /\ a[1] < 0
                                THEN Len(r.items) = IF d = {} THEN 0 ELSE -a[1]
                                ELSE /\ Cardinality(ToSet(r.items)) = Len(r.items)
                                     /\ Len(r.items) = Min({Cardinality(d), Asked(a)})

-----------------------------------------------------------------------------
(* Sorted sets *)

(* The total order of scores: that of the numbers, with -0 before +0 and   *)
(* the NaNs at the ends.                                                   *)
Place(x) == IF negative(x) THEN -1 - magnitude(x) ELSE magnitude(x)
Sorted(d) ==
  LET less(m, n) == Place(d[m]) < Place(d[n]) \/ (Place(d[m]) = Place(d[n]) /\ m < n)
  IN SetToSortSeq(DOMAIN d, less)

(* Members with their scores, in an array. *)
Scored(d, s) == array([k \in 1 .. 2 * Len(s) |->
                         IF k % 2 = 1 THEN s[(k + 1) \div 2] ELSE d[s[k \div 2]]])

(* A bound is a limit and whether the limit is excluded; the limit of the  *)
(* lowest and of the highest bound is an infinity, and NaN is beyond them. *)
Above(b, x) ==
  CASE b.type = "NegInf" -> TRUE
    [] b.type = "PosInf" -> fle(INFINITY, x)
    [] OTHER -> fle(b.at, x) /\ (b.type = "Exclusive" => ~feq(b.at, x))
Below(b, x) ==
  CASE b.type = "PosInf" -> TRUE
    [] b.type = "NegInf" -> fle(x, HALF + INFINITY)
    [] OTHER -> fle(x, b.at) /\ (b.type = "Exclusive" => ~feq(b.at, x))
Between(d, min, max) == {m \in DOMAIN d : Above(min, d[m]) /\ Below(max, d[m])}

(* The part of a sequence that LIMIT offset count leaves; -1 is no limit.  *)
Limited(s, offset, limit) ==
  At(s, {p \in DOMAIN s : p > offset /\ (limit < 0 \/ p <= offset + limit)})

(* Whether ZADD writes the score x of m. *)
Better(flags, x, old) == IF "GT" \in flags THEN flt(old, x)
                         ELSE "LT" \in flags => flt(x, old)
Admits(d, flags, x, m) == ~is_nan(x) /\ (IF m \in DOMAIN d THEN "NX" ELSE "XX") \notin flags
Writes(d, flags, x, m) ==
  /\ Admits(d, flags, x, m)
  /\ m \in DOMAIN d => Better(flags, x, d[m]) /\ ~(is_finite(d[m]) /\ feq(x, d[m]))

(* A score that is a number. *)
Scores(d, m, by) == {x \in fadd(Number(d, m), by) : ~is_nan(x)}

ZSetDoes(op, a, d, e, r) ==
  CASE op = "zadd" -> /\ e = IF Writes(d, a[1], a[2], a[3]) THEN Put(d, a[3], a[2]) ELSE d
                      /\ r = IF "CH" \in a[1]
                             THEN integer(IF e # d THEN 1 ELSE 0)
                             ELSE integer(Cardinality(DOMAIN e \ DOMAIN d))
    [] op = "zincrby" -> IF Scores(d, a[2], a[1]) = {} THEN e = d /\ r = error
                         ELSE \E x \in Scores(d, a[2], a[1]) : e = Put(d, a[2], x) /\ r = bulk(x)
    [] op = "zrem" -> e = Without(d, ToSet(a)) /\ r = integer(Cardinality(DOMAIN d \ DOMAIN e))
    [] op = "zpopmin" -> \E out \in {Limited(Sorted(d), 0, a[1])} :
                           e = Without(d, ToSet(out)) /\ r = Scored(d, out)
    [] op = "zpopmax" -> \E out \in {Limited(Reverse(Sorted(d)), 0, a[1])} :
                           e = Without(d, ToSet(out)) /\ r = Scored(d, out)
    [] op = "zremrangebyrank" -> \E out \in {Slice(Sorted(d), a[1], a[2])} :
                                   e = Without(d, ToSet(out)) /\ r = integer(Len(out))
    [] op = "zremrangebyscore" -> \E out \in {Between(d, a[1], a[2])} :
                                    e = Without(d, out) /\ r = integer(Cardinality(out))
    [] op = "zscore" -> e = d /\ r = IF a[1] \in DOMAIN d THEN bulk(d[a[1]]) ELSE null_bulk
    [] op = "zrank" -> e = d /\ r = IF a[1] \in DOMAIN d
                                    THEN integer(First(Sorted(d), a[1]) - 1) ELSE null_bulk
    [] op = "zrevrank" -> e = d /\ r = IF a[1] \in DOMAIN d
                                       THEN integer(First(Reverse(Sorted(d)), a[1]) - 1)
                                       ELSE null_bulk
    [] op = "zcard" -> e = d /\ r = integer(Cardinality(DOMAIN d))
    [] op = "zcount" -> e = d /\ r = integer(Cardinality(Between(d, a[1], a[2])))
    [] op = "zrange" -> e = d /\ r = Scored(d, Slice(Sorted(d), a[1], a[2]))
    [] op = "zrevrange" -> e = d /\ r = Scored(d, Slice(Reverse(Sorted(d)), a[1], a[2]))
    [] op \in {"zrangebyscore", "zrevrangebyscore"} ->
         LET rev == op = "zrevrangebyscore"
             S == IF rev THEN Between(d, a[2], a[1]) ELSE Between(d, a[1], a[2])
             up == Sorted([m \in S |-> d[m]])
         IN e = d /\ r = Scored(d, Limited(IF rev THEN Reverse(up) ELSE up, a[3], a[4]))

-----------------------------------------------------------------------------
(* The key *)

StringOps == {"get", "strlen", "append", "incr", "decr", "incrby", "decrby"}
ListOps == {"lpush", "rpush", "lpop", "rpop", "llen", "lrange", "lindex", "lset",
            "linsert_before", "linsert_after", "lrem", "ltrim"}
HashOps == {"hset", "hsetnx", "hdel", "hget", "hexists", "hlen", "hgetall", "hkeys", "hvals",
            "hincrby", "hincrbyfloat"}
SetOps == {"sadd", "srem", "spop", "smembers", "sismember", "scard", "srandmember"}
ZSetOps == {"zadd", "zincrby", "zrem", "zpopmin", "zpopmax", "zremrangebyrank",
            "zremrangebyscore", "zscore", "zrank", "zrevrank", "zcard", "zcount", "zrange",
            "zrevrange", "zrangebyscore", "zrevrangebyscore"}

KindOf(op) == CASE op \in StringOps -> "string" [] op \in ListOps -> "list" [] op \in HashOps -> "hash"
                [] op \in SetOps -> "set" [] op \in ZSetOps -> "zset"
Empty(op) == CASE op \in ListOps \cup {"get", "strlen", "append"} -> <<>>
               [] op \in StringOps \ {"get", "strlen", "append"} -> <<0>>
               [] op \in SetOps -> {} [] OTHER -> [x \in {} |-> 0]
Does(op, a, d, e, r) == CASE op \in StringOps -> StringDoes(op, a, d, e, r)
                          [] op \in ListOps -> ListDoes(op, a, d, e, r)
                          [] op \in HashOps -> HashDoes(op, a, d, e, r)
                          [] op \in SetOps -> SetDoes(op, a, d, e, r)
                          [] op \in ZSetOps -> ZSetDoes(op, a, d, e, r)

(* Only these create a missing key; they do so even when they then fail.   *)
(* The others answer as they do on an empty value, except that GET answers *)
(* nothing, LSET fails, and LINSERT answers 0; and they never delete the   *)
(* key they empty.                                                         *)
Creators == {"append", "incr", "decr", "incrby", "decrby", "lpush", "rpush", "hset", "hsetnx", "hincrby", "hincrbyfloat", "sadd", "zadd",
             "zincrby"}

StringOf(t) == [kind |-> "string", data |-> t]

(* The length of a value, and the encodings it may have. *)
Size(v) == IF v.kind \in {"string", "list"} THEN Len(v.data)
           ELSE IF v.kind = "set" THEN Cardinality(v.data) ELSE Cardinality(DOMAIN v.data)
Encodings(v) ==
  CASE v.kind = "string" -> {IF Len(v.data) <= EMBSTR_MAX THEN "embstr" ELSE "raw"}
    [] v.kind = "list" -> {"listpack", "quicklist"}
    [] v.kind \in {"hash", "set"} -> {"listpack", "hashtable"}
    [] v.kind = "zset" -> {"skiplist"}

Execute(op, a, v, w, r) ==
  CASE op = "set" -> IF a[2] = (IF v = missing THEN "XX" ELSE "NX") THEN w = v /\ r = null_bulk
                     ELSE w = StringOf(a[1]) /\ r = ok
    [] op = "setnx" -> IF v = missing THEN w = StringOf(a[1]) /\ r = integer(1) ELSE w = v /\ r = integer(0)
    [] op = "getset" -> /\ w = StringOf(a[1])
                        /\ r = IF v.kind = "string" THEN bulk(v.data) ELSE null_bulk
    [] op = "type" -> w = v /\ r = bulk(v.kind)
    [] op = "debug object" ->
         w = v /\ IF v = missing THEN r = error
                  ELSE \E enc \in Encodings(v) : r = frame("object", Size(v), <<v.kind, enc>>)
    [] op = "del" -> w = missing /\ r = integer(IF v = missing THEN 0 ELSE 1)
    [] OTHER ->
         \/ /\ v.kind = KindOf(op)
            /\ w.kind = v.kind
            /\ Does(op, a, v.data, w.data, r)
         \/ /\ v.kind = "none" /\ op \in Creators
            /\ w.kind = KindOf(op)
            /\ Does(op, a, Empty(op), w.data, r)
         \/ /\ v.kind = "none" /\ op \notin Creators
            /\ w = v
            /\ IF op = "get" THEN r = null_bulk
               ELSE IF op \in {"linsert_before", "linsert_after"} THEN r = integer(0)
               ELSE Does(op, a, Empty(op), Empty(op), r)
         \/ /\ v.kind \notin {"none", KindOf(op)}
            /\ w = v /\ r = wrongtype

-----------------------------------------------------------------------------
(* Departures *)

(* LPOP and RPOP of no element, or of fewer, pop one. *)
PopsOne(op, a, v, w, r) ==
  op \in {"lpop", "rpop"} /\ a # <<>> /\ a[1] <= 0 /\ Execute(op, <<1>>, v, w, r)

(* A pop of more elements than a vector can have room for is not answered. *)
PopPanics(op, a, v, w, r) ==
  /\ op \in {"lpop", "rpop", "zpopmin", "zpopmax"} /\ v.kind = KindOf(op)
  /\ a # <<>> /\ a[1] > MAX_CAPACITY
  /\ w = v /\ r = no_reply

(* DECRBY of the smallest integer adds it, for its negation wraps around. *)
AddsSmallest(op, a, v, w, r) ==
  op = "decrby" /\ -a[1] \notin I64 /\ Execute("incrby", a, v, w, r)

(* The largest index, as a stop, wraps around, and the range is empty. *)
EmptyRange(op, a, v, w, r) ==
  /\ op \in {"lrange", "zrange", "zrevrange", "zremrangebyrank"} /\ v.kind = KindOf(op)
  /\ a[2] = I64_MAX
  /\ w = v /\ r = IF op = "zremrangebyrank" THEN integer(0) ELSE array(<<>>)

(* ZINCRBY stores a NaN: the sum of opposite infinities, or of a NaN.      *)
StoresNaN(op, a, v, w, r) ==
  /\ op = "zincrby" /\ v.kind \in {"none", "zset"} /\ w.kind = "zset"
  /\ \E d \in {IF v = missing THEN Empty(op) ELSE v.data} :
       \E x \in fadd(Number(d, a[2]), a[1]) : is_nan(x) /\ w.data = Put(d, a[2], x) /\ r = bulk(x)

(* CH counts a member whose score is infinite or NaN though it stays.      *)
CountsUnchanged(op, a, v, w, r) ==
  /\ op = "zadd" /\ "CH" \in a[1] /\ v.kind = "zset"
  /\ a[3] \in DOMAIN v.data /\ ~is_finite(v.data[a[3]]) /\ Admits(v.data, a[1], a[2], a[3])
  /\ w = v /\ r = integer(1)

(* ZREVRANGE counts the ranks from the lowest score, like ZRANGE. *)
RanksFromLowest(op, a, v, w, r) ==
  /\ op = "zrevrange" /\ v.kind = "zset"
  /\ w = v /\ r = Scored(v.data, Reverse(Slice(Sorted(v.data), a[1], a[2])))

Departs(op, a, v, w, r) ==
  \/ PopsOne(op, a, v, w, r) \/ PopPanics(op, a, v, w, r) \/ AddsSmallest(op, a, v, w, r)
  \/ EmptyRange(op, a, v, w, r) \/ StoresNaN(op, a, v, w, r)
  \/ CountsUnchanged(op, a, v, w, r) \/ RanksFromLowest(op, a, v, w, r)

-----------------------------------------------------------------------------

Init == value = missing /\ cmd = request("none", <<>>) /\ reply = null_bulk
Next == Execute(cmd'.op, cmd'.args, value, value', reply')
Spec == Init /\ [][Next]_vars

(* The manual, but for the departures. *)
Practice == Init /\ [][Next \/ Departs(cmd'.op, cmd'.args, value, value', reply')]_vars

=============================================================================
