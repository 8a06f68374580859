------------------------------- MODULE ZSetKey --------------------------------
(***************************************************************************)
(* The sorted-set commands (src/src/commands/mod.rs) on one key.  ZADD     *)
(* calls the store once per pair: it is given one pair here, and more are  *)
(* a sequence of these steps.                                              *)
(***************************************************************************)
EXTENDS Key

LOCAL INSTANCE SequencesExt

CONSTANTS
  ZMember,               \* members, as numbers in their order
  BoundAt,               \* scores given as bounds to the range commands
  Flags,                 \* flags given to ZADD: sets of "NX", "XX", "GT", "LT", "CH"
  HALF                   \* the weight of the sign bit of a score

ASSUME Weights == HALF \in Nat /\ HALF > 2

Z == INSTANCE ZSets WITH Member <- ZMember

zset == data_or("zset", Z!new)

(* The pairs of the tree as members with their scores. *)
scored(pairs) == [i \in DOMAIN pairs |-> <<pairs[i][2], Z!decode_score(pairs[i][1])>>]
pairs_frame(pairs) == array(flat(scored(pairs)))

cmd_zadd(flags, x, m) ==
  or_insert(request("zadd", <<flags, x, m>>), "zset",
    LET r == Z!zadd(zset, x, m, flags)
    IN {result(r.zset, integer(IF "CH" \in flags THEN r.changed ELSE r.added))})
cmd_zincrby(d, m) ==
  or_insert(request("zincrby", <<d, m>>), "zset",
    {result(r.zset, bulk(r.score)) : r \in Z!zincrby(zset, d, m)})
cmd_zrem(ms) ==
  with_value(request("zrem", ms), "zset", integer(0),
    {result(Z!zrem(zset, ToSet(ms)), integer(Cardinality(ToSet(ms) \cap Z!members(zset))))})

(* A panic leaves the sorted set as it is, and answers nothing. *)
after_zpop(p) == result(p.zset, IF p.panics THEN no_reply ELSE pairs_frame(p.pairs))
cmd_zpopmin(n) ==
  with_value(request("zpopmin", <<n>>), "zset", array(<<>>), {after_zpop(Z!zpopmin(zset, n))})
cmd_zpopmax(n) ==
  with_value(request("zpopmax", <<n>>), "zset", array(<<>>), {after_zpop(Z!zpopmax(zset, n))})

cmd_zremrangebyrank(i, j) ==
  with_value(request("zremrangebyrank", <<i, j>>), "zset", integer(0),
    LET ms == {p[2] : p \in ToSet(Z!zrange_by_rank(zset, i, j))}
    IN {result(Z!zrem(zset, ms), integer(Cardinality(ms)))})
cmd_zremrangebyscore(min, max) ==
  with_value(request("zremrangebyscore", <<min, max>>), "zset", integer(0),
    LET ps == Z!in_score_range(zset, min, max)
    IN {result(Z!zrem(zset, {p[2] : p \in ps}), integer(Cardinality(ps)))})

cmd_zscore(m) ==
  read(request("zscore", <<m>>), "zset", null_bulk,
    {IF m \in Z!members(zset) THEN bulk(zset.scores[m]) ELSE null_bulk})
cmd_zrank(m) ==
  read(request("zrank", <<m>>), "zset", null_bulk,
    {IF m \in Z!members(zset) THEN integer(Z!zrank(zset, m)) ELSE null_bulk})
cmd_zrevrank(m) ==
  read(request("zrevrank", <<m>>), "zset", null_bulk,
    {IF m \in Z!members(zset) THEN integer(Z!zrevrank(zset, m)) ELSE null_bulk})
cmd_zcard == read(request("zcard", <<>>), "zset", integer(0), {integer(Z!len(zset))})
cmd_zcount(min, max) ==
  read(request("zcount", <<min, max>>), "zset", integer(0),
    {integer(Cardinality(Z!in_score_range(zset, min, max)))})
cmd_zrange(i, j) ==
  read(request("zrange", <<i, j>>), "zset", array(<<>>),
    {pairs_frame(Z!zrange_by_rank(zset, i, j))})

(* The slice is cut from the ascending order, and then reversed. *)
cmd_zrevrange(i, j) ==
  read(request("zrevrange", <<i, j>>), "zset", array(<<>>),
    {pairs_frame(Reverse(Z!zrange_by_rank(zset, i, j)))})
cmd_zrangebyscore(min, max, offset, limit) ==
  read(request("zrangebyscore", <<min, max, offset, limit>>), "zset", array(<<>>),
    {pairs_frame(Z!zrangebyscore(zset, min, max, offset, limit, FALSE))})
cmd_zrevrangebyscore(max, min, offset, limit) ==
  read(request("zrevrangebyscore", <<max, min, offset, limit>>), "zset", array(<<>>),
    {pairs_frame(Z!zrangebyscore(zset, min, max, offset, limit, TRUE))})

Rank == -(I64_MAX + 1) .. I64_MAX
Bounds == [type : {"NegInf", "PosInf"}, at : {0}] \cup [type : {"Inclusive", "Exclusive"}, at : BoundAt]
Limit == {<<0, -1>>, <<1, 1>>, <<0, 2>>}

ZSetCommand ==
  \/ \E flags \in Flags, x \in Z!Score, m \in ZMember : cmd_zadd(flags, x, m)
  \/ \E d \in Z!Score, m \in ZMember : cmd_zincrby(d, m)
  \/ \E ms \in OneOrTwo(ZMember) : cmd_zrem(ms)
  \/ \E n \in {0, 1, 2, I64_MAX} : cmd_zpopmin(n) \/ cmd_zpopmax(n)
  \/ \E i, j \in Rank : cmd_zremrangebyrank(i, j) \/ cmd_zrange(i, j) \/ cmd_zrevrange(i, j)
  \/ \E b, c \in Bounds : cmd_zremrangebyscore(b, c) \/ cmd_zcount(b, c)
  \/ \E b, c \in Bounds, l \in Limit :
       cmd_zrangebyscore(b, c, l[1], l[2]) \/ cmd_zrevrangebyscore(b, c, l[1], l[2])
  \/ \E m \in ZMember : cmd_zscore(m) \/ cmd_zrank(m) \/ cmd_zrevrank(m)
  \/ cmd_zcard

(* A command of another type finds a value of its type, or makes one, or   *)
(* leaves the entry: see with_value and or_insert.  SET and DEL replace it. *)
OtherCommand == entry' = entry \/ entry'.kind # "zset"

ZSetSpec == Init /\ [][ZSetCommand \/ OtherCommand]_vars

-----------------------------------------------------------------------------
(* The two indexes of a sorted set hold the same members with the same     *)
(* scores, so that the tree never lists a member twice or with a score it  *)
(* no longer has.                                                          *)
IndexesAgree ==
  entry.kind = "zset" =>
    entry.data.by_score = {Z!ScoreKey(entry.data.scores[m], m) : m \in Z!members(entry.data)}

=============================================================================
