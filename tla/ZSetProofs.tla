----------------------------- MODULE ZSetProofs -----------------------------
(***************************************************************************)
(* The two indexes of a sorted set agree, for every set of members, every  *)
(* width of scores and ranks and every set of requests.                    *)
(***************************************************************************)
EXTENDS ZSetKey, TLAPS

(* What IndexesAgree says of one sorted set. *)
Agree(z) == z.by_score = {Z!ScoreKey(z.scores[m], m) : m \in DOMAIN z.scores}

LEMMA NewAgrees == Agree(Z!new)
BY DEF Agree, Z!new

(* insert for a member that is in neither index. *)
LEMMA InsertAgrees ==
  ASSUME NEW z, Agree(z), NEW m, NEW x, m \notin DOMAIN z.scores
  PROVE  Agree(Z!insert(z, m, x))
BY ZenonT(60) DEF Agree, Z!insert, Z!members, Z!ScoreKey

(* A member's old pair is removed before its new one is inserted. *)
LEMMA ReplaceAgrees ==
  ASSUME NEW z, Agree(z), NEW m \in DOMAIN z.scores, NEW x
  PROVE  Agree(Z!insert(Z!unindex(z, m), m, x))
<1> DEFINE y == Z!insert(Z!unindex(z, m), m, x)
<1>1. y.scores = [k \in DOMAIN z.scores |-> IF k = m THEN x ELSE z.scores[k]]
  BY DEF Z!insert, Z!unindex, Z!members
<1>2. y.by_score = (z.by_score \ {Z!ScoreKey(z.scores[m], m)}) \cup {Z!ScoreKey(x, m)}
  BY DEF Z!insert, Z!unindex, Z!members
<1>3. \A k \in DOMAIN z.scores : k # m => Z!ScoreKey(z.scores[k], k) # Z!ScoreKey(z.scores[m], m)
  BY Zenon DEF Z!ScoreKey
<1> HIDE DEF y
<1>4. DOMAIN y.scores = DOMAIN z.scores /\ y.scores[m] = x
  BY <1>1
<1>5. \A k \in DOMAIN z.scores : k # m => y.scores[k] = z.scores[k]
  BY <1>1
<1>6. ASSUME NEW p \in y.by_score
      PROVE  \E k \in DOMAIN y.scores : p = Z!ScoreKey(y.scores[k], k)
  BY <1>2, <1>4, <1>5, <1>6, Zenon DEF Agree
<1>7. ASSUME NEW k \in DOMAIN y.scores
      PROVE  Z!ScoreKey(y.scores[k], k) \in y.by_score
  <2>1. CASE k = m
    BY <1>2, <1>4, <2>1
  <2>2. CASE k # m
    <3>1. Z!ScoreKey(y.scores[k], k) = Z!ScoreKey(z.scores[k], k)
      BY <1>4, <1>5, <2>2
    <3>2. Z!ScoreKey(z.scores[k], k) \in z.by_score
      BY <1>4 DEF Agree
    <3> QED BY <1>2, <1>3, <1>4, <2>2, <3>1, <3>2
  <2> QED BY <2>1, <2>2
<1> QED BY <1>6, <1>7, Zenon DEF Agree, y

LEMMA RemAgrees ==
  ASSUME NEW z, Agree(z), NEW T
  PROVE  Agree(Z!zrem(z, T))
<1> DEFINE y == Z!zrem(z, T)
<1>1. y.scores = [k \in DOMAIN z.scores \ T |-> z.scores[k]]
  BY DEF Z!zrem, Z!members
<1>2. y.by_score = z.by_score \ {Z!ScoreKey(z.scores[m], m) : m \in T \cap DOMAIN z.scores}
  BY DEF Z!zrem, Z!members
<1>3. \A k, m \in DOMAIN z.scores : k # m => Z!ScoreKey(z.scores[k], k) # Z!ScoreKey(z.scores[m], m)
  BY DEF Z!ScoreKey
<1> HIDE DEF y
<1>4. DOMAIN y.scores = DOMAIN z.scores \ T
      /\ \A k \in DOMAIN y.scores : y.scores[k] = z.scores[k]
  BY <1>1
<1>5. ASSUME NEW p \in y.by_score
      PROVE  \E k \in DOMAIN y.scores : p = Z!ScoreKey(y.scores[k], k)
  <2>1. PICK k \in DOMAIN z.scores : p = Z!ScoreKey(z.scores[k], k)
    BY <1>2 DEF Agree
  <2>2. k \notin T
    BY <1>2, <2>1
  <2> QED BY <1>4, <2>1, <2>2
<1>6. ASSUME NEW k \in DOMAIN y.scores
      PROVE  Z!ScoreKey(y.scores[k], k) \in y.by_score
  <2>1. Z!ScoreKey(z.scores[k], k) \in z.by_score
    BY <1>4 DEF Agree
  <2>2. \A m \in T \cap DOMAIN z.scores : Z!ScoreKey(z.scores[m], m) # Z!ScoreKey(z.scores[k], k)
    BY <1>3, <1>4
  <2> QED BY <1>2, <1>4, <2>1, <2>2
<1>7. Agree(y)
  BY <1>5, <1>6, Zenon DEF Agree
<1> QED BY <1>7 DEF y

(* Popping pairs of the tree takes their members, and no other, from the map. *)
LEMMA TakeAgrees ==
  ASSUME NEW z, Agree(z), NEW T \in SUBSET z.by_score
  PROVE  Agree(Z!take(z, T))
<1> DEFINE y == Z!take(z, T)
           gone == {p[2] : p \in T}
<1>1. y.scores = [k \in DOMAIN z.scores \ gone |-> z.scores[k]]
  BY DEF Z!take, Z!members
<1>2. y.by_score = z.by_score \ T
  BY DEF Z!take
<1>3. \A k \in DOMAIN z.scores : k \in gone <=> Z!ScoreKey(z.scores[k], k) \in T
  BY DEF Agree, Z!ScoreKey
<1> HIDE DEF y, gone
<1>4. DOMAIN y.scores = DOMAIN z.scores \ gone
      /\ \A k \in DOMAIN y.scores : y.scores[k] = z.scores[k]
  BY <1>1
<1>5. ASSUME NEW p \in y.by_score
      PROVE  \E k \in DOMAIN y.scores : p = Z!ScoreKey(y.scores[k], k)
  <2>1. p \in z.by_score /\ p \notin T
    BY <1>2
  <2>2. PICK k \in DOMAIN z.scores : p = Z!ScoreKey(z.scores[k], k)
    BY <2>1 DEF Agree
  <2> QED BY <1>3, <1>4, <2>1, <2>2
<1>6. ASSUME NEW k \in DOMAIN y.scores
      PROVE  Z!ScoreKey(y.scores[k], k) \in y.by_score
  <2>1. Z!ScoreKey(z.scores[k], k) \in z.by_score
    BY <1>4 DEF Agree
  <2> QED BY <1>2, <1>3, <1>4, <2>1
<1>7. Agree(y)
  BY <1>5, <1>6, Zenon DEF Agree
<1> QED BY <1>7 DEF y

LEMMA ZaddAgrees ==
  ASSUME NEW z, Agree(z), NEW x, NEW m, NEW flags
  PROVE  Agree(Z!zadd(z, x, m, flags).zset)
<1> DEFINE ns == Z!new_score(z.scores[m], x, flags)
<1>1. CASE m \notin DOMAIN z.scores
  <2>1. Agree(Z!insert(z, m, x))
    BY <1>1, InsertAgrees
  <2> QED BY <1>1, <2>1 DEF Z!zadd, Z!members
<1>2. CASE m \in DOMAIN z.scores
  <2>1. Agree(Z!insert(Z!unindex(z, m), m, ns))
    BY <1>2, ReplaceAgrees
  <2> QED BY <1>2, <2>1 DEF Z!zadd, Z!members
<1> QED BY <1>1, <1>2

LEMMA ZincrbyAgrees ==
  ASSUME NEW z, Agree(z), NEW d, NEW m, NEW r \in Z!zincrby(z, d, m)
  PROVE  Agree(r.zset)
<1>1. PICK x : r.zset = Z!insert(IF m \in DOMAIN z.scores THEN Z!unindex(z, m) ELSE z, m, x)
  BY DEF Z!zincrby, Z!members
<1>2. CASE m \in DOMAIN z.scores
  BY <1>1, <1>2, ReplaceAgrees
<1>3. CASE m \notin DOMAIN z.scores
  BY <1>1, <1>3, InsertAgrees
<1> QED BY <1>2, <1>3

LEMMA ZpopAgrees ==
  ASSUME NEW z, Agree(z), NEW n
  PROVE  Agree(Z!zpopmin(z, n).zset) /\ Agree(Z!zpopmax(z, n).zset)
<1>1. CASE n > MAX_CAPACITY
  BY <1>1 DEF Z!zpopmin, Z!zpopmax, Z!panic
<1>2. CASE ~(n > MAX_CAPACITY)
  <2>1. \E T \in SUBSET z.by_score : Z!zpopmin(z, n).zset = Z!take(z, T)
    BY <1>2, ZenonT(30) DEF Z!zpopmin
  <2>2. \E T \in SUBSET z.by_score : Z!zpopmax(z, n).zset = Z!take(z, T)
    BY <1>2 DEF Z!zpopmax
  <2> QED BY <2>1, <2>2, TakeAgrees
<1> QED BY <1>1, <1>2

-----------------------------------------------------------------------------
(* The commands *)

(* What a command writes agrees when each of its results does. *)
LEMMA WriteAgrees ==
  ASSUME IndexesAgree, NEW c, NEW missing, NEW R,
         Agree(zset) => \A r \in R : Agree(r.data),
         with_value(c, "zset", missing, R) \/ or_insert(c, "zset", R)
  PROVE  IndexesAgree'
<1>1. Agree(zset)
  BY NewAgrees DEF IndexesAgree, Agree, zset, data_or, Z!members
<1>2. \A r \in R : Agree(r.data)
  BY <1>1
<1>3. entry' = entry \/ \E r \in R : entry' = with("zset", r.data)
  BY DEF with_value, or_insert
<1>4. CASE entry' = entry
  BY <1>4 DEF IndexesAgree, Z!members
<1>5. CASE \E r \in R : entry' = with("zset", r.data)
  BY <1>2, <1>5 DEF with, IndexesAgree, Agree, Z!members
<1> QED BY <1>3, <1>4, <1>5

LEMMA OneAgrees ==
  ASSUME IndexesAgree, NEW c, NEW missing, NEW d, NEW r,
         Agree(zset) => Agree(d), with_value(c, "zset", missing, {result(d, r)})
  PROVE  IndexesAgree'
BY WriteAgrees DEF result

LEMMA ReadAgrees ==
  ASSUME IndexesAgree, NEW c, NEW missing, NEW R, read(c, "zset", missing, R)
  PROVE  IndexesAgree'
<1>1. entry.kind = "zset" => zset = entry.data
  BY DEF zset, data_or
<1>2. entry'.kind = "zset" => entry.kind = "zset" /\ entry'.data = entry.data
  BY DEF read, with_value, with, result
<1> QED BY <1>2 DEF IndexesAgree, Z!members

(* Each command that writes. *)
LEMMA CommandAgrees ==
  ASSUME IndexesAgree, ZSetCommand
  PROVE  IndexesAgree'
<1>1. ASSUME NEW flags, NEW x, NEW m, cmd_zadd(flags, x, m) PROVE IndexesAgree'
  <2>1. Agree(zset) => Agree(Z!zadd(zset, x, m, flags).zset)
    BY ZaddAgrees
  <2> QED BY <1>1, <2>1, WriteAgrees DEF cmd_zadd, result
<1>2. ASSUME NEW d, NEW m, cmd_zincrby(d, m) PROVE IndexesAgree'
  <2>1. Agree(zset) => \A r \in Z!zincrby(zset, d, m) : Agree(r.zset)
    BY ZincrbyAgrees
  <2> QED BY <1>2, <2>1, WriteAgrees DEF cmd_zincrby, result
<1>3. ASSUME NEW ms, cmd_zrem(ms) PROVE IndexesAgree'
  <2>1. Agree(zset) => \A T : Agree(Z!zrem(zset, T))
    BY RemAgrees
  <2> QED BY <1>3, <2>1, WriteAgrees DEF cmd_zrem, result
<1>4. ASSUME NEW n, cmd_zpopmin(n) PROVE IndexesAgree'
  <2>1. Agree(zset) => Agree(Z!zpopmin(zset, n).zset)
    BY ZpopAgrees
  <2> QED BY <1>4, <2>1, WriteAgrees DEF cmd_zpopmin, after_zpop, result
<1>5. ASSUME NEW n, cmd_zpopmax(n) PROVE IndexesAgree'
  <2>1. Agree(zset) => Agree(Z!zpopmax(zset, n).zset)
    BY ZpopAgrees
  <2> QED BY <1>5, <2>1, WriteAgrees DEF cmd_zpopmax, after_zpop, result
<1>6. ASSUME NEW i, NEW j, cmd_zremrangebyrank(i, j) PROVE IndexesAgree'
  <2>1. Agree(zset) => \A T : Agree(Z!zrem(zset, T))
    BY RemAgrees
  <2> QED BY <1>6, <2>1, OneAgrees, ZenonT(30) DEF cmd_zremrangebyrank
<1>7. ASSUME NEW b, NEW c, cmd_zremrangebyscore(b, c) PROVE IndexesAgree'
  <2>1. Agree(zset) => \A T : Agree(Z!zrem(zset, T))
    BY RemAgrees
  <2> QED BY <1>7, <2>1, OneAgrees, ZenonT(30) DEF cmd_zremrangebyscore
<1>8. ASSUME NEW m, cmd_zscore(m) \/ cmd_zrank(m) \/ cmd_zrevrank(m) PROVE IndexesAgree'
  BY <1>8, ReadAgrees DEF cmd_zscore, cmd_zrank, cmd_zrevrank
<1>9. ASSUME NEW i, NEW j, cmd_zrange(i, j) \/ cmd_zrevrange(i, j) PROVE IndexesAgree'
  BY <1>9, ReadAgrees DEF cmd_zrange, cmd_zrevrange
<1>10. ASSUME NEW b, NEW c, cmd_zcount(b, c) PROVE IndexesAgree'
  BY <1>10, ReadAgrees DEF cmd_zcount
<1>11. ASSUME NEW b, NEW c, NEW o, NEW l,
              cmd_zrangebyscore(b, c, o, l) \/ cmd_zrevrangebyscore(b, c, o, l)
       PROVE  IndexesAgree'
  BY <1>11, ReadAgrees DEF cmd_zrangebyscore, cmd_zrevrangebyscore
<1>12. ASSUME cmd_zcard PROVE IndexesAgree'
  BY <1>12, ReadAgrees DEF cmd_zcard
<1> QED
  BY <1>1, <1>2, <1>3, <1>4, <1>5, <1>6, <1>7, <1>8, <1>9, <1>10, <1>11, <1>12 DEF ZSetCommand

-----------------------------------------------------------------------------
(* Whatever the other types' commands do to the key, and in whatever order *)
(* the sorted-set commands come, the hash map and the tree of a sorted set *)
(* hold the same pairs: ZADD, ZINCRBY, ZREM, the pops and the removals of  *)
(* a range each change both.                                               *)
THEOREM ZSetIndexesAgree == ZSetSpec => []IndexesAgree
<1>1. Init => IndexesAgree
  BY DEF Init, none, IndexesAgree
<1>2. ASSUME IndexesAgree, [ZSetCommand \/ OtherCommand]_vars PROVE IndexesAgree'
  <2>1. CASE ZSetCommand
    BY <1>2, <2>1, CommandAgrees
  <2>2. CASE OtherCommand
    BY <1>2, <2>2 DEF OtherCommand, IndexesAgree, Z!members
  <2>3. CASE UNCHANGED vars
    BY <1>2, <2>3 DEF vars, IndexesAgree, Z!members
  <2> QED BY <1>2, <2>1, <2>2, <2>3
<1> QED BY <1>1, <1>2, PTL DEF ZSetSpec

=============================================================================
