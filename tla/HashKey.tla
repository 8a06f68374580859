------------------------------- MODULE HashKey --------------------------------
(***************************************************************************)
(* The hash commands (src/src/commands/mod.rs) on one key.  HSET and HMGET *)
(* call the store once per field: they are given one field here, and more  *)
(* are a sequence of these steps.                                          *)
(***************************************************************************)
EXTENDS Key

CONSTANTS
  Field, BigField,       \* fields, and those too long for the vector encoding
  Text,                  \* values a client sends
  NotNumber,             \* the one of them that is no number, and too long
  MAX_HASH_ENTRIES

(* Bound: the sums of HINCRBYFLOAT, in halves. *)
MaxHalves == 2 * I64_MAX + 2
HashValue == (-MaxHalves .. MaxHalves) \cup {NotNumber}

H == INSTANCE Hashes WITH Value <- HashValue, BigValue <- {NotNumber},
                         MAX_LISTPACK_ENTRIES <- MAX_HASH_ENTRIES

hash == data_or("hash", H!new)

cmd_hset(f, v) ==
  or_insert(request("hset", <<f, v>>), "hash",
    {result(H!hset(hash, f, v), integer(IF H!contains(hash, f) THEN 0 ELSE 1))})
cmd_hsetnx(f, v) ==
  or_insert(request("hsetnx", <<f, v>>), "hash",
    {IF H!contains(hash, f) THEN result(hash, integer(0)) ELSE result(H!hset(hash, f, v), integer(1))})
cmd_hdel(fs) ==
  with_value(request("hdel", fs), "hash", integer(0),
    {result(H!hdel(hash, fs), integer(H!len(hash) - H!len(H!hdel(hash, fs))))})

cmd_hget(f) ==
  read(request("hget", <<f>>), "hash", null_bulk,
    {IF H!contains(hash, f) THEN bulk(H!get(hash, f)) ELSE null_bulk})
cmd_hexists(f) ==
  read(request("hexists", <<f>>), "hash", integer(0),
    {integer(IF H!contains(hash, f) THEN 1 ELSE 0)})
cmd_hlen == read(request("hlen", <<>>), "hash", integer(0), {integer(H!len(hash))})
cmd_hgetall ==
  read(request("hgetall", <<>>), "hash", array(<<>>),
    {array(flat(p)) : p \in H!all_pairs(hash)})
cmd_hkeys ==
  read(request("hkeys", <<>>), "hash", array(<<>>),
    {array([i \in DOMAIN p |-> p[i][1]]) : p \in H!all_pairs(hash)})
cmd_hvals ==
  read(request("hvals", <<>>), "hash", array(<<>>),
    {array([i \in DOMAIN p |-> p[i][2]]) : p \in H!all_pairs(hash)})

(* Variant: the sum is not checked. *)
cmd_hincrby_unchecked(f, d) ==
  or_insert(request("hincrby", <<f, d>>), "hash",
    LET old == H!old_value(hash, f)
        sum == old \div 2 + d
    IN {IF H!is_i64(old) THEN result(H!hset(hash, f, 2 * sum), integer(sum))
                         ELSE result(hash, error)})

(* An increment of a text that is not a number, or that overflows, fails,  *)
(* on a hash the command may have created.                                 *)
cmd_hincrby(f, d) ==
  or_insert(request("hincrby", <<f, d>>), "hash",
    LET old == H!old_value(hash, f)
        sum == old \div 2 + d
    IN {IF H!is_i64(old) /\ sum \in H!I64 THEN result(H!hset(hash, f, 2 * sum), integer(sum))
                                        ELSE result(hash, error)})
cmd_hincrbyfloat(f, d) ==
  or_insert(request("hincrbyfloat", <<f, d>>), "hash",
    LET old == H!old_value(hash, f)
    IN IF ~H!is_f64(old) THEN {result(hash, error)}
       ELSE {result(H!hset(hash, f, sum), bulk(sum)) : sum \in {old + d} \cap HashValue})

Increment == {-1, 1, I64_MAX}

HashCommand ==
  \/ \E f \in Field, v \in Text : cmd_hset(f, v) \/ cmd_hsetnx(f, v)
  \/ \E fs \in OneOrTwo(Field) : cmd_hdel(fs)
  \/ \E f \in Field : cmd_hget(f) \/ cmd_hexists(f)
  \/ cmd_hlen \/ cmd_hgetall \/ cmd_hkeys \/ cmd_hvals
  \/ \E f \in Field, d \in Increment : cmd_hincrby(f, d) \/ cmd_hincrbyfloat(f, d)

=============================================================================
