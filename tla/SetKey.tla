-------------------------------- MODULE SetKey --------------------------------
(***************************************************************************)
(* The set commands (src/src/commands/mod.rs) on one key.                  *)
(***************************************************************************)
EXTENDS Key

LOCAL INSTANCE SequencesExt

CONSTANTS
  Member, BigMember,     \* members, and those too long for the vector encoding
  MAX_INTSET_ENTRIES

S == INSTANCE Sets

set == data_or("set", S!new)

cmd_sadd(ms) ==
  or_insert(request("sadd", ms), "set",
    LET t == FoldLeft(S!sadd, set, ms) IN {result(t, integer(S!len(t) - S!len(set)))})
cmd_srem(ms) ==
  with_value(request("srem", ms), "set", integer(0),
    {result(S!srem(set, ms).set, integer(S!srem(set, ms).n))})
cmd_spop(count) ==
  LET n == IF count = <<>> THEN 1 ELSE Max({0, count[1]})
      show(v) == IF count = <<>> THEN bulk_or_null(v) ELSE array(v)
  IN with_value(request("spop", count), "set", show(<<>>),
       {result(p.set, show(p.items)) : p \in S!spop(set, n)})

cmd_smembers ==
  read(request("smembers", <<>>), "set", array(<<>>), {array(p) : p \in S!members(set)})
cmd_sismember(m) ==
  read(request("sismember", <<m>>), "set", integer(0),
    {integer(IF S!contains(set, m) THEN 1 ELSE 0)})
cmd_scard == read(request("scard", <<>>), "set", integer(0), {integer(S!len(set))})
cmd_srandmember(count) ==
  LET n == IF count = <<>> THEN 1 ELSE count[1]
      show(v) == IF count = <<>> THEN bulk_or_null(v) ELSE array(v)
  IN read(request("srandmember", count), "set", show(<<>>),
       {show(p) : p \in S!random_members(set, n)})

SetCommand ==
  \/ \E ms \in OneOrTwo(Member) : cmd_sadd(ms) \/ cmd_srem(ms)
  \/ \E c \in Counts : cmd_spop(c) \/ cmd_srandmember(c)
  \/ \E m \in Member : cmd_sismember(m)
  \/ cmd_smembers \/ cmd_scard

=============================================================================
