------------------------------- MODULE ListKey --------------------------------
(***************************************************************************)
(* The list commands (src/src/commands/mod.rs) on one key.                 *)
(***************************************************************************)
EXTENDS Key

LOCAL INSTANCE SequencesExt

CONSTANTS
  Item, BigItem,         \* elements, and those too long for the vector encoding
  MAX_LISTPACK_ENTRIES,
  MaxLen                 \* bound: length of a list

ASSUME ListLimits == MaxLen \in Nat /\ MAX_LISTPACK_ENTRIES \in Nat

L == INSTANCE Lists

I64 == L!I64
list == data_or("list", L!new)

fits(n) == entry.kind = "list" => L!len(entry.data) + n <= MaxLen

cmd_lpush(xs) ==
  /\ fits(Len(xs))
  /\ or_insert(request("lpush", xs), "list",
       {result(FoldLeft(L!push_front, list, xs), integer(L!len(list) + Len(xs)))})
cmd_rpush(xs) ==
  /\ fits(Len(xs))
  /\ or_insert(request("rpush", xs), "list",
       {result(FoldLeft(L!push_back, list, xs), integer(L!len(list) + Len(xs)))})

(* No count pops one element; a count of 0 or less also does, and answers  *)
(* an array.  A panic leaves the list as it is, and answers nothing.       *)
amount(count) == IF count = <<>> THEN 1 ELSE Max({1, count[1]})
popped(count, v) == IF count = <<>> THEN bulk_or_null(v) ELSE array(v)
after_pop(count, p) == result(p.list, IF p.panics THEN no_reply ELSE popped(count, p.items))

cmd_lpop(count) ==
  with_value(request("lpop", count), "list", popped(count, <<>>),
    {after_pop(count, L!pop_front_n(list, amount(count)))})
cmd_rpop(count) ==
  with_value(request("rpop", count), "list", popped(count, <<>>),
    {after_pop(count, L!pop_back_n(list, amount(count)))})

cmd_llen == read(request("llen", <<>>), "list", integer(0), {integer(L!len(list))})
cmd_lrange(i, j) ==
  read(request("lrange", <<i, j>>), "list", array(<<>>), {array(L!lrange(list, i, j))})
cmd_lindex(i) ==
  read(request("lindex", <<i>>), "list", null_bulk, {bulk_or_null(L!lindex(list, i))})

cmd_lset(i, x) ==
  with_value(request("lset", <<i, x>>), "list", error,
    {IF L!in_range(list, i) THEN result(L!lset(list, i, x), ok) ELSE result(list, error)})
cmd_linsert(before, p, x) ==
  /\ fits(1)
  /\ with_value(request(IF before THEN "linsert_before" ELSE "linsert_after", <<p, x>>), "list",
                integer(0),
       {result(L!linsert(list, before, p, x).list, integer(L!linsert(list, before, p, x).n))})
cmd_lrem(n, x) ==
  with_value(request("lrem", <<n, x>>), "list", integer(0),
    {result(L!lrem(list, n, x).list, integer(L!lrem(list, n, x).n))})
cmd_ltrim(i, j) ==
  with_value(request("ltrim", <<i, j>>), "list", ok, {result(L!ltrim(list, i, j).list, ok)})

ListCommand ==
  \/ \E xs \in OneOrTwo(Item) : cmd_lpush(xs) \/ cmd_rpush(xs)
  \/ \E c \in Counts : cmd_lpop(c) \/ cmd_rpop(c)
  \/ cmd_llen
  \/ \E i, j \in I64 : cmd_lrange(i, j) \/ cmd_ltrim(i, j)
  \/ \E i \in I64 : cmd_lindex(i)
  \/ \E i \in I64, x \in Item : cmd_lset(i, x) \/ cmd_lrem(i, x)
  \/ \E b \in BOOLEAN, p, x \in Item : cmd_linsert(b, p, x)

=============================================================================
