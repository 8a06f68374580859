------------------------------ MODULE Keyspace ------------------------------
(***************************************************************************)
(* The keys of the store under concurrent commands (src/src/storage/mod.rs *)
(* and the handlers of src/src/commands/mod.rs).                           *)
(*                                                                         *)
(* The map locks one shard at a time and only for one access, so a command *)
(* that accesses it twice, or that works on several keys, is interleaved   *)
(* with other commands and with the passing of time.  A step is one access.*)
(* The commands of Client are followed from request to answer; any other   *)
(* connection is the sum of its accesses, each of which changes the store  *)
(* as one of the commands of one access does.                              *)
(*                                                                         *)
(* What the commands do inside a value is the subject of Structures: here  *)
(* a value is a string, a list or a set.                                   *)
(***************************************************************************)
EXTENDS Integers, FiniteSets, Sequences

CONSTANTS
  Key,
  Client,          \* the connections followed, each with one command at a time
  Token,           \* elements of the lists: no two pushes push the same
  Member           \* members of the sets

ASSUME KeyAssumption == IsFiniteSet(Key) /\ Cardinality(Key) \in Nat \ {0}
ASSUME TokenAssumption == Token \cap Member = {}

VARIABLES
  data,            \* the entry of each key
  client           \* each client's command

(* History: the keys that were live at some moment, and at every moment,   *)
(* since the client's request and up to its answer.                        *)
VARIABLES ever, always

vars == <<data, client, ever, always>>

-----------------------------------------------------------------------------
(* Entries: a value and the time it expires, which lies ahead or is past. *)

string == [kind |-> "string", items |-> <<>>, members |-> {}]
list(s) == [kind |-> "list", items |-> s, members |-> {}]
set(s) == [kind |-> "set", items |-> <<>>, members |-> s]
entry(v, t) == [value |-> v, expires_at |-> t]
missing == entry([kind |-> "none", items |-> <<>>, members |-> {}], "none")

Value == {string} \cup {set(s) : s \in SUBSET Member}
           \cup [kind : {"list"}, items : Seq(Token), members : {{}}]
Entry == [value : Value, expires_at : {"none", "ahead", "past"}]

is_expired(e) == e.expires_at = "past"

(* Variant: an entry counts although its time is over. *)
exists_anyway(k) == data[k] # missing

exists(k) == data[k] # missing /\ ~is_expired(data[k])

(* Milliseconds left: some, none for a key without expiry, or no such key. *)
pttl(k) ==
  IF ~exists(k) THEN -2 ELSE IF data[k].expires_at = "none" THEN -1 ELSE 1

live(d) == {k \in Key : d[k] # missing /\ ~is_expired(d[k])}

-----------------------------------------------------------------------------
(* A client's command: the access it comes to next, the keys it was given, *)
(* those it still has to visit and those it found, the sets it read and    *)
(* the elements it took.                                                   *)

idle == [op |-> "none", stage |-> "idle", args |-> {}, keys |-> <<>>, found |-> {},
         sets |-> <<>>, hand |-> {}]

(* The handlers that visit several keys visit them in the order given; an  *)
(* iteration of the map visits all of them in an order of its own.  "keys" *)
(* stands for KEYS and for the counting of INFO, and "combine" for SUNION, *)
(* SINTER and SDIFF, which make the same accesses.                         *)
Iteration == {"keys", "flushall"}
Lookup == {"exists", "ttl", "set nx", "set xx", "setnx"}
Combine == {"combine"}
CombineStore == {"sunionstore", "sinterstore", "sdiffstore"}

(* All keys, in any order. *)
AllKeys == {s \in [1 .. Cardinality(Key) -> Key] : \A k \in Key : \E i \in DOMAIN s : s[i] = k}

(* The sources and the destination. *)
StoreKeys == {Append(s, k) : s \in AllKeys, k \in Key}

Requests ==
  [op : {"get", "getset", "set nx", "set xx", "setnx", "ttl"}, keys : {<<k>> : k \in Key}]
    \cup [op : {"mget", "mset", "del", "exists"} \cup Iteration \cup Combine, keys : AllKeys]
    \cup [op : {"lmove", "smove"}, keys : Key \X Key]
    \cup [op : CombineStore, keys : StoreKeys]

keys_of(r) == {r.keys[i] : i \in DOMAIN r.keys}

(* The first access of each handler. *)
first_stage(op) ==
  CASE op \in {"get", "mget", "getset"} -> "get"
    [] op \in Lookup \cup {"keys"} -> "look"
    [] op = "mset" -> "insert"
    [] op \in {"del", "flushall"} -> "remove"
    [] op \in {"lmove", "smove"} -> "take"
    [] op \in Combine \cup CombineStore -> "read"

running(c) == client[c].stage \notin {"idle", "done"}

(* A new state of the store, and what the running commands could see. *)
write(d) ==
  /\ data' = d
  /\ ever' = [c \in Client |-> IF running(c) THEN ever[c] \cup live(d) ELSE ever[c]]
  /\ always' = [c \in Client |-> IF running(c) THEN always[c] \cap live(d) ELSE always[c]]

step(c, r) == client' = [client EXCEPT ![c] = r]
at(c, stage) == client[c].stage = stage
key(c) == Head(client[c].keys)

(* Variant: a loop that does not advance. *)
visited_again(r) == IF r.op = "mset" THEN r ELSE [r EXCEPT !.keys = Tail(@), !.stage = IF Len(r.keys) = 1 THEN "done" ELSE @]

(* The command after a visit to its next key: the answer after the last. *)
visited(r) == [r EXCEPT !.keys = Tail(@), !.stage = IF Len(r.keys) = 1 THEN "done" ELSE @]
done(r) == [r EXCEPT !.stage = "done", !.keys = <<>>]

execute(c, r) ==
  /\ at(c, "idle")
  /\ step(c, [idle EXCEPT !.op = r.op, !.args = keys_of(r), !.keys = r.keys,
                         !.stage = first_stage(r.op)])
  /\ ever' = [ever EXCEPT ![c] = live(data)]
  /\ always' = [always EXCEPT ![c] = live(data)]
  /\ UNCHANGED data

(* The answer is sent. *)
send(c) ==
  /\ at(c, "done")
  /\ step(c, idle)
  /\ ever' = [ever EXCEPT ![c] = {}]
  /\ always' = [always EXCEPT ![c] = {}]
  /\ UNCHANGED data

-----------------------------------------------------------------------------
(* Reads *)

(* GETSET goes on to set the key it read. *)
got(r) == IF r.op = "getset" THEN [r EXCEPT !.stage = "insert"] ELSE visited(r)

(* Store::get: of an expired entry the lock is dropped, and taken again to *)
(* remove it.                                                              *)
get(c) ==
  /\ at(c, "get")
  /\ step(c, IF data[key(c)] = missing THEN got(client[c])
             ELSE IF is_expired(data[key(c)]) THEN [client[c] EXCEPT !.stage = "expired"]
             ELSE got([client[c] EXCEPT !.found = @ \cup {key(c)}]))
  /\ UNCHANGED <<data, ever, always>>

remove_expired(c) ==
  /\ at(c, "expired")
  /\ step(c, got([client[c] EXCEPT !.stage = "get"]))
  /\ write([data EXCEPT ![key(c)] = missing])

(* What a look at a key tells: whether it is there. *)
sees(op, k) == IF op = "ttl" THEN pttl(k) # -2 ELSE exists(k)

(* EXISTS, TTL, and the iteration of KEYS and INFO; SET with NX or XX and  *)
(* SETNX go on to set the key, or give up.                                 *)
look(c) ==
  LET r == client[c]
      yes == sees(r.op, key(c))
      seen == IF yes THEN [r EXCEPT !.found = @ \cup {key(c)}] ELSE r
      goes_on == r.op \in (IF yes THEN {"set xx"} ELSE {"set nx", "setnx"})
  IN /\ at(c, "look")
     /\ step(c, IF goes_on THEN [seen EXCEPT !.stage = "insert"] ELSE visited(seen))
     /\ UNCHANGED <<data, ever, always>>

-----------------------------------------------------------------------------
(* Writes *)

(* Store::set: the old entry goes, and its expiry with it. *)
insert(c) ==
  /\ at(c, "insert")
  /\ step(c, visited(client[c]))
  /\ \E t \in IF client[c].op \in {"set nx", "set xx"} THEN {"none", "ahead"} ELSE {"none"} :
       write([data EXCEPT ![key(c)] = entry(string, t)])

(* Store::del and Store::flush, of expired entries, too. *)
remove(c) ==
  /\ at(c, "remove")
  /\ step(c, visited(client[c]))
  /\ write([data EXCEPT ![key(c)] = missing])

(* The value a push or an addition starts from. *)
value_or(k, new) == IF data[k] = missing THEN entry(new, "none") ELSE data[k]

(* LMOVE takes an element from either end of the source, under one lock, *)
ends(s) == {<<Head(s), Tail(s)>>, <<s[Len(s)], SubSeq(s, 1, Len(s) - 1)>>}

(* Variant: the element is copied before it is removed. *)
lmove_copy(c) ==
  LET e == data[key(c)]
  IN /\ at(c, "take") /\ client[c].op = "lmove"
     /\ \/ /\ e.value.items = <<>>
           /\ step(c, done(client[c]))
           /\ UNCHANGED <<data, ever, always>>
        \/ /\ e.value.items # <<>>
           /\ \E x \in ends(e.value.items) :
                step(c, [client[c] EXCEPT !.stage = "put", !.keys = Tail(@), !.hand = {x[1]}])
           /\ UNCHANGED <<data, ever, always>>

lmove_pop(c) ==
  LET e == data[key(c)]
  IN /\ at(c, "take") /\ client[c].op = "lmove"
     /\ \/ /\ e.value.items = <<>>
           /\ step(c, done(client[c]))
           /\ UNCHANGED <<data, ever, always>>
        \/ /\ e.value.items # <<>>
           /\ \E x \in ends(e.value.items) :
                /\ step(c, [client[c] EXCEPT !.stage = "put", !.keys = Tail(@), !.hand = {x[1]}])
                /\ write([data EXCEPT ![key(c)].value = list(x[2])])

(* Variant: the element is put into whatever the destination holds. *)
lmove_push_anywhere(c) ==
  LET e == value_or(key(c), list(<<>>))
  IN /\ at(c, "put") /\ client[c].op = "lmove"
     /\ step(c, [done(client[c]) EXCEPT !.hand = {}])
     /\ \E t \in client[c].hand : \E s \in {<<t>> \o e.value.items, Append(e.value.items, t)} :
          write([data EXCEPT ![key(c)] = [e EXCEPT !.value.items = s]])

(* and puts it on the destination under another.  If that is no list the   *)
(* command fails and the element is gone.                                  *)
lmove_push(c) ==
  LET e == value_or(key(c), list(<<>>))
  IN /\ at(c, "put") /\ client[c].op = "lmove"
     /\ \/ /\ e.value.kind # "list"
           /\ step(c, [done(client[c]) EXCEPT !.hand = {}])
           /\ UNCHANGED <<data, ever, always>>
        \/ /\ e.value.kind = "list"
           /\ step(c, [done(client[c]) EXCEPT !.hand = {}])
           /\ \E t \in client[c].hand : \E s \in {<<t>> \o e.value.items, Append(e.value.items, t)} :
                write([data EXCEPT ![key(c)] = [e EXCEPT !.value = list(s)]])

(* SMOVE likewise; it stops when the member is not in the source. *)
smove_remove(c, m) ==
  LET e == data[key(c)]
  IN /\ at(c, "take") /\ client[c].op = "smove"
     /\ \/ /\ m \notin e.value.members
           /\ step(c, done(client[c]))
           /\ UNCHANGED <<data, ever, always>>
        \/ /\ m \in e.value.members
           /\ step(c, [client[c] EXCEPT !.stage = "put", !.keys = Tail(@), !.hand = {m}])
           /\ write([data EXCEPT ![key(c)].value = set(e.value.members \ {m})])

smove_add(c) ==
  LET e == value_or(key(c), set({}))
  IN /\ at(c, "put") /\ client[c].op = "smove"
     /\ step(c, [done(client[c]) EXCEPT !.hand = {}])
     /\ \/ e.value.kind # "set" /\ UNCHANGED <<data, ever, always>>
        \/ /\ e.value.kind = "set"
           /\ write([data EXCEPT ![key(c)] =
                       [e EXCEPT !.value = set(e.value.members \cup client[c].hand)]])

(* get_set_clone of each key, expired or not; the first that is no set     *)
(* ends the command.                                                       *)
last_read(r) == Len(r.keys) = (IF r.op \in CombineStore THEN 2 ELSE 1)
get_set_clone(c) ==
  LET r == client[c]
      e == value_or(key(c), set({}))
      next == [r EXCEPT !.keys = Tail(@), !.sets = Append(@, e.value.members)]
  IN /\ at(c, "read")
     /\ step(c, IF e.value.kind # "set" THEN done(r)
                ELSE IF ~last_read(r) THEN next
                ELSE IF r.op \in CombineStore THEN [next EXCEPT !.stage = "store"]
                ELSE done(next))
     /\ UNCHANGED <<data, ever, always>>

(* union_with, intersect_with and diff_with of the first set and the others. *)
combined(op, sets) ==
  LET first == Head(sets)
      others == {sets[i] : i \in 2 .. Len(sets)}
  IN CASE op = "sunionstore" -> first \cup UNION others
       [] op = "sinterstore" -> {m \in first : \A s \in others : m \in s}
       [] op = "sdiffstore" -> first \ UNION others

store(c) ==
  /\ at(c, "store")
  /\ step(c, done(client[c]))
  /\ write([data EXCEPT ![key(c)] = entry(set(combined(client[c].op, client[c].sets)), "none")])

-----------------------------------------------------------------------------
(* Commands of one access, by any client, and the passing of time *)

here(t) == \E k \in Key : \E i \in DOMAIN data[k].value.items : data[k].value.items[i] = t
held(t) == \E c \in Client : t \in client[c].hand

cmd_del(k) == data[k] # missing /\ write([data EXCEPT ![k] = missing])
cmd_set(k, t) == write([data EXCEPT ![k] = entry(string, t)])
cmd_expire(k) == exists(k) /\ write([data EXCEPT ![k].expires_at = "ahead"])
cmd_persist(k) == data[k].expires_at # "none" /\ write([data EXCEPT ![k].expires_at = "none"])
cmd_rpush(k, t) ==
  LET e == value_or(k, list(<<>>))
  IN /\ ~here(t) /\ ~held(t)
     /\ e.value.kind = "list"
     /\ write([data EXCEPT ![k] = [e EXCEPT !.value = list(Append(@.items, t))]])
cmd_lpop(k) ==
  /\ data[k].value.items # <<>>
  /\ write([data EXCEPT ![k].value = list(Tail(@.items))])
cmd_sadd(k, m) ==
  LET e == value_or(k, set({}))
  IN /\ e.value.kind = "set"
     /\ write([data EXCEPT ![k] = [e EXCEPT !.value = set(@.members \cup {m})]])
cmd_srem(k, m) ==
  /\ m \in data[k].value.members
  /\ write([data EXCEPT ![k].value = set(@.members \ {m})])
elapse(k) ==
  /\ data[k].expires_at = "ahead"
  /\ write([data EXCEPT ![k].expires_at = "past"])

-----------------------------------------------------------------------------

Init ==
  /\ data = [k \in Key |-> missing]
  /\ client = [c \in Client |-> idle]
  /\ ever = [c \in Client |-> {}] /\ always = [c \in Client |-> {}]

proceed(c) ==
  \/ get(c) \/ remove_expired(c) \/ look(c) \/ insert(c) \/ remove(c)
  \/ lmove_pop(c) \/ lmove_push(c) \/ (\E m \in Member : smove_remove(c, m)) \/ smove_add(c)
  \/ get_set_clone(c) \/ store(c) \/ send(c)

one_access(k) ==
  /\ \/ cmd_expire(k) \/ cmd_persist(k) \/ cmd_lpop(k) \/ cmd_del(k) \/ elapse(k)
     \/ \E t \in {"none", "ahead"} : cmd_set(k, t)
     \/ \E t \in Token : cmd_rpush(k, t)
     \/ \E m \in Member : cmd_sadd(k, m) \/ cmd_srem(k, m)
  /\ UNCHANGED client

Next ==
  \/ \E c \in Client : proceed(c) \/ \E r \in Requests : execute(c, r)
  \/ \E k \in Key : one_access(k)

Spec == Init /\ [][Next]_vars

(* The task of a connection runs on until its command is answered. *)
FairSpec == Spec /\ \A c \in Client : WF_vars(proceed(c))

-----------------------------------------------------------------------------
(* Properties *)

Command == [op : {"none"} \cup {r.op : r \in Requests},
            stage : {"idle", "done", "get", "expired", "look", "insert", "remove", "take", "put", "read", "store"},
            args : SUBSET Key, keys : Seq(Key), found : SUBSET Key, sets : Seq(SUBSET Member),
            hand : SUBSET (Token \cup Member)]

TypeOK ==
  /\ data \in [Key -> Entry \cup {missing}]
  /\ client \in [Client -> Command]
  /\ ever \in [Client -> SUBSET Key] /\ always \in [Client -> SUBSET Key]

(* What a command answers of its keys was true of each of them at some     *)
(* moment between the request and the answer, however the other clients    *)
(* and the clock come in between: a key that was live all the time is      *)
(* found, by KEYS and INFO too, and holds up SETNX; a key that never was   *)
(* is not found; after DEL and FLUSHALL every key was gone, and after MSET *)
(* and GETSET every key was set.                                           *)
Looks == Lookup \cup {"get", "mget", "keys"}
AnswersWitnessed ==
  \A c \in Client : at(c, "done") =>
    LET r == client[c]
    IN /\ r.op \in Looks => r.found \subseteq ever[c] /\ (r.args \ r.found) \cap always[c] = {}
       /\ r.op \in {"del", "flushall"} => r.args \cap always[c] = {}
       /\ r.op \in {"mset", "getset"} => r.args \subseteq ever[c]

(* A list element is never in two places: LMOVE takes it from one list     *)
(* before it puts it on another, and has it in between.                    *)
OnePlace ==
  \A t \in Token :
    LET lists == {p \in UNION {{k} \X DOMAIN data[k].value.items : k \in Key} :
                    data[p[1]].value.items[p[2]] = t}
        hands == {c \in Client : t \in client[c].hand}
    IN /\ \A p, q \in lists : p = q
       /\ \A c, d \in hands : c = d
       /\ lists = {} \/ hands = {}

(* A command is answered, whatever the other clients do meanwhile. *)
CommandsFinish == \A c \in Client : running(c) ~> at(c, "idle")

=============================================================================
