# loony-redis in TLA+

TLA+ modules for the concurrent and distributed parts of loony-redis, the TLC
configurations that check them on small instances, and TLAPS proofs of the
results that hold for every instance. Definitions carry the names of the Rust
functions they model; `PROJECT.json` maps each of them to its source lines.

## The system and its parts

| Part | Source | Model |
|---|---|---|
| Raft consensus | `src/src/consensus` | `Raft`, `MCRaft`, proofs `RaftSteps`, `RaftProofs` |
| Command execution | `src/src/commands` | `StringKey`, `ListKey`, `HashKey`, `SetKey`, `ZSetKey`, `Keyspace` (the handlers), `Commands` (SET with and without an expiry, EXPIRE, DEL, RPUSH, LPOP for the modules about copies), the paths of `execute` in the modules below |
| Keyspace | `src/src/storage/mod.rs` | `Keyspace`, proofs `KeyspaceProofs`; `Key` (one key) |
| Data structures | `src/src/storage/*` | `Strings`, `Lists`, `Sets`, `Hashes`, `Floats`, `ZSets`; `Structures` (all commands on one key), `Objects` (the abstract values), `MCStructures`; proofs `ZSetProofs` |
| Append-only file | `src/src/persistence`, replay in `main.rs`, parser | `Aof`, proofs `AofProofs` |
| Leader-follower replication | `src/src/replication`, `src/src/network` | `Replication`, proofs `ReplicationProofs` |
| Hash slots | `src/src/cluster` phases 6-7 | `Slots`, proofs `MigrationProofs` |
| Membership, migration, proxy | `CLUSTER MEET/FORGET/SYNC/DRAIN`, `MIGRATE`, `drain_slots`, `push_entries_to`, `proxy_to` | `Migration` (extends `Slots`), proofs `MigrationProofs` |
| Failure detection, gossip, auto-heal | `src/src/cluster` phase 8, `CLUSTER GOSSIP/SYNC` | `Health`, proofs `HealthProofs` |
| RESP encoding, metrics, benchmarks | `protocol`, `observability`, `benches` | not modelled, but for `Replies` (what a frame says) and cut frames (`Aof`) |

How they meet: `commands::execute` sends a write through Raft when the node
runs Raft; else it routes by the cluster's slots and proxies what belongs to
another node; else it refuses writes on a replica, dispatches to the store
(which appends to the file) and broadcasts to replicas. `Commands` is the
shared description of what a command does to a value and leaves in the file;
`Replication` and `Aof` extend it. `Keyspace` and `Structures` are the two views
of the store itself: the first has many keys, and the interleaving of the
accesses to them, with values cut down to what moves between keys; the second
has one key, on which a command is one step, and all that happens inside its
value. Raft and replication are mutually exclusive
in `main.rs`, and so are their models.

## The modules

**Raft.** One node runs one event loop (`run_node`); an action is one
iteration: take one event, run its handler, apply what is committed.
Variables are the fields of `RaftNode`, its channels, and the RPCs under way.
RPCs may be delayed, reordered and lost (never handled); a vote request is sent
once per election and peer and is handled at most once; AppendEntries and its answers may be handled any
number of times, since a leader repeats them. `applied` stands for the state
machine and `last_applied`. `set_leader` spawns a task per call, hence
`leader_hints` is the set of ids a reader may see. `votes` and `leader_log` are
history.

**Commands, Replication.** `write` changes the leader's store, `broadcast`
publishes the command in a second step. The session subscribes
(`replicate_from_leader`), reads the store key by key (`snapshot`: a DashMap
iteration is no consistent cut), forwards the channel (`forward`) and closes
when the receiver lagged (`lag`). `break` loses what is on the wire. The
replica applies frames (`replay`) and keeps its keys when it reconnects. A value
has no expiry, one that lies ahead, or one that has passed (`expire`, on either
side: each has its own clock); the frames of a snapshot carry none
(`snapshot_entry_to_resp`). One
replica is modelled: sessions share nothing but the leader's store.

**Aof.** A handler changes the store, then appends one frame and answers. The
process may crash anywhere in the append. `torn` describes what the RESP parser
does with a frame that was cut: cut between arguments, it takes the following
records for the missing ones; cut inside an argument, it takes their bytes.
`load_frames` and `start` are the startup replay: `read_record` is one turn of
its loop, in which a record is executed or taken for an argument that a cut record
still lacks, and the store and the arguments lacking are what the next turn needs.
An append that fails is answered as if it had not (`write_resp_fails`). Time
passes (`elapse`), and a reader finds a value expired and removes it in two
steps (`get`, `remove_expired`), which the file is not told; nor is it told of
EXPIRE or of the EX and PX of SET.

**Health.** Every node's heartbeat task is a small automaton (`task`): between
two peers, waiting for a ping, about to write the configuration it computed,
telling the others. GOSSIP and SYNC handlers run in between. A SYNC installs
its list at once: the handler writes the list it was sent whatever it read
before, so its delay is the message's. An entry that leaves the table with its node
and comes back with a later list starts alive: `OnlyPingRevives` is about entries
that stay. `ping_ok` merges the answer, `mark_alive`
and `to_csv`.

**Slots, Migration.** A node list is the set of its addresses, numbered in
sorted order; `slot_to_node` is the chunk assignment of `ClusterConfig::new`. A
key stands for its slot. One operator runs one MEET (at a member) or FORGET,
from any cluster of two or three nodes. A coordinator waits for each call or its
timeout while the called handler goes on, or gives up a call that never reached
its node (`send_internal_fails`). Keys are read, deleted and sent
one by one as ordinary commands, so each node on the way routes them by its own
list. The node decides (`route`) and executes (`execute`) in two steps, as
the code releases the lock in between. `request_fails` is a failing command:
the source has deleted the key already. `cmd_migrate` is MIGRATE: it is not
routed itself, reads the key of the node it is sent to and sends a SET, which is
routed like any other; `migrated` deletes the key with the answer, or gives up
at the timeout. `source` is the node that waits, `returned` history.

**Keyspace.** The map locks one shard for one access, so a step is one access.
A followed client's command is a small automaton: the access it comes to next
(`stage`), the keys it has to visit, those it found, the sets it read, the
element it holds. `get` and `remove_expired` are the two locks of `Store::get`;
`look` then `insert` the conditional SET and SETNX; `insert` and `remove` repeat
for MSET, DEL and FLUSHALL; `lmove_pop`/`lmove_push` and
`smove_remove`/`smove_add` the two halves of a move; `get_set_clone` and `store`
the combinations. Every other connection is the sum of its accesses
(`one_access`), and time passes (`elapse`). A value is a string, a list or a set;
`ever` and `always` are history: which keys were live at some moment, and at
every moment, since the request.

**Strings, Lists, Sets, Hashes, Floats, ZSets.** The types as the code has
them, encodings included: `Small` vectors and their promotion, the two indexes of
a sorted set, scores as bit patterns that `encode_score` orders. Integers have a
width and wrap where the release build does. `Floats` (f64) and the text
conversions of `Strings` are library code, modelled from their use.

**Key, StringKey, ListKey, HashKey, SetKey, ZSetKey, Structures.** One key under
all commands on its value. `with_value`, `or_insert` and `read` are the access
patterns of `storage/mod.rs`: what a missing key or one of another type answers,
and that `or_insert_with` leaves an empty value behind when the command then
fails. An order the program does not fix (a hash map's, a shuffle) is a choice.
A pop that asks for more elements than a vector can hold (`MAX_CAPACITY`) panics
before it takes any: the value stays and the connection has no answer. (A size
that the allocator refuses aborts the process instead, which is the crash of
`Aof`.) `log` in `StringKey` is the frame a string command appends to the file;
of an expiry only its presence is kept there (`ttl`).

**Objects.** What the manual says of the commands: a string, a sequence, a
function, a set and a function to scores, with no encoding and no second index,
and the answers in their terms (`Next`). The program departs from it in seven
cases, and each has an operator that says when, and what the program does
instead (`Departs`). `MCStructures` maps an entry to such a value (`Abstract`)
and checks that every step of `Structures` is one of `Next` or one of these
(`Refines`). None of the seven can be left out: TLC then finds `Refines` violated.

## Runs

| Run | Checks | Result |
|---|---|---|
| `raft_safety` | type, election safety, one vote per term, log matching, leaders append only, leader hints, client accounting | pass |
| `raft_commit` | committed entries are on a majority | violated: a follower reports its whole log as matched |
| `raft_reply` | a client is answered with its own command's result | violated: `pending` survives step-down and truncation |
| `replication` | type, no missed write, in sync and convergence as long as clients use SET without an expiry | pass |
| `aof` | the file recovers the keys without an expiry; a crash loses at most the command in progress | pass |
| `aof_torn` | the same after two crashes | violated: records appended behind a cut frame |
| `health` | type, failed only after misses in a row, only a ping revives, a dead node is noticed everywhere | pass |
| `health_heal` | a node heals a peer it holds for failed | violated: not if it has the failure from gossip and the SYNC is lost |
| `migration` | no key vanishes, members that SYNC reached agree, handlers finish | pass |
| `migration_reach` | keys are where the cluster looks for them | violated: FORGET leaves the coordinator's own keys |
| `keyspace` | answers were true at some moment, no list element in two places, commands finish | pass |
| `structures` | type, the indexes of a sorted set agree, compact encodings stay small, string frames replay, what the manual says (`Objects`) but for its departures | pass |

The violated ones state what the documentation or a comment says; the findings
of `PROJECT.json` quote it.

### Bounds

- Raft: 3 nodes, 2 commands, terms up to 2, 2 elections, at most 4 (6 in the
  violation runs) distinct AppendEntries. Two elections with two commands are
  enough for a deposed leader with a conflicting suffix, a truncation and an
  index that is used twice. Nodes and commands are symmetric.
- Replication: 2 keys, 2 items, 1 client, 2 writes, capacity 1, two breaks and
  two steps of time. Capacity 1 makes a session lag with two writes.
- Aof: 2 keys, 2 items, 3 writes, one crash and one failed append; two crashes
  in the violation run, where the second start reads what the first left.
- Health: 3 nodes, threshold 2, one crash, one message under way and one fault
  (`MaxFaults`): the restart, a late answer or a lost SYNC. One lost SYNC is what
  the violation needs.
- Migration: 3 nodes, 6 slots, two keys in slots that move, and two events
  (`MaxEvents`) out of client writes, MIGRATEs, timeouts, undelivered calls and
  the first failed command; none in the violation run.
- Keyspace: 2 keys, one followed client, one list element, one set member. Two
  keys are enough for every move and for an iteration that others overtake;
  every other connection is in `one_access`, so one followed client meets all
  single accesses at any point. Commands of several accesses by two clients at
  once are covered by the proof, not by the run.
- Structures: thresholds, widths and lengths are cut so that each is crossed:
  promotion after few entries, integers of a few bits (`I64_MAX`), numerals in
  base 2 of at most 4 characters (`MaxText`), scores with both zeros, both
  infinities and NaN (`HALF`), lists of at most `MaxLen` elements, counts beyond
  what a vector has room for (`MAX_CAPACITY`), sums of
  HINCRBYFLOAT within `MaxHalves`. The last command and its answer are no part
  of the state TLC tells apart (`VIEW`): no command reads them, and the action
  properties are checked on every transition.

### Fairness

Liveness is checked under weak fairness of the tasks the tokio runtime
schedules: broadcast, snapshot, forwarding, reconnecting and replay
(`Replication`); each node's heartbeat and the delivery of a SYNC that is not
lost (`Health`); the handlers and the commands under way (`Migration`), and there
the timeout of `proxy_to`, which ends a command that goes in circles after a call
that was not delivered; the
command of each followed client (`Keyspace`), whose accesses wait for a lock that
is held for one access only.
Clients, operators, crashes, losses, other timeouts and gossip are never assumed
to happen.
Raft is checked for safety only: its progress rests on random timeouts.

`CHECK_DEADLOCK` is off: every model stops when its bounds are used up and
nothing is left to do, which is how the real system idles.

## Proofs

For every value of the constants (any group size, number of terms, keys,
clients, capacity), TLAPS checks:

- Raft is proved in two modules. `RaftSteps` has what each action does to each part
  of the invariants; what it needs of finite sets and majorities is one assumption
  of its lemmas (`SetFacts`), which keeps the library out of several hundred
  obligations. `RaftProofs` proves `SetFacts` and concludes.
- `RaftProofs!TypeCorrect`: the type invariant of Raft, strengthened to
  `TypeInv`: candidates and leaders are past term 0, so the entries they write
  are well formed, and `apply_committed` has caught up with `commit_index`
  after every event, so it only takes entries the log has.
- `RaftProofs`: `VotesOnce`, `ElectionSafe`, `HintsJustified`,
  `LeadersAppendOnly`, all from one inductive invariant, `ElectionInv`. Election
  safety is not inductive: a candidate only has a *number* of votes. The
  invariant ties the number to real votes: a vote is remembered as long as its
  voter stays in the term (`VotesRemembered`), a request under way has not been
  granted and is the only one of its kind (`RequestsFresh`), a granted answer
  stands for a vote in `votes` (`GrantsBacked`), the counter is at most the
  votes cast less the answers under way (`CountBacked`), and a leader, and
  whoever sent an AppendEntries, was elected by a majority (`LeadersElected`,
  `SendersElected`). Two
  majorities intersect (`QuorumsIntersect`), so two leaders of one term are one.
  That requests are sent once per election is what keeps the count right, as the code does
  not look at the sender of an answer.
- `RaftProofs!LogsMatch`: `LogMatching`. The witness is `leader_log`, the log
  each term's leader last had. A term has one leader, which only appends, so
  `leader_log` only grows; up to each of its entries, every log equals the
  `leader_log` of the entry's term (`LogsCopied`), and an AppendEntries carries a
  part of its term's (`RpcsCopied`). Two entries of one term at one index were
  thus copied from the same log, with all that comes before them.
- `RaftProofs!ClientsAccounted`: `ClientAccounting`, that a waiting client is neither
  lost nor answered twice. The invariant (`ClientInv`) says that no two places (in
  a proposal channel, in `pending`, among the answers) hold the same request, and
  that together they hold the issued ones and no others.
  It says nothing of which result the client gets: see the run `raft_reply`.
- `ReplicationProofs`: `TypeCorrect` and `NothingMissed`. The inductive
  invariant (`SessionInv`) also speaks of the time before the snapshot is
  complete: from the subscription on, every write is to a key still to be read,
  was captured or forwarded, waits in the channel or is about to be broadcast.
- `ReplicationProofs!FollowerInSync`: `SetInSync`, for one writing client that uses SET
  without an expiry and any keys, writes, broken connections, lags and capacity. Order matters here, not
  only presence: what the replica has still to hear of a key ends with the value
  the leader has (`LastWord`). The last word is the writer's, else the channel's,
  else the snapshot's or the connection's.
- `HealthProofs`: `FailureIsWitnessed` and `PingRevives`. `MissedInARow` is not
  inductive, as it says nothing of what is under way. The invariant adds: the
  misses on record are misses in a row, or there were enough of them
  (`Counted`); who had enough is known (`Recorded`); the list the task is about
  to install or tell, and every SYNC and GOSSIP, leave out and accuse nobody else
  (`TaskJustified`, `NetJustified`).
- `HealthProofs!MissesLimited`: `TypeOK`, with the bound it puts on the counters
  of misses. It rests on the heartbeat task: an entry at the threshold is Failed,
  and the task passes over those (`TaskLimited` says so of the ping under way).
- `KeyspaceProofs`: `KeyspaceWitnessed` (`AnswersWitnessed`), for any number of
  keys and of followed clients. The invariant says of every
  command under way what the property says of its answer, for the keys it has
  visited so far, and bounds the history by the live keys of the moment.
- `KeyspaceProofs`: `KeyspaceTyped` (`TypeOK`) and `ElementsOnce`
  (`OnePlace`), for any keys, elements and clients. The invariant `PInv` adds what
  each stage of a command may have left to visit and hold (`Shape`), and says
  place by place that lists and hands are apart (`Apart`).
- `AofProofs!DataSurvives` (`RestartKeepsData`), for any keys, items, writes, crashes
  and failed appends, from `AofInv`. It is about the keys that had no expiry since
  the process started; of the others the file forgets too much. Its parts: a file of whole records is read to
  its end (`ReadToEnd`); as long as nothing stands behind a cut record, the file
  recovers to what was answered, and a handler that has still to append is one
  command ahead (`InSync`); only a crash cuts a record (`CutByCrash`). Reading a
  longer file is reading the shorter one and then one record (`LoadAppend`); as
  `load_frames` is a recursive function and induction is not at hand, its lemmas
  argue from the least record at which they would fail.
- `AofProofs!CutRecordLosesOne`: after any number of crashes, a start on a file with
  nothing behind a cut record loses at most the command in progress.
  `FirstCrashLosesOne` (`CrashKeepsAnswered`): so does the start after a
  first crash, whose file is always such a one. The run `aof_torn` shows that the
  bound of one crash is needed.
- `ZSetProofs!ZSetIndexesAgree`: the map and the tree of a sorted set agree,
  for all members and scores, NaN included, whatever commands of other types
  do to the key.
- `MigrationProofs`: `SlotsOwned`: the chunk assignment gives every
  slot an owner on the list and every node a slot, for every number of
  slots and at most as many nodes. From `NUM_SLOTS \div n` and its remainder.
  `ForwardedToOwner`: `node_for_slot` and `is_mine` agree on who that is.
- `MigrationProofs!KeysKept` (`KeyNeverVanishes`) and `ListsAgree`
  (`AgreeWhenDone`), for any nodes, keys and number of events, from `MigInv`. Its
  parts: types (`Typed`); the node lists at hand are possible ones (`Listed`); a
  key that a drain is removing from its store is in its hand
  (`Taken`); each key has a copy, and once the SET of a MIGRATE is answered, one
  that is not the copy MIGRATE is about to delete (`Copied`); and in
  a membership change, every node has the list before it or the one after it, and
  who lacks the new one is still to be sent it, is installing it, or was not reached
  by the call (`Membership`). `ListsAgree` is therefore about two nodes that SYNC
  reached, or two that it did not.

Assumptions: `Node` is finite and not empty, `None` is no node, the bounds are
natural numbers, the capacity and the failure threshold are positive, the keys
of `Keyspace` are finite and at least one (in `Migration`, keys are slots), list
elements are no set members, the bytes a cut record swallows are no input a client
sends (`Garbage`), there is at least one slot, nodes are ordered as
positive numbers (`Slots`), the sign bit of a score has a weight above 2.
`FollowerInSync` and the theorems about `Aof` assume one client; the latter also
that it does not pop, as LPOP is not logged, and `FirstCrashLosesOne` that there is
at most one crash.

Only model-checked: all liveness, which is out of the prover's reach; and of
`Structures` all but `IndexesAgree`: the refinement of `Objects`, `CompactIsSmall`,
`LogReplays` and `TypeOK`. There a command is a fold over its arguments, or
filters a sequence or renders a number digit by digit, and what such an operator
returns for every input needs induction over data.

## Known divergences

Behaviour of the code that a reader of its documentation may not expect, beside
the five violation runs. TLC finds the first when one line of a passing
run's configuration is changed; no run covers the others, which were met while
translating and are kept in the models. The properties are stated around all of
them.

- Replication: in `MCReplication.cfg`, `InSync` in place of `SetInSync` is
  violated: an RPUSH between the subscription and the snapshot is in both and is
  applied twice (`docs/PhasesOfDevelopment.md:119`, "Followers stay in sync").
- An expiry is lost on three ways. SET with EX or PX is logged as a plain SET and
  EXPIRE is not logged (`commands/mod.rs:464`, `:343`), so a restart makes the key
  permanent, and brings back one that had expired (`README.md:45`, "Data survives
  restarts"). The snapshot for a replica has no expiry (`storage/mod.rs:29`, `:208`),
  so a replica that synchronised after the SET keeps a key that the leader drops.
  `RestartKeepsData` and `CrashKeepsAnswered` are about the keys without one,
  `SetInSync` and `SetConverges` about histories without one, and `LogReplays`
  says that of SET with EX or PX the value replays.
- The coordinator of a MEET or FORGET ignores a SYNC or DRAIN call that fails
  (`commands/mod.rs:1076`, `:1086`, `:1160`), so a member it could not reach keeps
  the old node list until the next membership change.
- SETNX and SET NX test and set in two accesses, so two clients may both be told
  that they set the key; MSET sets key by key (`docs/Commands.md:122`).
- SMOVE and LMOVE (`docs/Commands.md:327`, `:235`) are two accesses, and lose the
  element when the destination has another type.
- Commands on containers, and APPEND and INCRBY, do not look at the expiry of
  the entry, and PERSIST revives an entry that has expired; the removal in `get`
  may delete a value set after the look-up.
- INCRBY and DECRBY with a negative amount are logged without the sign; ZADD is
  logged without scores and members; of the commands on
  containers only LPUSH, RPUSH, HSET, SADD and ZADD are logged at all
  (`docs/Architecture.md:52`, "Every write command").
- LREM and LTRIM store their
  result in the small encoding, however long it is (`docs/Architecture.md:202`,
  "Promotion is one-way").
- A replica that reconnects keeps the keys that were deleted meanwhile.
- MIGRATE to a node that routes the key back to the source deletes it there
  (`docs/Commands.md:542`).

The departures of `Objects` are divergences too:

- `PopsOne`: LPOP and RPOP with a count of 0 pop one element
  (`docs/Commands.md:156`, "up to `count`").
- `PopPanics`: LPOP, RPOP, ZPOPMIN and ZPOPMAX with a huge count panic, as they
  allocate for the count (`list.rs:84`, `zset.rs:260`).
- `AddsSmallest`, `EmptyRange`: DECRBY of the smallest integer wraps in the release
  build, and so does a range that ends at the largest one.
- `StoresNaN`: ZINCRBY stores NaN when infinities cancel (`zset.rs:14`, "it never
  enters a ZSet"; `docs/Architecture.md:228`). `TypeOK` and `IndexesAgree` are
  checked with such scores.
- `CountsUnchanged`: with CH, ZADD counts an infinite or NaN score that stays as a
  change (`docs/Commands.md:383`).
- `RanksFromLowest`: ZREVRANGE cuts the slice from the ascending order before it
  reverses it (`docs/Commands.md:441`).

## What is not modelled

Raft restarts (its state is in memory only); the parsing of arguments; the AOF
frames of lists, hashes, sets and sorted sets; MIGRATE of values other than
strings, which the target answers with a number and MIGRATE reports as an error;
two membership changes at once; `crc16` and hash tags; RESP bytes; the texts of
INFO and CLUSTER; metrics. A hash or sorted-set command with several fields is a
sequence of commands with one, as the store is called once for each. With two
writing clients, the order in the store differs from the order in the file and
in the channel, so `RestartKeepsData` and `SetInSync` are stated and checked for
one. Commands that take away (LPOP) are not logged, so the `aof` run leaves them
out.

## Plan

1. `hash_tag` and `slot_ranges_for` against reference definitions.
2. An abstract key-value store that `Migration` and `Replication` implement under
   the conditions found so far.
3. `CompactIsSmall` as a theorem, for the commands that change one element.
