-------------------------- MODULE MigrationProofs --------------------------
(***************************************************************************)
(* The slots of a node list, for every number of slots and of nodes, and   *)
(* the keys and node lists of a cluster that takes in or gives up a node,  *)
(* for every set of nodes and keys and any number of commands.             *)
(***************************************************************************)
EXTENDS Migration, FiniteSetTheorems, TLAPS

(* Division rounds down. *)
LEMMA Division ==
  ASSUME NEW a \in Nat, NEW b \in Nat \ {0}
  PROVE  a \div b \in Nat /\ b * (a \div b) <= a
<1>1. a \div b \in Nat
  OBVIOUS
<1>2. b * (a \div b) <= a
  OBVIOUS
<1> QED BY <1>1, <1>2, Zenon

LEMMA Quotient ==
  ASSUME NEW a \in Nat, NEW b \in Nat \ {0}, NEW q \in Nat, NEW r \in 0 .. b - 1, a = b * q + r
  PROVE  a \div b = q
OBVIOUS

(* A node has a slot at least, and all nodes together no more than there   *)
(* are.                                                                    *)
LEMMA BaseInRange ==
  ASSUME NEW n \in 1 .. NUM_SLOTS
  PROVE  base(n) \in Nat \ {0} /\ n * base(n) <= NUM_SLOTS
BY SlotsAssumption, Division DEF base

(* Every slot has an owner, and every node owns a slot. *)
THEOREM SlotsOwned ==
  ASSUME NEW n \in 1 .. NUM_SLOTS
  PROVE  /\ \A s \in Slot : slot_to_node(n, s) \in 0 .. n - 1
         /\ \A i \in 0 .. n - 1 : \E s \in Slot : slot_to_node(n, s) = i
<1>1. base(n) \in Nat \ {0} /\ n * base(n) <= NUM_SLOTS
  BY BaseInRange, Zenon
<1> DEFINE b == base(n)
<1> HIDE DEF b
<1>2. ASSUME NEW s \in Slot PROVE slot_to_node(n, s) \in 0 .. n - 1
  <2>1. s \div b \in Nat
    BY <1>1, SlotsAssumption, Division DEF Slot, b
  <2> QED BY <2>1, SlotsAssumption DEF slot_to_node, b
<1>3. ASSUME NEW i \in 0 .. n - 1 PROVE \E s \in Slot : slot_to_node(n, s) = i
  <2>1. b * i \in Nat /\ b * i < n * b
    BY <1>1, SlotsAssumption DEF b
  <2>2. b * i \in Slot
    BY <1>1, <2>1, SlotsAssumption DEF Slot, b
  <2>3. (b * i) \div b = i
    BY <1>1, <2>1, Quotient DEF b
  <2>4. slot_to_node(n, b * i) = i
    BY <2>3, SlotsAssumption DEF slot_to_node, b
  <2> QED BY <2>2, <2>4, Zenon
<1> QED BY <1>2, <1>3, Zenon

(* The position of an address in the list tells it from the others. *)
LEMMA IndexGrows ==
  ASSUME NEW nodes \in SUBSET Node, NEW a \in nodes, NEW b \in nodes, a < b
  PROVE  index_of(nodes, a) # index_of(nodes, b)
<1> DEFINE A == {c \in nodes : c < a}
           B == {c \in nodes : c < b}
<1>1. nodes \subseteq Nat /\ IsFiniteSet(nodes)
  BY NodeAssumption, FS_Subset, Zenon
<1>2. IsFiniteSet(B)
  BY <1>1, FS_Subset, Zenon
<1>3. A \subseteq B /\ A # B
  <2>1. a \in B /\ a \notin A
    BY <1>1
  <2>2. \A c \in nodes : c \in Nat
    BY <1>1, Zenon
  <2>3. \A c \in nodes : c < a => c < b
    BY <2>2
  <2> QED BY <2>1, <2>3, Zenon
<1> HIDE DEF A, B
<1>4. Cardinality(A) # Cardinality(B)
  BY <1>2, <1>3, FS_Subset, Zenon
<1> QED BY <1>4, Zenon DEF index_of, A, B

(* No slot has two owners: of the nodes that hold the same list only one   *)
(* executes a command on a key of the slot, and the others forward it.     *)
LEMMA OneOwner ==
  ASSUME NEW nodes \in NodeList, NEW a \in nodes, NEW b \in nodes, NEW s \in Slot,
         is_mine(nodes, a, s), is_mine(nodes, b, s)
  PROVE  a = b
<1>1. index_of(nodes, a) = index_of(nodes, b)
  BY Zenon DEF is_mine
<1>2. a \in Nat /\ b \in Nat
  BY NodeAssumption, Zenon DEF NodeList
<1>3. ~(a < b) /\ ~(b < a)
  BY <1>1, IndexGrows, Zenon DEF NodeList
<1> QED BY <1>2, <1>3

(* The positions are those from 0 to the length of the list. *)
LEMMA IndexInRange ==
  ASSUME NEW nodes \in SUBSET Node, NEW a \in nodes
  PROVE  index_of(nodes, a) \in 0 .. Cardinality(nodes) - 1
<1> DEFINE A == {b \in nodes : b < a}
<1>1. IsFiniteSet(nodes) /\ a \in Nat
  BY NodeAssumption, FS_Subset, Zenon
<1>2. IsFiniteSet(A) /\ A \subseteq nodes \ {a}
  BY <1>1, FS_Subset
<1> HIDE DEF A
<1>3. IsFiniteSet(nodes \ {a}) /\ Cardinality(nodes \ {a}) = Cardinality(nodes) - 1
  BY <1>1, FS_RemoveElement, Zenon
<1>4. Cardinality(A) <= Cardinality(nodes \ {a})
  BY <1>2, <1>3, FS_Subset, Zenon
<1>5. Cardinality(A) \in Nat /\ Cardinality(nodes) \in Nat
  BY <1>1, <1>2, FS_CardinalityType, Zenon
<1>6. Cardinality(A) \in 0 .. Cardinality(nodes) - 1
  BY <1>3, <1>4, <1>5
<1> QED BY <1>6, Zenon DEF index_of, A

LEMMA IndexOnto ==
  ASSUME NEW nodes \in SUBSET Node, NEW i \in 0 .. Cardinality(nodes) - 1
  PROVE  \E a \in nodes : index_of(nodes, a) = i
<1> DEFINE T == 0 .. Cardinality(nodes) - 1
           f == [a \in nodes |-> index_of(nodes, a)]
<1>1. IsFiniteSet(nodes) /\ Cardinality(nodes) \in Nat /\ nodes \subseteq Nat
  BY NodeAssumption, FS_Subset, FS_CardinalityType, Zenon
<1>2. IsFiniteSet(T) /\ Cardinality(T) = Cardinality(nodes)
  BY <1>1, FS_Interval
<1>3. ASSUME NEW a \in nodes, NEW b \in nodes, f[a] = f[b]
      PROVE  a = b
  <2>1. ~(a < b) /\ ~(b < a)
    BY <1>3, IndexGrows, Zenon
  <2> QED BY <1>1, <2>1
<1>4. f \in [nodes -> T]
  BY IndexInRange, Zenon
<1> HIDE DEF f, T
<1>5. f \in Injection(nodes, T)
  BY <1>3, <1>4, Zenon DEF Injection, IsInjective
<1>6. f \in Surjection(nodes, T)
  BY <1>2, <1>5, FS_Injection, Zenon
<1>7. \E a \in nodes : f[a] = i
  BY <1>6, Zenon DEF Surjection, T
<1> QED BY <1>7, Zenon DEF f

(* A slot belongs to the node its commands are forwarded to, and to no     *)
(* other: with the same list there, a forwarded command is executed.       *)
THEOREM ForwardedToOwner ==
  ASSUME NEW nodes \in NodeList, NEW s \in Slot
  PROVE  /\ node_for_slot(nodes, s) \in nodes
         /\ \A a \in nodes : is_mine(nodes, a, s) <=> a = node_for_slot(nodes, s)
<1> DEFINE i == slot_to_node(Cardinality(nodes), s)
<1>1. Cardinality(nodes) \in 1 .. NUM_SLOTS /\ nodes \in SUBSET Node
  <2>1. IsFiniteSet(nodes) /\ nodes # {} /\ Cardinality(nodes) <= NUM_SLOTS /\ nodes \in SUBSET Node
    BY NodeAssumption, FS_Subset, Zenon DEF NodeList
  <2>2. Cardinality(nodes) \in Nat /\ Cardinality(nodes) # 0
    BY <2>1, FS_CardinalityType, FS_EmptySet, Zenon
  <2> QED BY <2>1, <2>2, SlotsAssumption
<1>2. i \in 0 .. Cardinality(nodes) - 1
  BY <1>1, SlotsOwned, Zenon
<1> HIDE DEF i
<1>3. \E a \in nodes : index_of(nodes, a) = i
  BY <1>1, <1>2, IndexOnto, Zenon
<1>4. node_at(nodes, i) \in nodes /\ index_of(nodes, node_at(nodes, i)) = i
  BY <1>3, Zenon DEF node_at
<1>5. node_for_slot(nodes, s) \in nodes /\ is_mine(nodes, node_for_slot(nodes, s), s)
  BY <1>4, Zenon DEF node_for_slot, is_mine, i
<1> QED BY <1>5, OneOwner, Zenon

(* The first address of a list. *)
LEMMA FirstListed ==
  ASSUME NEW nodes \in SUBSET Node, nodes # {}
  PROVE  Min(nodes) \in nodes
<1>1. IsFiniteSet(nodes) /\ nodes \subseteq Nat
  BY NodeAssumption, FS_Subset, Zenon
<1>2. 0 \in 0 .. Cardinality(nodes) - 1
  <2>1. Cardinality(nodes) \in Nat /\ Cardinality(nodes) # 0
    BY <1>1, FS_CardinalityType, FS_EmptySet, Zenon
  <2> QED BY <2>1
<1>3. PICK a \in nodes : index_of(nodes, a) = 0
  BY <1>2, IndexOnto, Zenon
<1> DEFINE A == {b \in nodes : b < a}
<1>4. IsFiniteSet(A)
  BY <1>1, FS_Subset, Zenon
<1>5. Cardinality(A) = 0
  BY <1>3, Zenon DEF index_of
<1>6. A = {}
  BY <1>4, <1>5, FS_EmptySet, Zenon
<1>7. \A b \in nodes : a <= b
  BY <1>1, <1>6
<1> QED BY <1>7, Zenon DEF Min

-----------------------------------------------------------------------------
(* What is true of handlers, commands, copies and node lists *)

(* Handlers and commands are well formed. *)
Job ==
  [kind : {"none", "MEET", "FORGET", "SYNC", "DRAIN"}, nodes : SUBSET Node, calls : SUBSET Node,
   awaits : Node \cup {0}, leaving : Node \cup {0}, keys : SUBSET Key, listed : SUBSET Key,
   taking : Key \cup {NoKey}, hand : SUBSET (Key \X (Version \ {0})), commit : BOOLEAN]

Request ==
  [pc : {"none", "route", "execute", "answered"}, key : Key \cup {NoKey}, version : Version,
   at : Node \cup {0}]

Sent(q) == q.pc # "none" => q.key \in Key /\ q.version # 0 /\ q.at \in Node

Typed ==
  /\ config \in [Node -> NodeList]
  /\ store \in [Node -> [Key -> Version]]
  /\ job \in [Node -> Job]
  /\ request \in [Requester -> Request]
  /\ \A r \in Requester : Sent(request[r])
  /\ source \in Node \cup {0}
  /\ started \in BOOLEAN
  /\ puts \in Nat /\ timeouts \in Nat /\ migrates \in Nat
  /\ puts + timeouts + migrates <= MaxEvents
  /\ failed \in BOOLEAN /\ unreached \in SUBSET Node /\ returned \in BOOLEAN

(* A node is on its own list; a handler has a list, and the node that      *)
(* installs it is on it.  Before the operator starts no handler runs.      *)
Listed ==
  /\ \A n \in Node : n \in config[n]
  /\ \A n \in Node : job[n].kind # "none" => job[n].nodes \in NodeList
  /\ \A n \in Node : job[n].kind = "none" => job[n] = NoJob
  /\ ~started => \A n \in Node : job[n] = NoJob

(* A key that is being removed is in the hand, and stays there. *)
InHand(j) ==
  j.taking # NoKey =>
    /\ j.taking \in j.listed
    /\ ~failed => \E v \in Version : <<j.taking, v>> \in j.hand

Taken == \A n \in Node : InHand(job[n])

(* There is a copy of the key, in a store other than that of node s or on  *)
(* its way.                                                                *)
Copy(k, s) ==
  \E n \in Node :
    \/ n # s /\ store[n][k] # 0
    \/ request[n].key = k
    \/ \E v \in Version : <<k, v>> \in job[n].hand

(* There always is one, and a MIGRATE that has its answer need not count   *)
(* the one it is about to delete.                                          *)
Copied ==
  ~failed /\ ~returned =>
    /\ \A k \in Key : Copy(k, 0)
    /\ request[migrate].pc = "answered" /\ source # 0 => Copy(request[migrate].key, source)

(* Node c brings about the change from the list old to the list new: who   *)
(* does not have the new list yet is going to be sent it, is installing it *)
(* or was not reached; who was not called or not reached has the old one.  *)
Change(old, new, c) ==
  /\ \A n \in Node : config[n] \in {Members(old)[n], new}
  /\ \A n \in Node \ new : config[n] = Members(old)[n]
  /\ \A n \in Node : job[n].kind # "none" => job[n].nodes = new
  /\ \A n \in Node : job[n].commit => n \in new
  /\ \A n \in Node : job[n].calls # {} => n = c
  /\ job[c].leaving \notin new /\ job[c].calls \ {job[c].leaving} \subseteq new
  /\ \A n \in unreached : n \notin job[c].calls
  /\ \A n \in job[c].calls \cup unreached : ~job[n].commit /\ config[n] = Members(old)[n]
  /\ \A n \in new : config[n] = new \/ job[n].commit \/ n \in job[c].calls \cup unreached

Membership ==
  \/ ~started /\ unreached = {} /\ \E old \in NodeList : config = Members(old)
  \/ started /\ \E old, new \in NodeList, c \in Node : Change(old, new, c)

LEMMA Numbers ==
  /\ 0 \notin Node /\ migrate \notin Node /\ client \notin Node /\ NoKey \notin Key
  /\ Node \subseteq Requester /\ client \in Requester /\ migrate \in Requester /\ client # migrate
  /\ MaxEvents \in Nat
BY NodeAssumption, KeyAssumption, EventsAssumption
   DEF migrate, client, NoKey, Slot, Requester

(* A handler at rest, and the handlers that are started. *)
LEMMA NoJobFields ==
  /\ NoJob \in Job
  /\ NoJob.kind = "none" /\ NoJob.nodes = {} /\ NoJob.calls = {} /\ NoJob.awaits = 0
  /\ NoJob.leaving = 0 /\ NoJob.listed = {} /\ NoJob.taking = NoKey /\ NoJob.hand = {}
  /\ NoJob.commit = FALSE
BY Zenon DEF NoJob, Job

LEMMA SyncJob ==
  ASSUME NEW p \in Node, NEW nodes \in SUBSET Node
  PROVE  /\ sync_job(p, nodes) \in Job /\ sync_job(p, nodes).kind = "SYNC"
         /\ sync_job(p, nodes).nodes = nodes /\ sync_job(p, nodes).calls = {}
         /\ sync_job(p, nodes).leaving = 0 /\ sync_job(p, nodes).taking = NoKey
         /\ sync_job(p, nodes).commit = TRUE
<1> DEFINE K == outbound(p, nodes)
<1>1. K \subseteq Key
  BY Zenon DEF outbound
<1>2. sync_job(p, nodes) = [NoJob EXCEPT !.kind = "SYNC", !.nodes = nodes, !.keys = K, !.commit = TRUE]
  BY Zenon DEF sync_job
<1> HIDE DEF K
<1>3. sync_job(p, nodes) = [kind |-> "SYNC", nodes |-> nodes, calls |-> {}, awaits |-> 0, leaving |-> 0,
          keys |-> K, listed |-> {}, taking |-> NoKey, hand |-> {}, commit |-> TRUE]
  BY <1>2, Zenon DEF NoJob
<1> QED BY <1>1, <1>3 DEF Job

LEMMA DrainJob ==
  ASSUME NEW p \in Node, NEW nodes \in SUBSET Node
  PROVE  /\ drain_job(p, nodes) \in Job /\ drain_job(p, nodes).kind = "DRAIN"
         /\ drain_job(p, nodes).nodes = nodes /\ drain_job(p, nodes).calls = {}
         /\ drain_job(p, nodes).leaving = 0 /\ drain_job(p, nodes).taking = NoKey
         /\ drain_job(p, nodes).commit = FALSE
<1> DEFINE K == {k \in Key : is_mine(config[p], p, k) /\ node_for_slot(nodes, k) # p}
<1>1. K \subseteq Key
  BY Zenon
<1>2. drain_job(p, nodes) = [NoJob EXCEPT !.kind = "DRAIN", !.nodes = nodes, !.keys = K]
  BY Zenon DEF drain_job
<1> HIDE DEF K
<1>3. drain_job(p, nodes) = [kind |-> "DRAIN", nodes |-> nodes, calls |-> {}, awaits |-> 0, leaving |-> 0,
          keys |-> K, listed |-> {}, taking |-> NoKey, hand |-> {}, commit |-> FALSE]
  BY <1>2, Zenon DEF NoJob
<1> QED BY <1>1, <1>3 DEF Job

(* The commands a requester has out. *)
LEMMA NoRequestFields ==
  /\ NoRequest \in Request /\ NoRequest.pc = "none" /\ NoRequest.key = NoKey
<1>1. 0 \in Version
  BY EventsAssumption DEF Version
<1> QED BY <1>1, Zenon DEF NoRequest, Request

(* The node a call goes to is one of those to be called. *)
LEMMA CallInCalls ==
  ASSUME Typed, NEW n \in Node, job[n].calls # {}
  PROVE  next_call(n) \in job[n].calls
<1> DEFINE fresh == job[n].calls \ config[n]
           peers == job[n].calls \ {job[n].leaving}
<1>1. job[n].calls \in SUBSET Node
  BY Zenon DEF Typed, Job
<1>2. fresh # {} => Min(fresh) \in fresh
  <2>1. fresh \in SUBSET Node
    BY <1>1, Zenon
  <2> HIDE DEF fresh
  <2> QED BY <2>1, FirstListed, Zenon
<1>3. peers # {} => Min(peers) \in peers
  <2>1. peers \in SUBSET Node
    BY <1>1, Zenon
  <2> HIDE DEF peers
  <2> QED BY <2>1, FirstListed, Zenon
<1>4. next_call(n) = IF job[n].kind = "MEET" /\ fresh # {} THEN Min(fresh)
                     ELSE IF peers # {} THEN Min(peers) ELSE job[n].leaving
  BY Zenon DEF next_call
<1>5. CASE job[n].kind = "MEET" /\ fresh # {}
  BY <1>2, <1>4, <1>5, Zenon
<1>6. CASE ~(job[n].kind = "MEET" /\ fresh # {}) /\ peers # {}
  BY <1>3, <1>4, <1>6, Zenon
<1>7. CASE ~(job[n].kind = "MEET" /\ fresh # {}) /\ peers = {}
  BY <1>4, <1>7, Zenon
<1> QED BY <1>5, <1>6, <1>7, Zenon

(* A call does not go to a node with a handler, such as the caller. *)
LEMMA SendSteps ==
  ASSUME Typed, Listed, NEW n \in Node, send_internal(n)
  PROVE  /\ next_call(n) \in Node \ {n} /\ next_call(n) \in job[n].calls
         /\ job[next_call(n)] = NoJob
         /\ job[n].kind # "none" /\ job[n].nodes \in NodeList
         /\ job' = [job EXCEPT
              ![n] = [job[n] EXCEPT !.calls = @ \ {next_call(n)}, !.awaits = next_call(n)],
              ![next_call(n)] = IF next_call(n) = job[n].leaving
                                THEN drain_job(next_call(n), job[n].nodes)
                                ELSE sync_job(next_call(n), job[n].nodes)]
<1> DEFINE p == next_call(n)
<1>1. job[n].calls # {} /\ job[p] = NoJob
  BY Zenon DEF send_internal
<1>2. p \in job[n].calls
  BY <1>1, CallInCalls, Zenon
<1>3. p \in Node
  BY <1>2, Zenon DEF Typed, Job
<1>4. p # n
  BY <1>1, NoJobFields, Zenon
<1>5. job[n].kind # "none" /\ job[n].nodes \in NodeList
  BY <1>1, NoJobFields, Zenon DEF Listed
<1>6. job \in [Node -> Job]
  BY Zenon DEF Typed
<1>7. job' = [job EXCEPT ![n].calls = @ \ {p}, ![n].awaits = p,
                 ![p] = IF p = job[n].leaving THEN drain_job(p, job[n].nodes)
                                              ELSE sync_job(p, job[n].nodes)]
  BY Zenon DEF send_internal
<1> DEFINE d == drain_job(p, job[n].nodes)
           s == sync_job(p, job[n].nodes)
<1> HIDE DEF p, d, s
<1>8. job' = [job EXCEPT ![n] = [job[n] EXCEPT !.calls = @ \ {p}, !.awaits = p],
                         ![p] = IF p = job[n].leaving THEN d ELSE s]
  BY <1>3, <1>4, <1>6, <1>7, Zenon DEF d, s
<1> QED BY <1>1, <1>2, <1>3, <1>4, <1>5, <1>8, Zenon DEF p, d, s

LEMMA SendFailsSteps ==
  ASSUME Typed, Listed, NEW n \in Node, send_internal_fails(n)
  PROVE  /\ next_call(n) \in job[n].calls /\ job[n].kind # "none"
         /\ job' = [job EXCEPT ![n] = [job[n] EXCEPT !.calls = @ \ {next_call(n)}]]
         /\ unreached' = unreached \cup {next_call(n)}
<1> DEFINE p == next_call(n)
<1>1. job[n].calls # {} /\ unreached' = unreached \cup {p} /\ job' = [job EXCEPT ![n].calls = @ \ {p}]
  BY Zenon DEF send_internal_fails
<1>2. p \in job[n].calls
  BY <1>1, CallInCalls, Zenon
<1>3. job[n].kind # "none"
  BY <1>1, NoJobFields, Zenon DEF Listed
<1>4. job \in [Node -> Job]
  BY Zenon DEF Typed
<1> HIDE DEF p
<1>5. job' = [job EXCEPT ![n] = [job[n] EXCEPT !.calls = @ \ {p}]]
  BY <1>1, <1>4, Zenon
<1> QED BY <1>1, <1>2, <1>3, <1>5, Zenon DEF p

-----------------------------------------------------------------------------
(* Every step keeps handlers and commands well formed *)

LEMMA RequestTyped ==
  ASSUME Typed, NEW r \in Requester, NEW q \in Request, Sent(q),
         request' = [request EXCEPT ![r] = q]
  PROVE  request' \in [Requester -> Request] /\ \A x \in Requester : Sent(request'[x])
<1>1. request \in [Requester -> Request] /\ \A x \in Requester : Sent(request[x])
  BY Zenon DEF Typed
<1>2. request' \in [Requester -> Request]
  BY <1>1, Zenon
<1>3. ASSUME NEW x \in Requester PROVE Sent(request'[x])
  <2>1. request'[x] = q \/ request'[x] = request[x]
    BY <1>1, Zenon
  <2> QED BY <1>1, <2>1, Zenon
<1> QED BY <1>2, <1>3, Zenon

LEMMA NoRequestSent == Sent(NoRequest)
BY NoRequestFields, Zenon DEF Sent

(* The node a key belongs to. *)
LEMMA TargetTyped ==
  ASSUME NEW nodes \in NodeList, NEW k \in Key
  PROVE  node_for_slot(nodes, k) \in Node
BY ForwardedToOwner, KeyAssumption, Zenon DEF NodeList

LEMMA MeetTyped ==
  ASSUME Typed, NEW n \in Node, NEW new \in Node, meet(n, new)
  PROVE  Typed'
<1> DEFINE nodes == config[n] \cup {new}
           K == outbound(n, nodes)
           j == [NoJob EXCEPT !.kind = "MEET", !.nodes = nodes, !.calls = nodes \ {n},
                              !.keys = K, !.commit = TRUE]
<1>1. nodes \in SUBSET Node /\ K \in SUBSET Key
  BY Zenon DEF meet, NodeList, outbound
<1>2. j \in Job
  <2> HIDE DEF nodes, K
  <2> QED BY <1>1, Zenon DEF NoJob, Job
<1>3. job' = [job EXCEPT ![n] = j]
  BY Zenon DEF meet
<1> HIDE DEF j
<1>4. job' \in [Node -> Job]
  BY <1>2, <1>3, Zenon DEF Typed
<1> QED BY <1>4, Zenon DEF Typed, meet, moving, events, Sent

LEMMA ForgetTyped ==
  ASSUME Typed, Listed, NEW n \in Node, NEW leaving \in Node, forget(n, leaving)
  PROVE  Typed'
<1> DEFINE nodes == config[n] \ {leaving}
           j == [NoJob EXCEPT !.kind = "FORGET", !.nodes = nodes, !.calls = config[n] \ {n},
                              !.leaving = leaving]
<1>1. config[n] \in NodeList /\ config \in [Node -> NodeList]
  BY Zenon DEF Typed
<1>2. nodes \in NodeList
  <2>1. IsFiniteSet(config[n])
    BY <1>1, NodeAssumption, FS_Subset, Zenon DEF NodeList
  <2>2. Cardinality(nodes) <= Cardinality(config[n])
    BY <2>1, FS_Subset, Zenon
  <2>3. Cardinality(nodes) \in Nat /\ Cardinality(config[n]) \in Nat
    BY <2>1, FS_Subset, FS_CardinalityType, Zenon
  <2>4. n \in nodes
    BY Zenon DEF Listed, forget
  <2> QED BY <1>1, <2>2, <2>3, <2>4, SlotsAssumption DEF NodeList
<1>3. j \in Job
  <2>1. nodes \in SUBSET Node /\ config[n] \ {n} \in SUBSET Node
    BY <1>1, Zenon DEF NodeList
  <2> HIDE DEF nodes
  <2> QED BY <2>1, Zenon DEF NoJob, Job
<1>4. job' = [job EXCEPT ![n] = j] /\ config' = [config EXCEPT ![n] = nodes]
  BY Zenon DEF forget
<1> HIDE DEF j, nodes
<1>5. job' \in [Node -> Job]
  BY <1>3, <1>4, Zenon DEF Typed
<1>6. config' \in [Node -> NodeList]
  BY <1>1, <1>2, <1>4, Zenon
<1> QED BY <1>5, <1>6, Zenon DEF Typed, forget, moving, events, Sent

LEMMA SendTyped ==
  ASSUME Typed, Listed, NEW n \in Node, send_internal(n)
  PROVE  Typed'
<1> DEFINE p == next_call(n)
           j == [job[n] EXCEPT !.calls = @ \ {p}, !.awaits = p]
           h == IF p = job[n].leaving THEN drain_job(p, job[n].nodes) ELSE sync_job(p, job[n].nodes)
<1>1. p \in Node /\ job[n].nodes \in NodeList /\ job' = [job EXCEPT ![n] = j, ![p] = h]
  BY SendSteps, Zenon
<1>2. h \in Job
  BY <1>1, SyncJob, DrainJob, Zenon DEF NodeList
<1>3. j \in Job
  <2>1. job[n] \in Job
    BY Zenon DEF Typed
  <2> HIDE DEF p
  <2> QED BY <1>1, <2>1, Zenon DEF Job
<1> HIDE DEF p, j, h
<1>4. job' \in [Node -> Job]
  BY <1>1, <1>2, <1>3, Zenon DEF Typed
<1> QED BY <1>4, Zenon DEF Typed, send_internal, moving, events, Sent

(* The events stay within their bound when an event is counted. *)
LEMMA Counted ==
  ASSUME Typed, more_events
  PROVE  puts + timeouts + migrates + 1 <= MaxEvents
<1>1. \A e \in {0, 1} : puts + timeouts + migrates + e < MaxEvents => puts + timeouts + migrates + 1 <= MaxEvents
  BY EventsAssumption DEF Typed
<1>2. (IF failed THEN 1 ELSE 0) \in {0, 1}
  OBVIOUS
<1> QED BY <1>1, <1>2, Zenon DEF more_events

LEMMA SendFailsTyped ==
  ASSUME Typed, Listed, NEW n \in Node, send_internal_fails(n)
  PROVE  Typed'
<1> DEFINE p == next_call(n)
           j == [job[n] EXCEPT !.calls = @ \ {p}]
<1>1. p \in job[n].calls /\ job' = [job EXCEPT ![n] = j] /\ unreached' = unreached \cup {p}
  BY SendFailsSteps, Zenon
<1>2. job \in [Node -> Job] /\ job[n] \in Job
  BY Zenon DEF Typed
<1>3. p \in Node
  BY <1>1, <1>2, Zenon DEF Job
<1> HIDE DEF p
<1>4. j \in Job
  BY <1>2, Zenon DEF Job
<1> HIDE DEF j
<1>5. job' \in [Node -> Job] /\ unreached' \in SUBSET Node
  BY <1>1, <1>2, <1>3, <1>4, Zenon DEF Typed
<1>6. puts' = puts /\ migrates' = migrates /\ more_events /\ timeouts' = timeouts + 1
  BY Zenon DEF send_internal_fails, moving
<1>7. timeouts' \in Nat /\ puts' + timeouts' + migrates' <= MaxEvents
  BY <1>6, Counted DEF Typed
<1> QED BY <1>5, <1>6, <1>7, Zenon DEF Typed, send_internal_fails, moving, Sent

LEMMA AnsweredTyped ==
  ASSUME Typed, NEW n \in Node, answered(n)
  PROVE  Typed'
<1> DEFINE j == [job[n] EXCEPT !.awaits = 0]
<1>1. job \in [Node -> Job] /\ job[n] \in Job
  BY Zenon DEF Typed
<1>2. job' = [job EXCEPT ![n] = j]
  BY <1>1, Zenon DEF answered
<1>3. j \in Job
  BY <1>1, Zenon DEF Job
<1> HIDE DEF j
<1>4. job' \in [Node -> Job]
  BY <1>1, <1>2, <1>3, Zenon
<1>5. /\ puts' = puts /\ failed' = failed /\ migrates' = migrates
      /\ timeouts' \in Nat /\ puts + timeouts' + migrates <= MaxEvents
  <2>1. timeouts' = timeouts \/ (more_events /\ timeouts' = timeouts + 1)
    BY Zenon DEF answered
  <2>2. puts' = puts /\ failed' = failed /\ migrates' = migrates
    BY Zenon DEF answered, moving
  <2>3. CASE timeouts' = timeouts
    BY <2>2, <2>3, Zenon DEF Typed
  <2>4. CASE more_events /\ timeouts' = timeouts + 1
    BY <2>2, <2>4, Counted DEF Typed
  <2> QED BY <2>1, <2>3, <2>4, Zenon
<1> QED BY <1>4, <1>5, Zenon DEF Typed, answered, moving, Sent

LEMMA ListKeysTyped ==
  ASSUME Typed, NEW n \in Node, NEW t \in Node, list_keys(n, t)
  PROVE  Typed'
<1> DEFINE mine == {k \in job[n].keys : target(n, k) = t}
           L == {k \in mine : store[n][k] # 0}
           j == [job[n] EXCEPT !.keys = @ \ mine, !.listed = L]
<1>1. job \in [Node -> Job] /\ job[n] \in Job
  BY Zenon DEF Typed
<1>2. job' = [job EXCEPT ![n].keys = @ \ mine, ![n].listed = L]
  BY Zenon DEF list_keys
<1>3. mine \in SUBSET Key /\ L \in SUBSET Key
  BY <1>1, Zenon DEF Job
<1> HIDE DEF mine, L
<1>4. job' = [job EXCEPT ![n] = j]
  BY <1>1, <1>2, Zenon
<1>5. j \in Job
  BY <1>1, <1>3, Zenon DEF Job
<1> HIDE DEF j
<1>6. job' \in [Node -> Job]
  BY <1>1, <1>4, <1>5, Zenon
<1> QED BY <1>6, Zenon DEF Typed, list_keys, moving, events, Sent

(* What a step of drain_slots makes of the handler. *)
LEMMA TakeSteps ==
  ASSUME Typed, NEW n \in Node, NEW k \in Key, take(n, k)
  PROVE  job' = [job EXCEPT ![n] =
                   IF store[n][k] = 0 THEN [job[n] EXCEPT !.listed = @ \ {k}]
                   ELSE [job[n] EXCEPT !.taking = k, !.hand = @ \cup {<<k, store[n][k]>>}]]
<1>1. job \in [Node -> Job] /\ job[n] \in Job
  BY Zenon DEF Typed
<1>2. CASE store[n][k] = 0
  <2>1. job' = [job EXCEPT ![n].listed = @ \ {k}]
    BY <1>2, Zenon DEF take
  <2> QED BY <1>1, <1>2, <2>1, Zenon
<1>3. CASE store[n][k] # 0
  <2>1. job' = [job EXCEPT ![n].taking = k, ![n].hand = @ \cup {<<k, store[n][k]>>}]
    BY <1>3, Zenon DEF take
  <2> QED BY <1>1, <1>3, <2>1, Zenon
<1> QED BY <1>2, <1>3, Zenon

LEMMA TakeTyped ==
  ASSUME Typed, NEW n \in Node, NEW k \in Key, take(n, k)
  PROVE  Typed'
<1> DEFINE a == [job[n] EXCEPT !.listed = @ \ {k}]
           b == [job[n] EXCEPT !.taking = k, !.hand = @ \cup {<<k, store[n][k]>>}]
<1>1. job \in [Node -> Job] /\ job[n] \in Job /\ store[n][k] \in Version
  BY Zenon DEF Typed
<1>2. a \in Job
  BY <1>1, Zenon DEF Job
<1>3. store[n][k] # 0 => b \in Job
  <2> DEFINE H == job[n].hand \cup {<<k, store[n][k]>>}
  <2>1. store[n][k] # 0 => H \in SUBSET (Key \X (Version \ {0}))
    BY <1>1 DEF Job
  <2>2. b = [job[n] EXCEPT !.taking = k, !.hand = H]
    BY Zenon
  <2> HIDE DEF H, b
  <2> QED BY <1>1, <2>1, <2>2, Zenon DEF Job
<1>4. job' = [job EXCEPT ![n] = IF store[n][k] = 0 THEN a ELSE b]
  BY TakeSteps, Zenon
<1> HIDE DEF a, b
<1>5. job' \in [Node -> Job]
  BY <1>1, <1>2, <1>3, <1>4, Zenon
<1> QED BY <1>5, Zenon DEF Typed, take, moving, events, Sent

LEMMA DelTyped ==
  ASSUME Typed, NEW n \in Node, del(n)
  PROVE  Typed'
<1> DEFINE k == job[n].taking
           j == [job[n] EXCEPT !.listed = @ \ {k}, !.taking = NoKey]
<1>1. job \in [Node -> Job] /\ job[n] \in Job
  BY Zenon DEF Typed
<1>2. k \in Key
  BY <1>1, Zenon DEF del, Job
<1>3. job' = [job EXCEPT ![n].listed = @ \ {k}, ![n].taking = NoKey] /\ store' = [store EXCEPT ![n][k] = 0]
  BY Zenon DEF del
<1> HIDE DEF k
<1>4. job' = [job EXCEPT ![n] = j]
  BY <1>1, <1>3, Zenon
<1>5. j \in Job
  BY <1>1, Zenon DEF Job
<1> HIDE DEF j
<1>6. job' \in [Node -> Job]
  BY <1>1, <1>4, <1>5, Zenon
<1>7. store' \in [Node -> [Key -> Version]]
  <2>1. 0 \in Version
    BY EventsAssumption DEF Version
  <2> QED BY <1>2, <1>3, <2>1, Zenon DEF Typed
<1> QED BY <1>6, <1>7, Zenon DEF Typed, del, moving, events, Sent

LEMMA PushTyped ==
  ASSUME Typed, Listed, NEW n \in Node, NEW k \in Key, NEW v \in Version, push(n, k, v)
  PROVE  Typed'
<1> DEFINE j == [job[n] EXCEPT !.hand = @ \ {<<k, v>>}]
           q == [pc |-> "route", key |-> k, version |-> v, at |-> target(n, k)]
<1>1. job \in [Node -> Job] /\ job[n] \in Job
  BY Zenon DEF Typed
<1>2. <<k, v>> \in job[n].hand
  BY Zenon DEF push
<1>3. v # 0
  BY <1>1, <1>2, Zenon DEF Job
<1>4. job[n].nodes \in NodeList
  BY <1>2, NoJobFields, Zenon DEF Listed
<1>5. target(n, k) \in Node
  BY <1>4, TargetTyped, Zenon DEF target
<1>6. q \in Request /\ Sent(q)
  BY <1>3, <1>5, Zenon DEF Request, Sent
<1>7. request' = [request EXCEPT ![n] = q]
  BY Zenon DEF push
<1> HIDE DEF q
<1>8. request' \in [Requester -> Request] /\ \A x \in Requester : Sent(request'[x])
  BY <1>6, <1>7, RequestTyped, Numbers, Zenon
<1>9. job' = [job EXCEPT ![n] = j]
  BY <1>1, Zenon DEF push
<1>10. j \in Job
  BY <1>1, Zenon DEF Job
<1> HIDE DEF j
<1>11. job' \in [Node -> Job]
  BY <1>1, <1>9, <1>10, Zenon
<1> QED BY <1>8, <1>11, Zenon DEF Typed, push, moving, events

LEMMA FinishTyped ==
  ASSUME Typed, Listed, NEW n \in Node, finish(n)
  PROVE  Typed'
<1>1. job' = [job EXCEPT ![n] = NoJob]
  BY Zenon DEF finish
<1>2. job' \in [Node -> Job]
  BY <1>1, NoJobFields, Zenon DEF Typed
<1>3. job[n].nodes \in NodeList
  BY Zenon DEF finish, called, Listed
<1>4. config' \in [Node -> NodeList]
  BY <1>3, Zenon DEF finish, Typed
<1> QED BY <1>2, <1>4, Zenon DEF Typed, finish, moving, events, Sent

LEMMA PutTyped ==
  ASSUME Typed, NEW k \in Key, NEW n \in Node, put(k, n)
  PROVE  Typed'
<1> DEFINE q == [pc |-> "route", key |-> k, version |-> puts + 2, at |-> n]
<1>1. /\ puts' = puts + 1 /\ timeouts' = timeouts /\ failed' = failed /\ migrates' = migrates
      /\ more_events
  BY Zenon DEF put, moving
<1>2. puts' \in Nat /\ puts' + timeouts' + migrates' <= MaxEvents
  BY <1>1, Counted DEF Typed
<1>3. puts + 2 \in Version \ {0}
  BY <1>1, Counted, EventsAssumption DEF Typed, Version
<1>4. q \in Request /\ Sent(q)
  BY <1>3, Zenon DEF Request, Sent
<1>5. request' = [request EXCEPT ![client] = q]
  BY Zenon DEF put
<1> HIDE DEF q
<1>6. request' \in [Requester -> Request] /\ \A x \in Requester : Sent(request'[x])
  BY <1>4, <1>5, RequestTyped, Numbers, Zenon
<1> QED BY <1>1, <1>2, <1>6, Zenon DEF Typed, put, moving

(* The command a node executes or sends on. *)
LEMMA RouteTyped ==
  ASSUME Typed, NEW r \in Requester, route(r)
  PROVE  Typed'
<1> DEFINE q == request[r]
           t == node_for_slot(config[q.at], q.key)
           mine == is_mine(config[q.at], q.at, q.key)
           a == [q EXCEPT !.pc = "execute"]
           b == [q EXCEPT !.at = t]
<1>1. request \in [Requester -> Request] /\ q \in Request /\ Sent(q) /\ q.pc = "route"
  BY Zenon DEF Typed, route
<1>2. q.key \in Key /\ q.version # 0 /\ q.at \in Node
  BY <1>1, Zenon DEF Sent
<1>3. t \in Node
  BY <1>2, TargetTyped, Zenon DEF Typed
<1>4. request' = IF mine THEN [request EXCEPT ![r].pc = "execute"] ELSE [request EXCEPT ![r].at = t]
  BY Zenon DEF route
<1> HIDE DEF t, mine
<1>5. request' = [request EXCEPT ![r] = IF mine THEN a ELSE b]
  BY <1>1, <1>4, Zenon
<1>6. a \in Request /\ Sent(a) /\ b \in Request /\ Sent(b)
  BY <1>1, <1>2, <1>3, Zenon DEF Request, Sent
<1> HIDE DEF a, b
<1>7. request' \in [Requester -> Request] /\ \A x \in Requester : Sent(request'[x])
  <2>1. CASE mine
    BY <1>5, <1>6, <2>1, RequestTyped, Zenon
  <2>2. CASE ~mine
    BY <1>5, <1>6, <2>2, RequestTyped, Zenon
  <2> QED BY <2>1, <2>2, Zenon
<1> QED BY <1>7, Zenon DEF Typed, route, moving, events

LEMMA ExecuteTyped ==
  ASSUME Typed, NEW r \in Requester, execute(r)
  PROVE  Typed'
<1> DEFINE q == request[r]
           a == [q EXCEPT !.pc = "answered"]
           e == IF r = migrate /\ source # 0 THEN a ELSE NoRequest
<1>1. request \in [Requester -> Request] /\ q \in Request /\ Sent(q) /\ q.pc = "execute"
  BY Zenon DEF Typed, execute
<1>2. q.key \in Key /\ q.version # 0 /\ q.at \in Node /\ q.version \in Version
  BY <1>1, Zenon DEF Sent, Request
<1>3. a \in Request /\ Sent(a)
  BY <1>1, <1>2, Zenon DEF Request, Sent
<1>4. e \in Request /\ Sent(e)
  BY <1>3, NoRequestFields, NoRequestSent, Zenon
<1>5. request' = [request EXCEPT ![r] = e]
  BY Zenon DEF execute
<1> HIDE DEF e, a
<1>6. request' \in [Requester -> Request] /\ \A x \in Requester : Sent(request'[x])
  BY <1>4, <1>5, RequestTyped, Zenon
<1>7. store' \in [Node -> [Key -> Version]]
  <2>1. store' = [store EXCEPT ![q.at][q.key] = q.version]
    BY Zenon DEF execute
  <2> HIDE DEF q
  <2> QED BY <1>2, <2>1, Zenon DEF Typed
<1>8. returned' \in BOOLEAN
  BY Zenon DEF execute
<1> QED BY <1>6, <1>7, <1>8, Zenon DEF Typed, execute, events

LEMMA RequestFailsTyped ==
  ASSUME Typed, NEW r \in Requester, request_fails(r)
  PROVE  Typed'
<1>1. request' \in [Requester -> Request] /\ \A x \in Requester : Sent(request'[x])
  BY NoRequestFields, NoRequestSent, RequestTyped, Zenon DEF request_fails
<1>2. /\ puts' = puts /\ timeouts' = timeouts /\ failed' = TRUE /\ migrates' = migrates
  BY Zenon DEF request_fails
<1>3. failed' \in BOOLEAN /\ puts' + timeouts' + migrates' <= MaxEvents
  BY <1>2 DEF Typed
<1>4. source' \in Node \cup {0}
  BY Zenon DEF request_fails, Typed
<1>5. job' \in [Node -> Job]
  <2>1. CASE job' = job
    BY <2>1, Zenon DEF Typed
  <2>2. CASE r \in Node /\ job' = [job EXCEPT ![r].hand = {}]
    <3> DEFINE j == [job[r] EXCEPT !.hand = {}]
    <3>1. job \in [Node -> Job] /\ job[r] \in Job
      BY <2>2, Zenon DEF Typed
    <3>2. j \in Job
      BY <3>1, Zenon DEF Job
    <3>3. job' = [job EXCEPT ![r] = j]
      BY <2>2, <3>1, Zenon
    <3> HIDE DEF j
    <3> QED BY <3>1, <3>2, <3>3, Zenon
  <2> QED BY <2>1, <2>2, Zenon DEF request_fails
<1> QED BY <1>1, <1>2, <1>3, <1>4, <1>5, Zenon DEF Typed, request_fails

LEMMA MigrateTyped ==
  ASSUME Typed, NEW n \in Node, NEW k \in Key, NEW t \in Node, cmd_migrate(n, k, t)
  PROVE  Typed'
<1> DEFINE q == [pc |-> "route", key |-> k, version |-> store[n][k], at |-> t]
<1>1. store[n][k] \in Version \ {0}
  BY Zenon DEF Typed, cmd_migrate
<1>2. q \in Request /\ Sent(q)
  BY <1>1, Zenon DEF Request, Sent
<1>3. request' = [request EXCEPT ![migrate] = q]
  BY Zenon DEF cmd_migrate
<1> HIDE DEF q
<1>4. request' \in [Requester -> Request] /\ \A x \in Requester : Sent(request'[x])
  BY <1>2, <1>3, RequestTyped, Numbers, Zenon
<1>5. /\ puts' = puts /\ timeouts' = timeouts /\ failed' = failed /\ migrates' = migrates + 1
      /\ unreached' = unreached /\ more_events
  BY Zenon DEF cmd_migrate, events
<1>6. migrates' \in Nat /\ puts' + timeouts' + migrates' <= MaxEvents
  BY <1>5, Counted DEF Typed
<1> QED BY <1>4, <1>5, <1>6, Zenon DEF Typed, cmd_migrate

LEMMA MigratedTyped ==
  ASSUME Typed, migrated
  PROVE  Typed'
<1>1. CASE request[migrate].pc = "answered" /\ request' = [request EXCEPT ![migrate] = NoRequest]
           /\ (store' = [store EXCEPT ![source][request[migrate].key] = 0] \/ store' = store)
           /\ timeouts' = timeouts
  <2>1. request' \in [Requester -> Request] /\ \A x \in Requester : Sent(request'[x])
    BY <1>1, NoRequestFields, NoRequestSent, RequestTyped, Numbers, Zenon
  <2>2. store' \in [Node -> [Key -> Version]]
    <3>1. 0 \in Version
      BY EventsAssumption DEF Version
    <3> DEFINE k == request[migrate].key
    <3>2. source \in Node
      BY Zenon DEF Typed, migrated
    <3>3. k \in Key
      <4>1. Sent(request[migrate])
        BY Numbers, Zenon DEF Typed
      <4> QED BY <1>1, <4>1, Zenon DEF Sent
    <3>4. store' = [store EXCEPT ![source][k] = 0] \/ store' = store
      BY <1>1, Zenon
    <3>5. store \in [Node -> [Key -> Version]]
      BY Zenon DEF Typed
    <3> HIDE DEF k
    <3>6. CASE store' = [store EXCEPT ![source][k] = 0]
      BY <3>1, <3>2, <3>3, <3>5, <3>6, Zenon
    <3> QED BY <3>4, <3>5, <3>6, Zenon
  <2> QED BY <1>1, <2>1, <2>2, Zenon DEF Typed, migrated
<1>2. CASE more_events /\ timeouts' = timeouts + 1 /\ store' = store /\ request' = request
  <2>1. puts' = puts /\ failed' = failed /\ migrates' = migrates
    BY Zenon DEF migrated
  <2>2. timeouts' \in Nat /\ puts' + timeouts' + migrates' <= MaxEvents
    BY <1>2, <2>1, Counted DEF Typed
  <2> QED BY <1>2, <2>1, <2>2, Zenon DEF Typed, migrated, Sent
<1> QED BY <1>1, <1>2, Zenon DEF migrated

LEMMA NextTyped ==
  ASSUME Typed, Listed, [Next]_vars
  PROVE  Typed'
<1>1. CASE UNCHANGED vars
  BY <1>1, Zenon DEF Typed, vars, Sent
<1>2. ASSUME NEW n \in Node, Handler(n) PROVE Typed'
  BY <1>2, SendTyped, AnsweredTyped, FinishTyped, DelTyped, ListKeysTyped, TakeTyped, PushTyped
    , Zenon DEF Handler
<1>3. ASSUME NEW n \in Node, NEW m \in Node, meet(n, m) \/ forget(n, m) PROVE Typed'
  BY <1>3, MeetTyped, ForgetTyped, Zenon
<1>4. ASSUME NEW r \in Requester, route(r) \/ execute(r) \/ request_fails(r) PROVE Typed'
  BY <1>4, RouteTyped, ExecuteTyped, RequestFailsTyped, Zenon
<1>5. ASSUME NEW k \in Key, NEW n \in Node, put(k, n) PROVE Typed'
  BY <1>5, PutTyped, Zenon
<1>6. ASSUME NEW n \in Node, NEW k \in Key, NEW t \in Node, cmd_migrate(n, k, t) PROVE Typed'
  BY <1>6, MigrateTyped, Zenon
<1>7. ASSUME NEW n \in Node, send_internal_fails(n) PROVE Typed'
  BY <1>7, SendFailsTyped, Zenon
<1> QED BY <1>1, <1>2, <1>3, <1>4, <1>5, <1>6, <1>7, MigratedTyped, Zenon DEF Next

-----------------------------------------------------------------------------
(* The change of the node list *)

(* A step that leaves the node lists, and who has to be sent one, as they  *)
(* are.                                                                    *)
Framed ==
  /\ config' = config /\ started' = started /\ unreached' = unreached
  /\ \A n \in Node :
       /\ job[n].kind = "none" => job'[n] = job[n]
       /\ job'[n].kind = job[n].kind /\ job'[n].nodes = job[n].nodes
       /\ job'[n].calls = job[n].calls /\ job'[n].leaving = job[n].leaving
       /\ job'[n].commit = job[n].commit

LEMMA FramedOne ==
  ASSUME Typed, NEW n \in Node, NEW j, job' = [job EXCEPT ![n] = j], job[n].kind # "none",
         j.kind = job[n].kind, j.nodes = job[n].nodes, j.calls = job[n].calls,
         j.leaving = job[n].leaving, j.commit = job[n].commit,
         config' = config, started' = started, unreached' = unreached
  PROVE  Framed
<1>1. job'[n] = j /\ \A m \in Node : m # n => job'[m] = job[m]
  BY Zenon DEF Typed
<1> QED BY <1>1, Zenon DEF Framed

(* The steps of a handler but its first and its last, and all commands. *)
LEMMA HandlerFramed ==
  ASSUME Typed, Listed, NEW n \in Node,
         \/ answered(n) \/ del(n) \/ \E t \in Node : list_keys(n, t)
         \/ \E k \in Key : take(n, k) \/ \E v \in Version : push(n, k, v)
  PROVE  Framed
<1>1. job \in [Node -> Job] /\ job[n] \in Job
  BY Zenon DEF Typed
<1>2. ASSUME answered(n) PROVE Framed
  <2> DEFINE j == [job[n] EXCEPT !.awaits = 0]
  <2>1. job[n].kind # "none"
    BY <1>2, NoJobFields, Zenon DEF answered, Listed
  <2>2. job' = [job EXCEPT ![n] = j]
    BY <1>1, <1>2, Zenon DEF answered
  <2>3. /\ j.kind = job[n].kind /\ j.nodes = job[n].nodes /\ j.calls = job[n].calls
        /\ j.leaving = job[n].leaving /\ j.commit = job[n].commit
    BY <1>1, Zenon DEF Job
  <2>4. config' = config /\ started' = started /\ unreached' = unreached
    BY <1>2, Zenon DEF answered, events
  <2> HIDE DEF j
  <2> QED BY <2>1, <2>2, <2>3, <2>4, FramedOne, Zenon
<1>3. ASSUME del(n) PROVE Framed
  <2> DEFINE k == job[n].taking
             j == [job[n] EXCEPT !.listed = @ \ {k}, !.taking = NoKey]
  <2>1. job[n].kind # "none"
    BY <1>3, NoJobFields, Zenon DEF del, Listed
  <2>2. job' = [job EXCEPT ![n] = j]
    BY <1>1, <1>3, Zenon DEF del
  <2>3. /\ j.kind = job[n].kind /\ j.nodes = job[n].nodes /\ j.calls = job[n].calls
        /\ j.leaving = job[n].leaving /\ j.commit = job[n].commit
    BY <1>1, Zenon DEF Job
  <2>4. config' = config /\ started' = started /\ unreached' = unreached
    BY <1>3, Zenon DEF del, events
  <2> HIDE DEF j
  <2> QED BY <2>1, <2>2, <2>3, <2>4, FramedOne, Zenon
<1>4. ASSUME NEW t \in Node, list_keys(n, t) PROVE Framed
  <2> DEFINE mine == {k \in job[n].keys : target(n, k) = t}
             L == {k \in mine : store[n][k] # 0}
             j == [job[n] EXCEPT !.keys = @ \ mine, !.listed = L]
  <2>1. job[n].kind # "none"
    BY <1>4, Zenon DEF list_keys, called
  <2>2. job' = [job EXCEPT ![n].keys = @ \ mine, ![n].listed = L]
    BY <1>4, Zenon DEF list_keys
  <2> HIDE DEF mine, L
  <2>3. job' = [job EXCEPT ![n] = j]
    BY <1>1, <2>2, Zenon
  <2>4. /\ j.kind = job[n].kind /\ j.nodes = job[n].nodes /\ j.calls = job[n].calls
        /\ j.leaving = job[n].leaving /\ j.commit = job[n].commit
    BY <1>1, Zenon DEF Job
  <2>5. config' = config /\ started' = started /\ unreached' = unreached
    BY <1>4, Zenon DEF list_keys, events
  <2> HIDE DEF j
  <2> QED BY <2>1, <2>3, <2>4, <2>5, FramedOne, Zenon
<1>5. ASSUME NEW k \in Key, take(n, k) PROVE Framed
  <2> DEFINE a == [job[n] EXCEPT !.listed = @ \ {k}]
             b == [job[n] EXCEPT !.taking = k, !.hand = @ \cup {<<k, store[n][k]>>}]
             j == IF store[n][k] = 0 THEN a ELSE b
  <2>1. job[n].kind # "none"
    BY <1>5, NoJobFields, Zenon DEF take, Listed
  <2>2. job' = [job EXCEPT ![n] = j]
    BY <1>5, TakeSteps, Zenon
  <2>3. \A i \in {a, b} : /\ i.kind = job[n].kind /\ i.nodes = job[n].nodes /\ i.calls = job[n].calls
                          /\ i.leaving = job[n].leaving /\ i.commit = job[n].commit
    BY <1>1, Zenon DEF Job
  <2>4. config' = config /\ started' = started /\ unreached' = unreached
    BY <1>5, Zenon DEF take, events
  <2> HIDE DEF a, b
  <2>5. j \in {a, b}
    BY Zenon
  <2> HIDE DEF j
  <2> QED BY <2>1, <2>2, <2>3, <2>4, <2>5, FramedOne, Zenon
<1>6. ASSUME NEW k \in Key, NEW v \in Version, push(n, k, v) PROVE Framed
  <2> DEFINE j == [job[n] EXCEPT !.hand = @ \ {<<k, v>>}]
  <2>1. job[n].kind # "none"
    BY <1>6, NoJobFields, Zenon DEF push, Listed
  <2>2. job' = [job EXCEPT ![n] = j]
    BY <1>1, <1>6, Zenon DEF push
  <2>3. /\ j.kind = job[n].kind /\ j.nodes = job[n].nodes /\ j.calls = job[n].calls
        /\ j.leaving = job[n].leaving /\ j.commit = job[n].commit
    BY <1>1, Zenon DEF Job
  <2>4. config' = config /\ started' = started /\ unreached' = unreached
    BY <1>6, Zenon DEF push, events
  <2> HIDE DEF j
  <2> QED BY <2>1, <2>2, <2>3, <2>4, FramedOne, Zenon
<1> QED BY <1>2, <1>3, <1>4, <1>5, <1>6, Zenon

LEMMA CommandFramed ==
  ASSUME Typed, Listed,
         \/ \E k \in Key, n \in Node : put(k, n)
         \/ \E r \in Requester : route(r) \/ execute(r) \/ request_fails(r)
         \/ \E n \in Node, k \in Key, t \in Node : cmd_migrate(n, k, t)
         \/ migrated
  PROVE  Framed
<1>1. config' = config /\ started' = started /\ unreached' = unreached
  BY Zenon DEF put, route, execute, request_fails, cmd_migrate, migrated, events
<1>2. CASE job' = job
  BY <1>1, <1>2, Zenon DEF Framed
<1>3. ASSUME NEW r \in Node, job' = [job EXCEPT ![r].hand = {}] PROVE Framed
  <2> DEFINE j == [job[r] EXCEPT !.hand = {}]
  <2>1. job \in [Node -> Job] /\ job[r] \in Job
    BY Zenon DEF Typed
  <2>2. job' = [job EXCEPT ![r] = j]
    BY <1>3, <2>1, Zenon
  <2>3. CASE job[r].kind = "none"
    <3>1. job[r] = NoJob
      BY <2>3, Zenon DEF Listed
    <3>2. j = job[r]
      <4>1. job[r].hand = {}
        BY <3>1, NoJobFields, Zenon
      <4> QED BY <2>1, <4>1, Zenon DEF Job
    <3> HIDE DEF j
    <3>3. job' = job
      BY <2>1, <2>2, <3>2, Zenon
    <3> QED BY <1>1, <3>3, Zenon DEF Framed
  <2>4. CASE job[r].kind # "none"
    <3>1. /\ j.kind = job[r].kind /\ j.nodes = job[r].nodes /\ j.calls = job[r].calls
          /\ j.leaving = job[r].leaving /\ j.commit = job[r].commit
      BY <2>1, Zenon DEF Job
    <3> HIDE DEF j
    <3> QED BY <1>1, <2>2, <2>4, <3>1, FramedOne, Zenon
  <2> QED BY <2>3, <2>4, Zenon
<1>4. job' = job \/ \E r \in Node : job' = [job EXCEPT ![r].hand = {}]
  BY Zenon DEF put, route, execute, request_fails, cmd_migrate, migrated
<1> QED BY <1>2, <1>3, <1>4, Zenon

LEMMA FramedKeeps ==
  ASSUME Typed, Listed, Membership, Framed
  PROVE  Listed' /\ Membership'
<1>1. started' <=> started
  BY Zenon DEF Typed, Framed
<1>2. Listed'
  <2>1. \A n \in Node : n \in config'[n]
    BY Zenon DEF Listed, Framed
  <2>2. \A n \in Node : job'[n].kind # "none" => job'[n].nodes \in NodeList
    BY Zenon DEF Listed, Framed
  <2>3. \A n \in Node : job'[n].kind = "none" => job'[n] = NoJob
    BY Zenon DEF Listed, Framed
  <2>4. ~started' => \A n \in Node : job'[n] = NoJob
    BY <1>1, NoJobFields, Zenon DEF Listed, Framed
  <2> QED BY <2>1, <2>2, <2>3, <2>4, Zenon DEF Listed
<1>3. CASE ~started
  <2>1. PICK old \in NodeList : config = Members(old)
    BY <1>3, Zenon DEF Membership
  <2>2. config' = Members(old) /\ unreached' = {}
    BY <1>3, <2>1, Zenon DEF Framed, Membership
  <2> QED BY <1>1, <1>2, <1>3, <2>2, Zenon DEF Membership
<1>4. CASE started
  <2>1. PICK old \in NodeList, new \in NodeList, c \in Node : Change(old, new, c)
    BY <1>4, Zenon DEF Membership
  <2>2. Change(old, new, c)'
    <3>1. \A n \in Node : config'[n] \in {Members(old)[n], new}
      BY <2>1, Zenon DEF Change, Framed
    <3>2. \A n \in Node \ new : config'[n] = Members(old)[n]
      BY <2>1, Zenon DEF Change, Framed
    <3>3. \A n \in Node : job'[n].kind # "none" => job'[n].nodes = new
      BY <2>1, Zenon DEF Change, Framed
    <3>4. \A n \in Node : (job'[n].commit => n \in new) /\ (job'[n].calls # {} => n = c)
      BY <2>1, Zenon DEF Change, Framed
    <3>5. job'[c].leaving \notin new /\ job'[c].calls \ {job'[c].leaving} \subseteq new
      BY <2>1, Zenon DEF Change, Framed
    <3>7. job'[c].calls = job[c].calls /\ unreached' = unreached
      BY Zenon DEF Framed
    <3>8. /\ \A n \in unreached' : n \notin job'[c].calls
          /\ \A n \in job'[c].calls \cup unreached' : ~job'[n].commit /\ config'[n] = Members(old)[n]
      <4>1. job[c].calls \cup unreached \subseteq Node
        BY Zenon DEF Typed, Job
      <4>2. \A n \in Node : job'[n].commit = job[n].commit /\ config'[n] = config[n]
        BY Zenon DEF Framed
      <4> QED BY <2>1, <3>7, <4>1, <4>2, Zenon DEF Change
    <3>6. \A n \in new : config'[n] = new \/ job'[n].commit \/ n \in job'[c].calls \cup unreached'
      <4>1. new \subseteq Node
        BY Zenon DEF NodeList
      <4>2. \A n \in Node : job'[n].commit = job[n].commit /\ config'[n] = config[n]
        BY Zenon DEF Framed
      <4>4. \A n \in new : config[n] = new \/ job[n].commit \/ n \in job[c].calls \cup unreached
        BY <2>1, Zenon DEF Change
      <4> QED BY <3>7, <4>1, <4>2, <4>4, Zenon
    <3> QED BY <3>1, <3>2, <3>3, <3>4, <3>5, <3>6, <3>8, Zenon DEF Change
  <2> QED BY <1>1, <1>2, <1>4, <2>2, Zenon DEF Membership
<1> QED BY <1>2, <1>3, <1>4, Zenon

LEMMA MeetListed ==
  ASSUME Typed, Listed, Membership, NEW n \in Node, NEW m \in Node, meet(n, m)
  PROVE  Listed' /\ Membership'
<1>0. PICK new : new = config[n] \cup {m}
  BY Zenon
<1> DEFINE K == outbound(n, new)
           j == [NoJob EXCEPT !.kind = "MEET", !.nodes = new, !.calls = new \ {n},
                              !.keys = K, !.commit = TRUE]
<1>1. ~started /\ started' = TRUE /\ new \in NodeList /\ config' = config
      /\ job' = [job EXCEPT ![n] = j] /\ Cardinality(config[n]) > 1 /\ unreached' = {}
  BY <1>0, Zenon DEF meet, events, Membership
<1>2. PICK old \in NodeList : config = Members(old)
  BY <1>1, Zenon DEF Membership
<1>3. n \in old /\ config[n] = old
  <2>1. n \notin old => config[n] = {n}
    BY <1>2, Zenon DEF Members
  <2>2. Cardinality({n}) = 1
    BY FS_Singleton, Zenon
  <2>3. n \in old
    BY <1>1, <2>1, <2>2
  <2> QED BY <1>2, <2>3, Zenon DEF Members
<1>5. j.kind = "MEET" /\ j.nodes = new /\ j.calls = new \ {n} /\ j.leaving = 0 /\ j.commit = TRUE
  <2> HIDE DEF K
  <2> QED BY Zenon DEF NoJob
<1> HIDE DEF j
<1>6. job'[n] = j /\ \A x \in Node : x # n => job'[x] = NoJob
  BY <1>1, Zenon DEF Typed, Listed
<1>7. n \in new /\ new \subseteq Node /\ 0 \notin new
  BY <1>0, <1>1, <1>3, Numbers, Zenon DEF NodeList
<1>8. Listed'
  BY <1>1, <1>5, <1>6, NoJobFields, Zenon DEF Listed
<1>9. Change(old, new, n)'
  <2>1. \A x \in Node : config'[x] = Members(old)[x]
    BY <1>1, <1>2, Zenon
  <2>2. \A x \in Node : job'[x].kind # "none" => job'[x].nodes = new
    BY <1>5, <1>6, NoJobFields, Zenon
  <2>3. \A x \in Node : (job'[x].commit => x \in new) /\ (job'[x].calls # {} => x = n)
    BY <1>6, <1>7, NoJobFields, Zenon
  <2>4. job'[n].leaving \notin new /\ job'[n].calls \ {job'[n].leaving} \subseteq new
    BY <1>5, <1>6, <1>7, Zenon
  <2>5. \A x \in new : job'[x].commit \/ x \in job'[n].calls
    BY <1>5, <1>6, Zenon
  <2>6. \A x \in job'[n].calls \cup unreached' : ~job'[x].commit /\ config'[x] = Members(old)[x]
    BY <1>1, <1>5, <1>6, <1>7, <2>1, NoJobFields
  <2> QED BY <1>1, <2>1, <2>2, <2>3, <2>4, <2>5, <2>6, Zenon DEF Change
<1> QED BY <1>1, <1>8, <1>9, Zenon DEF Membership

LEMMA ForgetListed ==
  ASSUME Typed, Listed, Membership, NEW n \in Node, NEW m \in Node, forget(n, m), Typed'
  PROVE  Listed' /\ Membership'
<1>0. PICK new : new = config[n] \ {m}
  BY Zenon
<1> DEFINE C == config[n] \ {n}
           j == [NoJob EXCEPT !.kind = "FORGET", !.nodes = new, !.calls = C, !.leaving = m]
<1>1. ~started /\ started' = TRUE /\ config' = [config EXCEPT ![n] = new]
      /\ job' = [job EXCEPT ![n] = j] /\ m \in config[n] /\ m # n /\ unreached' = {}
  BY <1>0, Zenon DEF forget, events, Membership
<1>2. PICK old \in NodeList : config = Members(old)
  BY <1>1, Zenon DEF Membership
<1>3. n \in old /\ config[n] = old
  BY <1>1, <1>2, Zenon DEF Members
<1>5. j.kind = "FORGET" /\ j.nodes = new /\ j.calls = C /\ j.leaving = m /\ j.commit = FALSE
  <2> HIDE DEF C
  <2> QED BY Zenon DEF NoJob
<1> HIDE DEF j
<1>6. job'[n] = j /\ \A x \in Node : x # n => job'[x] = NoJob
  BY <1>1, Zenon DEF Typed, Listed
<1>7. config'[n] = new /\ \A x \in Node : x # n => config'[x] = config[x]
  BY <1>1, Zenon DEF Typed
<1>8. new \in NodeList /\ n \in new /\ m \notin new
  BY <1>0, <1>1, <1>3, <1>7, Zenon DEF Typed
<1>9. Listed'
  <2>1. \A x \in Node : x \in config'[x]
    BY <1>7, <1>8, Zenon DEF Listed
  <2>2. \A x \in Node : job'[x].kind # "none" => job'[x].nodes \in NodeList
    BY <1>5, <1>6, <1>8, NoJobFields, Zenon
  <2>3. \A x \in Node : job'[x].kind = "none" => job'[x] = NoJob
    BY <1>5, <1>6, Zenon
  <2> QED BY <1>1, <2>1, <2>2, <2>3, Zenon DEF Listed
<1>10. Change(old, new, n)'
  <2>1. \A x \in Node : x # n => config'[x] = Members(old)[x]
    BY <1>2, <1>7, Zenon
  <2>2. \A x \in Node : job'[x].kind # "none" => job'[x].nodes = new
    BY <1>5, <1>6, NoJobFields, Zenon
  <2>3. \A x \in Node : (job'[x].commit => x \in new) /\ (job'[x].calls # {} => x = n)
    BY <1>5, <1>6, NoJobFields, Zenon
  <2>4. job'[n].leaving \notin new /\ job'[n].calls \ {job'[n].leaving} \subseteq new
    BY <1>0, <1>5, <1>6, <1>8, Zenon
  <2>5. \A x \in new : config'[x] = new \/ x \in job'[n].calls
    BY <1>0, <1>5, <1>6, <1>7, Zenon
  <2>6. \A x \in job'[n].calls \cup unreached' : ~job'[x].commit /\ config'[x] = Members(old)[x]
    <3>1. job'[n].calls \cup unreached' \subseteq Node \ {n}
      BY <1>1, <1>5, <1>6, Zenon DEF Typed, NodeList
    <3> QED BY <1>6, <2>1, <3>1, NoJobFields
  <2> QED BY <1>1, <1>7, <1>8, <2>1, <2>2, <2>3, <2>4, <2>5, <2>6, Zenon DEF Change
<1> QED BY <1>1, <1>8, <1>9, <1>10, Zenon DEF Membership

LEMMA SendListed ==
  ASSUME Typed, Listed, Membership, NEW n \in Node, send_internal(n)
  PROVE  Listed' /\ Membership'
<1> DEFINE p == next_call(n)
           j == [job[n] EXCEPT !.calls = @ \ {p}, !.awaits = p]
           h == IF p = job[n].leaving THEN drain_job(p, job[n].nodes) ELSE sync_job(p, job[n].nodes)
<1>1. p \in Node \ {n} /\ p \in job[n].calls /\ job[p] = NoJob /\ job[n].kind # "none"
      /\ job[n].nodes \in NodeList /\ job' = [job EXCEPT ![n] = j, ![p] = h]
  BY SendSteps, Zenon
<1>2. h.kind # "none" /\ h.nodes = job[n].nodes /\ h.calls = {} /\ h.leaving = 0
      /\ (h.commit <=> p # job[n].leaving)
  <2>1. job[n].nodes \in SUBSET Node
    BY <1>1, Zenon DEF NodeList
  <2>2. CASE p = job[n].leaving
    <3>1. h = drain_job(p, job[n].nodes)
      BY <2>2, Zenon
    <3> HIDE DEF p, h
    <3>2. p \in Node
      BY <1>1, Zenon DEF p
    <3>3. h.kind # "none" /\ h.nodes = job[n].nodes /\ h.calls = {} /\ h.leaving = 0
      <4> DEFINE N == job[n].nodes
      <4>1. N \in SUBSET Node /\ h = drain_job(p, N)
        BY <2>1, <3>1, Zenon
      <4> HIDE DEF N
      <4>2. h.kind = "DRAIN" /\ h.nodes = N /\ h.calls = {} /\ h.leaving = 0
        BY <3>2, <4>1, DrainJob, Zenon
      <4> QED BY <4>2, Zenon DEF N
    <3>4. h.commit = FALSE
      BY <2>1, <3>1, <3>2, DrainJob, Zenon
    <3> QED BY <2>2, <3>3, <3>4, Zenon
  <2>3. CASE p # job[n].leaving
    <3>1. h = sync_job(p, job[n].nodes)
      BY <2>3, Zenon
    <3> HIDE DEF p, h
    <3>2. p \in Node
      BY <1>1, Zenon DEF p
    <3>3. h.kind # "none" /\ h.nodes = job[n].nodes /\ h.calls = {} /\ h.leaving = 0
      BY <2>1, <3>1, <3>2, SyncJob
    <3>4. h.commit = TRUE
      BY <2>1, <3>1, <3>2, SyncJob, Zenon
    <3> QED BY <2>3, <3>3, <3>4, Zenon
  <2> QED BY <2>2, <2>3, Zenon
<1>3. j.kind = job[n].kind /\ j.nodes = job[n].nodes /\ j.calls = job[n].calls \ {p}
      /\ j.leaving = job[n].leaving /\ j.commit = job[n].commit
  <2>1. job[n] \in Job
    BY Zenon DEF Typed
  <2> HIDE DEF p
  <2> QED BY <2>1, Zenon DEF Job
<1>4. config' = config /\ started' = started /\ unreached' = unreached
  BY Zenon DEF send_internal, events
<1> HIDE DEF p, j, h
<1>5. job'[n] = j /\ job'[p] = h /\ \A x \in Node \ {n, p} : job'[x] = job[x]
  BY <1>1, Zenon DEF Typed
<1>6. started
  BY <1>1, NoJobFields, Zenon DEF Listed
<1>7. Listed'
  <2>1. \A x \in Node : x \in config'[x]
    BY <1>4, Zenon DEF Listed
  <2>2. ASSUME NEW x \in Node
        PROVE  /\ job'[x].kind # "none" => job'[x].nodes \in NodeList
               /\ job'[x].kind = "none" => job'[x] = NoJob
    <3>1. CASE x = n
      BY <1>1, <1>3, <1>5, <3>1, Zenon
    <3>2. CASE x = p
      BY <1>1, <1>2, <1>5, <3>2
    <3>3. CASE x \notin {n, p}
      BY <1>5, <3>3, Zenon DEF Listed
    <3> QED BY <3>1, <3>2, <3>3, Zenon
  <2> QED BY <1>4, <1>6, <2>1, <2>2, Zenon DEF Listed
<1>8. PICK old \in NodeList, new \in NodeList, c \in Node : Change(old, new, c)
  BY <1>6, Zenon DEF Membership
<1>9. c = n /\ job[n].nodes = new /\ (p # job[n].leaving => p \in new)
  BY <1>1, <1>8, Zenon DEF Change
<1>10. Change(old, new, n)'
  <2>1. \A x \in Node : config'[x] \in {Members(old)[x], new}
    BY <1>4, <1>8, Zenon DEF Change
  <2>2. \A x \in Node \ new : config'[x] = Members(old)[x]
    BY <1>4, <1>8, Zenon DEF Change
  <2>3. \A x \in Node : job'[x].kind # "none" => job'[x].nodes = new
    BY <1>2, <1>3, <1>5, <1>8, <1>9 DEF Change
  <2>4. \A x \in Node : job'[x].commit => x \in new
    BY <1>2, <1>3, <1>5, <1>8, <1>9 DEF Change
  <2>5. \A x \in Node : job'[x].calls # {} => x = n
    BY <1>2, <1>5, <1>8, <1>9, Zenon DEF Change
  <2>6. job'[n].leaving \notin new /\ job'[n].calls \ {job'[n].leaving} \subseteq new
    BY <1>3, <1>5, <1>8, <1>9, Zenon DEF Change
  <2>8. job'[n].calls \subseteq job[n].calls \ {p} /\ p \notin unreached
    BY <1>1, <1>3, <1>5, <1>8, <1>9, Zenon DEF Change
  <2>9. \A x \in unreached' : x \notin job'[n].calls
    BY <1>4, <1>8, <1>9, <2>8, Zenon DEF Change
  <2>10. ASSUME NEW x \in job'[n].calls \cup unreached'
         PROVE  ~job'[x].commit /\ config'[x] = Members(old)[x]
    <3>1. x \in job[n].calls \cup unreached /\ x # p
      BY <1>4, <2>8, Zenon
    <3>2. x \in Node
      BY <3>1, Zenon DEF Typed, Job
    <3>3. ~job[x].commit /\ config[x] = Members(old)[x]
      BY <1>8, <1>9, <3>1, Zenon DEF Change
    <3>4. job'[x].commit = job[x].commit
      BY <1>3, <1>5, <3>1, <3>2, Zenon
    <3> QED BY <1>4, <3>3, <3>4, Zenon
  <2>7. ASSUME NEW x \in new
        PROVE  config'[x] = new \/ job'[x].commit \/ x \in job'[n].calls \cup unreached'
    <3>1. config[x] = new \/ job[x].commit \/ x \in job[n].calls \cup unreached
      BY <1>8, <1>9, Zenon DEF Change
    <3>2. x \in Node /\ job[n].leaving \notin new
      BY <1>8, <1>9, Zenon DEF Change, NodeList
    <3>3. CASE x = p
      BY <1>2, <1>5, <3>2, <3>3, Zenon
    <3>4. CASE x # p
      BY <1>3, <1>4, <1>5, <3>1, <3>2, <3>4, Zenon
    <3> QED BY <3>3, <3>4, Zenon
  <2> QED BY <2>1, <2>2, <2>3, <2>4, <2>5, <2>6, <2>7, <2>9, <2>10, Zenon DEF Change
<1> QED BY <1>4, <1>6, <1>7, <1>10, Zenon DEF Membership

LEMMA SendFailsListed ==
  ASSUME Typed, Listed, Membership, NEW n \in Node, send_internal_fails(n)
  PROVE  Listed' /\ Membership'
<1> DEFINE p == next_call(n)
           j == [job[n] EXCEPT !.calls = @ \ {p}]
<1>1. /\ p \in job[n].calls /\ job[n].kind # "none" /\ job' = [job EXCEPT ![n] = j]
      /\ unreached' = unreached \cup {p}
  BY SendFailsSteps, Zenon
<1>2. config' = config /\ started' = started
  BY Zenon DEF send_internal_fails
<1>3. j.kind = job[n].kind /\ j.nodes = job[n].nodes /\ j.calls = job[n].calls \ {p}
      /\ j.leaving = job[n].leaving /\ j.commit = job[n].commit
  <2>1. job[n] \in Job
    BY Zenon DEF Typed
  <2> HIDE DEF p
  <2> QED BY <2>1, Zenon DEF Job
<1> HIDE DEF p, j
<1>4. job'[n] = j /\ \A x \in Node : x # n => job'[x] = job[x]
  BY <1>1, Zenon DEF Typed
<1>5. \A x \in Node : /\ job'[x].kind = job[x].kind /\ job'[x].nodes = job[x].nodes
                     /\ job'[x].leaving = job[x].leaving /\ job'[x].commit = job[x].commit
  BY <1>3, <1>4, Zenon
<1>6. started
  BY <1>1, NoJobFields, Zenon DEF Listed
<1>7. Listed'
  <2>1. \A x \in Node : x \in config'[x]
    BY <1>2, Zenon DEF Listed
  <2>2. \A x \in Node : job'[x].kind # "none" => job'[x].nodes \in NodeList
    BY <1>5, Zenon DEF Listed
  <2>3. \A x \in Node : job'[x].kind = "none" => job'[x] = NoJob
    BY <1>1, <1>4, <1>5, Zenon DEF Listed
  <2> QED BY <1>2, <1>6, <2>1, <2>2, <2>3, Zenon DEF Listed
<1>8. PICK old \in NodeList, new \in NodeList, c \in Node : Change(old, new, c)
  BY <1>6, Zenon DEF Membership
<1>9. c = n
  BY <1>1, <1>8, Zenon DEF Change
<1>10. job'[n].calls = job[n].calls \ {p}
  BY <1>3, <1>4, Zenon
<1>11. Change(old, new, n)'
  <2>1. \A x \in Node : config'[x] \in {Members(old)[x], new}
    BY <1>2, <1>8, Zenon DEF Change
  <2>2. \A x \in Node \ new : config'[x] = Members(old)[x]
    BY <1>2, <1>8, Zenon DEF Change
  <2>3. \A x \in Node : job'[x].kind # "none" => job'[x].nodes = new
    BY <1>5, <1>8, Zenon DEF Change
  <2>4. \A x \in Node : job'[x].commit => x \in new
    BY <1>5, <1>8, Zenon DEF Change
  <2>5. \A x \in Node : job'[x].calls # {} => x = n
    BY <1>4, <1>8, <1>9, Zenon DEF Change
  <2>6. job'[n].leaving \notin new /\ job'[n].calls \ {job'[n].leaving} \subseteq new
    BY <1>5, <1>8, <1>9, <1>10, Zenon DEF Change
  <2>7. \A x \in unreached' : x \notin job'[n].calls
    BY <1>1, <1>8, <1>9, <1>10, Zenon DEF Change
  <2>8. ASSUME NEW x \in job'[n].calls \cup unreached'
        PROVE  ~job'[x].commit /\ config'[x] = Members(old)[x]
    <3>1. x \in job[n].calls \cup unreached
      BY <1>1, <1>10, Zenon
    <3>2. x \in Node
      BY <3>1, Zenon DEF Typed, Job
    <3>3. ~job[x].commit /\ config[x] = Members(old)[x]
      BY <1>8, <1>9, <3>1, Zenon DEF Change
    <3> QED BY <1>2, <1>5, <3>2, <3>3, Zenon
  <2>9. ASSUME NEW x \in new
        PROVE  config'[x] = new \/ job'[x].commit \/ x \in job'[n].calls \cup unreached'
    <3>1. config[x] = new \/ job[x].commit \/ x \in job[n].calls \cup unreached
      BY <1>8, <1>9, Zenon DEF Change
    <3>2. x \in Node
      BY Zenon DEF NodeList
    <3> QED BY <1>1, <1>2, <1>5, <1>10, <3>1, <3>2, Zenon
  <2> QED BY <2>1, <2>2, <2>3, <2>4, <2>5, <2>6, <2>7, <2>8, <2>9, Zenon DEF Change
<1> QED BY <1>2, <1>6, <1>7, <1>11, Zenon DEF Membership

LEMMA FinishListed ==
  ASSUME Typed, Listed, Membership, NEW n \in Node, finish(n)
  PROVE  Listed' /\ Membership'
<1>1. job' = [job EXCEPT ![n] = NoJob] /\ job[n].kind # "none" /\ job[n].calls = {}
      /\ config' = (IF job[n].commit THEN [config EXCEPT ![n] = job[n].nodes] ELSE config)
      /\ started' = started /\ unreached' = unreached
  BY Zenon DEF finish, called, events
<1>2. job'[n] = NoJob /\ \A x \in Node : x # n => job'[x] = job[x]
  BY <1>1, Zenon DEF Typed
<1>3. started
  BY <1>1, NoJobFields, Zenon DEF Listed
<1>4. PICK old \in NodeList, new \in NodeList, c \in Node : Change(old, new, c)
  BY <1>3, Zenon DEF Membership
<1>5. job[n].nodes = new /\ (job[n].commit => n \in new)
  BY <1>1, <1>4, Zenon DEF Change
<1>6. /\ job[n].commit => config'[n] = new
      /\ ~job[n].commit => config'[n] = config[n]
      /\ \A x \in Node : x # n => config'[x] = config[x]
  BY <1>1, <1>5, Zenon DEF Typed
<1>7. Listed'
  BY <1>1, <1>2, <1>3, <1>5, <1>6, NoJobFields DEF Listed
<1>8. Change(old, new, c)'
  <2>1. \A x \in Node : config'[x] \in {Members(old)[x], new}
    BY <1>4, <1>6, Zenon DEF Change
  <2>2. \A x \in Node \ new : config'[x] = Members(old)[x]
    BY <1>4, <1>5, <1>6, Zenon DEF Change
  <2>3. \A x \in Node : job'[x].kind # "none" => job'[x].nodes = new
    BY <1>2, <1>4, NoJobFields DEF Change
  <2>4. \A x \in Node : (job'[x].commit => x \in new) /\ (job'[x].calls # {} => x = c)
    BY <1>2, <1>4, NoJobFields, Zenon DEF Change
  <2>5. job'[c].leaving \notin new /\ job'[c].calls \ {job'[c].leaving} \subseteq new
    BY <1>2, <1>4, NoJobFields, Numbers DEF Change, NodeList
  <2>7. job'[c].calls = job[c].calls
    BY <1>1, <1>2, NoJobFields, Zenon
  <2>8. ASSUME NEW x \in job'[c].calls \cup unreached'
        PROVE  ~job'[x].commit /\ config'[x] = Members(old)[x]
    <3>1. x \in job[c].calls \cup unreached
      BY <1>1, <2>7, Zenon
    <3>2. x \in Node
      BY <3>1, Zenon DEF Typed, Job
    <3>3. ~job[x].commit /\ config[x] = Members(old)[x]
      BY <1>4, <3>1, Zenon DEF Change
    <3> QED BY <1>2, <1>6, <3>2, <3>3, NoJobFields
  <2>6. ASSUME NEW x \in new
        PROVE  config'[x] = new \/ job'[x].commit \/ x \in job'[c].calls \cup unreached'
    <3>1. config[x] = new \/ job[x].commit \/ x \in job[c].calls \cup unreached
      BY <1>4, Zenon DEF Change
    <3>2. x \in Node
      BY Zenon DEF NodeList
    <3> QED BY <1>1, <1>2, <1>6, <2>7, <3>1, <3>2, Zenon
  <2>9. \A x \in unreached' : x \notin job'[c].calls
    BY <1>1, <1>4, <2>7, Zenon DEF Change
  <2> QED BY <2>1, <2>2, <2>3, <2>4, <2>5, <2>6, <2>8, <2>9, Zenon DEF Change
<1> QED BY <1>1, <1>3, <1>7, <1>8, Zenon DEF Membership

LEMMA NextListed ==
  ASSUME Typed, Listed, Membership, [Next]_vars, Typed'
  PROVE  Listed' /\ Membership'
<1>1. CASE UNCHANGED vars
  <2>1. Framed
    BY <1>1, Zenon DEF vars, Framed
  <2> QED BY <2>1, FramedKeeps, Zenon
<1>2. ASSUME NEW n \in Node, Handler(n) PROVE Listed' /\ Membership'
  <2>1. send_internal(n) \/ finish(n) \/ Framed
    BY <1>2, HandlerFramed, Zenon DEF Handler
  <2> QED BY <2>1, SendListed, FinishListed, FramedKeeps, Zenon
<1>5. ASSUME NEW n \in Node, send_internal_fails(n) PROVE Listed' /\ Membership'
  BY <1>5, SendFailsListed, Zenon
<1>3. ASSUME NEW n \in Node, NEW m \in Node, meet(n, m) \/ forget(n, m) PROVE Listed' /\ Membership'
  BY <1>3, MeetListed, ForgetListed, Zenon
<1>4. CASE \/ \E k \in Key, n \in Node : put(k, n)
           \/ \E r \in Requester : route(r) \/ execute(r) \/ request_fails(r)
           \/ \E n \in Node, k \in Key, t \in Node : cmd_migrate(n, k, t)
           \/ migrated
  BY <1>4, CommandFramed, FramedKeeps, Zenon
<1> QED BY <1>1, <1>2, <1>3, <1>4, <1>5, Zenon DEF Next

-----------------------------------------------------------------------------
(* The copies of a key *)

LEMMA TakenOne ==
  ASSUME Typed, Taken, NEW n \in Node, NEW j, job' = [job EXCEPT ![n] = j], failed' = failed,
         InHand(j)
  PROVE  Taken'
<1>1. job'[n] = j /\ \A m \in Node : m # n => job'[m] = job[m]
  BY Zenon DEF Typed
<1>2. ASSUME NEW m \in Node PROVE InHand(job[m])'
  BY <1>1, Zenon DEF Taken, InHand
<1> QED BY <1>2, Zenon DEF Taken

(* A MIGRATE that has its answer had it before. *)
SameMigrate ==
  request'[migrate].pc = "answered" /\ source' # 0 =>
    /\ request[migrate].pc = "answered" /\ source # 0
    /\ request'[migrate].key = request[migrate].key /\ source' = source

(* A step after which there is a copy of every key there was one of. *)
LEMMA CopiedIf ==
  ASSUME Typed, Copied, SameMigrate, failed' = failed, returned' = returned,
         ASSUME NEW k \in Key, NEW s \in Node \cup {0}, ~failed, Copy(k, s) PROVE Copy(k, s)'
  PROVE  Copied'
<1> SUFFICES ASSUME ~failed', ~returned'
             PROVE  /\ \A k \in Key : Copy(k, 0)'
                    /\ request'[migrate].pc = "answered" /\ source' # 0 => Copy(request[migrate].key, source)'
  BY Zenon DEF Copied
<1>1. ~failed /\ ~returned
  BY Zenon
<1>2. \A k \in Key : Copy(k, 0)'
  BY <1>1, Zenon DEF Copied
<1>3. ASSUME request'[migrate].pc = "answered", source' # 0
      PROVE  Copy(request[migrate].key, source)'
  <2>1. PICK k, s : k = request[migrate].key /\ s = source
    BY Zenon
  <2>2. k = request'[migrate].key /\ s = source' /\ request[migrate].pc = "answered" /\ source # 0
    BY <1>3, <2>1, Zenon DEF SameMigrate
  <2>3. k \in Key /\ s \in Node \cup {0}
    BY <2>1, <2>2, Numbers, Zenon DEF Typed, Sent
  <2>4. Copy(k, s)
    BY <1>1, <2>1, <2>2, Zenon DEF Copied
  <2>5. Copy(k, s)'
    BY <1>1, <2>3, <2>4, Zenon
  <2> QED BY <2>2, <2>5, Zenon DEF Copy
<1> QED BY <1>2, <1>3, Zenon

(* A step that keeps every copy where it is. *)
Kept ==
  /\ store' = store /\ failed' = failed /\ returned' = returned /\ SameMigrate
  /\ \A n \in Node : request'[n].key = request[n].key \/ request[n].key = NoKey
  /\ \A n \in Node : job[n].hand \subseteq job'[n].hand

LEMMA CopiedKept ==
  ASSUME Typed, Copied, Kept
  PROVE  Copied'
<1>1. ASSUME NEW k \in Key, NEW s \in Node \cup {0}, Copy(k, s) PROVE Copy(k, s)'
  <2>1. k # NoKey
    BY Numbers, Zenon
  <2> QED BY <1>1, <2>1, Zenon DEF Copy, Kept
<1> QED BY <1>1, CopiedIf, Zenon DEF Kept

(* A step that begins, calls or ends a handler. *)
LEMMA JobsReplaced ==
  ASSUME Typed, Taken, Copied, UNCHANGED <<store, request, moving, events>>,
         \A n \in Node : /\ job[n].hand \subseteq job'[n].hand
                         /\ \/ job'[n].taking = NoKey
                            \/ job'[n].taking = job[n].taking /\ job'[n].listed = job[n].listed
  PROVE  Taken' /\ Copied'
<1>1. Kept
  BY Zenon DEF Kept, SameMigrate, moving, events
<1>2. Copied'
  BY <1>1, CopiedKept, Zenon
<1>3. failed' = failed
  BY Zenon DEF events
<1>4. Taken'
  BY <1>3, Zenon DEF Taken, InHand
<1> QED BY <1>2, <1>4, Zenon

LEMMA OperatorCopied ==
  ASSUME Typed, Listed, Taken, Copied, NEW n \in Node, NEW m \in Node, meet(n, m) \/ forget(n, m)
  PROVE  Taken' /\ Copied'
<1>1. \A x \in Node : job[x] = NoJob
  BY Zenon DEF Listed, meet, forget
<1>2. ASSUME meet(n, m) PROVE job'[n].taking = NoKey
  <2> DEFINE N == config[n] \cup {m}
             K == outbound(n, N)
             j == [NoJob EXCEPT !.kind = "MEET", !.nodes = N, !.calls = N \ {n}, !.keys = K,
                                !.commit = TRUE]
  <2>1. job' = [job EXCEPT ![n] = j]
    BY <1>2, Zenon DEF meet
  <2>2. j.taking = NoKey
    <3> HIDE DEF N, K
    <3> QED BY Zenon DEF NoJob
  <2> HIDE DEF j
  <2> QED BY <2>1, <2>2, Zenon DEF Typed
<1>3. ASSUME forget(n, m) PROVE job'[n].taking = NoKey
  <2> DEFINE N == config[n] \ {m}
             C == config[n] \ {n}
             j == [NoJob EXCEPT !.kind = "FORGET", !.nodes = N, !.calls = C, !.leaving = m]
  <2>1. job' = [job EXCEPT ![n] = j]
    BY <1>3, Zenon DEF forget
  <2>2. j.taking = NoKey
    <3> HIDE DEF N, C
    <3> QED BY Zenon DEF NoJob
  <2> HIDE DEF j
  <2> QED BY <2>1, <2>2, Zenon DEF Typed
<1>4. UNCHANGED <<store, request, moving, events>>
  BY Zenon DEF meet, forget
<1>5. \A x \in Node : x # n => job'[x] = job[x]
  BY Zenon DEF meet, forget, Typed
<1>6. \A x \in Node : job[x].hand = {}
  BY <1>1, NoJobFields, Zenon
<1>7. ASSUME NEW x \in Node
      PROVE  /\ job[x].hand \subseteq job'[x].hand
             /\ \/ job'[x].taking = NoKey
                \/ job'[x].taking = job[x].taking /\ job'[x].listed = job[x].listed
  BY <1>2, <1>3, <1>5, <1>6, Zenon
<1> QED BY <1>4, <1>7, JobsReplaced, Zenon

LEMMA SendCopied ==
  ASSUME Typed, Listed, Taken, Copied, NEW n \in Node, send_internal(n)
  PROVE  Taken' /\ Copied'
<1> DEFINE p == next_call(n)
           j == [job[n] EXCEPT !.calls = @ \ {p}, !.awaits = p]
           N == job[n].nodes
           h == IF p = job[n].leaving THEN drain_job(p, N) ELSE sync_job(p, N)
<1>1. p \in Node \ {n} /\ job[p] = NoJob /\ N \in NodeList /\ job' = [job EXCEPT ![n] = j, ![p] = h]
  BY SendSteps, Zenon
<1>2. j.hand = job[n].hand /\ j.taking = job[n].taking /\ j.listed = job[n].listed
  <2>1. job[n] \in Job
    BY Zenon DEF Typed
  <2> HIDE DEF p
  <2> QED BY <2>1, Zenon DEF Job
<1>3. h.taking = NoKey
  <2>1. p \in Node /\ N \in SUBSET Node
    BY <1>1, Zenon DEF NodeList
  <2> HIDE DEF p, N
  <2>2. drain_job(p, N).taking = NoKey
    BY <2>1, DrainJob, Zenon
  <2>3. sync_job(p, N).taking = NoKey
    BY <2>1, SyncJob
  <2> QED BY <2>2, <2>3, Zenon
<1> HIDE DEF p, j, h, N
<1>4. job'[n] = j /\ job'[p] = h /\ \A x \in Node \ {n, p} : job'[x] = job[x]
  BY <1>1, Zenon DEF Typed
<1>5. job[p].hand = {}
  BY <1>1, NoJobFields, Zenon
<1>6. UNCHANGED <<store, request, moving, events>>
  BY Zenon DEF send_internal
<1>7. ASSUME NEW x \in Node
      PROVE  /\ job[x].hand \subseteq job'[x].hand
             /\ \/ job'[x].taking = NoKey
                \/ job'[x].taking = job[x].taking /\ job'[x].listed = job[x].listed
  BY <1>2, <1>3, <1>4, <1>5, Zenon
<1> QED BY <1>6, <1>7, JobsReplaced, Zenon

LEMMA FinishCopied ==
  ASSUME Typed, Taken, Copied, NEW n \in Node, finish(n)
  PROVE  Taken' /\ Copied'
<1>1. job'[n] = NoJob /\ \A x \in Node : x # n => job'[x] = job[x]
  BY Zenon DEF finish, Typed
<1>2. job[n].hand = {} /\ UNCHANGED <<store, request, moving, events>>
  BY Zenon DEF finish
<1>3. ASSUME NEW x \in Node
      PROVE  /\ job[x].hand \subseteq job'[x].hand
             /\ \/ job'[x].taking = NoKey
                \/ job'[x].taking = job[x].taking /\ job'[x].listed = job[x].listed
  BY <1>1, <1>2, NoJobFields, Zenon
<1> QED BY <1>2, <1>3, JobsReplaced, Zenon

(* A step of a handler that loses nothing from its hand. *)
LEMMA HandlerKept ==
  ASSUME Typed, Taken, Copied, NEW n \in Node, NEW j, job' = [job EXCEPT ![n] = j],
         job[n].hand \subseteq j.hand, InHand(j),
         UNCHANGED <<store, request, source, returned, failed>>
  PROVE  Taken' /\ Copied'
<1>1. Taken'
  BY TakenOne, Zenon
<1>2. job'[n] = j /\ \A m \in Node : m # n => job'[m] = job[m]
  BY Zenon DEF Typed
<1>3. Kept
  BY <1>2, Zenon DEF Kept, SameMigrate
<1> QED BY <1>1, <1>3, CopiedKept, Zenon

LEMMA SendFailsCopied ==
  ASSUME Typed, Listed, Taken, Copied, NEW n \in Node, send_internal_fails(n)
  PROVE  Taken' /\ Copied'
<1> DEFINE p == next_call(n)
           j == [job[n] EXCEPT !.calls = @ \ {p}]
<1>1. job' = [job EXCEPT ![n] = j]
  BY SendFailsSteps, Zenon
<1>2. job[n] \in Job
  BY Zenon DEF Typed
<1> HIDE DEF p
<1>3. j.hand = job[n].hand /\ j.taking = job[n].taking /\ j.listed = job[n].listed
  BY <1>2, Zenon DEF Job
<1>4. UNCHANGED <<store, request, source, returned, failed>>
  BY Zenon DEF send_internal_fails, moving
<1> HIDE DEF j
<1>5. InHand(j)
  BY <1>3, Zenon DEF Taken, InHand
<1> QED BY <1>1, <1>3, <1>4, <1>5, HandlerKept, Zenon

LEMMA AnsweredCopied ==
  ASSUME Typed, Taken, Copied, NEW n \in Node, answered(n)
  PROVE  Taken' /\ Copied'
<1> DEFINE j == [job[n] EXCEPT !.awaits = 0]
<1>1. job \in [Node -> Job] /\ job[n] \in Job
  BY Zenon DEF Typed
<1>2. job' = [job EXCEPT ![n] = j]
  BY <1>1, Zenon DEF answered
<1>3. j.hand = job[n].hand /\ j.taking = job[n].taking /\ j.listed = job[n].listed
  BY <1>1, Zenon DEF Job
<1>4. UNCHANGED <<store, request, source, returned, failed>>
  BY Zenon DEF answered, moving
<1> HIDE DEF j
<1>5. InHand(j)
  BY <1>3, Zenon DEF Taken, InHand
<1> QED BY <1>2, <1>3, <1>4, <1>5, HandlerKept, Zenon

LEMMA ListKeysCopied ==
  ASSUME Typed, Taken, Copied, NEW n \in Node, NEW t \in Node, list_keys(n, t)
  PROVE  Taken' /\ Copied'
<1> DEFINE mine == {k \in job[n].keys : target(n, k) = t}
           L == {k \in mine : store[n][k] # 0}
           j == [job[n] EXCEPT !.keys = @ \ mine, !.listed = L]
<1>1. job \in [Node -> Job] /\ job[n] \in Job
  BY Zenon DEF Typed
<1>2. job' = [job EXCEPT ![n].keys = @ \ mine, ![n].listed = L] /\ job[n].listed = {}
  BY Zenon DEF list_keys
<1> HIDE DEF mine, L
<1>3. job' = [job EXCEPT ![n] = j]
  BY <1>1, <1>2, Zenon
<1>4. j.hand = job[n].hand /\ j.taking = job[n].taking
  BY <1>1, Zenon DEF Job
<1>5. UNCHANGED <<store, request, source, returned, failed>>
  BY Zenon DEF list_keys, moving, events
<1> HIDE DEF j
<1>6. InHand(j)
  BY <1>2, <1>4, Zenon DEF Taken, InHand
<1> QED BY <1>3, <1>4, <1>5, <1>6, HandlerKept, Zenon

(* drain_slots has the key in its hand ... *)
LEMMA TakeCopied ==
  ASSUME Typed, Taken, Copied, NEW n \in Node, NEW k \in Key, take(n, k)
  PROVE  Taken' /\ Copied'
<1> DEFINE v == store[n][k]
           a == [job[n] EXCEPT !.listed = @ \ {k}]
           b == [job[n] EXCEPT !.taking = k, !.hand = @ \cup {<<k, v>>}]
<1>1. job \in [Node -> Job] /\ job[n] \in Job /\ v \in Version
  BY Zenon DEF Typed
<1>2. k \in job[n].listed /\ job[n].taking = NoKey
  BY Zenon DEF take
<1>3. UNCHANGED <<store, request, source, returned, failed>>
  BY Zenon DEF take, moving, events
<1>4. job' = [job EXCEPT ![n] = IF v = 0 THEN a ELSE b]
  BY TakeSteps, Zenon
<1> HIDE DEF v
<1>5. a.hand = job[n].hand /\ a.taking = job[n].taking
  BY <1>1, Zenon DEF Job
<1>6. b.hand = job[n].hand \cup {<<k, v>>} /\ b.taking = k /\ b.listed = job[n].listed
  BY <1>1, Zenon DEF Job
<1> HIDE DEF a, b
<1>7. InHand(a)
  BY <1>2, <1>5, Zenon DEF InHand
<1>8. InHand(b)
  BY <1>1, <1>2, <1>6, Zenon DEF InHand
<1>9. CASE v = 0
  <2>1. job' = [job EXCEPT ![n] = a]
    BY <1>4, <1>9, Zenon
  <2> QED BY <1>3, <1>5, <1>7, <2>1, HandlerKept, Zenon
<1>10. CASE v # 0
  <2>1. job' = [job EXCEPT ![n] = b]
    BY <1>4, <1>10, Zenon
  <2>2. job[n].hand \subseteq b.hand
    BY <1>6, Zenon
  <2> QED BY <1>3, <1>8, <2>1, <2>2, HandlerKept, Zenon
<1> QED BY <1>9, <1>10, Zenon

(* ... when it deletes it. *)
LEMMA DelCopied ==
  ASSUME Typed, Taken, Copied, NEW n \in Node, del(n)
  PROVE  Taken' /\ Copied'
<1> DEFINE k == job[n].taking
           j == [job[n] EXCEPT !.listed = @ \ {k}, !.taking = NoKey]
<1>1. job \in [Node -> Job] /\ job[n] \in Job /\ store \in [Node -> [Key -> Version]]
  BY Zenon DEF Typed
<1>2. PICK d \in Key : d = k
  BY <1>1, Zenon DEF del, Job
<1>3. job' = [job EXCEPT ![n] = j] /\ k # NoKey
  BY <1>1, Zenon DEF del
<1>4. store' = [store EXCEPT ![n][d] = 0]
  BY <1>2, Zenon DEF del
<1>5. j.hand = job[n].hand /\ j.taking = NoKey
  BY <1>1, Zenon DEF Job
<1>6. request' = request /\ source' = source /\ returned' = returned /\ failed' = failed
  BY Zenon DEF del, moving, events
<1> HIDE DEF j
<1>7. Taken'
  <2>1. InHand(j)
    BY <1>5, Zenon DEF InHand
  <2> QED BY <1>3, <1>6, <2>1, TakenOne, Zenon
<1>8. \A m \in Node : job'[m].hand = job[m].hand
  BY <1>1, <1>3, <1>5, Zenon
<1>9. ~failed => \E v \in Version : <<d, v>> \in job[n].hand
  BY <1>2, <1>3, Zenon DEF Taken, InHand
<1>10. ASSUME NEW x \in Key, NEW s \in Node \cup {0}, ~failed, Copy(x, s)
       PROVE  Copy(x, s)'
  <2>1. PICK m \in Node : \/ m # s /\ store[m][x] # 0
                          \/ request[m].key = x
                          \/ \E v \in Version : <<x, v>> \in job[m].hand
    BY <1>10, Zenon DEF Copy
  <2>2. CASE x = d
    BY <1>8, <1>9, <1>10, <2>2, Zenon DEF Copy
  <2>3. CASE x # d
    <3>1. store'[m][x] = store[m][x]
      BY <1>1, <1>4, <2>3, Zenon
    <3> QED BY <1>6, <1>8, <2>1, <3>1, Zenon DEF Copy
  <2> QED BY <2>2, <2>3, Zenon
<1>11. SameMigrate
  BY <1>6, Zenon DEF SameMigrate
<1>12. Copied'
  BY <1>6, <1>10, <1>11, CopiedIf, Zenon
<1> QED BY <1>7, <1>12, Zenon

(* push_entries_to takes a key out of the hand when it sends it. *)
LEMMA PushCopied ==
  ASSUME Typed, Taken, Copied, NEW n \in Node, NEW k \in Key, NEW v \in Version, push(n, k, v)
  PROVE  Taken' /\ Copied'
<1> DEFINE j == [job[n] EXCEPT !.hand = @ \ {<<k, v>>}]
           q == [pc |-> "route", key |-> k, version |-> v, at |-> target(n, k)]
<1>1. job \in [Node -> Job] /\ job[n] \in Job /\ request \in [Requester -> Request]
  BY Zenon DEF Typed
<1>2. job' = [job EXCEPT ![n] = j] /\ job[n].listed = {}
  BY <1>1, Zenon DEF push
<1>3. j.hand = job[n].hand \ {<<k, v>>} /\ j.taking = job[n].taking
  BY <1>1, Zenon DEF Job
<1>4. /\ request' = [request EXCEPT ![n] = q] /\ request[n].key = NoKey
      /\ store' = store /\ source' = source /\ returned' = returned /\ failed' = failed
  BY NoRequestFields, Zenon DEF push, moving, events
<1>5. request'[n].key = k /\ \A r \in Requester : r # n => request'[r] = request[r]
  BY <1>1, <1>4, Numbers, Zenon
<1> HIDE DEF j, q
<1>6. Taken'
  <2>1. InHand(j)
    BY <1>2, <1>3, Zenon DEF Taken, InHand
  <2> QED BY <1>2, <1>4, <2>1, TakenOne, Zenon
<1>7. job'[n] = j /\ \A m \in Node : m # n => job'[m] = job[m]
  BY <1>1, <1>2, Zenon
<1>8. ASSUME NEW x \in Key, NEW s \in Node \cup {0}, ~failed, Copy(x, s)
      PROVE  Copy(x, s)'
  <2>1. PICK m \in Node : \/ m # s /\ store[m][x] # 0
                          \/ request[m].key = x
                          \/ \E w \in Version : <<x, w>> \in job[m].hand
    BY <1>8, Zenon DEF Copy
  <2>2. CASE x = k
    BY <1>5, <2>2, Zenon DEF Copy
  <2>3. CASE m # s /\ store[m][x] # 0
    BY <1>4, <2>3, Zenon DEF Copy
  <2>4. CASE request[m].key = x
    <3>1. m # n
      BY <1>4, <2>4, Numbers, Zenon
    <3>2. request'[m].key = x
      BY <1>5, <2>4, <3>1, Numbers, Zenon
    <3> QED BY <3>2, Zenon DEF Copy
  <2>5. CASE x # k /\ \E w \in Version : <<x, w>> \in job[m].hand
    <3>1. PICK w \in Version : <<x, w>> \in job[m].hand
      BY <2>5, Zenon
    <3>2. <<x, w>> # <<k, v>>
      BY <2>5, Zenon
    <3>3. <<x, w>> \in job'[m].hand
      BY <1>3, <1>7, <3>1, <3>2, Zenon
    <3> QED BY <3>3, Zenon DEF Copy
  <2> QED BY <2>1, <2>2, <2>3, <2>4, <2>5, Zenon
<1>9. SameMigrate
  BY <1>4, <1>5, Numbers, Zenon DEF SameMigrate
<1>10. Copied'
  BY <1>4, <1>8, <1>9, CopiedIf, Zenon
<1> QED BY <1>6, <1>10, Zenon

(* Commands on their way. *)
LEMMA CommandKept ==
  ASSUME Typed, Taken, Copied, job' = job, Kept
  PROVE  Taken' /\ Copied'
<1>1. failed' = failed
  BY Zenon DEF Kept
<1> QED BY <1>1, CopiedKept, Zenon DEF Taken, InHand

LEMMA PutCopied ==
  ASSUME Typed, Taken, Copied, NEW k \in Key, NEW n \in Node, put(k, n)
  PROVE  Taken' /\ Copied'
<1>1. \A r \in Requester : r # client => request'[r] = request[r]
  BY Zenon DEF put, Typed
<1>2. request'[migrate] = request[migrate] /\ \A m \in Node : request'[m] = request[m]
  BY <1>1, Numbers, Zenon
<1>3. job' = job /\ store' = store /\ source' = source /\ returned' = returned /\ failed' = failed
  BY Zenon DEF put, moving
<1>4. Kept
  BY <1>2, <1>3, Zenon DEF Kept, SameMigrate
<1> QED BY <1>3, <1>4, CommandKept, Zenon

LEMMA RouteCopied ==
  ASSUME Typed, Taken, Copied, NEW r \in Requester, route(r)
  PROVE  Taken' /\ Copied'
<1> DEFINE q == request[r]
           t == node_for_slot(config[q.at], q.key)
           mine == is_mine(config[q.at], q.at, q.key)
<1>1. request \in [Requester -> Request] /\ q \in Request /\ q.pc = "route"
  BY Zenon DEF Typed, route
<1>2. request' = IF mine THEN [request EXCEPT ![r].pc = "execute"] ELSE [request EXCEPT ![r].at = t]
  BY Zenon DEF route
<1> HIDE DEF t, mine
<1>3. \A x \in Requester : request'[x].key = request[x].key
  BY <1>1, <1>2, Zenon DEF Request
<1>4. \A x \in Requester : request'[x].pc = "answered" => request[x].pc = "answered"
  BY <1>1, <1>2, Zenon DEF Request
<1>5. job' = job /\ store' = store /\ source' = source /\ returned' = returned /\ failed' = failed
  BY Zenon DEF route, moving, events
<1>6. Kept
  BY <1>3, <1>4, <1>5, Numbers, Zenon DEF Kept, SameMigrate
<1> QED BY <1>5, <1>6, CommandKept, Zenon

LEMMA MigrateCopied ==
  ASSUME Typed, Taken, Copied, NEW n \in Node, NEW k \in Key, NEW t \in Node, cmd_migrate(n, k, t)
  PROVE  Taken' /\ Copied'
<1>1. request'[migrate].pc = "route" /\ \A r \in Requester : r # migrate => request'[r] = request[r]
  BY Numbers, Zenon DEF cmd_migrate, Typed
<1>2. \A m \in Node : request'[m] = request[m]
  BY <1>1, Numbers, Zenon
<1>3. job' = job /\ store' = store /\ returned' = returned /\ failed' = failed
  BY Zenon DEF cmd_migrate, events
<1>4. Kept
  BY <1>1, <1>2, <1>3, Zenon DEF Kept, SameMigrate
<1> QED BY <1>3, <1>4, CommandKept, Zenon

LEMMA RequestFailsCopied ==
  ASSUME Typed, Taken, NEW r \in Requester, request_fails(r)
  PROVE  Taken' /\ Copied'
<1>1. failed'
  BY DEF request_fails, Typed
<1>2. Copied'
  BY <1>1, Zenon DEF Copied
<1>3. \A n \in Node : job'[n].taking = job[n].taking /\ job'[n].listed = job[n].listed
  <2>1. job \in [Node -> Job]
    BY Zenon DEF Typed
  <2>2. CASE job' = job
    BY <2>2, Zenon
  <2>3. CASE r \in Node /\ job' = [job EXCEPT ![r].hand = {}]
    BY <2>1, <2>3 DEF Job
  <2> QED BY <2>2, <2>3, Zenon DEF request_fails
<1>4. Taken'
  BY <1>1, <1>3, Zenon DEF Taken, InHand
<1> QED BY <1>2, <1>4, Zenon

(* The node that executes a command has the key afterwards. *)
LEMMA ExecuteCopied ==
  ASSUME Typed, Taken, Copied, NEW r \in Requester, execute(r)
  PROVE  Taken' /\ Copied'
<1>1. request \in [Requester -> Request] /\ store \in [Node -> [Key -> Version]]
  BY Zenon DEF Typed
<1>2. PICK q \in Request : q = request[r]
  BY <1>1, Zenon
<1>3. q.pc = "execute" /\ q.key \in Key /\ q.version # 0 /\ q.at \in Node
  BY <1>2, Zenon DEF Typed, Sent, execute
<1>4. /\ store' = [store EXCEPT ![q.at][q.key] = q.version]
      /\ returned' = (returned \/ (q.at = source /\ q.key = request[migrate].key))
      /\ job' = job /\ source' = source /\ failed' = failed
  BY <1>2, Zenon DEF execute, events
<1> DEFINE a == [q EXCEPT !.pc = "answered"]
           e == IF r = migrate /\ source # 0 THEN a ELSE NoRequest
<1>5. request' = [request EXCEPT ![r] = e]
  BY <1>2, Zenon DEF execute
<1>6. a.key = q.key /\ a.pc = "answered"
  BY Zenon DEF Request
<1>7. request'[r] = e /\ \A x \in Requester : x # r => request'[x] = request[x]
  BY <1>1, <1>5, Zenon
<1> HIDE DEF a, e
<1>8. store'[q.at][q.key] # 0 /\ \A n \in Node, x \in Key : x # q.key => store'[n][x] = store[n][x]
  BY <1>1, <1>3, <1>4, Zenon
<1>9. ASSUME NEW x \in Key, NEW s, Copy(x, s) \/ x = q.key, x = q.key => q.at # s
      PROVE  Copy(x, s)'
  <2>1. CASE x = q.key
    BY <1>3, <1>8, <1>9, <2>1, Zenon DEF Copy
  <2>2. CASE x # q.key
    <3>1. PICK m \in Node : \/ m # s /\ store[m][x] # 0
                            \/ request[m].key = x
                            \/ \E v \in Version : <<x, v>> \in job[m].hand
      BY <1>9, <2>2, Zenon DEF Copy
    <3>2. store'[m][x] = store[m][x]
      BY <1>8, <2>2, Zenon
    <3>3. request[m].key = x => request'[m].key = x
      <4>1. request[m].key = x => m # r
        BY <1>2, <2>2, Zenon
      <4> QED BY <1>7, <4>1, Numbers, Zenon
    <3> QED BY <1>4, <3>1, <3>2, <3>3, Zenon DEF Copy
  <2> QED BY <2>1, <2>2, Zenon
<1>10. Taken'
  BY <1>4, Zenon DEF Taken, InHand
<1>11. Copied'
  <2> SUFFICES ASSUME ~failed', ~returned'
               PROVE  /\ \A x \in Key : Copy(x, 0)'
                      /\ request'[migrate].pc = "answered" /\ source' # 0 => Copy(request[migrate].key, source)'
    BY Zenon DEF Copied
  <2>1. ~failed /\ ~returned /\ ~(q.at = source /\ q.key = request[migrate].key)
    BY <1>4, Zenon DEF Typed
  <2>2. \A x \in Key : Copy(x, 0)'
    BY <1>3, <1>9, <2>1, Numbers, Zenon DEF Copied
  <2>3. ASSUME request'[migrate].pc = "answered", source' # 0
        PROVE  Copy(request[migrate].key, source)'
    <3>1. PICK x, s : x = request[migrate].key /\ s = source
      BY Zenon
    <3>2. s = source' /\ s # 0 /\ (x = q.key => q.at # s)
      BY <1>4, <2>1, <2>3, <3>1, Zenon
    <3>3. request'[migrate].key = x /\ x \in Key /\ (Copy(x, s) \/ x = q.key)
      <4>1. CASE r = migrate
        <5>1. e = a /\ x = q.key
          BY <1>2, <3>1, <3>2, <4>1, Zenon DEF e
        <5> QED BY <1>3, <1>6, <1>7, <4>1, <5>1, Zenon
      <4>2. CASE r # migrate
        <5>1. request'[migrate] = request[migrate]
          BY <1>7, <4>2, Numbers, Zenon
        <5>2. request[migrate].pc = "answered"
          BY <2>3, <5>1, Zenon
        <5>3. x \in Key
          BY <3>1, <5>2, Numbers, Zenon DEF Typed, Sent
        <5>4. Copy(x, s)
          BY <2>1, <3>1, <3>2, <5>2, Zenon DEF Copied
        <5> QED BY <3>1, <5>1, <5>3, <5>4, Zenon
      <4> QED BY <4>1, <4>2, Zenon
    <3>4. Copy(x, s)'
      BY <1>9, <3>2, <3>3, Zenon
    <3> QED BY <3>2, <3>3, <3>4, Zenon DEF Copy
  <2> QED BY <2>2, <2>3, Zenon
<1> QED BY <1>10, <1>11, Zenon

(* MIGRATE deletes its key where it read it, and only there. *)
LEMMA MigratedCopied ==
  ASSUME Typed, Taken, Copied, migrated
  PROVE  Taken' /\ Copied'
<1>1. job' = job /\ source' = 0 /\ source # 0 /\ returned' = returned /\ failed' = failed
  BY Zenon DEF migrated
<1>2. \A m \in Node : request'[m] = request[m]
  BY Numbers, Zenon DEF migrated, Typed
<1>3. CASE store' = store
  <2>1. Kept
    BY <1>1, <1>2, <1>3, Zenon DEF Kept, SameMigrate
  <2> QED BY <1>1, <2>1, CommandKept, Zenon
<1>4. CASE /\ request[migrate].pc = "answered"
           /\ store' = [store EXCEPT ![source][request[migrate].key] = 0]
  <2>1. PICK k, s : k = request[migrate].key /\ s = source
    BY Zenon
  <2>2. k \in Key /\ s \in Node
    BY <1>1, <1>4, <2>1, Numbers, Zenon DEF Typed, Sent
  <2>3. store' = [store EXCEPT ![s][k] = 0] /\ store \in [Node -> [Key -> Version]]
    BY <1>4, <2>1, Zenon DEF Typed
  <2>4. \A m \in Node, x \in Key : m # s \/ x # k => store'[m][x] = store[m][x]
    BY <2>2, <2>3, Zenon
  <2>5. Taken'
    BY <1>1, Zenon DEF Taken, InHand
  <2>6. Copied'
    <3> SUFFICES ASSUME ~failed', ~returned'
                 PROVE  /\ \A x \in Key : Copy(x, 0)'
                        /\ request'[migrate].pc = "answered" /\ source' # 0 => Copy(request[migrate].key, source)'
      BY Zenon DEF Copied
    <3>1. ~failed /\ ~returned
      BY <1>1, Zenon
    <3>2. ASSUME NEW x \in Key PROVE Copy(x, 0)'
      <4>1. CASE x = k
        <5>1. Copy(k, s)
          BY <1>1, <1>4, <2>1, <3>1, Zenon DEF Copied
        <5>2. PICK m \in Node : \/ m # s /\ store[m][k] # 0
                                \/ request[m].key = k
                                \/ \E v \in Version : <<k, v>> \in job[m].hand
          BY <5>1, Zenon DEF Copy
        <5>3. m # 0
          BY Numbers, Zenon
        <5> QED BY <1>1, <1>2, <2>2, <2>4, <4>1, <5>2, <5>3, Zenon DEF Copy
      <4>2. CASE x # k
        <5>1. Copy(x, 0)
          BY <3>1, Zenon DEF Copied
        <5>2. \A m \in Node : store'[m][x] = store[m][x]
          BY <2>4, <4>2, Zenon
        <5> QED BY <1>1, <1>2, <5>1, <5>2, Zenon DEF Copy
      <4> QED BY <4>1, <4>2, Zenon
    <3> QED BY <1>1, <3>2, Zenon
  <2> QED BY <2>5, <2>6, Zenon
<1> QED BY <1>3, <1>4, Zenon DEF migrated

-----------------------------------------------------------------------------
(* The invariant *)

MigInv == Typed /\ Listed /\ Taken /\ Copied /\ Membership

LEMMA InitMigInv == Init => MigInv
<1> SUFFICES ASSUME Init PROVE MigInv
  BY Zenon
<1>1. PICK nodes \in NodeList :
        /\ config = Members(nodes)
        /\ store = [n \in Node |->
                      [k \in Key |-> IF n \in nodes /\ node_for_slot(nodes, k) = n THEN 1 ELSE 0]]
  BY Zenon DEF Init
<1>2. /\ job = [n \in Node |-> NoJob] /\ request = [r \in Requester |-> NoRequest]
      /\ started = FALSE /\ puts = 0 /\ timeouts = 0 /\ failed = FALSE /\ unreached = {} /\ migrates = 0
      /\ source = 0 /\ returned = FALSE
  BY Zenon DEF Init
<1>3. config \in [Node -> NodeList] /\ \A n \in Node : n \in config[n]
  <2>1. ASSUME NEW n \in Node PROVE {n} \in NodeList
    <3>1. Cardinality({n}) = 1
      BY FS_Singleton, Zenon
    <3> QED BY <3>1, SlotsAssumption DEF NodeList
  <2> QED BY <1>1, <2>1, Zenon DEF Members
<1>4. Typed
  <2>1. 0 \in Version /\ 1 \in Version
    BY EventsAssumption DEF Version
  <2>2. store \in [Node -> [Key -> Version]]
    BY <1>1, <2>1, Zenon
  <2>3. request \in [Requester -> Request] /\ \A r \in Requester : Sent(request[r])
    BY <1>2, NoRequestFields, NoRequestSent, Zenon
  <2>4. job \in [Node -> Job]
    BY <1>2, NoJobFields, Zenon
  <2>5. puts + timeouts + migrates <= MaxEvents
    BY <1>2, EventsAssumption
  <2> QED BY <1>2, <1>3, <2>2, <2>3, <2>4, <2>5, Zenon DEF Typed
<1>5. Listed
  BY <1>2, <1>3, NoJobFields, Zenon DEF Listed
<1>6. Taken
  BY <1>2, NoJobFields, Zenon DEF Taken, InHand
<1>7. Copied
  <2>1. ASSUME NEW k \in Key PROVE Copy(k, 0)
    <3>1. node_for_slot(nodes, k) \in nodes /\ nodes \subseteq Node
      BY ForwardedToOwner, KeyAssumption, Zenon DEF NodeList
    <3>2. store[node_for_slot(nodes, k)][k] # 0
      BY <1>1, <3>1
    <3> QED BY <3>1, <3>2, Numbers, Zenon DEF Copy
  <2>2. source = 0
    BY <1>2, Zenon
  <2> QED BY <2>1, <2>2, Zenon DEF Copied
<1>8. Membership
  BY <1>1, <1>2, Zenon DEF Membership
<1> QED BY <1>4, <1>5, <1>6, <1>7, <1>8, Zenon DEF MigInv

LEMMA NextCopied ==
  ASSUME Typed, Listed, Taken, Copied, [Next]_vars
  PROVE  Taken' /\ Copied'
<1>1. CASE UNCHANGED vars
  <2>1. job' = job /\ Kept
    BY <1>1, Zenon DEF vars, Kept, SameMigrate
  <2> QED BY <2>1, CommandKept, Zenon
<1>2. ASSUME NEW n \in Node, Handler(n) PROVE Taken' /\ Copied'
  BY <1>2, SendCopied, AnsweredCopied, FinishCopied, DelCopied, ListKeysCopied, TakeCopied, PushCopied
    , Zenon DEF Handler
<1>3. ASSUME NEW n \in Node, NEW m \in Node, meet(n, m) \/ forget(n, m) PROVE Taken' /\ Copied'
  BY <1>3, OperatorCopied, Zenon
<1>4. ASSUME NEW r \in Requester, route(r) \/ execute(r) \/ request_fails(r) PROVE Taken' /\ Copied'
  BY <1>4, RouteCopied, ExecuteCopied, RequestFailsCopied, Zenon
<1>5. ASSUME NEW k \in Key, NEW n \in Node, put(k, n) PROVE Taken' /\ Copied'
  BY <1>5, PutCopied, Zenon
<1>6. ASSUME NEW n \in Node, NEW k \in Key, NEW t \in Node, cmd_migrate(n, k, t) PROVE Taken' /\ Copied'
  BY <1>6, MigrateCopied, Zenon
<1>7. ASSUME NEW n \in Node, send_internal_fails(n) PROVE Taken' /\ Copied'
  BY <1>7, SendFailsCopied, Zenon
<1> QED BY <1>1, <1>2, <1>3, <1>4, <1>5, <1>6, <1>7, MigratedCopied, Zenon DEF Next

LEMMA NextMigInv == MigInv /\ [Next]_vars => MigInv'
<1> SUFFICES ASSUME MigInv, [Next]_vars PROVE MigInv'
  BY Zenon
<1>1. Typed /\ Listed /\ Taken /\ Copied /\ Membership
  BY Zenon DEF MigInv
<1>2. Typed'
  BY <1>1, NextTyped, Zenon
<1>3. Listed' /\ Membership'
  BY <1>1, <1>2, NextListed, Zenon
<1>4. Taken' /\ Copied'
  BY <1>1, NextCopied, Zenon
<1> QED BY <1>2, <1>3, <1>4, Zenon DEF MigInv

LEMMA MigrationInvariant == Spec => []MigInv
BY InitMigInv, NextMigInv, PTL DEF Spec

(* While a node joins or leaves, with MIGRATE moving keys and clients      *)
(* writing them, no key is ever without a copy, in a store or on its way,  *)
(* as long as no command between nodes fails: drain_slots has a key in its *)
(* hand before it deletes it, push_entries_to sends it before it forgets   *)
(* it, and MIGRATE deletes it when another node has it.                    *)
THEOREM KeysKept == Spec => []KeyNeverVanishes
<1>1. MigInv => KeyNeverVanishes
  <2> SUFFICES ASSUME MigInv, ~failed, ~returned, NEW k \in Key
               PROVE  \E n \in Node : \/ store[n][k] # 0
                                      \/ request[n].key = k
                                      \/ \E v \in Version : <<k, v>> \in job[n].hand
    BY Zenon DEF KeyNeverVanishes
  <2>1. Copy(k, 0)
    BY Zenon DEF MigInv, Copied
  <2> QED BY <2>1, Zenon DEF Copy
<1> QED BY <1>1, MigrationInvariant, PTL

(* When MEET or FORGET is over, two nodes that count each other as members *)
(* route by the same list, however many calls timed out, if SYNC reached   *)
(* both or neither: CLUSTER SYNC goes on after its caller gave up, a node  *)
(* that leaves is on no new list, and a node that was not reached has the  *)
(* list from before.                                                       *)
THEOREM ListsAgree == Spec => []AgreeWhenDone
<1>1. MigInv => AgreeWhenDone
  <2> SUFFICES ASSUME MigInv, Idle, NEW n \in Node, NEW m \in Node, m \in config[n], n \in config[m],
                      n \in unreached <=> m \in unreached
               PROVE  config[n] = config[m]
    BY Zenon DEF AgreeWhenDone
  <2>1. Membership
    BY Zenon DEF MigInv
  <2>2. CASE ~started
    <3>1. PICK old \in NodeList : config = Members(old)
      BY <2>1, <2>2, Zenon DEF Membership
    <3> QED BY <3>1, Zenon DEF Members
  <2>3. CASE started
    <3>1. PICK old \in NodeList, new \in NodeList, c \in Node : Change(old, new, c)
      BY <2>1, <2>3, Zenon DEF Membership
    <3>2. \A x \in Node : job[x].commit = FALSE /\ job[x].calls = {}
      BY NoJobFields, Zenon DEF Idle
    <3>3. \A x \in Node : x \in new /\ x \notin unreached => config[x] = new
      BY <3>1, <3>2, Zenon DEF Change
    <3>4. \A x \in Node : x \notin new \/ x \in unreached => config[x] = Members(old)[x]
      BY <3>1, Zenon DEF Change
    <3>5. CASE n \notin unreached /\ (n \in new \/ m \in new)
      <4>1. n \notin unreached /\ m \notin unreached
        BY <3>5, Zenon
      <4>2. n \in new /\ m \in new
        BY <3>3, <3>5, <4>1, Zenon
      <4> QED BY <3>3, <4>1, <4>2, Zenon
    <3>6. CASE n \in unreached \/ (n \notin new /\ m \notin new)
      <4>1. config[n] = Members(old)[n] /\ config[m] = Members(old)[m]
        BY <3>4, <3>6, Zenon
      <4> QED BY <4>1, Zenon DEF Members
    <3> QED BY <3>5, <3>6, Zenon
  <2> QED BY <2>2, <2>3, Zenon
<1> QED BY <1>1, MigrationInvariant, PTL

=============================================================================
