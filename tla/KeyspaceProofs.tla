--------------------------- MODULE KeyspaceProofs ---------------------------
(***************************************************************************)
(* The keyspace under concurrent clients, for every set of keys and any    *)
(* number of clients: the store and the commands are well typed, no list   *)
(* element is ever in two places, and what the commands answer of their    *)
(* keys is witnessed.                                                      *)
(***************************************************************************)
EXTENDS Keyspace, TLAPS

(* The keys left after the first. *)
LEMMA TailKeys ==
  ASSUME NEW s \in Seq(Key), s # <<>>
  PROVE  /\ Head(s) \in Key /\ Tail(s) \in Seq(Key) /\ Len(Tail(s)) = Len(s) - 1
         /\ (Len(s) = 1) <=> (Tail(s) = <<>>)
         /\ {s[i] : i \in DOMAIN s} = {Head(s)} \cup {Tail(s)[i] : i \in DOMAIN Tail(s)}
<1>1. Head(s) \in Key /\ Tail(s) \in Seq(Key) /\ Len(Tail(s)) = Len(s) - 1 /\ Len(s) \in Nat \ {0}
  OBVIOUS
<1>2. \A i \in 1 .. Len(s) - 1 : Tail(s)[i] = s[i + 1]
  OBVIOUS
<1>3. DOMAIN s = 1 .. Len(s) /\ DOMAIN Tail(s) = 1 .. Len(s) - 1 /\ Head(s) = s[1]
  BY <1>1
<1>4. \A i \in DOMAIN s : i # 1 => i - 1 \in DOMAIN Tail(s) /\ s[i] = Tail(s)[i - 1]
  BY <1>1, <1>2, <1>3
<1>5. \A i \in DOMAIN Tail(s) : i + 1 \in DOMAIN s /\ s[i + 1] = Tail(s)[i]
  BY <1>1, <1>2, <1>3
<1>6. 1 \in DOMAIN s
  BY <1>1, <1>3
<1>7. {s[i] : i \in DOMAIN s} = {Head(s)} \cup {Tail(s)[i] : i \in DOMAIN Tail(s)}
  <2>1. ASSUME NEW i \in DOMAIN s PROVE s[i] = Head(s) \/ \E j \in DOMAIN Tail(s) : s[i] = Tail(s)[j]
    BY <1>3, <1>4, Zenon
  <2>2. ASSUME NEW j \in DOMAIN Tail(s) PROVE \E i \in DOMAIN s : Tail(s)[j] = s[i]
    BY <1>5, Zenon
  <2>3. \E i \in DOMAIN s : Head(s) = s[i]
    BY <1>3, <1>6, Zenon
  <2> QED BY <2>1, <2>2, <2>3
<1>8. (Len(s) = 1) <=> (Tail(s) = <<>>)
  <2>1. \A q \in Seq(Key) : (q = <<>>) <=> (Len(q) = 0)
    OBVIOUS
  <2>2. (Tail(s) = <<>>) <=> (Len(Tail(s)) = 0)
    BY <1>1, <2>1, Zenon
  <2> QED BY <1>1, <2>2
<1> QED BY <1>1, <1>7, <1>8, Zenon

LEMMA RequestFields ==
  ASSUME NEW r \in Requests
  PROVE  \/ /\ r.op \in {"get", "getset", "set nx", "set xx", "setnx", "ttl"}
            /\ r.keys \in {<<k>> : k \in Key}
         \/ /\ r.op \in {"mget", "mset", "del", "exists"} \cup Iteration \cup Combine
            /\ r.keys \in AllKeys
         \/ r.op \in {"lmove", "smove"}
         \/ r.op \in CombineStore
<1>1. CASE r \in [op : {"get", "getset", "set nx", "set xx", "setnx", "ttl"}, keys : {<<k>> : k \in Key}]
  BY <1>1, Zenon
<1>2. CASE r \in [op : {"mget", "mset", "del", "exists"} \cup Iteration \cup Combine, keys : AllKeys]
  BY <1>2, Zenon
<1>3. CASE r \in [op : {"lmove", "smove"}, keys : Key \X Key]
  BY <1>3, Zenon
<1>4. CASE r \in [op : CombineStore, keys : StoreKeys]
  BY <1>4, Zenon
<1> QED BY <1>1, <1>2, <1>3, <1>4, Zenon DEF Requests

-----------------------------------------------------------------------------
(* Where the list elements are: D are the lists of the keys, H the hands   *)
(* of the clients.                                                         *)

Lists == [Key -> Seq(Token)]
Hands == [Client -> SUBSET (Token \cup Member)]

InLists(x, D) == \E k \in Key : \E i \in 1 .. Len(D[k]) : D[k][i] = x

Apart(D, H) ==
  /\ \A k, l \in Key : \A i \in 1 .. Len(D[k]) : \A j \in 1 .. Len(D[l]) :
       D[k][i] = D[l][j] => k = l /\ i = j
  /\ \A c \in Client : \A x \in H[c] : ~InLists(x, D)
  /\ \A b, c \in Client : \A x \in Token : x \in H[b] /\ x \in H[c] => b = c

(* s without some of its first and some of its last elements. *)
Shortened(q, s) ==
  \E o \in Nat : o + Len(q) <= Len(s) /\ \A i \in 1 .. Len(q) : q[i] = s[i + o]

LEMMA Shorter ==
  ASSUME NEW s \in Seq(Token)
  PROVE  /\ Shortened(s, s) /\ Shortened(<<>>, s)
         /\ s # <<>> => Shortened(Tail(s), s) /\ Shortened(SubSeq(s, 1, Len(s) - 1), s)
<1>1. Shortened(s, s) /\ Shortened(<<>>, s)
  <2>1. 0 \in Nat /\ Len(s) \in Nat /\ Len(<<>>) = 0
    OBVIOUS
  <2>2. \A i \in 1 .. Len(s) : s[i] = s[i + 0]
    <3> TAKE i \in 1 .. Len(s)
    <3>1. i + 0 = i
      OBVIOUS
    <3> QED BY <3>1, Zenon
  <2>3. Shortened(s, s)
    <3> SUFFICES \E o \in Nat : o + Len(s) <= Len(s) /\ \A i \in 1 .. Len(s) : s[i] = s[i + o]
      BY Zenon DEF Shortened
    <3> WITNESS 0 \in Nat
    <3>1. 0 + Len(s) <= Len(s)
      BY <2>1
    <3> QED BY <2>2, <3>1, Zenon
  <2> QED BY <2>1, <2>3 DEF Shortened
<1>2. ASSUME s # <<>> PROVE Shortened(Tail(s), s)
  <2>1. /\ Len(s) \in Nat \ {0} /\ Len(Tail(s)) = Len(s) - 1
        /\ \A i \in 1 .. Len(Tail(s)) : Tail(s)[i] = s[i + 1]
    BY <1>2
  <2> QED BY <2>1 DEF Shortened
<1>3. ASSUME s # <<>> PROVE Shortened(SubSeq(s, 1, Len(s) - 1), s)
  <2> DEFINE q == SubSeq(s, 1, Len(s) - 1)
  <2>1. Len(s) \in Nat \ {0}
    BY <1>3
  <2>a. \A i \in 1 .. Len(s) - 1 : s[i] \in Token
    BY <2>1
  <2>2. /\ Len(q) = IF 1 <= Len(s) - 1 THEN Len(s) - 1 - 1 + 1 ELSE 0
        /\ \A i \in 1 .. Len(s) - 1 - 1 + 1 : q[i] = s[1 + i - 1]
    BY <2>1, <2>a
  <2> HIDE DEF q
  <2>b. Len(q) = Len(s) - 1
    <3>1. CASE Len(s) = 1
      BY <2>2, <3>1
    <3>2. CASE Len(s) # 1
      <4>1. \A n \in Nat \ {0} : n # 1 => 1 <= n - 1 /\ n - 1 - 1 + 1 = n - 1
        OBVIOUS
      <4>2. 1 <= Len(s) - 1 /\ Len(s) - 1 - 1 + 1 = Len(s) - 1
        BY ONLY <2>1, <3>2, <4>1, Zenon
      <4> QED BY <2>2, <4>2, Zenon
    <3> QED BY <3>1, <3>2, Zenon
  <2>3. \A i \in 1 .. Len(q) : q[i] = s[i + 0]
    <3> TAKE i \in 1 .. Len(q)
    <3>1. i + 0 = 1 + i - 1 /\ i \in 1 .. Len(s) - 1 - 1 + 1
      BY <2>1, <2>b
    <3> QED BY <2>2, <3>1, Zenon
  <2>4. 0 \in Nat /\ 0 + Len(q) <= Len(s)
    BY <2>1, <2>b
  <2> QED BY <2>3, <2>4, Zenon DEF Shortened, q
<1> QED BY <1>1, <1>2, <1>3, Zenon

(* Elements may go. *)
LEMMA ApartFewer ==
  ASSUME NEW D \in Lists, NEW H \in Hands, NEW E \in Lists, NEW G \in Hands, Apart(D, H),
         \A k \in Key : Shortened(E[k], D[k]), \A c \in Client : G[c] \subseteq H[c]
  PROVE  Apart(E, G)
<1>0. ASSUME NEW k \in Key
      PROVE  \E o \in Nat : \A i \in 1 .. Len(E[k]) :
               i + o \in 1 .. Len(D[k]) /\ E[k][i] = D[k][i + o]
  <2>1. PICK o \in Nat : o + Len(E[k]) <= Len(D[k])
                         /\ \A i \in 1 .. Len(E[k]) : E[k][i] = D[k][i + o]
    BY Zenon DEF Shortened
  <2>2. D[k] \in Seq(Token) /\ E[k] \in Seq(Token)
    BY Zenon DEF Lists
  <2>3. Len(D[k]) \in Nat /\ Len(E[k]) \in Nat
    BY <2>2
  <2>4. \A i \in 1 .. Len(E[k]) : i + o \in 1 .. Len(D[k])
    BY <2>1, <2>3
  <2> QED BY <2>1, <2>4, Zenon
<1>1. ASSUME NEW k \in Key, NEW l \in Key, NEW i \in 1 .. Len(E[k]), NEW j \in 1 .. Len(E[l]),
             E[k][i] = E[l][j]
      PROVE  k = l /\ i = j
  <2>1. PICK o \in Nat : \A a \in 1 .. Len(E[k]) :
                           a + o \in 1 .. Len(D[k]) /\ E[k][a] = D[k][a + o]
    BY <1>0, Zenon
  <2>2. PICK u \in Nat : \A a \in 1 .. Len(E[l]) :
                           a + u \in 1 .. Len(D[l]) /\ E[l][a] = D[l][a + u]
    BY <1>0, Zenon
  <2>3. D[k][i + o] = D[l][j + u] /\ i + o \in 1 .. Len(D[k]) /\ j + u \in 1 .. Len(D[l])
    BY <1>1, <2>1, <2>2, Zenon
  <2>4. k = l /\ i + o = j + u
    BY <2>3, Zenon DEF Apart
  <2>5. i + o \in 1 .. Len(D[k]) /\ E[k][i] = D[k][i + o] /\ j + o \in 1 .. Len(D[k])
        /\ E[k][j] = D[k][j + o]
    BY <2>1, <2>4, Zenon
  <2>6. D[k][i + o] = D[k][j + o]
    BY <1>1, <2>4, <2>5, Zenon
  <2>7. i + o = j + o
    BY <2>5, <2>6 DEF Apart
  <2> QED BY <2>4, <2>7
<1>2. ASSUME NEW c \in Client, NEW x \in G[c], InLists(x, E) PROVE FALSE
  <2>0. PICK k \in Key : \E i \in 1 .. Len(E[k]) : E[k][i] = x
    BY <1>2, Zenon DEF InLists
  <2>1. PICK i \in 1 .. Len(E[k]) : E[k][i] = x
    BY <2>0, Zenon
  <2>2. InLists(x, D)
    BY <1>0, <2>1, Zenon DEF InLists
  <2> QED BY <2>2, Zenon DEF Apart
<1>3. \A b, c \in Client : \A x \in Token : x \in G[b] /\ x \in G[c] => b = c
  BY Zenon DEF Apart
<1> QED BY <1>1, <1>2, <1>3, Zenon DEF Apart

(* An element may go to the hand of a client. *)
LEMMA ApartHeld ==
  ASSUME NEW D \in Lists, NEW H \in Hands, Apart(D, H), NEW c \in Client, NEW x,
         ~InLists(x, D), x \in Token => \A b \in Client : x \notin H[b]
  PROVE  Apart(D, [H EXCEPT ![c] = {x}])
<1>1. DOMAIN H = Client
  BY Zenon DEF Hands
<1> QED BY <1>1 DEF Apart

(* An element that is nowhere may be put at either end of a list. *)
LEMMA ApartPut ==
  ASSUME NEW D \in Lists, NEW H \in Hands, Apart(D, H), NEW k \in Key, NEW x \in Token,
         ~InLists(x, D), \A c \in Client : x \notin H[c],
         NEW s, s \in {<<x>> \o D[k], Append(D[k], x)}
  PROVE  Apart([D EXCEPT ![k] = s], H)
<1> DEFINE E == [D EXCEPT ![k] = s]
<1>1. D[k] \in Seq(Token) /\ E[k] = s /\ \A l \in Key : l # k => E[l] = D[l]
  BY Zenon DEF Lists
<1>2. PICK o \in {0, 1}, p \in 1 .. Len(D[k]) + 1 :
        /\ Len(s) = Len(D[k]) + 1 /\ s[p] = x
        /\ \A i \in 1 .. Len(s) : i # p => i - o \in 1 .. Len(D[k]) /\ s[i] = D[k][i - o]
  <2>1. CASE s = <<x>> \o D[k]
    <3>1. Len(s) = Len(D[k]) + 1 /\ s[1] = x /\ Len(D[k]) \in Nat
      BY <1>1, <2>1
    <3>2. \A i \in 1 .. Len(s) : i # 1 => i - 1 \in 1 .. Len(D[k]) /\ s[i] = D[k][i - 1]
      BY <1>1, <2>1, <3>1
    <3> QED BY <3>1, <3>2
  <2>2. CASE s = Append(D[k], x)
    <3>1. Len(s) = Len(D[k]) + 1 /\ s[Len(D[k]) + 1] = x /\ Len(D[k]) \in Nat
      BY <1>1, <2>2
    <3>2. \A i \in 1 .. Len(s) : i # Len(D[k]) + 1 => i - 0 \in 1 .. Len(D[k]) /\ s[i] = D[k][i - 0]
      BY <1>1, <2>2, <3>1
    <3> QED BY <3>1, <3>2
  <2> QED BY <2>1, <2>2, Zenon
<1>3. Len(D[k]) \in Nat
  BY <1>1
<1> HIDE DEF E
<1>4. ASSUME NEW l \in Key, NEW i \in 1 .. Len(E[l]), ~ (l = k /\ i = p)
      PROVE  InLists(E[l][i], D)
  BY <1>1, <1>2, <1>4 DEF InLists
<1>5. ASSUME NEW l \in Key, NEW i \in 1 .. Len(E[l]), NEW m \in Key, NEW j \in 1 .. Len(E[m]),
             E[l][i] = E[m][j]
      PROVE  l = m /\ i = j
  <2>1. CASE l = k /\ i = p
    BY <1>1, <1>2, <1>4, <1>5, <2>1, Zenon
  <2>2. CASE m = k /\ j = p
    BY <1>1, <1>2, <1>4, <1>5, <2>2, Zenon
  <2>3. CASE ~ (l = k /\ i = p) /\ ~ (m = k /\ j = p)
    <3>1. CASE l # k /\ m # k
      <4>1. i \in 1 .. Len(D[l]) /\ j \in 1 .. Len(D[m]) /\ D[l][i] = D[m][j]
        BY <1>1, <1>5, <3>1, Zenon
      <4> QED BY <4>1 DEF Apart
    <3>2. CASE l = k /\ m # k
      <4>1. i - o \in 1 .. Len(D[k]) /\ j \in 1 .. Len(D[m]) /\ D[k][i - o] = D[m][j]
        BY <1>1, <1>2, <1>5, <2>3, <3>2, Zenon
      <4> QED BY <3>2, <4>1, Zenon DEF Apart
    <3>3. CASE l # k /\ m = k
      <4>1. i \in 1 .. Len(D[l]) /\ j - o \in 1 .. Len(D[k]) /\ D[l][i] = D[k][j - o]
        BY <1>1, <1>2, <1>5, <2>3, <3>3, Zenon
      <4> QED BY <3>3, <4>1 DEF Apart
    <3>4. CASE l = k /\ m = k
      <4>1. /\ i - o \in 1 .. Len(D[k]) /\ j - o \in 1 .. Len(D[k])
            /\ D[k][i - o] = D[k][j - o]
        BY <1>1, <1>2, <1>5, <2>3, <3>4, Zenon
      <4>2. \A a, b \in 1 .. Len(D[k]) : D[k][a] = D[k][b] => a = b
        BY Zenon DEF Apart
      <4>3. i - o = j - o
        BY <4>1, <4>2, Zenon
      <4> QED BY <1>1, <1>2, <1>3, <3>4, <4>3
    <3> QED BY <3>1, <3>2, <3>3, <3>4, Zenon
  <2> QED BY <2>1, <2>2, <2>3, Zenon
<1>6. ASSUME NEW c \in Client, NEW y \in H[c], InLists(y, E) PROVE FALSE
  <2>0. PICK l \in Key : \E i \in 1 .. Len(E[l]) : E[l][i] = y
    BY <1>6, Zenon DEF InLists
  <2>1. PICK i \in 1 .. Len(E[l]) : E[l][i] = y
    BY <2>0, Zenon
  <2>2. CASE l = k /\ i = p
    BY <1>1, <1>2, <2>1, <2>2, Zenon
  <2>3. CASE ~ (l = k /\ i = p)
    BY <1>4, <2>1, <2>3 DEF Apart
  <2> QED BY <2>2, <2>3, Zenon
<1> QED BY <1>5, <1>6, Zenon DEF Apart, E

-----------------------------------------------------------------------------
(* The stages and operations of a command. *)
Stages == {"idle", "done", "get", "expired", "look", "insert", "remove", "take", "put", "read", "store"}
Ops == {"none"} \cup {r.op : r \in Requests}

(* A command that is not answered has a key to visit; LMOVE and SMOVE have *)
(* two, and one while they hold an element; the sources of a stored        *)
(* combination are followed by the destination.                            *)
Shape(r) ==
  /\ r \in Command
  /\ r.stage \notin {"idle", "done"} => r.keys # <<>>
  /\ r.stage = "take" => r.op \in {"lmove", "smove"} /\ Len(r.keys) = 2
  /\ r.stage = "put" /\ r.op = "lmove" => r.hand \subseteq Token
  /\ r.stage = "put" /\ r.op = "smove" => r.hand \subseteq Member
  /\ r.stage = "read" => r.op \in Combine \cup CombineStore
  /\ r.stage = "read" /\ r.op \in CombineStore => Len(r.keys) >= 2
  /\ r.stage = "store" => r.op \in CombineStore /\ r.sets # <<>>

Items == [k \in Key |-> data[k].value.items]
HandsOf == [c \in Client |-> client[c].hand]

PInv == TypeOK /\ (\A c \in Client : Shape(client[c])) /\ Apart(Items, HandsOf)

-----------------------------------------------------------------------------
(* Entries *)
LEMMA NewValues ==
  /\ string \in Value /\ string.items = <<>> /\ string.members = {}
  /\ \A s \in Seq(Token) : list(s) \in Value /\ list(s).items = s /\ list(s).kind = "list"
  /\ \A s \in SUBSET Member : set(s) \in Value /\ set(s).items = <<>> /\ set(s).members = s
<1>1. string \in Value /\ string.items = <<>> /\ string.members = {}
  BY Zenon DEF string, Value
<1>2. ASSUME NEW s \in Seq(Token) PROVE list(s) \in Value /\ list(s).items = s /\ list(s).kind = "list"
  BY Zenon DEF list, Value
<1>3. ASSUME NEW s \in SUBSET Member
      PROVE  set(s) \in Value /\ set(s).items = <<>> /\ set(s).members = s
  BY Zenon DEF set, Value
<1> QED BY <1>1, <1>2, <1>3, Zenon

LEMMA ValueFields ==
  ASSUME NEW v \in Value
  PROVE  /\ v.items \in Seq(Token) /\ v.members \in SUBSET Member
         /\ v.items # <<>> => v.kind = "list"
         /\ v.kind \in {"string", "list", "set"}
<1>1. CASE v = string
  BY <1>1 DEF string
<1>2. CASE v \in {set(s) : s \in SUBSET Member}
  <2>1. PICK s \in SUBSET Member : v = set(s)
    BY <1>2, Zenon
  <2> QED BY <2>1 DEF set
<1>3. CASE v \in [kind : {"list"}, items : Seq(Token), members : {{}}]
  BY <1>3, Zenon
<1> QED BY <1>1, <1>2, <1>3, Zenon DEF Value

LEMMA NewEntry ==
  ASSUME NEW v \in Value, NEW t \in {"none", "ahead", "past"}
  PROVE  entry(v, t) \in Entry /\ entry(v, t).value = v
BY Zenon DEF entry, Entry

LEMMA MissingFields ==
  /\ missing.value.items = <<>> /\ missing.value.members = {} /\ missing.expires_at = "none"
  /\ missing.value.kind = "none"
BY Zenon DEF missing, entry

LEMMA EntryFields ==
  ASSUME NEW e \in Entry \cup {missing}
  PROVE  /\ e.value.items \in Seq(Token) /\ e.value.members \in SUBSET Member
         /\ e.value.items # <<>> => e # missing
         /\ e.value.members # {} => e # missing
         /\ e.expires_at # "none" => e # missing
         /\ e # missing => e \in Entry /\ e.value \in Value
<1>1. CASE e = missing
  BY <1>1, MissingFields
<1>2. CASE e \in Entry
  <2>1. e.value \in Value
    BY <1>2, Zenon DEF Entry
  <2> QED BY <1>2, <2>1, ValueFields, MissingFields, Zenon
<1> QED BY <1>1, <1>2, Zenon

LEMMA EntryUpdate ==
  ASSUME NEW e \in Entry
  PROVE  /\ \A v \in Value : [e EXCEPT !.value = v] \in Entry /\ [e EXCEPT !.value = v].value = v
         /\ \A t \in {"none", "ahead", "past"} :
              [e EXCEPT !.expires_at = t] \in Entry /\ [e EXCEPT !.expires_at = t].value = e.value
BY Zenon DEF Entry

-----------------------------------------------------------------------------
(* Writes *)
Stored == /\ data' \in [Key -> Entry \cup {missing}]
          /\ ever' \in [Client -> SUBSET Key] /\ always' \in [Client -> SUBSET Key]

LEMMA WriteEntry ==
  ASSUME TypeOK, NEW k \in Key, NEW e \in Entry \cup {missing}, write([data EXCEPT ![k] = e])
  PROVE  Stored /\ Items' = [Items EXCEPT ![k] = e.value.items]
<1>1. data' = [data EXCEPT ![k] = e] /\ data' \in [Key -> Entry \cup {missing}]
  BY Zenon DEF write, TypeOK
<1>2. ever' \in [Client -> SUBSET Key] /\ always' \in [Client -> SUBSET Key]
  BY Zenon DEF write, TypeOK, live
<1>3. Items' = [Items EXCEPT ![k] = e.value.items]
  BY <1>1, Zenon DEF TypeOK, Items
<1> QED BY <1>1, <1>2, <1>3, Zenon DEF Stored

LEMMA WriteField ==
  ASSUME TypeOK, NEW k \in Key, data[k] # missing
  PROVE  /\ \A v \in Value : write([data EXCEPT ![k].value = v]) =>
                Stored /\ Items' = [Items EXCEPT ![k] = v.items]
         /\ \A t \in {"none", "ahead", "past"} : write([data EXCEPT ![k].expires_at = t]) =>
                Stored /\ Items' = Items
<1>0. data[k] \in Entry /\ data \in [Key -> Entry \cup {missing}]
  BY Zenon DEF TypeOK
<1>1. ASSUME NEW v \in Value, write([data EXCEPT ![k].value = v])
      PROVE  Stored /\ Items' = [Items EXCEPT ![k] = v.items]
  <2> DEFINE e == [data[k] EXCEPT !.value = v]
  <2>1. e \in Entry /\ e.value = v
    BY <1>0, EntryUpdate, Zenon
  <2>2. [data EXCEPT ![k].value = v] = [data EXCEPT ![k] = e]
    BY <1>0, Zenon
  <2> HIDE DEF e
  <2>3. write([data EXCEPT ![k] = e])
    BY <1>1, <2>2, Zenon
  <2> QED BY <2>1, <2>3, WriteEntry, Zenon
<1>2. ASSUME NEW t \in {"none", "ahead", "past"}, write([data EXCEPT ![k].expires_at = t])
      PROVE  Stored /\ Items' = Items
  <2> DEFINE e == [data[k] EXCEPT !.expires_at = t]
  <2>1. e \in Entry /\ e.value = data[k].value
    BY <1>0, EntryUpdate, Zenon
  <2>2. [data EXCEPT ![k].expires_at = t] = [data EXCEPT ![k] = e]
    BY <1>0, Zenon
  <2> HIDE DEF e
  <2>3. write([data EXCEPT ![k] = e])
    BY <1>2, <2>2, Zenon
  <2>4. Stored /\ Items' = [Items EXCEPT ![k] = e.value.items]
    BY <2>1, <2>3, WriteEntry, Zenon
  <2> QED BY <2>1, <2>4, Zenon DEF Items
<1> QED BY <1>1, <1>2, Zenon

-----------------------------------------------------------------------------
(* Commands *)
LEMMA CommandFields ==
  ASSUME NEW r \in Command
  PROVE  /\ r.op \in Ops /\ r.stage \in Stages /\ r.args \in SUBSET Key /\ r.keys \in Seq(Key)
         /\ r.found \in SUBSET Key /\ r.sets \in Seq(SUBSET Member)
         /\ r.hand \in SUBSET (Token \cup Member)
         /\ r.keys # <<>> => /\ Head(r.keys) \in Key /\ Tail(r.keys) \in Seq(Key)
                             /\ Len(Tail(r.keys)) = Len(r.keys) - 1
                             /\ (Tail(r.keys) = <<>>) <=> (Len(r.keys) = 1)
<1>1. /\ r.op \in Ops /\ r.stage \in Stages /\ r.args \in SUBSET Key /\ r.keys \in Seq(Key)
      /\ r.found \in SUBSET Key /\ r.sets \in Seq(SUBSET Member)
      /\ r.hand \in SUBSET (Token \cup Member)
  <2> HIDE DEF Requests
  <2> QED BY Zenon DEF Command, Ops, Stages
<1>2. ASSUME r.keys # <<>>
      PROVE  /\ Head(r.keys) \in Key /\ Tail(r.keys) \in Seq(Key)
             /\ Len(Tail(r.keys)) = Len(r.keys) - 1
             /\ (Tail(r.keys) = <<>>) <=> (Len(r.keys) = 1)
  <2> DEFINE ks == r.keys
  <2>1. ks \in Seq(Key) /\ ks # <<>>
    BY <1>1, <1>2, Zenon
  <2> HIDE DEF ks
  <2>2. /\ Head(ks) \in Key /\ Tail(ks) \in Seq(Key) /\ Len(Tail(ks)) = Len(ks) - 1
        /\ (Tail(ks) = <<>>) <=> (Len(ks) = 1)
    BY <2>1, TailKeys, Zenon
  <2> QED BY <2>2, Zenon DEF ks
<1> QED BY <1>1, <1>2, Zenon

(* A command is a record, whose fields the handlers change. *)
LEMMA CommandRecords ==
  Command = [op : Ops, stage : Stages, args : SUBSET Key, keys : Seq(Key), found : SUBSET Key,
             sets : Seq(SUBSET Member), hand : SUBSET (Token \cup Member)]
BY Zenon DEF Command, Ops, Stages

LEMMA VisitedShape ==
  ASSUME NEW r, Shape(r), r.stage \in {"get", "look", "insert", "remove"}
  PROVE  Shape(visited(r)) /\ visited(r).hand = r.hand
<1> DEFINE a == [r EXCEPT !.keys = Tail(r.keys)]
           st == IF Len(r.keys) = 1 THEN "done" ELSE r.stage
           q == [a EXCEPT !.stage = st]
<1>1. r \in Command /\ r.keys # <<>>
  BY Zenon DEF Shape
<1>2. Tail(r.keys) \in Seq(Key) /\ ((Tail(r.keys) = <<>>) <=> (Len(r.keys) = 1))
  BY <1>1, CommandFields, Zenon
<1>3. /\ a \in Command /\ a.op = r.op /\ a.stage = r.stage /\ a.keys = Tail(r.keys)
      /\ a.hand = r.hand /\ a.sets = r.sets
  BY <1>1, <1>2, CommandRecords, Zenon
<1>4. visited(r) = q
  BY Zenon DEF visited
<1>5. st \in {"done", "get", "look", "insert", "remove"} /\ st \in Stages
  BY Zenon DEF Stages
<1> HIDE DEF a
<1>6. q \in Command /\ q.op = r.op /\ q.stage = st /\ q.keys = Tail(r.keys) /\ q.hand = r.hand
  BY <1>3, <1>5, CommandRecords, Zenon
<1> HIDE DEF q
<1>7. st # "done" => Tail(r.keys) # <<>>
  BY <1>2, Zenon
<1> HIDE DEF st
<1>8. Shape(q)
  BY <1>5, <1>6, <1>7, Zenon DEF Shape
<1> QED BY <1>4, <1>6, <1>8, Zenon

LEMMA FoundShape ==
  ASSUME NEW r, Shape(r), NEW k \in Key, NEW q, q = [r EXCEPT !.found = @ \cup {k}]
  PROVE  Shape(q) /\ q.stage = r.stage /\ q.op = r.op /\ q.keys = r.keys /\ q.hand = r.hand
<1>1. r \in Command /\ r.found \cup {k} \in SUBSET Key
  BY CommandFields, Zenon DEF Shape
<1>2. q = [r EXCEPT !.found = r.found \cup {k}]
  BY Zenon
<1>3. /\ q \in Command /\ q.op = r.op /\ q.stage = r.stage /\ q.keys = r.keys
      /\ q.sets = r.sets /\ q.hand = r.hand
  BY <1>1, <1>2, CommandRecords, Zenon
<1> QED BY <1>3, Zenon DEF Shape

(* Stages that say nothing of their command. *)
LEMMA StageShape ==
  ASSUME NEW r, Shape(r), r.keys # <<>>, NEW st \in {"get", "expired", "look", "insert", "remove"},
         NEW q, q = [r EXCEPT !.stage = st]
  PROVE  Shape(q) /\ q.stage = st /\ q.op = r.op /\ q.keys = r.keys /\ q.hand = r.hand
<1>1. r \in Command /\ st \in Stages
  BY Zenon DEF Shape, Stages
<1>2. /\ q \in Command /\ q.op = r.op /\ q.stage = st /\ q.keys = r.keys
      /\ q.sets = r.sets /\ q.hand = r.hand
  BY <1>1, CommandRecords, Zenon
<1> QED BY <1>2, Zenon DEF Shape

LEMMA DoneShape ==
  ASSUME NEW r \in Command
  PROVE  Shape(done(r)) /\ done(r).hand = r.hand /\ done(r) \in Command /\ done(r).stage = "done"
<1> DEFINE a == [r EXCEPT !.stage = "done"]
           q == [a EXCEPT !.keys = <<>>]
<1>1. "done" \in Stages /\ <<>> \in Seq(Key)
  BY DEF Stages
<1>2. a \in Command /\ a.stage = "done" /\ a.hand = r.hand
  BY <1>1, CommandRecords, Zenon
<1> HIDE DEF a
<1>3. q \in Command /\ q.stage = "done" /\ q.hand = r.hand
  BY <1>1, <1>2, CommandRecords, Zenon
<1>4. done(r) = q
  BY Zenon DEF done, a
<1> HIDE DEF q
<1>5. Shape(q)
  BY <1>3, Zenon DEF Shape
<1> QED BY <1>3, <1>4, <1>5, Zenon

LEMMA EmptyHandShape ==
  ASSUME NEW r \in Command, NEW q, q = [done(r) EXCEPT !.hand = {}]
  PROVE  Shape(q) /\ q.hand = {}
<1>1. done(r) \in Command /\ done(r).stage = "done"
  BY DoneShape, Zenon
<1>e. {} \in SUBSET (Token \cup Member)
  BY Zenon
<1>2. q \in Command /\ q.stage = "done" /\ q.hand = {}
  BY <1>1, <1>e, CommandRecords, Zenon
<1> QED BY <1>2, Zenon DEF Shape

LEMMA GotShape ==
  ASSUME NEW r, Shape(r), r.stage = "get"
  PROVE  Shape(got(r)) /\ got(r).hand = r.hand
<1>1. r.keys # <<>>
  BY Zenon DEF Shape
<1>2. CASE r.op = "getset"
  BY <1>1, <1>2, StageShape DEF got
<1>3. CASE r.op # "getset"
  BY <1>3, VisitedShape, Zenon DEF got
<1> QED BY <1>2, <1>3, Zenon

-----------------------------------------------------------------------------
(* Steps *)
LEMMA PlacesTyped ==
  TypeOK => Items \in Lists /\ HandsOf \in Hands
<1> SUFFICES ASSUME TypeOK PROVE Items \in Lists /\ HandsOf \in Hands
  BY Zenon
<1>1. \A k \in Key : data[k].value.items \in Seq(Token)
  BY EntryFields, Zenon DEF TypeOK
<1>2. \A c \in Client : client[c].hand \in SUBSET (Token \cup Member)
  BY CommandFields, Zenon DEF TypeOK
<1> QED BY <1>1, <1>2, Zenon DEF Items, HandsOf, Lists, Hands

LEMMA ClientStep ==
  ASSUME PInv, NEW c \in Client, NEW q, Shape(q), step(c, q)
  PROVE  /\ client' \in [Client -> Command] /\ \A b \in Client : Shape(client'[b])
         /\ HandsOf' = [HandsOf EXCEPT ![c] = q.hand]
<1>1. client \in [Client -> Command] /\ client' = [client EXCEPT ![c] = q] /\ q \in Command
  BY Zenon DEF PInv, TypeOK, step, Shape
<1>2. client' \in [Client -> Command]
  BY <1>1, Zenon
<1>3. \A b \in Client : Shape(client'[b])
  BY <1>1, Zenon DEF PInv
<1>4. HandsOf' = [HandsOf EXCEPT ![c] = q.hand]
  BY <1>1, Zenon DEF HandsOf
<1> QED BY <1>2, <1>3, <1>4, Zenon

LEMMA Settled ==
  ASSUME PInv, Stored, client' \in [Client -> Command], \A b \in Client : Shape(client'[b])
  PROVE  /\ Items \in Lists /\ HandsOf \in Hands /\ Items' \in Lists /\ HandsOf' \in Hands
         /\ Apart(Items', HandsOf') => PInv'
<1>1. TypeOK'
  BY Zenon DEF TypeOK, Stored
<1>2. Items \in Lists /\ HandsOf \in Hands /\ Items' \in Lists /\ HandsOf' \in Hands
  <2>1. TypeOK => Items \in Lists /\ HandsOf \in Hands
    BY PlacesTyped, Zenon
  <2>2. (TypeOK => Items \in Lists /\ HandsOf \in Hands)'
    BY PlacesTyped, PTL
  <2> QED BY <1>1, <2>1, <2>2, Zenon DEF PInv, Lists, Hands
<1>3. ASSUME Apart(Items', HandsOf') PROVE Apart(Items, HandsOf)'
  BY <1>3, Zenon DEF Apart, InLists
<1> QED BY <1>1, <1>2, <1>3, Zenon DEF PInv

(* Nothing moves into a list or a hand. *)
LEMMA Fewer ==
  ASSUME PInv, Stored, client' \in [Client -> Command], \A b \in Client : Shape(client'[b]),
         \A b \in Client : HandsOf'[b] \subseteq HandsOf[b],
         \A k \in Key : Shortened(Items'[k], Items[k])
  PROVE  PInv'
<1>1. Items \in Lists /\ HandsOf \in Hands /\ Items' \in Lists /\ HandsOf' \in Hands
  BY Settled, Zenon
<1>2. Apart(Items', HandsOf')
  BY <1>1, ApartFewer, Zenon DEF PInv
<1> QED BY <1>2, Settled, Zenon

LEMMA Calm ==
  ASSUME PInv, NEW c \in Client, NEW q, Shape(q), step(c, q), q.hand \subseteq client[c].hand,
         Stored, \A k \in Key : Shortened(Items'[k], Items[k])
  PROVE  PInv'
<1>1. /\ client' \in [Client -> Command] /\ \A b \in Client : Shape(client'[b])
      /\ HandsOf' = [HandsOf EXCEPT ![c] = q.hand]
  BY ClientStep, Zenon
<1>2. \A b \in Client : HandsOf'[b] \subseteq HandsOf[b]
  BY <1>1, Zenon DEF HandsOf
<1> QED BY <1>1, <1>2, Fewer, Zenon

LEMMA Quiet ==
  ASSUME PInv, NEW c \in Client, NEW q, Shape(q), step(c, q), q.hand \subseteq client[c].hand,
         UNCHANGED <<data, ever, always>>
  PROVE  PInv'
<1>1. Stored
  BY Zenon DEF PInv, TypeOK, Stored
<1>2. ASSUME NEW k \in Key PROVE Shortened(Items'[k], Items[k])
  <2>1. Items[k] \in Seq(Token) /\ Items'[k] = Items[k]
    BY PlacesTyped, Zenon DEF PInv, Items, Lists
  <2> QED BY <2>1, Shorter, Zenon
<1> QED BY <1>1, <1>2, Calm, Zenon

LEMMA Wrote ==
  ASSUME PInv, NEW c \in Client, NEW q, Shape(q), step(c, q), q.hand \subseteq client[c].hand,
         NEW k \in Key, NEW e \in Entry \cup {missing}, write([data EXCEPT ![k] = e]),
         e.value.items = <<>> \/ e.value.items = data[k].value.items
  PROVE  PInv'
<1>1. Stored /\ Items' = [Items EXCEPT ![k] = e.value.items]
  BY WriteEntry, Zenon DEF PInv
<1>2. ASSUME NEW j \in Key PROVE Shortened(Items'[j], Items[j])
  <2>1. Items[j] \in Seq(Token) /\ (Items'[j] = Items[j] \/ Items'[j] = <<>>)
    BY <1>1, PlacesTyped, Zenon DEF PInv, Items, Lists
  <2> QED BY <2>1, Shorter, Zenon
<1> QED BY <1>1, <1>2, Calm, Zenon

(* What a step finds. *)
LEMMA AtStage ==
  ASSUME PInv, NEW c \in Client
  PROVE  /\ Shape(client[c]) /\ client[c] \in Command
         /\ running(c) => client[c].keys # <<>> /\ key(c) \in Key
<1>1. Shape(client[c]) /\ client[c] \in Command
  BY Zenon DEF PInv, Shape
<1> QED BY <1>1, CommandFields, Zenon DEF Shape, running, key

LEMMA GetPlaced == ASSUME PInv, NEW c \in Client, get(c) PROVE PInv'
<1> DEFINE r == client[c]
<1>1. Shape(r) /\ r.stage = "get" /\ r.keys # <<>> /\ key(c) \in Key
  BY AtStage, Zenon DEF get, at, running
<1>2. UNCHANGED <<data, ever, always>>
  BY Zenon DEF get
<1> DEFINE f == [r EXCEPT !.found = @ \cup {key(c)}]
           x == [r EXCEPT !.stage = "expired"]
<1>3. step(c, got(r)) \/ step(c, x) \/ step(c, got(f))
  BY Zenon DEF get
<1> HIDE DEF r
<1>4. Shape(f) /\ f.stage = "get" /\ f.hand = r.hand
  BY <1>1, FoundShape
<1>5. Shape(x) /\ x.hand = r.hand
  BY <1>1, StageShape
<1>6. Shape(got(r)) /\ got(r).hand = r.hand /\ Shape(got(f)) /\ got(f).hand = r.hand
  <2> HIDE DEF f
  <2> QED BY <1>1, <1>4, GotShape, Zenon
<1> HIDE DEF f, x
<1> QED BY <1>2, <1>3, <1>5, <1>6, Quiet, Zenon DEF r

LEMMA RemoveExpiredPlaced == ASSUME PInv, NEW c \in Client, remove_expired(c) PROVE PInv'
<1> DEFINE r == client[c]
           g == [r EXCEPT !.stage = "get"]
<1>1. Shape(r) /\ r.keys # <<>> /\ key(c) \in Key
  BY AtStage, Zenon DEF remove_expired, at, running
<1>2. step(c, got(g)) /\ write([data EXCEPT ![key(c)] = missing])
  BY Zenon DEF remove_expired
<1> HIDE DEF r
<1>3. Shape(g) /\ g.stage = "get" /\ g.hand = r.hand
  BY <1>1, StageShape
<1> HIDE DEF g
<1>4. Shape(got(g)) /\ got(g).hand = r.hand
  BY <1>3, GotShape, Zenon
<1> QED BY <1>1, <1>2, <1>4, Wrote, MissingFields, Zenon DEF r

LEMMA LookPlaced == ASSUME PInv, NEW c \in Client, look(c) PROVE PInv'
<1> DEFINE r == client[c]
<1>1. Shape(r) /\ r.stage = "look" /\ r.keys # <<>> /\ key(c) \in Key
  BY AtStage, Zenon DEF look, at, running
<1>2. UNCHANGED <<data, ever, always>>
  BY Zenon DEF look
<1> DEFINE f == [r EXCEPT !.found = @ \cup {key(c)}]
<1>3. PICK s \in {r, f} : step(c, visited(s)) \/ step(c, [s EXCEPT !.stage = "insert"])
  BY Zenon DEF look
<1> HIDE DEF r
<1>4. Shape(f) /\ f.stage = "look" /\ f.hand = r.hand /\ f.keys = r.keys
  BY <1>1, FoundShape
<1> HIDE DEF f
<1>5. Shape(s) /\ s.stage = "look" /\ s.hand = r.hand /\ s.keys # <<>>
  BY <1>1, <1>4, Zenon
<1> DEFINE x == [s EXCEPT !.stage = "insert"]
<1>6. Shape(x) /\ x.hand = r.hand
  BY <1>5, StageShape
<1>7. Shape(visited(s)) /\ visited(s).hand = r.hand
  BY <1>5, VisitedShape, Zenon
<1>8. step(c, visited(s)) \/ step(c, x)
  BY <1>3, Zenon
<1> HIDE DEF x
<1> QED BY <1>2, <1>6, <1>7, <1>8, Quiet, Zenon DEF r

LEMMA InsertPlaced == ASSUME PInv, NEW c \in Client, insert(c) PROVE PInv'
<1> DEFINE r == client[c]
<1>1. Shape(r) /\ r.stage = "insert" /\ key(c) \in Key
  BY AtStage, Zenon DEF insert, at, running
<1>2. Shape(visited(r)) /\ visited(r).hand = r.hand
  BY <1>1, VisitedShape, Zenon
<1>3. PICK t \in {"none", "ahead"} : write([data EXCEPT ![key(c)] = entry(string, t)])
  BY Zenon DEF insert
<1>4. entry(string, t) \in Entry /\ entry(string, t).value.items = <<>>
  BY NewValues, NewEntry
<1>5. step(c, visited(r))
  BY Zenon DEF insert
<1> QED BY <1>1, <1>2, <1>3, <1>4, <1>5, Wrote, Zenon

LEMMA RemovePlaced == ASSUME PInv, NEW c \in Client, remove(c) PROVE PInv'
<1> DEFINE r == client[c]
<1>1. Shape(r) /\ r.stage = "remove" /\ key(c) \in Key
  BY AtStage, Zenon DEF remove, at, running
<1>2. Shape(visited(r)) /\ visited(r).hand = r.hand
  BY <1>1, VisitedShape, Zenon
<1>3. step(c, visited(r)) /\ write([data EXCEPT ![key(c)] = missing])
  BY Zenon DEF remove
<1> QED BY <1>1, <1>2, <1>3, Wrote, MissingFields, Zenon

(* LMOVE; a command of two keys with h taken from the first. *)
With(r, h) == [r EXCEPT !.stage = "put", !.keys = Tail(@), !.hand = h]

LEMMA TakeShape ==
  ASSUME NEW r, Shape(r), r.stage = "take", NEW h,
         \/ r.op = "lmove" /\ h \subseteq Token
         \/ r.op = "smove" /\ h \subseteq Member
  PROVE  Shape(With(r, h)) /\ With(r, h).hand = h
<1> DEFINE q == With(r, h)
           a == [r EXCEPT !.stage = "put"]
           b == [a EXCEPT !.keys = Tail(r.keys)]
<1>1. r \in Command /\ r.keys # <<>> /\ Len(r.keys) = 2
  BY Zenon DEF Shape
<1>2. Tail(r.keys) \in Seq(Key) /\ Tail(r.keys) # <<>>
  <2>1. Tail(r.keys) \in Seq(Key) /\ ((Tail(r.keys) = <<>>) <=> (Len(r.keys) = 1))
    BY <1>1, CommandFields, Zenon
  <2> QED BY <1>1, <2>1
<1>3. a \in Command /\ a.op = r.op /\ a.stage = "put" /\ a.keys = r.keys
  BY <1>1, CommandRecords, Zenon DEF Stages
<1> HIDE DEF a
<1>4. b \in Command /\ b.op = r.op /\ b.stage = "put" /\ b.keys = Tail(r.keys)
  BY <1>2, <1>3, CommandRecords, Zenon
<1>5. q = [b EXCEPT !.hand = h]
  BY Zenon DEF a, With
<1> HIDE DEF b, q
<1>h. h \in SUBSET (Token \cup Member)
  BY Zenon
<1>6. q \in Command /\ q.op = r.op /\ q.stage = "put" /\ q.keys = Tail(r.keys) /\ q.hand = h
  <2>1. q \in Command /\ q.op = b.op /\ q.stage = b.stage /\ q.keys = b.keys /\ q.hand = h
    BY <1>4, <1>5, <1>h, CommandRecords, Zenon
  <2> QED BY <1>4, <2>1, Zenon
<1>7. Shape(q)
  BY <1>2, <1>6, Zenon DEF Shape
<1> QED BY <1>6, <1>7, Zenon DEF q

(* Taking an element from an end of a list leaves the others. *)
LEMMA EndTaken ==
  ASSUME NEW s \in Seq(Token), s # <<>>, NEW x \in ends(s)
  PROVE  /\ x[1] \in Token /\ x[2] \in Seq(Token) /\ Shortened(x[2], s)
         /\ \E p \in 1 .. Len(s) :
              /\ s[p] = x[1]
              /\ \A i \in 1 .. Len(x[2]) : \E j \in 1 .. Len(s) : j # p /\ x[2][i] = s[j]
<1>1. Len(s) \in Nat /\ Len(s) # 0 /\ 1 \in 1 .. Len(s) /\ Len(s) \in 1 .. Len(s)
  OBVIOUS
<1>2. CASE x = <<Head(s), Tail(s)>>
  <2>1. x[1] = s[1] /\ x[2] = Tail(s) /\ s[1] \in Token /\ Tail(s) \in Seq(Token)
    BY <1>1, <1>2
  <2>2. \A i \in 1 .. Len(Tail(s)) : i + 1 \in 1 .. Len(s) /\ i + 1 # 1 /\ Tail(s)[i] = s[i + 1]
    BY <1>1
  <2>3. \A i \in 1 .. Len(x[2]) : \E j \in 1 .. Len(s) : j # 1 /\ x[2][i] = s[j]
    BY <2>1, <2>2, Zenon
  <2> QED BY <1>1, <2>1, <2>3, Shorter, Zenon
<1>3. CASE x = <<s[Len(s)], SubSeq(s, 1, Len(s) - 1)>>
  <2> DEFINE q == SubSeq(s, 1, Len(s) - 1)
  <2>1. x[1] = s[Len(s)] /\ x[2] = q /\ s[Len(s)] \in Token
    BY <1>1, <1>3
  <2>2. \A i \in 1 .. Len(s) - 1 : s[i] \in Token
    BY <1>1
  <2>3. q \in Seq(Token) /\ \A i \in 1 .. Len(s) - 1 - 1 + 1 : q[i] = s[1 + i - 1]
    BY <1>1, <2>2
  <2>4. Shortened(q, s)
    BY Shorter, Zenon
  <2>5. Len(q) \in Nat /\ Len(q) = Len(s) - 1
    <3>1. Len(q) = IF 1 <= Len(s) - 1 THEN Len(s) - 1 - 1 + 1 ELSE 0
      BY <1>1, <2>2
    <3> HIDE DEF q
    <3>2. \A n \in Nat : n # 0 => (IF 1 <= n - 1 THEN n - 1 - 1 + 1 ELSE 0) = n - 1 /\ n - 1 \in Nat
      OBVIOUS
    <3>3. (IF 1 <= Len(s) - 1 THEN Len(s) - 1 - 1 + 1 ELSE 0) = Len(s) - 1 /\ Len(s) - 1 \in Nat
      BY ONLY <1>1, <3>2, Zenon
    <3> QED BY <3>1, <3>3
  <2> HIDE DEF q
  <2>6. ASSUME NEW i \in 1 .. Len(q) PROVE \E j \in 1 .. Len(s) : j # Len(s) /\ q[i] = s[j]
    <3>1. i \in 1 .. Len(s) - 1 - 1 + 1 /\ 1 + i - 1 = i /\ i \in 1 .. Len(s) /\ i # Len(s)
      BY <1>1, <2>5
    <3>2. q[i] = s[1 + i - 1]
      BY <2>3, <3>1, Zenon
    <3> QED BY <3>1, <3>2, Zenon
  <2> QED BY <1>1, <2>1, <2>3, <2>4, <2>6, Zenon
<1> QED BY <1>2, <1>3, Zenon DEF ends

LEMMA LmovePopPlaced == ASSUME PInv, NEW c \in Client, lmove_pop(c) PROVE PInv'
<1> DEFINE r == client[c]
           k == key(c)
           s == data[k].value.items
<1>1. Shape(r) /\ r \in Command /\ r.stage = "take" /\ r.op = "lmove" /\ k \in Key
  BY AtStage, Zenon DEF lmove_pop, at, running
<1>t. TypeOK /\ data[k] \in Entry \cup {missing} /\ s \in Seq(Token)
  BY <1>1, EntryFields, Zenon DEF PInv, TypeOK
<1>2. CASE s = <<>>
  <2>1. step(c, done(r)) /\ UNCHANGED <<data, ever, always>>
    BY <1>2, Zenon DEF lmove_pop
  <2>2. Shape(done(r)) /\ done(r).hand = r.hand
    BY <1>1, DoneShape, Zenon
  <2> QED BY <2>1, <2>2, Quiet, Zenon
<1>3. CASE s # <<>>
  <2>1. PICK x \in ends(s) :
          /\ step(c, [r EXCEPT !.stage = "put", !.keys = Tail(@), !.hand = {x[1]}])
          /\ write([data EXCEPT ![k].value = list(x[2])])
    BY <1>3, Zenon DEF lmove_pop
  <2> DEFINE q == [r EXCEPT !.stage = "put", !.keys = Tail(@), !.hand = {x[1]}]
  <2>s. s = Items[k]
    BY <1>1, Zenon DEF Items
  <2> HIDE DEF s, r
  <2>2. /\ x[1] \in Token /\ x[2] \in Seq(Token) /\ Shortened(x[2], s)
        /\ \E p \in 1 .. Len(s) :
             /\ s[p] = x[1]
             /\ \A i \in 1 .. Len(x[2]) : \E j \in 1 .. Len(s) : j # p /\ x[2][i] = s[j]
    BY <1>3, <1>t, EndTaken, Zenon
  <2>3. Shape(q) /\ q.hand = {x[1]}
    <3>1. {x[1]} \subseteq Token /\ r.op = "lmove"
      BY <1>1, <2>2, Zenon
    <3>2. q = With(r, {x[1]})
      BY Zenon DEF With
    <3> HIDE DEF q
    <3>3. Shape(With(r, {x[1]})) /\ With(r, {x[1]}).hand = {x[1]}
      BY <1>1, <3>1, TakeShape, Zenon
    <3> QED BY <3>2, <3>3, Zenon
  <2>4. data[k] # missing
    BY <1>3, <1>t, EntryFields, Zenon DEF s
  <2>5. list(x[2]) \in Value /\ list(x[2]).items = x[2]
    BY <2>2, NewValues, Zenon
  <2>6. Stored /\ Items' = [Items EXCEPT ![k] = x[2]]
    BY <1>1, <1>t, <2>1, <2>4, <2>5, WriteField, Zenon
  <2> HIDE DEF q, k
  <2>7. /\ client' \in [Client -> Command] /\ \A b \in Client : Shape(client'[b])
        /\ HandsOf' = [HandsOf EXCEPT ![c] = {x[1]}]
    BY <2>1, <2>3, ClientStep, Zenon DEF q, r
  <2>8. Items \in Lists /\ HandsOf \in Hands /\ Items' \in Lists /\ Apart(Items, HandsOf)
    BY <2>6, <2>7, Settled, Zenon DEF PInv
  <2>9. \A l \in Key : Items'[l] = IF l = k THEN x[2] ELSE Items[l]
    BY <1>1, <2>6, <2>8, Zenon DEF Lists
  <2>10. Apart(Items', HandsOf)
    <3>1. \A l \in Key : Shortened(Items'[l], Items[l])
      BY <2>2, <2>8, <2>9, <2>s, Shorter, Zenon DEF Lists
    <3> QED BY <2>8, <3>1, ApartFewer, Zenon
  <2>11. PICK p \in 1 .. Len(s) :
            /\ s[p] = x[1]
            /\ \A i \in 1 .. Len(x[2]) : \E j \in 1 .. Len(s) : j # p /\ x[2][i] = s[j]
    BY <2>2, Zenon
  <2>12. ~InLists(x[1], Items')
    <3> SUFFICES ASSUME NEW l \in Key, NEW i \in 1 .. Len(Items'[l]), Items'[l][i] = x[1]
                 PROVE  FALSE
      BY Zenon DEF InLists
    <3>1. PICK j \in 1 .. Len(Items[l]) : Items[l][j] = x[1] /\ ~ (l = k /\ j = p)
      <4>1. CASE l = k
        <5>1. Items'[l] = x[2] /\ Items[l] = s
          BY <2>9, <2>s, <4>1, Zenon
        <5>2. PICK j \in 1 .. Len(s) : j # p /\ x[2][i] = s[j]
          BY <2>11, <5>1, Zenon
        <5> QED BY <5>1, <5>2, Zenon
      <4>2. CASE l # k
        BY <2>9, <4>2, Zenon
      <4> QED BY <4>1, <4>2, Zenon
    <3> QED BY <1>1, <2>11, <2>8, <2>s, <3>1 DEF Apart
  <2>13. \A b \in Client : x[1] \notin HandsOf[b]
    <3>1. InLists(x[1], Items)
      BY <1>1, <2>11, <2>s, Zenon DEF InLists
    <3> QED BY <2>8, <3>1, Zenon DEF Apart
  <2>14. Apart(Items', HandsOf')
    BY <2>10, <2>12, <2>13, <2>7, <2>8, ApartHeld, Zenon
  <2> QED BY <2>14, <2>6, <2>7, Settled, Zenon
<1> QED BY <1>2, <1>3, Zenon

(* The entry a push or an addition starts from has the elements the key    *)
(* has, and none when the key is missing.                                  *)
LEMMA StartingValue ==
  ASSUME TypeOK, NEW k \in Key, NEW new \in Value, new.items = <<>>
  PROVE  /\ value_or(k, new) \in Entry /\ value_or(k, new).value \in Value
         /\ value_or(k, new).value.items = data[k].value.items
<1>1. CASE data[k] = missing
  <2>1. entry(new, "none") \in Entry /\ entry(new, "none").value = new
    BY NewEntry, Zenon
  <2> QED BY <1>1, <2>1, MissingFields, Zenon DEF value_or
<1>2. CASE data[k] # missing
  <2>1. data[k] \in Entry \cup {missing}
    BY Zenon DEF TypeOK
  <2> QED BY <1>2, <2>1, EntryFields, Zenon DEF value_or
<1> QED BY <1>1, <1>2, Zenon

LEMMA LmovePushPlaced == ASSUME PInv, NEW c \in Client, lmove_push(c) PROVE PInv'
<1> DEFINE r == client[c]
           k == key(c)
           e == value_or(k, list(<<>>))
           q == [done(r) EXCEPT !.hand = {}]
<1>1. Shape(r) /\ r \in Command /\ r.stage = "put" /\ r.op = "lmove" /\ k \in Key
  BY AtStage, Zenon DEF lmove_push, at, running
<1>2. Shape(q) /\ q.hand = {} /\ step(c, q)
  BY <1>1, EmptyHandShape, Zenon DEF lmove_push
<1>3. e \in Entry /\ e.value.items = Items[k] /\ TypeOK
  <2>1. <<>> \in Seq(Token)
    OBVIOUS
  <2>2. list(<<>>) \in Value /\ list(<<>>).items = <<>>
    BY <2>1, NewValues, Zenon
  <2> QED BY <1>1, <2>2, StartingValue, Zenon DEF PInv, Items
<1>4. CASE e.value.kind # "list"
  <2>1. UNCHANGED <<data, ever, always>>
    BY <1>4, Zenon DEF lmove_push
  <2> HIDE DEF q
  <2> QED BY <1>2, <2>1, Quiet, Zenon
<1>5. CASE e.value.kind = "list"
  <2>1. PICK t \in r.hand : \E s \in {<<t>> \o e.value.items, Append(e.value.items, t)} :
          write([data EXCEPT ![k] = [e EXCEPT !.value = list(s)]])
    BY <1>5, Zenon DEF lmove_push
  <2>2. PICK s \in {<<t>> \o e.value.items, Append(e.value.items, t)} :
          write([data EXCEPT ![k] = [e EXCEPT !.value = list(s)]])
    BY <2>1, Zenon
  <2>h. HandsOf[c] = r.hand
    BY Zenon DEF HandsOf
  <2> HIDE DEF q, e, k
  <2>3. t \in Token
    BY <1>1, <2>1, Zenon DEF Shape
  <2> HIDE DEF r
  <2>i. Items \in Lists /\ HandsOf \in Hands
    BY <1>3, PlacesTyped, Zenon
  <2>4. Items[k] \in Seq(Token)
    BY <1>1, <2>i, Zenon DEF Lists
  <2>5. s \in Seq(Token) /\ s \in {<<t>> \o Items[k], Append(Items[k], t)}
    <3>1. s \in {<<t>> \o Items[k], Append(Items[k], t)}
      BY <1>3, <2>2, Zenon
    <3>2. Append(Items[k], t) \in Seq(Token) /\ <<t>> \in Seq(Token)
      BY <2>3, <2>4
    <3>3. <<t>> \o Items[k] \in Seq(Token)
      BY <2>4, <3>2
    <3> QED BY <3>1, <3>2, <3>3, Zenon
  <2> DEFINE n == [e EXCEPT !.value = list(s)]
  <2>6. n \in Entry /\ n.value.items = s
    BY <1>3, <2>5, NewValues, EntryUpdate, Zenon
  <2>w. write([data EXCEPT ![k] = n])
    BY <2>2, Zenon
  <2> HIDE DEF n
  <2>7. Stored /\ Items' = [Items EXCEPT ![k] = s]
    BY <1>1, <1>3, <2>6, <2>w, WriteEntry, Zenon
  <2>8. /\ client' \in [Client -> Command] /\ \A b \in Client : Shape(client'[b])
        /\ HandsOf' = [HandsOf EXCEPT ![c] = {}]
    BY <1>2, ClientStep, Zenon
  <2>9. HandsOf' \in Hands /\ Apart(Items, HandsOf)
    BY <2>7, <2>8, Settled, Zenon DEF PInv
  <2>10. \A b \in Client : HandsOf'[b] \subseteq HandsOf[b] /\ t \notin HandsOf'[b]
    <3> TAKE b \in Client
    <3>1. CASE b = c
      BY <2>8, <2>i, <3>1, Zenon DEF Hands
    <3>2. CASE b # c
      <4>1. HandsOf'[b] = HandsOf[b]
        BY <2>8, <2>i, <3>2, Zenon DEF Hands
      <4> QED BY <2>1, <2>3, <2>9, <2>h, <3>2, <4>1, Zenon DEF Apart
    <3> QED BY <3>1, <3>2, Zenon
  <2>11. Apart(Items, HandsOf')
    <3>1. \A l \in Key : Shortened(Items[l], Items[l])
      BY <2>i, Shorter, Zenon DEF Lists
    <3> QED BY <2>10, <2>9, <2>i, <3>1, ApartFewer, Zenon
  <2>12. ~InLists(t, Items)
    BY <2>1, <2>9, <2>h, Zenon DEF Apart
  <2>13. Apart(Items', HandsOf')
    BY <1>1, <2>10, <2>11, <2>12, <2>3, <2>5, <2>7, <2>9, <2>i, ApartPut, Zenon
  <2> QED BY <2>13, <2>7, <2>8, Settled, Zenon
<1> QED BY <1>4, <1>5, Zenon

(* SMOVE *)
LEMMA SmoveRemovePlaced ==
  ASSUME PInv, NEW c \in Client, NEW m \in Member, smove_remove(c, m) PROVE PInv'
<1> DEFINE r == client[c]
           k == key(c)
           v == set(data[k].value.members \ {m})
           q == [r EXCEPT !.stage = "put", !.keys = Tail(@), !.hand = {m}]
<1>1. Shape(r) /\ r \in Command /\ r.stage = "take" /\ r.op = "smove" /\ k \in Key
  BY AtStage, Zenon DEF smove_remove, at, running
<1>t. TypeOK /\ data[k] \in Entry \cup {missing}
  BY <1>1, Zenon DEF PInv, TypeOK
<1>2. CASE m \notin data[k].value.members
  <2>1. step(c, done(r)) /\ UNCHANGED <<data, ever, always>>
    BY <1>2, Zenon DEF smove_remove
  <2>2. Shape(done(r)) /\ done(r).hand = r.hand
    BY <1>1, DoneShape, Zenon
  <2> QED BY <2>1, <2>2, Quiet, Zenon
<1>3. CASE m \in data[k].value.members
  <2>1. step(c, q) /\ write([data EXCEPT ![k].value = v])
    BY <1>3, Zenon DEF smove_remove
  <2>2. Shape(q) /\ q.hand = {m}
    <3>1. {m} \subseteq Member /\ q = With(r, {m})
      BY Zenon DEF With
    <3> HIDE DEF q, r
    <3>2. Shape(With(r, {m})) /\ With(r, {m}).hand = {m}
      BY <1>1, <3>1, TakeShape, Zenon
    <3> QED BY <3>1, <3>2, Zenon
  <2>3. data[k] # missing /\ v \in Value /\ v.items = <<>>
    BY <1>3, <1>t, EntryFields, NewValues, Zenon
  <2> HIDE DEF v, q
  <2>4. Stored /\ Items' = [Items EXCEPT ![k] = <<>>]
    BY <1>1, <1>t, <2>1, <2>3, WriteField, Zenon
  <2>5. /\ client' \in [Client -> Command] /\ \A b \in Client : Shape(client'[b])
        /\ HandsOf' = [HandsOf EXCEPT ![c] = {m}]
    BY <2>1, <2>2, ClientStep, Zenon
  <2>6. Items \in Lists /\ HandsOf \in Hands /\ Items' \in Lists /\ Apart(Items, HandsOf)
    BY <2>4, <2>5, Settled, Zenon DEF PInv
  <2> HIDE DEF k
  <2>7. Apart(Items', HandsOf)
    <3>1. ASSUME NEW l \in Key PROVE Shortened(Items'[l], Items[l])
      <4>1. Items[l] \in Seq(Token) /\ (Items'[l] = Items[l] \/ Items'[l] = <<>>)
        BY <1>1, <2>4, <2>6, Zenon DEF Lists
      <4> QED BY <4>1, Shorter, Zenon
    <3> QED BY <2>6, <3>1, ApartFewer, Zenon
  <2>8. m \notin Token
    BY TokenAssumption, Zenon
  <2>9. ~InLists(m, Items')
    <3> SUFFICES ASSUME NEW l \in Key, NEW i \in 1 .. Len(Items'[l]), Items'[l][i] = m
                 PROVE  FALSE
      BY Zenon DEF InLists
    <3>1. Items'[l] \in Seq(Token)
      BY <2>6, Zenon DEF Lists
    <3>2. Items'[l][i] \in Token
      BY <3>1
    <3> QED BY <2>8, <3>2, Zenon
  <2>10. Apart(Items', HandsOf')
    BY <2>5, <2>6, <2>7, <2>8, <2>9, ApartHeld, Zenon
  <2> QED BY <2>10, <2>4, <2>5, Settled, Zenon
<1> QED BY <1>2, <1>3, Zenon

LEMMA SmoveAddPlaced == ASSUME PInv, NEW c \in Client, smove_add(c) PROVE PInv'
<1> DEFINE r == client[c]
           k == key(c)
           e == value_or(k, set({}))
           q == [done(r) EXCEPT !.hand = {}]
           n == [e EXCEPT !.value = set(e.value.members \cup r.hand)]
<1>1. Shape(r) /\ r \in Command /\ r.stage = "put" /\ r.op = "smove" /\ k \in Key
  BY AtStage, Zenon DEF smove_add, at, running
<1>2. Shape(q) /\ q.hand = {} /\ step(c, q)
  BY <1>1, EmptyHandShape, Zenon DEF smove_add
<1>3. e \in Entry /\ e.value \in Value
  <2>1. set({}) \in Value /\ set({}).items = <<>>
    BY NewValues, Zenon
  <2> QED BY <1>1, <2>1, StartingValue, Zenon DEF PInv
<1>4. UNCHANGED <<data, ever, always>> \/ write([data EXCEPT ![k] = n])
  BY Zenon DEF smove_add
<1>5. e.value.members \cup r.hand \in SUBSET Member
  BY <1>1, <1>3, ValueFields, Zenon DEF Shape
<1> HIDE DEF q, e, r, k
<1>6. n \in Entry /\ n.value.items = <<>>
  <2> DEFINE v == set(e.value.members \cup r.hand)
  <2>1. v \in Value /\ v.items = <<>>
    BY <1>5, NewValues, Zenon
  <2> HIDE DEF v
  <2>2. [e EXCEPT !.value = v] \in Entry /\ [e EXCEPT !.value = v].value = v
    BY <1>3, <2>1, EntryUpdate, Zenon
  <2>3. n = [e EXCEPT !.value = v]
    BY Zenon DEF v
  <2> HIDE DEF n
  <2> QED BY <2>1, <2>2, <2>3, Zenon
<1> HIDE DEF n
<1>7. CASE UNCHANGED <<data, ever, always>>
  BY <1>2, <1>7, Quiet, Zenon
<1>8. CASE write([data EXCEPT ![k] = n])
  BY <1>1, <1>2, <1>6, <1>8, Wrote, Zenon
<1> QED BY <1>4, <1>7, <1>8, Zenon

(* SUNION and the like *)
LEMMA ReadShape ==
  ASSUME NEW r, Shape(r), r.stage = "read", NEW s \in SUBSET Member,
         NEW q, q = [r EXCEPT !.keys = Tail(@), !.sets = Append(@, s)]
  PROVE  /\ q \in Command /\ q.op = r.op /\ q.stage = "read" /\ q.hand = r.hand
         /\ q.keys = Tail(r.keys) /\ q.sets # <<>>
         /\ Len(r.keys) \in Nat /\ Len(Tail(r.keys)) = Len(r.keys) - 1
         /\ (Tail(r.keys) = <<>>) <=> (Len(r.keys) = 1)
<1> DEFINE a == [r EXCEPT !.keys = Tail(r.keys)]
           ss == Append(r.sets, s)
<1>1. r \in Command /\ r.keys # <<>>
  BY Zenon DEF Shape
<1>2. /\ Tail(r.keys) \in Seq(Key) /\ r.sets \in Seq(SUBSET Member) /\ r.keys \in Seq(Key)
      /\ Len(Tail(r.keys)) = Len(r.keys) - 1
      /\ (Tail(r.keys) = <<>>) <=> (Len(r.keys) = 1)
  BY <1>1, CommandFields, Zenon
<1>3. ss \in Seq(SUBSET Member) /\ ss # <<>>
  <2>1. ss \in Seq(SUBSET Member) /\ Len(ss) = Len(r.sets) + 1 /\ Len(r.sets) \in Nat
    BY <1>2
  <2>2. Len(<<>>) = 0
    BY Zenon
  <2> HIDE DEF ss
  <2> QED BY <2>1, <2>2
<1>4. a \in Command /\ a.op = r.op /\ a.stage = "read" /\ a.hand = r.hand /\ a.keys = Tail(r.keys)
      /\ a.sets = r.sets
  BY <1>1, <1>2, CommandRecords, Zenon
<1>5. q = [a EXCEPT !.sets = ss]
  BY Zenon
<1> HIDE DEF a, ss
<1>6. q \in Command /\ q.op = r.op /\ q.stage = "read" /\ q.hand = r.hand
      /\ q.keys = Tail(r.keys) /\ q.sets = ss
  <2>1. /\ q \in Command /\ q.op = a.op /\ q.stage = a.stage /\ q.keys = a.keys
        /\ q.hand = a.hand /\ q.sets = ss
    BY <1>3, <1>4, <1>5, CommandRecords, Zenon
  <2> QED BY <1>4, <2>1, Zenon
<1>7. Len(r.keys) \in Nat
  BY <1>2
<1> QED BY <1>2, <1>3, <1>6, <1>7, Zenon

LEMMA ClonePlaced == ASSUME PInv, NEW c \in Client, get_set_clone(c) PROVE PInv'
<1> DEFINE r == client[c]
           e == value_or(key(c), set({}))
           next == [r EXCEPT !.keys = Tail(@), !.sets = Append(@, e.value.members)]
           last == [next EXCEPT !.stage = "store"]
<1>1. Shape(r) /\ r \in Command /\ r.stage = "read" /\ key(c) \in Key
  BY AtStage, Zenon DEF get_set_clone, at, running
<1>2. e.value.members \in SUBSET Member
  <2>1. set({}) \in Value /\ set({}).items = <<>>
    BY NewValues, Zenon
  <2>2. e.value \in Value
    BY <1>1, <2>1, StartingValue, Zenon DEF PInv
  <2> QED BY <2>2, ValueFields, Zenon
<1>3. UNCHANGED <<data, ever, always>>
  BY Zenon DEF get_set_clone
<1>4. \/ step(c, done(r))
      \/ ~last_read(r) /\ step(c, next)
      \/ last_read(r) /\ r.op \in CombineStore /\ step(c, last)
      \/ step(c, done(next))
  BY Zenon DEF get_set_clone
<1> HIDE DEF r, e
<1>5. /\ next \in Command /\ next.op = r.op /\ next.stage = "read" /\ next.hand = r.hand
      /\ next.keys = Tail(r.keys) /\ next.sets # <<>>
      /\ Len(r.keys) \in Nat /\ Len(Tail(r.keys)) = Len(r.keys) - 1
      /\ (Tail(r.keys) = <<>>) <=> (Len(r.keys) = 1)
  BY <1>1, <1>2, ReadShape, Zenon
<1>6. /\ Shape(done(r)) /\ done(r).hand = r.hand
      /\ Shape(done(next)) /\ done(next).hand = r.hand
  <2> HIDE DEF next
  <2> QED BY <1>1, <1>5, DoneShape, Zenon
<1>o. r.op \in Combine \cup CombineStore /\ (r.op \in CombineStore => Len(r.keys) >= 2)
  BY <1>1, Zenon DEF Shape
<1> HIDE DEF next
<1>7. ASSUME ~last_read(r) PROVE Shape(next)
  <2>1. CASE r.op \in CombineStore
    <3>1. Len(r.keys) # 2
      BY <1>7, <2>1, Zenon DEF last_read
    <3>2. Len(next.keys) >= 2 /\ next.keys # <<>>
      <4>1. Len(r.keys) - 1 >= 2 /\ Len(r.keys) # 1
        <5>1. \A n \in Nat : n >= 2 /\ n # 2 => n - 1 >= 2 /\ n # 1
          OBVIOUS
        <5>2. Len(r.keys) \in Nat /\ Len(r.keys) >= 2 /\ Len(r.keys) # 2
          BY <1>5, <1>o, <2>1, <3>1, Zenon
        <5> QED BY ONLY <5>1, <5>2, Zenon
      <4> QED BY <1>5, <4>1, Zenon
    <3> QED BY <1>5, <1>o, <3>2, Zenon DEF Shape
  <2>2. CASE r.op \notin CombineStore
    <3>1. Len(r.keys) # 1
      BY <1>7, <2>2, Zenon DEF last_read
    <3> QED BY <1>5, <1>o, <2>2, <3>1, Zenon DEF Shape
  <2> QED BY <2>1, <2>2, Zenon
<1>8. ASSUME last_read(r), r.op \in CombineStore PROVE Shape(last) /\ last.hand = r.hand
  <2>1. Len(r.keys) = 2
    BY <1>8, Zenon DEF last_read
  <2>2. Tail(r.keys) # <<>>
    BY <1>5, <2>1
  <2>3. /\ last \in Command /\ last.op = r.op /\ last.stage = "store" /\ last.hand = r.hand
        /\ last.keys = Tail(r.keys) /\ last.sets # <<>>
    BY <1>5, CommandRecords, Zenon DEF Stages
  <2> HIDE DEF last
  <2> QED BY <1>8, <2>2, <2>3, Zenon DEF Shape
<1> HIDE DEF last
<1> QED BY <1>3, <1>4, <1>5, <1>6, <1>7, <1>8, Quiet, Zenon DEF r

LEMMA StorePlaced == ASSUME PInv, NEW c \in Client, store(c) PROVE PInv'
<1> DEFINE r == client[c]
           m == combined(r.op, r.sets)
           e == entry(set(m), "none")
<1>1. Shape(r) /\ r \in Command /\ r.stage = "store" /\ key(c) \in Key
  BY AtStage, Zenon DEF store, at, running
<1>2. step(c, done(r)) /\ write([data EXCEPT ![key(c)] = e])
  BY Zenon DEF store
<1>3. r.op \in CombineStore /\ r.sets # <<>> /\ r.sets \in Seq(SUBSET Member)
  BY <1>1, CommandFields, Zenon DEF Shape
<1> HIDE DEF r
<1>4. m \in SUBSET Member
  <2>1. Head(r.sets) \in SUBSET Member /\ \A i \in 2 .. Len(r.sets) : r.sets[i] \in SUBSET Member
    BY <1>3
  <2> DEFINE o == {r.sets[i] : i \in 2 .. Len(r.sets)}
  <2>2. UNION o \in SUBSET Member
    BY <2>1, Zenon
  <2>3. CASE r.op = "sunionstore"
    BY <2>1, <2>2, <2>3, Zenon DEF combined
  <2>4. CASE r.op = "sinterstore"
    BY <2>1, <2>4, Zenon DEF combined
  <2>5. CASE r.op = "sdiffstore"
    BY <2>1, <2>5, Zenon DEF combined
  <2> QED BY <1>3, <2>3, <2>4, <2>5, Zenon DEF CombineStore
<1> HIDE DEF m
<1>5. e \in Entry /\ e.value.items = <<>>
  <2>1. set(m) \in Value /\ set(m).items = <<>>
    BY <1>4, NewValues, Zenon
  <2> QED BY <2>1, NewEntry, Zenon
<1> HIDE DEF e
<1>6. Shape(done(r)) /\ done(r).hand = r.hand
  BY <1>1, DoneShape, Zenon
<1> QED BY <1>1, <1>2, <1>5, <1>6, Wrote, Zenon DEF r

(* Requests and answers *)
LEMMA IdleShape == Shape(idle) /\ idle \in Command /\ idle.hand = {}
<1>1. "none" \in Ops /\ "idle" \in Stages /\ <<>> \in Seq(Key) /\ <<>> \in Seq(SUBSET Member)
  BY DEF Ops, Stages
<1>2. Command = [op : Ops, stage : Stages, args : SUBSET Key, keys : Seq(Key), found : SUBSET Key,
                 sets : Seq(SUBSET Member), hand : SUBSET (Token \cup Member)]
  BY Zenon DEF Command, Ops, Stages
<1>3. idle \in Command
  BY <1>1, <1>2, Zenon DEF idle
<1>4. idle.stage = "idle" /\ idle.hand = {}
  BY Zenon DEF idle
<1> QED BY <1>3, <1>4, Zenon DEF Shape

LEMMA SendPlaced == ASSUME PInv, NEW c \in Client, send(c) PROVE PInv'
<1>1. step(c, idle) /\ data' = data /\ Stored
  BY Zenon DEF send, PInv, TypeOK, Stored
<1>2. ASSUME NEW k \in Key PROVE Shortened(Items'[k], Items[k])
  <2>1. Items[k] \in Seq(Token) /\ Items'[k] = Items[k]
    BY <1>1, PlacesTyped, Zenon DEF PInv, Items, Lists
  <2> QED BY <2>1, Shorter, Zenon
<1> QED BY <1>1, <1>2, IdleShape, Calm, Zenon

LEMMA RequestShape ==
  ASSUME NEW r \in Requests
  PROVE  /\ r.keys \in Seq(Key) /\ r.keys # <<>>
         /\ r.op \in {"lmove", "smove"} => Len(r.keys) = 2
         /\ r.op \in CombineStore => Len(r.keys) >= 2
<1> DEFINE n == Cardinality(Key)
<1>1. n \in Nat \ {0}
  BY KeyAssumption, Zenon
<1>2. ASSUME NEW s \in AllKeys PROVE s \in Seq(Key) /\ Len(s) = n
  BY <1>1 DEF AllKeys
<1>e. \A s \in Seq(Key) : (s = <<>>) <=> (Len(s) = 0)
  OBVIOUS
<1> HIDE DEF n
<1>3. CASE r.keys \in AllKeys /\ r.op \notin {"lmove", "smove"} \cup CombineStore
  BY <1>1, <1>2, <1>3, <1>e, Zenon
<1>4. CASE r.keys \in {<<k>> : k \in Key} /\ r.op \notin {"lmove", "smove"} \cup CombineStore
  <2>1. PICK k \in Key : r.keys = <<k>>
    BY <1>4, Zenon
  <2>2. <<k>> \in Seq(Key) /\ <<k>> # <<>>
    OBVIOUS
  <2> QED BY <1>4, <2>1, <2>2, Zenon
<1>5. CASE r.keys \in Key \X Key /\ r.op \notin CombineStore
  <2>1. PICK k \in Key, l \in Key : r.keys = <<k, l>>
    BY <1>5
  <2>2. <<k, l>> \in Seq(Key) /\ Len(<<k, l>>) = 2 /\ <<k, l>> # <<>>
    OBVIOUS
  <2> QED BY <1>5, <2>1, <2>2, Zenon
<1>6. CASE r.keys \in StoreKeys /\ r.op \in CombineStore
  <2>1. PICK s \in AllKeys, k \in Key : r.keys = Append(s, k)
    BY <1>6 DEF StoreKeys
  <2>2. s \in Seq(Key) /\ Len(s) = n
    BY <1>2, Zenon
  <2>3. r.keys \in Seq(Key) /\ Len(r.keys) = n + 1
    BY <2>1, <2>2
  <2>4. Len(r.keys) >= 2 /\ Len(r.keys) # 0
    BY <1>1, <2>3
  <2> QED BY <1>6, <1>e, <2>3, <2>4, Zenon DEF CombineStore
<1>7. CASE r \in [op : {"get", "getset", "set nx", "set xx", "setnx", "ttl"}, keys : {<<k>> : k \in Key}]
  BY <1>4, <1>7, Zenon DEF CombineStore
<1>8. CASE r \in [op : {"mget", "mset", "del", "exists"} \cup Iteration \cup Combine, keys : AllKeys]
  BY <1>3, <1>8, Zenon DEF CombineStore, Combine, Iteration
<1>9. CASE r \in [op : {"lmove", "smove"}, keys : Key \X Key]
  BY <1>5, <1>9, Zenon DEF CombineStore
<1>10. CASE r \in [op : CombineStore, keys : StoreKeys]
  BY <1>6, <1>10, Zenon
<1> QED BY <1>7, <1>8, <1>9, <1>10, Zenon DEF Requests

LEMMA ExecutePlaced ==
  ASSUME PInv, NEW c \in Client, NEW r \in Requests, execute(c, r) PROVE PInv'
<1> DEFINE q == [idle EXCEPT !.op = r.op, !.args = keys_of(r), !.keys = r.keys,
                            !.stage = first_stage(r.op)]
<1>1. /\ r.keys \in Seq(Key) /\ r.keys # <<>>
      /\ r.op \in {"lmove", "smove"} => Len(r.keys) = 2
      /\ r.op \in CombineStore => Len(r.keys) >= 2
  BY RequestShape, Zenon
<1>2. r.op \in Ops /\ keys_of(r) \in SUBSET Key
  BY <1>1 DEF Ops, keys_of
<1>3. /\ first_stage(r.op) \in Stages \ {"put", "store"}
      /\ first_stage(r.op) = "take" => r.op \in {"lmove", "smove"}
      /\ first_stage(r.op) = "read" => r.op \in Combine \cup CombineStore
  <2>1. r.op \in {"get", "getset", "set nx", "set xx", "setnx", "ttl", "mget", "mset", "del",
                  "exists", "lmove", "smove"} \cup Iteration \cup Combine \cup CombineStore
    BY RequestFields, Zenon
  <2>2. CASE r.op \in {"get", "mget", "getset"}
    BY <2>2, Zenon DEF first_stage, Stages
  <2>3. CASE r.op \in Lookup \cup {"keys"}
    BY <2>3, Zenon DEF first_stage, Stages, Lookup
  <2>4. CASE r.op = "mset"
    BY <2>4, Zenon DEF first_stage, Stages, Lookup
  <2>5. CASE r.op \in {"del", "flushall"}
    BY <2>5, Zenon DEF first_stage, Stages, Lookup
  <2>6. CASE r.op \in {"lmove", "smove"}
    BY <2>6, Zenon DEF first_stage, Stages, Lookup
  <2>7. CASE r.op \in Combine \cup CombineStore
    BY <2>7, Zenon DEF first_stage, Stages, Lookup, Combine, CombineStore
  <2> QED BY <2>1, <2>2, <2>3, <2>4, <2>5, <2>6, <2>7, Zenon DEF Lookup, Iteration
<1> DEFINE st == first_stage(r.op)
<1>4. /\ q \in [op : {r.op}, stage : {st}, args : {keys_of(r)}, keys : {r.keys}, found : {{}},
                sets : {<<>>}, hand : {{}}]
      /\ q.op = r.op /\ q.stage = st /\ q.keys = r.keys /\ q.hand = {}
  BY Zenon DEF idle
<1>5. step(c, q)
  BY Zenon DEF execute
<1> HIDE DEF q, st
<1>6. q \in Command
  <2>1. Command = [op : Ops, stage : Stages, args : SUBSET Key, keys : Seq(Key), found : SUBSET Key,
                   sets : Seq(SUBSET Member), hand : SUBSET (Token \cup Member)]
    BY Zenon DEF Command, Ops, Stages
  <2>2. st \in Stages /\ <<>> \in Seq(SUBSET Member)
    BY <1>3 DEF st
  <2> QED BY <1>1, <1>2, <1>4, <2>1, <2>2, Zenon
<1>7. Shape(q)
  BY <1>1, <1>3, <1>4, <1>6, Zenon DEF Shape, st
<1>8. data' = data /\ Stored
  BY Zenon DEF execute, PInv, TypeOK, Stored, live
<1>9. ASSUME NEW k \in Key PROVE Shortened(Items'[k], Items[k])
  <2>1. Items[k] \in Seq(Token) /\ Items'[k] = Items[k]
    BY <1>8, PlacesTyped, Zenon DEF PInv, Items, Lists
  <2> QED BY <2>1, Shorter, Zenon
<1> QED BY <1>4, <1>5, <1>7, <1>8, <1>9, Calm, Zenon

(* The commands of one access, and time *)
LEMMA OthersPlaced ==
  ASSUME PInv, client' = client, Stored, \A k \in Key : Shortened(Items'[k], Items[k])
  PROVE  PInv'
<1>1. client' \in [Client -> Command] /\ \A b \in Client : Shape(client'[b])
  BY Zenon DEF PInv, TypeOK
<1>2. \A b \in Client : HandsOf'[b] \subseteq HandsOf[b]
  BY Zenon DEF HandsOf
<1> QED BY <1>1, <1>2, Fewer, Zenon

LEMMA RpushPlaced ==
  ASSUME PInv, NEW k \in Key, NEW t \in Token, cmd_rpush(k, t), client' = client PROVE PInv'
<1> DEFINE e == value_or(k, list(<<>>))
           s == Append(e.value.items, t)
           n == [e EXCEPT !.value = list(s)]
<1>1. e \in Entry /\ e.value.items = Items[k] /\ TypeOK
  <2>1. <<>> \in Seq(Token)
    OBVIOUS
  <2>2. list(<<>>) \in Value /\ list(<<>>).items = <<>>
    BY <2>1, NewValues, Zenon
  <2> QED BY <2>2, StartingValue, Zenon DEF PInv, Items
<1>2. ~here(t) /\ ~held(t)
  BY Zenon DEF cmd_rpush
<1>w. write([data EXCEPT ![k] = n])
  BY Zenon DEF cmd_rpush
<1>i. Items \in Lists /\ HandsOf \in Hands
  BY <1>1, PlacesTyped, Zenon
<1> HIDE DEF e
<1>3. s = Append(Items[k], t) /\ s \in Seq(Token)
  <2>1. Items[k] \in Seq(Token)
    BY <1>i, Zenon DEF Lists
  <2> QED BY <1>1, <2>1
<1> HIDE DEF s
<1>4. n \in Entry /\ n.value.items = s
  BY <1>1, <1>3, NewValues, EntryUpdate, Zenon
<1> HIDE DEF n
<1>5. Stored /\ Items' = [Items EXCEPT ![k] = s]
  BY <1>1, <1>4, <1>w, WriteEntry, Zenon
<1>6. client' \in [Client -> Command] /\ \A b \in Client : Shape(client'[b])
  BY Zenon DEF PInv, TypeOK
<1>7. ~InLists(t, Items)
  <2> SUFFICES ASSUME NEW l \in Key, NEW i \in 1 .. Len(Items[l]), Items[l][i] = t PROVE FALSE
    BY Zenon DEF InLists
  <2>1. Items[l] \in Seq(Token) /\ Items[l] = data[l].value.items
    BY <1>i, Zenon DEF Items, Lists
  <2>2. i \in DOMAIN Items[l]
    BY <2>1
  <2> QED BY <1>2, <2>1, <2>2, Zenon DEF here
<1>8. \A b \in Client : t \notin HandsOf[b]
  BY <1>2, Zenon DEF held, HandsOf
<1>9. Apart(Items', HandsOf)
  BY <1>3, <1>5, <1>7, <1>8, <1>i, ApartPut, Zenon DEF PInv
<1>10. HandsOf' = HandsOf
  BY Zenon DEF HandsOf
<1> QED BY <1>10, <1>5, <1>6, <1>9, Settled, Zenon

LEMMA OneAccessPlaced == ASSUME PInv, NEW k \in Key, one_access(k) PROVE PInv'
<1>t. TypeOK /\ data[k] \in Entry \cup {missing}
  BY Zenon DEF PInv, TypeOK
<1>c. client' = client
  BY Zenon DEF one_access
<1>i. \A l \in Key : Items[l] \in Seq(Token) /\ Items[l] = data[l].value.items
  BY <1>t, PlacesTyped, Zenon DEF Items, Lists
<1>w. ASSUME Stored, Items' = Items \/ \E q : Items' = [Items EXCEPT ![k] = q] /\ Shortened(q, Items[k])
      PROVE  PInv'
  <2>1. \A l \in Key : Items'[l] = Items[l] \/ (l = k /\ Shortened(Items'[l], Items[l]))
    BY <1>w, Zenon DEF Items
  <2>2. \A l \in Key : Shortened(Items'[l], Items[l])
    BY <1>i, <2>1, Shorter, Zenon
  <2> QED BY <1>c, <1>w, <2>2, OthersPlaced, Zenon
<1>e. ASSUME NEW e \in Entry \cup {missing}, write([data EXCEPT ![k] = e]),
             e.value.items = <<>>
      PROVE  PInv'
  <2>1. Stored /\ Items' = [Items EXCEPT ![k] = <<>>]
    BY <1>e, <1>t, WriteEntry, Zenon
  <2>2. Shortened(<<>>, Items[k])
    BY <1>i, Shorter, Zenon
  <2> QED BY <1>w, <2>1, <2>2, Zenon
<1>x. ASSUME NEW t \in {"none", "ahead", "past"}, data[k] # missing,
             write([data EXCEPT ![k].expires_at = t])
      PROVE  PInv'
  BY <1>t, <1>w, <1>x, WriteField, Zenon
<1>1. CASE cmd_expire(k)
  BY <1>1, <1>x, Zenon DEF cmd_expire, exists
<1>2. CASE cmd_persist(k)
  BY <1>2, <1>t, <1>x, MissingFields, Zenon DEF cmd_persist
<1>3. CASE elapse(k)
  BY <1>3, <1>t, <1>x, MissingFields, Zenon DEF elapse
<1>4. CASE cmd_del(k)
  BY <1>4, <1>e, MissingFields, Zenon DEF cmd_del
<1>5. ASSUME NEW t \in {"none", "ahead"}, cmd_set(k, t) PROVE PInv'
  <2>1. entry(string, t) \in Entry /\ entry(string, t).value.items = <<>>
    BY NewValues, NewEntry
  <2> QED BY <1>5, <1>e, <2>1, Zenon DEF cmd_set
<1>6. ASSUME NEW t \in Token, cmd_rpush(k, t) PROVE PInv'
  BY <1>6, <1>c, RpushPlaced, Zenon
<1>7. CASE cmd_lpop(k)
  <2> DEFINE s == data[k].value.items
             v == list(Tail(s))
  <2>1. s # <<>> /\ data[k] # missing /\ s = Items[k] /\ s \in Seq(Token)
    BY <1>7, <1>i, <1>t, EntryFields, Zenon DEF cmd_lpop
  <2>2. write([data EXCEPT ![k].value = v])
    BY <1>7, Zenon DEF cmd_lpop
  <2> HIDE DEF s
  <2>3. Tail(s) \in Seq(Token) /\ Shortened(Tail(s), s)
    BY <2>1, Shorter
  <2>4. v \in Value /\ v.items = Tail(s)
    BY <2>3, NewValues, Zenon
  <2> HIDE DEF v
  <2>5. Stored /\ Items' = [Items EXCEPT ![k] = Tail(s)]
    BY <1>t, <2>1, <2>2, <2>4, WriteField, Zenon
  <2> QED BY <1>w, <2>1, <2>3, <2>5, Zenon
<1>8. ASSUME NEW m \in Member, cmd_sadd(k, m) PROVE PInv'
  <2> DEFINE e == value_or(k, set({}))
             v == set(e.value.members \cup {m})
             n == [e EXCEPT !.value = v]
  <2>1. e \in Entry /\ e.value \in Value
    <3>1. set({}) \in Value /\ set({}).items = <<>>
      BY NewValues, Zenon
    <3> QED BY <1>t, <3>1, StartingValue, Zenon
  <2>2. e.value.members \cup {m} \in SUBSET Member
    BY <2>1, ValueFields, Zenon
  <2>3. write([data EXCEPT ![k] = n])
    BY <1>8, Zenon DEF cmd_sadd
  <2> HIDE DEF e
  <2>4. v \in Value /\ v.items = <<>>
    BY <2>2, NewValues, Zenon
  <2> HIDE DEF v
  <2>5. n \in Entry /\ n.value.items = <<>>
    BY <2>1, <2>4, EntryUpdate, Zenon
  <2> HIDE DEF n
  <2> QED BY <1>e, <2>3, <2>5, Zenon
<1>9. ASSUME NEW m \in Member, cmd_srem(k, m) PROVE PInv'
  <2> DEFINE v == set(data[k].value.members \ {m})
  <2>1. data[k] # missing /\ data[k].value.members \ {m} \in SUBSET Member
    BY <1>9, <1>t, EntryFields, Zenon DEF cmd_srem
  <2>2. write([data EXCEPT ![k].value = v])
    BY <1>9, Zenon DEF cmd_srem
  <2>3. v \in Value /\ v.items = <<>>
    BY <2>1, NewValues, Zenon
  <2> HIDE DEF v
  <2>4. Stored /\ Items' = [Items EXCEPT ![k] = <<>>]
    BY <1>t, <2>1, <2>2, <2>3, WriteField, Zenon
  <2>5. Shortened(<<>>, Items[k])
    BY <1>i, Shorter, Zenon
  <2> QED BY <1>w, <2>4, <2>5, Zenon
<1> QED BY <1>1, <1>2, <1>3, <1>4, <1>5, <1>6, <1>7, <1>8, <1>9, Zenon DEF one_access

-----------------------------------------------------------------------------
LEMMA InitPlaced == Init => PInv
<1> SUFFICES ASSUME Init PROVE PInv
  BY Zenon
<1>1. TypeOK
  BY IdleShape, Zenon DEF Init, TypeOK
<1>2. \A c \in Client : Shape(client[c])
  BY IdleShape, Zenon DEF Init
<1>3. \A k \in Key : Items[k] = <<>>
  BY MissingFields, Zenon DEF Init, Items
<1>4. \A c \in Client : HandsOf[c] = {}
  BY IdleShape, Zenon DEF Init, HandsOf
<1>5. \A k \in Key : 1 .. Len(Items[k]) = {}
  BY <1>3
<1>6. Apart(Items, HandsOf)
  BY <1>4, <1>5, Zenon DEF Apart
<1> QED BY <1>1, <1>2, <1>6, Zenon DEF PInv

LEMMA NextPlaced == PInv /\ [Next]_vars => PInv'
<1> SUFFICES ASSUME PInv, [Next]_vars PROVE PInv'
  BY Zenon
<1>1. ASSUME NEW c \in Client, proceed(c) PROVE PInv'
  BY <1>1, GetPlaced, RemoveExpiredPlaced, LookPlaced, InsertPlaced, RemovePlaced, LmovePopPlaced,
     LmovePushPlaced, SmoveRemovePlaced, SmoveAddPlaced, ClonePlaced, StorePlaced, SendPlaced
    , Zenon DEF proceed
<1>2. ASSUME NEW c \in Client, NEW r \in Requests, execute(c, r) PROVE PInv'
  BY <1>2, ExecutePlaced, Zenon
<1>3. ASSUME NEW k \in Key, one_access(k) PROVE PInv'
  BY <1>3, OneAccessPlaced, Zenon
<1>4. CASE UNCHANGED vars
  <2>1. data' = data /\ client' = client /\ ever' = ever /\ always' = always
    BY <1>4, Zenon DEF vars
  <2>2. Items' = Items /\ HandsOf' = HandsOf
    BY <2>1, Zenon DEF Items, HandsOf
  <2>3. TypeOK'
    BY <2>1, Zenon DEF PInv, TypeOK
  <2>4. Apart(Items, HandsOf)'
    <3>1. Apart(Items', HandsOf')
      BY <2>2, Zenon DEF PInv
    <3> QED BY <3>1, Zenon DEF Apart, InLists
  <2>5. \A c \in Client : Shape(client[c])'
    <3>1. \A c \in Client : Shape(client'[c])
      BY <2>1, Zenon DEF PInv
    <3> QED BY <3>1, Zenon DEF Shape
  <2> QED BY <2>3, <2>4, <2>5, Zenon DEF PInv
<1> QED BY <1>1, <1>2, <1>3, <1>4, Zenon DEF Next

(* The entries of the store and the clients' commands have their types,    *)
(* whatever commands of any number of connections interleave.              *)
THEOREM KeyspaceTyped == Spec => []TypeOK
<1>1. PInv => TypeOK
  BY Zenon DEF PInv
<1> QED BY <1>1, InitPlaced, NextPlaced, PTL DEF Spec

(* A list element is in one list, once, or in one client's hand: LMOVE,    *)
(* which takes it under one lock and puts it back under another, never     *)
(* doubles it, for any number of clients, keys and elements.               *)
THEOREM ElementsOnce == Spec => []OnePlace
<1>1. PInv => OnePlace
  <2> SUFFICES ASSUME PInv, NEW t \in Token
               PROVE  LET lists == {p \in UNION {{k} \X DOMAIN data[k].value.items : k \in Key} :
                                      data[p[1]].value.items[p[2]] = t}
                          hands == {c \in Client : t \in client[c].hand}
                      IN /\ \A p, q \in lists : p = q
                         /\ \A c, d \in hands : c = d
                         /\ lists = {} \/ hands = {}
    BY Zenon DEF OnePlace
  <2> DEFINE lists == {p \in UNION {{k} \X DOMAIN data[k].value.items : k \in Key} :
                         data[p[1]].value.items[p[2]] = t}
             hands == {c \in Client : t \in client[c].hand}
  <2>i. Items \in Lists /\ HandsOf \in Hands /\ Apart(Items, HandsOf)
    BY PlacesTyped, Zenon DEF PInv
  <2>1. ASSUME NEW p \in lists
        PROVE  /\ p = <<p[1], p[2]>> /\ p[1] \in Key /\ p[2] \in 1 .. Len(Items[p[1]])
               /\ Items[p[1]][p[2]] = t
    <3>1. PICK k \in Key : p \in {k} \X DOMAIN data[k].value.items
      BY Zenon
    <3>2. p = <<p[1], p[2]>> /\ p[1] = k /\ p[2] \in DOMAIN data[k].value.items
      BY <3>1
    <3>3. Items[k] = data[k].value.items /\ Items[k] \in Seq(Token)
      BY <2>i, Zenon DEF Items, Lists
    <3>4. data[p[1]].value.items[p[2]] = t
      BY Zenon
    <3> QED BY <3>2, <3>3, <3>4
  <2>2. \A c \in hands : c \in Client /\ t \in HandsOf[c]
    BY Zenon DEF HandsOf
  <2> HIDE DEF lists, hands
  <2>3. \A p, q \in lists : p = q
    <3> TAKE p, q \in lists
    <3>1. p[1] = q[1] /\ p[2] = q[2]
      BY <2>1, <2>i DEF Apart
    <3> QED BY <2>1, <3>1, Zenon
  <2>4. \A c, d \in hands : c = d
    BY <2>2, <2>i, Zenon DEF Apart
  <2>5. lists = {} \/ hands = {}
    <3> SUFFICES ASSUME NEW p \in lists, NEW c \in hands PROVE FALSE
      BY Zenon
    <3>1. InLists(t, Items)
      BY <2>1, Zenon DEF InLists
    <3> QED BY <2>2, <2>i, <3>1, Zenon DEF Apart
  <2> QED BY <2>3, <2>4, <2>5, Zenon DEF lists, hands
<1> QED BY <1>1, InitPlaced, NextPlaced, PTL DEF Spec

-----------------------------------------------------------------------------
(* What the commands answer of their keys *)

Tracked == Looks \cup {"del", "flushall", "mset", "getset"}

(* A command is a record with these fields. *)
IsCommand(r) ==
  r \in [op : {r.op}, stage : {r.stage}, args : {r.args}, keys : {r.keys}, found : {r.found},
         sets : {r.sets}, hand : {r.hand}]

(* The access a command is at belongs to its handler, and the keys it has  *)
(* still to visit run out with its answer.                                 *)
Control(r) ==
  /\ r.stage \in {"get", "expired"} => r.op \in {"get", "mget", "getset"}
  /\ r.stage = "look" => r.op \in Lookup \cup {"keys"}
  /\ r.stage = "insert" => r.op \in {"mset", "getset", "set nx", "set xx", "setnx"}
  /\ r.stage = "remove" => r.op \in {"del", "flushall"}
  /\ r.stage \in {"take", "put", "read", "store"} => r.op \notin Tracked
  /\ r.op \in Tracked => r.keys \in Seq(Key)
  /\ r.op \in Tracked /\ r.stage # "done" => r.keys # <<>>
  /\ r.op \in Tracked /\ r.stage = "done" => r.keys = <<>>
  /\ r.op \in {"set nx", "set xx", "setnx"} /\ r.stage # "done" => Len(r.keys) = 1

(* The keys visited so far. *)
past(r) == r.args \ keys_of(r)

(* What the command knows of them, with the keys e that were live at some  *)
(* moment and a that were at every moment.                                 *)
Witnessed(r, e, a) ==
  /\ r.stage = "expired" => Head(r.keys) \notin a
  /\ r.stage = "insert" /\ r.op \in Looks => Head(r.keys) \in r.found \/ Head(r.keys) \notin a
  /\ r.op \in Looks => r.found \subseteq e /\ (past(r) \ r.found) \cap a = {}
  /\ r.op \in {"del", "flushall"} => past(r) \cap a = {}
  /\ r.op \in {"mset", "getset"} => past(r) \subseteq e

IInv ==
  /\ DOMAIN data = Key /\ data = [k \in Key |-> data[k]]
  /\ client = [c \in Client |-> client[c]]
  /\ ever \in [Client -> SUBSET Key] /\ always \in [Client -> SUBSET Key]
  /\ \A c \in Client :
       /\ IsCommand(client[c]) /\ Control(client[c])
       /\ Witnessed(client[c], ever[c], always[c])
       /\ running(c) => live(data) \subseteq ever[c] /\ always[c] \subseteq live(data)

-----------------------------------------------------------------------------
(* The invariant implies the property *)

LEMMA Implied == IInv => AnswersWitnessed
<1> SUFFICES ASSUME IInv PROVE AnswersWitnessed
  BY Zenon
<1>1. ASSUME NEW c \in Client, at(c, "done"), client[c].op \in Tracked
      PROVE  past(client[c]) = client[c].args
  <2>1. client[c].keys = <<>>
    BY <1>1, Zenon DEF IInv, Control, at
  <2> QED BY <2>1 DEF past, keys_of
<1> QED BY <1>1, Zenon DEF AnswersWitnessed, IInv, Witnessed, Tracked

-----------------------------------------------------------------------------
(* Visiting a key *)

(* The record after a change of its fields. *)
LEMMA StageRecord ==
  ASSUME NEW r, IsCommand(r), NEW st, NEW q, q = [r EXCEPT !.stage = st]
  PROVE  /\ IsCommand(q)
         /\ q.op = r.op /\ q.args = r.args /\ q.found = r.found /\ q.keys = r.keys /\ q.stage = st
<1>1. q.op = r.op /\ q.args = r.args /\ q.found = r.found /\ q.keys = r.keys /\ q.stage = st
      /\ q.sets = r.sets /\ q.hand = r.hand
  BY Zenon DEF IsCommand
<1>2. q \in [op : {r.op}, stage : {st}, args : {r.args}, keys : {r.keys}, found : {r.found},
             sets : {r.sets}, hand : {r.hand}]
  BY Zenon DEF IsCommand
<1> QED BY <1>1, <1>2, Zenon DEF IsCommand

LEMMA FoundRecord ==
  ASSUME NEW r, IsCommand(r), NEW f, NEW q, q = [r EXCEPT !.found = f]
  PROVE  /\ IsCommand(q)
         /\ q.op = r.op /\ q.args = r.args /\ q.found = f /\ q.keys = r.keys /\ q.stage = r.stage
<1>1. q.op = r.op /\ q.args = r.args /\ q.found = f /\ q.keys = r.keys /\ q.stage = r.stage
      /\ q.sets = r.sets /\ q.hand = r.hand
  BY Zenon DEF IsCommand
<1>2. q \in [op : {r.op}, stage : {r.stage}, args : {r.args}, keys : {r.keys}, found : {f},
             sets : {r.sets}, hand : {r.hand}]
  BY Zenon DEF IsCommand
<1> QED BY <1>1, <1>2, Zenon DEF IsCommand

LEMMA VisitedRecord ==
  ASSUME NEW r, IsCommand(r), NEW q, q = visited(r)
  PROVE  /\ IsCommand(q)
         /\ q.op = r.op /\ q.args = r.args /\ q.found = r.found /\ q.keys = Tail(r.keys)
         /\ q.stage = IF Len(r.keys) = 1 THEN "done" ELSE r.stage
<1> DEFINE st == IF Len(r.keys) = 1 THEN "done" ELSE r.stage
<1>2. q = [r EXCEPT !.keys = Tail(r.keys), !.stage = st]
  BY Zenon DEF visited
<1> HIDE DEF st
<1>3. q.op = r.op /\ q.args = r.args /\ q.found = r.found /\ q.keys = Tail(r.keys) /\ q.stage = st
      /\ q.sets = r.sets /\ q.hand = r.hand
  BY <1>2, Zenon DEF IsCommand
<1>4. q \in [op : {r.op}, stage : {st}, args : {r.args}, keys : {Tail(r.keys)}, found : {r.found},
             sets : {r.sets}, hand : {r.hand}]
  BY <1>2, Zenon DEF IsCommand
<1>5. IsCommand(q)
  BY <1>3, <1>4, Zenon DEF IsCommand
<1> QED BY <1>3, <1>5, Zenon DEF st

-----------------------------------------------------------------------------
(* What is witnessed *)

(* With time, more keys have been live once and fewer all the time. *)
LEMMA Monotone ==
  ASSUME NEW r, NEW e, NEW a, NEW f \in SUBSET Key, NEW b \in SUBSET Key,
         Witnessed(r, e, a), e \subseteq f, b \subseteq a
  PROVE  Witnessed(r, f, b)
BY Zenon DEF Witnessed

(* A command that is not followed owes nothing. *)
LEMMA Untracked ==
  ASSUME NEW r, NEW e, NEW a, r.op \notin Tracked, r.stage \in {"take", "put", "read", "store", "done"}
  PROVE  Control(r) /\ Witnessed(r, e, a)
BY Zenon DEF Control, Witnessed, Tracked, Looks, Lookup

(* What a command must know of a key to go on to the next. *)
Knows(r, k, e, a) ==
  /\ r.op \in Looks => k \in r.found \/ k \notin a
  /\ r.op \in {"del", "flushall"} => k \notin a
  /\ r.op \in {"mset", "getset"} => k \in e

LEMMA VisitedGood ==
  ASSUME NEW r, IsCommand(r), Control(r), r.op \in Tracked,
         r.stage \in {"get", "look", "insert", "remove"},
         NEW e, NEW a, Witnessed(r, e, a), Knows(r, Head(r.keys), e, a)
  PROVE  IsCommand(visited(r)) /\ Control(visited(r)) /\ Witnessed(visited(r), e, a)
<1> DEFINE q == visited(r)
<1>1. /\ IsCommand(q) /\ q.op = r.op /\ q.args = r.args /\ q.found = r.found
      /\ q.keys = Tail(r.keys) /\ q.stage = IF Len(r.keys) = 1 THEN "done" ELSE r.stage
  BY VisitedRecord, Zenon
<1>2. r.keys \in Seq(Key) /\ r.keys # <<>>
  BY Zenon DEF Control
<1> HIDE DEF q
<1>3. /\ q.keys \in Seq(Key) /\ (q.stage = "done" <=> q.keys = <<>>)
      /\ keys_of(r) = {Head(r.keys)} \cup keys_of(q)
  BY <1>1, <1>2, TailKeys, Zenon DEF keys_of
<1>4. past(q) \subseteq past(r) \cup {Head(r.keys)}
  BY <1>1, <1>3, Zenon DEF past
<1>5. Control(q)
  BY <1>1, <1>3, Zenon DEF Control, Tracked, Looks, Lookup
<1>6. ~(q.stage = "insert" /\ q.op \in Looks) /\ q.stage # "expired"
  BY <1>1, Zenon DEF Control, Looks, Lookup
<1>7. Witnessed(q, e, a)
  BY <1>1, <1>4, <1>6, Zenon DEF Witnessed, Knows
<1> QED BY <1>1, <1>5, <1>7, Zenon DEF q

-----------------------------------------------------------------------------
(* A step of one client *)

Good(r, e, a) == IsCommand(r) /\ Control(r) /\ Witnessed(r, e, a)

(* An access that leaves the store. *)
LEMMA LookStep ==
  ASSUME IInv, NEW c \in Client, running(c), NEW r, step(c, r), UNCHANGED <<data, ever, always>>,
         Good(r, ever[c], always[c])
  PROVE  IInv'
<1>1. client' = [client EXCEPT ![c] = r]
  BY Zenon DEF step
<1>2. client'[c] = r /\ \A d \in Client : d # c => client'[d] = client[d]
  BY <1>1, Zenon DEF IInv
<1>3. client' = [d \in Client |-> client'[d]]
  BY <1>1, Zenon DEF IInv
<1>4. live(data)' = live(data)
  BY Zenon DEF live
<1>5. ASSUME NEW d \in Client
      PROVE  /\ IsCommand(client'[d]) /\ Control(client'[d])
             /\ Witnessed(client'[d], ever'[d], always'[d])
             /\ running(d)' => live(data)' \subseteq ever'[d] /\ always'[d] \subseteq live(data)'
  <2>1. CASE d = c
    BY <1>2, <1>4, <2>1, Zenon DEF IInv, Good
  <2>2. CASE d # c
    BY <1>2, <1>4, <2>2, Zenon DEF IInv, running
  <2> QED BY <2>1, <2>2, Zenon
<1> QED BY <1>3, <1>5, Zenon DEF IInv

(* What every other client sees of a write. *)
LEMMA WriteSeen ==
  ASSUME IInv, NEW d, d = [k \in Key |-> d[k]], write(d), NEW b \in Client
  PROVE  /\ Witnessed(client[b], ever'[b], always'[b])
         /\ running(b) => /\ ever'[b] = ever[b] \cup live(d) /\ always'[b] = always[b] \cap live(d)
                         /\ live(data)' \subseteq ever'[b] /\ always'[b] \subseteq live(data)'
<1>1. ever'[b] = (IF running(b) THEN ever[b] \cup live(d) ELSE ever[b])
      /\ always'[b] = (IF running(b) THEN always[b] \cap live(d) ELSE always[b])
  BY Zenon DEF write
<1>2. ever[b] \subseteq ever'[b] /\ always'[b] \subseteq always[b]
  BY <1>1, Zenon
<1>3. ever'[b] \in SUBSET Key /\ always'[b] \in SUBSET Key
  BY <1>1 DEF IInv, live
<1>4. Witnessed(client[b], ever'[b], always'[b])
  BY <1>2, <1>3, Monotone DEF IInv
<1>5. live(data)' = live(d)
  BY Zenon DEF write, live
<1> QED BY <1>1, <1>4, <1>5, Zenon

(* An access that writes. *)
LEMMA WriteStep ==
  ASSUME IInv, NEW c \in Client, running(c), NEW r, step(c, r),
         NEW d, d = [k \in Key |-> d[k]], write(d),
         Good(r, ever[c] \cup live(d), always[c] \cap live(d))
  PROVE  IInv'
<1>1. client' = [client EXCEPT ![c] = r]
  BY Zenon DEF step
<1>2. client'[c] = r /\ \A b \in Client : b # c => client'[b] = client[b]
  BY <1>1, Zenon DEF IInv
<1>3. client' = [b \in Client |-> client'[b]]
  BY <1>1, Zenon DEF IInv
<1>4. ever' \in [Client -> SUBSET Key] /\ always' \in [Client -> SUBSET Key]
  BY DEF write, IInv, live
<1>5. DOMAIN data' = Key /\ data' = [k \in Key |-> data'[k]]
  BY Zenon DEF write
<1>6. ASSUME NEW b \in Client
      PROVE  /\ IsCommand(client'[b]) /\ Control(client'[b])
             /\ Witnessed(client'[b], ever'[b], always'[b])
             /\ running(b)' => live(data)' \subseteq ever'[b] /\ always'[b] \subseteq live(data)'
  <2>0. /\ Witnessed(client[b], ever'[b], always'[b])
        /\ running(b) => /\ ever'[b] = ever[b] \cup live(d) /\ always'[b] = always[b] \cap live(d)
                        /\ live(data)' \subseteq ever'[b] /\ always'[b] \subseteq live(data)'
    BY WriteSeen, Zenon
  <2>1. CASE b = c
    BY <1>2, <2>0, <2>1, Zenon DEF Good
  <2>2. CASE b # c
    BY <1>2, <2>0, <2>2, Zenon DEF IInv, running
  <2> QED BY <2>1, <2>2, Zenon
<1> QED BY <1>3, <1>4, <1>5, <1>6, Zenon DEF IInv

-----------------------------------------------------------------------------
(* The accesses *)

(* The state of a client that runs a tracked command. *)
LEMMA Runs ==
  ASSUME IInv, NEW c \in Client, running(c), client[c].op \in Tracked
  PROVE  /\ Good(client[c], ever[c], always[c])
         /\ key(c) = Head(client[c].keys) /\ key(c) \in Key
         /\ live(data) \subseteq ever[c] /\ always[c] \subseteq live(data)
<1>1. client[c].keys \in Seq(Key) /\ client[c].keys # <<>>
  BY Zenon DEF IInv, Control, running
<1>2. Head(client[c].keys) \in Key
  BY <1>1
<1> QED BY <1>2, Zenon DEF IInv, Good, key

(* got, for a command that knows what it must. *)
LEMMA GotGood ==
  ASSUME NEW r, NEW e, NEW a, Good(r, e, a), r.op \in {"get", "mget", "getset"}, r.stage = "get",
         r.op # "getset" => Knows(r, Head(r.keys), e, a)
  PROVE  Good(got(r), e, a)
<1>1. r.op \in Tracked
  BY Zenon DEF Tracked, Looks
<1>2. CASE r.op = "getset"
  <2> DEFINE q == [r EXCEPT !.stage = "insert"]
  <2>1. got(r) = q
    BY <1>2, Zenon DEF got
  <2>2. IsCommand(q) /\ q.op = r.op /\ q.args = r.args /\ q.found = r.found /\ q.keys = r.keys
        /\ q.stage = "insert"
    BY StageRecord DEF Good
  <2> HIDE DEF q
  <2>3. Control(q)
    BY <1>2, <2>2, Zenon DEF Good, Control, Tracked, Looks, Lookup
  <2>4. Witnessed(q, e, a)
    BY <1>2, <2>2, Zenon DEF Good, Witnessed, past, keys_of, Looks, Lookup
  <2> QED BY <2>1, <2>2, <2>3, <2>4, Zenon DEF Good
<1>3. CASE r.op # "getset"
  BY <1>1, <1>3, VisitedGood, Zenon DEF got, Good
<1> QED BY <1>2, <1>3, Zenon

(* A key that is found is added to found. *)
LEMMA FoundGood ==
  ASSUME NEW r, NEW e, NEW a, Good(r, e, a), NEW k \in e, NEW q, q = [r EXCEPT !.found = @ \cup {k}]
  PROVE  Good(q, e, a) /\ q.op = r.op /\ q.keys = r.keys /\ q.stage = r.stage /\ k \in q.found
<1>1. /\ IsCommand(q) /\ q.op = r.op /\ q.args = r.args /\ q.found = r.found \cup {k}
      /\ q.keys = r.keys /\ q.stage = r.stage
  BY FoundRecord DEF Good
<1>2. Control(q)
  BY <1>1, Zenon DEF Good, Control
<1>3. past(q) = past(r)
  BY <1>1, Zenon DEF past, keys_of
<1>4. Witnessed(q, e, a)
  BY <1>1, <1>3, Zenon DEF Good, Witnessed
<1> QED BY <1>1, <1>2, <1>4, Zenon DEF Good

LEMMA GetStep ==
  ASSUME IInv, NEW c \in Client, get(c)
  PROVE  IInv'
<1> DEFINE r == client[c]
           f == [r EXCEPT !.found = @ \cup {key(c)}]
           x == [r EXCEPT !.stage = "expired"]
           k == key(c)
<1>1. /\ running(c) /\ r.stage = "get" /\ r.op \in {"get", "mget", "getset"} /\ r.op \in Tracked
  BY Zenon DEF get, at, running, IInv, Control, Tracked, Looks
<1>2. /\ Good(r, ever[c], always[c]) /\ k = Head(r.keys) /\ k \in Key
      /\ live(data) \subseteq ever[c] /\ always[c] \subseteq live(data)
  BY <1>1, Runs, Zenon
<1>3. k \in live(data) <=> data[k] # missing /\ ~is_expired(data[k])
  BY <1>2, Zenon DEF live
<1>4. /\ UNCHANGED <<data, ever, always>>
      /\ step(c, IF data[k] = missing THEN got(r) ELSE IF is_expired(data[k]) THEN x ELSE got(f))
  BY Zenon DEF get
<1> HIDE DEF r, f, x, k
<1>5. CASE k \notin live(data) /\ data[k] = missing
  <2>1. Good(got(r), ever[c], always[c])
    BY <1>1, <1>2, <1>5, GotGood, Zenon DEF Knows
  <2> QED BY <1>1, <1>4, <1>5, <2>1, LookStep, Zenon
<1>6. CASE k \notin live(data) /\ data[k] # missing
  <2>1. /\ IsCommand(x) /\ x.op = r.op /\ x.args = r.args /\ x.found = r.found /\ x.keys = r.keys
        /\ x.stage = "expired"
    BY <1>2, StageRecord DEF Good, x
  <2>2. Control(x)
    BY <1>1, <1>2, <2>1, Zenon DEF Good, Control
  <2>3. Witnessed(x, ever[c], always[c])
    BY <1>2, <1>6, <2>1, Zenon DEF Good, Witnessed, past, keys_of
  <2>4. Good(x, ever[c], always[c])
    BY <2>1, <2>2, <2>3, Zenon DEF Good
  <2>5. step(c, x)
    BY <1>3, <1>4, <1>6, Zenon
  <2> QED BY <1>1, <1>4, <2>4, <2>5, LookStep, Zenon
<1>7. CASE k \in live(data)
  <2>1. /\ Good(f, ever[c], always[c]) /\ f.op = r.op /\ f.keys = r.keys /\ f.stage = r.stage
        /\ k \in f.found
    BY <1>2, <1>7, FoundGood DEF f, k
  <2>2. Good(got(f), ever[c], always[c])
    BY <1>1, <1>2, <2>1, GotGood, Zenon DEF Knows
  <2>3. step(c, got(f))
    BY <1>3, <1>4, <1>7, Zenon
  <2> QED BY <1>1, <1>4, <2>2, <2>3, LookStep, Zenon
<1> QED BY <1>5, <1>6, <1>7, Zenon

(* Writes to one key. *)
LEMMA OneKey ==
  ASSUME IInv, NEW k, NEW e, NEW d, d = [data EXCEPT ![k] = e]
  PROVE  d = [j \in Key |-> d[j]]
BY Zenon DEF IInv

LEMMA GoneKey ==
  ASSUME IInv, NEW k \in Key, NEW d, d = [data EXCEPT ![k] = missing]
  PROVE  d = [j \in Key |-> d[j]] /\ k \notin live(d)
<1>1. d = [j \in Key |-> d[j]] /\ d[k] = missing
  BY Zenon DEF IInv
<1> QED BY <1>1, Zenon DEF live

LEMMA SetKey ==
  ASSUME IInv, NEW k \in Key, NEW t \in {"none", "ahead"}, NEW d, d = [data EXCEPT ![k] = entry(string, t)]
  PROVE  d = [j \in Key |-> d[j]] /\ k \in live(d)
<1>1. d = [j \in Key |-> d[j]] /\ d[k] = entry(string, t)
  BY Zenon DEF IInv
<1>2. entry(string, t) # missing /\ ~is_expired(entry(string, t))
  BY Zenon DEF entry, string, missing, is_expired
<1> QED BY <1>1, <1>2, Zenon DEF live

(* The command with what the write shows. *)
LEMMA Later ==
  ASSUME IInv, NEW c \in Client, Good(client[c], ever[c], always[c]), NEW d
  PROVE  Good(client[c], ever[c] \cup live(d), always[c] \cap live(d))
<1>1. ever[c] \cup live(d) \in SUBSET Key /\ always[c] \cap live(d) \in SUBSET Key
  BY Zenon DEF IInv, live
<1> QED BY <1>1, Monotone DEF Good

LEMMA RemoveExpiredStep ==
  ASSUME IInv, NEW c \in Client, remove_expired(c)
  PROVE  IInv'
<1> DEFINE r == client[c]
           g == [r EXCEPT !.stage = "get"]
           k == key(c)
           d == [data EXCEPT ![k] = missing]
           e == ever[c] \cup live(d)
           a == always[c] \cap live(d)
<1>1. /\ running(c) /\ r.stage = "expired" /\ r.op \in {"get", "mget", "getset"} /\ r.op \in Tracked
  BY Zenon DEF remove_expired, at, running, IInv, Control, Tracked, Looks
<1>2. /\ Good(r, ever[c], always[c]) /\ k = Head(r.keys) /\ k \in Key
  BY <1>1, Runs, Zenon
<1>3. step(c, got(g)) /\ write(d)
  BY Zenon DEF remove_expired
<1>4. d = [j \in Key |-> d[j]] /\ k \notin live(d)
  BY <1>2, GoneKey, Zenon
<1>5. Good(r, e, a)
  BY <1>2, Later, Zenon
<1>6. /\ IsCommand(g) /\ g.op = r.op /\ g.args = r.args /\ g.found = r.found /\ g.keys = r.keys
      /\ g.stage = "get"
  BY <1>2, StageRecord DEF Good
<1>7. k \notin a
  BY <1>4, Zenon
<1> HIDE DEF r, g, k, d, e, a
<1>8. Control(g) /\ Witnessed(g, e, a)
  BY <1>1, <1>5, <1>6, Zenon DEF Good, Control, Witnessed, past, keys_of
<1>9. Good(got(g), e, a)
  BY <1>1, <1>2, <1>6, <1>7, <1>8, GotGood, Zenon DEF Good, Knows
<1> QED BY <1>1, <1>3, <1>4, <1>9, WriteStep, Zenon DEF e, a

LEMMA Sees ==
  ASSUME NEW op, NEW k \in Key
  PROVE  sees(op, k) <=> k \in live(data)
<1>1. exists(k) <=> k \in live(data)
  BY Zenon DEF exists, live
<1>2. pttl(k) # -2 <=> exists(k)
  BY DEF pttl, exists
<1> QED BY <1>1, <1>2, Zenon DEF sees

LEMMA LooksStep ==
  ASSUME IInv, NEW c \in Client, look(c)
  PROVE  IInv'
<1> DEFINE r == client[c]
           k == key(c)
           yes == sees(r.op, k)
           q == IF yes THEN [r EXCEPT !.found = @ \cup {k}] ELSE r
           x == [q EXCEPT !.stage = "insert"]
           goes_on == r.op \in (IF yes THEN {"set xx"} ELSE {"set nx", "setnx"})
<1>1. running(c) /\ r.stage = "look" /\ r.op \in Lookup \cup {"keys"}
  BY Zenon DEF look, at, running, IInv, Control
<1>2. r.op \in Looks /\ r.op \in Tracked
  BY <1>1, Zenon DEF Looks, Tracked
<1>3. /\ Good(r, ever[c], always[c]) /\ k = Head(r.keys) /\ k \in Key
      /\ live(data) \subseteq ever[c] /\ always[c] \subseteq live(data)
  BY <1>1, <1>2, Runs, Zenon
<1>4. yes <=> k \in live(data)
  BY <1>3, Sees, Zenon
<1>5. /\ UNCHANGED <<data, ever, always>>
      /\ step(c, IF goes_on THEN x ELSE visited(q))
  BY Zenon DEF look
<1>6. /\ Good(q, ever[c], always[c]) /\ q.op = r.op /\ q.keys = r.keys /\ q.stage = r.stage
      /\ k \in q.found \/ k \notin always[c]
  <2>1. CASE yes
    BY <1>3, <1>4, <2>1, FoundGood
  <2>2. CASE ~yes
    BY <1>3, <1>4, <2>2, Zenon
  <2> QED BY <2>1, <2>2, Zenon
<1>7. goes_on => r.op \in {"set xx", "set nx", "setnx"}
  BY Zenon
<1> HIDE DEF r, k, yes, q, x, goes_on
<1>8. CASE goes_on
  <2>1. /\ IsCommand(x) /\ x.op = q.op /\ x.args = q.args /\ x.found = q.found /\ x.keys = q.keys
        /\ x.stage = "insert"
    <3>1. IsCommand(q)
      BY <1>6, Zenon DEF Good
    <3>2. x = [q EXCEPT !.stage = "insert"]
      BY Zenon DEF x
    <3> HIDE DEF q
    <3> QED BY <3>1, <3>2, StageRecord
  <2>2. Control(x)
    BY <1>1, <1>2, <1>6, <1>7, <1>8, <2>1, Zenon DEF Good, Control
  <2>3. Witnessed(x, ever[c], always[c])
    BY <1>3, <1>6, <2>1, Zenon DEF Good, Witnessed, past, keys_of
  <2>4. Good(x, ever[c], always[c])
    BY <2>1, <2>2, <2>3, Zenon DEF Good
  <2> QED BY <1>1, <1>5, <1>8, <2>4, LookStep, Zenon
<1>9. CASE ~goes_on
  <2>1. Knows(q, Head(q.keys), ever[c], always[c])
    BY <1>1, <1>3, <1>6, Zenon DEF Knows, Looks, Lookup
  <2>2. Good(visited(q), ever[c], always[c])
    BY <1>1, <1>2, <1>6, <2>1, VisitedGood, Zenon DEF Good
  <2> QED BY <1>1, <1>5, <1>9, <2>2, LookStep, Zenon
<1> QED BY <1>8, <1>9, Zenon

LEMMA InsertStep ==
  ASSUME IInv, NEW c \in Client, insert(c)
  PROVE  IInv'
<1> DEFINE r == client[c]
           k == key(c)
<1>1. running(c) /\ r.stage = "insert" /\ r.op \in {"mset", "getset", "set nx", "set xx", "setnx"}
  BY Zenon DEF insert, at, running, IInv, Control
<1>2. r.op \in Tracked
  BY <1>1, Zenon DEF Looks, Tracked, Lookup
<1>3. Good(r, ever[c], always[c]) /\ k = Head(r.keys) /\ k \in Key
  BY <1>1, <1>2, Runs, Zenon
<1>4. PICK t \in {"none", "ahead"} : write([data EXCEPT ![k] = entry(string, t)])
  BY Zenon DEF insert
<1> DEFINE d == [data EXCEPT ![k] = entry(string, t)]
           e == ever[c] \cup live(d)
           a == always[c] \cap live(d)
<1>5. d = [j \in Key |-> d[j]] /\ k \in live(d)
  BY <1>3, SetKey, Zenon
<1>6. Good(r, e, a) /\ step(c, visited(r)) /\ write(d) /\ a \subseteq always[c] /\ k \in e
  BY <1>3, <1>4, <1>5, Later, Zenon DEF insert
<1> HIDE DEF r, k, d, e, a
<1>7. Knows(r, k, e, a)
  BY <1>1, <1>3, <1>6, Zenon DEF Knows, Good, Witnessed
<1>8. Good(visited(r), e, a)
  BY <1>1, <1>2, <1>3, <1>6, <1>7, VisitedGood, Zenon DEF Good
<1> QED BY <1>1, <1>5, <1>6, <1>8, WriteStep, Zenon DEF e, a

LEMMA RemoveStep ==
  ASSUME IInv, NEW c \in Client, remove(c)
  PROVE  IInv'
<1> DEFINE r == client[c]
           k == key(c)
           d == [data EXCEPT ![k] = missing]
           e == ever[c] \cup live(d)
           a == always[c] \cap live(d)
<1>1. running(c) /\ r.stage = "remove" /\ r.op \in {"del", "flushall"}
  BY Zenon DEF remove, at, running, IInv, Control
<1>2. r.op \in Tracked
  BY <1>1, Zenon DEF Tracked
<1>3. Good(r, ever[c], always[c]) /\ k = Head(r.keys) /\ k \in Key
  BY <1>1, <1>2, Runs, Zenon
<1>4. d = [j \in Key |-> d[j]] /\ k \notin live(d)
  BY <1>3, GoneKey, Zenon
<1>5. Good(r, e, a) /\ step(c, visited(r)) /\ write(d) /\ k \notin a
  BY <1>3, <1>4, Later, Zenon DEF remove
<1> HIDE DEF r, k, d, e, a
<1>6. Knows(r, k, e, a)
  BY <1>1, <1>5, Zenon DEF Knows, Looks, Lookup
<1>7. Good(visited(r), e, a)
  BY <1>1, <1>2, <1>3, <1>5, <1>6, VisitedGood, Zenon DEF Good
<1> QED BY <1>1, <1>4, <1>5, <1>7, WriteStep, Zenon DEF e, a

-----------------------------------------------------------------------------
(* The accesses of the commands whose answers are not followed *)

LEMMA DoneRecord ==
  ASSUME NEW r, IsCommand(r), NEW q, q = done(r)
  PROVE  IsCommand(q) /\ q.op = r.op /\ q.stage = "done"
<1>1. /\ q.op = r.op /\ q.stage = "done" /\ q.args = r.args /\ q.keys = <<>>
      /\ q.found = r.found /\ q.sets = r.sets /\ q.hand = r.hand
  BY Zenon DEF IsCommand, done
<1>2. q \in [op : {r.op}, stage : {"done"}, args : {r.args}, keys : {<<>>},
             found : {r.found}, sets : {r.sets}, hand : {r.hand}]
  BY Zenon DEF IsCommand, done
<1> QED BY <1>1, <1>2, Zenon DEF IsCommand

LEMMA HandRecord ==
  ASSUME NEW r, IsCommand(r), NEW h, NEW q, q = [r EXCEPT !.hand = h]
  PROVE  IsCommand(q) /\ q.op = r.op /\ q.stage = r.stage
<1>1. /\ q.op = r.op /\ q.stage = r.stage /\ q.args = r.args /\ q.keys = r.keys
      /\ q.found = r.found /\ q.sets = r.sets /\ q.hand = h
  BY Zenon DEF IsCommand, done
<1>2. q \in [op : {r.op}, stage : {r.stage}, args : {r.args}, keys : {r.keys},
             found : {r.found}, sets : {r.sets}, hand : {h}]
  BY Zenon DEF IsCommand, done
<1> QED BY <1>1, <1>2, Zenon DEF IsCommand

LEMMA TakeRecord ==
  ASSUME NEW r, IsCommand(r), NEW h, NEW q, q = [r EXCEPT !.stage = "put", !.keys = Tail(@), !.hand = h]
  PROVE  IsCommand(q) /\ q.op = r.op /\ q.stage = "put"
<1>1. /\ q.op = r.op /\ q.stage = "put" /\ q.args = r.args /\ q.keys = Tail(r.keys)
      /\ q.found = r.found /\ q.sets = r.sets /\ q.hand = h
  BY Zenon DEF IsCommand, done
<1>2. q \in [op : {r.op}, stage : {"put"}, args : {r.args}, keys : {Tail(r.keys)},
             found : {r.found}, sets : {r.sets}, hand : {h}]
  BY Zenon DEF IsCommand, done
<1> QED BY <1>1, <1>2, Zenon DEF IsCommand

LEMMA ReadRecord ==
  ASSUME NEW r, IsCommand(r), NEW m, NEW q, q = [r EXCEPT !.keys = Tail(@), !.sets = Append(@, m)]
  PROVE  IsCommand(q) /\ q.op = r.op /\ q.stage = r.stage
<1>1. /\ q.op = r.op /\ q.stage = r.stage /\ q.args = r.args /\ q.keys = Tail(r.keys)
      /\ q.found = r.found /\ q.sets = Append(r.sets, m) /\ q.hand = r.hand
  BY Zenon DEF IsCommand, done
<1>2. q \in [op : {r.op}, stage : {r.stage}, args : {r.args}, keys : {Tail(r.keys)},
             found : {r.found}, sets : {Append(r.sets, m)}, hand : {r.hand}]
  BY Zenon DEF IsCommand, done
<1> QED BY <1>1, <1>2, Zenon DEF IsCommand

(* A write of one entry, or of one field of it. *)
LEMMA OneWrite ==
  ASSUME IInv, NEW k,
         \/ \E e : write([data EXCEPT ![k] = e])
         \/ \E v : write([data EXCEPT ![k].value = v])
         \/ \E t : write([data EXCEPT ![k].expires_at = t])
  PROVE  \E d : d = [j \in Key |-> d[j]] /\ write(d)
<1>1. ASSUME NEW e, NEW d, d = [data EXCEPT ![k] = e] PROVE d = [j \in Key |-> d[j]]
  BY <1>1, Zenon DEF IInv
<1>2. ASSUME NEW v, NEW d, d = [data EXCEPT ![k].value = v] PROVE d = [j \in Key |-> d[j]]
  BY <1>2, Zenon DEF IInv
<1>3. ASSUME NEW t, NEW d, d = [data EXCEPT ![k].expires_at = t] PROVE d = [j \in Key |-> d[j]]
  BY <1>3, Zenon DEF IInv
<1>4. CASE \E e : write([data EXCEPT ![k] = e])
  <2>1. PICK e : write([data EXCEPT ![k] = e])
    BY <1>4, Zenon
  <2> DEFINE d == [data EXCEPT ![k] = e]
  <2>2. d = [j \in Key |-> d[j]] /\ write(d)
    BY <1>1, <2>1, Zenon
  <2> HIDE DEF d
  <2> QED BY <2>2, Zenon
<1>5. CASE \E v : write([data EXCEPT ![k].value = v])
  <2>1. PICK v : write([data EXCEPT ![k].value = v])
    BY <1>5, Zenon
  <2> DEFINE d == [data EXCEPT ![k].value = v]
  <2>2. d = [j \in Key |-> d[j]] /\ write(d)
    BY <1>2, <2>1, Zenon
  <2> HIDE DEF d
  <2> QED BY <2>2, Zenon
<1>6. CASE \E t : write([data EXCEPT ![k].expires_at = t])
  <2>1. PICK t : write([data EXCEPT ![k].expires_at = t])
    BY <1>6, Zenon
  <2> DEFINE d == [data EXCEPT ![k].expires_at = t]
  <2>2. d = [j \in Key |-> d[j]] /\ write(d)
    BY <1>3, <2>1, Zenon
  <2> HIDE DEF d
  <2> QED BY <2>2, Zenon
<1> QED BY <1>4, <1>5, <1>6, Zenon

LEMMA UntrackedStep ==
  ASSUME IInv, NEW c \in Client, running(c), client[c].op \notin Tracked,
         NEW r, IsCommand(r), r.op = client[c].op, r.stage \in {"take", "put", "read", "store", "done"},
         step(c, r),
         \/ UNCHANGED <<data, ever, always>>
         \/ \E d : d = [k \in Key |-> d[k]] /\ write(d)
  PROVE  IInv'
<1>1. ASSUME NEW e, NEW a PROVE Good(r, e, a)
  BY Untracked, Zenon DEF Good
<1>2. CASE UNCHANGED <<data, ever, always>>
  BY <1>1, <1>2, LookStep, Zenon
<1>3. CASE \E d : d = [k \in Key |-> d[k]] /\ write(d)
  BY <1>1, <1>3, WriteStep, Zenon
<1> QED BY <1>2, <1>3, Zenon

LEMMA NotTracked ==
  ASSUME IInv, NEW c \in Client, client[c].stage \in {"take", "put", "read", "store"}
  PROVE  running(c) /\ client[c].op \notin Tracked /\ IsCommand(client[c])
BY Zenon DEF IInv, Control, running

(* LMOVE and SMOVE *)
LEMMA MoveStep ==
  ASSUME IInv, NEW c \in Client,
         lmove_pop(c) \/ lmove_push(c) \/ (\E m \in Member : smove_remove(c, m)) \/ smove_add(c)
  PROVE  IInv'
<1> DEFINE r == client[c]
<1>1. running(c) /\ r.op \notin Tracked /\ IsCommand(r)
  BY NotTracked, Zenon DEF lmove_pop, lmove_push, smove_remove, smove_add, at
<1>2. \/ UNCHANGED <<data, ever, always>>
      \/ \E d : d = [k \in Key |-> d[k]] /\ write(d)
  <2>1. CASE lmove_pop(c)
    <3>1. UNCHANGED <<data, ever, always>> \/ \E v : write([data EXCEPT ![key(c)].value = v])
      BY <2>1, Zenon DEF lmove_pop
    <3> QED BY <3>1, OneWrite, Zenon
  <2>2. CASE lmove_push(c)
    <3>1. UNCHANGED <<data, ever, always>> \/ \E e : write([data EXCEPT ![key(c)] = e])
      BY <2>2, Zenon DEF lmove_push
    <3> QED BY <3>1, OneWrite, Zenon
  <2>3. CASE \E m \in Member : smove_remove(c, m)
    <3>1. UNCHANGED <<data, ever, always>> \/ \E v : write([data EXCEPT ![key(c)].value = v])
      BY <2>3, Zenon DEF smove_remove
    <3> QED BY <3>1, OneWrite, Zenon
  <2>4. CASE smove_add(c)
    <3>1. UNCHANGED <<data, ever, always>> \/ \E e : write([data EXCEPT ![key(c)] = e])
      BY <2>4, Zenon DEF smove_add
    <3> QED BY <3>1, OneWrite, Zenon
  <2> QED BY <2>1, <2>2, <2>3, <2>4, Zenon
<1>3. \/ step(c, done(r))
      \/ step(c, [done(r) EXCEPT !.hand = {}])
      \/ \E h : step(c, [r EXCEPT !.stage = "put", !.keys = Tail(@), !.hand = h])
  BY Zenon DEF lmove_pop, lmove_push, smove_remove, smove_add
<1> HIDE DEF r
<1>4. IsCommand(done(r)) /\ done(r).op = r.op /\ done(r).stage = "done"
  BY <1>1, DoneRecord, Zenon
<1>5. CASE step(c, done(r))
  BY <1>1, <1>2, <1>4, <1>5, UntrackedStep, Zenon DEF r
<1>6. CASE step(c, [done(r) EXCEPT !.hand = {}])
  <2> DEFINE p == done(r)
             q == [p EXCEPT !.hand = {}]
  <2>1. IsCommand(q) /\ q.op = r.op /\ q.stage = "done"
    <3> HIDE DEF p
    <3>1. IsCommand(p) /\ p.op = r.op /\ p.stage = "done"
      BY <1>4, Zenon DEF p
    <3> QED BY <3>1, HandRecord
  <2> HIDE DEF q
  <2>2. step(c, q)
    BY <1>6, Zenon DEF q
  <2> QED BY <1>1, <1>2, <2>1, <2>2, UntrackedStep, Zenon DEF r
<1>7. CASE \E h : step(c, [r EXCEPT !.stage = "put", !.keys = Tail(@), !.hand = h])
  <2>1. PICK h : step(c, [r EXCEPT !.stage = "put", !.keys = Tail(@), !.hand = h])
    BY <1>7, Zenon
  <2> DEFINE q == [r EXCEPT !.stage = "put", !.keys = Tail(@), !.hand = h]
  <2>2. IsCommand(q) /\ q.op = r.op /\ q.stage = "put"
    BY <1>1, TakeRecord, Zenon
  <2>3. step(c, q)
    BY <2>1, Zenon
  <2> HIDE DEF q
  <2> QED BY <1>1, <1>2, <2>2, <2>3, UntrackedStep, Zenon DEF r
<1> QED BY <1>3, <1>5, <1>6, <1>7, Zenon

(* SUNION and the like *)
LEMMA CombineStep ==
  ASSUME IInv, NEW c \in Client, get_set_clone(c)
  PROVE  IInv'
<1> DEFINE r == client[c]
<1>1. running(c) /\ r.op \notin Tracked /\ IsCommand(r) /\ r.stage = "read"
  BY NotTracked, Zenon DEF get_set_clone, at
<1>2. PICK m : LET next == [r EXCEPT !.keys = Tail(@), !.sets = Append(@, m)]
               IN  \/ step(c, done(r)) \/ step(c, next)
                   \/ step(c, [next EXCEPT !.stage = "store"]) \/ step(c, done(next))
  BY Zenon DEF get_set_clone
<1> DEFINE next == [r EXCEPT !.keys = Tail(@), !.sets = Append(@, m)]
           last == [next EXCEPT !.stage = "store"]
<1>3. UNCHANGED <<data, ever, always>>
  BY Zenon DEF get_set_clone
<1>4. step(c, done(r)) \/ step(c, next) \/ step(c, last) \/ step(c, done(next))
  BY <1>2, Zenon
<1> HIDE DEF r
<1>5. IsCommand(next) /\ next.op = r.op /\ next.stage = "read"
  BY <1>1, ReadRecord, Zenon
<1> HIDE DEF next
<1>6. IsCommand(last) /\ last.op = next.op /\ last.stage = "store"
  <2>1. last = [next EXCEPT !.stage = "store"]
    BY Zenon
  <2> HIDE DEF last
  <2> QED BY <1>5, <2>1, StageRecord
<1> HIDE DEF last
<1>7. /\ IsCommand(done(r)) /\ done(r).op = r.op /\ done(r).stage = "done"
      /\ IsCommand(done(next)) /\ done(next).op = r.op /\ done(next).stage = "done"
  BY <1>1, <1>5, DoneRecord, Zenon
<1> QED BY <1>1, <1>3, <1>4, <1>5, <1>6, <1>7, UntrackedStep, Zenon DEF r

LEMMA StoreStep ==
  ASSUME IInv, NEW c \in Client, store(c)
  PROVE  IInv'
<1>1. running(c) /\ client[c].op \notin Tracked /\ IsCommand(client[c])
  BY NotTracked, Zenon DEF store, at
<1>2. \E d : d = [k \in Key |-> d[k]] /\ write(d)
  BY DEF store, IInv
<1>3. step(c, done(client[c]))
  BY Zenon DEF store
<1>4. /\ IsCommand(done(client[c])) /\ done(client[c]).op = client[c].op
      /\ done(client[c]).stage = "done"
  BY <1>1, DoneRecord, Zenon
<1> QED BY <1>1, <1>2, <1>3, <1>4, UntrackedStep, Zenon

-----------------------------------------------------------------------------
(* Requests, answers, and the accesses of other connections *)

(* A request starts with nothing visited. *)
LEMMA RequestKeys ==
  ASSUME NEW r \in Requests, r.op \in Tracked
  PROVE  /\ r.keys \in Seq(Key) /\ r.keys # <<>>
         /\ r.op \in {"set nx", "set xx", "setnx"} => Len(r.keys) = 1
<1> DEFINE n == Cardinality(Key)
<1>1. n \in Nat \ {0}
  BY KeyAssumption, Zenon
<1> HIDE DEF n
<1>2. ASSUME NEW s \in [1 .. n -> Key] PROVE s \in Seq(Key) /\ s # <<>>
  <2>1. s \in Seq(Key)
    BY <1>1
  <2>2. Len(s) = n
    BY <1>1
  <2>3. Len(<<>>) = 0
    BY Zenon
  <2> QED BY <1>1, <2>1, <2>2, <2>3, Zenon
<1>3. CASE r.keys \in AllKeys /\ r.op \notin {"set nx", "set xx", "setnx"}
  BY <1>2, <1>3, Zenon DEF AllKeys, n
<1>4. CASE r.keys \in {<<k>> : k \in Key}
  <2>1. PICK k \in Key : r.keys = <<k>>
    BY <1>4, Zenon
  <2>2. <<k>> \in Seq(Key) /\ Len(<<k>>) = 1 /\ <<k>> # <<>>
    OBVIOUS
  <2> QED BY <2>1, <2>2, Zenon
<1>5. \/ r.keys \in AllKeys /\ r.op \notin {"set nx", "set xx", "setnx"}
      \/ r.keys \in {<<k>> : k \in Key}
  BY RequestFields, Zenon DEF Tracked, Looks, Lookup, Iteration, Combine, CombineStore
<1> QED BY <1>3, <1>4, <1>5, Zenon

LEMMA ExecuteStep ==
  ASSUME IInv, NEW c \in Client, NEW r \in Requests, execute(c, r)
  PROVE  IInv'
<1> DEFINE q == [idle EXCEPT !.op = r.op, !.args = keys_of(r), !.keys = r.keys,
                            !.stage = first_stage(r.op)]
<1>1. /\ q.op = r.op /\ q.args = keys_of(r) /\ q.keys = r.keys /\ q.stage = first_stage(r.op)
      /\ q.found = {} /\ q.sets = <<>> /\ q.hand = {}
  BY Zenon DEF idle
<1>2. q \in [op : {r.op}, stage : {first_stage(r.op)}, args : {keys_of(r)}, keys : {r.keys},
             found : {{}}, sets : {<<>>}, hand : {{}}]
  BY Zenon DEF idle
<1>3. step(c, q)
  BY Zenon DEF execute
<1> HIDE DEF q
<1>4. IsCommand(q)
  BY <1>1, <1>2, Zenon DEF IsCommand
<1>5. past(q) = {}
  BY <1>1, Zenon DEF past, keys_of
<1>6. r.op \in {"get", "getset", "set nx", "set xx", "setnx", "ttl", "mget", "mset", "del", "exists",
                "lmove", "smove"} \cup Iteration \cup Combine \cup CombineStore
  BY RequestFields, Zenon
<1>7. /\ q.stage \in {"get", "look", "insert", "remove", "take", "read"}
      /\ q.stage = "get" => r.op \in {"get", "mget", "getset"}
      /\ q.stage = "look" => r.op \in Lookup \cup {"keys"}
      /\ q.stage = "insert" => r.op = "mset"
      /\ q.stage = "remove" => r.op \in {"del", "flushall"}
      /\ q.stage \in {"take", "read"} => r.op \notin Tracked
  BY <1>1, <1>6, Zenon DEF first_stage, Iteration, Combine, CombineStore, Lookup, Tracked, Looks
<1>8. Control(q)
  <2>1. q.op \in Tracked => /\ q.keys \in Seq(Key) /\ q.keys # <<>>
                            /\ q.op \in {"set nx", "set xx", "setnx"} => Len(q.keys) = 1
    BY <1>1, RequestKeys, Zenon
  <2>2. {"set nx", "set xx", "setnx"} \subseteq Tracked
    BY Zenon DEF Tracked, Looks, Lookup
  <2> QED BY <1>1, <1>7, <2>1, <2>2, Zenon DEF Control
<1>9. ASSUME NEW e, NEW a PROVE Witnessed(q, e, a)
  BY <1>1, <1>5, <1>7, Zenon DEF Witnessed, Looks, Lookup
<1>10. /\ client' = [client EXCEPT ![c] = q] /\ data' = data
       /\ ever' = [ever EXCEPT ![c] = live(data)] /\ always' = [always EXCEPT ![c] = live(data)]
  BY <1>3, Zenon DEF execute, step
<1>11. client' = [b \in Client |-> client'[b]] /\ client'[c] = q
       /\ ever'[c] = live(data) /\ always'[c] = live(data)
       /\ \A b \in Client : b # c => client'[b] = client[b] /\ ever'[b] = ever[b] /\ always'[b] = always[b]
  BY <1>10, Zenon DEF IInv
<1>12. live(data)' = live(data) /\ live(data) \in SUBSET Key
  BY <1>10, Zenon DEF live
<1>13. ever' \in [Client -> SUBSET Key] /\ always' \in [Client -> SUBSET Key]
  BY <1>10, <1>12, Zenon DEF IInv
<1>14. ASSUME NEW b \in Client
       PROVE  /\ IsCommand(client'[b]) /\ Control(client'[b])
              /\ Witnessed(client'[b], ever'[b], always'[b])
              /\ running(b)' => live(data)' \subseteq ever'[b] /\ always'[b] \subseteq live(data)'
  <2>1. CASE b = c
    BY <1>4, <1>8, <1>9, <1>11, <1>12, <2>1, Zenon
  <2>2. CASE b # c
    BY <1>11, <1>12, <2>2, Zenon DEF IInv, running
  <2> QED BY <2>1, <2>2, Zenon
<1> QED BY <1>10, <1>11, <1>13, <1>14 DEF IInv

LEMMA IdleGood ==
  IsCommand(idle) /\ Control(idle) /\ Witnessed(idle, {}, {}) /\ idle.stage = "idle"
<1>1. idle.op = "none" /\ idle.stage = "idle" /\ idle.keys = <<>>
  BY Zenon DEF idle
<1>2. IsCommand(idle)
  BY Zenon DEF IsCommand, idle
<1>3. Control(idle)
  BY <1>1, Zenon DEF Control, Tracked, Looks, Lookup
<1>4. Witnessed(idle, {}, {})
  BY <1>1, Zenon DEF Witnessed, Looks, Lookup
<1> QED BY <1>1, <1>2, <1>3, <1>4, Zenon

LEMMA SendStep ==
  ASSUME IInv, NEW c \in Client, send(c)
  PROVE  IInv'
<1>1. /\ client' = [client EXCEPT ![c] = idle] /\ data' = data
      /\ ever' = [ever EXCEPT ![c] = {}] /\ always' = [always EXCEPT ![c] = {}]
  BY Zenon DEF send, step
<1>2. client' = [b \in Client |-> client'[b]] /\ client'[c] = idle
      /\ ever'[c] = {} /\ always'[c] = {}
      /\ \A b \in Client : b # c => client'[b] = client[b] /\ ever'[b] = ever[b] /\ always'[b] = always[b]
  BY <1>1, Zenon DEF IInv
<1>3. ever' \in [Client -> SUBSET Key] /\ always' \in [Client -> SUBSET Key]
  BY <1>1, Zenon DEF IInv
<1>4. live(data)' = live(data)
  BY <1>1, Zenon DEF live
<1>5. ASSUME NEW b \in Client
      PROVE  /\ IsCommand(client'[b]) /\ Control(client'[b])
             /\ Witnessed(client'[b], ever'[b], always'[b])
             /\ running(b)' => live(data)' \subseteq ever'[b] /\ always'[b] \subseteq live(data)'
  <2>1. CASE b = c
    BY <1>2, <2>1, IdleGood, Zenon DEF running
  <2>2. CASE b # c
    BY <1>2, <1>4, <2>2, Zenon DEF IInv, running
  <2> QED BY <2>1, <2>2, Zenon
<1> QED BY <1>1, <1>2, <1>3, <1>5 DEF IInv

LEMMA OneAccessStep ==
  ASSUME IInv, NEW k \in Key, one_access(k)
  PROVE  IInv'
<1>1. \/ \E e : write([data EXCEPT ![k] = e])
      \/ \E v : write([data EXCEPT ![k].value = v])
      \/ \E t : write([data EXCEPT ![k].expires_at = t])
  BY Zenon DEF one_access, cmd_expire, cmd_persist, cmd_lpop, cmd_del, elapse, cmd_set, cmd_rpush, cmd_sadd,
         cmd_srem
<1>2. PICK d : d = [j \in Key |-> d[j]] /\ write(d)
  BY <1>1, OneWrite, Zenon
<1>3. client' = client
  BY Zenon DEF one_access
<1>4. ever' \in [Client -> SUBSET Key] /\ always' \in [Client -> SUBSET Key]
  BY <1>2 DEF write, IInv, live
<1>5. DOMAIN data' = Key /\ data' = [j \in Key |-> data'[j]]
  BY <1>2, Zenon DEF write
<1>6. ASSUME NEW b \in Client
      PROVE  /\ IsCommand(client'[b]) /\ Control(client'[b])
             /\ Witnessed(client'[b], ever'[b], always'[b])
             /\ running(b)' => live(data)' \subseteq ever'[b] /\ always'[b] \subseteq live(data)'
  BY <1>2, <1>3, WriteSeen, Zenon DEF IInv, running
<1> QED BY <1>3, <1>4, <1>5, <1>6, Zenon DEF IInv

-----------------------------------------------------------------------------
(* The theorem *)

LEMMA Initially == Init => IInv
<1> SUFFICES ASSUME Init PROVE IInv
  BY Zenon
<1>1. \A c \in Client : client[c] = idle /\ ever[c] = {} /\ always[c] = {}
  BY Zenon DEF Init
<1>2. \A c \in Client : ~running(c)
  BY <1>1, IdleGood, Zenon DEF running
<1> QED BY <1>1, <1>2, IdleGood, Zenon DEF Init, IInv

LEMMA Inductive == IInv /\ [Next]_vars => IInv'
<1> SUFFICES ASSUME IInv, [Next]_vars PROVE IInv'
  BY Zenon
<1>1. ASSUME NEW c \in Client, proceed(c) PROVE IInv'
  BY <1>1, GetStep, RemoveExpiredStep, LooksStep, InsertStep, RemoveStep, MoveStep, CombineStep,
     StoreStep, SendStep DEF proceed
<1>2. ASSUME NEW c \in Client, NEW r \in Requests, execute(c, r) PROVE IInv'
  BY <1>2, ExecuteStep, Zenon
<1>3. ASSUME NEW k \in Key, one_access(k) PROVE IInv'
  BY <1>3, OneAccessStep, Zenon
<1>4. CASE UNCHANGED vars
  BY <1>4, Zenon DEF vars, IInv, running, live
<1> QED BY <1>1, <1>2, <1>3, <1>4, Zenon DEF Next

(* What a command answers of its keys is witnessed: for every set of keys, *)
(* any number of clients and any number of other connections.              *)
THEOREM KeyspaceWitnessed == Spec => []AnswersWitnessed
BY Initially, Inductive, Implied, PTL DEF Spec

=============================================================================
