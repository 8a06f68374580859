------------------------------ MODULE AofProofs ------------------------------
(***************************************************************************)
(* Theorems about the append-only file with one client, for any keys,      *)
(* items, numbers of commands and of crashes.                              *)
(*                                                                         *)
(* load_frames reads the file record by record, and what it has read of a  *)
(* file does not depend on what follows (LoadAppend).  Its recursion is    *)
(* reasoned about with the smallest index at which a fact would fail.      *)
(***************************************************************************)
EXTENDS Aof, NaturalsInduction, WellFoundedInduction, TLAPS

-----------------------------------------------------------------------------
(* Reading the file *)

(* A set of naturals with an element has a smallest one. *)
LEMMA SmallestExists ==
  ASSUME NEW S \in SUBSET Nat, S # {}
  PROVE  \E x \in S : \A y \in S : x <= y
<1> DEFINE R == {ss \in Nat \X Nat : ss[1] < ss[2]}
<1>1. IsWellFoundedOn(R, Nat)
  BY NatLessThanWellFounded, Zenon DEF OpToRel
<1>2. PICK x \in S : \A y \in S : ~ (<<y, x>> \in R)
  <2> HIDE DEF R
  <2> QED BY <1>1, WFMin, Zenon
<1>3. ASSUME NEW y \in S PROVE x <= y
  <2>1. x \in Nat /\ y \in Nat /\ <<y, x>> \notin R
    BY <1>2, Zenon
  <2>2. ~ (y < x)
    BY <2>1, Zenon
  <2> QED
    BY <2>1, <2>2
<1> QED
  BY <1>3, Zenon

(* g is the reading of the first n records of f. *)
IsLoaded(g, f, n) ==
  g = [i \in 0..n |-> IF i = 0 THEN Loading ELSE read_record(g[i - 1], f[i])]

LEMMA LoadedFacts ==
  ASSUME NEW g, NEW f, NEW n \in Nat, IsLoaded(g, f, n)
  PROVE  /\ DOMAIN g = 0..n
         /\ g[0] = Loading
         /\ \A i \in 1..n : g[i] = read_record(g[i - 1], f[i])
<1>1. \A i \in 0..n : g[i] = IF i = 0 THEN Loading ELSE read_record(g[i - 1], f[i])
  BY Zenon DEF IsLoaded
<1>2. 0 \in 0..n /\ \A i \in 1..n : i \in 0..n /\ i # 0
  OBVIOUS
<1>3. DOMAIN g = 0..n
  BY Zenon DEF IsLoaded
<1> QED
  BY <1>1, <1>2, <1>3, Zenon

LEMMA LoadMore ==
  ASSUME NEW g, NEW f, NEW n \in Nat, IsLoaded(g, f, n)
  PROVE  \E h : IsLoaded(h, f, n + 1)
<1> DEFINE h == [i \in 0 .. n + 1 |-> IF i = n + 1 THEN read_record(g[n], f[n + 1]) ELSE g[i]]
<1>f. /\ g[0] = Loading
      /\ \A i \in 1..n : g[i] = read_record(g[i - 1], f[i])
  BY LoadedFacts, Zenon
<1>1. ASSUME NEW i \in 0 .. n + 1
      PROVE  h[i] = IF i = 0 THEN Loading ELSE read_record(h[i - 1], f[i])
  <2>1. CASE i = 0
    <3>1. h[0] = g[0]
      BY SMT
    <3> QED BY <1>f, <2>1, <3>1, Zenon
  <2>2. CASE i \in 1..n
    <3>1. h[i] = g[i] /\ h[i - 1] = g[i - 1] /\ i # 0
      BY <2>2
    <3> QED BY <1>f, <2>2, <3>1, Zenon
  <2>3. CASE i = n + 1
    <3>1. h[n + 1] = read_record(g[n], f[n + 1]) /\ h[n] = g[n] /\ n + 1 - 1 = n /\ n + 1 # 0
      OBVIOUS
    <3> HIDE DEF h
    <3> QED BY <2>3, <3>1
  <2> QED BY <2>1, <2>2, <2>3
<1>2. h = [i \in 0 .. n + 1 |-> h[i]]
  BY Zenon
<1> HIDE DEF h
<1>3. IsLoaded(h, f, n + 1)
  BY <1>1, <1>2, Zenon DEF IsLoaded
<1> QED BY <1>3, Zenon

LEMMA LoadedExists ==
  ASSUME NEW f, NEW n \in Nat
  PROVE  \E g : IsLoaded(g, f, n)
<1> DEFINE S == {m \in Nat : ~ \E g : IsLoaded(g, f, m)}
<1> SUFFICES ASSUME S # {} PROVE FALSE
  BY Zenon
<1>1. PICK m \in S : \A k \in S : m <= k
  <2>1. S \in SUBSET Nat
    BY Zenon
  <2> HIDE DEF S
  <2> QED BY <2>1, SmallestExists, Zenon
<1>2. CASE m = 0
  <2> DEFINE g == [i \in 0..0 |-> Loading]
  <2>1. g = [i \in 0..0 |-> IF i = 0 THEN Loading ELSE read_record(g[i - 1], f[i])]
    BY SMT
  <2>2. IsLoaded(g, f, 0)
    BY <2>1, Zenon DEF IsLoaded
  <2> QED BY <1>2, <2>2, Zenon
<1>3. CASE m # 0
  <2>1. m - 1 \in Nat /\ ~ (m <= m - 1) /\ m - 1 + 1 = m
    BY <1>3
  <2>2. PICK g : IsLoaded(g, f, m - 1)
    BY <1>1, <2>1, Zenon
  <2>3. \E h : IsLoaded(h, f, m - 1 + 1)
    BY <2>1, <2>2, LoadMore, Zenon
  <2> QED BY <2>1, <2>3, Zenon
<1> QED BY <1>2, <1>3, Zenon

LEMMA LoadFrames ==
  ASSUME NEW f, Len(f) \in Nat
  PROVE  \E g : IsLoaded(g, f, Len(f)) /\ load_frames(f) = g[Len(f)]
<1>1. \E g : IsLoaded(g, f, Len(f))
  BY LoadedExists, Zenon
<1> QED
  BY <1>1 DEF load_frames, IsLoaded

BeginAlike(f, e, n) == \A i \in 1..n : f[i] = e[i]

(* A file and a longer one that begins like it are read alike so far. *)
LEMMA LoadedAlike ==
  ASSUME NEW f, NEW e, NEW g, NEW h, NEW n \in Nat,
         IsLoaded(g, f, n), IsLoaded(h, e, n + 1), BeginAlike(f, e, n)
  PROVE  g[n] = h[n]
<1> DEFINE S == {i \in 0..n : g[i] # h[i]}
<1>g. g[0] = Loading /\ \A i \in 1..n : g[i] = read_record(g[i - 1], f[i])
  BY LoadedFacts, Zenon
<1>h. h[0] = Loading /\ \A i \in 1..n + 1 : h[i] = read_record(h[i - 1], e[i])
  <2>1. n + 1 \in Nat
    OBVIOUS
  <2> QED BY <2>1, LoadedFacts, Zenon
<1> SUFFICES ASSUME S # {} PROVE FALSE
  <2>1. n \in 0..n
    OBVIOUS
  <2> QED BY <2>1, Zenon
<1>1. PICK i \in S : \A k \in S : i <= k
  <2>1. S \in SUBSET Nat
    OBVIOUS
  <2> HIDE DEF S
  <2> QED BY <2>1, SmallestExists, Zenon
<1>2. i \in 0..n /\ g[i] # h[i] /\ i # 0
  BY <1>1, <1>g, <1>h, Zenon
<1>3. i \in 1..n /\ i \in 1 .. n + 1 /\ i - 1 \in 0..n /\ ~ (i <= i - 1)
  BY <1>2
<1>4. g[i - 1] = h[i - 1]
  BY <1>1, <1>3, Zenon
<1>5. f[i] = e[i]
  BY <1>3, Zenon DEF BeginAlike
<1> HIDE DEF S
<1> QED BY <1>2, <1>3, <1>4, <1>5, <1>g, <1>h, Zenon

LEMMA LoadNothing == load_frames(<<>>) = Loading
<1>1. Len(<<>>) = 0 /\ 0 \in Nat
  OBVIOUS
<1>2. PICK g : IsLoaded(g, <<>>, 0) /\ load_frames(<<>>) = g[0]
  BY <1>1, LoadFrames
<1> QED BY <1>1, <1>2, LoadedFacts, Zenon

LEMMA LoadAppend ==
  ASSUME NEW R, NEW f \in Seq(R), NEW r \in R
  PROVE  load_frames(Append(f, r)) = read_record(load_frames(f), r)
<1> DEFINE e == Append(f, r)
           n == Len(f)
<1>1. /\ n \in Nat /\ n + 1 \in Nat /\ Len(e) = n + 1 /\ n + 1 \in 1 .. n + 1
      /\ n + 1 - 1 = n
      /\ e[n + 1] = r /\ BeginAlike(f, e, n)
  BY DEF BeginAlike
<1> HIDE DEF e, n
<1>2. PICK g : IsLoaded(g, f, n) /\ load_frames(f) = g[n]
  BY <1>1, LoadFrames, Zenon DEF n
<1>3. PICK h : IsLoaded(h, e, n + 1) /\ load_frames(e) = h[n + 1]
  BY <1>1, LoadFrames, Zenon
<1>4. g[n] = h[n]
  <2>1. n \in Nat /\ IsLoaded(g, f, n) /\ IsLoaded(h, e, n + 1) /\ BeginAlike(f, e, n)
    BY <1>1, <1>2, <1>3, Zenon
  <2> QED BY <2>1, LoadedAlike
<1>5. h[n + 1] = read_record(h[n], r)
  BY <1>1, <1>3, LoadedFacts
<1> QED
  BY <1>2, <1>3, <1>4, <1>5, Zenon DEF e

-----------------------------------------------------------------------------
(* Types *)

IsStore(st) == st = [k \in Key |-> st[k]]

(* The handlers append SET, RPUSH and DEL only, so that nothing recovered  *)
(* has an expiry.                                                          *)
Logged == {c \in Frame : c.op \in {"SET", "RPUSH", "DEL"}}
Record == [swallows : Nat, frame : Logged \cup {Idle}]

Permanent(st) == \A k \in Key : st[k].expiry = "none"
IsLoading(s) == /\ IsStore(s.store) /\ Permanent(s.store)
                /\ s.missing = 0 \/ s.frame \in Logged \cup {Idle}

Types ==
  /\ failures \in Nat /\ crashes \in Nat
  /\ writer \in [Client -> Logged \cup {Idle}]
  /\ ~up => \A cl \in Client : writer[cl] = Idle
  /\ file \in Seq(Record)
  /\ IsStore(store) /\ IsLoading(load_frames(file))

LEMMA FrameNotIdle ==
  ASSUME NEW c \in Frame
  PROVE  c # Idle
<1>1. c.op \in CommandName
  BY DEF Frame
<1>2. c.op # "NONE"
  BY <1>1 DEF CommandName
<1> QED
  BY <1>2 DEF Idle

(* A command keeps the store a function on the keys. *)
LEMMA ExecuteStore ==
  ASSUME NEW st, IsStore(st), NEW c
  PROVE  IsStore(execute(st, c))
<1>1. DOMAIN st = Key
  BY DEF IsStore
<1> QED
  BY <1>1 DEF IsStore, execute

(* What it leaves under a key depends on what was under that key. *)
LEMMA ExecuteAt ==
  ASSUME NEW st, IsStore(st), NEW c \in Frame, NEW k \in Key
  PROVE  execute(st, c)[k] = IF k = c.key THEN dispatch(st[k], c).value ELSE st[k]
<1>1. DOMAIN st = Key
  BY DEF IsStore
<1> QED
  BY <1>1 DEF execute

LEMMA ExecuteAlike ==
  ASSUME NEW s, IsStore(s), NEW t, IsStore(t), NEW c \in Frame, NEW k \in Key, s[k] = t[k]
  PROVE  execute(s, c)[k] = execute(t, c)[k]
<1>1. execute(s, c)[k] = IF k = c.key THEN dispatch(s[k], c).value ELSE s[k]
  BY ExecuteAt, Zenon
<1>2. execute(t, c)[k] = IF k = c.key THEN dispatch(t[k], c).value ELSE t[k]
  BY ExecuteAt, Zenon
<1> QED
  BY <1>1, <1>2

LEMMA ExecutePermanent ==
  ASSUME NEW st, IsStore(st), Permanent(st), NEW c \in Logged
  PROVE  Permanent(execute(st, c))
<1> SUFFICES ASSUME NEW k \in Key PROVE execute(st, c)[k].expiry = "none"
  BY Zenon DEF Permanent
<1>1. c \in Frame /\ c.op \in {"SET", "RPUSH", "DEL"} /\ st[k].expiry = "none"
  BY DEF Logged, Permanent
<1>2. dispatch(st[k], c).value.expiry = "none"
  BY <1>1 DEF dispatch, cmd_set, cmd_del, cmd_rpush, result, wrong_type, Absent
<1> QED
  BY <1>1, <1>2, ExecuteAt, Zenon

LEMMA ReadLoading ==
  ASSUME NEW s, IsLoading(s), NEW r \in Record
  PROVE  IsLoading(read_record(s, r))
<1> DEFINE c == IF s.missing = 0 THEN r.frame ELSE s.frame
<1>1. c \in Logged \cup {Idle}
  BY DEF IsLoading, Record
<1>2. read_record(s, r).store \in {s.store, replay(s.store, c)} /\ read_record(s, r).frame = c
  BY DEF read_record
<1> HIDE DEF c
<1>3. IsStore(replay(s.store, c)) /\ Permanent(replay(s.store, c))
  <2>1. CASE c = Idle
    BY <2>1, Zenon DEF replay, IsLoading
  <2>2. CASE c # Idle
    <3>1. c \in Logged /\ replay(s.store, c) = execute(s.store, c)
      BY <1>1, <2>2, Zenon DEF replay
    <3> QED BY <3>1, ExecuteStore, ExecutePermanent, Zenon DEF IsLoading
  <2> QED BY <2>1, <2>2, Zenon
<1> QED
  BY <1>1, <1>2, <1>3, Zenon DEF IsLoading

(* One record more. *)
LEMMA RecoverAppend ==
  ASSUME NEW f \in Seq(Record), IsLoading(load_frames(f)), NEW r \in Record
  PROVE  Append(f, r) \in Seq(Record) /\ IsLoading(load_frames(Append(f, r)))
<1>1. Append(f, r) \in Seq(Record)
  OBVIOUS
<1>2. load_frames(Append(f, r)) = read_record(load_frames(f), r)
  BY LoadAppend, Zenon
<1> QED
  BY <1>1, <1>2, ReadLoading, Zenon

LEMMA NewItems ==
  ASSUME NEW c \in Logged, NEW s \in Seq(Item)
  PROVE  [c EXCEPT !.items = s] \in Logged
<1>1. c = [op |-> c.op, key |-> c.key, items |-> c.items] /\ c.op \in CommandName /\ c.key \in Key
  BY DEF Frame, Logged
<1>2. [c EXCEPT !.items = s] = [op |-> c.op, key |-> c.key, items |-> s]
  BY <1>1
<1>3. [op |-> c.op, key |-> c.key, items |-> s] \in Frame /\ c.op \in {"SET", "RPUSH", "DEL"}
  BY <1>1 DEF Frame, Logged
<1> QED
  BY <1>2, <1>3 DEF Logged

(* What an interrupted append leaves never completes by itself. *)
LEMMA TornType ==
  ASSUME NEW c \in Logged, NEW r \in torn(c)
  PROVE  r \in Record /\ r.swallows # 0
<1>c. c.items \in Seq(Item) /\ Len(c.items) + 2 \in Nat
  BY DEF Frame, Logged
<1>1. CASE r \in cut_between(c)
  <2>1. [c EXCEPT !.items = <<>>] \in Logged
    <3>1. <<>> \in Seq(Item)
      OBVIOUS
    <3> QED BY <3>1, NewItems, Zenon
  <2>2. PICK n \in 1 .. Len(c.items) + 2 :
          r = [swallows |-> n,
               frame |-> IF c.op = "RPUSH" /\ n = 1 THEN [c EXCEPT !.items = <<>>] ELSE Idle]
    BY <1>1, Zenon DEF cut_between
  <2>3. n \in Nat /\ n # 0
    BY <1>c
  <2> QED
    BY <2>1, <2>2, <2>3 DEF Record
<1>2. CASE r \in cut_inside(c)
  <2>1. Garbage \in Item
    BY ItemAssumption
  <2>2. [c EXCEPT !.items = <<Garbage>>] \in Logged
    <3>1. <<Garbage>> \in Seq(Item)
      BY <2>1
    <3> QED BY <3>1, NewItems, Zenon
  <2>3. r = [swallows |-> 1, frame |-> [c EXCEPT !.items = <<Garbage>>]]
    BY <1>2 DEF cut_inside
  <2> QED
    BY <2>2, <2>3 DEF Record
<1>3. CASE r = Unreadable
  BY <1>3, BoundAssumption DEF Unreadable, Record
<1> QED
  BY <1>1, <1>2, <1>3, Zenon DEF torn

LEMMA WholeType ==
  ASSUME NEW c \in Logged
  PROVE  whole(c) \in Record /\ whole(c).swallows = 0 /\ whole(c).frame = c
BY DEF whole, Record

-----------------------------------------------------------------------------
(* What the commands leave *)

(* A command whose value has no expiry logs its own frame, or changes      *)
(* nothing: LPOP, which pops and logs nothing, is the exception.           *)
LEMMA LogsItself ==
  ASSUME NEW v, NEW c \in Frame, c.op # "LPOP"
  PROVE  \/ /\ dispatch(v, c).log = <<>>
            /\ dispatch(v, c).value.expiry = "none" => dispatch(v, c).value = v
         \/ \E d \in Logged :
              /\ dispatch(v, c).log = <<d>> /\ d.key = c.key
              /\ dispatch(v, c).value.expiry = "none" => d = c
<1>0. c = [op |-> c.op, key |-> c.key, items |-> c.items] /\ c \in Frame
  BY DEF Frame
<1>1. CASE c.op = "SET"
  <2>1. c \in Logged /\ [c EXCEPT !.op = "SET"] = c
    BY <1>0, <1>1 DEF Logged
  <2>2. dispatch(v, c).log = <<[c EXCEPT !.op = "SET"]>>
    BY <1>1 DEF dispatch, cmd_set, result
  <2> QED BY <2>1, <2>2
<1>2. CASE c.op = "DEL"
  <2>1. c \in Logged
    BY <1>0, <1>2 DEF Logged
  <2>2. dispatch(v, c).log = <<c>> \/ (dispatch(v, c).log = <<>> /\ dispatch(v, c).value = v)
    BY <1>2 DEF dispatch, cmd_del, result
  <2> QED BY <2>1, <2>2, Zenon
<1>3. CASE c.op = "RPUSH"
  <2>1. c \in Logged
    BY <1>0, <1>3 DEF Logged
  <2>2. dispatch(v, c).log = <<c>> \/ (dispatch(v, c).log = <<>> /\ dispatch(v, c).value = v)
    BY <1>3 DEF dispatch, cmd_rpush, result, wrong_type
  <2> QED BY <2>1, <2>2, Zenon
<1>4. CASE c.op = "SETEX"
  <2> DEFINE d == [c EXCEPT !.op = "SET"]
  <2>1. d = [op |-> "SET", key |-> c.key, items |-> c.items]
    BY <1>0
  <2>2. d \in Logged /\ d.key = c.key
    BY <1>0, <2>1 DEF Frame, Logged, CommandName
  <2>3. dispatch(v, c).log = <<d>> /\ dispatch(v, c).value.expiry = "later"
    BY <1>4 DEF dispatch, cmd_set, result
  <2> HIDE DEF d
  <2> QED BY <2>2, <2>3
<1>5. CASE c.op = "EXPIRE"
  <2>1. dispatch(v, c).log = <<>>
    BY <1>5 DEF dispatch, cmd_expire, result
  <2>2. dispatch(v, c).value \in {v, expires(v, "later")}
    BY <1>5 DEF dispatch, cmd_expire, result
  <2> QED BY <2>1, <2>2 DEF expires
<1>6. c.op \in CommandName
  BY DEF Frame
<1> QED
  BY <1>1, <1>2, <1>3, <1>4, <1>5, <1>6 DEF CommandName

(* What a handler does: its command changes nothing and it answers, or it  *)
(* executes its command and has still to append the frame of it; but for   *)
(* the keys that have an expiry.                                           *)
LEMMA WriteDoes ==
  ASSUME "LPOP" \notin Op, IsStore(store), NEW cl \in Client, NEW op \in Op, NEW k \in Key,
         NEW x \in Input, write(cl, op, k, x)
  PROVE  /\ IsStore(store') /\ temporary \subseteq temporary' /\ temporary' \subseteq temporary \cup {k}
         /\ store'[k].expiry # "none" => k \in temporary'
         /\ \A j \in Key : j # k => store'[j] = store[j]
         /\ \/ /\ \A j \in Key \ temporary' : store'[j] = store[j]
               /\ promised' = store' /\ writer' = writer
            \/ \E d \in Logged :
                 /\ \A j \in Key \ temporary' : store'[j] = execute(store, d)[j]
                 /\ promised' = promised /\ writer' = [writer EXCEPT ![cl] = d]
<1> DEFINE s == IF op \in WithItem THEN <<x>> ELSE <<>>
           c == frame(op, k, s)
           r == dispatch(store[k], c)
<1>1. c \in Frame /\ c.key = k /\ c.op = op /\ c.op # "LPOP"
  <2>1. s \in Seq(Item)
    <3>1. x \in Item
      BY ItemAssumption
    <3> QED BY <3>1
  <2>2. op \in CommandName /\ op # "LPOP"
    BY OpAssumption
  <2> HIDE DEF s
  <2> QED
    BY <2>1, <2>2 DEF frame, Frame
<1>2. /\ store' = [store EXCEPT ![k] = r.value]
      /\ IF r.log = <<>>
         THEN promised' = store' /\ writer' = writer
         ELSE writer' = [writer EXCEPT ![cl] = Head(r.log)] /\ promised' = promised
      /\ temporary' = IF r.value.expiry = "none" THEN temporary ELSE temporary \cup {k}
  BY DEF write
<1>3. \/ r.log = <<>> /\ (r.value.expiry = "none" => r.value = store[k])
      \/ \E d \in Logged : r.log = <<d>> /\ d.key = k /\ (r.value.expiry = "none" => d = c)
  <2> HIDE DEF c
  <2>1. \/ /\ dispatch(store[k], c).log = <<>>
           /\ dispatch(store[k], c).value.expiry = "none" => dispatch(store[k], c).value = store[k]
        \/ \E d \in Logged :
             /\ dispatch(store[k], c).log = <<d>> /\ d.key = c.key
             /\ dispatch(store[k], c).value.expiry = "none" => d = c
    BY <1>1, LogsItself, Zenon
  <2> QED BY <1>1, <2>1, Zenon
<1> HIDE DEF c, r
<1>4. /\ IsStore(store') /\ store'[k] = r.value
      /\ \A j \in Key : j # k => store'[j] = store[j]
  BY <1>2 DEF IsStore
<1>5. /\ temporary \subseteq temporary' /\ temporary' \subseteq temporary \cup {k}
      /\ r.value.expiry # "none" => k \in temporary'
  BY <1>2
<1>6. CASE r.log = <<>> /\ (r.value.expiry = "none" => r.value = store[k])
  <2>1. ASSUME NEW j \in Key \ temporary' PROVE store'[j] = store[j]
    BY <1>4, <1>5, <1>6, Zenon
  <2> QED BY <1>2, <1>4, <1>5, <1>6, <2>1, Zenon
<1>7. ASSUME NEW d \in Logged, r.log = <<d>>, d.key = k, r.value.expiry = "none" => d = c
      PROVE  /\ \A j \in Key \ temporary' : store'[j] = execute(store, d)[j]
             /\ promised' = promised /\ writer' = [writer EXCEPT ![cl] = d]
  <2>1. Head(<<d>>) = d /\ <<d>> # <<>>
    OBVIOUS
  <2>2. d \in Frame
    BY Zenon DEF Logged
  <2>3. ASSUME NEW j \in Key \ temporary' PROVE store'[j] = execute(store, d)[j]
    <3>1. execute(store, d)[j] = IF j = k THEN dispatch(store[k], d).value ELSE store[j]
      <4>1. execute(store, d)[j] = IF j = d.key THEN dispatch(store[j], d).value ELSE store[j]
        BY <2>2, ExecuteAt, Zenon
      <4> QED BY <1>7, <4>1
    <3>2. j = k => d = c
      BY <1>5, <1>7, Zenon
    <3> QED BY <1>4, <3>1, <3>2, Zenon DEF r
  <2> QED BY <1>2, <1>7, <2>1, <2>3, Zenon
<1> QED
  BY <1>3, <1>4, <1>5, <1>6, <1>7, Zenon

-----------------------------------------------------------------------------
(* Whole records *)

AllWhole(f) == \A i \in 1..Len(f) : f[i].swallows = 0
WholeButLast(f) == \A i \in 1 .. Len(f) - 1 : f[i].swallows = 0

LEMMA WholeAppend ==
  ASSUME NEW f \in Seq(Record), NEW r \in Record
  PROVE  /\ AllWhole(Append(f, r)) <=> AllWhole(f) /\ r.swallows = 0
         /\ WholeButLast(Append(f, r)) <=> AllWhole(f)
         /\ AllWhole(f) => WholeButLast(f)
<1> DEFINE e == Append(f, r)
           n == Len(f)
<1>1. /\ n \in Nat /\ Len(e) = n + 1 /\ e[n + 1] = r /\ \A i \in 1..n : e[i] = f[i]
  OBVIOUS
<1> HIDE DEF e
<1>2. AllWhole(e) <=> AllWhole(f) /\ r.swallows = 0
  BY <1>1 DEF AllWhole
<1>3. WholeButLast(e) <=> AllWhole(f)
  BY <1>1 DEF AllWhole, WholeButLast
<1>4. AllWhole(f) => WholeButLast(f)
  BY <1>1 DEF AllWhole, WholeButLast
<1> QED
  BY <1>2, <1>3, <1>4, Zenon DEF e

(* A whole file is read to its end. *)
ReadToEnd == AllWhole(file) => load_frames(file).missing = 0

(* After a whole file, a whole record executes, and a cut one does nothing *)
(* but wait.                                                               *)
LEMMA ReadNext ==
  ASSUME NEW f \in Seq(Record), load_frames(f).missing = 0, NEW r \in Record
  PROVE  /\ load_frames(Append(f, r)).missing = r.swallows
         /\ r.swallows # 0 => recover(Append(f, r)) = recover(f)
         /\ r.swallows = 0 /\ r.frame # Idle => recover(Append(f, r)) = execute(recover(f), r.frame)
<1> DEFINE s == load_frames(f)
<1>1. load_frames(Append(f, r)) = read_record(s, r)
  BY LoadAppend, Zenon
<1>2. s.missing = 0
  OBVIOUS
<1> HIDE DEF s
<1>3. /\ read_record(s, r).missing = r.swallows
      /\ r.swallows # 0 => read_record(s, r).store = s.store
      /\ r.swallows = 0 /\ r.frame # Idle => read_record(s, r).store = execute(s.store, r.frame)
  BY <1>2 DEF read_record, replay
<1> QED
  BY <1>1, <1>3, Zenon DEF recover, s

-----------------------------------------------------------------------------
(* The invariant *)

(* Keys with an expiry, and those whose value a reader is to remove, are   *)
(* among the temporary ones.                                               *)
Expiring ==
  /\ readers \subseteq temporary /\ (~up => readers = {})
  /\ \A k \in Key : store[k].expiry # "none" => k \in temporary

(* The store, the answers and the file, as long as every append succeeded  *)
(* and nothing was appended behind a cut record: what the file recovers to *)
(* is what the clients were answered, and a handler that has still to      *)
(* append is one command ahead; when the process is down, the file has the *)
(* commands that were answered and perhaps the one in progress.            *)
InSync ==
  failures = 0 /\ WholeButLast(file) =>
    /\ up => \A cl \in Client :
         /\ writer[cl] = Idle => Agree(recover(file), store) /\ Agree(recover(file), promised)
         /\ writer[cl] # Idle => /\ Agree(recover(file), promised)
                                /\ Agree(execute(recover(file), writer[cl]), store)
    /\ ~up => Agree(recover(file), promised) \/ Agree(recover(file), before)

(* Only a crash cuts a record. *)
CutByCrash ==
  failures = 0 =>
    /\ crashes = 0 => up /\ AllWhole(file)
    /\ crashes = 1 /\ ~up => WholeButLast(file)

AofInv == Types /\ Expiring /\ ReadToEnd /\ InSync /\ CutByCrash /\ crashes <= MaxCrashes

LEMMA InitAofInv == Init => AofInv
<1> SUFFICES ASSUME Init PROVE AofInv
  BY Zenon
<1>1. /\ up = TRUE /\ store = Empty /\ writer = [cl \in Client |-> Idle] /\ file = <<>>
      /\ crashes = 0 /\ failures = 0 /\ promised = Empty /\ readers = {} /\ temporary = {}
  BY Zenon DEF Init
<1>2. load_frames(file) = Loading /\ Loading.missing = 0 /\ Loading.store = Empty
  BY <1>1, LoadNothing DEF Loading
<1>3. IsStore(Empty) /\ \A k \in Key : Empty[k].expiry = "none"
  BY DEF IsStore, Empty, Absent
<1>4. Types
  <2>1. IsLoading(load_frames(file))
    BY <1>2, <1>3, Zenon DEF IsLoading, Permanent
  <2>2. failures \in Nat /\ crashes \in Nat /\ file \in Seq(Record)
    BY <1>1
  <2> QED BY <1>1, <1>3, <2>1, <2>2, Zenon DEF Types
<1>5. ReadToEnd /\ InSync /\ Expiring
  BY <1>1, <1>2, <1>3, Zenon DEF ReadToEnd, InSync, Agree, recover, Expiring
<1>6. AllWhole(file)
  BY <1>1 DEF AllWhole
<1>7. CutByCrash
  BY <1>1, <1>6 DEF CutByCrash
<1>8. crashes <= MaxCrashes
  BY <1>1, BoundAssumption
<1> QED
  BY <1>4, <1>5, <1>7, <1>8, Zenon DEF AofInv

(* The store a file recovers to. *)
LEMMA Recovered ==
  ASSUME Types
  PROVE  IsStore(recover(file)) /\ Permanent(recover(file))
BY Zenon DEF Types, IsLoading, recover

(* The keys that are compared are fewer when more had an expiry. *)
LEMMA AgreeFewer ==
  ASSUME temporary \subseteq temporary', NEW s, NEW t, Agree(s, t)
  PROVE  \A k \in Key \ temporary' : s[k] = t[k]
BY Zenon DEF Agree

(* A client's writer, in each of its two states. *)
LEMMA WriterType ==
  ASSUME Types, NEW cl \in Client, writer[cl] # Idle
  PROVE  up /\ writer[cl] \in Logged /\ writer[cl] \in Frame
BY Zenon DEF Types, Logged

LEMMA WriteInv ==
  ASSUME "LPOP" \notin Op, NEW cl, Client = {cl}, AofInv, NEW op \in Op, NEW k \in Key,
         NEW x \in Input, write(cl, op, k, x)
  PROVE  AofInv'
<1>1. /\ up /\ up' = up /\ writer[cl] = Idle /\ UNCHANGED <<readers, file, crashes, failures, before>>
  BY Zenon DEF write
<1>t. /\ Types /\ IsStore(store) /\ writer \in [Client -> Logged \cup {Idle}] /\ cl \in Client
      /\ IsStore(recover(file))
  BY Recovered, Zenon DEF AofInv, Types
<1>2. ReadToEnd' /\ CutByCrash' /\ crashes' <= MaxCrashes
  <2>1. ReadToEnd'
    BY <1>1, Zenon DEF AofInv, ReadToEnd
  <2>2. CutByCrash'
    BY <1>1, Zenon DEF AofInv, CutByCrash
  <2> QED BY <1>1, <2>1, <2>2, Zenon DEF AofInv
<1>w. /\ IsStore(store') /\ temporary \subseteq temporary'
      /\ store'[k].expiry # "none" => k \in temporary'
      /\ \A j \in Key : j # k => store'[j] = store[j]
  BY <1>t, WriteDoes, Zenon
<1>d. \/ /\ \A j \in Key \ temporary' : store'[j] = store[j]
         /\ promised' = store' /\ writer' = writer
      \/ \E d \in Logged :
           /\ \A j \in Key \ temporary' : store'[j] = execute(store, d)[j]
           /\ promised' = promised /\ writer' = [writer EXCEPT ![cl] = d]
  BY <1>t, WriteDoes, Zenon
<1>x. Expiring'
  <2>1. \A j \in Key : store'[j].expiry # "none" => j \in temporary'
    BY <1>w, Zenon DEF AofInv, Expiring
  <2> QED BY <1>1, <1>w, <2>1, Zenon DEF AofInv, Expiring
<1>s. failures = 0 /\ WholeButLast(file) =>
        Agree(recover(file), store) /\ Agree(recover(file), promised)
  BY <1>1, <1>t, Zenon DEF AofInv, InSync
<1>3. CASE /\ \A j \in Key \ temporary' : store'[j] = store[j]
           /\ promised' = store' /\ writer' = writer
  <2>1. Types'
    BY <1>1, <1>3, <1>t, <1>w, Zenon DEF Types
  <2>2. InSync'
    <3> SUFFICES ASSUME failures = 0, WholeButLast(file)
                 PROVE  \A j \in Key \ temporary' : recover(file)[j] = store'[j]
      BY <1>1, <1>3, <1>t, Zenon DEF InSync, Agree
    <3> QED BY <1>3, <1>s, <1>w, AgreeFewer, Zenon
  <2> QED BY <1>2, <1>x, <2>1, <2>2, Zenon DEF AofInv
<1>4. ASSUME NEW d \in Logged, \A j \in Key \ temporary' : store'[j] = execute(store, d)[j],
             promised' = promised, writer' = [writer EXCEPT ![cl] = d]
      PROVE  AofInv'
  <2>0. /\ writer'[cl] = d /\ d # Idle /\ d \in Frame
        /\ writer' \in [Client -> Logged \cup {Idle}]
    <3>1. writer'[cl] = d /\ writer' \in [Client -> Logged \cup {Idle}]
      BY <1>4, <1>t
    <3>2. d \in Frame
      BY Zenon DEF Logged
    <3> QED BY <3>1, <3>2, FrameNotIdle, Zenon
  <2>1. Types'
    BY <1>1, <1>t, <1>w, <2>0, Zenon DEF Types
  <2>2. InSync'
    <3> SUFFICES ASSUME failures = 0, WholeButLast(file)
                 PROVE  /\ \A j \in Key \ temporary' : recover(file)[j] = promised[j]
                        /\ \A j \in Key \ temporary' : execute(recover(file), d)[j] = store'[j]
      BY <1>1, <1>4, <2>0, Zenon DEF InSync, Agree
    <3>1. \A j \in Key \ temporary' : recover(file)[j] = promised[j] /\ recover(file)[j] = store[j]
      BY <1>s, <1>w, AgreeFewer, Zenon
    <3>2. ASSUME NEW j \in Key \ temporary' PROVE execute(recover(file), d)[j] = store'[j]
      <4>1. execute(recover(file), d)[j] = execute(store, d)[j]
        <5>1. recover(file)[j] = store[j] /\ j \in Key
          BY <3>1, Zenon
        <5>2. IsStore(recover(file)) /\ IsStore(store) /\ d \in Frame
          BY <1>t, <2>0, Zenon
        <5> QED BY <5>1, <5>2, ExecuteAlike
      <4> QED BY <1>4, <4>1, Zenon
    <3> QED BY <3>1, <3>2, Zenon
  <2> QED BY <1>2, <1>x, <2>1, <2>2, Zenon DEF AofInv
<1> QED
  BY <1>3, <1>4, <1>d, Zenon

(* Time and readers touch temporary keys only. *)
LEMMA ExpiryInv ==
  ASSUME NEW cl, Client = {cl}, AofInv, NEW k \in Key, elapse(k) \/ get(k) \/ remove_expired(k)
  PROVE  AofInv'
<1>1. /\ up /\ UNCHANGED <<up, writer, file, crashes, failures, promised, before, temporary>>
  BY Zenon DEF elapse, get, remove_expired
<1>t. Types /\ IsStore(store) /\ Expiring
  BY Zenon DEF AofInv, Types
<1>2. /\ store' \in {store, [store EXCEPT ![k] = store'[k]]}
      /\ store' # store => k \in temporary
      /\ readers' \subseteq readers \cup {k} /\ (readers' \subseteq readers \/ k \in temporary)
  <2>1. CASE elapse(k)
    <3>1. /\ store[k].expiry = "later" /\ readers' = readers
          /\ store' = [store EXCEPT ![k] = expires(store[k], "past")]
      BY <2>1, Zenon DEF elapse
    <3> QED BY <1>t, <3>1 DEF Expiring, IsStore
  <2>2. CASE get(k)
    <3>1. store[k].expiry = "past" /\ readers' = readers \cup {k} /\ store' = store
      BY <2>2, Zenon DEF get, is_expired
    <3> QED BY <1>t, <3>1 DEF Expiring
  <2>3. CASE remove_expired(k)
    <3>1. k \in readers /\ readers' = readers \ {k} /\ store' = [store EXCEPT ![k] = Absent]
      BY <2>3, Zenon DEF remove_expired
    <3> QED BY <1>t, <3>1 DEF Expiring, IsStore
  <2> QED BY <2>1, <2>2, <2>3, Zenon
<1>3. IsStore(store') /\ \A j \in Key : j # k => store'[j] = store[j]
  BY <1>2, <1>t DEF IsStore
<1>4. \A j \in Key \ temporary : store'[j] = store[j]
  BY <1>2, <1>3, Zenon
<1>5. Types'
  BY <1>1, <1>3, <1>t, Zenon DEF Types
<1>6. Expiring'
  <2>1. \A j \in Key : store'[j].expiry # "none" => j \in temporary
    BY <1>2, <1>3, <1>t, Zenon DEF Expiring
  <2> QED BY <1>1, <1>2, <1>t, <2>1 DEF Expiring
<1>7. ReadToEnd' /\ CutByCrash' /\ crashes' <= MaxCrashes
  BY <1>1, Zenon DEF AofInv, ReadToEnd, CutByCrash
<1>8. InSync'
  <2>1. InSync
    BY Zenon DEF AofInv
  <2>2. \A s : Agree(s, store) => Agree(s, store')
    BY <1>4, Zenon DEF Agree
  <2>3. \A s, t : Agree(s, t) => \A j \in Key \ temporary' : s[j] = t[j]
    BY <1>1, Zenon DEF Agree
  <2> SUFFICES ASSUME failures = 0, WholeButLast(file)
               PROVE  /\ writer[cl] = Idle => /\ Agree(recover(file), store')
                                              /\ Agree(recover(file), promised)
                      /\ writer[cl] # Idle => /\ Agree(recover(file), promised)
                                              /\ Agree(execute(recover(file), writer[cl]), store')
    BY <1>1, <2>3, Zenon DEF InSync, Agree
  <2> QED BY <1>1, <2>1, <2>2, Zenon DEF InSync
<1> QED
  BY <1>5, <1>6, <1>7, <1>8, Zenon DEF AofInv

LEMMA AppendInv ==
  ASSUME NEW cl, Client = {cl}, AofInv, write_resp(cl)
  PROVE  AofInv'
<1> DEFINE c == writer[cl]
           r == whole(c)
<1>1. /\ up /\ up' = up /\ c # Idle /\ file' = Append(file, r) /\ promised' = store
      /\ writer' = [writer EXCEPT ![cl] = Idle] /\ UNCHANGED <<store, readers, crashes, failures, before, temporary>>
  BY Zenon DEF write_resp
<1>t. /\ Types /\ file \in Seq(Record) /\ IsLoading(load_frames(file)) /\ cl \in Client
      /\ writer \in [Client -> Logged \cup {Idle}]
  BY Zenon DEF AofInv, Types
<1>2. c \in Logged /\ c # Idle /\ r \in Record /\ r.swallows = 0 /\ r.frame = c
  <2>1. c \in Logged
    BY <1>1, <1>t, WriterType, Zenon
  <2> HIDE DEF c
  <2> QED BY <1>1, <2>1, WholeType, Zenon
<1> HIDE DEF r, c
<1>3. writer' \in [Client -> Logged \cup {Idle}] /\ writer'[cl] = Idle
  BY <1>1, <1>t
<1>4. Types'
  <2>1. file' \in Seq(Record) /\ IsLoading(load_frames(file'))
    BY <1>1, <1>2, <1>t, RecoverAppend, Zenon
  <2> QED BY <1>1, <1>3, <1>t, <2>1, Zenon DEF Types
<1>5. /\ AllWhole(file') => AllWhole(file)
      /\ WholeButLast(file') => AllWhole(file)
      /\ AllWhole(file) => AllWhole(file') /\ WholeButLast(file') /\ WholeButLast(file)
  BY <1>1, <1>2, <1>t, WholeAppend, Zenon
<1>6. AllWhole(file) => /\ load_frames(file').missing = 0
                        /\ recover(file') = execute(recover(file), c)
  BY <1>1, <1>2, <1>t, ReadNext, Zenon DEF AofInv, ReadToEnd
<1>7. ReadToEnd'
  BY <1>5, <1>6, Zenon DEF ReadToEnd
<1>8. InSync'
  <2> SUFFICES ASSUME failures = 0, AllWhole(file)
               PROVE  \A k \in Key \ temporary : recover(file')[k] = store[k]
    BY <1>1, <1>3, <1>5, Zenon DEF InSync, Agree
  <2>1. Agree(execute(recover(file), c), store)
    BY <1>1, <1>5, <1>t, Zenon DEF AofInv, InSync, c
  <2> QED BY <1>6, <2>1, Zenon DEF Agree
<1>9. CutByCrash' /\ crashes' <= MaxCrashes /\ Expiring'
  BY <1>1, <1>5, Zenon DEF AofInv, CutByCrash, Expiring
<1> QED
  BY <1>4, <1>7, <1>8, <1>9, Zenon DEF AofInv

(* A record that is not whole, or not written at all. *)
LEMMA FailInv ==
  ASSUME NEW cl, Client = {cl}, AofInv, write_resp_fails(cl)
  PROVE  AofInv'
<1>1. /\ up /\ up' = up /\ writer[cl] # Idle /\ failures' = failures + 1
      /\ file' = file \/ \E r \in torn(writer[cl]) : file' = Append(file, r)
      /\ writer' = [writer EXCEPT ![cl] = Idle] /\ UNCHANGED <<store, readers, crashes, temporary>>
  BY Zenon DEF write_resp_fails
<1>t. /\ Types /\ file \in Seq(Record) /\ IsLoading(load_frames(file)) /\ cl \in Client
      /\ writer \in [Client -> Logged \cup {Idle}] /\ failures \in Nat
  BY Zenon DEF AofInv, Types
<1>2. failures' \in Nat /\ failures' # 0
  BY <1>1, <1>t
<1>3. writer' \in [Client -> Logged \cup {Idle}]
  BY <1>1, <1>t
<1>4. ASSUME NEW r \in torn(writer[cl]), file' = Append(file, r)
      PROVE  file' \in Seq(Record) /\ IsLoading(load_frames(file')) /\ ~AllWhole(file')
  <2>1. writer[cl] \in Logged
    BY <1>1, <1>t, WriterType, Zenon
  <2>2. r \in Record /\ r.swallows # 0
    BY <2>1, TornType, Zenon
  <2> QED
    BY <1>4, <1>t, <2>2, RecoverAppend, WholeAppend, Zenon
<1>5. file' \in Seq(Record) /\ IsLoading(load_frames(file'))
  BY <1>1, <1>4, <1>t, Zenon
<1>6. Types'
  BY <1>1, <1>2, <1>3, <1>5, <1>t, Zenon DEF Types
<1>7. ReadToEnd'
  BY <1>1, <1>4, Zenon DEF AofInv, ReadToEnd
<1> QED
  BY <1>1, <1>2, <1>6, <1>7, Zenon DEF AofInv, Expiring, InSync, CutByCrash

(* A crash, wherever the handler is in its append. *)
LEMMA CrashInv ==
  ASSUME NEW cl, Client = {cl}, AofInv, crash
  PROVE  AofInv'
<1>1. /\ up /\ up' = FALSE /\ crashes < MaxCrashes /\ crashes' = crashes + 1
      /\ \/ file' = file
         \/ /\ writer[cl] # Idle
            /\ \E r \in torn(writer[cl]) \cup {whole(writer[cl])} : file' = Append(file, r)
      /\ before' = store /\ store' = Empty /\ writer' = [p \in Client |-> Idle]
      /\ readers' = {} /\ UNCHANGED <<failures, promised, temporary>>
  BY Zenon DEF crash
<1>t. /\ Types /\ file \in Seq(Record) /\ IsLoading(load_frames(file)) /\ cl \in Client
      /\ crashes \in Nat
  BY Zenon DEF AofInv, Types
<1>2. crashes' \in Nat /\ crashes' <= MaxCrashes /\ crashes' # 0 /\ (crashes' = 1 => crashes = 0)
  BY <1>1, <1>t, BoundAssumption
<1>s. /\ writer' \in [Client -> Logged \cup {Idle}] /\ \A p \in Client : writer'[p] = Idle
      /\ IsStore(store')
  BY <1>1, Zenon DEF IsStore, Empty
<1>x. Expiring'
  <2>1. \A k \in Key : store'[k].expiry = "none"
    BY <1>1 DEF Empty, Absent
  <2> QED BY <1>1, <2>1, Zenon DEF Expiring
<1>3. CASE file' = file
  <2>1. Types'
    BY <1>1, <1>2, <1>3, <1>s, <1>t, Zenon DEF Types
  <2>2. ReadToEnd'
    BY <1>3, Zenon DEF AofInv, ReadToEnd
  <2>3. InSync'
    <3> SUFFICES ASSUME failures = 0, WholeButLast(file) PROVE Agree(recover(file), promised)
      BY <1>1, <1>3, Zenon DEF InSync, Agree
    <3> QED BY <1>1, <1>t, Zenon DEF AofInv, InSync
  <2>4. CutByCrash'
    <3> SUFFICES ASSUME failures = 0, crashes' = 1 PROVE WholeButLast(file)
      BY <1>1, <1>2, <1>3, Zenon DEF CutByCrash
    <3>1. AllWhole(file)
      BY <1>2, Zenon DEF AofInv, CutByCrash
    <3>2. Len(file) \in Nat
      BY <1>t
    <3> QED BY <3>1, <3>2 DEF AllWhole, WholeButLast
  <2> QED BY <1>2, <1>x, <2>1, <2>2, <2>3, <2>4, Zenon DEF AofInv
<1>4. ASSUME writer[cl] # Idle, NEW r \in torn(writer[cl]) \cup {whole(writer[cl])},
             file' = Append(file, r)
      PROVE  AofInv'
  <2> DEFINE c == writer[cl]
  <2>c. c \in Logged /\ c # Idle
    BY <1>4, <1>t, WriterType, Zenon
  <2> HIDE DEF c
  <2>r. /\ r \in Record
        /\ \/ r.swallows # 0
           \/ r.swallows = 0 /\ r.frame = c /\ r.frame # Idle
    <3>1. CASE r \in torn(c)
      BY <2>c, <3>1, TornType, Zenon
    <3>2. CASE r = whole(c)
      BY <2>c, <3>2, WholeType, Zenon
    <3> QED BY <3>1, <3>2, Zenon DEF c
  <2>1. Types'
    <3>1. file' \in Seq(Record) /\ IsLoading(load_frames(file'))
      BY <1>4, <1>t, <2>r, RecoverAppend, Zenon
    <3> QED BY <1>1, <1>2, <1>s, <1>t, <3>1, Zenon DEF Types
  <2>w. /\ AllWhole(file') => AllWhole(file) /\ r.swallows = 0
        /\ WholeButLast(file') <=> AllWhole(file)
        /\ AllWhole(file) => WholeButLast(file)
    BY <1>4, <1>t, <2>r, WholeAppend, Zenon
  <2>n. AllWhole(file) =>
          /\ load_frames(file').missing = r.swallows
          /\ recover(file') \in {recover(file), execute(recover(file), c)}
    BY <1>4, <1>t, <2>r, ReadNext, Zenon DEF AofInv, ReadToEnd
  <2>2. ReadToEnd'
    BY <2>n, <2>w, Zenon DEF ReadToEnd
  <2>3. InSync'
    <3> SUFFICES ASSUME failures = 0, AllWhole(file)
                 PROVE  Agree(recover(file'), promised) \/ Agree(recover(file'), store)
      BY <1>1, <2>w, Zenon DEF InSync, Agree
    <3>1. Agree(recover(file), promised) /\ Agree(execute(recover(file), c), store)
      BY <1>1, <1>4, <1>t, <2>w, Zenon DEF AofInv, InSync, c
    <3> QED BY <2>n, <3>1, Zenon DEF Agree
  <2>4. CutByCrash'
    <3> SUFFICES ASSUME failures = 0, crashes' = 1 PROVE AllWhole(file)
      BY <1>1, <1>2, <2>w, Zenon DEF CutByCrash
    <3> QED BY <1>2, Zenon DEF AofInv, CutByCrash
  <2> QED BY <1>2, <1>x, <2>1, <2>2, <2>3, <2>4, Zenon DEF AofInv
<1> QED
  BY <1>1, <1>3, <1>4, Zenon

LEMMA StartInv ==
  ASSUME AofInv, start
  PROVE  AofInv'
<1>1. /\ ~up /\ up' = TRUE /\ store' = recover(file) /\ promised' = recover(file)
      /\ temporary' = {} /\ UNCHANGED <<writer, readers, file, crashes, failures, before>>
  BY Zenon DEF start
<1>r. IsStore(recover(file)) /\ Permanent(recover(file))
  BY Recovered, Zenon DEF AofInv
<1>2. Types'
  BY <1>1, <1>r, Zenon DEF AofInv, Types
<1>x. Expiring'
  <2>1. readers = {}
    BY <1>1, Zenon DEF AofInv, Expiring
  <2> QED BY <1>1, <1>r, <2>1, Zenon DEF Expiring, Permanent
<1>3. ReadToEnd' /\ crashes' <= MaxCrashes
  BY <1>1, Zenon DEF AofInv, ReadToEnd
<1>4. InSync'
  <2>1. \A cl \in Client : writer'[cl] = Idle
    BY <1>1, Zenon DEF AofInv, Types
  <2> QED BY <1>1, <2>1, Zenon DEF InSync, Agree
<1>5. CutByCrash'
  BY <1>1, Zenon DEF AofInv, CutByCrash
<1> QED
  BY <1>2, <1>3, <1>4, <1>5, <1>x, Zenon DEF AofInv

LEMMA NextAofInv ==
  ASSUME "LPOP" \notin Op, NEW cl, Client = {cl}, AofInv, [Next]_vars
  PROVE  AofInv'
<1>1. CASE UNCHANGED vars
  <2>1. UNCHANGED <<up, store, writer, readers, file, crashes, failures, promised, before, temporary>>
    BY <1>1, Zenon DEF vars
  <2>2. Types' /\ ReadToEnd'
    BY <2>1, Zenon DEF AofInv, Types, ReadToEnd
  <2>3. InSync' /\ Expiring' /\ CutByCrash' /\ crashes' <= MaxCrashes
    BY <2>1, Zenon DEF AofInv, InSync, Agree, Expiring, CutByCrash
  <2> QED BY <2>2, <2>3, Zenon DEF AofInv
<1>2. \A p \in Client : p = cl
  BY Zenon
<1>3. ASSUME NEW p \in Client, NEW op \in Op, NEW k \in Key, NEW x \in Input, write(p, op, k, x)
      PROVE  AofInv'
  BY <1>2, <1>3, WriteInv, Zenon
<1>4. ASSUME NEW p \in Client, write_resp(p) \/ write_resp_fails(p) PROVE AofInv'
  BY <1>2, <1>4, AppendInv, FailInv, Zenon
<1>5. ASSUME NEW k \in Key, elapse(k) \/ get(k) \/ remove_expired(k) PROVE AofInv'
  BY <1>5, ExpiryInv, Zenon
<1> QED
  BY <1>1, <1>3, <1>4, <1>5, CrashInv, StartInv, Zenon DEF Next

-----------------------------------------------------------------------------
(* Theorems *)

(* With one client, which does not pop: as long as no append fails or is   *)
(* cut, the file recovers to the store the client sees, after any number   *)
(* of commands, crashes and restarts, under every key that had no expiry   *)
(* since the process started; what time and readers remove is never one of *)
(* the others (cmd_set, cmd_expire, cmd_rpush, cmd_del, Store::get,        *)
(* Aof::write_resp, load_frames).                                          *)
THEOREM DataSurvives ==
  ASSUME "LPOP" \notin Op, NEW cl, Client = {cl}
  PROVE  Spec => []RestartKeepsData
<1>1. AofInv /\ [Next]_vars => AofInv'
  BY NextAofInv, Zenon
<1>2. AofInv => RestartKeepsData
  <2> SUFFICES ASSUME AofInv, up, failures = 0, \A p \in Client : writer[p] = Idle,
                      AllWhole(file)
               PROVE  Agree(recover(file), store)
    BY Zenon DEF RestartKeepsData, AllWhole
  <2>1. WholeButLast(file)
    <3>1. file \in Seq(Record)
      BY Zenon DEF AofInv, Types
    <3>2. Len(file) \in Nat
      BY <3>1
    <3> QED BY <3>2 DEF AllWhole, WholeButLast
  <2> QED
    BY <2>1, Zenon DEF AofInv, InSync
<1> QED
  BY <1>1, <1>2, InitAofInv, PTL DEF Spec

(* Whenever the process starts on a file with nothing behind a cut record, *)
(* it comes up with what was answered last or with what was executed last, *)
(* under the keys without an expiry, however often it crashed before       *)
(* (main, load_frames).                                                    *)
THEOREM CutRecordLosesOne ==
  ASSUME "LPOP" \notin Op, NEW cl, Client = {cl}
  PROVE  Spec => [][start /\ failures = 0 /\ WholeButLast(file)
                      => Agree(store', promised) \/ Agree(store', before)]_vars
<1>1. AofInv /\ [Next]_vars => AofInv'
  BY NextAofInv, Zenon
<1>2. AofInv /\ [Next]_vars => [start /\ failures = 0 /\ WholeButLast(file)
                                   => Agree(store', promised) \/ Agree(store', before)]_vars
  BY Zenon DEF AofInv, InSync, Agree, start
<1> QED
  BY <1>1, <1>2, InitAofInv, PTL DEF Spec

(* A first crash, anywhere in the append of a command, loses at most that  *)
(* command: no record of one crash has another behind it.                  *)
THEOREM FirstCrashLosesOne ==
  ASSUME "LPOP" \notin Op, NEW cl, Client = {cl}, MaxCrashes <= 1
  PROVE  Spec => CrashKeepsAnswered
<1>1. AofInv /\ [Next]_vars => AofInv'
  BY NextAofInv, Zenon
<1>2. AofInv /\ [Next]_vars =>
        [start /\ failures = 0 => Agree(store', promised) \/ Agree(store', before)]_vars
  <2> SUFFICES ASSUME AofInv, start, failures = 0
               PROVE  Agree(store', promised) \/ Agree(store', before)
    BY Zenon
  <2>1. ~up /\ store' = recover(file)
    BY Zenon DEF start
  <2>2. crashes = 0 \/ crashes = 1
    BY BoundAssumption DEF AofInv, Types
  <2> QED
    BY <2>1, <2>2, Zenon DEF AofInv, InSync, Agree, CutByCrash
<1>3. Spec => [][start /\ failures = 0 => Agree(store', promised) \/ Agree(store', before)]_vars
  BY <1>1, <1>2, InitAofInv, PTL DEF Spec
<1> QED
  BY <1>3, Zenon DEF CrashKeepsAnswered

=============================================================================
