-------------------------------- MODULE Aof --------------------------------
(***************************************************************************)
(* The append-only file (src/src/persistence, the startup replay of        *)
(* main.rs and the parser it uses): clients write to the store and then    *)
(* append to the file, the process crashes, also in the middle of an       *)
(* append, and restarts from the file.  Meanwhile time passes, and readers *)
(* remove what they find expired, which no record tells of.                *)
(***************************************************************************)
EXTENDS Commands

CONSTANTS
  Client,       \* client connections, a task each
  Op,           \* the commands clients use
  Input,        \* the items clients send
  Garbage,      \* an item read across the end of a cut frame
  MaxWrites, MaxCrashes, MaxFailures   \* bounds on writes, crashes, I/O errors

ASSUME OpAssumption == Op \subseteq CommandName
ASSUME ItemAssumption == Item = Input \cup {Garbage} /\ Garbage \notin Input
ASSUME BoundAssumption == MaxWrites \in Nat /\ MaxCrashes \in Nat /\ MaxFailures \in Nat

VARIABLES
  up,        \* the process runs
  store,     \* its keyspace
  writer,    \* per client: the frame the handler has still to append, or Idle
  readers,   \* the keys a reader found expired and has still to remove
  file,      \* the records of the file
  writes, crashes, failures

(* History: the store when a client last got an answer, and at the last    *)
(* crash; the keys that had an expiry since the process started.           *)
VARIABLES promised, before, temporary

vars == <<up, store, writer, readers, file, writes, crashes, failures, promised, before, temporary>>

-----------------------------------------------------------------------------
Idle == [op |-> "NONE"]
Empty == [k \in Key |-> Absent]

(* A record is a whole frame (swallows 0), or what an interrupted append   *)
(* left.  The parser completes a cut frame with the records that follow    *)
(* it: it takes that many of them as the missing arguments and executes    *)
(* the mixture, or it never gets to the end and reads nothing more.        *)
whole(c) == [swallows |-> 0, frame |-> c]
Unreadable == [swallows |-> MaxWrites + 1, frame |-> Idle]

(* Cut between two arguments, n of them missing: a nested array is not an  *)
(* argument, so the mixture is an error, except that RPUSH drops it and    *)
(* pushes nothing.                                                         *)
cut_between(c) ==
  {[swallows |-> n,
    frame |-> IF c.op = "RPUSH" /\ n = 1 THEN [c EXCEPT !.items = <<>>] ELSE Idle]
   : n \in 1 .. Len(c.items) + 2}

(* Cut inside the last item: the item takes the bytes of the next frame,   *)
(* and what is left of that frame is no command.                           *)
cut_inside(c) ==
  IF c.items = <<>> THEN {}
  ELSE {[swallows |-> 1, frame |-> [c EXCEPT !.items = <<Garbage>>]]}

torn(c) == cut_between(c) \cup cut_inside(c) \cup {Unreadable}

(* A frame that is no command answers with an error. *)
replay(st, c) == IF c = Idle THEN st ELSE execute(st, c)

(* Startup, a record at a time: the store, the frame that is read, and how *)
(* many records it still takes before it is complete and executes.         *)
Loading == [store |-> Empty, frame |-> Idle, missing |-> 0]

read_record(s, r) ==
  LET c == IF s.missing = 0 THEN r.frame ELSE s.frame
      missing == IF s.missing = 0 THEN r.swallows ELSE s.missing - 1
  IN [store |-> IF missing = 0 THEN replay(s.store, c) ELSE s.store,
      frame |-> c,
      missing |-> missing]

(* Reading stops at the end of the file, also inside a frame. *)
load_frames(f) ==
  LET loaded[i \in 0..Len(f)] ==
        IF i = 0 THEN Loading ELSE read_record(loaded[i - 1], f[i])
  IN loaded[Len(f)]

recover(f) == load_frames(f).store

Init ==
  /\ up = TRUE /\ store = Empty /\ writer = [cl \in Client |-> Idle] /\ readers = {} /\ file = <<>>
  /\ writes = 0 /\ crashes = 0 /\ failures = 0
  /\ promised = Empty /\ before = Empty /\ temporary = {}

-----------------------------------------------------------------------------
(* A handler changes the store; a command that logs nothing is answered.   *)
write(cl, op, k, x) ==
  LET r == dispatch(store[k], frame(op, k, IF op \in WithItem THEN <<x>> ELSE <<>>))
  IN /\ up /\ writer[cl] = Idle /\ writes < MaxWrites
     /\ writes' = writes + 1
     /\ store' = [store EXCEPT ![k] = r.value]
     /\ IF r.log = <<>>
        THEN promised' = store' /\ UNCHANGED writer
        ELSE writer' = [writer EXCEPT ![cl] = Head(r.log)] /\ UNCHANGED promised
     /\ temporary' = IF r.value.expiry = "none" THEN temporary ELSE temporary \cup {k}
     /\ UNCHANGED <<up, readers, file, crashes, failures, before>>

(* The time a value expires at comes. *)
elapse(k) ==
  /\ up /\ store[k].expiry = "later"
  /\ store' = [store EXCEPT ![k] = expires(@, "past")]
  /\ UNCHANGED <<up, writer, readers, file, writes, crashes, failures, promised, before, temporary>>

(* Store::get finds an expired entry and lets go of it ... *)
get(k) ==
  /\ up /\ is_expired(store[k]) /\ k \notin readers
  /\ readers' = readers \cup {k}
  /\ UNCHANGED <<up, store, writer, file, writes, crashes, failures, promised, before, temporary>>

(* ... and then removes the key, whatever it holds by now. *)
remove_expired(k) ==
  /\ up /\ k \in readers
  /\ readers' = readers \ {k}
  /\ store' = [store EXCEPT ![k] = Absent]
  /\ UNCHANGED <<up, writer, file, writes, crashes, failures, promised, before, temporary>>

(* Variant: the handler answers and appends later. *)
write_resp_late(cl) ==
  /\ up /\ writer[cl] # Idle
  /\ writer' = [writer EXCEPT ![cl] = Idle]
  /\ promised' = store
  /\ UNCHANGED <<up, store, readers, file, writes, crashes, failures, before, temporary>>

(* The append succeeds and the client gets its answer. *)
write_resp(cl) ==
  /\ up /\ writer[cl] # Idle
  /\ file' = Append(file, whole(writer[cl]))
  /\ writer' = [writer EXCEPT ![cl] = Idle]
  /\ promised' = store
  /\ UNCHANGED <<up, store, readers, writes, crashes, failures, before, temporary>>

(* The append fails, half done or not begun; the handler ignores the error *)
(* and answers as if it had succeeded.                                     *)
write_resp_fails(cl) ==
  /\ up /\ writer[cl] # Idle /\ failures < MaxFailures
  /\ failures' = failures + 1
  /\ \/ UNCHANGED file
     \/ \E r \in torn(writer[cl]) : file' = Append(file, r)
  /\ writer' = [writer EXCEPT ![cl] = Idle]
  /\ promised' = store
  /\ UNCHANGED <<up, store, readers, writes, crashes, before, temporary>>

(* The process dies: the handler that has the file may be anywhere in its  *)
(* append.                                                                 *)
crash ==
  /\ up /\ crashes < MaxCrashes
  /\ crashes' = crashes + 1 /\ up' = FALSE
  /\ \/ UNCHANGED file
     \/ \E cl \in {cl \in Client : writer[cl] # Idle} :
          \E r \in torn(writer[cl]) \cup {whole(writer[cl])} : file' = Append(file, r)
  /\ before' = store /\ store' = Empty /\ writer' = [cl \in Client |-> Idle]
  /\ readers' = {}
  /\ UNCHANGED <<writes, failures, promised, temporary>>

(* main: the file is replayed before connections are accepted, then opened *)
(* for append.                                                             *)
start ==
  /\ ~up
  /\ up' = TRUE
  /\ store' = recover(file)
  /\ promised' = store'
  /\ temporary' = {}
  /\ UNCHANGED <<writer, readers, file, writes, crashes, failures, before>>

Next ==
  \/ \E cl \in Client, op \in Op, k \in Key, x \in Input : write(cl, op, k, x)
  \/ \E k \in Key : elapse(k)
  \/ \E k \in Key : get(k)
  \/ \E k \in Key : remove_expired(k)
  \/ \E cl \in Client : write_resp(cl)
  \/ \E cl \in Client : write_resp_fails(cl)
  \/ crash
  \/ start

Spec == Init /\ [][Next]_vars

-----------------------------------------------------------------------------
(* Properties *)

(* Two stores agree on the keys that never had an expiry. *)
Agree(s, t) == \A k \in Key \ temporary : s[k] = t[k]

(* Data survives restarts: when no command is in progress and no append    *)
(* failed or was cut, the file recovers to the store the clients see, for  *)
(* every key that had no expiry since the process started.  A key that had *)
(* one comes back without it, or after readers removed it: the file knows  *)
(* of neither (log_set, cmd_expire, Store::get).                           *)
RestartKeepsData ==
  /\ up /\ failures = 0 /\ \A cl \in Client : writer[cl] = Idle
  /\ \A i \in 1..Len(file) : file[i].swallows = 0
  => Agree(recover(file), store)

(* A crash loses at most the command in progress: the process comes up     *)
(* with the data of the last answered command, or with that of the last    *)
(* executed one, under the keys that had no expiry, unless an append       *)
(* failed and was answered all the same.                                   *)
CrashKeepsAnswered ==
  [][start /\ failures = 0 => Agree(store', promised) \/ Agree(store', before)]_vars

=============================================================================
