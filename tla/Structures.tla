------------------------------ MODULE Structures ------------------------------
(***************************************************************************)
(* One key of the store under all the commands on its value: the string,   *)
(* list, hash, set and sorted-set handlers of src/src/commands/mod.rs.     *)
(***************************************************************************)
EXTENDS StringKey, ListKey, HashKey, SetKey, ZSetKey, SequencesExt

CONSTANT EMBSTR_MAX      \* the longest string that DEBUG OBJECT calls embedded

(* DEBUG OBJECT: the type of the value, its encoding and its length. *)
debug_object ==
  LET d == entry.data
      small == d.enc = "Small"
  IN CASE entry.kind = "string" ->
            <<IF Len(d.text) <= EMBSTR_MAX THEN "embstr" ELSE "raw", Len(d.text)>>
       [] entry.kind = "list" -> <<IF small THEN "listpack" ELSE "quicklist", L!len(d)>>
       [] entry.kind = "hash" -> <<IF small THEN "listpack" ELSE "hashtable", H!len(d)>>
       [] entry.kind = "set" -> <<IF small THEN "listpack" ELSE "hashtable", S!len(d)>>
       [] entry.kind = "zset" -> <<"skiplist", Z!len(d)>>
cmd_debug_object ==
  /\ cmd' = request("debug object", <<>>)
  /\ reply' = IF entry = none THEN error
              ELSE frame("object", debug_object[2], <<entry.kind, debug_object[1]>>)
  /\ UNCHANGED entry

Next ==
  \/ cmd_del \/ cmd_type \/ cmd_debug_object
  \/ StringCommand \/ ListCommand \/ HashCommand \/ SetCommand \/ ZSetCommand

Spec == Init /\ [][Next]_vars

(* No command reads the last command or its answer. *)
View == entry

-----------------------------------------------------------------------------
(* Properties *)

TypeOK ==
  \/ entry = none
  \/ entry.kind = "string" /\ entry.data.text \in Seq(T!Char)
  \/ entry.kind = "list" /\ entry.data \in L!List
  \/ entry.kind = "hash" /\ entry.data \in H!Hash
  \/ entry.kind = "set" /\ entry.data \in S!Set
  \/ entry.kind = "zset" /\ entry.data \in Z!ZSet

(* A set or a hash in its vector encoding has no member or field twice, is *)
(* no longer than the threshold and holds nothing that is too long for it. *)
CompactIsSmall ==
  /\ entry.kind = "set" /\ entry.data.enc = "Small" =>
       /\ Cardinality(ToSet(entry.data.vec)) = Len(entry.data.vec)
       /\ Len(entry.data.vec) <= MAX_INTSET_ENTRIES
       /\ ToSet(entry.data.vec) \cap BigMember = {}
  /\ entry.kind = "hash" /\ entry.data.enc = "Small" =>
       /\ Cardinality(H!keys(entry.data)) = Len(entry.data.vec)
       /\ Len(entry.data.vec) <= MAX_HASH_ENTRIES
       /\ H!keys(entry.data) \cap BigField = {}
       /\ \A i \in DOMAIN entry.data.vec : entry.data.vec[i][2] # NotNumber

=============================================================================
