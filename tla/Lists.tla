------------------------------- MODULE Lists -------------------------------
(***************************************************************************)
(* The list type (src/src/storage/list.rs) and the index arithmetic of the *)
(* list functions of the store.  A list is a flat vector (Small) until it  *)
(* gets too long or is given too long an element, then a ring buffer       *)
(* (Large).  Integers have the width of the machine: the arithmetic wraps, *)
(* as it does in the release build the README documents.                   *)
(***************************************************************************)
EXTENDS Integers

LOCAL INSTANCE SequencesExt

CONSTANTS
  Item,                  \* byte strings
  BigItem,               \* those longer than MAX_ELEMENT_BYTES
  MAX_LISTPACK_ENTRIES,
  MAX_CAPACITY,
  I64_MAX

(* Signed and unsigned integers of one width. *)
I64_MIN == -(I64_MAX + 1)
I64 == I64_MIN .. I64_MAX
as_usize(i) == i % (2 * (I64_MAX + 1))
as_i64(i) == ((i + I64_MAX + 1) % (2 * (I64_MAX + 1))) - (I64_MAX + 1)

(* A function on a list has a new list and an answer, or panics. *)
answer(l, n, items) == [list |-> l, n |-> n, items |-> items, panics |-> FALSE]
panic(l) == [list |-> l, n |-> 0, items |-> <<>>, panics |-> TRUE]

-----------------------------------------------------------------------------
(* list.rs *)

List == [enc : {"Small", "Large"}, items : Seq(Item)]
new == [enc |-> "Small", items |-> <<>>]
small(items) == [enc |-> "Small", items |-> items]
len(l) == Len(l.items)

needs_promote(l, x) ==
  l.enc = "Small" /\ (len(l) >= MAX_LISTPACK_ENTRIES \/ x \in BigItem)
promote(l) == [l EXCEPT !.enc = "Large"]
room_for(l, x) == IF needs_promote(l, x) THEN promote(l) ELSE l

push_front(l, x) == [room_for(l, x) EXCEPT !.items = <<x>> \o @]
push_back(l, x) == [room_for(l, x) EXCEPT !.items = Append(@, x)]

(* Room for n elements is made before the first is popped, however few     *)
(* there are; for too large an n that panics.                              *)
pop_front_n(l, n) ==
  LET k == Min({n, len(l)})
  IN IF n > MAX_CAPACITY THEN panic(l)
     ELSE answer([l EXCEPT !.items = SubSeq(@, k + 1, Len(@))], 0, SubSeq(l.items, 1, k))

(* Elements popped at the end are answered last one first. *)
pop_back_n(l, n) ==
  LET k == Min({n, len(l)})
      rest == len(l) - k
  IN IF n > MAX_CAPACITY THEN panic(l)
     ELSE answer([l EXCEPT !.items = SubSeq(@, 1, rest)], 0,
                 Reverse(SubSeq(l.items, rest + 1, len(l))))

(* The elements from start up to, and without, end. *)
range(l, start, end) ==
  LET e == Min({end, len(l)}) IN IF start >= e THEN <<>> ELSE SubSeq(l.items, start + 1, e)

(* insert_before and insert_after the first occurrence of the pivot. *)
linsert(l, before, pivot, x) ==
  LET p == SelectInSeq(l.items, LAMBDA y : y = pivot)
  IN IF p = 0 THEN answer(l, -1, <<>>)
     ELSE answer([room_for(l, x) EXCEPT !.items = InsertAt(@, IF before THEN p ELSE p + 1, x)],
                 len(l) + 1, <<>>)

(* The elements without the first limit occurrences of x: one pass with a  *)
(* counter.                                                                *)
filter(items, limit, x) ==
  FoldLeft(LAMBDA acc, y :
             IF y = x /\ acc.removed < limit THEN [acc EXCEPT !.removed = @ + 1]
                                             ELSE [acc EXCEPT !.kept = Append(@, y)],
           [removed |-> 0, kept |-> <<>>], items)

(* Counting from the tail is filtering the reversed list.  The result is   *)
(* stored in the small encoding however long it is.                        *)
lrem(l, count, x) ==
  LET f == CASE count > 0 -> filter(l.items, as_usize(count), x)
             [] count < 0 -> filter(Reverse(l.items), as_usize(as_i64(-count)), x)
             [] OTHER -> filter(l.items, len(l), x)
  IN answer(small(IF count < 0 THEN Reverse(f.kept) ELSE f.kept), f.removed, <<>>)

(* An end before the first element becomes the largest unsigned integer,   *)
(* and wraps to 0 when it is incremented.                                  *)
ltrim(l, start, stop) ==
  LET n == len(l)
      s == Max({0, IF start < 0 THEN n + start ELSE start})
      e == as_usize(Max({-1, Min({n - 1, IF stop < 0 THEN n + stop ELSE stop})}))
  IN answer(IF s > e \/ n = 0 THEN new ELSE small(range(l, s, as_usize(e + 1))), 0, <<>>)

-----------------------------------------------------------------------------
(* Functions of the store *)

index(l, i) == IF i < 0 THEN len(l) + i ELSE i

lindex(l, i) ==
  IF index(l, i) \in 0 .. len(l) - 1 THEN <<l.items[index(l, i) + 1]>> ELSE <<>>

(* Stop is incremented before it is cut to the length: the largest integer *)
(* wraps to the smallest.                                                  *)
lrange(l, start, stop) ==
  LET s == Max({0, index(l, start)})
      e == Max({0, Min({len(l), as_i64((IF stop < 0 THEN len(l) + stop ELSE stop) + 1)})})
  IN range(l, s, e)

(* An element is replaced in place: the encoding stays as it is. *)
in_range(l, i) == index(l, i) \in 0 .. len(l) - 1
lset(l, i, x) == [l EXCEPT !.items[index(l, i) + 1] = x]

=============================================================================
