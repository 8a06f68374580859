------------------------------ MODULE Strings -------------------------------
(***************************************************************************)
(* Strings that hold integers (src/src/storage/mod.rs): INCRBY parses the  *)
(* text, adds with a check for overflow, and stores the sum as text again. *)
(* The base of the numerals is the abstraction: the program's is 10.       *)
(***************************************************************************)
EXTENDS Integers, Sequences, SequencesExt

CONSTANTS BASE, I64_MAX

I64_MIN == -(I64_MAX + 1)
I64 == I64_MIN .. I64_MAX

Digit == 0 .. BASE - 1
MINUS == BASE
PLUS == BASE + 1
BLANK == BASE + 2
Char == 0 .. BASE + 2

(* A product in 64 bits: without overflow checks it wraps around. *)
wrapping(n) == ((n - I64_MIN) % (2 * (I64_MAX + 1))) + I64_MIN

(* i64::abs, which leaves the smallest integer as it is. *)
abs(n) == wrapping(IF n < 0 THEN -n ELSE n)

(* str::trim *)
trim(t) ==
  LET P == {p \in DOMAIN t : t[p] # BLANK}
  IN IF P = {} THEN <<>> ELSE SubSeq(t, Min(P), Max(P))

(* str::parse::<i64>, of a sign or none and at least one digit; the result *)
(* is a sequence of at most one number.                                    *)
parse(t) ==
  LET s == trim(t)
      signed == s # <<>> /\ s[1] \in {MINUS, PLUS}
      digits == IF signed THEN Tail(s) ELSE s
      read(n, d) == BASE * n + d
      n == FoldLeft(read, 0, digits) * (IF signed /\ s[1] = MINUS THEN -1 ELSE 1)
  IN IF digits = <<>> \/ ~(ToSet(digits) \subseteq Digit) THEN <<>>
     ELSE IF n \in I64 THEN <<n>> ELSE <<>>

(* i64::to_string *)
to_string(n) ==
  LET numeral[m \in 0 .. I64_MAX + 1] ==
        IF m < BASE THEN <<m>> ELSE Append(numeral[m \div BASE], m % BASE)
  IN IF n < 0 THEN <<MINUS>> \o numeral[-n] ELSE numeral[n]

(* incrby: the sum, or nothing where the text is no integer or the sum     *)
(* overflows.                                                              *)
incrby(t, by) ==
  LET n == parse(t)
  IN IF n # <<>> /\ n[1] + by \in I64 THEN <<n[1] + by>> ELSE <<>>

=============================================================================
