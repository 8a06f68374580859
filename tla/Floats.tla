------------------------------- MODULE Floats -------------------------------
(***************************************************************************)
(* Floating-point numbers by their bit patterns: a sign bit of weight HALF *)
(* and a magnitude, of which the last but one is the infinity and the last *)
(* is NaN.  Sums are exact up to the infinity.                             *)
(***************************************************************************)
EXTENDS Integers

LOCAL INSTANCE FiniteSetsExt

CONSTANT HALF            \* the weight of the sign bit

Score == 0 .. 2 * HALF - 1
negative(x) == x >= HALF
magnitude(x) == x % HALF
INFINITY == HALF - 2
is_nan(x) == magnitude(x) = HALF - 1
is_finite(x) == magnitude(x) < INFINITY
signed(x) == IF negative(x) THEN -magnitude(x) ELSE magnitude(x)

(* Comparisons of floats: none holds of NaN, and the two zeros are equal. *)
flt(x, y) == ~is_nan(x) /\ ~is_nan(y) /\ signed(x) < signed(y)
feq(x, y) == ~is_nan(x) /\ ~is_nan(y) /\ signed(x) = signed(y)
fle(x, y) == flt(x, y) \/ feq(x, y)

bits(neg, mag) == IF neg THEN HALF + mag ELSE mag

(* The sum of two floats.  A NaN may come out with either sign. *)
fadd(x, y) ==
  LET sum == signed(x) + signed(y)
      inf == CHOOSE z \in {x, y} : magnitude(z) = INFINITY
  IN IF is_nan(x) \/ is_nan(y) THEN {bits(FALSE, HALF - 1), bits(TRUE, HALF - 1)}
     ELSE IF ~is_finite(x) /\ ~is_finite(y) /\ x # y
          THEN {bits(FALSE, HALF - 1), bits(TRUE, HALF - 1)}
     ELSE IF ~is_finite(x) \/ ~is_finite(y) THEN {inf}
     ELSE IF sum = 0 THEN {bits(negative(x) /\ negative(y), 0)}
     ELSE {bits(sum < 0, Min({INFINITY, IF sum < 0 THEN -sum ELSE sum}))}

=============================================================================
