----------------------------- MODULE FixedPoint -----------------------------
(***************************************************************************)
(* Fixed-point decimal arithmetic (kaimeter-interpreter, src/fixed.rs).    *)
(* The plain evaluator has its own src/fixed.rs in kaimeter-rules, with    *)
(* the same bodies but neither try_abs nor round_to_integer.               *)
(*                                                                         *)
(* A Fixed is an integer number of 1/SCALE units held in an i128.  Every   *)
(* operation returns a result record: Ok(v) or Err(e), Rust's Result.      *)
(* The width of the integer is the constant MAX (i128::MAX in the code),   *)
(* so a run can exhaust every operand of a narrow instance.                *)
(***************************************************************************)
EXTENDS Integers

CONSTANTS
  SCALE,   (* units per one, 10^6 in the code    *)
  MAX      (* largest representable scaled value *)

MIN == -MAX - 1

Range128 == MIN .. MAX

(***************************************************************************)
(* What the arithmetic relies on, all true of 10^6 and 2^127 - 1.  The     *)
(* last two conjuncts say that the ends of the range lie less than half a  *)
(* unit beyond a whole number: they keep round_to_integer inside the range *)
(* (the source multiplies there without a check).                          *)
(***************************************************************************)
ASSUME FixedAssumption ==
  /\ SCALE \in Nat /\ SCALE >= 2 /\ SCALE % 2 = 0
  /\ MAX \in Nat /\ SCALE <= MAX
  /\ 2 * (MAX % SCALE) < SCALE
  /\ (MAX + 1) % SCALE # 0 /\ 2 * ((MAX + 1) % SCALE) < SCALE

-----------------------------------------------------------------------------

Ok(v)  == [ok |-> TRUE, val |-> v]
Err(e) == [ok |-> FALSE, err |-> e]

(* The `?` operator: carry on with the value, or return the error. *)
AndThen(r, F(_)) == IF r.ok THEN F(r.val) ELSE r

ArithmeticErrors == {"Overflow", "DivisionByZero"}

(* i128::checked_*: the exact integer, or nothing when it does not fit. *)
Checked(n) == IF n \in Range128 THEN Ok(n) ELSE Err("Overflow")

Magnitude(n) == IF n < 0 THEN -n ELSE n

TryAdd(x, y) == Checked(x + y)

TrySub(x, y) == Checked(x - y)

TryNeg(x) == Checked(-x)

TryAbs(x) == Checked(Magnitude(x))

(* Mutant: ties go up. *)
RoundedHalfUp(n, d) ==
  IF 2 * (n % d) >= d THEN (n \div d) + 1 ELSE n \div d

(* The magnitude of the rounded quotient n / d, for n >= 0 and d > 0. *)
RoundedQuotient(n, d) ==
  LET q == n \div d
      twice == 2 * (n % d)
  IN  IF twice > d \/ (twice = d /\ q % 2 = 1) THEN q + 1 ELSE q

(* Rounds the magnitudes, then restores the sign. *)
DivRoundHalfEven(n, d) ==
  IF d = 0
    THEN Err("DivisionByZero")
    ELSE LET q == RoundedQuotient(Magnitude(n), Magnitude(d))
         IN  IF q > MAX THEN Err("Overflow")
             ELSE Ok(IF (n < 0) # (d < 0) THEN -q ELSE q)

(* The raw product is checked before it is scaled back down. *)
TryMul(x, y) ==
  AndThen(Checked(x * y), LAMBDA p : DivRoundHalfEven(p, SCALE))

(* The numerator is checked after it is scaled up. *)
TryDiv(x, y) ==
  IF y = 0
    THEN Err("DivisionByZero")
    ELSE AndThen(Checked(x * SCALE), LAMBDA n : DivRoundHalfEven(n, y))

(* Mutant: rounds away from zero. *)
RoundAwayFromZero(x) ==
  LET up == (Magnitude(x) + SCALE - 1) \div SCALE
  IN  (IF x < 0 THEN -up ELSE up) * SCALE

(* Rust's `/` and `%` on i128 truncate towards zero.  The product of the   *)
(* last line is not checked by the source.                                 *)
RoundToInteger(x) ==
  LET magnitude == Magnitude(x) % SCALE
      quotient  == Magnitude(x) \div SCALE
      up == 2 * magnitude > SCALE \/ (2 * magnitude = SCALE /\ quotient % 2 # 0)
      adjusted == IF up THEN quotient + 1 ELSE quotient
  IN  (IF x < 0 THEN -adjusted ELSE adjusted) * SCALE

-----------------------------------------------------------------------------
(***************************************************************************)
(* The reference the rounding is held to: r is the integer nearest to the  *)
(* rational n / d, and the even one of two equally near.                   *)
(***************************************************************************)
IsNearestEven(r, n, d) ==
  LET gap == 2 * Magnitude(n - r * d)
  IN  gap < Magnitude(d) \/ (gap = Magnitude(d) /\ r % 2 = 0)

=============================================================================
