----------------------------- MODULE Arithmetic -----------------------------
(***************************************************************************)
(* A long computation at the bundle scale: an accumulator to which the     *)
(* operations of Fixed are applied one after another, as an expression of  *)
(* rules.json does.  `call` remembers the last operation, its operands and *)
(* its result, so that a property can compare them with exact arithmetic.  *)
(* The first error ends the computation (interpreter contract, section 3). *)
(***************************************************************************)
EXTENDS FixedPoint

CONSTANT Operands   (* right operands tried; a bound, Range128 in the code *)

ASSUME OperandsAssumption == Operands \subseteq Range128

VARIABLES
  acc,    (* the value reached so far, a scaled integer *)
  call    (* the last call made, or NoCall              *)

arithmeticVars == <<acc, call>>

BinaryOps == {"add", "sub", "mul", "div"}
UnaryOps  == {"neg", "abs", "round"}

NoCall == [op |-> "none", x |-> 0, y |-> 0, res |-> Ok(0)]

Apply(op, x, y) ==
  CASE op = "add"   -> TryAdd(x, y)
    [] op = "sub"   -> TrySub(x, y)
    [] op = "mul"   -> TryMul(x, y)
    [] op = "div"   -> TryDiv(x, y)
    [] op = "neg"   -> TryNeg(x)
    [] op = "abs"   -> TryAbs(x)
    [] op = "round" -> Ok(RoundToInteger(x))

ArithmeticInit ==
  /\ acc \in Range128
  /\ call = NoCall

Perform(op, y) ==
  /\ call.res.ok
  /\ LET res == Apply(op, acc, y)
     IN  /\ call' = [op |-> op, x |-> acc, y |-> y, res |-> res]
         /\ acc' = IF res.ok THEN res.val ELSE acc

Binary(op) == \E y \in Operands : Perform(op, y)

Unary(op) == Perform(op, 0)

ArithmeticNext ==
  \/ \E op \in BinaryOps : Binary(op)
  \/ \E op \in UnaryOps : Unary(op)

ArithmeticSpec == ArithmeticInit /\ [][ArithmeticNext]_arithmeticVars

-----------------------------------------------------------------------------

Results == [ok : {TRUE}, val : Range128] \cup [ok : {FALSE}, err : ArithmeticErrors]

(***************************************************************************)
(* Every value a computation reaches fits the i128, including the result   *)
(* of round_to_integer, whose last multiplication (fixed.rs:129) and whose *)
(* negations in div_round_half_even (fixed.rs:158) are unchecked.          *)
(***************************************************************************)
ArithmeticTypeOK ==
  /\ acc \in Range128
  /\ call \in [op : {"none"} \cup BinaryOps \cup UnaryOps,
               x : Range128, y : Range128, res : Results]

(* A call of mul, div or round returned the nearest rational, ties even. *)
Rounded(c) ==
  c.res.ok =>
    /\ c.op = "mul" => IsNearestEven(c.res.val, c.x * c.y, SCALE)
    /\ c.op = "div" => IsNearestEven(c.res.val, c.x * SCALE, c.y)
    /\ c.op = "round" =>
         /\ c.res.val % SCALE = 0
         /\ IsNearestEven(c.res.val \div SCALE, c.x, SCALE)

(***************************************************************************)
(* Multiplication, division and rounding to a whole number return the      *)
(* exact rational rounded half to even, for both signs of both operands    *)
(* (fixed.rs:3-6, the rounding rule that is part of the bundle identity).  *)
(***************************************************************************)
RoundsHalfToEven == Rounded(call)

(***************************************************************************)
(* fixed.rs:79-80 and 91-92: a multiplication or a division returns        *)
(* Overflow when its result leaves the range, so not when the exact result *)
(* has a rounding within it.                                               *)
(***************************************************************************)
ResultsThatFitAreReturned ==
  (call.op \in {"mul", "div"} /\ call.res = Err("Overflow")) =>
    LET d == IF call.op = "mul" THEN SCALE ELSE call.y
        n == call.x * (IF call.op = "mul" THEN call.y ELSE SCALE)
    IN  ~\E r \in Range128 : IsNearestEven(r, n, d)

=============================================================================
