-------------------------- MODULE ArithmeticProofs --------------------------
(***************************************************************************)
(* The properties of Arithmetic, for every scale and width.  The invariant *)
(* ArithmeticTypeOK is inductive by itself: what the proof needs is what every       *)
(* operation returns on two values of the range (CallResult).              *)
(***************************************************************************)
EXTENDS Arithmetic, FixedProofs

LEMMA RangeIsInt == Range128 \subseteq Int /\ 0 \in Range128
  BY FixedAssumption DEF Range128, MIN

LEMMA OkErr ==
  /\ \A v \in Range128 : Ok(v) \in Results /\ Ok(v).ok /\ Ok(v).val = v
  /\ \A e \in ArithmeticErrors : Err(e) \in Results /\ ~Err(e).ok
  BY DEF Ok, Err, Results

LEMMA CheckedResult ==
  ASSUME NEW k \in Int
  PROVE  Checked(k) \in Results
  BY OkErr DEF Checked, ArithmeticErrors

(* What one call returns. *)
LEMMA CallResult ==
  ASSUME NEW op \in BinaryOps \cup UnaryOps, NEW x \in Range128, NEW y \in Range128,
         NEW c, c = [op |-> op, x |-> x, y |-> y, res |-> Apply(op, x, y)]
  PROVE  c.res \in Results /\ Rounded(c)
<1>1. c.op = op /\ c.x = x /\ c.y = y /\ c.res = Apply(op, x, y)
  OBVIOUS
<1>2. x \in Int /\ y \in Int /\ Magnitude(x) \in Int
  BY RangeIsInt, MagnitudeType
<1>3. CASE op \in {"add", "sub", "neg", "abs"}
  <2>1. \E k \in Int : c.res = Checked(k)
    BY <1>1, <1>2, <1>3 DEF Apply, TryAdd, TrySub, TryNeg, TryAbs
  <2> QED
    BY <1>1, <1>3, <2>1, CheckedResult DEF Rounded
<1>4. CASE op = "mul"
  <2>1. c.res = TryMul(x, y)
    BY <1>1, <1>4 DEF Apply
  <2>2. CASE x * y \notin Range128
    BY <1>1, <1>4, <2>1, <2>2, TryMulResult, OkErr DEF Rounded, ArithmeticErrors
  <2>3. CASE x * y \in Range128
    <3>1. PICK v \in Range128 : TryMul(x, y) = Ok(v) /\ IsNearestEven(v, x * y, SCALE)
      BY <2>3, TryMulResult
    <3> QED
      BY <1>1, <1>4, <2>1, <3>1, OkErr DEF Rounded
  <2> QED
    BY <2>2, <2>3
<1>5. CASE op = "div"
  <2>1. c.res = TryDiv(x, y)
    BY <1>1, <1>5 DEF Apply
  <2>2. CASE y = 0 \/ x * SCALE \notin Range128
    BY <1>1, <1>5, <2>1, <2>2, TryDivResult, OkErr DEF Rounded, ArithmeticErrors
  <2>3. CASE y # 0 /\ x * SCALE \in Range128
    <3>1. PICK v \in Range128 : TryDiv(x, y) = Ok(v) /\ IsNearestEven(v, x * SCALE, y)
      BY <2>3, TryDivResult
    <3> QED
      BY <1>1, <1>5, <2>1, <3>1, OkErr DEF Rounded
  <2> QED
    BY <2>2, <2>3
<1>6. CASE op = "round"
  <2>1. c.res = Ok(RoundToInteger(x))
    BY <1>1, <1>6 DEF Apply
  <2>2. c.res \in Results /\ c.res.ok /\ c.res.val = RoundToInteger(x)
    BY <2>1, RoundToIntegerResult, OkErr
  <2> QED
    BY <1>1, <1>6, <2>1, <2>2, RoundToIntegerResult DEF Rounded
<1> QED
  BY <1>3, <1>4, <1>5, <1>6 DEF BinaryOps, UnaryOps

-----------------------------------------------------------------------------

(* ArithmeticTypeOK with the property of the last call. *)
CallInv == ArithmeticTypeOK /\ Rounded(call)

LEMMA InitCallInv == ArithmeticInit => CallInv
<1> SUFFICES ASSUME ArithmeticInit PROVE CallInv
  OBVIOUS
<1>1. /\ call.op = "none" /\ call.x = 0 /\ call.y = 0 /\ call.res = Ok(0)
      /\ acc \in Range128
  BY DEF ArithmeticInit, NoCall
<1>2. ArithmeticTypeOK
  BY OkErr, RangeIsInt DEF ArithmeticInit, NoCall, ArithmeticTypeOK
<1> QED
  BY <1>1, <1>2 DEF CallInv, Rounded

LEMMA PerformCallInv ==
  ASSUME CallInv, NEW op \in BinaryOps \cup UnaryOps, NEW y \in Range128, Perform(op, y)
  PROVE  CallInv'
<1>1. acc \in Range128
  BY DEF CallInv, ArithmeticTypeOK
<1>2. /\ call' = [op |-> op, x |-> acc, y |-> y, res |-> Apply(op, acc, y)]
      /\ acc' = IF call'.res.ok THEN call'.res.val ELSE acc
  BY DEF Perform
<1>3. call'.res \in Results /\ Rounded(call')
  BY <1>1, <1>2, CallResult
<1>4. call'.res.ok => call'.res.val \in Range128
  BY <1>3 DEF Results
<1>5. ArithmeticTypeOK'
  BY <1>1, <1>2, <1>3, <1>4 DEF ArithmeticTypeOK
<1>6. Rounded(call)'
  BY <1>3 DEF Rounded
<1> QED
  BY <1>5, <1>6 DEF CallInv

LEMMA StepCallInv == CallInv /\ [ArithmeticNext]_arithmeticVars => CallInv'
<1> SUFFICES ASSUME CallInv, [ArithmeticNext]_arithmeticVars PROVE CallInv'
  OBVIOUS
<1>1. ASSUME NEW op \in BinaryOps, Binary(op) PROVE CallInv'
  BY <1>1, OperandsAssumption, PerformCallInv DEF Binary
<1>2. ASSUME NEW op \in UnaryOps, Unary(op) PROVE CallInv'
  BY <1>2, RangeIsInt, PerformCallInv DEF Unary
<1>3. CASE UNCHANGED arithmeticVars
  BY <1>3 DEF arithmeticVars, CallInv, ArithmeticTypeOK, Rounded
<1> QED
  BY <1>1, <1>2, <1>3 DEF ArithmeticNext

LEMMA CallInvariant == ArithmeticSpec => []CallInv
<1> QED
  BY InitCallInv, StepCallInv, PTL DEF ArithmeticSpec

(***************************************************************************)
(* Every value of every computation fits the integer, for every width and  *)
(* scale: no unchecked operation of the arithmetic overflows.              *)
(***************************************************************************)
THEOREM ArithmeticTypeCorrect == ArithmeticSpec => []ArithmeticTypeOK
<1>1. CallInv => ArithmeticTypeOK
  BY DEF CallInv
<1> QED
  BY <1>1, CallInvariant, PTL

(***************************************************************************)
(* Products, quotients and whole-number rounding are the exact rational    *)
(* rounded half to even.                                                   *)
(***************************************************************************)
THEOREM ArithmeticRounds == ArithmeticSpec => []RoundsHalfToEven
<1>1. CallInv => RoundsHalfToEven
  BY DEF CallInv, RoundsHalfToEven
<1> QED
  BY <1>1, CallInvariant, PTL

=============================================================================
