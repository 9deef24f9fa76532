---------------------------- MODULE FixedProofs -----------------------------
(***************************************************************************)
(* Lemmas about the fixed-point operators, for every SCALE and MAX that    *)
(* FixedAssumption allows, among them 10^6 and 2^127 - 1, and about        *)
(* recursion over the naturals.                                            *)
(***************************************************************************)
EXTENDS FixedPoint, WellFoundedInduction, TLAPS

(* Division with remainder, in the form the later steps use. *)
LEMMA DivMod ==
  ASSUME NEW n \in Nat, NEW d \in Nat, d > 0
  PROVE  /\ n \div d \in Nat
         /\ n % d \in 0 .. d - 1
         /\ n = (d * (n \div d)) + (n % d)
  BY SMT

LEMMA MultipleDiv ==
  ASSUME NEW k \in Int, NEW d \in Nat, d > 0
  PROVE  (k * d) % d = 0 /\ (k * d) \div d = k
  BY SMT

LEMMA MagnitudeType ==
  ASSUME NEW n \in Int
  PROVE  /\ Magnitude(n) \in Nat
         /\ Magnitude(n) = 0 <=> n = 0
  BY DEF Magnitude

(* The rounded quotient of two magnitudes is the nearest integer. *)
LEMMA RoundedQuotientNearest ==
  ASSUME NEW n \in Nat, NEW d \in Nat, d > 0
  PROVE  /\ RoundedQuotient(n, d) \in Nat
         /\ IsNearestEven(RoundedQuotient(n, d), n, d)
<1> DEFINE q == n \div d
           r == n % d
           twice == 2 * r
<1>1. q \in Nat /\ r \in 0 .. d - 1 /\ n = d * q + r
  BY DivMod
<1> HIDE DEF q, r
<1>2. RoundedQuotient(n, d)
        = IF twice > d \/ (twice = d /\ q % 2 = 1) THEN q + 1 ELSE q
  BY DEF RoundedQuotient, q, r
<1>3. q % 2 \in 0 .. 1 /\ (q % 2 = 1 => (q + 1) % 2 = 0)
  BY <1>1
<1>4. CASE twice > d \/ (twice = d /\ q % 2 = 1)
  <2>1. RoundedQuotient(n, d) = q + 1
    BY <1>2, <1>4
  <2>2. n - (q + 1) * d = r - d
    BY <1>1
  <2>3. Magnitude(n - (q + 1) * d) = d - r
    BY <1>1, <2>2 DEF Magnitude
  <2>4. IsNearestEven(q + 1, n, d)
    BY <1>1, <1>3, <1>4, <2>3 DEF IsNearestEven, Magnitude
  <2> QED
    BY <1>1, <2>1, <2>4
<1>5. CASE ~(twice > d \/ (twice = d /\ q % 2 = 1))
  <2>1. RoundedQuotient(n, d) = q
    BY <1>2, <1>5
  <2>2. n - q * d = r
    BY <1>1
  <2>3. Magnitude(n - q * d) = r
    BY <1>1, <2>2 DEF Magnitude
  <2>4. IsNearestEven(q, n, d)
    BY <1>1, <1>3, <1>5, <2>3 DEF IsNearestEven, Magnitude
  <2> QED
    BY <1>1, <2>1, <2>4
<1> QED
  BY <1>4, <1>5

(* Rounding a quotient never exceeds the dividend, and stays below it once *)
(* the divisor is at least two.                                            *)
LEMMA RoundedQuotientBound ==
  ASSUME NEW n \in Nat, NEW d \in Nat, d > 0
  PROVE  /\ RoundedQuotient(n, d) <= n
         /\ d >= 2 /\ n >= 1 => RoundedQuotient(n, d) < n
<1> DEFINE q == n \div d
           r == n % d
<1>1. q \in Nat /\ r \in 0 .. d - 1 /\ n = (d * q) + r
  BY DivMod
<1> HIDE DEF q, r
<1>2. RoundedQuotient(n, d)
        = IF 2 * r > d \/ (2 * r = d /\ q % 2 = 1) THEN q + 1 ELSE q
  BY DEF RoundedQuotient, q, r
<1>3. CASE d = 1
  BY <1>1, <1>2, <1>3
<1>4. CASE d >= 2
  <2>1. d * q >= 2 * q
    BY <1>1, <1>4
  <2>2. n >= 2 * q + r
    BY <1>1, <2>1
  <2> QED
    BY <1>1, <1>2, <1>4, <2>2
<1> QED
  BY <1>3, <1>4

(* The sign of the operands carries the nearest magnitude over.            *)
LEMMA NearestOfMagnitudes ==
  ASSUME NEW n \in Int, NEW d \in Int, d # 0, NEW q \in Nat,
         IsNearestEven(q, Magnitude(n), Magnitude(d))
  PROVE  IsNearestEven(IF (n < 0) # (d < 0) THEN -q ELSE q, n, d)
<1> DEFINE v == IF (n < 0) # (d < 0) THEN -q ELSE q
<1>1. Magnitude(n - v * d) = Magnitude(Magnitude(n) - q * Magnitude(d))
  BY DEF Magnitude
<1>2. v \in Int /\ v % 2 = q % 2
  OBVIOUS
<1>3. Magnitude(Magnitude(d)) = Magnitude(d)
  BY DEF Magnitude
<1> HIDE DEF v
<1>4. IsNearestEven(v, n, d)
  BY <1>1, <1>2, <1>3 DEF IsNearestEven
<1> QED
  BY <1>4 DEF v

(* div_round_half_even: the error cases, and what a value is. *)
LEMMA DivRoundHalfEvenResult ==
  ASSUME NEW n \in Int, NEW d \in Int, d # 0
  PROVE  LET r == DivRoundHalfEven(n, d)
             q == RoundedQuotient(Magnitude(n), Magnitude(d))
         IN  /\ q \in Nat
             /\ q > MAX => r = Err("Overflow")
             /\ q <= MAX =>
                  /\ r = Ok(IF (n < 0) # (d < 0) THEN -q ELSE q)
                  /\ IsNearestEven(r.val, n, d)
                  /\ r.val \in Range128
<1> DEFINE q == RoundedQuotient(Magnitude(n), Magnitude(d))
           v == IF (n < 0) # (d < 0) THEN -q ELSE q
<1>1. /\ Magnitude(n) \in Nat
      /\ Magnitude(d) \in Nat /\ Magnitude(d) > 0
  BY MagnitudeType
<1>2. q \in Nat /\ IsNearestEven(q, Magnitude(n), Magnitude(d))
  BY <1>1, RoundedQuotientNearest
<1> HIDE DEF q
<1>3. IsNearestEven(v, n, d)
  BY <1>2, NearestOfMagnitudes
<1>4. q <= MAX => v \in Range128
  BY <1>2, FixedAssumption DEF Range128, MIN
<1>5. DivRoundHalfEven(n, d) = IF q > MAX THEN Err("Overflow") ELSE Ok(v)
  BY DEF DivRoundHalfEven, q
<1>6. Ok(v).val = v
  BY DEF Ok
<1> HIDE DEF v
<1>7. q <= MAX => /\ DivRoundHalfEven(n, d) = Ok(v)
                  /\ IsNearestEven(DivRoundHalfEven(n, d).val, n, d)
                  /\ DivRoundHalfEven(n, d).val \in Range128
  BY <1>2, <1>3, <1>4, <1>5, <1>6, FixedAssumption
<1> QED
  BY <1>2, <1>5, <1>7, FixedAssumption DEF q, v

-----------------------------------------------------------------------------

(* try_mul fails exactly when the raw product leaves the range; otherwise  *)
(* it is the scaled product rounded half to even, with the product's sign. *)
LEMMA TryMulResult ==
  ASSUME NEW x \in Range128, NEW y \in Range128
  PROVE  /\ x * y \notin Range128 => TryMul(x, y) = Err("Overflow")
         /\ x * y \in Range128 =>
              \E v \in Range128 : /\ TryMul(x, y) = Ok(v)
                                  /\ IsNearestEven(v, x * y, SCALE)
                                  /\ x >= 0 /\ y >= 0 => v >= 0
<1> DEFINE p == x * y
           q == RoundedQuotient(Magnitude(p), Magnitude(SCALE))
           v == IF (p < 0) # (SCALE < 0) THEN -q ELSE q
<1>1. x \in Int /\ y \in Int /\ p \in Int /\ MAX \in Nat /\ SCALE \in Nat /\ SCALE >= 2
  BY FixedAssumption DEF Range128, MIN
<1>2. x >= 0 /\ y >= 0 => p >= 0
  BY <1>1
<1> HIDE DEF p
<1>3. CASE p \notin Range128
  <2>1. Checked(p) = Err("Overflow") /\ ~Checked(p).ok
    BY <1>3 DEF Checked, Err
  <2> QED
    BY <1>3, <2>1 DEF TryMul, AndThen, p
<1>4. CASE p \in Range128
  <2>1. Checked(p).ok /\ Checked(p).val = p
    BY <1>4 DEF Checked, Ok
  <2>2. TryMul(x, y) = DivRoundHalfEven(p, SCALE)
    BY <2>1 DEF TryMul, AndThen, p
  <2>3. Magnitude(SCALE) = SCALE /\ Magnitude(p) \in Nat /\ Magnitude(p) <= MAX + 1
    BY <1>1, <1>4 DEF Magnitude, Range128, MIN
  <2>4. q \in Nat /\ q <= Magnitude(p) /\ (Magnitude(p) >= 1 => q < Magnitude(p))
    BY <1>1, <2>3, RoundedQuotientBound, RoundedQuotientNearest
  <2>5. q <= MAX
    BY <1>1, <2>3, <2>4
  <2>6. /\ DivRoundHalfEven(p, SCALE) = Ok(v)
        /\ IsNearestEven(DivRoundHalfEven(p, SCALE).val, p, SCALE)
        /\ DivRoundHalfEven(p, SCALE).val \in Range128
    BY <1>1, <2>5, DivRoundHalfEvenResult
  <2>7. DivRoundHalfEven(p, SCALE).val = v
    BY <2>6 DEF Ok
  <2>8. p >= 0 => v >= 0
    BY <1>1, <2>4
  <2> HIDE DEF v
  <2>9. /\ v \in Range128 /\ TryMul(x, y) = Ok(v)
        /\ IsNearestEven(v, p, SCALE)
        /\ x >= 0 /\ y >= 0 => v >= 0
    BY <1>2, <2>2, <2>6, <2>7, <2>8
  <2> QED
    BY <1>4, <2>9 DEF p
<1> QED
  BY <1>3, <1>4

(* try_div fails exactly on a zero divisor or when the scaled numerator    *)
(* leaves the range: the range test on the quotient never rejects, because *)
(* no multiple of SCALE is MAX + 1.                                        *)
LEMMA TryDivResult ==
  ASSUME NEW x \in Range128, NEW y \in Range128
  PROVE  /\ y = 0 => TryDiv(x, y) = Err("DivisionByZero")
         /\ y # 0 /\ x * SCALE \notin Range128 => TryDiv(x, y) = Err("Overflow")
         /\ y # 0 /\ x * SCALE \in Range128 =>
              \E v \in Range128 : /\ TryDiv(x, y) = Ok(v)
                                  /\ IsNearestEven(v, x * SCALE, y)
<1> DEFINE p == x * SCALE
           q == RoundedQuotient(Magnitude(p), Magnitude(y))
           v == IF (p < 0) # (y < 0) THEN -q ELSE q
<1>1. x \in Int /\ y \in Int /\ p \in Int /\ MAX \in Nat /\ SCALE \in Nat /\ SCALE >= 2
  BY FixedAssumption DEF Range128, MIN
<1>2. p # -(MAX + 1)
  <2> SUFFICES ASSUME p = -(MAX + 1) PROVE FALSE
    OBVIOUS
  <2>1. MAX + 1 = (-x) * SCALE /\ -x \in Int /\ SCALE > 0
    BY <1>1
  <2>2. ((-x) * SCALE) % SCALE = 0
    BY <1>1, <2>1, MultipleDiv
  <2>3. (MAX + 1) % SCALE = 0
    BY <2>1, <2>2
  <2> QED
    BY <2>3, FixedAssumption
<1> HIDE DEF p
<1>3. CASE y = 0
  BY <1>3 DEF TryDiv
<1>4. CASE y # 0 /\ p \notin Range128
  <2>1. Checked(p) = Err("Overflow") /\ ~Checked(p).ok
    BY <1>4 DEF Checked, Err
  <2> QED
    BY <1>4, <2>1 DEF TryDiv, AndThen, p
<1>5. CASE y # 0 /\ p \in Range128
  <2>1. Checked(p).ok /\ Checked(p).val = p
    BY <1>5 DEF Checked, Ok
  <2>2. TryDiv(x, y) = DivRoundHalfEven(p, y)
    BY <1>5, <2>1 DEF TryDiv, AndThen, p
  <2>3. Magnitude(y) \in Nat /\ Magnitude(y) > 0 /\ Magnitude(p) \in Nat /\ Magnitude(p) <= MAX
    BY <1>1, <1>2, <1>5 DEF Magnitude, Range128, MIN
  <2>4. q \in Nat /\ q <= MAX
    BY <1>1, <2>3, RoundedQuotientBound, RoundedQuotientNearest
  <2>5. /\ DivRoundHalfEven(p, y) = Ok(v)
        /\ IsNearestEven(DivRoundHalfEven(p, y).val, p, y)
        /\ DivRoundHalfEven(p, y).val \in Range128
    BY <1>1, <1>5, <2>4, DivRoundHalfEvenResult
  <2>6. DivRoundHalfEven(p, y).val = v
    BY <2>5 DEF Ok
  <2> HIDE DEF v
  <2>7. v \in Range128 /\ TryDiv(x, y) = Ok(v) /\ IsNearestEven(v, p, y)
    BY <2>2, <2>5, <2>6
  <2> QED
    BY <1>5, <2>7 DEF p
<1> QED
  BY <1>3, <1>4, <1>5 DEF p

(* round_to_integer stays in range although it multiplies unchecked: both  *)
(* ends of the range are less than half a unit past a whole number.        *)
LEMMA RoundToIntegerResult ==
  ASSUME NEW x \in Range128
  PROVE  /\ RoundToInteger(x) \in Range128
         /\ RoundToInteger(x) % SCALE = 0
         /\ IsNearestEven(RoundToInteger(x) \div SCALE, x, SCALE)
<1> DEFINE m == Magnitude(x)
           a == RoundedQuotient(m, SCALE)
           v == IF x < 0 THEN -a ELSE a
           Q == MAX \div SCALE
           R == MAX % SCALE
           q == m \div SCALE
           r == m % SCALE
<1>1. x \in Int /\ MAX \in Nat /\ SCALE \in Nat /\ SCALE >= 2 /\ m \in Nat
  BY FixedAssumption DEF Range128, MIN, Magnitude
<1>2. q \in Nat /\ r \in 0 .. SCALE - 1 /\ m = (SCALE * q) + r
  <2> HIDE DEF m
  <2> QED
    BY <1>1, DivMod
<1>3. Q \in Nat /\ R \in 0 .. SCALE - 1 /\ MAX = (SCALE * Q) + R /\ 2 * R < SCALE
  BY <1>1, DivMod, FixedAssumption
<1>4. a \in Nat /\ IsNearestEven(a, m, SCALE)
  BY <1>1, RoundedQuotientNearest
<1>5. RoundToInteger(x) = v * SCALE
  <2>1. q % 2 # 0 <=> q % 2 = 1
    BY <1>2
  <2> QED
    BY <1>1, <2>1 DEF RoundToInteger, RoundedQuotient
<1>6. a = IF 2 * r > SCALE \/ (2 * r = SCALE /\ q % 2 = 1) THEN q + 1 ELSE q
  BY DEF RoundedQuotient
<1>7. m = MAX + 1 => 2 * r < SCALE
  BY FixedAssumption
<1>8. m <= MAX + 1 /\ (m = MAX + 1 => x = MIN)
  BY <1>1 DEF Magnitude, Range128, MIN
<1> HIDE DEF m, a, Q, R, q, r
<1>9. a * SCALE <= m \/ a * SCALE <= MAX
  <2>1. CASE a = q
    BY <1>1, <1>2, <2>1
  <2>2. CASE a # q
    <3>1. a = q + 1 /\ 2 * r >= SCALE
      BY <1>1, <1>2, <1>6, <2>2
    <3>2. m <= MAX
      BY <1>1, <1>2, <1>7, <1>8, <3>1
    <3>3. q # Q
      BY <1>1, <1>2, <1>3, <3>1, <3>2
    <3>4. q < Q
      <4> SUFFICES ASSUME q > Q PROVE FALSE
        BY <1>2, <1>3, <3>3
      <4>1. q >= Q + 1
        BY <1>2, <1>3
      <4>2. SCALE * q >= SCALE * (Q + 1)
        BY <1>1, <1>2, <1>3, <4>1
      <4> QED
        BY <1>1, <1>2, <1>3, <3>2, <4>2
    <3>5. SCALE * (q + 1) <= SCALE * Q
      BY <1>1, <1>2, <1>3, <3>4
    <3> QED
      BY <1>1, <1>2, <1>3, <3>1, <3>5
  <2> QED
    BY <2>1, <2>2
<1>10. v * SCALE \in Range128
  <2>1. CASE x < 0
    BY <1>1, <1>4, <1>8, <1>9, <2>1 DEF Range128, MIN
  <2>2. CASE x >= 0
    <3>1. m <= MAX
      BY <1>1, <1>8, <2>2 DEF MIN
    <3> QED
      BY <1>1, <1>4, <1>9, <2>2, <3>1 DEF Range128, MIN
  <2> QED
    BY <1>1, <2>1, <2>2
<1>11. IsNearestEven(v, x, SCALE)
  <2>1. Magnitude(SCALE) = SCALE /\ ~(SCALE < 0) /\ SCALE \in Int /\ SCALE # 0
    BY <1>1 DEF Magnitude
  <2>2. IsNearestEven(IF (x < 0) # (SCALE < 0) THEN -a ELSE a, x, SCALE)
    BY <1>1, <1>4, <2>1, NearestOfMagnitudes DEF m
  <2> QED
    BY <2>1, <2>2
<1>12. v \in Int
  BY <1>4
<1> HIDE DEF v
<1>13. (v * SCALE) % SCALE = 0 /\ (v * SCALE) \div SCALE = v
  BY <1>1, <1>12, MultipleDiv
<1> QED
  BY <1>5, <1>10, <1>11, <1>13

-----------------------------------------------------------------------------
(* Recursive functions.                                                    *)

LEMMA LeastNatural ==
  ASSUME NEW U \in SUBSET Nat, U # {}
  PROVE  \E k \in U : \A m \in U : k <= m
<1> DEFINE R == OpToRel(<, Nat)
<1>1. IsWellFoundedOn(R, Nat)
  BY NatLessThanWellFounded
<1>2. \A m, n \in Nat : m < n => <<m, n>> \in R
  BY DEF OpToRel
<1> HIDE DEF R
<1>3. PICK k \in U : \A m \in U : <<m, k>> \notin R
  BY <1>1, WFMin
<1>4. \A m \in U : ~(m < k)
  BY <1>2, <1>3
<1> QED BY <1>4

LEMMA SetInduction ==
  ASSUME NEW S \in SUBSET Nat, 0 \in S, \A n \in S : n + 1 \in S
  PROVE  S = Nat
<1> SUFFICES ASSUME Nat \ S # {} PROVE FALSE
  OBVIOUS
<1>1. PICK n \in Nat \ S : \A m \in Nat \ S : n <= m
  BY LeastNatural
<1>2. n - 1 \in Nat /\ n - 1 \in S
  BY <1>1
<1> QED BY <1>2

(* A function is defined by its value at zero and a step to the next one:  *)
(* the step is a function too, so the lemma serves every recursion here.   *)
Unfolds(f, V, base, step) ==
  f \in [Nat -> V] /\ f[0] = base /\ \A n \in Nat : f[n + 1] = step[n][f[n]]

LEMMA PrimitiveRecursion ==
  ASSUME NEW V, NEW base, NEW step, base \in V, step \in [Nat -> [V -> V]]
  PROVE  \E f : Unfolds(f, V, base, step)
<1> DEFINE Runs(g, m) == /\ g \in [Nat -> V] /\ g[0] = base
                         /\ \A n \in Nat : n < m => g[n + 1] = step[n][g[n]]
           Run(m) == CHOOSE g : Runs(g, m)
           limit == [m \in Nat |-> Run(m)[m]]
<1>1. ASSUME NEW m \in Nat PROVE \E g : Runs(g, m)
  <2> DEFINE S == {k \in Nat : \E g : Runs(g, k)}
  <2>1. 0 \in S
    <3>1. Runs([n \in Nat |-> base], 0)
      OBVIOUS
    <3> QED BY <3>1
  <2>2. ASSUME NEW k \in S PROVE k + 1 \in S
    <3>1. PICK g : Runs(g, k)
      OBVIOUS
    <3> DEFINE last == step[k][g[k]]
               next == [n \in Nat |-> IF n <= k THEN g[n] ELSE last]
    <3>2. last \in V
      BY <3>1
    <3>3. next \in [Nat -> V] /\ \A n \in Nat : next[n] = IF n <= k THEN g[n] ELSE last
      BY <3>1, <3>2
    <3> HIDE DEF next
    <3>4. ASSUME NEW n \in Nat, n < k + 1 PROVE next[n + 1] = step[n][next[n]]
      <4>1. n <= k /\ next[n] = g[n] /\ n + 1 \in Nat
        BY <3>3, <3>4
      <4>2. CASE n < k
        BY <3>1, <3>3, <4>1, <4>2
      <4>3. CASE n = k
        BY <3>3, <4>1, <4>3
      <4> QED BY <4>1, <4>2, <4>3
    <3>5. next[0] = base
      BY <3>1, <3>3
    <3>6. Runs(next, k + 1)
      BY <3>3, <3>4, <3>5
    <3> QED BY <3>6
  <2>3. S = Nat
    BY <2>1, <2>2, SetInduction
  <2> QED BY <2>3
<1>2. ASSUME NEW m \in Nat, NEW g, NEW h, Runs(g, m), Runs(h, m + 1)
      PROVE  g[m] = h[m]
  <2> DEFINE S == {n \in Nat : n <= m => g[n] = h[n]}
  <2>1. 0 \in S
    BY <1>2
  <2>2. ASSUME NEW k \in S PROVE k + 1 \in S
    <3> SUFFICES ASSUME k + 1 <= m PROVE g[k + 1] = h[k + 1]
      OBVIOUS
    <3>1. k \in Nat /\ k < m /\ k < m + 1 /\ g[k] = h[k]
      OBVIOUS
    <3> QED BY <1>2, <3>1
  <2>3. S = Nat
    BY <2>1, <2>2, SetInduction
  <2> QED BY <2>3
<1>3. ASSUME NEW m \in Nat PROVE Runs(Run(m), m)
  BY <1>1
<1> HIDE DEF Run
<1>4. limit \in [Nat -> V]
  BY <1>3
<1>5. limit[0] = base
  BY <1>3
<1>6. ASSUME NEW n \in Nat PROVE limit[n + 1] = step[n][limit[n]]
  <2>1. Runs(Run(n), n) /\ Runs(Run(n + 1), n + 1)
    BY <1>3
  <2>2. Run(n)[n] = Run(n + 1)[n]
    BY <1>2, <2>1
  <2>3. Run(n + 1)[n + 1] = step[n][Run(n + 1)[n]]
    BY <2>1
  <2> QED BY <2>2, <2>3
<1> QED BY <1>4, <1>5, <1>6 DEF Unfolds

=============================================================================
