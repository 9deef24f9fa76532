--------------------------- MODULE DefaultsProofs ---------------------------
(***************************************************************************)
(* Theorems about Decimal and Defaults, for texts of every length and      *)
(* every width and scale that the assumptions allow.                       *)
(***************************************************************************)
EXTENDS Defaults, FixedProofs, SequenceTheorems, TLAPS

-----------------------------------------------------------------------------
(* Numerals.                                                               *)

(* The recursion of TenTo is well defined. *)
LEMMA PowersOfTen ==
  /\ TenTo[0] = 1
  /\ \A n \in Nat : TenTo[n] \in Nat \ {0} /\ TenTo[n + 1] = 10 * TenTo[n]
<1> DEFINE P == Nat \ {0}
           step == [n \in Nat |-> [v \in P |-> 10 * v]]
<1>1. PICK f : Unfolds(f, P, 1, step)
  <2>1. 1 \in P /\ step \in [Nat -> [P -> P]]
    OBVIOUS
  <2> HIDE DEF step, P
  <2> QED BY <2>1, PrimitiveRecursion, Zenon
<1>2. f \in [Nat -> P] /\ f[0] = 1 /\ \A n \in Nat : f[n + 1] = 10 * f[n]
  BY <1>1 DEF Unfolds
<1>3. \A n \in Nat : f[n] = IF n = 0 THEN 1 ELSE 10 * f[n - 1]
  <2> SUFFICES ASSUME NEW n \in Nat, n # 0 PROVE f[n] = 10 * f[n - 1]
    BY <1>2
  <2>1. n - 1 \in Nat /\ (n - 1) + 1 = n
    OBVIOUS
  <2> QED BY <1>2, <2>1
<1>4. f = [n \in Nat |-> IF n = 0 THEN 1 ELSE 10 * f[n - 1]]
  <2> DEFINE F == [n \in Nat |-> IF n = 0 THEN 1 ELSE 10 * f[n - 1]]
  <2>1. \A n \in Nat : f[n] = F[n]
    BY <1>3
  <2> QED BY <1>2, <2>1
<1>5. TenTo = [n \in Nat |-> IF n = 0 THEN 1 ELSE 10 * TenTo[n - 1]]
  BY <1>4 DEF TenTo
<1>6. \A n \in Nat : TenTo[n] = IF n = 0 THEN 1 ELSE 10 * TenTo[n - 1]
  BY <1>5
<1>7. TenTo[0] = 1 /\ \A n \in Nat : TenTo[n + 1] = 10 * TenTo[n]
  <2>1. \A n \in Nat : n + 1 \in Nat /\ n + 1 # 0 /\ (n + 1) - 1 = n
    OBVIOUS
  <2> QED BY <1>6, <2>1
<1> DEFINE S == {n \in Nat : TenTo[n] \in P}
<1>8. 0 \in S /\ \A n \in S : n + 1 \in S
  BY <1>7
<1>9. S = Nat
  BY <1>8, SetInduction
<1> QED BY <1>7, <1>9

(* Powers multiply. *)
LEMMA TenToSum ==
  ASSUME NEW m \in Nat, NEW n \in Nat
  PROVE  TenTo[m + n] = TenTo[m] * TenTo[n]
<1> DEFINE S == {k \in Nat : TenTo[m + k] = TenTo[m] * TenTo[k]}
<1>1. 0 \in S
  BY PowersOfTen
<1>2. ASSUME NEW k \in S PROVE k + 1 \in S
  <2>1. m + k \in Nat /\ m + (k + 1) = (m + k) + 1
    OBVIOUS
  <2>2. TenTo[m + (k + 1)] = 10 * TenTo[m + k] /\ TenTo[k + 1] = 10 * TenTo[k]
    BY <2>1, PowersOfTen
  <2>3. TenTo[m] \in Nat /\ TenTo[k] \in Nat
    BY PowersOfTen
  <2>4. 10 * (TenTo[m] * TenTo[k]) = TenTo[m] * (10 * TenTo[k])
    BY <2>3
  <2> QED BY <2>2, <2>4
<1>3. S = Nat
  BY <1>1, <1>2, SetInduction
<1> QED BY <1>3

(* The recursion of Written is well defined. *)
LEMMA WrittenDef ==
  ASSUME NEW s \in Seq(Int)
  PROVE  /\ Written(s)[0] = 0
         /\ \A n \in 1 .. Len(s) :
              Written(s)[n] = IF s[n] \in 0 .. 9 THEN 10 * Written(s)[n - 1] + s[n] ELSE Written(s)[n - 1]
         /\ \A n \in 0 .. Len(s) : Written(s)[n] \in Nat
<1> DEFINE Next1(n, v) == IF n + 1 \in 1 .. Len(s) /\ s[n + 1] \in 0 .. 9 THEN 10 * v + s[n + 1] ELSE v
           step == [n \in Nat |-> [v \in Nat |-> Next1(n, v)]]
           Value(g, n) == IF n = 0 THEN 0
                          ELSE IF s[n] \in 0 .. 9 THEN 10 * g[n - 1] + s[n] ELSE g[n - 1]
<1>1. PICK f : Unfolds(f, Nat, 0, step)
  <2>1. \A n, v \in Nat : Next1(n, v) \in Nat
    OBVIOUS
  <2>2. step \in [Nat -> [Nat -> Nat]]
    BY <2>1
  <2>3. 0 \in Nat
    OBVIOUS
  <2> HIDE DEF step
  <2> QED BY <2>2, <2>3, PrimitiveRecursion, Zenon
<1>2. f \in [Nat -> Nat] /\ f[0] = 0 /\ \A n \in Nat : f[n + 1] = Next1(n, f[n])
  BY <1>1 DEF Unfolds
<1> DEFINE g == [n \in 0 .. Len(s) |-> f[n]]
<1>3. ASSUME NEW n \in 0 .. Len(s) PROVE g[n] = Value(g, n)
  <2>1. CASE n = 0
    BY <1>2, <2>1
  <2>2. CASE n # 0
    <3>1. n - 1 \in Nat /\ n - 1 \in 0 .. Len(s) /\ (n - 1) + 1 = n /\ n \in 1 .. Len(s)
      BY <2>2
    <3>2. f[n] = Next1(n - 1, f[n - 1])
      BY <1>2, <3>1
    <3>3. g[n - 1] = f[n - 1] /\ g[n] = f[n]
      BY <3>1
    <3> QED BY <2>2, <3>1, <3>2, <3>3
  <2> QED BY <2>1, <2>2
<1>4. g = [n \in 0 .. Len(s) |-> Value(g, n)]
  BY <1>3
<1> DEFINE W == CHOOSE h : h = [n \in 0 .. Len(s) |-> Value(h, n)]
<1>5. Written(s) = W
  BY DEF Written
<1> HIDE DEF g
<1>6. W = [n \in 0 .. Len(s) |-> Value(W, n)]
  BY <1>4
<1> HIDE DEF W
<1>7. \A n \in 0 .. Len(s) : W[n] = Value(W, n)
  BY <1>6
<1> DEFINE S == {n \in Nat : n <= Len(s) => W[n] \in Nat}
<1>8. 0 \in S
  BY <1>7
<1>9. ASSUME NEW n \in S PROVE n + 1 \in S
  <2> SUFFICES ASSUME n + 1 <= Len(s) PROVE W[n + 1] \in Nat
    OBVIOUS
  <2>1. W[n] \in Nat /\ n + 1 \in 0 .. Len(s) /\ (n + 1) - 1 = n /\ n + 1 # 0
    OBVIOUS
  <2>2. W[n + 1] = IF s[n + 1] \in 0 .. 9 THEN 10 * W[n] + s[n + 1] ELSE W[n]
    BY <1>7, <2>1, Zenon
  <2> DEFINE w == W[n]
             v == W[n + 1]
             c == s[n + 1]
  <2>3. w \in Nat /\ v = IF c \in 0 .. 9 THEN 10 * w + c ELSE w
    BY <2>1, <2>2
  <2> HIDE DEF v, w, c
  <2>4. CASE c \in 0 .. 9
    <3>1. v = 10 * w + c /\ c \in Nat /\ w \in Nat
      BY <2>3, <2>4
    <3> QED BY <3>1 DEF v
  <2>5. CASE c \notin 0 .. 9
    BY <2>3, <2>5 DEF v
  <2> QED BY <2>4, <2>5
<1>10. S = Nat
  BY <1>8, <1>9, SetInduction
<1>11. W[0] = 0
  BY <1>7
<1>12. ASSUME NEW n \in 1 .. Len(s) PROVE W[n] = IF s[n] \in 0 .. 9 THEN 10 * W[n - 1] + s[n] ELSE W[n - 1]
  <2>1. n \in 0 .. Len(s) /\ n # 0
    OBVIOUS
  <2> QED BY <1>7, <2>1, Zenon
<1>13. ASSUME NEW n \in 0 .. Len(s) PROVE W[n] \in Nat
  <2>1. n \in Nat /\ n <= Len(s)
    OBVIOUS
  <2> QED BY <1>10, <2>1
<1> QED BY <1>5, <1>11, <1>12, <1>13, Zenon

-----------------------------------------------------------------------------
(* What a text denotes.                                                    *)

LEMMA QuotientIs ==
  ASSUME NEW n \in Int, NEW d \in Nat, d > 0, NEW q \in Int, NEW r \in 0 .. d - 1, n = d * q + r
  PROVE  n \div d = q /\ n % d = r
<1>1. (q * d) % d = 0 /\ (q * d) \div d = q
  BY MultipleDiv
<1>2. n = q * d + r
  OBVIOUS
<1> QED BY <1>1, <1>2

LEMMA DigitAfter ==
  ASSUME NEW x \in Nat, NEW v \in Nat, NEW c \in Nat, NEW w, w = 10 * v + c, x <= v
  PROVE  10 * x <= w
  OBVIOUS

LEMMA ProductAtLeast ==
  ASSUME NEW m \in Nat, NEW d \in Nat, d >= 2
  PROVE  m * d >= m /\ m * d \in Nat
<1>1. m * d = m * (d - 1) + m /\ m * (d - 1) \in Nat /\ m * d \in Nat
  OBVIOUS
<1>2. PICK y \in Nat : y = m * (d - 1)
  BY <1>1
<1> QED BY <1>1, <1>2

LEMMA WrittenGrows ==
  ASSUME NEW s \in Seq(Int), NEW a \in 0 .. Len(s), NEW b \in 0 .. Len(s), a <= b
  PROVE  Written(s)[a] <= Written(s)[b]
<1> DEFINE V == Written(s)
           S == {k \in Nat : a <= k /\ k <= Len(s) => V[a] <= V[k]}
<1>1. 0 \in S
  <2>1. a <= 0 => a = 0 /\ V[a] \in Nat
    BY WrittenDef
  <2> QED BY <2>1
<1>2. ASSUME NEW k \in S PROVE k + 1 \in S
  <2> SUFFICES ASSUME a <= k + 1, k + 1 <= Len(s) PROVE V[a] <= V[k + 1]
    OBVIOUS
  <2>1. k + 1 \in 1 .. Len(s) /\ (k + 1) - 1 = k /\ k \in 0 .. Len(s) /\ k + 1 \in 0 .. Len(s)
    OBVIOUS
  <2>2. V[k + 1] = IF s[k + 1] \in 0 .. 9 THEN 10 * V[k] + s[k + 1] ELSE V[k]
    BY <2>1, WrittenDef, Zenon
  <2>3. V[k] \in Nat /\ V[k + 1] \in Nat /\ V[a] \in Nat
    BY <2>1, WrittenDef
  <2> HIDE DEF V
  <2>4. V[k] <= V[k + 1]
    <3>1. CASE s[k + 1] \in 0 .. 9
      <4>1. V[k + 1] = 10 * V[k] + s[k + 1] /\ s[k + 1] \in Nat
        BY <2>2, <3>1, SMTT(40)
      <4> QED BY <2>3, <4>1
    <3>2. CASE s[k + 1] \notin 0 .. 9
      BY <2>2, <2>3, <3>2
    <3> QED BY <3>1, <3>2
  <2>5. CASE a = k + 1
    BY <2>3, <2>5
  <2>6. CASE a <= k
    <3>1. V[a] <= V[k]
      BY <2>1, <2>6
    <3> QED BY <2>3, <2>4, <3>1
  <2> QED BY <2>5, <2>6
<1>3. S = Nat
  BY <1>1, <1>2, SetInduction
<1>4. b \in S
  BY <1>3
<1> QED BY <1>4

(* Digits that follow shift what was written before them. *)
LEMMA WrittenShifts ==
  ASSUME NEW s \in Seq(Int), NEW a \in 0 .. Len(s), NEW b \in 0 .. Len(s), a <= b,
         \A k \in a + 1 .. b : s[k] \in 0 .. 9
  PROVE  Written(s)[a] * TenTo[b - a] <= Written(s)[b]
<1> DEFINE V == Written(s)
           S == {k \in Nat : a + k <= b => V[a] * TenTo[k] <= V[a + k]}
<1>1. 0 \in S
  <2>1. V[a] \in Nat /\ TenTo[0] = 1
    BY WrittenDef, PowersOfTen
  <2> QED BY <2>1
<1>2. ASSUME NEW k \in S PROVE k + 1 \in S
  <2> SUFFICES ASSUME a + (k + 1) <= b PROVE V[a] * TenTo[k + 1] <= V[a + (k + 1)]
    OBVIOUS
  <2> DEFINE j == a + k
  <2>1. j \in 0 .. Len(s) /\ j + 1 = a + (k + 1) /\ j + 1 \in 1 .. Len(s) /\ (j + 1) - 1 = j /\ j + 1 \in a + 1 .. b
    OBVIOUS
  <2>2. V[j + 1] = 10 * V[j] + s[j + 1] /\ s[j + 1] \in Nat
    <3>1. V[j + 1] = 10 * V[j] + s[j + 1] /\ s[j + 1] \in 0 .. 9
      BY <2>1, WrittenDef, Zenon
    <3>2. \A x \in 0 .. 9 : x \in Nat
      OBVIOUS
    <3> QED BY <3>1, <3>2, Zenon
  <2>3. V[j] \in Nat /\ V[a] \in Nat /\ TenTo[k] \in Nat /\ TenTo[k + 1] = 10 * TenTo[k]
    BY <2>1, WrittenDef, PowersOfTen
  <2>4. V[a] * TenTo[k] <= V[j]
    BY <2>1
  <2> HIDE DEF V, j
  <2>5. V[a] * (10 * TenTo[k]) = 10 * (V[a] * TenTo[k])
    BY <2>3, SMTT(40)
  <2>6. V[a] * TenTo[k] \in Nat
    BY <2>3, SMTT(40)
  <2>7. V[a] * TenTo[k + 1] = 10 * (V[a] * TenTo[k])
    BY <2>3, <2>5
  <2>8. 10 * (V[a] * TenTo[k]) <= V[j + 1]
    <3> DEFINE x == V[a] * TenTo[k]
    <3>1. x \in Nat /\ x <= V[j]
      BY <2>4, <2>6
    <3> HIDE DEF x
    <3>2. 10 * x <= V[j + 1]
      BY <2>2, <2>3, <3>1, DigitAfter
    <3> QED BY <3>2 DEF x
  <2> QED BY <2>1, <2>7, <2>8
<1>3. S = Nat
  BY <1>1, <1>2, SetInduction
<1>4. b - a \in Nat /\ a + (b - a) = b /\ a + (b - a) <= b
  OBVIOUS
<1>5. b - a \in S
  BY <1>3, <1>4
<1> QED BY <1>4, <1>5

LEMMA PointFacts ==
  ASSUME NEW s \in Seq(Int)
  PROVE  /\ Point(s) \in 0 .. Len(s)
         /\ Point(s) # 0 => s[Point(s)] = DOT /\ \A k \in 1 .. Len(s) : s[k] = DOT => Point(s) <= k
         /\ Point(s) = 0 => \A k \in 1 .. Len(s) : s[k] # DOT
         /\ Places(s) \in Nat /\ Places(s) <= Len(s)
<1>1. Dots(s) \subseteq Nat /\ \A k \in 1 .. Len(s) : k \in Dots(s) <=> s[k] = DOT
  BY DEF Dots
<1>2. CASE Dots(s) = {}
  <2>1. Point(s) = 0
    BY <1>2 DEF Point
  <2> QED BY <1>1, <1>2, <2>1 DEF Places
<1>3. CASE Dots(s) # {}
  <2>1. PICK m \in Dots(s) : \A k \in Dots(s) : m <= k
    BY <1>1, <1>3, LeastNatural
  <2>2. Min(Dots(s)) \in Dots(s) /\ \A k \in Dots(s) : Min(Dots(s)) <= k
    BY <2>1 DEF Min
  <2>3. Point(s) \in Dots(s) /\ \A k \in Dots(s) : Point(s) <= k
    BY <1>3, <2>2 DEF Point
  <2>4. Point(s) \in 1 .. Len(s) /\ s[Point(s)] = DOT
    BY <2>3 DEF Dots
  <2>5. Places(s) \in Nat /\ Places(s) <= Len(s)
    BY <2>4 DEF Places
  <2> QED BY <1>1, <2>3, <2>4, <2>5
<1> QED BY <1>2, <1>3

LEMMA DenotedTypes ==
  ASSUME NEW s \in Seq(Int)
  PROVE  /\ Denoted(s) \in Nat
         /\ TenTo[Places(s)] \in Nat \ {0}
         /\ SCALE \in Nat /\ SCALE >= 2 /\ MAX \in Nat
         /\ Denoted(s) * SCALE \in Nat
         /\ DenotedUnits(s) \in Nat
         /\ IsNearestEven(DenotedUnits(s), Denoted(s) * SCALE, TenTo[Places(s)])
<1>1. Denoted(s) \in Nat
  BY WrittenDef DEF Denoted
<1>2. Places(s) \in Nat
  BY PointFacts
<1>3. TenTo[Places(s)] \in Nat \ {0}
  BY <1>2, PowersOfTen
<1>4. SCALE \in Nat /\ SCALE >= 2 /\ MAX \in Nat
  BY FixedAssumption
<1>5. Denoted(s) * SCALE \in Nat
  BY <1>1, <1>4
<1>6. /\ DenotedUnits(s) \in Nat
      /\ IsNearestEven(DenotedUnits(s), Denoted(s) * SCALE, TenTo[Places(s)])
  <2>1. TenTo[Places(s)] \in Nat /\ TenTo[Places(s)] > 0
    BY <1>3
  <2> QED BY <1>5, <2>1, RoundedQuotientNearest DEF DenotedUnits
<1> QED BY <1>1, <1>3, <1>4, <1>5, <1>6

(* The whole part bounds the number from below.                            *)
LEMMA DenotedAtLeast ==
  ASSUME NEW s \in Seq(Int), WellFormed(s), NEW c \in 0 .. Len(s), Point(s) = 0 \/ c < Point(s)
  PROVE  Written(s)[c] * SCALE <= DenotedUnits(s)
<1> DEFINE n == Len(s)
           m == IF Point(s) = 0 THEN n ELSE Point(s)
           p == TenTo[Places(s)]
           v == Written(s)[c]
           w == Written(s)[m]
           N == Denoted(s)
<1>1. m \in 0 .. n /\ c <= m /\ Places(s) = n - m
  BY PointFacts DEF Places
<1>2. \A k \in m + 1 .. n : s[k] \in 0 .. 9
  BY <1>1, SMTT(40) DEF WellFormed
<1>3. w * p <= N
  <2>1. n \in 0 .. Len(s) /\ m \in 0 .. Len(s) /\ m <= n
    BY <1>1
  <2> HIDE DEF n, m
  <2>2. Written(s)[m] * TenTo[n - m] <= Written(s)[n]
    BY <1>2, <2>1, WrittenShifts
  <2> QED BY <1>1, <2>2 DEF Denoted, n
<1>4. v <= w
  BY <1>1, WrittenGrows
<1>5. v \in Nat /\ w \in Nat /\ N \in Nat /\ p \in Nat \ {0} /\ SCALE \in Nat /\ N * SCALE \in Nat
  BY <1>1, WrittenDef, DenotedTypes
<1>6. DenotedUnits(s) = RoundedQuotient(N * SCALE, p)
  BY DEF DenotedUnits
<1> HIDE DEF p, v, w, N, m
<1> DEFINE q == (N * SCALE) \div p
           r == (N * SCALE) % p
<1>7. q \in Nat /\ r \in 0 .. p - 1 /\ N * SCALE = p * q + r
  BY <1>5, DivMod
<1>8. RoundedQuotient(N * SCALE, p) >= q
  BY <1>7 DEF RoundedQuotient
<1> HIDE DEF q, r
<1>9. (w * p) * SCALE <= N * SCALE
  BY <1>3, <1>5
<1>10. (w * p) * SCALE = (w * SCALE) * p
  BY <1>5
<1>11. w * SCALE \in Nat /\ v * SCALE \in Nat /\ v * SCALE <= w * SCALE
  BY <1>4, <1>5
<1>12. w * SCALE <= q
  <2> DEFINE x == w * SCALE
  <2>1. x \in Nat /\ x * p <= p * q + r
    BY <1>7, <1>9, <1>10, <1>11
  <2> HIDE DEF x
  <2>2. ~(x >= q + 1)
    <3> SUFFICES ASSUME x >= q + 1 PROVE FALSE
      OBVIOUS
    <3>1. x * p >= (q + 1) * p
      BY <1>5, <1>7, <2>1
    <3>2. (q + 1) * p = p * q + p
      BY <1>5, <1>7
    <3> QED BY <1>5, <1>7, <2>1, <3>1, <3>2
  <2>3. x <= q
    BY <1>7, <2>1, <2>2
  <2> QED BY <2>3 DEF x
<1>13. v * SCALE <= DenotedUnits(s)
  <2>1. DenotedUnits(s) \in Nat /\ q <= DenotedUnits(s)
    BY <1>6, <1>8, DenotedTypes
  <2> QED BY <1>7, <1>11, <1>12, <2>1
<1> QED BY <1>13 DEF v

-----------------------------------------------------------------------------
(* The parser, after it has consumed the first c symbols of s.             *)

ParserStates ==
  [integer : Nat, fraction : Nat, fraction_digits : Nat, extra_first : NoExtra .. 9,
   extra_nonzero : BOOLEAN, seen_dot : BOOLEAN, seen_digit : BOOLEAN]

(* Decimals among the first c symbols, when all the others are digits. *)
Decimals(s, c) == IF Point(s) \in 1 .. c THEN c - Point(s) ELSE 0

(* The decimals past the scale are one digit and, below it, a rest that is *)
(* known to be zero or not.                                                *)
Beyond(p, v, unit) ==
  \E low \in 0 .. unit - 1 :
    /\ p.extra_nonzero <=> low # 0
    /\ v = ((p.integer * SCALE + p.fraction) * 10 + p.extra_first) * unit + low

ReadTo(s, c, p) ==
  /\ p \in ParserStates
  /\ \A k \in 1 .. c : s[k] \in 0 .. 9 \/ k = Point(s)
  /\ p.seen_dot <=> Point(s) \in 1 .. c
  /\ p.seen_digit <=> \E k \in 1 .. c : s[k] \in 0 .. 9
  /\ p.integer <= MAX
  /\ ~p.seen_dot => p.fraction = 0
  /\ Decimals(s, c) <= SCALE_DIGITS =>
       /\ p.fraction_digits = Decimals(s, c)
       /\ p.extra_first = NoExtra /\ ~p.extra_nonzero
       /\ Written(s)[c] = p.integer * TenTo[Decimals(s, c)] + p.fraction
  /\ Decimals(s, c) > SCALE_DIGITS =>
       /\ p.fraction_digits = SCALE_DIGITS
       /\ p.extra_first \in 0 .. 9
       /\ Beyond(p, Written(s)[c], TenTo[Decimals(s, c) - SCALE_DIGITS - 1])

(* What finish makes of it, before the checks. *)
Kept(p) == p.integer * SCALE + ScaledFraction(p)

LEMMA DecimalsType ==
  ASSUME NEW s \in Seq(Int), NEW c \in 0 .. Len(s)
  PROVE  Decimals(s, c) \in Nat
  BY PointFacts DEF Decimals

LEMMA ScaleDigits ==
  /\ SCALE_DIGITS \in Nat \ {0} /\ TenTo[SCALE_DIGITS] = SCALE
  /\ \E h \in Nat : SCALE = 2 * h
<1>1. SCALE \in Nat /\ SCALE % 2 = 0
  BY FixedAssumption
<1>2. SCALE = 2 * (SCALE \div 2) + (SCALE % 2) /\ SCALE \div 2 \in Nat
  BY <1>1
<1> QED BY <1>1, <1>2, DecimalAssumption

(* Kept is the quotient, and what it leaves out decides the rounding. *)
LEMMA RoundedExactly ==
  ASSUME NEW K \in Nat, NEW d \in Nat, d > 0
  PROVE  RoundedQuotient(d * K, d) = K
<1>1. 0 \in 0 .. d - 1 /\ d * K = d * K + 0 /\ d * K \in Int
  OBVIOUS
<1>2. (d * K) \div d = K /\ (d * K) % d = 0
  BY <1>1, QuotientIs
<1> QED BY <1>2 DEF RoundedQuotient

LEMMA RoundedBeyond ==
  ASSUME NEW K \in Nat, NEW G \in Nat \ {0}, NEW e \in 0 .. 9, NEW low \in 0 .. G - 1
  PROVE  RoundedQuotient(((K * 10 + e) * G + low) * SCALE, SCALE * 10 * G)
           = K + (IF e > 5 \/ (e = 5 /\ (low # 0 \/ K % 2 = 1)) THEN 1 ELSE 0)
<1> DEFINE d == SCALE * 10 * G
           x == e * G + low
           r == x * SCALE
           n == ((K * 10 + e) * G + low) * SCALE
<1>1. SCALE \in Nat /\ SCALE >= 2
  BY FixedAssumption
<1>2. x \in Nat /\ x < 10 * G
  <2>1. e * G <= 9 * G /\ e * G \in Nat
    BY SMT
  <2> DEFINE y == e * G
  <2> HIDE DEF y
  <2>2. y \in Nat /\ y <= 9 * G
    BY <2>1 DEF y
  <2>3. y + low \in Nat /\ y + low < 10 * G
    BY <2>2
  <2> QED BY <2>3 DEF y
<1>3. 2 * x > 10 * G <=> e > 5 \/ (e = 5 /\ low # 0)
  <2>1. CASE e <= 4
    <3>1. e * G <= 4 * G /\ e * G \in Nat
      BY <2>1
    <3> DEFINE y == e * G
    <3> HIDE DEF y
    <3>2. y \in Nat /\ y <= 4 * G
      BY <3>1 DEF y
    <3>3. ~(2 * (y + low) > 10 * G)
      BY <3>2
    <3> QED BY <2>1, <3>3 DEF y
  <2>2. CASE e = 5
    BY <2>2
  <2>3. CASE e >= 6
    <3>1. e * G >= 6 * G /\ e * G \in Nat
      BY <2>3
    <3> DEFINE y == e * G
    <3> HIDE DEF y
    <3>2. y \in Nat /\ y >= 6 * G
      BY <3>1 DEF y
    <3>3. 2 * (y + low) > 10 * G
      BY <3>2
    <3> QED BY <2>3, <3>3 DEF y
  <2> QED BY <2>1, <2>2, <2>3
<1>4. 2 * x = 10 * G <=> e = 5 /\ low = 0
  <2>1. CASE e = 5
    BY <2>1
  <2>2. CASE e <= 4
    <3>1. e * G <= 4 * G /\ e * G \in Nat
      BY <2>2
    <3> DEFINE y == e * G
    <3> HIDE DEF y
    <3>2. y \in Nat /\ y <= 4 * G
      BY <3>1 DEF y
    <3>3. 2 * (y + low) # 10 * G
      BY <3>2
    <3> QED BY <2>2, <3>3 DEF y
  <2>3. CASE e >= 6
    <3>1. 2 * x > 10 * G
      BY <1>3, <2>3
    <3> QED BY <1>2, <2>3, <3>1
  <2> QED BY <2>1, <2>2, <2>3
<1> HIDE DEF x
<1> DEFINE y == 10 * G
<1>5. y \in Nat /\ y > 0 /\ d = SCALE * y
  <2>1. SCALE * 10 * G = SCALE * (10 * G)
    BY <1>1
  <2> QED BY <2>1
<1>6. n = (K * y + x) * SCALE
  BY <1>1 DEF x
<1> HIDE DEF y, d, n
<1>7. n = d * K + r /\ r \in 0 .. d - 1 /\ d > 0 /\ d \in Nat /\ n \in Int
  <2>1. x < y
    BY <1>2 DEF y
  <2>2. (K * y + x) * SCALE = (SCALE * y) * K + x * SCALE
    BY <1>1, <1>2, <1>5
  <2>3. x * SCALE < y * SCALE /\ x * SCALE \in Nat /\ y * SCALE = SCALE * y /\ SCALE * y \in Nat /\ SCALE * y > 0
    BY <1>1, <1>2, <1>5, <2>1
  <2>4. r \in 0 .. d - 1 /\ d > 0 /\ d \in Nat
    BY <1>5, <2>3
  <2>5. n = d * K + r
    BY <1>5, <1>6, <2>2
  <2> QED BY <2>4, <2>5
<1>8. (2 * r > d <=> 2 * x > y) /\ (2 * r = d <=> 2 * x = y)
  <2>1. 2 * (x * SCALE) = (2 * x) * SCALE
    BY <1>1, <1>2
  <2> DEFINE z == 2 * x
  <2> HIDE DEF z
  <2>2. z \in Nat
    BY <1>2 DEF z
  <2>3. (z * SCALE > y * SCALE <=> z > y) /\ (z * SCALE = y * SCALE <=> z = y)
    BY <1>1, <1>5, <2>2
  <2>4. d = y * SCALE
    BY <1>1, <1>5
  <2> QED BY <2>1, <2>3, <2>4 DEF z
<1> HIDE DEF r
<1>9. n \div d = K /\ n % d = r
  BY <1>7, QuotientIs
<1>10. RoundedQuotient(n, d) = IF 2 * r > d \/ (2 * r = d /\ K % 2 = 1) THEN K + 1 ELSE K
  BY <1>9 DEF RoundedQuotient
<1>11. RoundedQuotient(n, d) = K + (IF e > 5 \/ (e = 5 /\ (low # 0 \/ K % 2 = 1)) THEN 1 ELSE 0)
  BY <1>3, <1>4, <1>8, <1>10 DEF y
<1> QED BY <1>11 DEF n, d

LEMMA FinishRounds ==
  ASSUME NEW s \in Seq(Int), NEW p, ReadTo(s, Len(s), p)
  PROVE  /\ ScaledFraction(p) \in Nat /\ p.integer * SCALE \in Nat
         /\ DenotedUnits(s) = Kept(p) + (IF RoundUp(p) THEN 1 ELSE 0)
<1> DEFINE f == Decimals(s, Len(s))
           K == Kept(p)
           I == p.integer
           F == p.fraction
<1>1. f \in Nat /\ Places(s) = f
  BY DecimalsType, PointFacts DEF Decimals, Places
<1>2. /\ p \in ParserStates /\ I \in Nat /\ F \in Nat /\ p.extra_first \in Int
      /\ SCALE \in Nat /\ SCALE >= 2 /\ SCALE_DIGITS \in Nat /\ TenTo[SCALE_DIGITS] = SCALE
  BY ScaleDigits, FixedAssumption DEF ReadTo, ParserStates, NoExtra
<1>3. I * SCALE \in Nat
  BY <1>2
<1>4. DenotedUnits(s) = RoundedQuotient(Written(s)[Len(s)] * SCALE, TenTo[f])
  BY <1>1 DEF DenotedUnits, Denoted
<1>5. CASE f <= SCALE_DIGITS
  <2> DEFINE a == TenTo[f]
             b == TenTo[SCALE_DIGITS - f]
  <2>1. p.fraction_digits = f /\ p.extra_first = -1 /\ Written(s)[Len(s)] = I * a + F
    BY <1>5 DEF ReadTo, NoExtra
  <2>2. SCALE_DIGITS - f \in Nat /\ f + (SCALE_DIGITS - f) = SCALE_DIGITS
    BY <1>1, <1>2, <1>5
  <2>3. a \in Nat /\ a > 0 /\ b \in Nat
    <3> HIDE DEF f
    <3>1. TenTo[f] \in Nat \ {0} /\ TenTo[SCALE_DIGITS - f] \in Nat \ {0}
      BY <1>1, <2>2, PowersOfTen
    <3> QED BY <3>1
  <2>4. SCALE = a * b
    <3>1. TenTo[f + (SCALE_DIGITS - f)] = a * b
      BY <1>1, <2>2, TenToSum
    <3> QED BY <1>2, <2>2, <3>1
  <2>5. ScaledFraction(p) = F * b
    BY <2>1 DEF ScaledFraction
  <2> HIDE DEF a, b
  <2>6. F * b \in Nat /\ K = I * SCALE + F * b /\ K \in Nat
    <3>1. F * b \in Nat
      BY <1>2, <2>3
    <3>2. K = I * SCALE + F * b
      BY <2>5 DEF Kept
    <3> QED BY <1>3, <3>1, <3>2
  <2>7. (I * a + F) * SCALE = a * (I * SCALE + F * b)
    <3>1. (I * a + F) * (a * b) = a * (I * (a * b) + F * b)
      BY <1>2, <2>3
    <3> QED BY <2>4, <3>1
  <2>8. RoundedQuotient(a * K, a) = K
    BY <2>3, <2>6, RoundedExactly
  <2>9. ~RoundUp(p)
    BY <2>1 DEF RoundUp
  <2>10. DenotedUnits(s) = K
    BY <1>4, <2>1, <2>6, <2>7, <2>8 DEF a
  <2> QED BY <1>3, <2>5, <2>6, <2>9, <2>10
<1>6. CASE f > SCALE_DIGITS
  <2> DEFINE G == TenTo[f - SCALE_DIGITS - 1]
             e == p.extra_first
  <2>1. p.fraction_digits = SCALE_DIGITS /\ e \in 0 .. 9 /\ Beyond(p, Written(s)[Len(s)], G)
    BY <1>6 DEF ReadTo
  <2>2. f - SCALE_DIGITS - 1 \in Nat /\ f = SCALE_DIGITS + ((f - SCALE_DIGITS - 1) + 1)
    BY <1>1, <1>2, <1>6
  <2>3. G \in Nat \ {0}
    BY <2>2, PowersOfTen
  <2>4. TenTo[f] = SCALE * 10 * G
    <3>1. TenTo[(f - SCALE_DIGITS - 1) + 1] = 10 * G
      BY <2>2, PowersOfTen
    <3>2. TenTo[f] = SCALE * (10 * G)
      <4> DEFINE g == (f - SCALE_DIGITS - 1) + 1
      <4>1. g \in Nat /\ f = SCALE_DIGITS + g
        BY <2>2
      <4> HIDE DEF g
      <4>2. TenTo[SCALE_DIGITS + g] = TenTo[SCALE_DIGITS] * TenTo[g]
        BY <1>2, <4>1, TenToSum
      <4>3. TenTo[f] = SCALE * TenTo[g]
        BY <1>2, <4>1, <4>2
      <4> QED BY <3>1, <4>3 DEF g
    <3> QED BY <1>2, <2>3, <3>2
  <2>5. ScaledFraction(p) = F
    <3>1. SCALE_DIGITS - p.fraction_digits = 0
      BY <1>2, <2>1
    <3>2. ScaledFraction(p) = F * 1
      BY <3>1, PowersOfTen DEF ScaledFraction
    <3> QED BY <1>2, <3>2
  <2> HIDE DEF G
  <2>6. K = I * SCALE + F /\ K \in Nat
    BY <1>2, <1>3, <2>5 DEF Kept
  <2>7. PICK low \in 0 .. G - 1 : /\ p.extra_nonzero <=> low # 0
                                  /\ Written(s)[Len(s)] = ((I * SCALE + F) * 10 + e) * G + low
    BY <2>1 DEF Beyond
  <2>8. RoundedQuotient(((K * 10 + e) * G + low) * SCALE, SCALE * 10 * G)
          = K + (IF e > 5 \/ (e = 5 /\ (low # 0 \/ K % 2 = 1)) THEN 1 ELSE 0)
    BY <2>1, <2>3, <2>6, RoundedBeyond
  <2>9. K % 2 = F % 2
    <3>1. PICK h \in Nat : SCALE = 2 * h
      BY ScaleDigits
    <3>2. I * (2 * h) = 2 * (I * h) /\ I * h \in Nat
      BY <1>2
    <3> DEFINE y == I * h
    <3> HIDE DEF y
    <3>3. y \in Nat /\ K = 2 * y + F
      BY <2>6, <3>1, <3>2 DEF y
    <3> HIDE DEF K
    <3> QED BY <1>2, <3>3
  <2>10. RoundUp(p) <=> e > 5 \/ (e = 5 /\ (low # 0 \/ K % 2 = 1))
    BY <2>5, <2>7, <2>9 DEF RoundUp
  <2>11. DenotedUnits(s) = K + (IF RoundUp(p) THEN 1 ELSE 0)
    BY <1>4, <2>4, <2>6, <2>7, <2>8, <2>10
  <2> QED BY <1>2, <1>3, <2>5, <2>11
<1> QED BY <1>1, <1>2, <1>5, <1>6

(* What from_str answers. *)
Verdict(s, neg, o) ==
  /\ o.ok \in BOOLEAN
  /\ o.ok <=> WellFormed(s) /\ DenotedUnits(s) <= MAX
  /\ o.ok => o = Ok(IF neg THEN -DenotedUnits(s) ELSE DenotedUnits(s))

LEMMA FinishAnswers ==
  ASSUME NEW s \in Seq(Int), NEW p, ReadTo(s, Len(s), p), NEW neg \in BOOLEAN
  PROVE  Verdict(s, neg, Finished(p, neg))
<1> DEFINE n == DenotedUnits(s)
           whole == p.integer * SCALE
           frac == ScaledFraction(p)
           up == IF RoundUp(p) THEN 1 ELSE 0
           Answer(magnitude) == IF neg THEN TryNeg(magnitude) ELSE Ok(magnitude)
<1>1. p.seen_digit <=> WellFormed(s)
  BY DEF ReadTo, WellFormed
<1>2. whole \in Nat /\ frac \in Nat /\ n = whole + frac + up /\ up \in 0 .. 1 /\ n \in Nat
  BY FinishRounds, DenotedTypes DEF Kept
<1>3. MAX \in Nat
  BY FixedAssumption
<1>4. Finished(p, neg) =
        IF ~p.seen_digit THEN Err("InvalidDecimal")
        ELSE IF ~Checked(whole).ok THEN Checked(whole)
        ELSE IF ~Checked(whole + frac).ok THEN Checked(whole + frac)
        ELSE IF ~Checked(whole + frac + up).ok THEN Checked(whole + frac + up)
        ELSE Answer(whole + frac + up)
  BY DEF Finished, AndThen, Checked, Ok, Err
<1> HIDE DEF n, whole, frac, up
<1>5. CASE ~p.seen_digit
  BY <1>1, <1>4, <1>5 DEF Verdict, Err
<1>6. CASE p.seen_digit /\ n <= MAX
  <2>1. /\ whole \in Range128 /\ whole + frac \in Range128 /\ whole + frac + up \in Range128
        /\ -n \in Range128
    BY <1>2, <1>3, <1>6 DEF Range128, MIN
  <2>2. Checked(whole).ok /\ Checked(whole + frac).ok /\ Checked(whole + frac + up).ok
    BY <2>1 DEF Checked, Ok
  <2>3. Finished(p, neg) = Answer(n)
    BY <1>2, <1>4, <1>6, <2>2
  <2>4. Answer(n) = Ok(IF neg THEN -n ELSE n)
    BY <2>1 DEF TryNeg, Checked
  <2>5. Finished(p, neg) = Ok(IF neg THEN -n ELSE n)
    BY <2>3, <2>4
  <2>6. Finished(p, neg).ok = TRUE
    BY <2>5 DEF Ok
  <2>7. WellFormed(s) /\ n <= MAX
    BY <1>1, <1>6
  <2> QED BY <2>5, <2>6, <2>7 DEF Verdict, n
<1>7. CASE p.seen_digit /\ n > MAX
  <2>1. whole + frac + up \notin Range128
    BY <1>2, <1>3, <1>7 DEF Range128, MIN
  <2>2. ~Checked(whole + frac + up).ok
    BY <2>1 DEF Checked, Err
  <2>3. Finished(p, neg) \in {Checked(whole), Checked(whole + frac), Checked(whole + frac + up)} /\ ~Finished(p, neg).ok
    BY <1>4, <1>7, <2>2
  <2>4. Finished(p, neg).ok = FALSE
    BY <2>3 DEF Checked, Ok, Err
  <2>5. ~(n <= MAX)
    BY <1>2, <1>3, <1>7
  <2> QED BY <2>4, <2>5 DEF Verdict, n
<1> QED BY <1>2, <1>3, <1>5, <1>6, <1>7 DEF ReadTo

-----------------------------------------------------------------------------
(* One step of the parser, from c symbols to c + 1.                        *)

LEMMA StartReads ==
  ASSUME NEW s \in Seq(Int)
  PROVE  ReadTo(s, 0, DefaultParser)
<1>1. Decimals(s, 0) = 0 /\ Point(s) \notin 1 .. 0
  BY PointFacts DEF Decimals
<1>2. Written(s)[0] = 0 /\ SCALE_DIGITS \in Nat \ {0} /\ TenTo[0] = 1 /\ MAX \in Nat
  BY WrittenDef, ScaleDigits, PowersOfTen, FixedAssumption
<1>3. DefaultParser \in ParserStates
  BY DEF DefaultParser, ParserStates, NoExtra
<1> QED BY <1>1, <1>2, <1>3 DEF ReadTo, DefaultParser

(* A clean reading cannot meet a second point or a symbol of no number.    *)
LEMMA InvalidIsMalformed ==
  ASSUME NEW s \in Seq(Int), NEW c \in 0 .. Len(s) - 1, NEW p, ReadTo(s, c, p),
         \/ s[c + 1] = DOT /\ p.seen_dot
         \/ s[c + 1] \notin (0 .. 9) \cup {DOT}
  PROVE  ~WellFormed(s)
<1>1. c + 1 \in 1 .. Len(s) /\ s[c + 1] \notin 0 .. 9
  BY DEF DOT
<1>2. c + 1 # Point(s)
  <2>1. CASE s[c + 1] = DOT /\ p.seen_dot
    BY <2>1 DEF ReadTo
  <2>2. CASE s[c + 1] \notin (0 .. 9) \cup {DOT}
    BY <1>1, <2>2, PointFacts, SMTT(40)
  <2> QED BY <2>1, <2>2
<1> QED BY <1>1, <1>2 DEF WellFormed

LEMMA DotRead ==
  ASSUME NEW s \in Seq(Int), NEW c \in 0 .. Len(s) - 1, NEW p, ReadTo(s, c, p),
         s[c + 1] = DOT, ~p.seen_dot
  PROVE  ReadTo(s, c + 1, [p EXCEPT !.seen_dot = TRUE])
<1> DEFINE q == [p EXCEPT !.seen_dot = TRUE]
<1>1. Point(s) = c + 1 /\ c + 1 \in 1 .. Len(s)
  <2>1. Point(s) \notin 1 .. c /\ c + 1 \in 1 .. Len(s)
    BY DEF ReadTo
  <2> QED BY <2>1, PointFacts, SMTT(40)
<1>2. Decimals(s, c) = 0 /\ Decimals(s, c + 1) = 0
  BY <1>1 DEF Decimals
<1>3. Written(s)[c + 1] = Written(s)[c]
  <2>1. c + 1 \in 1 .. Len(s) /\ (c + 1) - 1 = c /\ s[c + 1] \notin 0 .. 9
    BY DEF DOT
  <2> QED BY <2>1, WrittenDef, Zenon
<1>4. p \in ParserStates /\ SCALE_DIGITS \in Nat
  BY ScaleDigits DEF ReadTo
<1>5. /\ q \in ParserStates /\ q.seen_dot = TRUE
      /\ q.integer = p.integer /\ q.fraction = p.fraction /\ q.fraction_digits = p.fraction_digits
      /\ q.extra_first = p.extra_first /\ q.extra_nonzero = p.extra_nonzero /\ q.seen_digit = p.seen_digit
  BY <1>4 DEF ParserStates
<1> HIDE DEF q
<1>6. \A k \in 1 .. c + 1 : s[k] \in 0 .. 9 \/ k = Point(s)
  BY <1>1 DEF ReadTo
<1>7. q.seen_dot <=> Point(s) \in 1 .. c + 1
  BY <1>1, <1>5
<1>8. q.seen_digit <=> \E k \in 1 .. c + 1 : s[k] \in 0 .. 9
  <2>1. (\E k \in 1 .. c + 1 : s[k] \in 0 .. 9) <=> \E k \in 1 .. c : s[k] \in 0 .. 9
    <3>1. s[c + 1] \notin 0 .. 9
      BY DEF DOT
    <3> QED BY <3>1, SMTT(40)
  <2> QED BY <1>5, <2>1 DEF ReadTo
<1>9. q.integer <= MAX
  BY <1>5 DEF ReadTo
<1>10. /\ q.fraction_digits = 0 /\ q.extra_first = NoExtra /\ ~q.extra_nonzero
       /\ Written(s)[c + 1] = q.integer * TenTo[0] + q.fraction
  BY <1>2, <1>3, <1>4, <1>5 DEF ReadTo
<1> QED BY <1>2, <1>4, <1>5, <1>6, <1>7, <1>8, <1>9, <1>10, SMTT(40) DEF ReadTo, q

LEMMA IntegerRead ==
  ASSUME NEW s \in Seq(Int), NEW c \in 0 .. Len(s) - 1, NEW p, ReadTo(s, c, p),
         s[c + 1] \in 0 .. 9, ~p.seen_dot
  PROVE  LET n == p.integer * 10 + s[c + 1]
         IN  /\ n \in Nat
             /\ n <= MAX => ReadTo(s, c + 1, [p EXCEPT !.integer = n, !.seen_digit = TRUE])
             /\ n > MAX => ~(WellFormed(s) /\ DenotedUnits(s) <= MAX)
<1> DEFINE n == p.integer * 10 + s[c + 1]
           q == [p EXCEPT !.integer = n, !.seen_digit = TRUE]
<1>1. p \in ParserStates /\ SCALE_DIGITS \in Nat /\ c + 1 \in 1 .. Len(s) /\ TenTo[0] = 1
  BY ScaleDigits, PowersOfTen DEF ReadTo
<1>2. Point(s) = 0 \/ c + 1 < Point(s)
  <2>1. Point(s) \notin 1 .. c
    BY DEF ReadTo
  <2>2. Point(s) # c + 1
    BY PointFacts DEF DOT
  <2> QED BY <1>1, <2>1, <2>2, PointFacts
<1>3. Decimals(s, c) = 0 /\ Decimals(s, c + 1) = 0
  BY <1>2, PointFacts DEF Decimals
<1>4. p.fraction = 0 /\ p.fraction_digits = 0 /\ p.extra_first = NoExtra /\ ~p.extra_nonzero
  BY <1>1, <1>3 DEF ReadTo
<1>5. Written(s)[c] = p.integer /\ p.integer \in Nat
  <2>1. Written(s)[c] = p.integer * 1 + 0 /\ p.integer \in Nat
    BY <1>1, <1>3, <1>4 DEF ReadTo, ParserStates
  <2> QED BY <2>1
<1>6. Written(s)[c + 1] = n /\ n \in Nat
  <2>1. (c + 1) - 1 = c
    OBVIOUS
  <2>2. Written(s)[c + 1] = 10 * Written(s)[c] + s[c + 1]
    BY <1>1, <2>1, WrittenDef, Zenon
  <2>3. s[c + 1] \in Nat
    OBVIOUS
  <2> QED BY <1>5, <2>2, <2>3
<1> HIDE DEF n
<1>7. ASSUME n <= MAX PROVE ReadTo(s, c + 1, q)
  <2>1. /\ q \in ParserStates /\ q.integer = n /\ q.seen_digit = TRUE
        /\ q.fraction = p.fraction /\ q.fraction_digits = p.fraction_digits /\ q.seen_dot = p.seen_dot
        /\ q.extra_first = p.extra_first /\ q.extra_nonzero = p.extra_nonzero
    BY <1>1, <1>6 DEF ParserStates
  <2> HIDE DEF q
  <2>2. \A k \in 1 .. c + 1 : s[k] \in 0 .. 9 \/ k = Point(s)
    BY DEF ReadTo
  <2>3. q.seen_dot <=> Point(s) \in 1 .. c + 1
    BY <1>2, <2>1
  <2>4. \E k \in 1 .. c + 1 : s[k] \in 0 .. 9
    BY <1>1
  <2>5. Written(s)[c + 1] = q.integer * TenTo[0] + q.fraction
    BY <1>1, <1>4, <1>6, <2>1
  <2> QED BY <1>1, <1>3, <1>4, <1>7, <2>1, <2>2, <2>3, <2>4, <2>5 DEF ReadTo
<1>8. ASSUME n > MAX, WellFormed(s), DenotedUnits(s) <= MAX PROVE FALSE
  <2>1. c + 1 \in 0 .. Len(s)
    BY <1>1
  <2>2. n * SCALE <= DenotedUnits(s)
    BY <1>2, <1>6, <1>8, <2>1, DenotedAtLeast
  <2>3. SCALE \in Nat /\ SCALE >= 2 /\ MAX \in Nat /\ DenotedUnits(s) \in Nat
    BY FixedAssumption, DenotedTypes
  <2>4. n * SCALE >= n
    BY <1>6, <2>3, ProductAtLeast
  <2>5. PICK y \in Nat : y = n * SCALE
    BY <1>6, <2>3, ProductAtLeast
  <2>6. PICK u \in Nat : u = DenotedUnits(s)
    BY <2>3
  <2>7. y <= u /\ n <= y /\ u <= MAX /\ n > MAX
    BY <1>8, <2>2, <2>4, <2>5, <2>6
  <2> QED BY <1>6, <2>3, <2>7
<1> QED BY <1>6, <1>7, <1>8 DEF n

(* Setting one field of the parser leaves the others as they are. *)
LEMMA TakesExtra ==
  ASSUME NEW p \in ParserStates, NEW x \in 0 .. 9
  PROVE  LET q == [[p EXCEPT !.extra_first = x] EXCEPT !.seen_digit = TRUE]
         IN  /\ q \in ParserStates /\ q.integer = p.integer /\ q.fraction = p.fraction
             /\ q.fraction_digits = p.fraction_digits
             /\ q.extra_first = x /\ q.extra_nonzero = p.extra_nonzero
             /\ q.seen_dot = p.seen_dot /\ q.seen_digit = TRUE
<1>1. x \in NoExtra .. 9
  BY DEF NoExtra
<1> QED BY <1>1 DEF ParserStates

LEMMA NotesRest ==
  ASSUME NEW p \in ParserStates, NEW b \in BOOLEAN
  PROVE  LET q == [[p EXCEPT !.extra_nonzero = b] EXCEPT !.seen_digit = TRUE]
         IN  /\ q \in ParserStates /\ q.integer = p.integer /\ q.fraction = p.fraction
             /\ q.fraction_digits = p.fraction_digits
             /\ q.extra_first = p.extra_first /\ q.extra_nonzero = b
             /\ q.seen_dot = p.seen_dot /\ q.seen_digit = TRUE
  BY DEF ParserStates

LEMMA ReadOnToDigit ==
  ASSUME NEW s \in Seq(Int), NEW c \in 0 .. Len(s) - 1, NEW p, ReadTo(s, c, p),
         s[c + 1] \in 0 .. 9, p.seen_dot
  PROVE  /\ Decimals(s, c) \in Nat /\ Decimals(s, c + 1) = Decimals(s, c) + 1
         /\ Written(s)[c] \in Nat /\ s[c + 1] \in Nat
         /\ Written(s)[c + 1] = 10 * Written(s)[c] + s[c + 1]
         /\ \A k \in 1 .. c + 1 : s[k] \in 0 .. 9 \/ k = Point(s)
         /\ Point(s) \in 1 .. c + 1
         /\ \E k \in 1 .. c + 1 : s[k] \in 0 .. 9
<1>1. c \in 0 .. Len(s) /\ c + 1 \in 1 .. Len(s) /\ (c + 1) - 1 = c
  OBVIOUS
<1>2. Point(s) \in 1 .. c /\ c \in Nat
  BY DEF ReadTo
<1>3. Decimals(s, c) = c - Point(s) /\ Decimals(s, c + 1) = (c + 1) - Point(s)
  BY <1>2 DEF Decimals
<1>4. Decimals(s, c) \in Nat /\ Decimals(s, c + 1) = Decimals(s, c) + 1
  BY <1>2, <1>3
<1>5. Written(s)[c] \in Nat
  BY <1>1, WrittenDef
<1>6. Written(s)[c + 1] = 10 * Written(s)[c] + s[c + 1]
  BY <1>1, WrittenDef, Zenon
<1>7. \A k \in 1 .. c + 1 : s[k] \in 0 .. 9 \/ k = Point(s)
  BY <1>1 DEF ReadTo
<1>8. Point(s) \in 1 .. c + 1
  BY <1>2
<1>9. s[c + 1] \in Nat /\ \E k \in 1 .. c + 1 : s[k] \in 0 .. 9
  BY <1>1
<1> QED BY <1>4, <1>5, <1>6, <1>7, <1>8, <1>9, Zenon

LEMMA FractionRead ==
  ASSUME NEW s \in Seq(Int), NEW c \in 0 .. Len(s) - 1, NEW p, ReadTo(s, c, p),
         s[c + 1] \in 0 .. 9, p.seen_dot
  PROVE  ReadTo(s, c + 1, [TakeFraction(p, s[c + 1]) EXCEPT !.seen_digit = TRUE])
<1> DEFINE Q(t) == [t EXCEPT !.seen_digit = TRUE]
<1>1. PICK digit \in 0 .. 9 : digit = s[c + 1]
  OBVIOUS
<1>2. PICK f \in Nat : f = Decimals(s, c)
  BY ReadOnToDigit
<1>3. PICK v \in Nat : v = Written(s)[c]
  BY ReadOnToDigit
<1>4. Decimals(s, c + 1) = f + 1 /\ Written(s)[c + 1] = 10 * v + digit
  BY <1>1, <1>2, <1>3, ReadOnToDigit
<1>5. /\ \A k \in 1 .. c + 1 : s[k] \in 0 .. 9 \/ k = Point(s)
      /\ Point(s) \in 1 .. c + 1
      /\ \E k \in 1 .. c + 1 : s[k] \in 0 .. 9
  BY ReadOnToDigit, Zenon
<1>6. PICK D \in Nat : D = SCALE_DIGITS /\ TenTo[D] = SCALE
  BY ScaleDigits
<1>7. p \in ParserStates /\ p.integer <= MAX /\ p.seen_dot = TRUE
  BY DEF ReadTo, ParserStates
<1>8. PICK I \in Nat, F \in Nat : I = p.integer /\ F = p.fraction
  BY <1>7 DEF ParserStates
<1>9. /\ f <= D => /\ p.fraction_digits = f /\ p.extra_first = NoExtra /\ p.extra_nonzero = FALSE
                   /\ v = I * TenTo[f] + F
      /\ f > D => /\ p.fraction_digits = D /\ p.extra_first \in 0 .. 9
                  /\ Beyond(p, v, TenTo[f - D - 1])
  BY <1>2, <1>3, <1>6, <1>7, <1>8 DEF ReadTo, ParserStates
<1>10. SUFFICES ReadTo(s, c + 1, Q(TakeFraction(p, digit)))
  BY <1>1
<1> HIDE DEF Q
<1>11. ASSUME NEW q \in ParserStates, q.integer = I, q.seen_dot = TRUE, q.seen_digit = TRUE,
              f + 1 <= D => /\ q.fraction_digits = f + 1
                            /\ q.extra_first = NoExtra /\ q.extra_nonzero = FALSE
                            /\ 10 * v + digit = I * TenTo[f + 1] + q.fraction,
              f + 1 > D => /\ q.fraction_digits = D
                           /\ q.extra_first \in 0 .. 9
                           /\ Beyond(q, 10 * v + digit, TenTo[(f + 1) - D - 1])
       PROVE  ReadTo(s, c + 1, q)
  BY <1>4, <1>5, <1>6, <1>7, <1>8, <1>11 DEF ReadTo
<1>12. CASE f < D
  <2> DEFINE x == F * 10 + digit
             q == Q(TakeFraction(p, digit))
  <2>1. x \in Nat /\ f + 1 \in Nat /\ f <= D /\ f + 1 <= D
    BY <1>12
  <2>2. TakeFraction(p, digit) = [p EXCEPT !.fraction = x, !.fraction_digits = f + 1]
    BY <1>6, <1>8, <1>9, <1>12, <2>1 DEF TakeFraction
  <2>3. I * TenTo[f + 1] + x = 10 * v + digit
    <3>1. PICK t \in Nat : t = TenTo[f] /\ TenTo[f + 1] = 10 * t
      BY PowersOfTen
    <3>2. v = I * t + F
      BY <1>9, <2>1, <3>1
    <3>3. I * (10 * t) = 10 * (I * t) /\ I * t \in Nat
      OBVIOUS
    <3>4. PICK y \in Nat : y = I * t
      BY <3>3
    <3>5. 10 * y + (F * 10 + digit) = 10 * (y + F) + digit
      OBVIOUS
    <3> QED BY <3>1, <3>2, <3>3, <3>4, <3>5
  <2> HIDE DEF x
  <2>4. /\ q \in ParserStates /\ q.integer = I /\ q.fraction = x /\ q.fraction_digits = f + 1
        /\ q.extra_first = NoExtra /\ q.extra_nonzero = FALSE
        /\ q.seen_dot = TRUE /\ q.seen_digit = TRUE
    <3>1. q = [[p EXCEPT !.fraction = x, !.fraction_digits = f + 1] EXCEPT !.seen_digit = TRUE]
      BY <2>2, Zenon DEF Q
    <3> HIDE DEF q
    <3>2. /\ q \in ParserStates /\ q.integer = p.integer /\ q.fraction = x /\ q.fraction_digits = f + 1
          /\ q.extra_first = p.extra_first /\ q.extra_nonzero = p.extra_nonzero
          /\ q.seen_dot = p.seen_dot /\ q.seen_digit = TRUE
      <4>1. PICK g \in Nat : g = f + 1
        BY <2>1
      <4>2. q = [[p EXCEPT !.fraction = x, !.fraction_digits = g] EXCEPT !.seen_digit = TRUE] /\ x \in Nat
        BY <2>1, <3>1, <4>1, Zenon
      <4>3. /\ q \in ParserStates /\ q.integer = p.integer /\ q.fraction = x /\ q.fraction_digits = g
            /\ q.extra_first = p.extra_first /\ q.extra_nonzero = p.extra_nonzero
            /\ q.seen_dot = p.seen_dot /\ q.seen_digit = TRUE
        BY <1>7, <4>2 DEF ParserStates
      <4> QED BY <4>1, <4>3
    <3> QED BY <1>7, <1>8, <1>9, <2>1, <3>2
  <2> HIDE DEF q
  <2>5. ~(f + 1 > D)
    BY <2>1
  <2>6. ReadTo(s, c + 1, q)
    BY <1>11, <2>3, <2>4, <2>5
  <2> QED BY <2>6 DEF q
<1>13. CASE f = D
  <2> DEFINE q == Q(TakeFraction(p, digit))
  <2>1. p.fraction_digits = D /\ p.extra_first = NoExtra /\ p.extra_nonzero = FALSE /\ v = I * SCALE + F
    BY <1>6, <1>9, <1>13
  <2>2. TakeFraction(p, digit) = [p EXCEPT !.extra_first = digit]
    BY <1>6, <2>1 DEF TakeFraction
  <2>3. /\ q \in ParserStates /\ q.integer = I /\ q.fraction = F /\ q.fraction_digits = D
        /\ q.extra_first = digit /\ q.extra_nonzero = FALSE
        /\ q.seen_dot = TRUE /\ q.seen_digit = TRUE
    <3>1. q = [[p EXCEPT !.extra_first = digit] EXCEPT !.seen_digit = TRUE]
      BY <2>2, Zenon DEF Q
    <3> HIDE DEF q
    <3>2. /\ q \in ParserStates /\ q.integer = p.integer /\ q.fraction = p.fraction
          /\ q.fraction_digits = p.fraction_digits
          /\ q.extra_first = digit /\ q.extra_nonzero = p.extra_nonzero
          /\ q.seen_dot = p.seen_dot /\ q.seen_digit = TRUE
      BY <1>7, <3>1, TakesExtra, Zenon
    <3> QED BY <1>7, <1>8, <2>1, <3>2
  <2> HIDE DEF q
  <2>4. f + 1 > D /\ (f + 1) - D - 1 = 0 /\ ~(f + 1 <= D)
    BY <1>13
  <2>5. Beyond(q, 10 * v + digit, 1)
    <3>1. 0 \in 0 .. 1 - 1 /\ (q.extra_nonzero <=> 0 # 0)
      BY <2>3
    <3>2. PICK y \in Nat : y = I * SCALE + F
      BY <2>1
    <3>3. 10 * y + digit = (y * 10 + digit) * 1 + 0
      OBVIOUS
    <3>4. 10 * v + digit = ((q.integer * SCALE + q.fraction) * 10 + q.extra_first) * 1 + 0
      BY <2>1, <2>3, <3>2, <3>3
    <3> QED BY <3>1, <3>4 DEF Beyond
  <2>6. Beyond(q, 10 * v + digit, TenTo[(f + 1) - D - 1])
    BY <2>4, <2>5, PowersOfTen
  <2>7. ReadTo(s, c + 1, q)
    BY <1>11, <2>3, <2>4, <2>6
  <2> QED BY <2>7 DEF q
<1>14. CASE f > D
  <2> DEFINE q == Q(TakeFraction(p, digit))
             b == p.extra_nonzero \/ digit # 0
  <2>1. f - D - 1 \in Nat /\ (f + 1) - D - 1 = (f - D - 1) + 1 /\ f + 1 > D /\ ~(f + 1 <= D)
    BY <1>14
  <2>2. PICK G \in Nat \ {0} : G = TenTo[f - D - 1] /\ TenTo[(f + 1) - D - 1] = 10 * G
    <3>1. PICK j \in Nat : j = f - D - 1
      BY <2>1
    <3>2. TenTo[j] \in Nat \ {0} /\ TenTo[j + 1] = 10 * TenTo[j]
      BY PowersOfTen
    <3> QED BY <2>1, <3>1, <3>2
  <2>3. PICK e \in 0 .. 9 : e = p.extra_first
    BY <1>9, <1>14
  <2>4. p.fraction_digits = D /\ Beyond(p, v, G)
    BY <1>9, <1>14, <2>2
  <2>5. TakeFraction(p, digit) = [p EXCEPT !.extra_nonzero = b]
    <3>1. ~(p.fraction_digits < SCALE_DIGITS)
      BY <1>6, <2>4
    <3>2. p.extra_first # NoExtra
      BY <2>3 DEF NoExtra
    <3> QED BY <3>1, <3>2, Zenon DEF TakeFraction
  <2>6. /\ q \in ParserStates /\ q.integer = I /\ q.fraction = F /\ q.fraction_digits = D
        /\ q.extra_first = e /\ q.extra_nonzero = b
        /\ q.seen_dot = TRUE /\ q.seen_digit = TRUE
    <3>1. b \in BOOLEAN
      BY <1>7 DEF ParserStates
    <3> HIDE DEF b
    <3>2. q = [[p EXCEPT !.extra_nonzero = b] EXCEPT !.seen_digit = TRUE]
      BY <2>5, Zenon DEF Q
    <3> HIDE DEF q
    <3>3. /\ q \in ParserStates /\ q.integer = p.integer /\ q.fraction = p.fraction
          /\ q.fraction_digits = p.fraction_digits
          /\ q.extra_first = p.extra_first /\ q.extra_nonzero = b
          /\ q.seen_dot = p.seen_dot /\ q.seen_digit = TRUE
      BY <1>7, <3>1, <3>2, NotesRest, ZenonT(60)
    <3> QED BY <1>7, <1>8, <2>3, <2>4, <3>3
  <2> HIDE DEF q
  <2>7. PICK low \in 0 .. G - 1 : (p.extra_nonzero <=> low # 0) /\ v = ((I * SCALE + F) * 10 + e) * G + low
    BY <1>8, <2>3, <2>4 DEF Beyond
  <2>8. I * SCALE \in Nat
    BY FixedAssumption
  <2>9. PICK X \in Nat : X = (I * SCALE + F) * 10 + e
    BY <2>8
  <2>10. v = X * G + low
    BY <2>7, <2>9
  <2>11. 10 * low + digit \in 0 .. (10 * G) - 1 /\ (b <=> 10 * low + digit # 0)
    BY <2>7
  <2>12. 10 * v + digit = X * (10 * G) + (10 * low + digit)
    <3>1. X * (10 * G) = 10 * (X * G) /\ X * G \in Nat
      OBVIOUS
    <3>2. PICK y \in Nat : y = X * G
      BY <3>1
    <3>3. 10 * (y + low) + digit = 10 * y + (10 * low + digit)
      OBVIOUS
    <3> QED BY <2>10, <3>1, <3>2, <3>3
  <2>13. 10 * v + digit = ((q.integer * SCALE + q.fraction) * 10 + q.extra_first) * (10 * G) + (10 * low + digit)
    BY <2>6, <2>9, <2>12
  <2>14. Beyond(q, 10 * v + digit, 10 * G)
    <3> DEFINE z == 10 * low + digit
    <3>1. z \in 0 .. (10 * G) - 1 /\ (q.extra_nonzero <=> z # 0)
      BY <2>6, <2>11
    <3> HIDE DEF z
    <3> QED BY <2>13, <3>1 DEF Beyond, z
  <2>15. ReadTo(s, c + 1, q)
    BY <1>11, <2>1, <2>2, <2>3, <2>6, <2>14
  <2> QED BY <2>15 DEF q
<1> QED BY <1>12, <1>13, <1>14

-----------------------------------------------------------------------------
(* What is printed, read back.                                             *)

LEMMA PowersGrow ==
  /\ \A n \in Nat : n < TenTo[n]
  /\ \A m, n \in Nat : m <= n => TenTo[m] <= TenTo[n]
<1>1. \A n \in Nat : n < TenTo[n]
  <2> DEFINE S == {n \in Nat : n < TenTo[n]}
  <2>1. 0 \in S
    BY PowersOfTen
  <2>2. ASSUME NEW n \in S PROVE n + 1 \in S
    <3>1. TenTo[n] \in Nat /\ TenTo[n + 1] = 10 * TenTo[n] /\ n < TenTo[n]
      BY PowersOfTen
    <3> QED BY <3>1
  <2>3. S = Nat
    BY <2>1, <2>2, SetInduction
  <2> QED BY <2>3
<1>2. ASSUME NEW m \in Nat, NEW n \in Nat, m <= n PROVE TenTo[m] <= TenTo[n]
  <2>1. n - m \in Nat /\ m + (n - m) = n
    BY <1>2
  <2>2. TenTo[n] = TenTo[m] * TenTo[n - m]
    <3>1. PICK k \in Nat : k = n - m
      BY <2>1
    <3>2. TenTo[m + k] = TenTo[m] * TenTo[k]
      BY TenToSum
    <3> QED BY <2>1, <3>1, <3>2
  <2>3. PICK a \in Nat \ {0}, b \in Nat \ {0} : a = TenTo[m] /\ b = TenTo[n - m]
    BY <2>1, PowersOfTen
  <2>4. a <= a * b
    <3>1. a * b = a * (b - 1) + a /\ a * (b - 1) \in Nat
      OBVIOUS
    <3>2. PICK y \in Nat : y = a * (b - 1)
      BY <3>1
    <3> QED BY <3>1, <3>2
  <2> QED BY <2>2, <2>3, <2>4
<1> QED BY <1>1, <1>2

LEMMA WidthSuffices ==
  ASSUME NEW n \in Nat
  PROVE  Width(n) \in Nat \ {0} /\ n < TenTo[Width(n)]
<1> DEFINE U == {w \in Nat : w >= 1 /\ n < TenTo[w]}
<1>1. n + 1 \in U
  <2>1. n < TenTo[n] /\ TenTo[n] <= TenTo[n + 1] /\ TenTo[n] \in Nat /\ TenTo[n + 1] \in Nat
    BY PowersGrow, PowersOfTen
  <2> QED BY <2>1
<1>2. PICK w \in U : \A m \in U : w <= m
  BY <1>1, LeastNatural
<1>3. w \in 1 .. n + 1 /\ n < TenTo[w]
  BY <1>1, <1>2
<1>4. w > 1 => TenTo[w - 1] <= n
  <2> SUFFICES ASSUME w > 1, ~(TenTo[w - 1] <= n) PROVE FALSE
    OBVIOUS
  <2>1. w - 1 \in Nat /\ w - 1 >= 1 /\ TenTo[w - 1] \in Nat
    BY <1>3, PowersOfTen
  <2>2. w - 1 \in U
    BY <2>1
  <2>3. w <= w - 1
    BY <1>2, <2>2
  <2> QED BY <1>3, <2>3
<1> HIDE DEF U
<1>5. \E v \in 1 .. n + 1 : n < TenTo[v] /\ (v > 1 => TenTo[v - 1] <= n)
  BY <1>3, <1>4
<1>6. Width(n) \in 1 .. n + 1 /\ n < TenTo[Width(n)]
  BY <1>5 DEF Width
<1> QED BY <1>6

LEMMA PaddedDigit ==
  ASSUME NEW n \in Nat, NEW width \in Nat
  PROVE  /\ Padded(n, width) \in Seq(0 .. 9) /\ Padded(n, width) \in Seq(Int)
         /\ Len(Padded(n, width)) = width
         /\ \A i \in 1 .. width : Padded(n, width)[i] = (n \div TenTo[width - i]) % 10
<1>1. ASSUME NEW i \in 1 .. width PROVE (n \div TenTo[width - i]) % 10 \in 0 .. 9
  <2>1. TenTo[width - i] \in Nat \ {0}
    BY PowersOfTen
  <2>2. n \div TenTo[width - i] \in Int
    BY <2>1
  <2> QED BY <2>2
<1>2. Padded(n, width) \in [1 .. width -> 0 .. 9]
  BY <1>1 DEF Padded
<1> QED BY <1>2 DEF Padded

(* n \div d is read from n \div (10 * d) and the digit that follows. *)
LEMMA NextDigit ==
  ASSUME NEW n \in Nat, NEW d \in Nat \ {0}
  PROVE  n \div d \in Nat /\ n \div d = 10 * (n \div (10 * d)) + ((n \div d) % 10)
<1>1. PICK q \in Nat, r \in 0 .. d - 1 : q = n \div d /\ n = d * q + r
  BY DivMod
<1>2. PICK a \in Nat, b \in 0 .. 9 : a = q \div 10 /\ b = q % 10 /\ q = 10 * a + b
  <2>1. q = 10 * (q \div 10) + (q % 10) /\ q \div 10 \in Nat /\ q % 10 \in 0 .. 9
    OBVIOUS
  <2> QED BY <2>1
<1>3. n = (10 * d) * a + (d * b + r)
  <2>1. d * (10 * a + b) = (10 * d) * a + d * b
    OBVIOUS
  <2>2. n = d * (10 * a + b) + r
    BY <1>1, <1>2
  <2>3. PICK x \in Nat, y \in Nat : x = (10 * d) * a /\ y = d * b
    OBVIOUS
  <2>4. n = (x + y) + r
    BY <2>1, <2>2, <2>3
  <2> QED BY <2>3, <2>4
<1>4. d * b + r \in 0 .. (10 * d) - 1
  <2>1. d * b <= d * 9 /\ d * b \in Nat
    BY SMT
  <2>2. PICK y \in Nat : y = d * b
    BY <2>1
  <2> QED BY <2>1, <2>2
<1>5. n \div (10 * d) = a
  BY <1>3, <1>4, QuotientIs
<1> QED BY <1>1, <1>2, <1>5

LEMMA PaddedWrites ==
  ASSUME NEW n \in Nat, NEW width \in Nat, n < TenTo[width], NEW k \in 0 .. width
  PROVE  Written(Padded(n, width))[k] = n \div TenTo[width - k]
<1> DEFINE s == Padded(n, width)
           S == {j \in Nat : j <= width => Written(s)[j] = n \div TenTo[width - j]}
<1>1. s \in Seq(Int) /\ Len(s) = width
  BY PaddedDigit
<1>2. 0 \in S
  <2>1. PICK t \in Nat \ {0} : t = TenTo[width] /\ n < t
    BY PowersOfTen
  <2>2. n \in 0 .. t - 1 /\ n = t * 0 + n
    BY <2>1
  <2>3. n \div t = 0
    BY <2>2, QuotientIs
  <2>4. Written(s)[0] = 0
    BY <1>1, WrittenDef
  <2> QED BY <2>1, <2>3, <2>4
<1>3. ASSUME NEW j \in S PROVE j + 1 \in S
  <2> SUFFICES ASSUME j + 1 <= width PROVE Written(s)[j + 1] = n \div TenTo[width - (j + 1)]
    OBVIOUS
  <2>1. PICK m \in Nat : m = width - (j + 1) /\ m + 1 = width - j
    OBVIOUS
  <2>2. PICK d \in Nat \ {0} : d = TenTo[m] /\ TenTo[m + 1] = 10 * d
    BY PowersOfTen
  <2>3. j + 1 \in 1 .. width /\ (j + 1) - 1 = j
    OBVIOUS
  <2>4. s[j + 1] = (n \div d) % 10
    BY <2>1, <2>2, <2>3, PaddedDigit
  <2>5. s[j + 1] \in 0 .. 9
    <3>1. s \in Seq(0 .. 9)
      BY PaddedDigit
    <3> HIDE DEF s
    <3> QED BY <1>1, <2>3, <3>1
  <2>6. Written(s)[j + 1] = 10 * Written(s)[j] + s[j + 1]
    BY <1>1, <2>3, <2>5, WrittenDef, Zenon
  <2>7. Written(s)[j] = n \div (10 * d)
    BY <2>1, <2>2
  <2>8. n \div d = 10 * (n \div (10 * d)) + ((n \div d) % 10)
    BY NextDigit
  <2> QED BY <2>1, <2>2, <2>4, <2>6, <2>7, <2>8
<1>4. S = Nat
  BY <1>2, <1>3, SetInduction
<1>5. k \in S
  BY <1>4
<1> QED BY <1>5

(* A text that continues writes on from where its first part ended.        *)
LEMMA WrittenConcat ==
  ASSUME NEW s \in Seq(Int), NEW t \in Seq(Int)
  PROVE  /\ \A k \in 0 .. Len(s) : Written(s \o t)[k] = Written(s)[k]
         /\ (\A k \in 1 .. Len(t) : t[k] \in 0 .. 9) =>
              \A k \in 0 .. Len(t) :
                Written(s \o t)[Len(s) + k] = Written(s)[Len(s)] * TenTo[k] + Written(t)[k]
<1> DEFINE u == s \o t
<1>1. /\ u \in Seq(Int) /\ Len(u) = Len(s) + Len(t)
      /\ \A k \in 1 .. Len(s) : u[k] = s[k]
      /\ \A k \in 1 .. Len(t) : u[Len(s) + k] = t[k]
  <2>1. Len(s) \in Nat /\ Len(t) \in Nat
    OBVIOUS
  <2> QED BY <2>1
<1>2. Len(s) \in Nat /\ Len(t) \in Nat
  OBVIOUS
<1> HIDE DEF u
<1>3. ASSUME NEW k \in 0 .. Len(s) PROVE Written(u)[k] = Written(s)[k]
  <2> DEFINE S == {j \in Nat : j <= Len(s) => Written(u)[j] = Written(s)[j]}
  <2>1. 0 \in S
    BY <1>1, WrittenDef
  <2>2. ASSUME NEW j \in S PROVE j + 1 \in S
    <3> SUFFICES ASSUME j + 1 <= Len(s) PROVE Written(u)[j + 1] = Written(s)[j + 1]
      OBVIOUS
    <3>1. j + 1 \in 1 .. Len(s) /\ j + 1 \in 1 .. Len(u) /\ (j + 1) - 1 = j
      BY <1>1, <1>2
    <3>2. Written(u)[j + 1] = IF u[j + 1] \in 0 .. 9 THEN 10 * Written(u)[j] + u[j + 1] ELSE Written(u)[j]
      BY <1>1, <3>1, WrittenDef, Zenon
    <3>3. Written(s)[j + 1] = IF s[j + 1] \in 0 .. 9 THEN 10 * Written(s)[j] + s[j + 1] ELSE Written(s)[j]
      BY <3>1, WrittenDef, Zenon
    <3>4. Written(u)[j] = Written(s)[j] /\ u[j + 1] = s[j + 1]
      BY <1>1, <3>1, SMTT(40)
    <3> QED BY <3>2, <3>3, <3>4
  <2>3. S = Nat
    BY <2>1, <2>2, SetInduction
  <2>4. k \in S
    BY <2>3
  <2> QED BY <2>4
<1>4. ASSUME \A k \in 1 .. Len(t) : t[k] \in 0 .. 9, NEW k \in 0 .. Len(t)
      PROVE  Written(u)[Len(s) + k] = Written(s)[Len(s)] * TenTo[k] + Written(t)[k]
  <2> DEFINE a == Written(s)[Len(s)]
             S == {j \in Nat : j <= Len(t) => Written(u)[Len(s) + j] = a * TenTo[j] + Written(t)[j]}
  <2>1. a \in Nat /\ Written(u)[Len(s)] = a
    BY <1>2, <1>3, WrittenDef
  <2> HIDE DEF a
  <2>2. 0 \in S
    <3>1. Len(s) + 0 = Len(s) /\ TenTo[0] = 1 /\ Written(t)[0] = 0
      BY <1>2, WrittenDef, PowersOfTen
    <3>2. a = a * 1 + 0
      BY <2>1
    <3> QED BY <2>1, <3>1, <3>2
  <2>3. ASSUME NEW j \in S PROVE j + 1 \in S
    <3> SUFFICES ASSUME j + 1 <= Len(t) PROVE Written(u)[Len(s) + (j + 1)] = a * TenTo[j + 1] + Written(t)[j + 1]
      OBVIOUS
    <3>1. j + 1 \in 1 .. Len(t) /\ j \in 0 .. Len(t) /\ (j + 1) - 1 = j
      OBVIOUS
    <3>2. PICK i \in Nat : i = Len(s) + j /\ i + 1 = Len(s) + (j + 1) /\ i + 1 \in 1 .. Len(u) /\ (i + 1) - 1 = i
      BY <1>1, <1>2, SMTT(40)
    <3>3. PICK c \in 0 .. 9 : c = t[j + 1] /\ u[i + 1] = c
      BY <1>1, <1>4, <3>1, <3>2
    <3>4. Written(u)[i + 1] = 10 * Written(u)[i] + c
      BY <1>1, <3>2, <3>3, WrittenDef, Zenon
    <3>5. Written(t)[j + 1] = 10 * Written(t)[j] + c
      BY <3>1, <3>3, WrittenDef, Zenon
    <3>6. PICK x \in Nat, y \in Nat : x = TenTo[j] /\ TenTo[j + 1] = 10 * x /\ y = Written(t)[j]
      BY <3>1, PowersOfTen, WrittenDef
    <3>7. Written(u)[i] = a * x + y
      BY <3>1, <3>2, <3>6
    <3>8. a * (10 * x) = 10 * (a * x) /\ a * x \in Nat
      BY <2>1
    <3>9. PICK z \in Nat : z = a * x
      BY <3>8
    <3>10. 10 * (z + y) + c = 10 * z + (10 * y + c)
      OBVIOUS
    <3> QED BY <3>2, <3>4, <3>5, <3>6, <3>7, <3>8, <3>9, <3>10
  <2>4. S = Nat
    BY <2>2, <2>3, SetInduction
  <2>5. k \in Nat /\ k <= Len(t)
    BY <1>2
  <2>6. k \in S
    <3> HIDE DEF S
    <3> QED BY <2>4, <2>5
  <2>7. Written(u)[Len(s) + k] = a * TenTo[k] + Written(t)[k]
    BY <2>5, <2>6
  <2> QED BY <2>7 DEF a
<1> QED BY <1>3, <1>4 DEF u

LEMMA PaddedReads ==
  ASSUME NEW n \in Nat, NEW width \in Nat, n < TenTo[width]
  PROVE  Written(Padded(n, width))[width] = n
<1>1. width \in 0 .. width /\ width - width = 0
  OBVIOUS
<1>2. Written(Padded(n, width))[width] = n \div TenTo[0]
  BY <1>1, PaddedWrites
<1>3. n \div 1 = n
  BY QuotientIs
<1> QED BY <1>2, <1>3, PowersOfTen

(* The part of a displayed value after its sign.                           *)
DisplayedBody(m) == WholeDigits(m \div SCALE) \o <<DOT>> \o PaddedDigits(m % SCALE)

LEMMA DisplayedIs ==
  ASSUME NEW m \in Nat
  PROVE  /\ DisplayedBody(m) \in Seq(Int) /\ Len(DisplayedBody(m)) > 0
         /\ DisplayedBody(m)[1] \in 0 .. 9
         /\ WellFormed(DisplayedBody(m)) /\ DenotedUnits(DisplayedBody(m)) = m
<1> DEFINE a == m \div SCALE
           b == m % SCALE
           w == WholeDigits(a)
           f == PaddedDigits(b)
           u == w \o <<DOT>>
           s == u \o f
           n == Width(a)
<1>1. a \in Nat /\ b \in 0 .. SCALE - 1 /\ m = SCALE * a + b /\ SCALE \in Nat /\ SCALE >= 2
  BY DivMod, FixedAssumption
<1>2. n \in Nat \ {0} /\ a < TenTo[n] /\ SCALE_DIGITS \in Nat \ {0} /\ TenTo[SCALE_DIGITS] = SCALE
  BY <1>1, WidthSuffices, ScaleDigits
<1>3. w \in Seq(0 .. 9) /\ w \in Seq(Int) /\ Len(w) = n /\ Written(w)[n] = a
  BY <1>1, <1>2, PaddedDigit, PaddedReads DEF WholeDigits
<1>4. f \in Seq(0 .. 9) /\ f \in Seq(Int) /\ Len(f) = SCALE_DIGITS /\ Written(f)[SCALE_DIGITS] = b
  <2> HIDE DEF b
  <2>1. b \in Nat /\ b < TenTo[SCALE_DIGITS] /\ SCALE_DIGITS \in Nat
    BY <1>1, <1>2
  <2> QED BY <2>1, PaddedDigit, PaddedReads DEF PaddedDigits
<1>5. DisplayedBody(m) = s
  BY DEF DisplayedBody
<1> HIDE DEF n, w, f, a, b
<1>6. u \in Seq(Int) /\ Len(u) = n + 1 /\ u[n + 1] = DOT /\ \A k \in 1 .. n : u[k] = w[k]
  BY <1>2, <1>3 DEF DOT
<1> HIDE DEF u
<1>7. /\ s \in Seq(Int) /\ Len(s) = n + 1 + SCALE_DIGITS
      /\ \A k \in 1 .. n + 1 : s[k] = u[k]
      /\ \A k \in 1 .. SCALE_DIGITS : s[n + 1 + k] = f[k]
  <2>1. /\ s \in Seq(Int) /\ Len(s) = Len(u) + Len(f)
        /\ \A k \in 1 .. Len(u) + Len(f) : s[k] = IF k <= Len(u) THEN u[k] ELSE f[k - Len(u)]
    BY <1>4, <1>6, ConcatProperties
  <2> HIDE DEF s
  <2>2. Len(s) = n + 1 + SCALE_DIGITS
    BY <1>4, <1>6, <2>1
  <2>3. \A k \in 1 .. n + 1 : s[k] = u[k]
    BY <1>2, <1>4, <1>6, <2>1
  <2>4. ASSUME NEW k \in 1 .. SCALE_DIGITS PROVE s[n + 1 + k] = f[k]
    <3>1. n + 1 + k \in 1 .. Len(u) + Len(f) /\ ~(n + 1 + k <= Len(u)) /\ (n + 1 + k) - Len(u) = k
      BY <1>2, <1>4, <1>6
    <3> QED BY <2>1, <3>1
  <2> QED BY <2>1, <2>2, <2>3, <2>4
<1>8. /\ \A k \in 1 .. n : s[k] \in 0 .. 9
      /\ s[n + 1] = DOT
      /\ \A k \in n + 2 .. Len(s) : s[k] \in 0 .. 9
  <2>1. \A k \in 1 .. n : w[k] \in 0 .. 9
    BY <1>3
  <2>2. \A k \in 1 .. SCALE_DIGITS : f[k] \in 0 .. 9
    BY <1>4
  <2>3. ASSUME NEW k \in 1 .. n PROVE s[k] \in 0 .. 9
    <3>1. s[k] = u[k] /\ u[k] = w[k]
      BY <1>2, <1>6, <1>7
    <3> QED BY <2>1, <3>1
  <2>4. s[n + 1] = DOT
    BY <1>2, <1>6, <1>7
  <2>5. ASSUME NEW k \in n + 2 .. Len(s) PROVE s[k] \in 0 .. 9
    <3>1. PICK j \in 1 .. SCALE_DIGITS : k = n + 1 + j
      <4>1. k - (n + 1) \in 1 .. SCALE_DIGITS /\ k = n + 1 + (k - (n + 1))
        BY <1>2, <1>7
      <4> QED BY <4>1
    <3> QED BY <1>7, <2>2, <3>1
  <2> QED BY <2>3, <2>4, <2>5
<1>9. Written(s)[Len(s)] = m
  <2>1. Written(u)[n + 1] = a
    <3>1. Written(u)[n + 1] = Written(u)[n]
      <4>1. n + 1 \in 1 .. Len(u) /\ u[n + 1] \notin 0 .. 9 /\ (n + 1) - 1 = n
        BY <1>2, <1>6 DEF DOT
      <4> QED BY <1>6, <4>1, WrittenDef, Zenon
    <3>2. <<DOT>> \in Seq(Int) /\ n \in 0 .. Len(w)
      BY <1>2, <1>3 DEF DOT
    <3>3. Written(u)[n] = Written(w)[n]
      BY <1>3, <3>2, WrittenConcat DEF u
    <3> QED BY <1>3, <3>1, <3>3
  <2>2. \A k \in 1 .. Len(f) : f[k] \in 0 .. 9
    BY <1>4
  <2>3. SCALE_DIGITS \in 0 .. Len(f)
    BY <1>2, <1>4
  <2>4. Written(s)[Len(u) + SCALE_DIGITS] = Written(u)[Len(u)] * TenTo[SCALE_DIGITS] + Written(f)[SCALE_DIGITS]
    BY <1>4, <1>6, <2>2, <2>3, WrittenConcat
  <2>5. Written(s)[Len(s)] = a * SCALE + b
    BY <1>2, <1>4, <1>6, <1>7, <2>1, <2>4
  <2>6. a * SCALE = SCALE * a
    BY <1>1
  <2> QED BY <1>1, <2>5, <2>6
<1> HIDE DEF s
<1>10. Point(s) = n + 1
  <2>1. Point(s) \in 0 .. Len(s) /\ n + 1 \in 1 .. Len(s)
    BY <1>2, <1>7, PointFacts
  <2>2. Point(s) # 0
    BY <1>7, <1>8, <2>1, PointFacts
  <2>3. s[Point(s)] = DOT /\ Point(s) <= n + 1 /\ Point(s) \in 1 .. Len(s)
    BY <1>7, <1>8, <2>1, <2>2, PointFacts
  <2>4. Point(s) \notin 1 .. n
    BY <1>8, <2>3 DEF DOT
  <2> QED BY <1>2, <2>3, <2>4
<1>11. Places(s) = SCALE_DIGITS
  BY <1>2, <1>7, <1>10 DEF Places
<1>12. WellFormed(s)
  <2>1. 1 \in 1 .. Len(s) /\ s[1] \in 0 .. 9
    BY <1>2, <1>7, <1>8
  <2>2. \A k \in 1 .. Len(s) : s[k] \in 0 .. 9 \/ k = Point(s)
    BY <1>2, <1>7, <1>8, <1>10
  <2> QED BY <2>1, <2>2 DEF WellFormed
<1>13. DenotedUnits(s) = m
  <2>1. DenotedUnits(s) = RoundedQuotient(m * SCALE, SCALE)
    BY <1>2, <1>9, <1>11 DEF DenotedUnits, Denoted
  <2>2. m * SCALE = SCALE * m
    BY <1>1
  <2>3. RoundedQuotient(SCALE * m, SCALE) = m
    BY <1>1, RoundedExactly
  <2> QED BY <2>1, <2>2, <2>3
<1>14. Len(s) > 0 /\ s[1] \in 0 .. 9
  BY <1>2, <1>7, <1>8
<1> QED BY <1>5, <1>7, <1>12, <1>13, <1>14

LEMMA DisplayFacts ==
  ASSUME NEW x \in Int
  PROVE  /\ Display(x) \in Seq(Int)
         /\ Unsigned(Display(x)) = DisplayedBody(Magnitude(x))
         /\ HasSign(Display(x)) /\ Head(Display(x)) = MINUS <=> x < 0
<1> DEFINE m == Magnitude(x)
           B == DisplayedBody(m)
<1>1. m \in Nat
  BY DEF Magnitude
<1>2. B \in Seq(Int) /\ Len(B) > 0 /\ B[1] \in 0 .. 9
  BY <1>1, DisplayedIs
<1>3. Display(x) = (IF x < 0 THEN <<MINUS>> ELSE <<>>) \o B
  <2> DEFINE w == WholeDigits(m \div SCALE)
             f == PaddedDigits(m % SCALE)
  <2>1. m \div SCALE \in Nat /\ m % SCALE \in Nat
    BY <1>1, DivMod, FixedAssumption
  <2>2. w \in Seq(Int) /\ f \in Seq(Int)
    BY <2>1, PaddedDigit, WidthSuffices, ScaleDigits DEF WholeDigits, PaddedDigits
  <2>3. Display(x) = (IF x < 0 THEN <<MINUS>> ELSE <<>>) \o w \o <<DOT>> \o f
    BY DEF Display
  <2>4. B = w \o <<DOT>> \o f
    BY DEF DisplayedBody
  <2> HIDE DEF w, f, B
  <2>5. ASSUME NEW g \in Seq(Int) PROVE g \o w \o <<DOT>> \o f = g \o (w \o <<DOT>> \o f)
    <3>1. <<DOT>> \in Seq(Int) /\ w \o <<DOT>> \in Seq(Int)
      BY <2>2 DEF DOT
    <3> HIDE DEF DOT
    <3>2. (g \o w) \o <<DOT>> = g \o (w \o <<DOT>>)
      BY <2>2, <3>1, ConcatAssociative, SMTT(40)
    <3>3. PICK h \in Seq(Int) : h = w \o <<DOT>>
      BY <3>1
    <3>4. (g \o h) \o f = g \o (h \o f)
      BY <2>2, ConcatAssociative, SMTT(40)
    <3> QED BY <3>2, <3>3, <3>4
  <2>6. <<MINUS>> \in Seq(Int) /\ <<>> \in Seq(Int)
    BY DEF MINUS
  <2> QED BY <2>3, <2>4, <2>5, <2>6
<1> HIDE DEF B, m
<1>4. CASE x < 0
  <2>1. Display(x) = <<MINUS>> \o B
    BY <1>3, <1>4
  <2>2. Display(x) \in Seq(Int) /\ Head(Display(x)) = MINUS /\ Tail(Display(x)) = B /\ Display(x) # <<>>
    <3>1. <<MINUS>> \in Seq(Int) /\ Len(<<MINUS>>) = 1 /\ <<MINUS>>[1] = MINUS /\ Len(B) \in Nat
      BY <1>2 DEF MINUS
    <3>2. PICK d \in Seq(Int) : d = Display(x) /\ Len(d) = 1 + Len(B) /\ d[1] = MINUS /\ \A k \in 1 .. Len(B) : d[k + 1] = B[k]
      <4>1. PICK h \in Seq(Int) : h = <<MINUS>> /\ Len(h) = 1 /\ h[1] = MINUS
        BY <3>1
      <4>2. h \o B \in Seq(Int) /\ Len(h \o B) = 1 + Len(B) /\ (h \o B)[1] = MINUS
        BY <1>2, <3>1, <4>1
      <4>3. \A k \in 1 .. Len(B) : (h \o B)[k + 1] = B[k]
        BY <1>2, <3>1, <4>1
      <4> QED BY <2>1, <4>1, <4>2, <4>3
    <3>3. d # <<>>
      BY <3>1, <3>2
    <3>4. Tail(d) \in Seq(Int) /\ Len(Tail(d)) = Len(B) /\ \A k \in 1 .. Len(Tail(d)) : Tail(d)[k] = B[k]
      BY <3>1, <3>2, <3>3
    <3>5. Tail(d) = B
      BY <1>2, <3>4, SeqEqual
    <3>6. Head(d) = MINUS
      BY <3>2, <3>3
    <3> QED BY <3>2, <3>3, <3>5, <3>6
  <2> QED BY <1>4, <2>2 DEF HasSign, Unsigned, m, B
<1>5. CASE ~(x < 0)
  <2>1. Display(x) = B
    BY <1>2, <1>3, <1>5
  <2>2. Head(B) \notin {MINUS, PLUS}
    BY <1>2 DEF MINUS, PLUS
  <2> QED BY <1>2, <1>5, <2>1, <2>2 DEF HasSign, Unsigned, m, B
<1> QED BY <1>4, <1>5

-----------------------------------------------------------------------------
(* The parser of a run.                                                    *)

ParserInv ==
  /\ text \in Seq(Int)
  /\ negative = (HasSign(text) /\ Head(text) = MINUS)
  /\ \E c \in 0 .. Len(Body) : rest = SubSeq(Body, c + 1, Len(Body)) /\ ReadTo(Body, c, parser)
  /\ outcome # Pending => Verdict(Body, negative, outcome)
  /\ \A x \in shown : x \in Range128 /\ text = Display(x)

LEMMA UnsignedType ==
  ASSUME NEW t \in Seq(Int)
  PROVE  Unsigned(t) \in Seq(Int)
  BY DEF Unsigned, HasSign

(* The rest of a text: its first symbol and what follows. *)
LEMMA RestFacts ==
  ASSUME NEW s \in Seq(Int), NEW c \in 0 .. Len(s), NEW r, r = SubSeq(s, c + 1, Len(s))
  PROVE  /\ r = <<>> <=> c = Len(s)
         /\ r # <<>> => /\ c \in 0 .. Len(s) - 1 /\ c + 1 \in 0 .. Len(s)
                        /\ Head(r) = s[c + 1] /\ Head(r) \in Int
                        /\ Tail(r) = SubSeq(s, (c + 1) + 1, Len(s))
<1>1. CASE c = Len(s)
  BY <1>1, SubSeqEmpty
<1>2. CASE c # Len(s)
  <2>1. c + 1 \in 1 .. Len(s) /\ Len(s) \in c + 1 .. Len(s) /\ c \in 0 .. Len(s) - 1 /\ c + 1 \in 0 .. Len(s)
    BY <1>2
  <2>2. Head(r) = s[c + 1] /\ Tail(r) = SubSeq(s, (c + 1) + 1, Len(s))
    BY <2>1, HeadTailOfSubSeq
  <2>3. Len(r) = Len(s) - c
    BY <2>1
  <2>4. s[c + 1] \in Int
    BY <2>1
  <2>5. r # <<>>
    <3>1. PICK n \in Int, m \in Int : n = Len(s) /\ m = c
      BY <2>1
    <3>2. n - m # 0
      BY <1>2, <3>1
    <3>3. Len(r) # 0
      BY <2>3, <3>1, <3>2
    <3> QED BY <3>3
  <2> QED BY <1>2, <2>1, <2>2, <2>4, <2>5
<1> QED BY <1>1, <1>2

(* A text that from_str takes up; Idle stands for no parse at all. *)
LEMMA ParserStarts ==
  ASSUME NEW t \in Seq(Int), NEW o \in {Pending, Err("InvalidDecimal"), Idle},
         o # Pending => Unsigned(t) = <<>>
  PROVE  /\ \E c \in 0 .. Len(Unsigned(t)) :
              Unsigned(t) = SubSeq(Unsigned(t), c + 1, Len(Unsigned(t))) /\ ReadTo(Unsigned(t), c, DefaultParser)
         /\ \A neg : o # Pending => Verdict(Unsigned(t), neg, o)
<1>1. PICK s \in Seq(Int) : s = Unsigned(t)
  BY UnsignedType
<1>2. ReadTo(s, 0, DefaultParser) /\ 0 \in 0 .. Len(s)
  BY StartReads
<1>3. s = SubSeq(s, 0 + 1, Len(s))
  BY SubSeqFull
<1>4. ASSUME NEW neg, o # Pending PROVE Verdict(s, neg, o)
  <2>1. s = <<>>
    BY <1>1, <1>4
  <2>2. ~WellFormed(s)
    BY <2>1 DEF WellFormed
  <2>3. o.ok = FALSE
    BY <1>4 DEF Err, Idle
  <2> QED BY <2>2, <2>3 DEF Verdict
<1> QED BY <1>1, <1>2, <1>3, <1>4

LEMMA SignedTextsType == SignedTexts \subseteq Seq(Int)
<1>1. Symbols \subseteq Int
  BY DecimalAssumption DEF Symbols, DOT, OTHER_BYTE
<1>2. ASSUME NEW n \in Nat, NEW f \in [1 .. n -> Symbols] PROVE f \in Seq(Int)
  <2>1. f \in [1 .. n -> Int]
    BY <1>1
  <2> QED BY <2>1
<1>3. ShortTexts \subseteq Seq(Int)
  BY <1>2, DecimalAssumption DEF ShortTexts
<1>4. <<>> \in Seq(Int) /\ <<MINUS>> \in Seq(Int) /\ <<PLUS>> \in Seq(Int)
  BY DEF MINUS, PLUS
<1> SUFFICES ASSUME NEW t \in SignedTexts PROVE t \in Seq(Int)
  OBVIOUS
<1> PICK digits \in ShortTexts : t \in {sign \o digits : sign \in {<<>>, <<MINUS>>, <<PLUS>>}}
  BY DEF SignedTexts
<1> PICK sign \in {<<>>, <<MINUS>>, <<PLUS>>} : t = sign \o digits
  OBVIOUS
<1>5. PICK a \in Seq(Int), b \in Seq(Int) : a = sign /\ b = digits
  BY <1>3, <1>4
<1>6. a \o b \in Seq(Int)
  OBVIOUS
<1> QED BY <1>5, <1>6

LEMMA ParserInit == DefaultsInit => ParserInv
<1> SUFFICES ASSUME DefaultsInit PROVE ParserInv
  OBVIOUS
<1>1. CASE Init
  <2>1. text \in Seq(Int)
    <3>1. \A x \in Range128 : x \in Int
      BY FixedAssumption DEF Range128, MIN
    <3> QED BY <1>1, <3>1, SignedTextsType, DisplayFacts DEF Init
  <2>2. outcome \in {Pending, Err("InvalidDecimal"), Idle} /\ (outcome # Pending => Unsigned(text) = <<>>)
    BY <1>1 DEF Init
  <2>3. /\ \E c \in 0 .. Len(Body) : rest = SubSeq(Body, c + 1, Len(Body)) /\ ReadTo(Body, c, parser)
        /\ outcome # Pending => Verdict(Body, negative, outcome)
    BY <1>1, <2>1, <2>2, ParserStarts DEF Init, Body
  <2>4. \A x \in shown : x \in Range128 /\ text = Display(x)
    BY <1>1 DEF Init
  <2>5. negative = (HasSign(text) /\ Head(text) = MINUS)
    BY <1>1 DEF Init
  <2> QED BY <2>1, <2>3, <2>4, <2>5 DEF ParserInv
<1>2. CASE /\ text = <<>> /\ shown = {} /\ negative = FALSE /\ rest = <<>>
           /\ parser = DefaultParser /\ outcome = Idle
  <2>1. text \in Seq(Int) /\ Unsigned(text) = <<>> /\ ~HasSign(text)
    BY <1>2 DEF Unsigned, HasSign
  <2>2. /\ \E c \in 0 .. Len(Body) : rest = SubSeq(Body, c + 1, Len(Body)) /\ ReadTo(Body, c, parser)
        /\ outcome # Pending => Verdict(Body, negative, outcome)
    BY <1>2, <2>1, ParserStarts DEF Body
  <2> QED BY <1>2, <2>1, <2>2 DEF ParserInv
<1> QED BY <1>1, <1>2 DEF DefaultsInit

(* What a step of the parser has to show. *)
LEMMA ParserAdvances ==
  ASSUME ParserInv, UNCHANGED <<text, shown, negative>>,
         \E c \in 0 .. Len(Body) : rest' = SubSeq(Body, c + 1, Len(Body)) /\ ReadTo(Body, c, parser'),
         outcome' # Pending => Verdict(Body, negative, outcome')
  PROVE  ParserInv'
  BY DEF ParserInv, Body

LEMMA ParserNext == ParserInv /\ Next => ParserInv'
<1> SUFFICES ASSUME ParserInv, Next PROVE ParserInv'
  OBVIOUS
<1>1. PICK s \in Seq(Int) : s = Body
  BY UnsignedType DEF ParserInv, Body
<1>2. PICK c \in 0 .. Len(s) : rest = SubSeq(s, c + 1, Len(s)) /\ ReadTo(s, c, parser)
  BY <1>1 DEF ParserInv
<1>3. /\ rest = <<>> <=> c = Len(s)
      /\ rest # <<>> => /\ c \in 0 .. Len(s) - 1 /\ c + 1 \in 0 .. Len(s)
                        /\ Head(rest) = s[c + 1] /\ Head(rest) \in Int
                        /\ Tail(rest) = SubSeq(s, (c + 1) + 1, Len(s))
  BY <1>2, RestFacts
<1>4. outcome # Pending => Verdict(s, negative, outcome)
  BY <1>1 DEF ParserInv
<1>5. CASE ConsumeDot
  <2>1. ReadTo(s, c + 1, parser')
    BY <1>2, <1>3, <1>5, DotRead DEF ConsumeDot
  <2>2. c + 1 \in 0 .. Len(s) /\ rest' = SubSeq(s, (c + 1) + 1, Len(s))
    BY <1>3, <1>5 DEF ConsumeDot
  <2>3. UNCHANGED <<text, shown, negative, outcome>>
    BY <1>5 DEF ConsumeDot
  <2> QED BY <1>1, <1>4, <2>1, <2>2, <2>3, ParserAdvances
<1>6. CASE ConsumeInvalid
  <2>1. ~WellFormed(s)
    BY <1>2, <1>3, <1>6, InvalidIsMalformed DEF ConsumeInvalid
  <2>2. outcome' = Err("InvalidDecimal") /\ UNCHANGED <<text, shown, negative, rest, parser>>
    BY <1>6 DEF ConsumeInvalid
  <2>3. Verdict(s, negative, outcome')
    BY <2>1, <2>2 DEF Verdict, Err
  <2> QED BY <1>1, <1>2, <2>2, <2>3, ParserAdvances
<1>7. CASE ConsumeInteger
  <2> DEFINE n == parser.integer * 10 + s[c + 1]
  <2>1. /\ n \in Nat
        /\ n <= MAX => ReadTo(s, c + 1, [parser EXCEPT !.integer = n, !.seen_digit = TRUE])
        /\ n > MAX => ~(WellFormed(s) /\ DenotedUnits(s) <= MAX)
    BY <1>2, <1>3, <1>7, IntegerRead DEF ConsumeInteger
  <2>2. UNCHANGED <<text, shown, negative>>
    BY <1>7 DEF ConsumeInteger
  <2>3. parser.integer \in Nat /\ s[c + 1] \in Nat /\ MAX \in Nat
    <3>1. parser.integer \in Nat
      BY <1>2 DEF ReadTo, ParserStates
    <3>2. Head(rest) \in 0 .. 9 /\ Head(rest) = s[c + 1]
      BY <1>3, <1>7 DEF ConsumeInteger
    <3> QED BY <3>1, <3>2, FixedAssumption, SMTT(40)
  <2> DEFINE grown == AndThen(Checked(parser.integer * 10), LAMBDA k : Checked(k + Head(rest)))
  <2>4. IF n <= MAX THEN grown = Ok(n) ELSE grown = Err("Overflow")
    <3>1. PICK i \in Nat, d \in Nat : i = parser.integer /\ d = s[c + 1] /\ d = Head(rest)
      BY <1>3, <1>7, <2>3 DEF ConsumeInteger
    <3>2. i * 10 \in Nat /\ i * 10 + d \in Nat /\ (i * 10 + d <= MAX => i * 10 <= MAX)
      BY <2>3, <3>1, SMTT(40)
    <3>3. \A v \in Nat : Checked(v) = IF v <= MAX THEN Ok(v) ELSE Err("Overflow")
      BY <2>3 DEF Checked, Range128, MIN
    <3>4. grown = IF i * 10 <= MAX THEN Checked(i * 10 + d) ELSE Err("Overflow")
      <4>1. Checked(i * 10) = IF i * 10 <= MAX THEN Ok(i * 10) ELSE Err("Overflow")
        BY <3>2, <3>3
      <4>2. grown = IF Checked(i * 10).ok THEN Checked(Checked(i * 10).val + d) ELSE Checked(i * 10)
        BY <3>1 DEF AndThen
      <4>3. CASE i * 10 <= MAX
        BY <4>1, <4>2, <4>3 DEF Ok
      <4>4. CASE ~(i * 10 <= MAX)
        BY <4>1, <4>2, <4>4 DEF Err
      <4> QED BY <4>3, <4>4
    <3>5. n = i * 10 + d
      BY <3>1
    <3> QED BY <3>2, <3>3, <3>4, <3>5
  <2>5. IF grown.ok
          THEN /\ parser' = [parser EXCEPT !.integer = grown.val, !.seen_digit = TRUE]
               /\ rest' = Tail(rest)
               /\ UNCHANGED outcome
          ELSE /\ outcome' = grown
               /\ UNCHANGED <<parser, rest>>
    BY <1>7 DEF ConsumeInteger
  <2> HIDE DEF n, grown
  <2>6. CASE n <= MAX
    <3>1. grown.ok /\ grown.val = n
      BY <2>4, <2>6 DEF Ok
    <3>2. ReadTo(s, c + 1, parser') /\ rest' = Tail(rest) /\ outcome' = outcome
      BY <2>1, <2>5, <2>6, <3>1
    <3>3. c + 1 \in 0 .. Len(s) /\ rest' = SubSeq(s, (c + 1) + 1, Len(s))
      BY <1>3, <1>7, <3>2 DEF ConsumeInteger
    <3> QED BY <1>1, <1>4, <2>2, <3>2, <3>3, ParserAdvances
  <2>7. CASE ~(n <= MAX)
    <3>1. grown = Err("Overflow") /\ n > MAX
      BY <2>1, <2>3, <2>4, <2>7
    <3>2. outcome' = Err("Overflow") /\ UNCHANGED <<parser, rest>>
      BY <2>5, <3>1 DEF Err
    <3>3. Verdict(s, negative, outcome')
      BY <2>1, <3>1, <3>2 DEF Verdict, Err
    <3> QED BY <1>1, <1>2, <2>2, <3>2, <3>3, ParserAdvances
  <2> QED BY <2>6, <2>7, SMTT(40)
<1>8. CASE ConsumeFraction
  <2>1. ReadTo(s, c + 1, parser')
    BY <1>2, <1>3, <1>8, FractionRead DEF ConsumeFraction
  <2>2. c + 1 \in 0 .. Len(s) /\ rest' = SubSeq(s, (c + 1) + 1, Len(s))
    BY <1>3, <1>8 DEF ConsumeFraction
  <2>3. UNCHANGED <<text, shown, negative, outcome>>
    BY <1>8 DEF ConsumeFraction
  <2> QED BY <1>1, <1>4, <2>1, <2>2, <2>3, ParserAdvances
<1>9. CASE Finish
  <2>1. ReadTo(s, Len(s), parser)
    BY <1>2, <1>3, <1>9 DEF Finish
  <2>2. outcome' = Finished(parser, negative) /\ UNCHANGED <<text, shown, negative, rest, parser>>
    BY <1>9 DEF Finish
  <2>3. negative \in BOOLEAN
    BY DEF ParserInv
  <2>4. Verdict(s, negative, outcome')
    BY <2>1, <2>2, <2>3, FinishAnswers
  <2> QED BY <1>1, <1>2, <2>2, <2>4, ParserAdvances
<1> QED BY <1>5, <1>6, <1>7, <1>8, <1>9 DEF Next

LEMMA ParserFromStr ==
  ASSUME NEW t \in Seq(Int), FromStr(t)
  PROVE  ParserInv'
<1>1. outcome' \in {Pending, Err("InvalidDecimal"), Idle} /\ (outcome' # Pending => Unsigned(t) = <<>>)
  BY DEF FromStr
<1>2. /\ \E c \in 0 .. Len(Unsigned(t)) :
            rest' = SubSeq(Unsigned(t), c + 1, Len(Unsigned(t))) /\ ReadTo(Unsigned(t), c, parser')
      /\ outcome' # Pending => Verdict(Unsigned(t), negative', outcome')
  BY <1>1, ParserStarts DEF FromStr
<1>3. text' = t /\ shown' = {} /\ negative' = (HasSign(t) /\ Head(t) = MINUS)
  BY DEF FromStr
<1> QED BY <1>2, <1>3 DEF ParserInv, Body

-----------------------------------------------------------------------------
(* CN codes and rows.                                                      *)

(* The recursion of Only is well defined. *)
LEMMA OnlyDef ==
  ASSUME NEW s \in Seq(Int), NEW kept
  PROVE  /\ Only(s, kept)[0] = <<>>
         /\ \A n \in 1 .. Len(s) :
              Only(s, kept)[n] = IF s[n] \in kept THEN Append(Only(s, kept)[n - 1], s[n]) ELSE Only(s, kept)[n - 1]
         /\ \A n \in 0 .. Len(s) : Only(s, kept)[n] \in Seq(Int)
<1> DEFINE Next1(n, v) == IF n + 1 \in 1 .. Len(s) /\ s[n + 1] \in kept THEN Append(v, s[n + 1]) ELSE v
           step == [n \in Nat |-> [v \in Seq(Int) |-> Next1(n, v)]]
           Value(g, n) == IF n = 0 THEN <<>>
                          ELSE IF s[n] \in kept THEN Append(g[n - 1], s[n]) ELSE g[n - 1]
<1>1. PICK f : Unfolds(f, Seq(Int), <<>>, step)
  <2>1. \A n \in Nat, v \in Seq(Int) : Next1(n, v) \in Seq(Int)
    OBVIOUS
  <2>2. step \in [Nat -> [Seq(Int) -> Seq(Int)]]
    BY <2>1
  <2>3. <<>> \in Seq(Int)
    OBVIOUS
  <2> HIDE DEF step
  <2> QED BY <2>2, <2>3, PrimitiveRecursion, Zenon
<1>2. f \in [Nat -> Seq(Int)] /\ f[0] = <<>> /\ \A n \in Nat : f[n + 1] = Next1(n, f[n])
  BY <1>1 DEF Unfolds
<1> DEFINE g == [n \in 0 .. Len(s) |-> f[n]]
<1>3. ASSUME NEW n \in 0 .. Len(s) PROVE g[n] = Value(g, n)
  <2>1. CASE n = 0
    BY <1>2, <2>1
  <2>2. CASE n # 0
    <3>1. n - 1 \in Nat /\ n - 1 \in 0 .. Len(s) /\ (n - 1) + 1 = n /\ n \in 1 .. Len(s)
      BY <2>2
    <3>2. f[n] = Next1(n - 1, f[n - 1])
      BY <1>2, <3>1
    <3>3. g[n - 1] = f[n - 1] /\ g[n] = f[n]
      BY <3>1
    <3> QED BY <2>2, <3>1, <3>2, <3>3
  <2> QED BY <2>1, <2>2
<1>4. g = [n \in 0 .. Len(s) |-> Value(g, n)]
  BY <1>3
<1> DEFINE W == CHOOSE h : h = [n \in 0 .. Len(s) |-> Value(h, n)]
<1>5. Only(s, kept) = W
  BY DEF Only
<1> HIDE DEF g
<1>6. W = [n \in 0 .. Len(s) |-> Value(W, n)]
  BY <1>4, Zenon
<1> HIDE DEF W
<1>7. \A n \in 0 .. Len(s) : W[n] = Value(W, n)
  BY <1>6
<1>8. W[0] = <<>>
  BY <1>7
<1>9. ASSUME NEW n \in 1 .. Len(s) PROVE W[n] = IF s[n] \in kept THEN Append(W[n - 1], s[n]) ELSE W[n - 1]
  <2>1. n \in 0 .. Len(s) /\ n # 0
    OBVIOUS
  <2> QED BY <1>7, <2>1, Zenon
<1> DEFINE S == {n \in Nat : n <= Len(s) => W[n] \in Seq(Int)}
<1>10. 0 \in S
  BY <1>8, EmptySeq
<1>11. ASSUME NEW n \in S PROVE n + 1 \in S
  <2> SUFFICES ASSUME n + 1 <= Len(s) PROVE W[n + 1] \in Seq(Int)
    OBVIOUS
  <2>1. W[n] \in Seq(Int) /\ n + 1 \in 1 .. Len(s) /\ (n + 1) - 1 = n
    OBVIOUS
  <2>2. W[n + 1] = IF s[n + 1] \in kept THEN Append(W[n], s[n + 1]) ELSE W[n]
    BY <1>9, <2>1, Zenon
  <2>3. s[n + 1] \in Int
    BY <2>1
  <2>4. PICK v \in Seq(Int) : v = W[n]
    BY <2>1
  <2>5. Append(v, s[n + 1]) \in Seq(Int)
    BY <2>3
  <2> QED BY <2>2, <2>4, <2>5
<1>12. S = Nat
  BY <1>10, <1>11, SetInduction
<1>13. ASSUME NEW n \in 0 .. Len(s) PROVE W[n] \in Seq(Int)
  <2>1. n \in S /\ n <= Len(s)
    BY <1>12
  <2> QED BY <2>1
<1> QED BY <1>5, <1>8, <1>9, <1>13, Zenon

(* Once the spaces are gone and only digits are left, the digits are what  *)
(* is left.                                                                *)
LEMMA OnlyDigits ==
  ASSUME NEW s \in Seq(Int), NEW n \in 0 .. Len(s), Only(s, Int \ {SPACE})[n] \in Seq(0 .. 9)
  PROVE  Only(s, 0 .. 9)[n] = Only(s, Int \ {SPACE})[n]
<1> DEFINE K == Int \ {SPACE}
           V == Only(s, K)
           W == Only(s, 0 .. 9)
           S == {k \in Nat : k <= Len(s) /\ V[k] \in Seq(0 .. 9) => W[k] = V[k]}
<1>0. /\ \A k \in 1 .. Len(s) : V[k] = IF s[k] \in K THEN Append(V[k - 1], s[k]) ELSE V[k - 1]
      /\ \A k \in 1 .. Len(s) : W[k] = IF s[k] \in 0 .. 9 THEN Append(W[k - 1], s[k]) ELSE W[k - 1]
  BY OnlyDef, SMTT(40)
<1>1. 0 \in S
  BY OnlyDef
<1>2. ASSUME NEW k \in S PROVE k + 1 \in S
  <2> SUFFICES ASSUME k + 1 <= Len(s), V[k + 1] \in Seq(0 .. 9) PROVE W[k + 1] = V[k + 1]
    OBVIOUS
  <2>1. k + 1 \in 1 .. Len(s) /\ (k + 1) - 1 = k /\ k \in 0 .. Len(s) /\ s[k + 1] \in Int
    OBVIOUS
  <2>2. V[k + 1] = IF s[k + 1] \in K THEN Append(V[k], s[k + 1]) ELSE V[k]
    BY <1>0, <2>1, Zenon
  <2>3. W[k + 1] = IF s[k + 1] \in 0 .. 9 THEN Append(W[k], s[k + 1]) ELSE W[k]
    BY <1>0, <2>1, Zenon
  <2>4. PICK v \in Seq(Int) : v = V[k]
    BY <2>1, OnlyDef
  <2>5. k <= Len(s) /\ (V[k] \in Seq(0 .. 9) => W[k] = V[k])
    BY <2>1
  <2> HIDE DEF V, W
  <2>6. CASE s[k + 1] \in K
    <3>1. PICK u \in Seq(0 .. 9) : u = Append(v, s[k + 1])
      BY <2>2, <2>4, <2>6
    <3>2. Len(u) = Len(v) + 1 /\ u[Len(v) + 1] = s[k + 1] /\ \A i \in 1 .. Len(v) : u[i] = v[i]
      BY <2>1, <2>4, <3>1, AppendProperties
    <3>3. PICK m \in Nat : m = Len(v)
      OBVIOUS
    <3>4. s[k + 1] \in 0 .. 9
      <4>1. m + 1 \in 1 .. Len(u)
        BY <3>2, <3>3
      <4>2. u[m + 1] \in 0 .. 9
        BY <4>1, ElementOfSeq
      <4> QED BY <3>2, <3>3, <4>2
    <3>5. v \in Seq(0 .. 9)
      <4>1. ASSUME NEW i \in 1 .. m PROVE v[i] \in 0 .. 9
        <5>1. i \in 1 .. Len(u) /\ u[i] = v[i]
          BY <3>2, <3>3
        <5>2. u[i] \in 0 .. 9
          BY <5>1, ElementOfSeq
        <5> QED BY <5>1, <5>2
      <4>2. v \in [1 .. m -> Int]
        BY <3>3
      <4>3. v \in [1 .. m -> 0 .. 9]
        BY <4>1, <4>2
      <4> QED BY <4>3
    <3> QED BY <2>2, <2>3, <2>4, <2>5, <2>6, <3>4, <3>5
  <2>7. CASE s[k + 1] \notin K
    <3>1. s[k + 1] \notin 0 .. 9
      BY <2>1, <2>7, SMTT(40) DEF SPACE
    <3> QED BY <2>2, <2>3, <2>5, <2>7, <3>1
  <2> QED BY <2>6, <2>7
<1>3. S = Nat
  BY <1>1, <1>2, SetInduction
<1>4. n \in Nat /\ n <= Len(s)
  OBVIOUS
<1>5. n \in S
  <2> HIDE DEF S
  <2> QED BY <1>3, <1>4
<1> QED BY <1>4, <1>5

LEMMA NormalizedIs ==
  ASSUME NEW code \in Seq(Int)
  PROVE  LET r == NormalizeCnCode(code)
         IN  \/ r = Err("InvalidCnCode")
             \/ r = Ok(Only(code, 0 .. 9)[Len(code)]) /\ Only(code, 0 .. 9)[Len(code)] \in CnCodes
<1> DEFINE d == Only(code, Int \ {SPACE})[Len(code)]
           e == Only(code, 0 .. 9)[Len(code)]
<1>1. d \in Seq(Int)
  BY OnlyDef
<1>2. NormalizeCnCode(code) = IF ToSet(d) \subseteq 0 .. 9 /\ Len(d) \in {4, 6, 8} THEN Ok(d) ELSE Err("InvalidCnCode")
  BY DEF NormalizeCnCode
<1>3. ASSUME ToSet(d) \subseteq 0 .. 9, Len(d) \in {4, 6, 8} PROVE e = d /\ e \in CnCodes
  <2>1. PICK f \in Seq(Int) : f = d
    BY <1>1
  <2> HIDE DEF d
  <2>2. \A i \in 1 .. Len(f) : f[i] \in 0 .. 9
    <3>1. DOMAIN f = 1 .. Len(f) /\ ToSet(f) \subseteq 0 .. 9
      BY <1>3, <2>1
    <3> QED BY <3>1 DEF ToSet
  <2>3. PICK m \in Nat : m = Len(f) /\ f \in [1 .. m -> Int]
    OBVIOUS
  <2>4. f \in Seq(0 .. 9)
    <3>1. f \in [1 .. m -> 0 .. 9]
      BY <2>2, <2>3
    <3> QED BY <3>1
  <2>5. Len(code) \in 0 .. Len(code)
    OBVIOUS
  <2>6. e = f
    BY <2>1, <2>4, <2>5, OnlyDigits DEF d
  <2> HIDE DEF e
  <2> QED BY <1>3, <2>1, <2>4, <2>6 DEF CnCodes
<1> QED BY <1>2, <1>3

(* The places of the codes that are the prefix of n digits. *)
At(codes, code, n) == {k \in DOMAIN codes : n <= Len(code) /\ codes[k] = SubSeq(code, 1, n)}

Longest(codes, code, n) ==
  /\ n \in {8, 6, 4} /\ At(codes, code, n) # {}
  /\ \A m \in {8, 6, 4} : m > n => At(codes, code, m) = {}

LEMMA BestIs ==
  ASSUME NEW codes, DOMAIN codes \subseteq Nat \ {0}, NEW code
  PROVE  LET k == Best(codes, code)
         IN  \/ k = 0 /\ \A n \in {8, 6, 4} : At(codes, code, n) = {}
             \/ /\ k \in DOMAIN codes
                /\ \E n \in {8, 6, 4} : Longest(codes, code, n) /\ k \in At(codes, code, n)
                                        /\ \A j \in At(codes, code, n) : k <= j
<1> DEFINE at(n) == {k \in DOMAIN codes : n <= Len(code) /\ codes[k] = SubSeq(code, 1, n)}
           L == {n \in {8, 6, 4} : At(codes, code, n) # {}}
<1>1. \A n : at(n) = At(codes, code, n)
  BY DEF At
<1>2. Best(codes, code) = IF L = {} THEN 0 ELSE Min(At(codes, code, Max(L)))
  BY <1>1 DEF Best, At
<1>3. CASE L = {}
  BY <1>2, <1>3
<1>4. CASE L # {}
  <2>1. \E n \in L : \A m \in L : n >= m
    BY <1>4
  <2>2. PICK n \in L : n = Max(L) /\ \A m \in L : n >= m
    BY <2>1 DEF Max
  <2>3. Longest(codes, code, n)
    BY <2>2 DEF Longest
  <2> DEFINE A == At(codes, code, n)
  <2>4. A # {} /\ A \in SUBSET Nat /\ A \subseteq DOMAIN codes
    BY <2>3 DEF Longest, At
  <2> HIDE DEF A
  <2>5. \E k \in A : \A j \in A : k <= j
    BY <2>4, LeastNatural
  <2>6. Min(A) \in A /\ \A j \in A : Min(A) <= j
    BY <2>5 DEF Min
  <2>7. Best(codes, code) = Min(A)
    BY <1>2, <1>4, <2>2 DEF A
  <2> QED BY <2>3, <2>4, <2>6, <2>7 DEF A
<1> QED BY <1>3, <1>4

LEMMA OfIs ==
  ASSUME NEW rows, NEW country
  PROVE  /\ \A k : k \in DOMAIN Of(rows, country) <=> k \in DOMAIN rows /\ rows[k].country = country
         /\ \A k : k \in DOMAIN Of(rows, country) => Of(rows, country)[k] = rows[k]
  BY DEF Of, RestrictValues, Restrict

Row == [cn_code : CnCodes, country : STRING, total : Totals]

LEMMA NatSeqsAreIntSeqs == \A t \in Seq(Nat) : t \in Seq(Int)
<1> SUFFICES ASSUME NEW t \in Seq(Nat) PROVE t \in Seq(Int)
  OBVIOUS
<1>1. t \in [1 .. Len(t) -> Nat] /\ Len(t) \in Nat
  BY LenProperties
<1>2. t \in [1 .. Len(t) -> Int]
  BY <1>1
<1> QED BY <1>1, <1>2, SeqDef

LEMMA TotalsAreTexts == \A t \in Totals : t \in Seq(Int)
<1>1. \A t \in Seq(Nat) : t \in Seq(Int)
  BY NatSeqsAreIntSeqs
<1>2. <<-1>> \in Seq(Int)
  OBVIOUS
<1> QED BY <1>1, <1>2 DEF Totals, NoTotal

LEMMA ValueOfIs ==
  ASSUME NEW rows, DOMAIN rows \subseteq Nat \ {0}, NEW code, NEW kind
  PROVE  LET k == Best(Codes(rows), code)
         IN  /\ ValueOf(rows, code, kind) =
                  IF k = 0 \/ rows[k].total = NoTotal THEN {} ELSE {[kind |-> kind, row |-> rows[k]]}
             /\ k # 0 => k \in DOMAIN rows
<1>1. DOMAIN Codes(rows) = DOMAIN rows
  BY DEF Codes
<1> QED BY <1>1, BestIs DEF ValueOf

LEMMA SourceTexts ==
  ASSUME request \in Requests, annexes \in EmbeddedTables, NEW code, NEW source \in Sources(code)
  PROVE  source.row.total \in Seq(Int)
<1>1. /\ annexes.rows \in Seq(Row) /\ annexes.other_countries \in Seq(Row)
      /\ annexes.annex_iv \in Seq([cn_code : CnCodes, highest : Seq(Nat)])
  BY DEF EmbeddedTables, Row
<1>2. ASSUME NEW rows, DOMAIN rows \subseteq Nat \ {0}, \A k \in DOMAIN rows : rows[k] \in Row,
             NEW kind, source \in ValueOf(rows, code, kind)
      PROVE  source.row.total \in Seq(Int)
  <2>1. PICK k \in DOMAIN rows : source = [kind |-> kind, row |-> rows[k]]
    BY <1>2, ValueOfIs
  <2> QED BY <1>2, <2>1, TotalsAreTexts DEF Row
<1>3. ASSUME source \in CountrySource(code) PROVE source.row.total \in Seq(Int)
  <2> DEFINE rows == Of(annexes.rows, request.country)
  <2>1. DOMAIN rows \subseteq Nat \ {0} /\ \A k \in DOMAIN rows : rows[k] \in Row
    <3>1. DOMAIN annexes.rows \subseteq Nat \ {0} /\ \A k \in DOMAIN annexes.rows : annexes.rows[k] \in Row
      BY <1>1
    <3>2. \A k : k \in DOMAIN rows => k \in DOMAIN annexes.rows
      BY OfIs, Zenon
    <3>3. ASSUME NEW k \in DOMAIN rows PROVE rows[k] = annexes.rows[k]
      BY <3>3, OfIs
    <3> HIDE DEF rows
    <3> QED BY <3>1, <3>2, <3>3
  <2>2. source \in ValueOf(rows, code, "country")
    BY <1>3 DEF CountrySource
  <2> HIDE DEF rows
  <2> QED BY <1>2, <2>1, <2>2
<1>4. ASSUME source \in OtherCountriesSource(code) PROVE source.row.total \in Seq(Int)
  <2>1. DOMAIN annexes.other_countries \subseteq Nat \ {0}
        /\ \A k \in DOMAIN annexes.other_countries : annexes.other_countries[k] \in Row
    BY <1>1
  <2> QED BY <1>2, <1>4, <2>1 DEF OtherCountriesSource
<1>5. ASSUME source \in AnnexIvSource(code) PROVE source.row.total \in Seq(Int)
  <2> DEFINE rows == annexes.annex_iv
             k == Best(Codes(rows), code)
  <2>1. DOMAIN rows \subseteq Nat \ {0} /\ \A j \in DOMAIN rows : rows[j].highest \in Seq(Nat)
    <3>1. rows \in Seq([cn_code : CnCodes, highest : Seq(Nat)])
      BY <1>1
    <3> HIDE DEF rows
    <3>2. /\ DOMAIN rows = 1 .. Len(rows) /\ Len(rows) \in Nat
          /\ rows \in [1 .. Len(rows) -> [cn_code : CnCodes, highest : Seq(Nat)]]
      BY <3>1, LenProperties, Zenon
    <3> QED BY <3>2
  <2>2. k # 0 => k \in DOMAIN rows
    <3> HIDE DEF rows
    <3>1. DOMAIN Codes(rows) = DOMAIN rows
      BY DEF Codes
    <3> QED BY <2>1, <3>1, BestIs
  <2>3. k # 0 /\ source = [kind |-> "annex IV", row |-> DefaultValueRow(rows[k].cn_code, "", rows[k].highest)]
    BY <1>5 DEF AnnexIvSource
  <2> HIDE DEF rows, k
  <2>4. source.row.total = rows[k].highest
    BY <2>3 DEF DefaultValueRow
  <2>5. rows[k].highest \in Seq(Nat)
    BY <2>1, <2>2, <2>3
  <2> QED BY <2>4, <2>5, NatSeqsAreIntSeqs
<1> QED BY <1>3, <1>4, <1>5 DEF Sources

-----------------------------------------------------------------------------
(* A declaration on its way: each result is the one its step computes from *)
(* the results before it, and the text parsed is that of the selected row. *)

DeclaredInv ==
  /\ annexes \in EmbeddedTables
  /\ request = NoRequest \/ request \in Requests

DatedInv ==
  /\ date = None \/ (request \in Requests /\ date = FromIso(request.on))
  /\ entry = None \/ (date.ok /\ entry = Classify(request.code, date.val))
  /\ period = None \/ (date.ok /\ period = PeriodOf(date.val))

Selection(r, t) ==
  LET code == NormalizeCnCode(request.code)
      found == IF code.ok THEN Sources(code.val) ELSE {}
  IN  IF found # {}
        THEN \E source \in found :
               /\ r = Ok([source |-> source, markup |-> Markup(request.sector, period.val)])
               /\ t = source.row.total
        ELSE r = IF code.ok THEN Err("NoDefaultValue") ELSE code

SelectedInv == selected = None \/ (period.ok /\ Selection(selected, text))

Assembled(o, markup) == AndThen(o, LAMBDA base : Applied(base, markup))

ValueInv ==
  \/ value = None
  \/ selected # None /\ ~selected.ok
  \/ selected.ok /\ Done /\ value = Assembled(outcome, selected.val.markup)

DefaultsInv == ParserInv /\ DeclaredInv /\ DatedInv /\ SelectedInv /\ ValueInv

LEMMA DefaultsInitially == DefaultsInit => DefaultsInv
<1> SUFFICES ASSUME DefaultsInit PROVE DefaultsInv
  OBVIOUS
<1>1. ParserInv
  BY ParserInit
<1>2. NoTables \in EmbeddedTables
  <2>1. \A S : <<>> \in Seq(S)
    OBVIOUS
  <2> QED BY <2>1, Zenon DEF NoTables, AnnexI, EmbeddedTables
<1>3. DeclaredInv
  BY <1>2, DeclarationsAssumption DEF DefaultsInit, DeclaredInv
<1>4. DatedInv /\ SelectedInv /\ ValueInv
  BY DEF DefaultsInit, DatedInv, SelectedInv, ValueInv
<1> QED BY <1>1, <1>3, <1>4 DEF DefaultsInv

LEMMA DefaultsNextInv == DefaultsInv /\ [DefaultsNext]_<<declared, results, parsing>> => DefaultsInv'
<1> SUFFICES ASSUME DefaultsInv, [DefaultsNext]_<<declared, results, parsing>> PROVE DefaultsInv'
  OBVIOUS
<1> USE DEF declared, results, parsing
<1>0. ParserInv /\ DeclaredInv /\ DatedInv /\ SelectedInv /\ ValueInv
  BY DEF DefaultsInv
<1>1. CASE UNCHANGED <<declared, results, parsing>>
  <2>1. ParserInv'
    BY <1>0, <1>1 DEF ParserInv, Body
  <2>2. DeclaredInv' /\ DatedInv'
    BY <1>0, <1>1 DEF DeclaredInv, DatedInv
  <2>3. SelectedInv' /\ ValueInv'
    BY <1>0, <1>1, Zenon DEF SelectedInv, Selection, Sources, CountrySource, OtherCountriesSource, AnnexIvSource, ValueInv, Done
  <2> QED BY <2>1, <2>2, <2>3 DEF DefaultsInv
<1>2. CASE Next /\ UNCHANGED <<declared, results>>
  <2>1. ParserInv'
    BY <1>0, <1>2, ParserNext
  <2>2. DeclaredInv' /\ DatedInv'
    BY <1>0, <1>2 DEF DeclaredInv, DatedInv
  <2>3. text' = text /\ outcome = Pending
    BY <1>2 DEF Next, ConsumeDot, ConsumeInvalid, ConsumeInteger, ConsumeFraction, Finish
  <2>4. SelectedInv'
    BY <1>0, <1>2, <2>3, Zenon DEF SelectedInv, Selection, Sources, CountrySource, OtherCountriesSource, AnnexIvSource
  <2>5. ValueInv'
    BY <1>0, <1>2, <2>3 DEF ValueInv, Done
  <2> QED BY <2>1, <2>2, <2>4, <2>5 DEF DefaultsInv
<1>3. CASE ParseDate
  <2>1. ParserInv'
    BY <1>0, <1>3 DEF ParserInv, Body, ParseDate
  <2>2. date.ok = FALSE
    BY <1>3 DEF ParseDate, None, Err
  <2>3. DeclaredInv' /\ DatedInv'
    BY <1>0, <1>3, <2>2 DEF DeclaredInv, DatedInv, ParseDate
  <2>4. SelectedInv' /\ ValueInv'
    BY <1>0, <1>3, Zenon DEF SelectedInv, Selection, Sources, CountrySource, OtherCountriesSource, AnnexIvSource, ValueInv, Done, ParseDate
  <2> QED BY <2>1, <2>3, <2>4 DEF DefaultsInv
<1>4. CASE ClassifyGood
  <2>1. ParserInv'
    BY <1>0, <1>4 DEF ParserInv, Body, ClassifyGood
  <2>2. DeclaredInv' /\ DatedInv'
    BY <1>0, <1>4 DEF DeclaredInv, DatedInv, ClassifyGood
  <2>3. SelectedInv' /\ ValueInv'
    BY <1>0, <1>4, Zenon DEF SelectedInv, Selection, Sources, CountrySource, OtherCountriesSource, AnnexIvSource, ValueInv, Done, ClassifyGood
  <2> QED BY <2>1, <2>2, <2>3 DEF DefaultsInv
<1>5. CASE DeterminePeriod
  <2>1. ParserInv'
    BY <1>0, <1>5 DEF ParserInv, Body, DeterminePeriod
  <2>2. DeclaredInv' /\ DatedInv'
    BY <1>0, <1>5 DEF DeclaredInv, DatedInv, DeterminePeriod
  <2>3. period.ok = FALSE
    BY <1>5 DEF DeterminePeriod, None, Err
  <2>4. SelectedInv'
    BY <1>0, <1>5, <2>3 DEF SelectedInv, DeterminePeriod
  <2>5. ValueInv'
    BY <1>0, <1>5 DEF ValueInv, Done, DeterminePeriod
  <2> QED BY <2>1, <2>2, <2>4, <2>5 DEF DefaultsInv
<1>6. CASE SelectValue
  <2>1. request \in Requests
    <3>1. date # None
      BY <1>0, <1>6 DEF SelectValue, DatedInv, None, Err
    <3> QED BY <1>0, <3>1 DEF DatedInv
  <2>2. DeclaredInv' /\ DatedInv'
    BY <1>0, <1>6 DEF DeclaredInv, DatedInv, SelectValue
  <2>3. UNCHANGED <<request, annexes, date, entry, period>> /\ period.ok /\ selected = None
    BY <1>6 DEF SelectValue
  <2>4. value = None
    BY <1>0, <2>3 DEF ValueInv, None, Err
  <2> DEFINE code == NormalizeCnCode(request.code)
             found == IF code.ok THEN Sources(code.val) ELSE {}
  <2>5. CASE found # {}
    <3>1. PICK source \in found :
            /\ selected' = Ok([source |-> source, markup |-> Markup(request.sector, period.val)])
            /\ FromStr(source.row.total)
      BY <1>6, <2>5 DEF SelectValue
    <3>2. value' = value
      BY <1>6, <2>5 DEF SelectValue
    <3>3. source.row.total \in Seq(Int)
      BY <1>0, <2>1, SourceTexts DEF DeclaredInv
    <3>4. ParserInv'
      BY <3>1, <3>3, ParserFromStr
    <3>5. text' = source.row.total
      BY <3>1 DEF FromStr
    <3>6. Selection(selected', text')
      BY <2>5, <3>1, <3>5, Zenon DEF Selection
    <3>7. Selection(selected, text)'
      BY <2>3, <3>6 DEF Selection, Sources, CountrySource, OtherCountriesSource, AnnexIvSource
    <3>8. SelectedInv' /\ ValueInv'
      BY <2>3, <2>4, <3>2, <3>7 DEF SelectedInv, ValueInv
    <3> QED BY <2>2, <3>4, <3>8 DEF DefaultsInv
  <2>6. CASE found = {}
    <3>1. selected' = IF code.ok THEN Err("NoDefaultValue") ELSE code
      BY <1>6, <2>6 DEF SelectValue
    <3>2. UNCHANGED parsing
      BY <1>6, <2>6 DEF SelectValue
    <3>3. ParserInv'
      BY <1>0, <3>2 DEF ParserInv, Body
    <3>4. Selection(selected', text')
      BY <2>6, <3>1 DEF Selection
    <3>5. Selection(selected, text)'
      BY <2>3, <3>4 DEF Selection, Sources, CountrySource, OtherCountriesSource, AnnexIvSource
    <3>6. SelectedInv'
      BY <2>3, <3>5 DEF SelectedInv
    <3>7. selected' # None /\ ~selected'.ok
      <4>1. code = Err("InvalidCnCode") \/ code.ok
        BY <2>1, NormalizedIs DEF Requests, Ok
      <4> QED BY <3>1, <4>1 DEF None, Err
    <3>8. ValueInv'
      BY <3>7 DEF ValueInv
    <3> QED BY <2>2, <3>3, <3>6, <3>8 DEF DefaultsInv
  <2> QED BY <2>5, <2>6
<1>7. CASE Assemble
  <2>1. ParserInv'
    BY <1>0, <1>7, Zenon DEF ParserInv, Body, Assemble
  <2>2. DeclaredInv' /\ DatedInv'
    BY <1>0, <1>7 DEF DeclaredInv, DatedInv, Assemble
  <2>3. SelectedInv'
    BY <1>0, <1>7, Zenon DEF SelectedInv, Selection, Sources, CountrySource, OtherCountriesSource, AnnexIvSource, Assemble
  <2>4. ValueInv'
    BY <1>0, <1>7 DEF ValueInv, Done, Assemble, Assembled, AndThen, Applied
  <2> QED BY <2>1, <2>2, <2>3, <2>4 DEF DefaultsInv
<1> QED BY <1>1, <1>2, <1>3, <1>4, <1>5, <1>6, <1>7 DEF DefaultsNext

(***************************************************************************)
(* In every state of a run the parser has read a prefix of its text as     *)
(* ReadTo says, each result of a declaration is what its step computes     *)
(* from the earlier ones, and the text parsed is that of the selected row. *)
(***************************************************************************)
THEOREM DefaultsInvariant == DefaultsSpec => []DefaultsInv
<1> QED BY DefaultsInitially, DefaultsNextInv, PTL DEF DefaultsSpec

-----------------------------------------------------------------------------
(* The decimal parser.                                                     *)

LEMMA NearestNegated ==
  ASSUME NEW r \in Int, NEW n \in Int, NEW d \in Nat \ {0}, IsNearestEven(r, n, d)
  PROVE  IsNearestEven(-r, -n, d)
<1>1. (-n) - (-r) * d = -(n - r * d)
  <2>1. (-r) * d = -(r * d) /\ r * d \in Int
    OBVIOUS
  <2> QED BY <2>1
<1>2. Magnitude(-(n - r * d)) = Magnitude(n - r * d)
  <2>1. PICK y \in Int : y = n - r * d
    OBVIOUS
  <2>2. Magnitude(-y) = Magnitude(y)
    BY DEF Magnitude
  <2> QED BY <2>1, <2>2
<1>3. r % 2 = 0 => (-r) % 2 = 0
  OBVIOUS
<1> QED BY <1>1, <1>2, <1>3 DEF IsNearestEven

LEMMA ParsedIs ==
  ASSUME ParserInv, Done
  PROVE  /\ Body \in Seq(Int)
         /\ Verdict(Body, negative, outcome)
         /\ Denoted(Body) \in Nat /\ DenotedUnits(Body) \in Nat
         /\ TenTo[Places(Body)] \in Nat \ {0}
         /\ outcome.ok => outcome = Ok(Signed(DenotedUnits(Body)))
<1>1. Body \in Seq(Int)
  BY UnsignedType DEF ParserInv, Body
<1>2. Verdict(Body, negative, outcome)
  BY DEF ParserInv, Done
<1> QED BY <1>1, <1>2, DenotedTypes DEF Verdict, Signed

(***************************************************************************)
(* A parsed text, of any length, is the decimal it writes rounded half to  *)
(* even once: the first digit past the scale and the sticky bit of the     *)
(* digits after it stand for all of them.                                  *)
(***************************************************************************)
THEOREM ParserRounds == DefaultsSpec => []ParsesNearestEven
<1>1. DefaultsInv => ParsesNearestEven
  <2> SUFFICES ASSUME ParserInv, Done, outcome.ok
               PROVE  IsNearestEven(outcome.val, Signed(Denoted(Body)) * SCALE, TenTo[Places(Body)])
    BY DEF DefaultsInv, ParsesNearestEven
  <2> DEFINE D == Denoted(Body)
             u == DenotedUnits(Body)
             p == TenTo[Places(Body)]
  <2>1. outcome.val = Signed(u) /\ D \in Nat /\ u \in Nat /\ p \in Nat \ {0} /\ SCALE \in Nat
    BY ParsedIs, FixedAssumption DEF Ok
  <2>2. IsNearestEven(u, D * SCALE, p)
    BY ParsedIs, DenotedTypes
  <2> HIDE DEF D, u, p
  <2>3. PICK n \in Nat : n = D * SCALE /\ (-D) * SCALE = -n
    BY <2>1
  <2>4. CASE negative
    BY <2>1, <2>2, <2>3, <2>4, NearestNegated DEF Signed, D, u, p
  <2>5. CASE ~negative
    BY <2>1, <2>2, <2>5 DEF Signed, D, u, p
  <2> QED BY <2>4, <2>5
<1> QED BY <1>1, DefaultsInvariant, PTL

(***************************************************************************)
(* A text is accepted exactly when it is a well-formed decimal whose       *)
(* rounded magnitude fits, whatever part of it the checks look at.         *)
(***************************************************************************)
THEOREM ParserAccepts == DefaultsSpec => []AcceptsDecimalsInRange
<1>1. DefaultsInv => AcceptsDecimalsInRange
  BY DEF DefaultsInv, ParserInv, AcceptsDecimalsInRange, Done, Verdict
<1> QED BY <1>1, DefaultsInvariant, PTL

(***************************************************************************)
(* Every value but the smallest is parsed back from what Display prints.   *)
(***************************************************************************)
THEOREM ParserReadsDisplay == DefaultsSpec => []DisplayRoundTrips
<1>1. DefaultsInv => DisplayRoundTrips
  <2> SUFFICES ASSUME ParserInv, Done, NEW x \in shown, x # MIN PROVE outcome = Ok(x)
    BY DEF DefaultsInv, DisplayRoundTrips
  <2>1. x \in Int /\ Magnitude(x) \in Nat /\ Magnitude(x) <= MAX /\ text = Display(x)
    <3>1. x \in Range128 /\ text = Display(x)
      BY DEF ParserInv
    <3>2. x \in Int /\ Magnitude(x) \in Nat /\ Magnitude(x) <= MAX
      BY <3>1, FixedAssumption DEF Range128, MIN, Magnitude
    <3> QED BY <3>1, <3>2
  <2>2. Body = DisplayedBody(Magnitude(x)) /\ (negative <=> x < 0)
    BY <2>1, DisplayFacts DEF Body, ParserInv
  <2>3. WellFormed(Body) /\ DenotedUnits(Body) = Magnitude(x)
    BY <2>1, <2>2, DisplayedIs
  <2>4. outcome.ok /\ outcome = Ok(Signed(Magnitude(x)))
    BY <2>1, <2>3, ParsedIs DEF Verdict
  <2>5. Signed(Magnitude(x)) = x
    BY <2>1, <2>2 DEF Signed, Magnitude
  <2> QED BY <2>4, <2>5
<1> QED BY <1>1, DefaultsInvariant, PTL

-----------------------------------------------------------------------------
(* The mark-up.                                                            *)

LEMMA PercentIs ==
  ASSUME NEW n \in Nat
  PROVE  \E q \in Nat \ {0} : SCALE = 100 * q /\ Percent(n) = n * q
<1>1. PICK q \in Nat \ {0} : SCALE = 100 * q
  <2>1. SCALE \in Nat /\ SCALE >= 2 /\ SCALE % 100 = 0
    BY FixedAssumption, MarkupAssumption
  <2>2. SCALE = (100 * (SCALE \div 100)) + (SCALE % 100) /\ SCALE \div 100 \in Nat
    BY <2>1, DivMod
  <2>3. PICK m \in Nat : m = SCALE \div 100
    BY <2>2
  <2>4. SCALE = 100 * m /\ m # 0
    BY <2>1, <2>2, <2>3
  <2> QED BY <2>4
<1>2. n * SCALE = (n * q) * 100 /\ n * q \in Nat
  BY <1>1
<1>3. PICK y \in Nat : y = n * q
  BY <1>2
<1>4. (y * 100) \div 100 = y
  BY MultipleDiv
<1>5. Percent(n) = n * q
  BY <1>2, <1>3, <1>4 DEF Percent
<1> QED BY <1>1, <1>5

Rate(sector, year) == IF sector = "fertilisers" THEN 1 ELSE Min({30, 10 * (year - 2025)})

LEMMA MarkupIs ==
  ASSUME NEW sector, NEW year \in Nat, year >= 2026
  PROVE  Rate(sector, year) \in {1, 10, 20, 30} /\ Markup(sector, year) = Percent(Rate(sector, year))
<1> DEFINE y == 10 * (year - 2025)
<1>1. Min({30, y}) = IF y <= 30 THEN y ELSE 30
  <2>1. y \in Int
    OBVIOUS
  <2> HIDE DEF y
  <2>2. \E k \in {30, y} : \A j \in {30, y} : k <= j
    BY <2>1
  <2>3. Min({30, y}) \in {30, y} /\ \A j \in {30, y} : Min({30, y}) <= j
    BY <2>2 DEF Min
  <2> QED BY <2>1, <2>3
<1>2. CASE sector = "fertilisers"
  BY <1>2 DEF Rate, Markup
<1>3. CASE sector # "fertilisers"
  BY <1>1, <1>3 DEF Rate, Markup
<1> QED BY <1>2, <1>3

(* The rounded product is within half a unit, and the unit divides out.    *)
LEMMA ProductBound ==
  ASSUME NEW b \in Int, NEW c \in Nat, NEW q \in Nat \ {0}, NEW v \in Int,
         IsNearestEven(v, b * (c * q), 100 * q)
  PROVE  b * c - 100 * v \in -50 .. 50
<1>1. PICK w \in Int : w = b * c - 100 * v
  OBVIOUS
<1>2. b * (c * q) - v * (100 * q) = w * q
  <2>1. (b * c - 100 * v) * q = b * (c * q) - v * (100 * q)
    OBVIOUS
  <2> QED BY <1>1, <2>1
<1>3. 2 * Magnitude(w * q) <= 100 * q
  <2>1. PICK g \in Int : g = w * q
    OBVIOUS
  <2>2. PICK d \in Nat \ {0} : d = 100 * q
    OBVIOUS
  <2>3. Magnitude(d) = d
    BY <2>2 DEF Magnitude
  <2>4. 2 * Magnitude(g) < d \/ 2 * Magnitude(g) = d
    BY <1>2, <2>1, <2>2, <2>3 DEF IsNearestEven
  <2> QED BY <2>1, <2>2, <2>4 DEF Magnitude
<1>4. w <= 50
  <2> SUFFICES ASSUME w >= 51 PROVE FALSE
    OBVIOUS
  <2>1. w * q = 51 * q + (w - 51) * q /\ (w - 51) * q >= 0 /\ (w - 51) * q \in Int
    OBVIOUS
  <2>2. PICK g \in Int, h \in Int : g = w * q /\ h = (w - 51) * q
    OBVIOUS
  <2> QED BY <1>3, <2>1, <2>2 DEF Magnitude
<1>5. w >= -50
  <2> SUFFICES ASSUME w <= -51 PROVE FALSE
    OBVIOUS
  <2>1. w * q = (w + 51) * q - 51 * q /\ (w + 51) * q <= 0 /\ (w + 51) * q \in Int
    OBVIOUS
  <2>2. PICK g \in Int, h \in Int : g = w * q /\ h = (w + 51) * q
    OBVIOUS
  <2> QED BY <1>3, <2>1, <2>2 DEF Magnitude
<1> QED BY <1>1, <1>4, <1>5

(* The two roundings together. *)
LEMMA MarkedUpBound ==
  ASSUME NEW b \in Int, NEW c \in Nat, NEW v \in Int, NEW e \in Int, NEW t \in Nat \ {0},
         b * c - 100 * v \in -50 .. 50, IsNearestEven(b, e, t)
  PROVE  2 * Magnitude(v * (100 * t) - e * c) <= t * (100 + c)
<1>1. PICK w \in -50 .. 50 : w = b * c - 100 * v
  OBVIOUS
<1>2. PICK g \in Int : g = e - b * t
  OBVIOUS
<1>3. 2 * g <= t /\ -t <= 2 * g
  <2>1. Magnitude(t) = t
    BY DEF Magnitude
  <2>2. 2 * Magnitude(g) <= t
    BY <1>2, <2>1 DEF IsNearestEven, Magnitude
  <2> QED BY <2>2 DEF Magnitude
<1>4. v * (100 * t) - e * c = -(t * w + c * g)
  <2>1. t * (b * c - 100 * v) + c * (e - b * t) = e * c - v * (100 * t)
    OBVIOUS
  <2> QED BY <1>1, <1>2, <2>1
<1>5. 2 * (t * w) <= t * 100 /\ -(t * 100) <= 2 * (t * w) /\ t * w \in Int
  <2>1. t * (50 - w) >= 0 /\ t * (50 - w) = t * 50 - t * w
    OBVIOUS
  <2>2. t * (50 + w) >= 0 /\ t * (50 + w) = t * 50 + t * w
    OBVIOUS
  <2>3. PICK x \in Int : x = t * w
    OBVIOUS
  <2> QED BY <2>1, <2>2, <2>3
<1>6. 2 * (c * g) <= t * c /\ -(t * c) <= 2 * (c * g) /\ c * g \in Int /\ t * c \in Int
  <2>1. c * (t - 2 * g) >= 0 /\ c * (t - 2 * g) = t * c - 2 * (c * g)
    BY <1>3
  <2>2. c * (t + 2 * g) >= 0 /\ c * (t + 2 * g) = t * c + 2 * (c * g)
    BY <1>3
  <2>3. PICK x \in Int, y \in Int : x = c * g /\ y = t * c
    OBVIOUS
  <2> QED BY <2>1, <2>2, <2>3
<1>7. t * (100 + c) = t * 100 + t * c
  OBVIOUS
<1>8. PICK x \in Int, y \in Int, z \in Int : x = t * w /\ y = c * g /\ z = t * c
  BY <1>6
<1>9. Magnitude(-(x + y)) = IF x + y > 0 THEN x + y ELSE -(x + y)
  BY DEF Magnitude
<1> QED BY <1>4, <1>5, <1>6, <1>7, <1>8, <1>9

-----------------------------------------------------------------------------
(* Dates.                                                                  *)

LEMMA SmallPowers == TenTo[0] = 1 /\ TenTo[1] = 10 /\ TenTo[2] = 100 /\ TenTo[3] = 1000
<1>1. TenTo[0] = 1 /\ TenTo[0 + 1] = 10 * TenTo[0] /\ TenTo[1 + 1] = 10 * TenTo[1] /\ TenTo[2 + 1] = 10 * TenTo[2]
  BY PowersOfTen
<1> QED BY <1>1

TwoDigits(a, b) == 10 * a + b
FourDigits(a, b, c, d) == 1000 * a + 100 * b + 10 * c + d

LEMMA TwoWritten ==
  ASSUME NEW s \in Seq(Int), Len(s) = 2
  PROVE  /\ s[1] \in 0 .. 9 /\ s[2] \in 0 .. 9 =>
              ParseField(s) = Ok(TwoDigits(s[1], s[2])) /\ ParseU8(s) = Ok(TwoDigits(s[1], s[2]))
         /\ ~(s[1] \in 0 .. 9 /\ s[2] \in 0 .. 9) => ParseU8(s) = InvalidDate
<1>1. DOMAIN s = {1, 2}
  BY LenProperties
<1>2. ASSUME s[1] \in 0 .. 9, s[2] \in 0 .. 9
      PROVE  ParseField(s) = Ok(TwoDigits(s[1], s[2])) /\ ParseU8(s) = Ok(TwoDigits(s[1], s[2]))
  <2>1. Written(s)[0] = 0 /\ Written(s)[1] = 10 * Written(s)[1 - 1] + s[1] /\ Written(s)[2] = 10 * Written(s)[2 - 1] + s[2]
    <3>1. 1 \in 1 .. Len(s) /\ 2 \in 1 .. Len(s)
      OBVIOUS
    <3> QED BY <1>2, <3>1, WrittenDef, Zenon
  <2>2. PICK a \in 0 .. 9, b \in 0 .. 9 : a = s[1] /\ b = s[2]
    BY <1>2
  <2>3. Written(s)[2] = 10 * a + b
    BY <2>1, <2>2
  <2>4. ParseField(s) = Ok(10 * a + b)
    BY <1>1, <1>2, <2>3 DEF ParseField
  <2>5. ParseU8(s) = Ok(10 * a + b)
    BY <2>4, SMTT(40) DEF ParseU8, AndThen, Ok
  <2> QED BY <2>2, <2>4, <2>5 DEF TwoDigits
<1>3. ASSUME ~(s[1] \in 0 .. 9 /\ s[2] \in 0 .. 9) PROVE ParseU8(s) = InvalidDate
  <2>1. ParseField(s) = InvalidDate
    BY <1>1, <1>3 DEF ParseField
  <2> QED BY <2>1 DEF ParseU8, AndThen, InvalidDate, Err
<1> QED BY <1>2, <1>3

LEMMA FourWritten ==
  ASSUME NEW s \in Seq(Int), Len(s) = 4
  PROVE  ParseField(s) = IF \A k \in 1 .. 4 : s[k] \in 0 .. 9
                           THEN Ok(FourDigits(s[1], s[2], s[3], s[4])) ELSE InvalidDate
<1>1. DOMAIN s = 1 .. 4
  BY LenProperties
<1>2. ASSUME \A k \in 1 .. 4 : s[k] \in 0 .. 9
      PROVE  ParseField(s) = Ok(FourDigits(s[1], s[2], s[3], s[4]))
  <2>1. Written(s)[0] = 0 /\ \A k \in 1 .. 4 : Written(s)[k] = 10 * Written(s)[k - 1] + s[k]
    BY <1>2, WrittenDef
  <2>2. /\ Written(s)[1] = 10 * Written(s)[0] + s[1] /\ Written(s)[2] = 10 * Written(s)[1] + s[2]
        /\ Written(s)[3] = 10 * Written(s)[2] + s[3] /\ Written(s)[4] = 10 * Written(s)[3] + s[4]
    BY <2>1
  <2>3. s[1] \in 0 .. 9 /\ s[2] \in 0 .. 9 /\ s[3] \in 0 .. 9 /\ s[4] \in 0 .. 9
    BY <1>2
  <2> DEFINE a == s[1]
             b == s[2]
             c == s[3]
             d == s[4]
  <2>4. Written(s)[4] = FourDigits(a, b, c, d)
    <3>1. a \in Int /\ b \in Int /\ c \in Int /\ d \in Int
      BY <2>3
    <3>2. Written(s)[1] = 10 * 0 + a
      BY <2>1, <2>2
    <3>3. Written(s)[2] = 10 * Written(s)[1] + b /\ Written(s)[3] = 10 * Written(s)[2] + c /\ Written(s)[4] = 10 * Written(s)[3] + d
      BY <2>2
    <3> HIDE DEF a, b, c, d
    <3>4. Written(s)[1] = a
      BY <3>1, <3>2
    <3>5. Written(s)[2] = 10 * a + b
      BY <3>3, <3>4
    <3>6. Written(s)[3] = 100 * a + 10 * b + c
      BY <3>1, <3>3, <3>5
    <3> QED BY <3>1, <3>3, <3>6 DEF FourDigits
  <2> QED BY <1>1, <1>2, <2>3, <2>4 DEF ParseField
<1>3. CASE \E k \in 1 .. 4 : s[k] \notin 0 .. 9
  BY <1>1, <1>3 DEF ParseField
<1> QED BY <1>2, <1>3

IsoShaped(t) ==
  /\ Len(t) = 10 /\ t[5] = HYPHEN /\ t[8] = HYPHEN
  /\ \A k \in {1, 2, 3, 4, 6, 7, 9, 10} : t[k] \in 0 .. 9

IsoDate(t) == Date(FourDigits(t[1], t[2], t[3], t[4]), TwoDigits(t[6], t[7]), TwoDigits(t[9], t[10]))

LEMMA PairAt ==
  ASSUME NEW t \in Seq(Int), NEW m \in Nat \ {0}, m + 1 <= Len(t)
  PROVE  SubSeq(t, m, m + 1) \in Seq(Int) /\ Len(SubSeq(t, m, m + 1)) = 2
         /\ SubSeq(t, m, m + 1)[1] = t[m] /\ SubSeq(t, m, m + 1)[2] = t[m + 1]
<1>1. \A k \in m .. m + 1 : t[k] \in Int
  BY LenProperties
<1>2. Len(SubSeq(t, m, m + 1)) = IF m <= m + 1 THEN m + 1 - m + 1 ELSE 0
  BY <1>1, SubSeqProperties
<1>3. \A k \in 1 .. (m + 1 - m + 1) : SubSeq(t, m, m + 1)[k] = t[m + k - 1]
  BY <1>1, SubSeqProperties
<1>4. SubSeq(t, m, m + 1) \in Seq(Int)
  BY <1>1, SubSeqProperties
<1>5. m + 1 - m + 1 = 2 /\ m + 1 - 1 = m /\ m + 2 - 1 = m + 1 /\ 1 \in 1 .. 2 /\ 2 \in 1 .. 2 /\ m <= m + 1
  OBVIOUS
<1> QED BY <1>2, <1>3, <1>4, <1>5

LEMMA IsoFieldsIs ==
  ASSUME NEW t \in Seq(Int)
  PROVE  IsoFields(t) = IF IsoShaped(t) THEN Ok(IsoDate(t)) ELSE InvalidDate
<1>1. CASE Len(t) # 10 \/ t[5] # HYPHEN \/ t[8] # HYPHEN
  BY <1>1 DEF IsoFields, IsoShaped
<1>2. CASE Len(t) = 10 /\ t[5] = HYPHEN /\ t[8] = HYPHEN
  <2> DEFINE y == SubSeq(t, 1, 4)
             m == SubSeq(t, 6, 7)
             d == SubSeq(t, 9, 10)
  <2>1. y \in Seq(Int) /\ Len(y) = 4 /\ y[1] = t[1] /\ y[2] = t[2] /\ y[3] = t[3] /\ y[4] = t[4]
    <3>1. 1 \in 1 .. 11 /\ 4 \in 0 .. 10 /\ \A k \in 1 .. 4 : 1 + k - 1 = k
      OBVIOUS
    <3> QED BY <1>2, <3>1
  <2>2. m \in Seq(Int) /\ Len(m) = 2 /\ m[1] = t[6] /\ m[2] = t[7]
    <3>1. 6 \in Nat \ {0} /\ 6 + 1 = 7 /\ 6 + 1 <= Len(t)
      BY <1>2
    <3> QED BY <3>1, PairAt
  <2>3. d \in Seq(Int) /\ Len(d) = 2 /\ d[1] = t[9] /\ d[2] = t[10]
    <3>1. 9 \in Nat \ {0} /\ 9 + 1 = 10 /\ 9 + 1 <= Len(t)
      BY <1>2
    <3> QED BY <3>1, PairAt
  <2>4. IsoFields(t) = AndThen(ParseField(y), LAMBDA year : AndThen(ParseU8(m), LAMBDA month : AndThen(ParseU8(d), LAMBDA day : Ok(Date(year, month, day)))))
    BY <1>2, Zenon DEF IsoFields
  <2> HIDE DEF y, m, d
  <2>5. IsoFields(t) = IF ParseField(y).ok
                         THEN IF ParseU8(m).ok
                                THEN IF ParseU8(d).ok THEN Ok(Date(ParseField(y).val, ParseU8(m).val, ParseU8(d).val))
                                     ELSE ParseU8(d)
                                ELSE ParseU8(m)
                         ELSE ParseField(y)
    BY <2>4, Zenon DEF AndThen
  <2> DEFINE Y == \A k \in 1 .. 4 : y[k] \in 0 .. 9
             M == m[1] \in 0 .. 9 /\ m[2] \in 0 .. 9
             D == d[1] \in 0 .. 9 /\ d[2] \in 0 .. 9
  <2>6. ParseField(y) = IF Y THEN Ok(FourDigits(y[1], y[2], y[3], y[4])) ELSE InvalidDate
    BY <2>1, FourWritten
  <2>7. ParseU8(m) = IF M THEN Ok(TwoDigits(m[1], m[2])) ELSE InvalidDate
    BY <2>2, TwoWritten
  <2>8. ParseU8(d) = IF D THEN Ok(TwoDigits(d[1], d[2])) ELSE InvalidDate
    BY <2>3, TwoWritten
  <2>9. IsoShaped(t) <=> Y /\ M /\ D
    BY <1>2, <2>1, <2>2, <2>3 DEF IsoShaped
  <2> HIDE DEF Y, M, D
  <2>10. \A v : Ok(v).ok /\ Ok(v).val = v
    BY DEF Ok
  <2>11. ~InvalidDate.ok
    BY DEF InvalidDate, Err
  <2>12. IsoFields(t) = IF Y /\ M /\ D THEN Ok(Date(FourDigits(y[1], y[2], y[3], y[4]), TwoDigits(m[1], m[2]), TwoDigits(d[1], d[2])))
                                       ELSE InvalidDate
    BY <2>5, <2>6, <2>7, <2>8, <2>10, <2>11
  <2> QED BY <2>1, <2>2, <2>3, <2>9, <2>12 DEF IsoDate
<1> QED BY <1>1, <1>2

LEMMA IsoDateType ==
  ASSUME NEW t \in Seq(Int), IsoShaped(t)
  PROVE  IsoDate(t).year \in Nat /\ IsoDate(t).month \in Nat /\ IsoDate(t).day \in Nat
<1>0. ASSUME NEW k \in {1, 2, 3, 4, 6, 7, 9, 10} PROVE t[k] \in Nat
  <2>1. t[k] \in 0 .. 9
    BY Zenon DEF IsoShaped
  <2> QED BY <2>1, SMTT(40)
<1>1. t[1] \in Nat /\ t[2] \in Nat /\ t[3] \in Nat /\ t[4] \in Nat
  BY <1>0, Zenon
<1>2. t[6] \in Nat /\ t[7] \in Nat /\ t[9] \in Nat /\ t[10] \in Nat
  BY <1>0, Zenon
<1>3. \A a, b, c, d \in Nat : FourDigits(a, b, c, d) \in Nat
  BY DEF FourDigits
<1>4. \A a, b \in Nat : TwoDigits(a, b) \in Nat
  BY DEF TwoDigits
<1>5. FourDigits(t[1], t[2], t[3], t[4]) \in Nat /\ TwoDigits(t[6], t[7]) \in Nat /\ TwoDigits(t[9], t[10]) \in Nat
  BY <1>1, <1>2, <1>3, <1>4, Zenon
<1>6. PICK y \in Nat, m \in Nat, d \in Nat :
        y = FourDigits(t[1], t[2], t[3], t[4]) /\ m = TwoDigits(t[6], t[7]) /\ d = TwoDigits(t[9], t[10])
  BY <1>5, Zenon
<1>7. IsoDate(t) = Date(y, m, d)
  BY <1>6, Zenon DEF IsoDate
<1> QED BY <1>7 DEF Date

LEMMA FromIsoIs ==
  ASSUME NEW t \in Seq(Int)
  PROVE  /\ FromIso(t) = IF IsoShaped(t) THEN FromParts(IsoDate(t)) ELSE InvalidDate
         /\ InterpreterFromIso(t) = IF IsoShaped(t) THEN InterpreterFromParts(IsoDate(t)) ELSE InvalidDate
         /\ FromIso(t).ok => IsoShaped(t) /\ FromIso(t) = Ok(IsoDate(t))
<1>1. ~InvalidDate.ok /\ Ok(IsoDate(t)).ok /\ Ok(IsoDate(t)).val = IsoDate(t)
  BY DEF InvalidDate, Err, Ok
<1>2. /\ FromIso(t) = IF IsoFields(t).ok THEN FromParts(IsoFields(t).val) ELSE IsoFields(t)
      /\ InterpreterFromIso(t) = IF IsoFields(t).ok THEN InterpreterFromParts(IsoFields(t).val) ELSE IsoFields(t)
  BY Zenon DEF FromIso, InterpreterFromIso, AndThen
<1>3. /\ FromIso(t) = IF IsoShaped(t) THEN FromParts(IsoDate(t)) ELSE InvalidDate
      /\ InterpreterFromIso(t) = IF IsoShaped(t) THEN InterpreterFromParts(IsoDate(t)) ELSE InvalidDate
  BY <1>1, <1>2, IsoFieldsIs
<1>4. FromParts(IsoDate(t)) \in {InvalidDate, Ok(IsoDate(t))}
  BY DEF FromParts
<1> QED BY <1>1, <1>3, <1>4

-----------------------------------------------------------------------------
(* The value applied.                                                      *)

(* A row assembled: the mark-up on the parsed base.                        *)
LEMMA AssembledIs ==
  ASSUME NEW base \in Range128, NEW p \in 1 .. 30
  PROVE  /\ Assembled(Ok(base), Percent(p)).ok <=> base * (100 + p) * SCALE \in 100 * MIN .. 100 * MAX
         /\ Assembled(Ok(base), Percent(p)).ok =>
              base * (100 + p) - 100 * Assembled(Ok(base), Percent(p)).val.applied \in -50 .. 50
              /\ Assembled(Ok(base), Percent(p)).val.applied \in Int
<1>1. PICK q \in Nat \ {0} : SCALE = 100 * q /\ Percent(p) = p * q
  <2>1. p \in Nat
    OBVIOUS
  <2> QED BY <2>1, PercentIs
<1>2. MAX \in Nat /\ base \in Int /\ p \in Nat
  BY FixedAssumption DEF Range128, MIN
<1>3. PICK c \in Nat : c = 100 + p /\ c >= 101
  BY <1>2
<1>4. PICK factor \in Nat : factor = c * q /\ SCALE + Percent(p) = factor /\ factor <= MAX
  <2>1. (100 + p) * q = 100 * q + p * q /\ c * q \in Nat /\ p * q \in Nat
    BY <1>2
  <2>2. Percent(30) = 30 * q
    <3>1. PICK x \in Nat \ {0} : SCALE = 100 * x /\ Percent(30) = 30 * x
      BY PercentIs
    <3> QED BY <1>1, <3>1
  <2>3. 30 * q = p * q + (30 - p) * q /\ (30 - p) * q \in Nat
    BY <1>2
  <2>4. PICK x \in Nat, y \in Nat, z \in Nat : x = p * q /\ y = (30 - p) * q /\ z = 100 * q
    BY <1>2, <2>3
  <2>5. z + 30 * q <= MAX
    BY <1>1, <2>2, <2>4, MarkupAssumption
  <2> QED BY <1>1, <1>2, <1>3, <2>1, <2>3, <2>4, <2>5
<1>5. factor \in Range128 /\ TryAdd(SCALE, Percent(p)) = Ok(factor)
  BY <1>2, <1>4 DEF TryAdd, Checked, Range128, MIN
<1>6. Assembled(Ok(base), Percent(p)) =
        IF TryMul(base, factor).ok
          THEN Ok([base |-> base, markup |-> Percent(p), applied |-> TryMul(base, factor).val])
          ELSE TryMul(base, factor)
  <2>1. \A v : Ok(v).ok /\ Ok(v).val = v
    BY DEF Ok
  <2>2. Assembled(Ok(base), Percent(p)) = Applied(base, Percent(p))
    BY <2>1, Zenon DEF Assembled, AndThen
  <2>3. Applied(base, Percent(p)) =
          AndThen(TryMul(base, factor), LAMBDA applied : Ok([base |-> base, markup |-> Percent(p), applied |-> applied]))
    BY <1>5, <2>1, Zenon DEF Applied, AndThen
  <2> QED BY <2>2, <2>3, Zenon DEF AndThen
<1>7. base * factor \in Range128 <=> base * (100 + p) * SCALE \in 100 * MIN .. 100 * MAX
  <2>1. base * (100 + p) * SCALE = 100 * (base * factor) /\ base * factor \in Int
    <3>1. base * c * (100 * q) = 100 * (base * (c * q)) /\ base * (c * q) \in Int
      BY <1>2
    <3> QED BY <1>1, <1>3, <1>4, <3>1
  <2>2. PICK g \in Int : g = base * factor
    BY <2>1
  <2> QED BY <1>2, <2>1, <2>2 DEF Range128, MIN
<1>8. CASE base * factor \notin Range128
  <2>1. ~TryMul(base, factor).ok
    BY <1>5, <1>8, TryMulResult DEF Err
  <2> QED BY <1>6, <1>7, <1>8, <2>1
<1>9. CASE base * factor \in Range128
  <2>1. PICK v \in Range128 : TryMul(base, factor) = Ok(v) /\ IsNearestEven(v, base * factor, SCALE)
    BY <1>5, <1>9, TryMulResult
  <2>2. v \in Int
    BY <1>2, <2>1 DEF Range128, MIN
  <2>3. base * c - 100 * v \in -50 .. 50
    BY <1>1, <1>2, <1>3, <1>4, <2>1, <2>2, ProductBound
  <2>4. Assembled(Ok(base), Percent(p)).ok /\ Assembled(Ok(base), Percent(p)).val.applied = v
    BY <1>6, <2>1 DEF Ok
  <2> QED BY <1>3, <1>7, <1>9, <2>2, <2>3, <2>4
<1> QED BY <1>8, <1>9

(* A magnitude beyond the range stays beyond it with the mark-up.          *)
LEMMA TooLarge ==
  ASSUME NEW u \in Nat, u > MAX, NEW p \in 1 .. 30, NEW s \in {u, -u}
  PROVE  s * (100 + p) * SCALE \notin 100 * MIN .. 100 * MAX
<1>1. PICK k \in Nat : k = (100 + p) * SCALE /\ k >= 101
  <2>1. (100 + p) * SCALE \in Nat /\ (100 + p) * SCALE = 101 + ((100 + p) * (SCALE - 1) + (p - 1)) /\ (100 + p) * (SCALE - 1) \in Nat
    BY FixedAssumption
  <2>2. PICK x \in Nat, y \in Nat : x = (100 + p) * SCALE /\ y = (100 + p) * (SCALE - 1)
    BY <2>1
  <2> QED BY <2>1, <2>2
<1>2. s * (100 + p) * SCALE = s * k
  <2>1. SCALE \in Int
    BY FixedAssumption
  <2> QED BY <1>1, <2>1
<1>3. u * k \in Int /\ u * k >= 101 * u
  <2>1. u * k = u * (k - 101) + 101 * u /\ u * (k - 101) \in Nat /\ u * k \in Int
    BY <1>1
  <2>2. PICK x \in Nat, y \in Int : x = u * (k - 101) /\ y = u * k
    BY <2>1
  <2> QED BY <2>1, <2>2
<1>4. PICK g \in Int : g = u * k
  BY <1>3
<1>5. s * k = IF s = u THEN g ELSE -g
  <2>1. (-u) * k = -(u * k)
    BY <1>1
  <2> QED BY <1>4, <2>1
<1>6. MAX \in Nat
  BY FixedAssumption
<1> QED BY <1>2, <1>3, <1>4, <1>5, <1>6 DEF MIN

(* The declared date and period that a value is selected for.              *)
LEMMA PeriodSelected ==
  ASSUME DatedInv, SelectedInv, selected.ok
  PROVE  period.ok /\ period.val \in Nat /\ period.val >= 2026
<1>1. period.ok /\ date.ok /\ period = PeriodOf(date.val) /\ request \in Requests /\ date = FromIso(request.on)
  BY DEF SelectedInv, DatedInv, None, Err
<1>2. request.on \in Seq(Int)
  BY <1>1 DEF Requests
<1>3. IsoShaped(request.on) /\ date = Ok(IsoDate(request.on))
  BY <1>1, <1>2, FromIsoIs
<1>4. date.val.year \in Nat
  BY <1>2, <1>3, IsoDateType DEF Ok
<1>5. period.val = date.val.year /\ date.val.year >= 2026
  BY <1>1, <1>4 DEF PeriodOf, PeriodNew, FIRST_YEAR, Ok, Err
<1> QED BY <1>1, <1>4, <1>5

(***************************************************************************)
(* The value applied is within the two roundings of the exact product of   *)
(* the written decimal and the mark-up of the sector and the year, and a   *)
(* selected row is refused only for a malformed text or a product out of   *)
(* range: for tables of any size and texts of any length.                  *)
(***************************************************************************)
THEOREM AppliesTheMarkedUpText == DefaultsSpec => []AppliedIsTheMarkedUpText
<1>1. DefaultsInv => AppliedIsTheMarkedUpText
  <2> SUFFICES ASSUME DefaultsInv, selected.ok, value # None
               PROVE  AppliedIsTheMarkedUpText
    BY DEF AppliedIsTheMarkedUpText
  <2> DEFINE p == Rate(request.sector, period.val)
             u == DenotedUnits(Body)
             D == Denoted(Body)
             t == TenTo[Places(Body)]
             W == WellFormed(Body)
  <2>1. ParserInv /\ Done /\ value = Assembled(outcome, selected.val.markup)
    BY DEF DefaultsInv, ValueInv
  <2>2. period.val \in Nat /\ period.val >= 2026
    BY PeriodSelected DEF DefaultsInv
  <2>3. p \in {1, 10, 20, 30} /\ Markup(request.sector, period.val) = Percent(p)
    BY <2>2, MarkupIs
  <2>4. selected.val.markup = Percent(p)
    <3>1. Selection(selected, text)
      BY DEF DefaultsInv, SelectedInv, None, Err
    <3>2. ~Err("NoDefaultValue").ok /\ \A v : Ok(v).val = v
      BY DEF Err, Ok
    <3> DEFINE code == NormalizeCnCode(request.code)
    <3>3. \E source : selected = Ok([source |-> source, markup |-> Markup(request.sector, period.val)])
      BY <3>1, <3>2, Zenon DEF Selection
    <3>4. PICK source : selected = Ok([source |-> source, markup |-> Markup(request.sector, period.val)])
      BY <3>3
    <3>5. selected.val = [source |-> source, markup |-> Markup(request.sector, period.val)]
      BY <3>2, <3>4
    <3> QED BY <2>3, <3>5
  <2>5. /\ outcome.ok <=> W /\ u <= MAX
        /\ outcome.ok => outcome = Ok(Signed(u)) /\ Signed(u) \in Range128
        /\ D \in Nat /\ u \in Nat /\ t \in Nat \ {0} /\ Signed(u) \in {u, -u}
        /\ u \in Nat /\ IsNearestEven(u, D * SCALE, t)
    <3>1. Verdict(Body, negative, outcome) /\ (outcome.ok => outcome = Ok(Signed(u)))
      BY <2>1, ParsedIs
    <3>2. D \in Nat /\ u \in Nat /\ t \in Nat \ {0}
      BY <2>1, ParsedIs
    <3>3. outcome.ok <=> W /\ u <= MAX
      BY <3>1 DEF Verdict
    <3>4. Signed(u) \in {u, -u}
      BY DEF Signed
    <3>5. u <= MAX => Signed(u) \in Range128
      <4> HIDE DEF u
      <4> QED BY <3>2, <3>4, FixedAssumption DEF Range128, MIN
    <3>6. IsNearestEven(u, D * SCALE, t)
      BY <2>1, ParsedIs, DenotedTypes
    <3> QED BY <3>1, <3>2, <3>3, <3>4, <3>5, <3>6
  <2> DEFINE S == Signed(u)
             E == Signed(D)
  <2>6. AppliedIsTheMarkedUpText <=>
          /\ value.ok <=> W /\ S * (100 + p) * SCALE \in 100 * MIN .. 100 * MAX
          /\ value.ok =>
               2 * Magnitude(value.val.applied * (100 * t) - E * (100 + p) * SCALE) <= t * (200 + p)
    BY Zenon DEF AppliedIsTheMarkedUpText, Rate
  <2> HIDE DEF p
  <2>7. p \in 1 .. 30
    BY <2>3
  <2>8. CASE ~outcome.ok
    <3>1. ~value.ok
      BY <2>1, <2>8 DEF Assembled, AndThen
    <3>2. ~(W /\ S * (100 + p) * SCALE \in 100 * MIN .. 100 * MAX)
      <4> SUFFICES ASSUME W PROVE S * (100 + p) * SCALE \notin 100 * MIN .. 100 * MAX
        OBVIOUS
      <4>1. MAX \in Nat
        BY FixedAssumption
      <4>2. u > MAX /\ u \in Nat /\ S \in {u, -u}
        <5> HIDE DEF u, W
        <5> QED BY <2>5, <2>8, <4>1
      <4> QED BY <2>7, <4>2, TooLarge
    <3> QED BY <2>6, <3>1, <3>2
  <2>9. CASE outcome.ok
    <3>1. W /\ S \in Range128 /\ outcome = Ok(S)
      BY <2>5, <2>9
    <3>2. value = Assembled(Ok(S), Percent(p))
      BY <2>1, <2>4, <3>1
    <3>3. value.ok <=> S * (100 + p) * SCALE \in 100 * MIN .. 100 * MAX
      BY <2>7, <3>1, <3>2, AssembledIs, ZenonT(60)
    <3>4. ASSUME value.ok
          PROVE  2 * Magnitude(value.val.applied * (100 * t) - E * (100 + p) * SCALE) <= t * (200 + p)
      <4>1. PICK v \in Int : v = value.val.applied /\ S * (100 + p) - 100 * v \in -50 .. 50
        BY <2>7, <3>1, <3>2, <3>4, AssembledIs, ZenonT(60)
      <4>2. PICK c \in Nat : c = 100 + p
        BY <2>7
      <4>3. S \in Int /\ E \in Int /\ SCALE \in Int
        BY <2>5, FixedAssumption DEF Signed
      <4>4. IsNearestEven(S, E * SCALE, t)
        <5>1. (S = u /\ E = D) \/ (S = -u /\ E = -D)
          BY DEF Signed
        <5> HIDE DEF S, E, D, u, t
        <5>2. CASE S = u /\ E = D
          BY <2>5, <5>2
        <5>3. CASE S = -u /\ E = -D
          <6>1. PICK n \in Nat : n = D * SCALE /\ (-D) * SCALE = -n
            BY <2>5, FixedAssumption
          <6> QED BY <2>5, <5>3, <6>1, NearestNegated
        <5> QED BY <5>1, <5>2, <5>3
      <4>5. t \in Nat \ {0} /\ E * SCALE \in Int
        BY <2>5, <4>3
      <4> HIDE DEF S, E, t
      <4>6. PICK e \in Int : e = E * SCALE
        BY <4>5
      <4>7. S * c - 100 * v \in -50 .. 50
        BY <4>1, <4>2
      <4>8. 2 * Magnitude(v * (100 * t) - e * c) <= t * (100 + c)
        BY <4>3, <4>4, <4>5, <4>6, <4>7, MarkedUpBound
      <4>9. e * c = E * (100 + p) * SCALE
        BY <2>7, <4>2, <4>3, <4>6
      <4>10. 100 + c = 200 + p
        BY <2>7, <4>2
      <4> QED BY <4>1, <4>8, <4>9, <4>10
    <3> QED BY <2>6, <3>1, <3>3, <3>4
  <2> QED BY <2>8, <2>9
<1> QED BY <1>1, DefaultsInvariant, PTL

-----------------------------------------------------------------------------
(* The calendar.                                                           *)

Leap(y) == IF IsLeapYear(y) THEN 1 ELSE 0

(* Days before March of a year, and before a month counted from the March  *)
(* before it.                                                              *)
Start(y) == 365 * y + y \div 4 - y \div 100 + y \div 400

Before(y, m) ==
  IF m = 1 THEN 306 ELSE IF m = 2 THEN 337
  ELSE IF m = 3 THEN 365 + Leap(y) ELSE IF m = 4 THEN 396 + Leap(y)
  ELSE IF m = 5 THEN 426 + Leap(y) ELSE IF m = 6 THEN 457 + Leap(y)
  ELSE IF m = 7 THEN 487 + Leap(y) ELSE IF m = 8 THEN 518 + Leap(y)
  ELSE IF m = 9 THEN 549 + Leap(y) ELSE IF m = 10 THEN 579 + Leap(y)
  ELSE IF m = 11 THEN 610 + Leap(y) ELSE IF m = 12 THEN 640 + Leap(y)
  ELSE 671 + Leap(y)

LEMMA StartStep ==
  ASSUME NEW y \in Nat, y >= 1
  PROVE  Start(y) \in Int /\ Start(y - 1) \in Int /\ Start(y) = Start(y - 1) + 365 + Leap(y)
<1>1. y \div 4 - (y - 1) \div 4 = IF y % 4 = 0 THEN 1 ELSE 0
  OBVIOUS
<1>2. y \div 100 - (y - 1) \div 100 = IF y % 100 = 0 THEN 1 ELSE 0
  OBVIOUS
<1>3. y \div 400 - (y - 1) \div 400 = IF y % 400 = 0 THEN 1 ELSE 0
  OBVIOUS
<1>4. (y % 400 = 0 => y % 100 = 0) /\ (y % 100 = 0 => y % 4 = 0)
  OBVIOUS
<1>5. Leap(y) = (IF y % 4 = 0 THEN 1 ELSE 0) - (IF y % 100 = 0 THEN 1 ELSE 0) + (IF y % 400 = 0 THEN 1 ELSE 0)
  BY <1>4 DEF Leap, IsLeapYear
<1> QED BY <1>1, <1>2, <1>3, <1>5 DEF Start

LEMMA StartGrows ==
  ASSUME NEW y \in Nat, NEW z \in Nat, y <= z
  PROVE  Start(y) <= Start(z)
<1>1. y \div 4 <= z \div 4 /\ y \div 400 <= z \div 400
  OBVIOUS
<1>2. z \div 100 - y \div 100 <= z - y
  OBVIOUS
<1> QED BY <1>1, <1>2 DEF Start

LEMMA LeapType == ASSUME NEW y PROVE Leap(y) \in {0, 1}
  BY DEF Leap

Dated(d) == d.year \in Nat /\ d.month \in Nat /\ d.day \in Nat

LEMMA DaysIs ==
  ASSUME NEW y \in Nat, NEW m \in Nat
  PROVE  /\ DaysInMonth(y, m) \in Nat
         /\ m \notin 1 .. 12 => DaysInMonth(y, m) = 0
         /\ m \in 1 .. 12 => DaysInMonth(y, m) >= 28 /\ Before(y, m) + DaysInMonth(y, m) = Before(y, m + 1)
<1>1. Leap(y) = IF IsLeapYear(y) THEN 1 ELSE 0
  BY DEF Leap
<1>2. m \in 1 .. 12 => m \in {1, 2, 3, 4, 5, 6, 7, 8, 9, 10, 11, 12}
  OBVIOUS
<1> QED BY <1>1, <1>2 DEF DaysInMonth, Before

LEMMA BeforeGrows ==
  ASSUME NEW y \in Nat, NEW m \in 1 .. 13, NEW n \in 1 .. 13, m <= n
  PROVE  Before(y, m) \in Nat /\ Before(y, n) \in Nat /\ Before(y, m) <= Before(y, n)
<1>1. PICK l \in {0, 1} : l = Leap(y)
  BY LeapType
<1> QED BY <1>1 DEF Before

LEMMA BeforeType ==
  ASSUME NEW y \in Nat, NEW m \in 1 .. 13
  PROVE  Before(y, m) \in Nat
<1>1. PICK l \in {0, 1} : l = Leap(y)
  BY LeapType
<1> QED BY <1>1 DEF Before

LEMMA DayNumberIs ==
  ASSUME NEW d, Dated(d), d.year >= 1, d.month \in 1 .. 12
  PROVE  DayNumber(d) = Start(d.year - 1) + Before(d.year, d.month) + d.day
<1>1. PICK y \in Nat, m \in 1 .. 12, k \in Nat : y = d.year /\ m = d.month /\ k = d.day /\ y >= 1
  BY DEF Dated
<1>2. Start(y) = Start(y - 1) + 365 + Leap(y) /\ Start(y) \in Int /\ Start(y - 1) \in Int /\ Leap(y) \in {0, 1}
  BY <1>1, StartStep, LeapType
<1> DEFINE c == (153 * ((m + 9) % 12) + 2) \div 5
<1>3. DayNumber(d) = (IF m > 2 THEN Start(y) ELSE Start(y - 1)) + c + k
  BY <1>1 DEF DayNumber, Start
<1>4. c = IF m > 2 THEN Before(y, m) - 365 - Leap(y) ELSE Before(y, m)
  <2>1. m \in {1, 2, 3, 4, 5, 6, 7, 8, 9, 10, 11, 12}
    BY <1>1
  <2>2. PICK l \in {0, 1} : l = Leap(y)
    BY <1>2
  <2> QED BY <2>1, <2>2 DEF Before
<1>5. Before(y, m) \in Nat /\ c \in Int
  <2>1. m \in 1 .. 13 /\ c \in Int
    OBVIOUS
  <2> QED BY <2>1, BeforeType
<1> HIDE DEF c
<1>6. PICK l \in {0, 1} : l = Leap(y)
  BY <1>2
<1> QED BY <1>1, <1>2, <1>3, <1>4, <1>5, <1>6

(* Days run through a year without a gap, and on into the next.            *)
LEMMA NextMonthIs ==
  ASSUME NEW d, Dated(d), d.year >= 1, d.month \in 1 .. 12
  PROVE  DayNumber(NextMonth(d)) = Start(d.year - 1) + Before(d.year, d.month + 1) + 1
<1>1. PICK y \in Nat, m \in 1 .. 12 : y = d.year /\ m = d.month /\ y >= 1
  BY DEF Dated
<1>2. Start(y) = Start(y - 1) + 365 + Leap(y) /\ Start(y) \in Int /\ Start(y - 1) \in Int /\ Leap(y) \in {0, 1}
  BY <1>1, StartStep, LeapType
<1>3. CASE m = 12
  <2> DEFINE e == Date(y + 1, 1, 1)
  <2>1. NextMonth(d) = e
    BY <1>1, <1>3 DEF NextMonth
  <2>2. Dated(e) /\ e.year = y + 1 /\ e.month = 1 /\ e.day = 1
    BY DEF Dated, Date
  <2> HIDE DEF e
  <2>3. DayNumber(e) = Start(e.year - 1) + Before(e.year, 1) + 1
    BY <2>2, DayNumberIs
  <2>4. Before(e.year, 1) = 306 /\ Before(y, 12 + 1) = 671 + Leap(y)
    BY DEF Before
  <2>5. e.year - 1 = y
    BY <2>2
  <2> QED BY <1>1, <1>2, <1>3, <2>1, <2>3, <2>4, <2>5
<1>4. CASE m # 12
  <2> DEFINE e == Date(y, m + 1, 1)
  <2>1. NextMonth(d) = e
    BY <1>1, <1>4 DEF NextMonth
  <2>2. Dated(e) /\ e.year = y /\ e.month = m + 1 /\ e.day = 1 /\ m + 1 \in 1 .. 12
    BY <1>4 DEF Dated, Date
  <2> HIDE DEF e
  <2>3. DayNumber(e) = Start(e.year - 1) + Before(e.year, e.month) + e.day
    BY <1>1, <2>2, DayNumberIs
  <2> QED BY <1>1, <2>1, <2>2, <2>3
<1> QED BY <1>3, <1>4

(* Both constructors accept the days of the calendar.                      *)
LEMMA RealIs ==
  ASSUME NEW d, Dated(d)
  PROVE  /\ FromParts(d) = InterpreterFromParts(d)
         /\ FromParts(d).ok <=> IsReal(d)
         /\ FromParts(d).ok => FromParts(d) = Ok(d)
<1>0. PICK y \in Nat, m \in Nat, k \in Nat : y = d.year /\ m = d.month /\ k = d.day
  BY DEF Dated
<1>1. DaysInMonth(y, m) \in Nat /\ (m \notin 1 .. 12 => DaysInMonth(y, m) = 0)
  BY DaysIs
<1>2. FromParts(d) = InterpreterFromParts(d)
  BY <1>0, <1>1 DEF FromParts, InterpreterFromParts
<1>3. FromParts(d).ok <=> y > 0 /\ m \in 1 .. 12 /\ k > 0 /\ k <= DaysInMonth(y, m)
  BY <1>0, <1>1 DEF FromParts, Ok, InvalidDate, Err
<1>4. ASSUME y > 0, m \in 1 .. 12
      PROVE  DayNumber(d) < DayNumber(NextMonth(d)) <=> k <= DaysInMonth(y, m)
  <2>1. DayNumber(d) = Start(y - 1) + Before(y, m) + k
    BY <1>0, <1>4, DayNumberIs
  <2>2. DayNumber(NextMonth(d)) = Start(y - 1) + Before(y, m + 1) + 1
    BY <1>0, <1>4, NextMonthIs
  <2>3. Before(y, m) + DaysInMonth(y, m) = Before(y, m + 1) /\ Start(y - 1) \in Int /\ Before(y, m) \in Nat
    <3>1. y >= 1 /\ m \in 1 .. 13
      BY <1>4
    <3>2. Before(y, m) \in Nat
      BY <3>1, BeforeType
    <3> QED BY <1>4, <3>1, <3>2, DaysIs, StartStep
  <2> QED BY <1>1, <2>1, <2>2, <2>3
<1>5. FromParts(d).ok => FromParts(d) = Ok(d)
  BY DEF FromParts, InvalidDate, Err
<1> QED BY <1>0, <1>2, <1>3, <1>4, <1>5 DEF IsReal

(* A later year, month or day comes after.                                 *)
Earlier(a, b) ==
  \/ a.year < b.year
  \/ a.year = b.year /\ a.month < b.month
  \/ a.year = b.year /\ a.month = b.month /\ a.day < b.day

LEMMA EarlierDays ==
  ASSUME NEW a, NEW b, Dated(a), Dated(b), FromParts(a).ok, FromParts(b).ok, Earlier(a, b)
  PROVE  DayNumber(a) < DayNumber(b)
<1> DEFINE Known(d) == d.year >= 1 /\ d.month \in 1 .. 12 /\ d.day >= 1 /\ d.day <= DaysInMonth(d.year, d.month)
<1>1. ASSUME NEW d, Dated(d), FromParts(d).ok PROVE Known(d)
  <2>1. DaysInMonth(d.year, d.month) \in Nat
    BY <1>1, DaysIs DEF Dated
  <2> QED BY <1>1, <2>1 DEF FromParts, Ok, InvalidDate, Err, Dated
<1>2. PICK y \in Nat, m \in 1 .. 12, k \in Nat : y = a.year /\ m = a.month /\ k = a.day /\ y >= 1 /\ k <= DaysInMonth(y, m)
  BY <1>1 DEF Dated
<1>3. PICK z \in Nat, n \in 1 .. 12, l \in Nat : z = b.year /\ n = b.month /\ l = b.day /\ z >= 1 /\ l >= 1
  BY <1>1 DEF Dated
<1>4. DayNumber(a) = Start(y - 1) + Before(y, m) + k /\ DayNumber(b) = Start(z - 1) + Before(z, n) + l
  BY <1>2, <1>3, DayNumberIs
<1>5. /\ Before(y, m) + DaysInMonth(y, m) = Before(y, m + 1) /\ DaysInMonth(y, m) \in Nat
      /\ Before(y, m) \in Nat /\ Before(z, n) \in Nat /\ m \in Nat
  <2>1. m \in 1 .. 13 /\ n \in 1 .. 13 /\ m \in Nat
    OBVIOUS
  <2>2. Before(y, m) \in Nat /\ Before(z, n) \in Nat
    BY <2>1, BeforeType
  <2> QED BY <2>1, <2>2, DaysIs
<1>6. Start(y - 1) \in Int /\ Start(z - 1) \in Int /\ Start(y) \in Int /\ Start(y) = Start(y - 1) + 365 + Leap(y) /\ Leap(y) \in {0, 1}
  BY <1>2, <1>3, StartStep, LeapType
<1>7. CASE y < z
  <2>1. Start(y) <= Start(z - 1)
    BY <1>3, <1>7, StartGrows
  <2>2. Before(y, m + 1) <= Before(y, 13) /\ Before(y, 13) = 671 + Leap(y) /\ Before(z, 1) <= Before(z, n) /\ Before(z, 1) = 306
    <3>1. m + 1 \in 1 .. 13 /\ 13 \in 1 .. 13 /\ n \in 1 .. 13 /\ 1 \in 1 .. 13 /\ m + 1 <= 13 /\ 1 <= n
      OBVIOUS
    <3>2. Before(y, 13) = 671 + Leap(y) /\ Before(z, 1) = 306
      BY DEF Before
    <3>3. Before(y, m + 1) <= Before(y, 13)
      BY <3>1, BeforeGrows
    <3>4. Before(z, 1) <= Before(z, n)
      BY <3>1, BeforeGrows
    <3> QED BY <3>2, <3>3, <3>4
  <2>3. PICK f \in {0, 1} : f = Leap(y)
    BY <1>6
  <2> QED BY <1>2, <1>3, <1>4, <1>5, <1>6, <2>1, <2>2, <2>3
<1>8. CASE y = z /\ m < n
  <2>1. Before(y, m + 1) <= Before(y, n)
    <3>1. m + 1 \in 1 .. 13 /\ n \in 1 .. 13 /\ m + 1 <= n
      BY <1>8
    <3> QED BY <3>1, BeforeGrows
  <2> QED BY <1>2, <1>3, <1>4, <1>5, <1>6, <1>8, <2>1
<1>9. CASE y = z /\ m = n /\ k < l
  BY <1>4, <1>5, <1>6, <1>9
<1> QED BY <1>2, <1>3, <1>7, <1>8, <1>9 DEF Earlier

LEMMA OrderIs ==
  ASSUME NEW a, NEW b, Dated(a), Dated(b), FromParts(a).ok, FromParts(b).ok
  PROVE  NotAfter(a, b) <=> DayNumber(a) <= DayNumber(b)
<1>0. DayNumber(a) \in Int /\ DayNumber(b) \in Int
  <2>1. ASSUME NEW d, Dated(d), FromParts(d).ok PROVE DayNumber(d) \in Int
    <3>1. d.year >= 1 /\ d.month \in 1 .. 12
      BY <2>1 DEF FromParts, InvalidDate, Err, Dated
    <3>2. PICK y \in Nat, m \in 1 .. 13, k \in Nat : y = d.year /\ m = d.month /\ k = d.day /\ y >= 1
      BY <2>1, <3>1 DEF Dated
    <3>3. DayNumber(d) = Start(y - 1) + Before(y, m) + k
      BY <2>1, <3>1, <3>2, DayNumberIs
    <3>4. Start(y - 1) \in Int
      BY <3>2, StartStep
    <3>5. Before(y, m) \in Nat
      BY BeforeType
    <3> QED BY <3>2, <3>3, <3>4, <3>5
  <2> QED BY <2>1
<1>1. CASE Earlier(a, b)
  BY <1>0, <1>1, EarlierDays DEF NotAfter, Earlier, Dated
<1>2. CASE Earlier(b, a)
  BY <1>0, <1>2, EarlierDays DEF NotAfter, Earlier, Dated
<1>3. CASE a.year = b.year /\ a.month = b.month /\ a.day = b.day
  BY <1>0, <1>3 DEF NotAfter, Dated, DayNumber
<1> QED BY <1>1, <1>2, <1>3 DEF Earlier, Dated

(* A date is displayed as the text it was read from.                       *)
LEMMA PaddedPair ==
  ASSUME NEW a \in 0 .. 9, NEW b \in 0 .. 9
  PROVE  LET p == Padded(TwoDigits(a, b), 2)
         IN  p \in Seq(Int) /\ Len(p) = 2 /\ p[1] = a /\ p[2] = b
<1>1. PICK n \in Nat : n = 10 * a + b /\ n = TwoDigits(a, b)
  BY DEF TwoDigits
<1>2. n \div 10 = a /\ n % 10 = b /\ n \div 1 = n /\ a % 10 = a
  BY <1>1
<1>3. 2 \in Nat /\ 1 \in 1 .. 2 /\ 2 \in 1 .. 2 /\ 2 - 1 = 1 /\ 2 - 2 = 0
  OBVIOUS
<1>4. /\ Padded(n, 2) \in Seq(Int) /\ Len(Padded(n, 2)) = 2
      /\ Padded(n, 2)[1] = (n \div TenTo[1]) % 10 /\ Padded(n, 2)[2] = (n \div TenTo[0]) % 10
  BY <1>3, PaddedDigit, ZenonT(60)
<1>5. (n \div TenTo[1]) % 10 = a
  <2>1. n \div TenTo[1] = a
    BY <1>2, SmallPowers, Zenon
  <2> QED BY <1>2, <2>1, Zenon
<1>6. (n \div TenTo[0]) % 10 = b
  <2>1. n \div TenTo[0] = n
    BY <1>2, SmallPowers, Zenon
  <2> QED BY <1>2, <2>1, Zenon
<1>7. Padded(n, 2)[1] = a /\ Padded(n, 2)[2] = b
  BY <1>4, <1>5, <1>6, Zenon
<1> QED BY <1>1, <1>4, <1>7, Zenon

(* A piece of a text, from a place on.                                     *)
Writes(piece, t, m) == \A i \in 1 .. Len(piece) : piece[i] = t[m + i]

LEMMA Joined ==
  ASSUME NEW s \in Seq(Int), NEW r \in Seq(Int), NEW t, Writes(s, t, 0), Writes(r, t, Len(s))
  PROVE  s \o r \in Seq(Int) /\ Len(s \o r) = Len(s) + Len(r) /\ Writes(s \o r, t, 0)
<1>1. /\ s \o r \in Seq(Int) /\ Len(s \o r) = Len(s) + Len(r)
      /\ \A i \in 1 .. Len(s) + Len(r) : (s \o r)[i] = IF i <= Len(s) THEN s[i] ELSE r[i - Len(s)]
  BY ConcatProperties
<1>2. PICK m \in Nat, n \in Nat : m = Len(s) /\ n = Len(r)
  OBVIOUS
<1>3. ASSUME NEW i \in 1 .. m + n PROVE (s \o r)[i] = t[0 + i]
  <2>1. CASE i <= m
    <3>1. i \in 1 .. m /\ s[i] = t[0 + i]
      BY <1>2, <2>1 DEF Writes
    <3> QED BY <1>1, <1>2, <2>1, <3>1
  <2>2. CASE ~(i <= m)
    <3>1. i - m \in 1 .. n /\ m + (i - m) = i /\ 0 + i = i
      BY <2>2
    <3>2. r[i - m] = t[i]
      BY <1>2, <3>1 DEF Writes
    <3> QED BY <1>1, <1>2, <2>2, <3>1, <3>2
  <2> QED BY <2>1, <2>2
<1> QED BY <1>1, <1>2, <1>3 DEF Writes

LEMMA DateTextIs ==
  ASSUME NEW t \in Seq(Int), IsoShaped(t)
  PROVE  DateText(IsoDate(t)) = t
<1> DEFINE P == Padded(FourDigits(t[1], t[2], t[3], t[4]), 4)
           H == <<HYPHEN>>
           Q == Padded(TwoDigits(t[6], t[7]), 2)
           R == Padded(TwoDigits(t[9], t[10]), 2)
<1>1. P \in Seq(Int) /\ Len(P) = 4 /\ P[1] = t[1] /\ P[2] = t[2] /\ P[3] = t[3] /\ P[4] = t[4]
  <2>1. PICK a \in 0 .. 9, b \in 0 .. 9, c \in 0 .. 9, d \in 0 .. 9 : a = t[1] /\ b = t[2] /\ c = t[3] /\ d = t[4]
    BY Zenon DEF IsoShaped
  <2>2. P = Padded(FourDigits(a, b, c, d), 4)
    BY <2>1, Zenon
  <2> HIDE DEF P
  <2>3. PICK n \in Nat : n = FourDigits(a, b, c, d) /\ n = 1000 * a + 100 * b + 10 * c + d
    BY DEF FourDigits
  <2>4. n \div 1000 = a /\ n \div 100 = 10 * a + b /\ n \div 10 = 100 * a + 10 * b + c /\ n \div 1 = n
    BY <2>3
  <2>5. (n \div 1000) % 10 = a /\ (n \div 100) % 10 = b /\ (n \div 10) % 10 = c /\ (n \div 1) % 10 = d
    <3>1. a % 10 = a /\ (10 * a + b) % 10 = b /\ (100 * a + 10 * b + c) % 10 = c /\ n % 10 = d
      BY <2>3
    <3> QED BY <2>4, <3>1
  <2>6. P = Padded(n, 4)
    BY <2>2, <2>3, Zenon
  <2>7. P \in Seq(Int) /\ Len(P) = 4 /\ \A i \in 1 .. 4 : P[i] = (n \div TenTo[4 - i]) % 10
    <3>1. 4 \in Nat
      OBVIOUS
    <3> QED BY <2>6, <3>1, PaddedDigit, Zenon
  <2>8. P[1] = (n \div TenTo[3]) % 10 /\ P[2] = (n \div TenTo[2]) % 10 /\ P[3] = (n \div TenTo[1]) % 10 /\ P[4] = (n \div TenTo[0]) % 10
    <3>1. 1 \in 1 .. 4 /\ 2 \in 1 .. 4 /\ 3 \in 1 .. 4 /\ 4 \in 1 .. 4 /\ 4 - 1 = 3 /\ 4 - 2 = 2 /\ 4 - 3 = 1 /\ 4 - 4 = 0
      OBVIOUS
    <3>2. P[1] = (n \div TenTo[4 - 1]) % 10 /\ P[2] = (n \div TenTo[4 - 2]) % 10 /\ P[3] = (n \div TenTo[4 - 3]) % 10 /\ P[4] = (n \div TenTo[4 - 4]) % 10
      BY <2>7, <3>1, Zenon
    <3> QED BY <3>1, <3>2, Zenon
  <2>9. P[1] = (n \div 1000) % 10 /\ P[2] = (n \div 100) % 10 /\ P[3] = (n \div 10) % 10 /\ P[4] = (n \div 1) % 10
    BY <2>8, SmallPowers, ZenonT(60)
  <2>10. P[1] = a /\ P[2] = b /\ P[3] = c /\ P[4] = d
    BY <2>5, <2>9, Zenon
  <2> QED BY <2>1, <2>7, <2>10
<1>2. Q \in Seq(Int) /\ Len(Q) = 2 /\ Q[1] = t[6] /\ Q[2] = t[7]
  BY PaddedPair DEF IsoShaped
<1>3. R \in Seq(Int) /\ Len(R) = 2 /\ R[1] = t[9] /\ R[2] = t[10]
  BY PaddedPair DEF IsoShaped
<1>4. H \in Seq(Int) /\ Len(H) = 1 /\ H[1] = HYPHEN
  BY DEF HYPHEN
<1>5. DateText(IsoDate(t)) = P \o H \o Q \o H \o R
  <2>1. \A y, m, d : Date(y, m, d).year = y /\ Date(y, m, d).month = m /\ Date(y, m, d).day = d
    BY DEF Date
  <2>2. PICK d : d = IsoDate(t)
    OBVIOUS
  <2>3. d.year = FourDigits(t[1], t[2], t[3], t[4]) /\ d.month = TwoDigits(t[6], t[7]) /\ d.day = TwoDigits(t[9], t[10])
    BY <2>2 DEF IsoDate, Date
  <2> QED BY <2>2, <2>3, Zenon DEF DateText
<1>6. Len(t) = 10 /\ t[5] = HYPHEN /\ t[8] = HYPHEN
  BY DEF IsoShaped
<1> HIDE DEF P, H, Q, R
<1>7. PICK u \in Seq(Int) : u = P \o H /\ Len(u) = 5 /\ Writes(u, t, 0)
  <2>0. Writes(P, t, 0)
    <3>1. \A i \in 1 .. 4 : P[i] = t[i] /\ 0 + i = i
      BY <1>1
    <3> QED BY <1>1, <3>1 DEF Writes
  <2>1. H[1] = t[4 + 1]
    BY <1>4, <1>6
  <2>2. \A i \in 1 .. 1 : H[i] = t[4 + i]
    BY <2>1
  <2>3. Writes(H, t, Len(P))
    <3>1. Writes(H, t, 4)
      BY <1>4, <1>6, <2>2 DEF Writes
    <3> QED BY <1>1, <3>1, Zenon
  <2>4. P \o H \in Seq(Int) /\ Len(P \o H) = Len(P) + Len(H) /\ Writes(P \o H, t, 0)
    BY <1>1, <1>4, <1>6, <2>0, <2>3, Joined, Zenon
  <2>5. PICK m \in Nat, n \in Nat : m = Len(P) /\ n = Len(H) /\ m + n = 5
    BY <1>1, <1>4, <1>6
  <2>6. Len(P \o H) = 5
    BY <2>4, <2>5
  <2> QED BY <2>4, <2>6, Zenon
<1>8. PICK v \in Seq(Int) : v = u \o Q /\ Len(v) = 7 /\ Writes(v, t, 0)
  <2>1. Q[1] = t[5 + 1] /\ Q[2] = t[5 + 2]
    BY <1>2
  <2>2. \A i \in 1 .. 2 : Q[i] = t[5 + i]
    BY <2>1
  <2>3. Writes(Q, t, Len(u))
    <3>1. Writes(Q, t, 5)
      BY <1>2, <2>2 DEF Writes
    <3> QED BY <1>7, <3>1, Zenon
  <2>4. u \o Q \in Seq(Int) /\ Len(u \o Q) = Len(u) + Len(Q) /\ Writes(u \o Q, t, 0)
    BY <1>7, <1>2, <2>3, Joined, Zenon
  <2>5. PICK m \in Nat, n \in Nat : m = Len(u) /\ n = Len(Q) /\ m + n = 7
    BY <1>7, <1>2
  <2>6. Len(u \o Q) = 7
    BY <2>4, <2>5
  <2> QED BY <2>4, <2>6, Zenon
<1>9. PICK w \in Seq(Int) : w = v \o H /\ Len(w) = 8 /\ Writes(w, t, 0)
  <2>1. H[1] = t[7 + 1]
    BY <1>4, <1>6
  <2>2. \A i \in 1 .. 1 : H[i] = t[7 + i]
    BY <2>1
  <2>3. Writes(H, t, Len(v))
    <3>1. Writes(H, t, 7)
      BY <1>4, <1>6, <2>2 DEF Writes
    <3> QED BY <1>8, <3>1, Zenon
  <2>4. v \o H \in Seq(Int) /\ Len(v \o H) = Len(v) + Len(H) /\ Writes(v \o H, t, 0)
    BY <1>8, <1>4, <1>6, <2>3, Joined, Zenon
  <2>5. PICK m \in Nat, n \in Nat : m = Len(v) /\ n = Len(H) /\ m + n = 8
    BY <1>8, <1>4, <1>6
  <2>6. Len(v \o H) = 8
    BY <2>4, <2>5
  <2> QED BY <2>4, <2>6, Zenon
<1>10. PICK x \in Seq(Int) : x = w \o R /\ Len(x) = 10 /\ Writes(x, t, 0)
  <2>1. R[1] = t[8 + 1] /\ R[2] = t[8 + 2]
    BY <1>3
  <2>2. \A i \in 1 .. 2 : R[i] = t[8 + i]
    BY <2>1
  <2>3. Writes(R, t, Len(w))
    <3>1. Writes(R, t, 8)
      BY <1>3, <2>2 DEF Writes
    <3> QED BY <1>9, <3>1, Zenon
  <2>4. w \o R \in Seq(Int) /\ Len(w \o R) = Len(w) + Len(R) /\ Writes(w \o R, t, 0)
    BY <1>9, <1>3, <2>3, Joined, Zenon
  <2>5. PICK m \in Nat, n \in Nat : m = Len(w) /\ n = Len(R) /\ m + n = 10
    BY <1>9, <1>3
  <2>6. Len(w \o R) = 10
    BY <2>4, <2>5
  <2> QED BY <2>4, <2>6, Zenon
<1>11. \A i \in 1 .. 10 : x[i] = t[i]
  <2>1. \A i \in 1 .. 10 : 0 + i = i
    OBVIOUS
  <2> QED BY <1>10, <2>1 DEF Writes
<1>12. x = t
  BY <1>6, <1>10, <1>11, SeqEqual
<1> QED BY <1>5, <1>7, <1>8, <1>9, <1>10, <1>12

LEMMA DatesKnown ==
  /\ FromParts(DEFINITIVE_PERIOD).ok /\ Dated(DEFINITIVE_PERIOD)
  /\ FromParts(Date(2024, 2, 29)).ok /\ Dated(Date(2024, 2, 29))
  /\ FromParts(Date(2100, 3, 1)).ok /\ Dated(Date(2100, 3, 1))
<1>1. 2024 % 4 = 0 /\ 2024 % 100 # 0
  OBVIOUS
<1> QED BY <1>1 DEF DEFINITIVE_PERIOD, Date, Dated, FromParts, DaysInMonth, IsLeapYear, Ok

(***************************************************************************)
(* Both implementations of a date accept exactly the days of the Gregorian *)
(* calendar, each by the text Display writes, and order them as the days   *)
(* follow one another: for texts of any length over any symbols.           *)
(***************************************************************************)
THEOREM DatesFollowTheCalendar == DefaultsSpec => []DatesAreTheCalendar
<1>1. DefaultsInv => DatesAreTheCalendar
  <2> SUFFICES ASSUME DefaultsInv, date # None PROVE DatesAreTheCalendar
    BY DEF DatesAreTheCalendar
  <2> DEFINE t == request.on
             d == IsoDate(t)
  <2>1. t \in Seq(Int) /\ date = FromIso(t)
    BY DEF DefaultsInv, DatedInv, Requests
  <2> HIDE DEF t
  <2>2. /\ date = IF IsoShaped(t) THEN FromParts(d) ELSE InvalidDate
        /\ InterpreterFromIso(t) = IF IsoShaped(t) THEN InterpreterFromParts(d) ELSE InvalidDate
        /\ IsoFields(t) = IF IsoShaped(t) THEN Ok(d) ELSE InvalidDate
    BY <2>1, FromIsoIs, IsoFieldsIs
  <2>3. ~InvalidDate.ok /\ Ok(d).ok /\ Ok(d).val = d
    BY DEF InvalidDate, Err, Ok
  <2>4. IsoShaped(t) =>
          /\ Dated(d) /\ FromParts(d) = InterpreterFromParts(d) /\ (FromParts(d).ok <=> IsReal(d))
          /\ FromParts(d).ok => FromParts(d) = Ok(d)
    BY <2>1, IsoDateType, RealIs DEF Dated
  <2>5. IsoShaped(t) => DateText(d) = t
    BY <2>1, DateTextIs
  <2> HIDE DEF d
  <2>6. date.ok => IsoShaped(t) /\ date.val = d /\ Dated(d) /\ FromParts(d).ok
    BY <2>2, <2>3, <2>4
  <2>7. date = InterpreterFromIso(t)
    BY <2>2, <2>4
  <2>8. date.ok <=> IsoFields(t).ok /\ IsReal(IsoFields(t).val)
    BY <2>2, <2>3, <2>4
  <2>9. date.ok => DateText(date.val) = t
    BY <2>5, <2>6
  <2>10. date.ok => \A other \in {DEFINITIVE_PERIOD, Date(2024, 2, 29), Date(2100, 3, 1)} :
                      NotAfter(other, date.val) <=> DayNumber(other) <= DayNumber(date.val)
    BY <2>6, DatesKnown, OrderIs
  <2> QED BY <2>7, <2>8, <2>9, <2>10 DEF DatesAreTheCalendar, t
<1> QED BY <1>1, DefaultsInvariant, PTL

-----------------------------------------------------------------------------
(* Codes that cover a code.                                                *)

(* A code covers another when it is one of its prefixes of 4, 6 or 8.      *)
LEMMA CoversIs ==
  ASSUME NEW c \in CnCodes, NEW code \in CnCodes
  PROVE  /\ c \in Seq(0 .. 9) /\ Len(c) \in {4, 6, 8} /\ code \in Seq(0 .. 9)
         /\ IsPrefix(c, code) <=> Len(c) <= Len(code) /\ c = SubSeq(code, 1, Len(c))
<1>1. c \in Seq(0 .. 9) /\ Len(c) \in {4, 6, 8} /\ code \in Seq(0 .. 9)
  BY DEF CnCodes
<1>2. SubSeq(c, 1, Len(c)) = c
  BY <1>1, SubSeqFull
<1> QED BY <1>1, <1>2 DEF IsPrefix

LEMMA PrefixLength ==
  ASSUME NEW code \in CnCodes, NEW n \in {4, 6, 8}, n <= Len(code)
  PROVE  Len(SubSeq(code, 1, n)) = n
<1>1. code \in Seq(0 .. 9) /\ n \in Nat /\ 1 <= n
  BY DEF CnCodes
<1>2. \A i \in 1 .. n : code[i] \in 0 .. 9
  <2>1. \A i \in 1 .. n : i \in 1 .. Len(code)
    BY <1>1
  <2> QED BY <1>1, <2>1, ElementOfSeq
<1>3. Len(SubSeq(code, 1, n)) = IF 1 <= n THEN n - 1 + 1 ELSE 0
  BY <1>1, <1>2, SubSeqProperties
<1> QED BY <1>1, <1>3

(* Of two prefixes of a code, the shorter is a prefix of the longer.       *)
LEMMA PrefixesNest ==
  ASSUME NEW c \in CnCodes, NEW d \in CnCodes, NEW code \in CnCodes,
         IsPrefix(c, code), IsPrefix(d, code), Len(c) < Len(d)
  PROVE  IsStrictPrefix(c, d)
<1>1. /\ c \in Seq(0 .. 9) /\ d \in Seq(0 .. 9) /\ code \in Seq(0 .. 9)
      /\ Len(c) \in Nat \ {0} /\ Len(d) \in Nat /\ Len(d) <= Len(code)
      /\ c = SubSeq(code, 1, Len(c)) /\ d = SubSeq(code, 1, Len(d))
  <2>1. c \in Seq(0 .. 9) /\ Len(c) \in {4, 6, 8} /\ code \in Seq(0 .. 9) /\ c = SubSeq(code, 1, Len(c))
    BY CoversIs
  <2>2. d \in Seq(0 .. 9) /\ Len(d) \in {4, 6, 8} /\ Len(d) <= Len(code) /\ d = SubSeq(code, 1, Len(d))
    BY CoversIs
  <2>3. \A l \in {4, 6, 8} : l \in Nat \ {0} /\ l \in Nat
    OBVIOUS
  <2>4. Len(c) \in Nat \ {0} /\ Len(d) \in Nat
    BY <2>1, <2>2, <2>3, ZenonT(60)
  <2> QED BY <2>1, <2>2, <2>4, Zenon
<1>2. PICK m \in Nat \ {0}, n \in Nat : m = Len(c) /\ n = Len(d) /\ m < n
  BY <1>1, Zenon
<1>3. SubSeq(SubSeq(code, 1, n), 1, m) = SubSeq(code, 1 + 1 - 1, 1 + m - 1)
  <2>1. 1 \in 1 .. Len(code) /\ n \in 1 .. Len(code) /\ 1 \in 1 .. n - 1 + 1 /\ m \in 1 .. n - 1 + 1
    BY <1>1, <1>2
  <2> QED BY <1>1, <2>1, SubSeqOfSubSeq
<1>4. SubSeq(d, 1, m) = c
  <2>1. 1 + 1 - 1 = 1 /\ 1 + m - 1 = m
    BY <1>2
  <2> QED BY <1>1, <1>2, <1>3, <2>1
<1>5. SubSeq(c, 1, m) = c
  BY <1>1, <1>2, SubSeqFull
<1> QED BY <1>1, <1>2, <1>4, <1>5 DEF IsStrictPrefix, IsPrefix

(* The first of the most specific rows that cover a code.                  *)
Governs(codes, code, k) ==
  /\ k \in DOMAIN codes /\ IsPrefix(codes[k], code)
  /\ \A j \in DOMAIN codes : IsPrefix(codes[j], code) =>
       \/ Len(codes[j]) < Len(codes[k])
       \/ Len(codes[j]) = Len(codes[k]) /\ codes[j] = codes[k] /\ j >= k

LEMMA BestGoverns ==
  ASSUME NEW codes, DOMAIN codes \subseteq Nat \ {0}, \A j \in DOMAIN codes : codes[j] \in CnCodes,
         NEW code \in CnCodes
  PROVE  LET k == Best(codes, code)
         IN  /\ k = 0 => \A j \in DOMAIN codes : ~IsPrefix(codes[j], code)
             /\ k # 0 => Governs(codes, code, k)
<1> DEFINE k == Best(codes, code)
<1>1. ASSUME NEW j \in DOMAIN codes
      PROVE  /\ Len(codes[j]) \in {8, 6, 4}
             /\ IsPrefix(codes[j], code) <=> j \in At(codes, code, Len(codes[j]))
  <2>1. codes[j] \in CnCodes
    OBVIOUS
  <2>2. /\ Len(codes[j]) \in {4, 6, 8}
        /\ IsPrefix(codes[j], code) <=> Len(codes[j]) <= Len(code) /\ codes[j] = SubSeq(code, 1, Len(codes[j]))
    BY <2>1, CoversIs
  <2> QED BY <2>2 DEF At
<1>2. ASSUME NEW n \in {8, 6, 4}, NEW j \in At(codes, code, n)
      PROVE  j \in DOMAIN codes /\ Len(codes[j]) = n /\ IsPrefix(codes[j], code) /\ codes[j] = SubSeq(code, 1, n)
  <2>1. j \in DOMAIN codes /\ n <= Len(code) /\ codes[j] = SubSeq(code, 1, n)
    BY DEF At
  <2>2. Len(codes[j]) = n
    BY <2>1, PrefixLength
  <2> QED BY <1>1, <2>1, <2>2
<1>3. CASE k = 0
  <2>1. \A n \in {8, 6, 4} : At(codes, code, n) = {}
    BY <1>3, BestIs
  <2> QED BY <1>1, <1>3, <2>1
<1>4. CASE k # 0
  <2>1. PICK n \in {8, 6, 4} : Longest(codes, code, n) /\ k \in At(codes, code, n) /\ \A j \in At(codes, code, n) : k <= j
    BY <1>4, BestIs
  <2> HIDE DEF k
  <2>2. k \in DOMAIN codes /\ Len(codes[k]) = n /\ IsPrefix(codes[k], code) /\ codes[k] = SubSeq(code, 1, n) /\ k \in Nat
    BY <1>2, <2>1
  <2>3. ASSUME NEW j \in DOMAIN codes, IsPrefix(codes[j], code)
        PROVE  \/ Len(codes[j]) < Len(codes[k])
               \/ Len(codes[j]) = Len(codes[k]) /\ codes[j] = codes[k] /\ j >= k
    <3>1. PICK m \in {8, 6, 4} : m = Len(codes[j]) /\ j \in At(codes, code, m)
      BY <1>1, <2>3
    <3>2. m <= n
      <4>1. At(codes, code, m) # {}
        BY <3>1
      <4>2. \A l \in {8, 6, 4} : l > n => At(codes, code, l) = {}
        BY <2>1 DEF Longest
      <4>3. ~(m > n)
        BY <4>1, <4>2, Zenon
      <4>4. m \in Int /\ n \in Int
        BY <3>1
      <4> QED BY <4>3, <4>4
    <3>3. CASE m = n
      <4>1. j \in At(codes, code, n)
        BY <3>1, <3>3
      <4>2. codes[j] = SubSeq(code, 1, n) /\ j \in Nat
        BY <1>2, <4>1
      <4>3. k <= j
        BY <2>1, <4>1
      <4> QED BY <2>2, <3>1, <3>3, <4>2, <4>3
    <3>4. CASE m < n
      BY <2>2, <3>1, <3>4
    <3> QED BY <3>2, <3>3, <3>4
  <2>4. Governs(codes, code, k)
    BY <2>2, <2>3 DEF Governs
  <2> QED BY <1>4, <2>4 DEF k
<1> QED BY <1>3, <1>4

-----------------------------------------------------------------------------
(* The scope.                                                              *)

LEMMA DateKnown ==
  ASSUME DatedInv, date.ok
  PROVE  Dated(date.val) /\ FromParts(date.val).ok
<1>1. request.on \in Seq(Int) /\ date = FromIso(request.on)
  BY DEF DatedInv, Requests, None, Err
<1>2. IsoShaped(request.on) /\ date = Ok(IsoDate(request.on)) /\ date = FromParts(IsoDate(request.on))
  BY <1>1, FromIsoIs
<1>3. date.val = IsoDate(request.on)
  BY <1>2 DEF Ok
<1> QED BY <1>1, <1>2, <1>3, IsoDateType DEF Dated

LEMMA ScopeEntryIs ==
  ASSUME NEW k \in DOMAIN ScopeEntries
  PROVE  LET e == ScopeEntries[k]
         IN  /\ e.cn_code \in CnCodes
             /\ Dated(e.applies_from) /\ FromParts(e.applies_from).ok
             /\ e.applies_to # NO_LIMIT => Dated(e.applies_to) /\ FromParts(e.applies_to).ok
             /\ NotAfter(DEFINITIVE_PERIOD, e.applies_from)
<1> DEFINE E == [cn_code : CnCodes, applies_from : ValidDates, applies_to : ValidDates \cup {NO_LIMIT}]
           e == ScopeEntries[k]
<1>1. e \in E
  <2> HIDE DEF E
  <2>1. ScopeEntries \in Seq(E)
    BY ScopeAssumption DEF E
  <2>2. k \in 1 .. Len(ScopeEntries)
    BY <2>1
  <2> QED BY <2>1, <2>2, ElementOfSeq
<1>2. e.cn_code \in CnCodes /\ e.applies_from \in ValidDates /\ (e.applies_to \in ValidDates \/ e.applies_to = NO_LIMIT)
  BY <1>1
<1>3. ASSUME NEW d \in ValidDates PROVE Dated(d) /\ FromParts(d).ok
  <2>1. d \in [year : Nat, month : Nat, day : Nat] /\ FromParts(d).ok
    BY DEF ValidDates
  <2> QED BY <2>1 DEF Dated
<1>4. NotAfter(DEFINITIVE_PERIOD, e.applies_from)
  BY ScopeAssumption
<1> HIDE DEF e
<1> QED BY <1>2, <1>3, <1>4 DEF e

(* In force, by the order of dates and by the count of days.               *)
LEMMA InForceIs ==
  ASSUME NEW k \in DOMAIN ScopeEntries, NEW on, Dated(on), FromParts(on).ok
  PROVE  LET e == ScopeEntries[k]
         IN  AppliesOn(e, on) <=> /\ DayNumber(e.applies_from) <= DayNumber(on)
                                  /\ e.applies_to # NO_LIMIT => DayNumber(on) <= DayNumber(e.applies_to)
<1> DEFINE e == ScopeEntries[k]
<1>1. /\ Dated(e.applies_from) /\ FromParts(e.applies_from).ok
      /\ e.applies_to # NO_LIMIT => Dated(e.applies_to) /\ FromParts(e.applies_to).ok
  BY ScopeEntryIs
<1> HIDE DEF e
<1>2. NotAfter(e.applies_from, on) <=> DayNumber(e.applies_from) <= DayNumber(on)
  BY <1>1, OrderIs
<1>3. e.applies_to # NO_LIMIT => (NotAfter(on, e.applies_to) <=> DayNumber(on) <= DayNumber(e.applies_to))
  BY <1>1, OrderIs
<1> QED BY <1>2, <1>3 DEF AppliesOn, e

(* A day on which an entry applies is in the definitive period.            *)
LEMMA AppliesWithinPeriods ==
  ASSUME NEW k \in DOMAIN ScopeEntries, NEW on, Dated(on), AppliesOn(ScopeEntries[k], on)
  PROVE  PeriodOf(on).ok
<1> DEFINE f == ScopeEntries[k].applies_from
<1>1. Dated(f) /\ NotAfter(DEFINITIVE_PERIOD, f) /\ NotAfter(f, on)
  BY ScopeEntryIs DEF AppliesOn
<1> HIDE DEF f
<1>2. f.year \in Nat /\ on.year \in Nat /\ f.year >= 2026 /\ f.year <= on.year
  BY <1>1 DEF NotAfter, DEFINITIVE_PERIOD, Date, Dated
<1> QED BY <1>2 DEF PeriodOf, PeriodNew, FIRST_YEAR, Ok

LEMMA ClassifyIs ==
  ASSUME NEW code \in Seq(Int), NEW on
  PROVE  LET digits == Only(code, 0 .. 9)[Len(code)]
             k == Best(Codes(ScopeEntries), digits)
         IN  \/ Classify(code, on) = Err("InvalidCnCode")
             \/ /\ digits \in CnCodes
                /\ Classify(code, on) = IF k = 0 \/ ~AppliesOn(ScopeEntries[k], on) THEN Err("OutOfScope") ELSE Ok(ScopeEntries[k])
<1> DEFINE digits == Only(code, 0 .. 9)[Len(code)]
           r == NormalizeCnCode(code)
<1>1. r = Err("InvalidCnCode") \/ (r = Ok(digits) /\ digits \in CnCodes)
  BY NormalizedIs
<1>2. ~Err("InvalidCnCode").ok /\ Ok(digits).ok /\ Ok(digits).val = digits
  BY DEF Err, Ok
<1>3. Classify(code, on) =
        IF r.ok THEN IF Best(Codes(ScopeEntries), r.val) = 0 \/ ~AppliesOn(ScopeEntries[Best(Codes(ScopeEntries), r.val)], on)
                       THEN Err("OutOfScope") ELSE Ok(ScopeEntries[Best(Codes(ScopeEntries), r.val)])
        ELSE r
  BY Zenon DEF Classify, AndThen
<1> HIDE DEF r, digits
<1> QED BY <1>1, <1>2, <1>3 DEF digits

LEMMA ScopeBest ==
  ASSUME NEW digits \in CnCodes
  PROVE  LET k == Best(Codes(ScopeEntries), digits)
         IN  /\ k = 0 => \A j \in DOMAIN ScopeEntries : ~IsPrefix(ScopeEntries[j].cn_code, digits)
             /\ k # 0 => /\ k \in DOMAIN ScopeEntries /\ IsPrefix(ScopeEntries[k].cn_code, digits)
                         /\ \A j \in DOMAIN ScopeEntries : IsPrefix(ScopeEntries[j].cn_code, digits) =>
                              j = k \/ Len(ScopeEntries[j].cn_code) < Len(ScopeEntries[k].cn_code)
<1> DEFINE codes == Codes(ScopeEntries)
           k == Best(codes, digits)
<1>1. DOMAIN codes = DOMAIN ScopeEntries /\ \A j \in DOMAIN ScopeEntries : codes[j] = ScopeEntries[j].cn_code
  BY DEF Codes
<1>2. DOMAIN ScopeEntries \subseteq Nat \ {0}
  BY ScopeAssumption
<1>3. \A j \in DOMAIN codes : codes[j] \in CnCodes
  BY <1>1, ScopeEntryIs
<1> HIDE DEF codes
<1>4. /\ k = 0 => \A j \in DOMAIN codes : ~IsPrefix(codes[j], digits)
      /\ k # 0 => Governs(codes, digits, k)
  BY <1>1, <1>2, <1>3, BestGoverns
<1>5. \A i, j \in DOMAIN ScopeEntries : ScopeEntries[i].cn_code = ScopeEntries[j].cn_code => i = j
  BY ScopeAssumption
<1> HIDE DEF k
<1>6. CASE k = 0
  BY <1>1, <1>4, <1>6 DEF k, codes
<1>7. CASE k # 0
  <2>1. k \in DOMAIN ScopeEntries /\ IsPrefix(ScopeEntries[k].cn_code, digits)
    BY <1>1, <1>4, <1>7 DEF Governs
  <2>2. ASSUME NEW j \in DOMAIN ScopeEntries, IsPrefix(ScopeEntries[j].cn_code, digits)
        PROVE  j = k \/ Len(ScopeEntries[j].cn_code) < Len(ScopeEntries[k].cn_code)
    <3>1. Len(codes[j]) < Len(codes[k]) \/ codes[j] = codes[k]
      BY <1>1, <1>4, <1>7, <2>2 DEF Governs
    <3> QED BY <1>1, <1>5, <2>1, <3>1
  <2> QED BY <1>7, <2>1, <2>2 DEF k, codes
<1> QED BY <1>6, <1>7

(***************************************************************************)
(* The entry that classifies a good is the most specific one of the scope  *)
(* that covers its code, in force on its day, and its day has a reporting  *)
(* period; a good out of scope is covered by no entry in force that is not *)
(* beaten by a more specific one: for a scope of any size.                 *)
(***************************************************************************)
THEOREM ClassifiesByTheMostSpecific == DefaultsSpec => []ScopeIsTheMostSpecificEntry
<1>1. DefaultsInv => ScopeIsTheMostSpecificEntry
  <2> SUFFICES ASSUME DefaultsInv, entry # None PROVE ScopeIsTheMostSpecificEntry
    BY DEF ScopeIsTheMostSpecificEntry
  <2> DEFINE on == date.val
             digits == Only(request.code, 0 .. 9)[Len(request.code)]
             covering == {e \in ToSet(ScopeEntries) : IsPrefix(e.cn_code, digits)}
             inForce(e) == /\ DayNumber(e.applies_from) <= DayNumber(on)
                           /\ e.applies_to # NO_LIMIT => DayNumber(on) <= DayNumber(e.applies_to)
             k == Best(Codes(ScopeEntries), digits)
             m == ScopeEntries[k]
  <2>1. date.ok /\ entry = Classify(request.code, on) /\ request.code \in Seq(Int) /\ (period # None => period = PeriodOf(on))
    BY DEF DefaultsInv, DatedInv, Requests, None, Err
  <2>2. Dated(on) /\ FromParts(on).ok
    BY <2>1, DateKnown DEF DefaultsInv
  <2>3. \/ entry = Err("InvalidCnCode")
        \/ /\ digits \in CnCodes
           /\ entry = IF k = 0 \/ ~AppliesOn(m, on) THEN Err("OutOfScope") ELSE Ok(m)
    BY <2>1, ClassifyIs
  <2>4. \A e : e \in covering <=> \E j \in DOMAIN ScopeEntries : e = ScopeEntries[j] /\ IsPrefix(e.cn_code, digits)
    BY DEF ToSet
  <2>5. ScopeIsTheMostSpecificEntry <=>
          /\ entry.ok => /\ entry.val \in covering /\ inForce(entry.val)
                         /\ \A e \in covering : Len(e.cn_code) <= Len(entry.val.cn_code)
                         /\ period # None => period.ok
          /\ entry = Err("OutOfScope") =>
               \A e \in covering : inForce(e) => \E f \in covering : IsStrictPrefix(e.cn_code, f.cn_code)
    BY <2>1, Zenon DEF ScopeIsTheMostSpecificEntry
  <2>6. \A j \in DOMAIN ScopeEntries : AppliesOn(ScopeEntries[j], on) <=> inForce(ScopeEntries[j])
    BY <2>2, InForceIs
  <2> HIDE DEF covering, inForce, k, m
  <2>7. CASE entry = Err("InvalidCnCode")
    BY <2>5, <2>7 DEF Err
  <2>8. CASE /\ digits \in CnCodes
             /\ entry = IF k = 0 \/ ~AppliesOn(m, on) THEN Err("OutOfScope") ELSE Ok(m)
    <3>1. /\ k = 0 => \A j \in DOMAIN ScopeEntries : ~IsPrefix(ScopeEntries[j].cn_code, digits)
          /\ k # 0 => /\ k \in DOMAIN ScopeEntries /\ IsPrefix(m.cn_code, digits)
                      /\ \A j \in DOMAIN ScopeEntries : IsPrefix(ScopeEntries[j].cn_code, digits) =>
                           j = k \/ Len(ScopeEntries[j].cn_code) < Len(m.cn_code)
      BY <2>8, ScopeBest DEF k, m
    <3>2. CASE k = 0
      <4>1. covering = {} /\ entry = Err("OutOfScope")
        BY <2>4, <2>8, <3>1, <3>2
      <4> QED BY <2>5, <4>1 DEF Err
    <3>3. CASE k # 0 /\ AppliesOn(m, on)
      <4>1. k \in DOMAIN ScopeEntries /\ entry = Ok(m) /\ m = ScopeEntries[k]
        BY <2>8, <3>1, <3>3 DEF m
      <4>2. entry.ok /\ entry.val = m /\ entry # Err("OutOfScope")
        BY <4>1 DEF Ok, Err
      <4>3. m \in covering /\ inForce(m)
        BY <2>4, <2>6, <3>1, <3>3, <4>1
      <4>4. ASSUME NEW e \in covering PROVE Len(e.cn_code) <= Len(m.cn_code)
        <5>1. PICK j \in DOMAIN ScopeEntries : e = ScopeEntries[j] /\ IsPrefix(e.cn_code, digits)
          BY <2>4
        <5>2. Len(e.cn_code) \in {4, 6, 8} /\ Len(m.cn_code) \in {4, 6, 8}
          BY <4>1, <5>1, ScopeEntryIs DEF CnCodes
        <5>3. e = m \/ Len(e.cn_code) < Len(m.cn_code)
          BY <3>1, <3>3, <4>1, <5>1
        <5> QED BY <5>2, <5>3
      <4>5. PeriodOf(on).ok
        BY <2>2, <3>3, <4>1, AppliesWithinPeriods
      <4> QED BY <2>1, <2>5, <4>2, <4>3, <4>4, <4>5
    <3>4. CASE k # 0 /\ ~AppliesOn(m, on)
      <4>1. k \in DOMAIN ScopeEntries /\ entry = Err("OutOfScope") /\ m = ScopeEntries[k] /\ IsPrefix(m.cn_code, digits)
        BY <2>8, <3>1, <3>4 DEF m
      <4>2. m \in covering /\ ~inForce(m)
        BY <2>4, <2>6, <3>4, <4>1
      <4>3. ASSUME NEW e \in covering, inForce(e) PROVE \E f \in covering : IsStrictPrefix(e.cn_code, f.cn_code)
        <5>1. PICK j \in DOMAIN ScopeEntries : e = ScopeEntries[j] /\ IsPrefix(e.cn_code, digits)
          BY <2>4
        <5>2. Len(e.cn_code) < Len(m.cn_code)
          BY <3>1, <3>4, <4>1, <4>2, <4>3, <5>1
        <5>3. e.cn_code \in CnCodes /\ m.cn_code \in CnCodes
          BY <4>1, <5>1, ScopeEntryIs
        <5>4. IsStrictPrefix(e.cn_code, m.cn_code)
          BY <2>8, <4>1, <5>1, <5>2, <5>3, PrefixesNest
        <5> QED BY <4>2, <5>4
      <4>4. ~entry.ok
        BY <4>1 DEF Err
      <4> QED BY <2>5, <4>3, <4>4
    <3> QED BY <3>2, <3>3, <3>4
  <2> QED BY <2>3, <2>7, <2>8
<1> QED BY <1>1, DefaultsInvariant, PTL

-----------------------------------------------------------------------------
(* The interpreter's look-up.                                              *)

LEMMA TotalOfTwo ==
  ASSUME NEW row, NEW p, NEW q, T!Score(row, p) \in Int, T!Score(row, q) \in Int, T!Score(row, p) # -1 => T!Score(row, p) = 0
  PROVE  T!MatchRow(row, <<p, q>>) = IF T!Score(row, p) = -1 \/ T!Score(row, q) = -1 THEN -1 ELSE T!Score(row, q)
<1> DEFINE predicates == <<p, q>>
           sc(n) == T!Score(row, predicates[n])
           Value(g, n) == IF n = 0 THEN 0
                          ELSE IF g[n - 1] = T!NoScore \/ T!Score(row, predicates[n]) = T!NoScore THEN T!NoScore
                          ELSE g[n - 1] + T!Score(row, predicates[n])
           W == CHOOSE h : h = [n \in 0 .. Len(predicates) |-> Value(h, n)]
<1>1. T!MatchRow(row, predicates) = W[Len(predicates)]
  BY DEF T!MatchRow
<1>2. Len(predicates) = 2 /\ predicates[1] = p /\ predicates[2] = q /\ T!NoScore = -1
  BY DEF T!NoScore
<1>3. PICK a \in Int, b \in Int : a = T!Score(row, p) /\ b = T!Score(row, q)
  OBVIOUS
<1> DEFINE one == IF a = -1 THEN -1 ELSE a
           two == IF one = -1 \/ b = -1 THEN -1 ELSE one + b
           g == [n \in 0 .. 2 |-> IF n = 0 THEN 0 ELSE IF n = 1 THEN one ELSE two]
<1> HIDE DEF predicates
<1>4. ASSUME NEW n \in 0 .. 2 PROVE g[n] = Value(g, n)
  <2>1. n = 0 \/ n = 1 \/ n = 2
    OBVIOUS
  <2>2. g[0] = 0 /\ g[1] = one /\ g[2] = two
    OBVIOUS
  <2> HIDE DEF g
  <2>3. CASE n = 1
    <3>1. g[n - 1] = 0
      BY <2>2, <2>3
    <3> QED BY <1>2, <1>3, <2>2, <2>3, <3>1
  <2>4. CASE n = 2
    <3>1. g[n - 1] = one
      BY <2>2, <2>4
    <3> QED BY <1>2, <1>3, <2>2, <2>4, <3>1
  <2> QED BY <2>1, <2>2, <2>3, <2>4
<1>5. g = [n \in 0 .. Len(predicates) |-> Value(g, n)]
  BY <1>2, <1>4
<1> HIDE DEF g
<1>6. W = [n \in 0 .. Len(predicates) |-> Value(W, n)]
  BY <1>5
<1> HIDE DEF W
<1>7. \A n \in 0 .. 2 : W[n] = Value(W, n)
  BY <1>2, <1>6
<1>8. W[0] = 0
  BY <1>7
<1>9. W[1] = Value(W, 1) /\ W[2] = Value(W, 2) /\ 1 - 1 = 0 /\ 2 - 1 = 1
  BY <1>7
<1>10. W[1] = one
  BY <1>2, <1>3, <1>8, <1>9
<1>11. W[2] = two
  BY <1>2, <1>3, <1>9, <1>10
<1>12. two = IF a = -1 \/ b = -1 THEN -1 ELSE b
  BY <1>3
<1> QED BY <1>1, <1>2, <1>3, <1>11, <1>12 DEF predicates

(* The loop with a prefix among the predicates.                            *)
Leads(scores, n, k) ==
  /\ k = 0 => \A j \in 1 .. n : scores[j] = -1
  /\ k # 0 => /\ k \in 1 .. n /\ scores[k] # -1
              /\ \A j \in 1 .. n : scores[j] # -1 => scores[j] < scores[k] \/ (scores[j] = scores[k] /\ j >= k)

LEMMA SelectsTheLongest ==
  ASSUME NEW rows, Len(rows) \in Nat, NEW predicates, \E n \in DOMAIN predicates : predicates[n].prefix,
         NEW scores, scores = T!Scores(rows, predicates), scores \in [1 .. Len(rows) -> Nat \cup {-1}]
  PROVE  T!SelectRow(rows, predicates) \in 0 .. Len(rows) /\ Leads(scores, Len(rows), T!SelectRow(rows, predicates))
<1> DEFINE N == Len(rows)
           prefix == \E n \in DOMAIN predicates : predicates[n].prefix
           Step(n, v) == IF scores[n] # T!NoScore /\ (v = 0 \/ (prefix /\ scores[n] > scores[v])) THEN n ELSE v
           Next1(n, v) == IF n + 1 <= N THEN Step(n + 1, v) ELSE v
           step == [n \in Nat |-> [v \in Nat |-> Next1(n, v)]]
           Value(g, n) == IF n = 0 THEN 0 ELSE Step(n, g[n - 1])
           W == CHOOSE h : h = [n \in 0 .. N |-> Value(h, n)]
<1>1. T!SelectRow(rows, predicates) = W[N]
  BY DEF T!SelectRow
<1>2. N \in Nat /\ T!NoScore = -1 /\ prefix
  BY DEF T!NoScore
<1> HIDE DEF N, prefix
<1>3. PICK f : Unfolds(f, Nat, 0, step)
  <2>1. \A n \in Nat, v \in Nat : Next1(n, v) \in Nat
    OBVIOUS
  <2>2. step \in [Nat -> [Nat -> Nat]]
    BY <2>1
  <2>3. 0 \in Nat
    OBVIOUS
  <2> HIDE DEF step
  <2> QED BY <2>2, <2>3, PrimitiveRecursion, Zenon
<1>4. f \in [Nat -> Nat] /\ f[0] = 0 /\ \A n \in Nat : f[n + 1] = Next1(n, f[n])
  BY <1>3 DEF Unfolds
<1> DEFINE g == [n \in 0 .. N |-> f[n]]
<1> HIDE DEF Step
<1>5. ASSUME NEW n \in 0 .. N PROVE g[n] = Value(g, n)
  <2>1. CASE n = 0
    BY <1>4, <2>1
  <2>2. CASE n # 0
    <3>1. n - 1 \in Nat /\ n - 1 \in 0 .. N /\ (n - 1) + 1 = n /\ n <= N
      BY <1>2, <2>2
    <3>2. f[n] = Next1(n - 1, f[n - 1])
      BY <1>4, <3>1
    <3>3. g[n - 1] = f[n - 1] /\ g[n] = f[n]
      BY <3>1
    <3> QED BY <2>2, <3>1, <3>2, <3>3
  <2> QED BY <2>1, <2>2
<1>6. g = [n \in 0 .. N |-> Value(g, n)]
  BY <1>5
<1> HIDE DEF g
<1>7. W = [n \in 0 .. N |-> Value(W, n)]
  BY <1>6
<1> HIDE DEF W
<1>8. \A n \in 0 .. N : W[n] = Value(W, n)
  BY <1>7
<1>9. W[0] = 0
  BY <1>2, <1>8
<1>10. ASSUME NEW n \in 1 .. N PROVE W[n] = Step(n, W[n - 1])
  <2>1. n \in 0 .. N /\ n # 0
    BY <1>2
  <2> QED BY <1>8, <2>1, Zenon
<1> DEFINE S == {n \in Nat : n <= N => W[n] \in 0 .. n /\ Leads(scores, n, W[n])}
<1>11. 0 \in S
  BY <1>9 DEF Leads
<1>12. ASSUME NEW n \in S PROVE n + 1 \in S
  <2> SUFFICES ASSUME n + 1 <= N PROVE W[n + 1] \in 0 .. n + 1 /\ Leads(scores, n + 1, W[n + 1])
    OBVIOUS
  <2>1. n \in Nat /\ n + 1 \in 1 .. N /\ (n + 1) - 1 = n /\ W[n] \in 0 .. n /\ Leads(scores, n, W[n])
    BY <1>2
  <2>2. PICK v \in 0 .. n : v = W[n]
    BY <2>1
  <2>3. W[n + 1] = Step(n + 1, v)
    BY <1>10, <2>1, <2>2
  <2> HIDE DEF S
  <2>4. PICK w : w = W[n + 1]
    OBVIOUS
  <2>5. \A j \in 1 .. n + 1 : scores[j] \in Nat \cup {-1}
    BY <1>2, <2>1 DEF N
  <2>6. \A j \in 1 .. n + 1 : j \in 1 .. n \/ j = n + 1
    BY <2>1
  <2>7. CASE scores[n + 1] # -1 /\ (v = 0 \/ scores[n + 1] > scores[v])
    <3>1. w = n + 1
      BY <1>2, <2>3, <2>4, <2>7 DEF Step
    <3>2. ASSUME NEW j \in 1 .. n, scores[j] # -1 PROVE scores[j] < scores[n + 1]
      <4>1. v # 0
        BY <2>1, <2>2, <3>2 DEF Leads
      <4>2. v \in 1 .. n /\ scores[j] <= scores[v]
        BY <2>1, <2>2, <2>5, <2>6, <3>2, <4>1 DEF Leads
      <4>3. scores[j] \in Int /\ scores[v] \in Int /\ scores[n + 1] \in Int
        BY <2>1, <2>5, <4>2
      <4> QED BY <2>7, <4>1, <4>2, <4>3
    <3> QED BY <2>1, <2>4, <2>6, <2>7, <3>1, <3>2 DEF Leads
  <2>8. CASE ~(scores[n + 1] # -1 /\ (v = 0 \/ scores[n + 1] > scores[v]))
    <3>1. w = v
      BY <1>2, <2>3, <2>4, <2>8 DEF Step
    <3>2. CASE v = 0
      <4>1. scores[n + 1] = -1
        BY <2>8, <3>2
      <4> QED BY <2>1, <2>2, <2>4, <2>6, <3>1, <3>2, <4>1 DEF Leads
    <3>3. CASE v # 0
      <4>1. v \in 1 .. n /\ v \in 1 .. n + 1 /\ scores[v] \in Int /\ scores[n + 1] \in Int /\ scores[v] # -1
        BY <2>1, <2>2, <2>5, <3>3 DEF Leads
      <4>2. scores[n + 1] # -1 => scores[n + 1] < scores[v] \/ (scores[n + 1] = scores[v] /\ n + 1 >= v)
        BY <2>8, <4>1
      <4>3. \A j \in 1 .. n : scores[j] # -1 => scores[j] < scores[v] \/ (scores[j] = scores[v] /\ j >= v)
        BY <2>1, <2>2, <3>3 DEF Leads
      <4>4. \A j \in 1 .. n + 1 : scores[j] # -1 => scores[j] < scores[v] \/ (scores[j] = scores[v] /\ j >= v)
        BY <2>6, <4>2, <4>3, Zenon
      <4> QED BY <2>4, <3>1, <3>3, <4>1, <4>4 DEF Leads
    <3> QED BY <3>2, <3>3
  <2> QED BY <2>7, <2>8
<1>13. S = Nat
  <2>1. S \in SUBSET Nat
    OBVIOUS
  <2> HIDE DEF S
  <2> QED BY <1>11, <1>12, <2>1, SetInduction
<1>14. N \in S
  <2> HIDE DEF S
  <2> QED BY <1>2, <1>13
<1>15. W[N] \in 0 .. N /\ Leads(scores, N, W[N])
  BY <1>2, <1>14
<1> QED BY <1>1, <1>15 DEF N

(* The two predicates of the interpreter's look-up, on one row.            *)
LEMMA LookUpScore ==
  ASSUME NEW r \in Row, NEW country, NEW code \in CnCodes
  PROVE  T!MatchRow([cn_code |-> T!Text(r.cn_code), country |-> T!Text(<<r.country>>)],
                    <<[column |-> "country", value |-> <<country>>, prefix |-> FALSE],
                      [column |-> "cn_code", value |-> code, prefix |-> TRUE]>>)
           = IF r.country = country /\ IsPrefix(r.cn_code, code) THEN Len(r.cn_code) ELSE -1
<1> DEFINE row == [cn_code |-> T!Text(r.cn_code), country |-> T!Text(<<r.country>>)]
           p == [column |-> "country", value |-> <<country>>, prefix |-> FALSE]
           q == [column |-> "cn_code", value |-> code, prefix |-> TRUE]
<1>1. r.cn_code \in CnCodes /\ Len(r.cn_code) \in {4, 6, 8} /\ r.cn_code # <<>>
  <2>1. r.cn_code \in CnCodes
    BY DEF Row
  <2>2. Len(r.cn_code) \in {4, 6, 8}
    BY <2>1 DEF CnCodes
  <2>3. Len(<<>>) = 0
    OBVIOUS
  <2> QED BY <2>1, <2>2, <2>3, SMTT(40)
<1>2. row["country"] = T!Text(<<r.country>>) /\ row["cn_code"] = T!Text(r.cn_code)
      /\ "country" \in DOMAIN row /\ "cn_code" \in DOMAIN row
  OBVIOUS
<1>3. p.column = "country" /\ p.value = <<country>> /\ ~p.prefix /\ q.column = "cn_code" /\ q.value = code /\ q.prefix
  OBVIOUS
<1>4. \A t : T!Is(T!Text(t), "text") /\ T!Text(t).text = t
  BY DEF T!Is, T!Text
<1> HIDE DEF row, p, q
<1>5. T!Score(row, p) = IF r.country = country THEN 0 ELSE -1
  <2>1. <<r.country>> = <<country>> <=> r.country = country
    OBVIOUS
  <2>2. T!Score(row, p) = T!MatchPredicate(<<r.country>>, p)
    BY <1>2, <1>3, <1>4 DEF T!Score
  <2> QED BY <1>3, <2>1, <2>2 DEF T!MatchPredicate, T!NoScore
<1>6. T!Score(row, q) = IF IsPrefix(r.cn_code, code) THEN Len(r.cn_code) ELSE -1
  <2>1. T!Score(row, q) = T!MatchPredicate(r.cn_code, q)
    BY <1>2, <1>3, <1>4 DEF T!Score
  <2>2. T!IsPrefix(r.cn_code, code) <=> IsPrefix(r.cn_code, code)
    BY DEF T!IsPrefix, IsPrefix
  <2> QED BY <1>1, <1>3, <2>1, <2>2 DEF T!MatchPredicate, T!PrefixScore, T!NoScore
<1>7. T!MatchRow(row, <<p, q>>) = IF T!Score(row, p) = -1 \/ T!Score(row, q) = -1 THEN -1 ELSE T!Score(row, q)
  BY <1>1, <1>5, <1>6, TotalOfTwo
<1>8. Len(r.cn_code) # -1
  BY <1>1
<1>9. T!MatchRow(row, <<p, q>>) = IF r.country = country /\ IsPrefix(r.cn_code, code) THEN Len(r.cn_code) ELSE -1
  BY <1>5, <1>6, <1>7, <1>8
<1> QED BY <1>9 DEF row, p, q

(* The look-up finds the governing row of the country.                     *)
LEMMA LookUpIs ==
  ASSUME NEW rows \in Seq(Row), NEW country, NEW code \in CnCodes, NEW g \in DOMAIN rows,
         rows[g].country = country, IsPrefix(rows[g].cn_code, code),
         \A j \in DOMAIN rows : rows[j].country = country /\ IsPrefix(rows[j].cn_code, code) =>
           \/ Len(rows[j].cn_code) < Len(rows[g].cn_code)
           \/ Len(rows[j].cn_code) = Len(rows[g].cn_code) /\ j >= g
  PROVE  InterpreterSelects(rows, country, code) = g
<1> DEFINE cells == [k \in DOMAIN rows |-> [cn_code |-> T!Text(rows[k].cn_code), country |-> T!Text(<<rows[k].country>>)]]
           predicates == <<[column |-> "country", value |-> <<country>>, prefix |-> FALSE],
                           [column |-> "cn_code", value |-> code, prefix |-> TRUE]>>
           scores == T!Scores(cells, predicates)
           N == Len(rows)
           covers(j) == rows[j].country = country /\ IsPrefix(rows[j].cn_code, code)
<1>1. N \in Nat /\ DOMAIN rows = 1 .. N /\ \A j \in 1 .. N : rows[j] \in Row
  BY ElementOfSeq
<1>2. Len(cells) = N
  <2>1. DOMAIN cells = 1 .. N
    BY <1>1
  <2> HIDE DEF cells, N
  <2> QED BY <1>1, <2>1
<1>3. ASSUME NEW j \in 1 .. N PROVE scores[j] = IF covers(j) THEN Len(rows[j].cn_code) ELSE -1
  <2>1. rows[j] \in Row
    BY <1>1
  <2>2. cells[j] = [cn_code |-> T!Text(rows[j].cn_code), country |-> T!Text(<<rows[j].country>>)]
    BY <1>1
  <2>3. scores[j] = T!MatchRow(cells[j], predicates)
    <3> HIDE DEF cells, predicates
    <3> QED BY <1>2 DEF T!Scores
  <2>4. PICK e \in Row : e = rows[j]
    BY <2>1
  <2>5. scores[j] = IF e.country = country /\ IsPrefix(e.cn_code, code) THEN Len(e.cn_code) ELSE -1
    <3>1. T!MatchRow([cn_code |-> T!Text(e.cn_code), country |-> T!Text(<<e.country>>)], predicates)
            = IF e.country = country /\ IsPrefix(e.cn_code, code) THEN Len(e.cn_code) ELSE -1
      BY LookUpScore
    <3>2. scores[j] = T!MatchRow([cn_code |-> T!Text(e.cn_code), country |-> T!Text(<<e.country>>)], predicates)
      BY <2>2, <2>3, <2>4, Zenon
    <3> QED BY <3>1, <3>2, Zenon
  <2> QED BY <2>4, <2>5
<1>4. \A j \in 1 .. N : Len(rows[j].cn_code) \in Nat
  <2>1. \A r \in Row : Len(r.cn_code) \in Nat
    BY DEF Row, CnCodes
  <2> QED BY <1>1, <2>1
<1>5. DOMAIN scores = 1 .. N /\ scores = [j \in 1 .. N |-> scores[j]]
  <2> HIDE DEF cells, predicates
  <2> QED BY <1>2 DEF T!Scores
<1>6. \E n \in DOMAIN predicates : predicates[n].prefix
  <2>1. 2 \in DOMAIN predicates /\ predicates[2] = [column |-> "cn_code", value |-> code, prefix |-> TRUE]
    OBVIOUS
  <2> HIDE DEF predicates
  <2>2. predicates[2].prefix
    BY <2>1
  <2> QED BY <2>1, <2>2
<1>7. InterpreterSelects(rows, country, code) = T!SelectRow(cells, predicates)
  BY Zenon DEF InterpreterSelects
<1> HIDE DEF cells, predicates, N, covers
<1>8. scores \in [1 .. N -> Nat \cup {-1}]
  <2>1. \A j \in 1 .. N : scores[j] \in Nat \cup {-1}
    BY <1>3, <1>4
  <2> HIDE DEF scores
  <2> QED BY <1>5, <2>1
<1>9. PICK b \in 0 .. N : b = T!SelectRow(cells, predicates) /\ Leads(scores, N, b)
  BY <1>1, <1>2, <1>6, <1>8, SelectsTheLongest
<1> HIDE DEF scores
<1>10. g \in 1 .. N /\ covers(g) /\ scores[g] = Len(rows[g].cn_code) /\ scores[g] # -1
  BY <1>1, <1>3, <1>4 DEF covers
<1>11. b # 0
  BY <1>9, <1>10 DEF Leads
<1>12. b \in 1 .. N /\ scores[b] # -1 /\ (scores[g] < scores[b] \/ (scores[g] = scores[b] /\ g >= b))
  BY <1>9, <1>10, <1>11 DEF Leads
<1>13. covers(b) /\ scores[b] = Len(rows[b].cn_code)
  BY <1>3, <1>12
<1>14. scores[b] < scores[g] \/ (scores[b] = scores[g] /\ b >= g)
  BY <1>1, <1>10, <1>12, <1>13 DEF covers
<1>15. scores[b] \in Nat /\ scores[g] \in Nat /\ b \in Nat /\ g \in Nat
  BY <1>4, <1>10, <1>12, <1>13
<1>16. b = g
  BY <1>12, <1>14, <1>15
<1> QED BY <1>7, <1>9, <1>16

Beats(rows, code, k) ==
  /\ IsPrefix(rows[k].cn_code, code)
  /\ \A j \in DOMAIN rows : IsPrefix(rows[j].cn_code, code) =>
       \/ Len(rows[j].cn_code) < Len(rows[k].cn_code)
       \/ Len(rows[j].cn_code) = Len(rows[k].cn_code) /\ j >= k

Valued(rows, code) == {rows[k] : k \in {g \in {i \in DOMAIN rows : Beats(rows, code, i)} : rows[g].total # NoTotal}}

(* The row that the selection takes is the one that governs.               *)
LEMMA ValuedIs ==
  ASSUME NEW rows, DOMAIN rows \subseteq Nat \ {0}, \A j \in DOMAIN rows : rows[j] \in Row,
         NEW code \in CnCodes, NEW kind
  PROVE  LET k == Best(Codes(rows), code)
         IN  \/ Valued(rows, code) = {} /\ ValueOf(rows, code, kind) = {}
             \/ /\ k \in DOMAIN rows /\ Beats(rows, code, k)
                /\ Valued(rows, code) = {rows[k]} /\ ValueOf(rows, code, kind) = {[kind |-> kind, row |-> rows[k]]}
<1> DEFINE codes == Codes(rows)
           k == Best(codes, code)
<1>1. DOMAIN codes = DOMAIN rows /\ \A j \in DOMAIN rows : codes[j] = rows[j].cn_code
  BY DEF Codes
<1>2. \A j \in DOMAIN rows : rows[j].cn_code \in CnCodes
  BY DEF Row
<1>3. ValueOf(rows, code, kind) = IF k = 0 \/ rows[k].total = NoTotal THEN {} ELSE {[kind |-> kind, row |-> rows[k]]}
  BY ValueOfIs
<1> HIDE DEF codes
<1>4. /\ k = 0 => \A j \in DOMAIN codes : ~IsPrefix(codes[j], code)
      /\ k # 0 => Governs(codes, code, k)
  BY <1>1, <1>2, BestGoverns
<1> HIDE DEF k
<1>5. CASE k = 0
  <2>1. \A j \in DOMAIN rows : ~Beats(rows, code, j)
    BY <1>1, <1>4, <1>5 DEF Beats
  <2>2. Valued(rows, code) = {}
    BY <2>1 DEF Valued
  <2> QED BY <1>3, <1>5, <2>2
<1>6. CASE k # 0
  <2>1. k \in DOMAIN rows /\ Beats(rows, code, k)
    BY <1>1, <1>4, <1>6 DEF Governs, Beats
  <2>2. ASSUME NEW i \in DOMAIN rows, Beats(rows, code, i) PROVE i = k
    <3>1. PICK a \in Nat, b \in Nat : a = Len(rows[i].cn_code) /\ b = Len(rows[k].cn_code)
      BY <1>2, <2>1 DEF CnCodes
    <3>2. a < b \/ (a = b /\ i >= k)
      BY <2>1, <2>2, <3>1 DEF Beats
    <3>3. b < a \/ (b = a /\ k >= i)
      BY <2>1, <2>2, <3>1 DEF Beats
    <3>4. i \in Nat /\ k \in Nat
      BY <2>1
    <3> QED BY <3>1, <3>2, <3>3, <3>4
  <2> DEFINE G == {i \in DOMAIN rows : Beats(rows, code, i)}
             V == {g \in G : rows[g].total # NoTotal}
  <2>3. G = {k} /\ Valued(rows, code) = {rows[i] : i \in V}
    BY <2>1, <2>2 DEF Valued
  <2> HIDE DEF G
  <2>4. CASE rows[k].total = NoTotal
    <3>1. V = {}
      BY <2>3, <2>4
    <3> HIDE DEF V
    <3>2. Valued(rows, code) = {}
      BY <2>3, <3>1
    <3> QED BY <1>3, <2>4, <3>2 DEF k, codes
  <2>5. CASE rows[k].total # NoTotal
    <3>1. V = {k}
      BY <2>3, <2>5
    <3> HIDE DEF V
    <3>2. Valued(rows, code) = {rows[k]}
      BY <2>3, <3>1
    <3> QED BY <1>3, <1>6, <2>1, <2>5, <3>2 DEF k, codes
  <2> QED BY <2>4, <2>5
<1> QED BY <1>5, <1>6 DEF k, codes

(***************************************************************************)
(* A good is valued by the most specific row of its country, or, when it   *)
(* has none or that shows no value, of the other countries, the first of   *)
(* equals; and the interpreter's look-up takes the same row of the         *)
(* country: for tables of any size.                                        *)
(***************************************************************************)
THEOREM SelectsByTheMostSpecific == DefaultsSpec => []SelectsTheGoverningRow
<1>1. DefaultsInv => SelectsTheGoverningRow
  <2> SUFFICES ASSUME DefaultsInv, selected # None, request.good, selected # Err("InvalidCnCode")
               PROVE  SelectsTheGoverningRow
    BY DEF SelectsTheGoverningRow
  <2> DEFINE code == NormalizeCnCode(request.code).val
             mine == Of(annexes.rows, request.country)
             theirs == annexes.other_countries
             country == Valued(mine, code)
             expected == IF country # {} THEN country ELSE Valued(theirs, code)
  <2>1. /\ request \in Requests /\ annexes \in EmbeddedTables /\ Selection(selected, text)
        /\ request.code \in Seq(Int)
    BY DEF DefaultsInv, DeclaredInv, DatedInv, SelectedInv, Requests, None, Err
  <2>2. NormalizeCnCode(request.code).ok /\ code \in CnCodes
    <3>1. NormalizeCnCode(request.code) # Err("InvalidCnCode")
      <4> SUFFICES ASSUME NormalizeCnCode(request.code) = Err("InvalidCnCode") PROVE FALSE
        OBVIOUS
      <4>1. ~NormalizeCnCode(request.code).ok
        BY DEF Err
      <4>2. selected = NormalizeCnCode(request.code)
        BY <2>1, <4>1, Zenon DEF Selection
      <4> QED BY <4>2
    <3> QED BY <2>1, <3>1, NormalizedIs DEF Ok
  <2>3. /\ annexes.rows \in Seq(Row) /\ theirs \in Seq(Row)
        /\ DOMAIN theirs \subseteq Nat \ {0} /\ \A j \in DOMAIN theirs : theirs[j] \in Row
        /\ DOMAIN annexes.rows \subseteq Nat \ {0} /\ \A j \in DOMAIN annexes.rows : annexes.rows[j] \in Row
    <3>1. annexes.rows \in Seq(Row) /\ theirs \in Seq(Row)
      BY <2>1 DEF EmbeddedTables, Row
    <3>2. ASSUME NEW s \in Seq(Row) PROVE DOMAIN s \subseteq Nat \ {0} /\ \A j \in DOMAIN s : s[j] \in Row
      <4>1. DOMAIN s = 1 .. Len(s) /\ Len(s) \in Nat
        BY LenProperties
      <4> QED BY <4>1, ElementOfSeq
    <3> QED BY <3>1, <3>2
  <2>4. /\ \A j : j \in DOMAIN mine <=> j \in DOMAIN annexes.rows /\ annexes.rows[j].country = request.country
        /\ \A j : j \in DOMAIN mine => mine[j] = annexes.rows[j]
    BY OfIs
  <2> HIDE DEF mine
  <2>5. DOMAIN mine \subseteq Nat \ {0} /\ \A j \in DOMAIN mine : mine[j] \in Row
    BY <2>3, <2>4
  <2> HIDE DEF code, theirs
  <2>6. \/ country = {} /\ CountrySource(code) = {}
        \/ \E k \in DOMAIN mine : /\ Beats(mine, code, k) /\ country = {mine[k]}
                                  /\ CountrySource(code) = {[kind |-> "country", row |-> mine[k]]}
    BY <2>2, <2>5, ValuedIs DEF CountrySource, mine
  <2>7. \/ Valued(theirs, code) = {} /\ OtherCountriesSource(code) = {}
        \/ \E k \in DOMAIN theirs : /\ Valued(theirs, code) = {theirs[k]}
                                    /\ OtherCountriesSource(code) = {[kind |-> "other countries", row |-> theirs[k]]}
    <3>1. PICK rows \in Seq(Row) : rows = theirs
      BY <2>3
    <3>2. DOMAIN rows \subseteq Nat \ {0} /\ \A j \in DOMAIN rows : rows[j] \in Row
      BY <2>3, <3>1
    <3>3. \/ Valued(rows, code) = {} /\ ValueOf(rows, code, "other countries") = {}
          \/ \E k \in DOMAIN rows : /\ Valued(rows, code) = {rows[k]}
                                    /\ ValueOf(rows, code, "other countries") = {[kind |-> "other countries", row |-> rows[k]]}
      <4> DEFINE k == Best(Codes(rows), code)
      <4>1. \/ Valued(rows, code) = {} /\ ValueOf(rows, code, "other countries") = {}
            \/ /\ k \in DOMAIN rows
               /\ Valued(rows, code) = {rows[k]}
               /\ ValueOf(rows, code, "other countries") = {[kind |-> "other countries", row |-> rows[k]]}
        BY <2>2, <3>2, ValuedIs, Zenon
      <4> QED BY <4>1, Zenon
    <3>4. OtherCountriesSource(code) = ValueOf(theirs, code, "other countries")
      BY DEF OtherCountriesSource, theirs
    <3> QED BY <3>1, <3>3, <3>4, Zenon
  <2>8. Sources(code) = IF CountrySource(code) # {} THEN CountrySource(code) ELSE OtherCountriesSource(code)
    BY DEF Sources
  <2>9. /\ Sources(code) = {} <=> expected = {}
        /\ \A source \in Sources(code) : source.row \in expected
    <3> HIDE DEF country
    <3>1. CASE country = {} /\ CountrySource(code) = {}
      <4>1. expected = Valued(theirs, code) /\ Sources(code) = OtherCountriesSource(code)
        BY <2>8, <3>1
      <4> HIDE DEF expected
      <4>2. CASE Valued(theirs, code) = {} /\ OtherCountriesSource(code) = {}
        BY <4>1, <4>2
      <4>3. CASE \E k \in DOMAIN theirs : /\ Valued(theirs, code) = {theirs[k]}
                                          /\ OtherCountriesSource(code) = {[kind |-> "other countries", row |-> theirs[k]]}
        <5>1. PICK k : /\ Valued(theirs, code) = {theirs[k]}
                       /\ OtherCountriesSource(code) = {[kind |-> "other countries", row |-> theirs[k]]}
          BY <4>3
        <5>2. PICK e : e = theirs[k]
          OBVIOUS
        <5>3. expected = {e} /\ Sources(code) = {[kind |-> "other countries", row |-> e]}
          BY <4>1, <5>1, <5>2, Zenon
        <5>4. [kind |-> "other countries", row |-> e].row = e
          OBVIOUS
        <5> QED BY <5>3, <5>4
      <4> QED BY <2>7, <4>2, <4>3, Zenon
    <3>2. CASE \E k \in DOMAIN mine : country = {mine[k]} /\ CountrySource(code) = {[kind |-> "country", row |-> mine[k]]}
      <4>1. PICK k \in DOMAIN mine : country = {mine[k]} /\ CountrySource(code) = {[kind |-> "country", row |-> mine[k]]}
        BY <3>2
      <4>2. expected = {mine[k]} /\ Sources(code) = {[kind |-> "country", row |-> mine[k]]}
        BY <2>8, <4>1
      <4> HIDE DEF expected
      <4>3. PICK e : e = mine[k]
        OBVIOUS
      <4>4. expected = {e} /\ Sources(code) = {[kind |-> "country", row |-> e]}
        BY <4>2, <4>3, Zenon
      <4>5. [kind |-> "country", row |-> e].row = e
        OBVIOUS
      <4> QED BY <4>4, <4>5
    <3> QED BY <2>6, <3>1, <3>2, Zenon
  <2>10. /\ selected.ok <=> expected # {}
         /\ selected.ok => selected.val.source.row \in expected
    <3> HIDE DEF expected
    <3>1. (\A v : Ok(v).ok /\ Ok(v).val = v) /\ ~Err("NoDefaultValue").ok
      BY DEF Ok, Err
    <3>2. CASE Sources(code) # {}
      <4>1. \E source \in Sources(code) :
              selected = Ok([source |-> source, markup |-> Markup(request.sector, period.val)])
        BY <2>1, <2>2, <3>2, Zenon DEF Selection, code
      <4>2. PICK source \in Sources(code) :
              selected = Ok([source |-> source, markup |-> Markup(request.sector, period.val)])
        BY <4>1
      <4>3. selected.ok /\ selected.val = [source |-> source, markup |-> Markup(request.sector, period.val)]
        BY <3>1, <4>2
      <4>4. selected.val.source = source
        BY <4>3
      <4> QED BY <2>9, <3>2, <4>2, <4>3, <4>4
    <3>3. CASE Sources(code) = {}
      <4>1. selected = Err("NoDefaultValue")
        BY <2>1, <2>2, <3>3, Zenon DEF Selection, code
      <4> QED BY <2>9, <3>1, <3>3, <4>1
    <3> QED BY <3>2, <3>3
  <2>11. ASSUME NEW row \in country
         PROVE  annexes.rows[InterpreterSelects(annexes.rows, request.country, code)] = row
    <3>1. PICK k \in DOMAIN mine : Beats(mine, code, k) /\ country = {mine[k]}
      BY <2>6, <2>11
    <3>2. row = mine[k] /\ mine[k] = annexes.rows[k] /\ k \in DOMAIN annexes.rows /\ annexes.rows[k].country = request.country
      BY <2>4, <2>11, <3>1
    <3>3. IsPrefix(annexes.rows[k].cn_code, code)
      BY <3>1, <3>2 DEF Beats
    <3>4. ASSUME NEW j \in DOMAIN annexes.rows, annexes.rows[j].country = request.country, IsPrefix(annexes.rows[j].cn_code, code)
          PROVE  \/ Len(annexes.rows[j].cn_code) < Len(annexes.rows[k].cn_code)
                 \/ Len(annexes.rows[j].cn_code) = Len(annexes.rows[k].cn_code) /\ j >= k
      <4>1. j \in DOMAIN mine /\ mine[j] = annexes.rows[j]
        BY <2>4, <3>4
      <4> QED BY <3>1, <3>2, <3>4, <4>1 DEF Beats
    <3>5. InterpreterSelects(annexes.rows, request.country, code) = k
      <4>1. PICK rows \in Seq(Row) : rows = annexes.rows
        BY <2>3
      <4>2. PICK land : land = request.country
        OBVIOUS
      <4>3. k \in DOMAIN rows /\ rows[k].country = land /\ IsPrefix(rows[k].cn_code, code)
        BY <3>2, <3>3, <4>1, <4>2
      <4>4. \A j \in DOMAIN rows : rows[j].country = land /\ IsPrefix(rows[j].cn_code, code) =>
              \/ Len(rows[j].cn_code) < Len(rows[k].cn_code)
              \/ Len(rows[j].cn_code) = Len(rows[k].cn_code) /\ j >= k
        BY <3>4, <4>1, <4>2
      <4>5. InterpreterSelects(rows, land, code) = k
        BY <2>2, <4>3, <4>4, LookUpIs
      <4> QED BY <4>1, <4>2, <4>5, Zenon
    <3> QED BY <3>2, <3>5
  <2>12. SelectsTheGoverningRow <=>
           /\ selected.ok <=> expected # {}
           /\ selected.ok => selected.val.source.row \in expected
           /\ \A row \in country : annexes.rows[InterpreterSelects(annexes.rows, request.country, code)] = row
    BY Zenon DEF SelectsTheGoverningRow, Valued, Beats, code, mine, theirs, country, expected
  <2> QED BY <2>10, <2>11, <2>12, SMTT(40)
<1> QED BY <1>1, DefaultsInvariant, PTL

=============================================================================
