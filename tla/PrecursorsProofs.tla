-------------------------- MODULE PrecursorsProofs --------------------------
(***************************************************************************)
(* The properties of Precursors, for every scale, width and length of      *)
(* list.  None is inductive as it stands: agreement needs to know how far  *)
(* the two accumulators are apart while the loops run (SumsInv, OrderInv), *)
(* accuracy needs the error of the accumulator so far (AccuracyInv), and   *)
(* all need that the results are those of the final accumulators           *)
(* (ResultInv).                                                            *)
(***************************************************************************)
EXTENDS Precursors, FixedProofs

Amounts == [ok : {TRUE}, val : Range128] \cup [ok : {FALSE}, err : {"Overflow"}]

Tallies ==
  [ok : {TRUE}, val : [mass : Range128, weighted : Range128]]
    \cup [ok : {FALSE}, err : {"Overflow"}]

LEMMA AmountFacts ==
  ASSUME NEW r \in Amounts
  PROVE  /\ r.ok => r.val \in Range128
         /\ ~r.ok => r \in Tallies /\ r = Err("Overflow") /\ ~r.ok
  BY DEF Amounts, Tallies, Err

(* The exact emissions of one supply, units^2. *)
ExactTerm(s) == IF s.origin = "third_country" THEN s.quantity_t * s.see ELSE 0

LEMMA RangeIsInt == Range128 \subseteq Int /\ 0 \in Range128 /\ SCALE \in Nat /\ MAX \in Nat
  BY FixedAssumption DEF Range128, MIN

LEMMA SupplyType ==
  ASSUME NEW s \in Supply
  PROVE  /\ s.see \in Range128 /\ s.quantity_t \in Range128
         /\ s.see \in Int /\ s.quantity_t \in Int
         /\ ExactTerm(s) \in Int
<1>1. s.see \in Range128 /\ s.quantity_t \in Range128
  BY PrecursorAssumption
<1>2. s.see \in Int /\ s.quantity_t \in Int
  BY <1>1, RangeIsInt
<1>3. ExactTerm(s) \in Int
  BY <1>2 DEF ExactTerm
<1> QED
  BY <1>1, <1>2, <1>3

LEMMA CheckedAmount ==
  ASSUME NEW k \in Int
  PROVE  /\ Checked(k) \in Amounts
         /\ Checked(k).ok <=> k \in Range128
         /\ Checked(k).ok => Checked(k).val = k
  BY DEF Checked, Ok, Err, Amounts

(* One contribution: its type, its rounding and its sign. *)
LEMMA ContributionResult ==
  ASSUME NEW s \in Supply
  PROVE  /\ Contribution(s) \in Amounts
         /\ Contribution(s).ok => 2 * Magnitude(Contribution(s).val * SCALE - ExactTerm(s)) <= SCALE
         /\ Contribution(s).ok /\ s.see >= 0 /\ s.quantity_t >= 0 => Contribution(s).val >= 0
<1>1. CASE s.origin # "third_country"
  <2>1. Contribution(s) = Ok(0) /\ ExactTerm(s) = 0
    BY <1>1 DEF Contribution, ExactTerm
  <2>2. Ok(0) \in Amounts /\ Ok(0).ok /\ Ok(0).val = 0
    BY RangeIsInt DEF Ok, Amounts
  <2>3. 2 * Magnitude(0 * SCALE - 0) <= SCALE
    BY RangeIsInt DEF Magnitude
  <2> QED
    BY <2>1, <2>2, <2>3
<1>2. CASE s.origin = "third_country" /\ s.quantity_t * s.see \notin Range128
  <2>1. Contribution(s) = Err("Overflow")
    BY <1>2, SupplyType, TryMulResult DEF Contribution
  <2> QED
    BY <2>1 DEF Err, Amounts
<1>3. CASE s.origin = "third_country" /\ s.quantity_t * s.see \in Range128
  <2>1. PICK v \in Range128 : /\ Contribution(s) = Ok(v)
                              /\ IsNearestEven(v, s.quantity_t * s.see, SCALE)
                              /\ s.quantity_t >= 0 /\ s.see >= 0 => v >= 0
    BY <1>3, SupplyType, TryMulResult DEF Contribution
  <2>2. Ok(v) \in Amounts /\ Ok(v).ok /\ Ok(v).val = v
    BY DEF Ok, Amounts
  <2>3. ExactTerm(s) = s.quantity_t * s.see
    BY <1>3 DEF ExactTerm
  <2>4. 2 * Magnitude(v * SCALE - ExactTerm(s)) <= SCALE
    <3>1. v \in Int /\ ExactTerm(s) \in Int /\ SCALE \in Nat
      BY RangeIsInt, SupplyType
    <3>2. 2 * Magnitude(ExactTerm(s) - v * SCALE) <= Magnitude(SCALE)
      BY <2>1, <2>3, <3>1 DEF IsNearestEven, Magnitude
    <3> QED
      BY <3>1, <3>2 DEF Magnitude
  <2> QED
    BY <2>1, <2>2, <2>4
<1> QED
  BY <1>1, <1>2, <1>3

-----------------------------------------------------------------------------
(* The loops.                                                              *)

(* How far an accumulator is from the exact emissions. *)
Drift(sum, target) == 2 * Magnitude(sum * SCALE - target)

SumsInv ==
  /\ direct \in Direct /\ direct \in Range128 /\ production \in Range128
  /\ n \in 0 .. MaxSupplies /\ exact \in Int
  /\ attributed \in Amounts /\ total \in Amounts /\ tally \in Tallies
  /\ mass \in Int /\ (tally.ok => tally.val.mass = mass)
  /\ attributed.ok /\ total.ok => attributed.val = direct + total.val

OrderInv ==
  /\ attributed.ok => total.ok
  /\ total.ok => total.val >= 0
  /\ total.ok /\ ~attributed.ok => direct + total.val > MAX

AccuracyInv ==
  /\ attributed.ok => Drift(attributed.val, direct * SCALE + exact) <= n * SCALE
  /\ tally.ok => Drift(tally.val.weighted, exact) <= n * SCALE

ResultInv ==
  /\ phase \in {"supplies", "done"}
  /\ phase = "supplies" =>
       result = [plain |-> NoResult, rule |-> NoResult, average |-> NoResult]
  /\ phase = "done" =>
       result = [plain |-> SeeComplex, rule |-> ComplexRule, average |-> WeightedAverage]

(* One addition of the loops. *)
Plus(r, c) == AndThen(r, LAMBDA a : AndThen(c, LAMBDA b : TryAdd(a, b)))

LEMMA PlusResult ==
  ASSUME NEW r \in Amounts, NEW c \in Amounts
  PROVE  /\ Plus(r, c) \in Amounts
         /\ Plus(r, c).ok <=> r.ok /\ c.ok /\ r.val + c.val \in Range128
         /\ Plus(r, c).ok => Plus(r, c).val = r.val + c.val
<1>1. CASE ~r.ok
  BY <1>1 DEF Plus, AndThen
<1>2. CASE r.ok /\ ~c.ok
  BY <1>2 DEF Plus, AndThen
<1>3. CASE r.ok /\ c.ok
  <2>1. r.val \in Int /\ c.val \in Int
    BY <1>3, RangeIsInt DEF Amounts
  <2>2. Plus(r, c) = Checked(r.val + c.val)
    BY <1>3 DEF Plus, AndThen, TryAdd
  <2> QED
    BY <1>3, <2>1, <2>2, CheckedAmount
<1> QED
  BY <1>1, <1>2, <1>3

(* One turn of the three loops, on one contribution. *)
LEMMA TurnResult ==
  ASSUME NEW s \in Supply, SumsInv
  PROVE  /\ AttributeSupply(s) = Plus(attributed, Contribution(s))
         /\ SumSupply(s) = Plus(total, Contribution(s))
<1>1. Term(s) = Contribution(s)
  BY DEF Term, Contribution
<1> QED
  BY <1>1 DEF AttributeSupply, SumSupply, Plus

LEMMA TallyResult ==
  ASSUME NEW s \in Supply, SumsInv
  PROVE  /\ TallySupply(s) \in Tallies
         /\ TallySupply(s).ok =>
              /\ tally.ok /\ Contribution(s).ok
              /\ TallySupply(s).val.weighted = tally.val.weighted + Contribution(s).val
              /\ TallySupply(s).val.mass = tally.val.mass + s.quantity_t
<1> DEFINE c == Contribution(s)
           m == TryAdd(tally.val.mass, s.quantity_t)
           w == TryAdd(tally.val.weighted, c.val)
<1>1. c \in Amounts
  BY ContributionResult
<1>2. CASE ~tally.ok
  BY <1>2 DEF TallySupply, AndThen, SumsInv
<1>3. CASE tally.ok
  <2>1. tally.val \in [mass : Range128, weighted : Range128]
    BY <1>3 DEF SumsInv, Tallies
  <2>2. tally.val.mass \in Int /\ tally.val.weighted \in Int /\ s.quantity_t \in Int
    BY <2>1, RangeIsInt, SupplyType
  <2>3. /\ m \in Amounts
        /\ m.ok => m.val \in Range128 /\ m.val = tally.val.mass + s.quantity_t
    <3>1. tally.val.mass + s.quantity_t \in Int
      BY <2>2
    <3>2. m \in Amounts /\ (m.ok => m.val = tally.val.mass + s.quantity_t)
      BY <3>1, CheckedAmount DEF TryAdd
    <3> QED
      BY <3>2, AmountFacts
  <2>4. CASE ~m.ok
    <3>1. TallySupply(s) = m
      BY <1>3, <2>4 DEF TallySupply, AndThen
    <3> QED
      BY <2>3, <2>4, <3>1, AmountFacts
  <2>5. CASE m.ok /\ ~c.ok
    <3>1. TallySupply(s) = c
      BY <1>3, <2>5 DEF TallySupply, AndThen
    <3> QED
      BY <1>1, <2>5, <3>1, AmountFacts
  <2>6. CASE m.ok /\ c.ok
    <3>1. c.val \in Int
      BY <1>1, <2>6, RangeIsInt DEF Amounts
    <3>2. /\ w \in Amounts
          /\ w.ok => w.val \in Range128 /\ w.val = tally.val.weighted + c.val
      <4>1. tally.val.weighted + c.val \in Int
        BY <2>2, <3>1
      <4> QED
        BY <4>1, CheckedAmount, AmountFacts DEF TryAdd
    <3>3. CASE ~w.ok
      <4>1. TallySupply(s) = w
        BY <1>3, <2>6, <3>3 DEF TallySupply, AndThen
      <4> QED
        BY <3>2, <3>3, <4>1, AmountFacts
    <3>4. CASE w.ok
      <4>1. TallySupply(s) = Ok([mass |-> m.val, weighted |-> w.val])
        BY <1>3, <2>6, <3>4 DEF TallySupply, AndThen
      <4> QED
        BY <1>3, <2>3, <2>6, <3>2, <3>4, <4>1 DEF Ok, Tallies
    <3> QED
      BY <3>3, <3>4
  <2> QED
    BY <2>4, <2>5, <2>6
<1> QED
  BY <1>2, <1>3

-----------------------------------------------------------------------------
(* The invariants are inductive.                                           *)

LEMMA DirectType == \A d \in Direct : d \in Range128 /\ d \in Int
  BY PrecursorAssumption, RangeIsInt

LEMMA InitInvariants ==
  ASSUME Init
  PROVE  SumsInv /\ AccuracyInv /\ ResultInv /\ (natural => direct >= 0 /\ OrderInv)
<1>1. /\ attributed = Ok(direct) /\ total = Ok(0) /\ exact = 0 /\ n = 0 /\ mass = 0
      /\ tally = Ok([mass |-> 0, weighted |-> 0])
      /\ direct \in Direct /\ production \in Range128
  BY PrecursorAssumption DEF Init
<1>2. direct \in Range128 /\ direct \in Int
  BY <1>1, DirectType
<1>3. SumsInv
  <2>1. Ok(direct) \in Amounts /\ Ok(0) \in Amounts
    BY <1>2, RangeIsInt DEF Ok, Amounts
  <2>2. Ok([mass |-> 0, weighted |-> 0]) \in Tallies /\ Ok([mass |-> 0, weighted |-> 0]).val.mass = 0
    BY RangeIsInt DEF Ok, Tallies
  <2>3. Ok(direct).val = direct + Ok(0).val
    BY <1>2 DEF Ok
  <2> QED
    BY <1>1, <1>2, <2>1, <2>2, <2>3, PrecursorAssumption DEF SumsInv
<1>4. AccuracyInv
  <2>1. attributed.val = direct /\ tally.val.weighted = 0
    BY <1>1 DEF Ok
  <2>2. direct * SCALE \in Int
    BY <1>2, RangeIsInt
  <2>3. Drift(direct, direct * SCALE + 0) <= 0 * SCALE /\ Drift(0, 0) <= 0 * SCALE
    BY <2>2, RangeIsInt DEF Drift, Magnitude
  <2> QED
    BY <1>1, <2>1, <2>3 DEF AccuracyInv
<1>5. ResultInv
  BY DEF Init, ResultInv
<1>6. OrderInv
  BY <1>1 DEF OrderInv, Ok
<1>7. natural = (direct >= 0)
  BY DEF Init
<1>8. natural => direct >= 0
  BY <1>7, Zenon
<1> QED
  BY <1>3, <1>4, <1>5, <1>6, <1>8

LEMMA ConsumeSums ==
  ASSUME SumsInv, NEW s \in Supply, Consume(s)
  PROVE  SumsInv'
<1> DEFINE c == Contribution(s)
<1>1. /\ n' = n + 1 /\ n < MaxSupplies
      /\ attributed' = Plus(attributed, c) /\ total' = Plus(total, c)
      /\ tally' = TallySupply(s) /\ exact' = exact + ExactTerm(s)
      /\ mass' = mass + s.quantity_t /\ UNCHANGED <<direct, production>>
  BY TurnResult DEF Consume, ExactTerm
<1>2. c \in Amounts /\ attributed \in Amounts /\ total \in Amounts
  BY ContributionResult DEF SumsInv
<1> HIDE DEF c
<1>3. attributed' \in Amounts /\ total' \in Amounts /\ tally' \in Tallies
  BY <1>1, <1>2, PlusResult, TallyResult
<1>4. exact' \in Int /\ n' \in 0 .. MaxSupplies /\ mass' \in Int
  BY <1>1, SupplyType, PrecursorAssumption DEF SumsInv
<1>5. ASSUME attributed'.ok, total'.ok PROVE attributed'.val = direct' + total'.val
  <2>1. /\ attributed.ok /\ total.ok /\ c.ok
        /\ attributed'.val = attributed.val + c.val /\ total'.val = total.val + c.val
    BY <1>1, <1>2, <1>5, PlusResult
  <2>2. attributed.val = direct + total.val
    BY <2>1 DEF SumsInv
  <2>3. direct \in Int /\ total.val \in Int /\ c.val \in Int
    BY <1>2, <2>1, AmountFacts, RangeIsInt DEF SumsInv
  <2> QED
    BY <1>1, <2>1, <2>2, <2>3
<1>6. tally'.ok => tally'.val.mass = mass'
  BY <1>1, TallyResult DEF SumsInv
<1> QED
  BY <1>1, <1>3, <1>4, <1>5, <1>6 DEF SumsInv

LEMMA ConsumeOrder ==
  ASSUME SumsInv, OrderInv, direct >= 0, NEW s \in Supply, s.see >= 0, s.quantity_t >= 0, Consume(s)
  PROVE  OrderInv'
<1> DEFINE c == Contribution(s)
<1>1. /\ attributed' = Plus(attributed, c) /\ total' = Plus(total, c) /\ direct' = direct
  BY TurnResult DEF Consume
<1>2. c \in Amounts /\ attributed \in Amounts /\ total \in Amounts
  BY ContributionResult DEF SumsInv
<1>3. c.ok => c.val >= 0
  BY ContributionResult
<1> HIDE DEF c
<1>4. /\ direct \in Int
      /\ c.ok => c.val \in Int
      /\ total.ok => total.val \in Int
      /\ attributed.ok => attributed.val \in Int
  BY <1>2, AmountFacts, RangeIsInt DEF SumsInv
<1>5. \A k \in Int : k >= 0 => (k \in Range128 <=> k <= MAX)
  BY RangeIsInt DEF Range128, MIN
<1>6. total'.ok => total.ok /\ c.ok /\ total'.val = total.val + c.val
  BY <1>1, <1>2, PlusResult
<1>7. total'.ok => total'.val >= 0
  BY <1>3, <1>4, <1>6 DEF OrderInv
<1>8. ASSUME attributed'.ok PROVE total'.ok
  <2>1. attributed.ok /\ c.ok /\ attributed.val + c.val \in Range128
    BY <1>1, <1>2, <1>8, PlusResult
  <2>2. total.ok /\ total.val >= 0 /\ attributed.val = direct + total.val
    BY <2>1 DEF OrderInv, SumsInv
  <2>3. total.val + c.val <= MAX /\ total.val + c.val >= 0
    BY <1>3, <1>4, <1>5, <2>1, <2>2, RangeIsInt
  <2>4. total.val + c.val \in Range128
    BY <1>4, <1>5, <2>1, <2>2, <2>3
  <2> QED
    BY <1>1, <1>2, <2>1, <2>2, <2>4, PlusResult
<1>9. ASSUME total'.ok, ~attributed'.ok PROVE direct' + total'.val > MAX
  <2>1. total.ok /\ total.val >= 0 /\ c.ok /\ c.val >= 0 /\ total'.val = total.val + c.val
    BY <1>3, <1>6, <1>9 DEF OrderInv
  <2>2. CASE attributed.ok
    <3>1. attributed.val + c.val \notin Range128
      BY <1>1, <1>2, <1>9, <2>1, <2>2, PlusResult
    <3>2. attributed.val = direct + total.val
      BY <2>1, <2>2 DEF SumsInv
    <3> QED
      BY <1>1, <1>4, <1>5, <2>1, <2>2, <3>1, <3>2, RangeIsInt
  <2>3. CASE ~attributed.ok
    <3>1. direct + total.val > MAX
      BY <2>1, <2>3 DEF OrderInv
    <3> QED
      BY <1>1, <1>4, <2>1, <3>1, RangeIsInt
  <2> QED
    BY <2>2, <2>3
<1> QED
  BY <1>7, <1>8, <1>9 DEF OrderInv

(* Adding a term adds at most its own rounding to the drift. *)
LEMMA DriftStep ==
  ASSUME NEW a \in Int, NEW t \in Int, NEW c \in Int, NEW e \in Int, NEW k \in Nat,
         Drift(a, t) <= k * SCALE, 2 * Magnitude(c * SCALE - e) <= SCALE
  PROVE  Drift(a + c, t + e) <= (k + 1) * SCALE
<1> DEFINE x == a * SCALE - t
           y == c * SCALE - e
<1>1. x \in Int /\ y \in Int /\ (a + c) * SCALE - (t + e) = x + y
  BY RangeIsInt
<1>2. 2 * Magnitude(x) <= k * SCALE /\ 2 * Magnitude(y) <= SCALE
  BY DEF Drift
<1>3. (k + 1) * SCALE = k * SCALE + SCALE /\ k * SCALE \in Int
  BY RangeIsInt
<1> HIDE DEF x, y
<1>4. 2 * Magnitude(x + y) <= k * SCALE + SCALE
  BY <1>1, <1>2, <1>3, RangeIsInt DEF Magnitude
<1> QED
  BY <1>1, <1>3, <1>4 DEF Drift

LEMMA ConsumeAccuracy ==
  ASSUME SumsInv, AccuracyInv, NEW s \in Supply, Consume(s)
  PROVE  AccuracyInv'
<1> DEFINE c == Contribution(s)
           e == ExactTerm(s)
<1>1. /\ n' = n + 1 /\ exact' = exact + e /\ direct' = direct
      /\ attributed' = Plus(attributed, c) /\ tally' = TallySupply(s)
  BY TurnResult DEF Consume, ExactTerm
<1>2. c \in Amounts /\ attributed \in Amounts /\ e \in Int /\ exact \in Int /\ n \in Nat
  BY ContributionResult, SupplyType, PrecursorAssumption DEF SumsInv
<1>3. c.ok => c.val \in Int /\ 2 * Magnitude(c.val * SCALE - e) <= SCALE
  BY <1>2, ContributionResult, AmountFacts, RangeIsInt
<1>4. direct * SCALE + exact \in Int
  BY <1>2, RangeIsInt DEF SumsInv
<1>5. tally'.ok =>
        tally.ok /\ c.ok /\ tally'.val.weighted = tally.val.weighted + c.val
  BY <1>1, TallyResult
<1> HIDE DEF c, e
<1>6. ASSUME attributed'.ok
      PROVE  Drift(attributed.val + c.val, (direct * SCALE + exact) + e) <= (n + 1) * SCALE
  <2>1. attributed.ok /\ c.ok
    BY <1>1, <1>2, <1>6, PlusResult
  <2>2. attributed.val \in Int
    BY <1>2, <2>1, AmountFacts, RangeIsInt
  <2>3. Drift(attributed.val, direct * SCALE + exact) <= n * SCALE
    BY <2>1 DEF AccuracyInv
  <2> QED
    BY <1>2, <1>3, <1>4, <2>1, <2>2, <2>3, DriftStep
<1>7. ASSUME tally'.ok
      PROVE  Drift(tally.val.weighted + c.val, exact + e) <= (n + 1) * SCALE
  <2>1. tally.ok /\ c.ok
    BY <1>5, <1>7
  <2>2. tally.val.weighted \in Int
    BY <2>1, RangeIsInt DEF SumsInv, Tallies
  <2>3. Drift(tally.val.weighted, exact) <= n * SCALE
    BY <2>1 DEF AccuracyInv
  <2> QED
    BY <1>2, <1>3, <2>1, <2>2, <2>3, DriftStep
<1>8. attributed'.ok => attributed'.val = attributed.val + c.val
  BY <1>1, <1>2, PlusResult
<1>9. direct' * SCALE + exact' = (direct * SCALE + exact) + e
  BY <1>1, <1>2, RangeIsInt DEF SumsInv
<1> QED
  BY <1>1, <1>5, <1>6, <1>7, <1>8, <1>9 DEF AccuracyInv

LEMMA ConsumeResult ==
  ASSUME ResultInv, NEW s \in Supply, Consume(s)
  PROVE  ResultInv'
  BY DEF ResultInv, Consume, NoResult, Err

(* The results are functions of the accumulators. *)
LEMMA SameResults ==
  ASSUME UNCHANGED <<direct, production, n, attributed, total, tally>>
  PROVE  SeeComplex' = SeeComplex /\ ComplexRule' = ComplexRule /\ WeightedAverage' = WeightedAverage
  BY DEF SeeComplex, ComplexRule, WeightedAverage, AndThen

LEMMA FinishInvariants ==
  ASSUME SumsInv, AccuracyInv, ResultInv, Finish
  PROVE  SumsInv' /\ AccuracyInv' /\ ResultInv' /\ (OrderInv => OrderInv')
<1>1. UNCHANGED <<direct, production, n, attributed, total, tally, exact, mass>> /\ phase' = "done"
  BY DEF Finish
<1>2. SumsInv' /\ AccuracyInv' /\ (OrderInv => OrderInv')
  BY <1>1 DEF SumsInv, AccuracyInv, OrderInv, Drift
<1>3. ResultInv'
  BY <1>1, SameResults DEF Finish, ResultInv
<1> QED
  BY <1>2, <1>3

LEMMA StutterInvariants ==
  ASSUME SumsInv, AccuracyInv, ResultInv, UNCHANGED vars
  PROVE  SumsInv' /\ AccuracyInv' /\ ResultInv' /\ (OrderInv => OrderInv')
<1>1. SumsInv' /\ AccuracyInv' /\ (OrderInv => OrderInv')
  BY DEF vars, SumsInv, AccuracyInv, OrderInv, Drift
<1>2. ResultInv'
  BY SameResults DEF vars, ResultInv
<1> QED
  BY <1>1, <1>2

Inv == SumsInv /\ AccuracyInv /\ ResultInv /\ (natural => direct >= 0 /\ OrderInv)

LEMMA StepInvariants == Inv /\ [Next]_vars => Inv'
<1> SUFFICES ASSUME Inv, [Next]_vars PROVE Inv'
  OBVIOUS
<1> USE DEF Inv
<1>1. ASSUME NEW s \in Supply, Consume(s) PROVE Inv'
  <2>1. SumsInv' /\ AccuracyInv' /\ ResultInv'
    BY <1>1, ConsumeSums, ConsumeAccuracy, ConsumeResult
  <2>2. ASSUME natural' PROVE direct' >= 0 /\ OrderInv'
    <3>1. natural /\ s.see >= 0 /\ s.quantity_t >= 0 /\ direct' = direct
      BY <1>1, <2>2 DEF Consume
    <3> QED
      BY <1>1, <3>1, ConsumeOrder
  <2> QED
    BY <2>1, <2>2
<1>2. CASE Finish
  <2>1. natural' = natural /\ direct' = direct
    BY <1>2 DEF Finish
  <2> QED
    BY <1>2, <2>1, FinishInvariants
<1>3. CASE UNCHANGED vars
  <2>1. natural' = natural /\ direct' = direct
    BY <1>3 DEF vars
  <2> QED
    BY <1>3, <2>1, StutterInvariants
<1> QED
  BY <1>1, <1>2, <1>3 DEF Next

LEMMA Invariance == Spec => []Inv
<1>1. Init => Inv
  BY InitInvariants DEF Inv
<1> QED
  BY <1>1, StepInvariants, PTL DEF Spec

-----------------------------------------------------------------------------
(* What the invariants say of the results.                                 *)

LEMMA Agreement ==
  ASSUME SumsInv, OrderInv
  PROVE  SeeComplex = ComplexRule
<1>1. CASE attributed.ok
  <2>1. total.ok /\ attributed.val = direct + total.val /\ attributed.val \in Range128
    BY <1>1, AmountFacts DEF OrderInv, SumsInv
  <2>2. TryAdd(direct, total.val) = Ok(attributed.val)
    BY <2>1 DEF TryAdd, Checked
  <2>3. ComplexRule = TryDiv(attributed.val, production)
    BY <2>1, <2>2 DEF ComplexRule, AndThen, Ok
  <2>4. SeeComplex = TryDiv(attributed.val, production)
    BY <1>1 DEF SeeComplex, AndThen
  <2> QED
    BY <2>3, <2>4
<1>2. CASE ~attributed.ok
  <2>1. SeeComplex = Err("Overflow")
    BY <1>2, AmountFacts DEF SeeComplex, AndThen, SumsInv
  <2>2. CASE total.ok
    <3>1. direct + total.val \notin Range128
      <4>1. direct + total.val > MAX
        BY <1>2, <2>2 DEF OrderInv
      <4>2. direct \in Int /\ total.val \in Int
        BY <2>2, AmountFacts, RangeIsInt DEF SumsInv
      <4> QED
        BY <4>1, <4>2, RangeIsInt DEF Range128, MIN
    <3>2. TryAdd(direct, total.val) = Err("Overflow")
      BY <3>1 DEF TryAdd, Checked
    <3>3. ComplexRule = Err("Overflow")
      BY <2>2, <3>2 DEF ComplexRule, AndThen, Err
    <3> QED
      BY <2>1, <3>3
  <2>3. CASE ~total.ok
    BY <2>1, <2>3, AmountFacts DEF ComplexRule, AndThen, SumsInv
  <2> QED
    BY <2>2, <2>3
<1> QED
  BY <1>1, <1>2

LEMMA OneValue ==
  ASSUME SumsInv, SeeComplex.ok, ComplexRule.ok
  PROVE  SeeComplex = ComplexRule
<1>1. attributed.ok
  BY DEF SeeComplex, AndThen
<1>2. total.ok
  BY DEF ComplexRule, AndThen
<1>3. attributed.val = direct + total.val /\ attributed.val \in Range128
  BY <1>1, <1>2, AmountFacts DEF SumsInv
<1>4. TryAdd(direct, total.val) = Ok(attributed.val)
  BY <1>3 DEF TryAdd, Checked
<1>5. ComplexRule = TryDiv(attributed.val, production)
  BY <1>2, <1>4 DEF ComplexRule, AndThen, Ok
<1> QED
  BY <1>1, <1>5 DEF SeeComplex, AndThen

(* Dividing adds at most half of the divisor to the drift. *)
LEMMA QuotientDrift ==
  ASSUME NEW a \in Range128, NEW y \in Range128, NEW t \in Int, NEW k \in Nat,
         Drift(a, t) <= k * SCALE, TryDiv(a, y).ok
  PROVE  /\ TryDiv(a, y).val \in Range128
         /\ 2 * Magnitude(TryDiv(a, y).val * y - t) <= Magnitude(y) + k * SCALE
<1>1. y # 0 /\ a * SCALE \in Range128
  BY TryDivResult DEF Err
<1>2. PICK v \in Range128 : TryDiv(a, y) = Ok(v) /\ IsNearestEven(v, a * SCALE, y)
  BY <1>1, TryDivResult
<1> DEFINE x == a * SCALE - t
           z == v * y - a * SCALE
<1>3. a \in Int /\ y \in Int /\ v \in Int /\ SCALE \in Nat
  BY RangeIsInt
<1>4. x \in Int /\ z \in Int /\ v * y - t = x + z /\ k * SCALE \in Int
  BY <1>3
<1>5. 2 * Magnitude(x) <= k * SCALE
  BY DEF Drift
<1>6. 2 * Magnitude(z) <= Magnitude(y)
  BY <1>2, <1>3 DEF IsNearestEven, Magnitude
<1> HIDE DEF x, z
<1>7. 2 * Magnitude(x + z) <= Magnitude(y) + k * SCALE
  BY <1>3, <1>4, <1>5, <1>6 DEF Magnitude
<1> QED
  BY <1>2, <1>4, <1>7 DEF Ok

LEMMA AttributionDrift ==
  ASSUME SumsInv, AccuracyInv, SeeComplex.ok
  PROVE  AttributionError(SeeComplex.val) <= Magnitude(production) + n * SCALE
<1>1. attributed.ok
  BY DEF SeeComplex, AndThen
<1>2. SeeComplex = TryDiv(attributed.val, production)
  BY <1>1 DEF SeeComplex, AndThen
<1>3. attributed.val \in Range128 /\ production \in Range128 /\ n \in Nat
  BY <1>1, AmountFacts, PrecursorAssumption DEF SumsInv
<1>4. direct * SCALE + exact \in Int
  BY RangeIsInt DEF SumsInv
<1>5. Drift(attributed.val, direct * SCALE + exact) <= n * SCALE
  BY <1>1 DEF AccuracyInv
<1> QED
  BY <1>2, <1>3, <1>4, <1>5, QuotientDrift DEF AttributionError

LEMMA AverageDrift ==
  ASSUME SumsInv, AccuracyInv, WeightedAverage.ok
  PROVE  AverageError(WeightedAverage.val) <= Magnitude(mass) + n * SCALE
<1>1. n # 0
  BY DEF WeightedAverage, Err
<1>2. tally.ok
  BY <1>1 DEF WeightedAverage, AndThen
<1>3. WeightedAverage = TryDiv(tally.val.weighted, tally.val.mass)
  BY <1>1, <1>2 DEF WeightedAverage, AndThen
<1>4. tally.val.weighted \in Range128 /\ tally.val.mass \in Range128 /\ tally.val.mass = mass
  BY <1>2 DEF SumsInv, Tallies
<1>5. n \in Nat /\ exact \in Int
  BY PrecursorAssumption DEF SumsInv
<1>6. Drift(tally.val.weighted, exact) <= n * SCALE
  BY <1>2 DEF AccuracyInv
<1> QED
  BY <1>3, <1>4, <1>5, <1>6, QuotientDrift DEF AverageError

-----------------------------------------------------------------------------
(* Types.                                                                  *)

LEMMA AmountsAreOutcomes ==
  /\ Amounts \subseteq Outcomes
  /\ Err("DivisionByZero") \in Outcomes /\ Err("NoPrecursors") \in Outcomes
  /\ NoResult \in Outcomes
  BY DEF Amounts, Outcomes, NoResult, Err, ArithmeticErrors

LEMMA QuotientType ==
  ASSUME NEW x \in Range128, NEW y \in Range128
  PROVE  TryDiv(x, y) \in Outcomes
<1>1. CASE y = 0
  BY <1>1, TryDivResult, AmountsAreOutcomes
<1>2. CASE y # 0 /\ x * SCALE \notin Range128
  <2>1. TryDiv(x, y) = Err("Overflow")
    BY <1>2, TryDivResult
  <2>2. Err("Overflow") \in Amounts
    BY DEF Err, Amounts
  <2> QED
    BY <2>1, <2>2, AmountsAreOutcomes
<1>3. CASE y # 0 /\ x * SCALE \in Range128
  <2>1. PICK v \in Range128 : TryDiv(x, y) = Ok(v)
    BY <1>3, TryDivResult
  <2>2. Ok(v) \in Amounts
    BY DEF Ok, Amounts
  <2> QED
    BY <2>1, <2>2, AmountsAreOutcomes
<1> QED
  BY <1>1, <1>2, <1>3

LEMMA ResultTypes ==
  ASSUME SumsInv
  PROVE  SeeComplex \in Outcomes /\ ComplexRule \in Outcomes /\ WeightedAverage \in Outcomes
<1>1. attributed \in Amounts /\ total \in Amounts /\ tally \in Tallies /\ production \in Range128
  BY DEF SumsInv
<1>2. SeeComplex \in Outcomes
  <2>1. CASE attributed.ok
    <3>1. attributed.val \in Range128
      BY <1>1, <2>1, AmountFacts
    <3>2. SeeComplex = TryDiv(attributed.val, production)
      BY <2>1 DEF SeeComplex, AndThen
    <3> QED
      BY <1>1, <3>1, <3>2, QuotientType
  <2>2. CASE ~attributed.ok
    <3>1. SeeComplex = attributed
      BY <2>2 DEF SeeComplex, AndThen
    <3> QED
      BY <1>1, <3>1, AmountsAreOutcomes
  <2> QED
    BY <2>1, <2>2
<1>3. ComplexRule \in Outcomes
  <2> DEFINE a == TryAdd(direct, total.val)
  <2>1. CASE ~total.ok
    <3>1. ComplexRule = total
      BY <2>1 DEF ComplexRule, AndThen
    <3> QED
      BY <1>1, <3>1, AmountsAreOutcomes
  <2>2. CASE total.ok
    <3>1. direct + total.val \in Int
      <4>1. direct \in Range128 /\ total.val \in Range128
        BY <1>1, <2>2, AmountFacts DEF SumsInv
      <4>2. direct \in Int /\ total.val \in Int
        BY <4>1, RangeIsInt
      <4> HIDE DEF a
      <4> QED
        BY <4>2
    <3>2. a \in Amounts
      BY <3>1, CheckedAmount DEF TryAdd
    <3>3. CASE ~a.ok
      <4>1. ComplexRule = a
        BY <2>2, <3>3 DEF ComplexRule, AndThen
      <4> QED
        BY <3>2, <4>1, AmountsAreOutcomes
    <3>4. CASE a.ok
      <4>1. ComplexRule = TryDiv(a.val, production)
        BY <2>2, <3>4 DEF ComplexRule, AndThen
      <4>2. a.val \in Range128
        BY <3>2, <3>4, AmountFacts
      <4> HIDE DEF a
      <4> QED
        BY <1>1, <4>1, <4>2, QuotientType
    <3> QED
      BY <3>3, <3>4
  <2> QED
    BY <2>1, <2>2
<1>4. WeightedAverage \in Outcomes
  <2>1. CASE n = 0
    BY <2>1, AmountsAreOutcomes DEF WeightedAverage
  <2>2. CASE n # 0 /\ ~tally.ok
    <3>1. WeightedAverage = tally
      BY <2>2 DEF WeightedAverage, AndThen
    <3>2. tally \in Outcomes
      BY <1>1, <2>2 DEF Tallies, Outcomes, ArithmeticErrors
    <3> QED
      BY <3>1, <3>2
  <2>3. CASE n # 0 /\ tally.ok
    <3>1. tally.val.weighted \in Range128 /\ tally.val.mass \in Range128
      BY <1>1, <2>3 DEF Tallies
    <3>2. WeightedAverage = TryDiv(tally.val.weighted, tally.val.mass)
      BY <2>3 DEF WeightedAverage, AndThen
    <3> QED
      BY <3>1, <3>2, QuotientType
  <2> QED
    BY <2>1, <2>2, <2>3
<1> QED
  BY <1>2, <1>3, <1>4

LEMMA NaturalType == Spec => [](natural \in BOOLEAN)
<1>1. Init => natural \in BOOLEAN
  <2>1. CASE direct >= 0
    <3>1. (direct >= 0) = TRUE
      BY <2>1
    <3> QED
      BY <3>1, Zenon DEF Init
  <2>2. CASE ~(direct >= 0)
    <3>1. (direct >= 0) = FALSE
      BY <2>2
    <3> QED
      BY <3>1, Zenon DEF Init
  <2> QED
    BY <2>1, <2>2
<1>2. natural \in BOOLEAN /\ [Next]_vars => (natural \in BOOLEAN)'
  BY Zenon DEF Next, Consume, Finish, vars
<1> QED
  BY <1>1, <1>2, PTL DEF Spec

-----------------------------------------------------------------------------

(***************************************************************************)
(* While no input is negative, see_complex and the interpreted rule return *)
(* the same value or the same error, for lists of any length, at any width.*)
(***************************************************************************)
THEOREM PrecursorsAgree == Spec => []EvaluatorsAgree
<1>1. Inv => EvaluatorsAgree
  BY Agreement DEF Inv, ResultInv, EvaluatorsAgree
<1> QED
  BY <1>1, Invariance, PTL

(***************************************************************************)
(* On any inputs the two evaluators never return two different values.     *)
(***************************************************************************)
THEOREM PrecursorsNeverTwoValues == Spec => []NeverTwoValues
<1>1. Inv => NeverTwoValues
  BY OneValue DEF Inv, ResultInv, NeverTwoValues
<1> QED
  BY <1>1, Invariance, PTL

(***************************************************************************)
(* The embedded emissions of a complex good are within half a unit per     *)
(* supply, and half a unit of the quotient, of their exact value.          *)
(***************************************************************************)
THEOREM PrecursorsAttributionAccurate == Spec => []AttributionIsAccurate
<1>1. Inv => AttributionIsAccurate
  BY AttributionDrift DEF Inv, ResultInv, AttributionIsAccurate
<1> QED
  BY <1>1, Invariance, PTL

(***************************************************************************)
(* So is the mass-weighted average.                                        *)
(***************************************************************************)
THEOREM PrecursorsAverageAccurate == Spec => []AverageIsAccurate
<1>1. Inv => AverageIsAccurate
  BY AverageDrift DEF Inv, ResultInv, AverageIsAccurate
<1> QED
  BY <1>1, Invariance, PTL

(***************************************************************************)
(* No accumulator and no result leaves the range, and no error is one the  *)
(* loops do not return, for lists of any length.                           *)
(***************************************************************************)
THEOREM PrecursorsTypeCorrect == Spec => []TypeOK
<1>1. Inv /\ natural \in BOOLEAN => TypeOK
  <2> SUFFICES ASSUME Inv, natural \in BOOLEAN PROVE TypeOK
    OBVIOUS
  <2>1. SumsInv /\ ResultInv
    BY DEF Inv
  <2>2. result \in [plain : Outcomes, rule : Outcomes, average : Outcomes]
    BY <2>1, ResultTypes, AmountsAreOutcomes DEF ResultInv
  <2>3. attributed \in Outcomes /\ total \in Outcomes
    BY <2>1, AmountsAreOutcomes DEF SumsInv
  <2>4. tally \in [ok : {TRUE}, val : [mass : Range128, weighted : Range128]]
                 \cup [ok : {FALSE}, err : ArithmeticErrors]
    BY <2>1 DEF SumsInv, Tallies, ArithmeticErrors
  <2> QED
    BY <2>1, <2>2, <2>3, <2>4 DEF SumsInv, ResultInv, TypeOK
<1> QED
  BY <1>1, Invariance, NaturalType, PTL

=============================================================================
