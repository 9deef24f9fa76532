----------------------------- MODULE Precursors -----------------------------
(***************************************************************************)
(* Aggregation of precursor supplies, in the three places that compute it: *)
(*   - see_complex and weighted_average of the plain evaluator             *)
(*     (kaimeter-rules, src/common/precursors.rs);                         *)
(*   - the rule common.complex.see of rules.json, evaluated by the         *)
(*     interpreter (kaimeter-interpreter, src/rule.rs), natively or in the *)
(*     guest.                                                              *)
(* The plain loop starts from the direct emissions and adds one supply     *)
(* after another; the rule sums the supplies from zero and adds the direct *)
(* emissions last.  All loops run in lockstep over the same list, whose    *)
(* next supply is chosen as the loops reach it.                            *)
(***************************************************************************)
EXTENDS FixedPoint

CONSTANTS
  Supply,       (* the supplies a list is made of                   *)
  Direct,       (* direct emissions of the producer                 *)
  Production,   (* production of the complex good                   *)
  MaxSupplies   (* bound on the length of the list                  *)

Origins == {"third_country", "eu_or_excluded"}

ASSUME PrecursorAssumption ==
  /\ Supply \subseteq [see : Range128, quantity_t : Range128, origin : Origins]
  /\ Direct \subseteq Range128
  /\ Production \subseteq Range128
  /\ MaxSupplies \in Nat

VARIABLES
  phase,       (* "supplies" while the loops run, then "done"        *)
  direct,      (* the invocation's direct emissions                  *)
  production,  (* the invocation's production                        *)
  n,           (* supplies consumed so far                           *)
  attributed,  (* plain loop of see_complex                          *)
  total,       (* sum node of the rule                               *)
  tally,       (* plain loop of weighted_average: mass and weighted  *)
  exact,       (* history: exact sum of quantity x see, units^2      *)
  mass,        (* history: exact sum of the quantities               *)
  natural,     (* history: no input read so far is negative          *)
  result       (* the three results, once done                       *)

vars ==
  <<phase, direct, production, n, attributed, total, tally, exact, mass, natural, result>>

NoResult == Err("Pending")

-----------------------------------------------------------------------------

(* Mutant: the product is floored. *)
FlooredContribution(s) ==
  IF s.origin = "third_country"
    THEN AndThen(Checked(s.quantity_t * s.see), LAMBDA p : Ok(p \div SCALE))
    ELSE Ok(0)

(* contribution: the plain evaluator's term of one supply. *)
Contribution(s) ==
  IF s.origin = "third_country" THEN TryMul(s.quantity_t, s.see) ELSE Ok(0)

(* Mutant: the origin is not tested. *)
TermOfAnyOrigin(s) == TryMul(s.quantity_t, s.see)

(* The `of` expression of the rule's sum node: select on the origin text. *)
Term(s) ==
  IF s.origin = "third_country" THEN TryMul(s.quantity_t, s.see) ELSE Ok(0)

(* Mutant: the accumulator wraps nowhere and is checked nowhere. *)
AttributeUnchecked(s) ==
  AndThen(attributed, LAMBDA a : AndThen(Contribution(s), LAMBDA c : Ok(a + c)))

(* One turn of the loop of see_complex. *)
AttributeSupply(s) ==
  AndThen(attributed, LAMBDA a : AndThen(Contribution(s), LAMBDA c : TryAdd(a, c)))

(* Mutant: the sum saturates. *)
SumSaturating(s) ==
  AndThen(total, LAMBDA t :
  AndThen(Term(s), LAMBDA c : Ok(IF t + c > MAX THEN MAX ELSE t + c)))

(* One turn of the loop of Evaluator::sum. *)
SumSupply(s) ==
  AndThen(total, LAMBDA t : AndThen(Term(s), LAMBDA c : TryAdd(t, c)))

(* Mutant: zero-rated supplies lose their mass. *)
TallyWithoutZeroRated(s) ==
  IF s.origin = "third_country"
    THEN AndThen(tally, LAMBDA a :
         AndThen(TryAdd(a.mass, s.quantity_t), LAMBDA m :
         AndThen(Contribution(s), LAMBDA c :
         AndThen(TryAdd(a.weighted, c), LAMBDA w :
           Ok([mass |-> m, weighted |-> w])))))
    ELSE tally

(* One turn of the loop of weighted_average: the mass before the emissions. *)
TallySupply(s) ==
  AndThen(tally, LAMBDA a :
  AndThen(TryAdd(a.mass, s.quantity_t), LAMBDA m :
  AndThen(Contribution(s), LAMBDA c :
  AndThen(TryAdd(a.weighted, c), LAMBDA w :
    Ok([mass |-> m, weighted |-> w])))))

SeeComplex == AndThen(attributed, LAMBDA a : TryDiv(a, production))

(* div(add(direct, sum), production), operands left to right. *)
ComplexRule ==
  AndThen(total, LAMBDA t :
  AndThen(TryAdd(direct, t), LAMBDA a : TryDiv(a, production)))

WeightedAverage ==
  IF n = 0
    THEN Err("NoPrecursors")
    ELSE AndThen(tally, LAMBDA a : TryDiv(a.weighted, a.mass))

-----------------------------------------------------------------------------

Init ==
  /\ phase = "supplies"
  /\ direct \in Direct
  /\ production \in Production
  /\ n = 0
  /\ attributed = Ok(direct)
  /\ total = Ok(0)
  /\ tally = Ok([mass |-> 0, weighted |-> 0])
  /\ exact = 0 /\ mass = 0 /\ natural = (direct >= 0)
  /\ result = [plain |-> NoResult, rule |-> NoResult, average |-> NoResult]

Consume(s) ==
  /\ phase = "supplies" /\ n < MaxSupplies
  /\ n' = n + 1
  /\ attributed' = AttributeSupply(s)
  /\ total' = SumSupply(s)
  /\ tally' = TallySupply(s)
  /\ exact' = exact + (IF s.origin = "third_country" THEN s.quantity_t * s.see ELSE 0)
  /\ mass' = mass + s.quantity_t
  /\ natural' = (natural /\ s.see >= 0 /\ s.quantity_t >= 0)
  /\ UNCHANGED <<phase, direct, production, result>>

Finish ==
  /\ phase = "supplies"
  /\ phase' = "done"
  /\ result' = [plain |-> SeeComplex, rule |-> ComplexRule, average |-> WeightedAverage]
  /\ UNCHANGED <<direct, production, n, attributed, total, tally, exact, mass, natural>>

Next == (\E s \in Supply : Consume(s)) \/ Finish

Spec == Init /\ [][Next]_vars

-----------------------------------------------------------------------------

Outcomes ==
  [ok : {TRUE}, val : Range128]
    \cup [ok : {FALSE}, err : ArithmeticErrors \cup {"NoPrecursors", "Pending"}]

TypeOK ==
  /\ phase \in {"supplies", "done"}
  /\ direct \in Range128 /\ production \in Range128
  /\ n \in 0 .. MaxSupplies
  /\ attributed \in Outcomes /\ total \in Outcomes
  /\ tally \in [ok : {TRUE}, val : [mass : Range128, weighted : Range128]]
               \cup [ok : {FALSE}, err : ArithmeticErrors]
  /\ exact \in Int /\ mass \in Int /\ natural \in BOOLEAN
  /\ result \in [plain : Outcomes, rule : Outcomes, average : Outcomes]

(***************************************************************************)
(* On non-negative inputs the plain evaluator and the rule agree on every  *)
(* list of supplies, in the value and in the error, although they add in a *)
(* different order (interpreter contract, section 6).                      *)
(***************************************************************************)
EvaluatorsAgree == (phase = "done" /\ natural) => result.plain = result.rule

(***************************************************************************)
(* On any inputs, negative ones included, the two never return two         *)
(* different values: near the ends of the range one of them may return     *)
(* Overflow where the other has a value, but a value has one meaning.      *)
(***************************************************************************)
NeverTwoValues ==
  (phase = "done" /\ result.plain.ok /\ result.rule.ok) => result.plain = result.rule

(* 2 |see production - exact emissions| in units^2, and what may be lost. *)
AttributionError(see) == 2 * Magnitude(see * production - (direct * SCALE + exact))

AverageError(avg) == 2 * Magnitude(avg * mass - exact)

(***************************************************************************)
(* The rounding of one good is at most half a unit per supply and half a   *)
(* unit of the quotient, whatever the values: errors of long lists do not  *)
(* compound through the accumulator (precursors.rs:76-86).                 *)
(***************************************************************************)
AttributionIsAccurate ==
  (phase = "done" /\ result.plain.ok) =>
    AttributionError(result.plain.val) <= Magnitude(production) + n * SCALE

(***************************************************************************)
(* The same bound for the mass-weighted average, zero-rated mass included  *)
(* in the denominator (precursors.rs:52-63).                               *)
(***************************************************************************)
AverageIsAccurate ==
  (phase = "done" /\ result.average.ok) =>
    AverageError(result.average.val) <= Magnitude(mass) + n * SCALE

=============================================================================
