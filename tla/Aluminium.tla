----------------------------- MODULE Aluminium ------------------------------
(***************************************************************************)
(* The aluminium sector, written twice: as functions of the plain          *)
(* evaluator (kaimeter-rules, src/sectors/aluminium) and as the rules of   *)
(* rules.json that the interpreter evaluates.  Rules of rules.json are     *)
(* trees; here a repeated subtree is one node, which eval visits as often. *)
(***************************************************************************)
EXTENDS RuleMeaning

CONSTANT Thousand  (* 1000 in the code, kilograms in a tonne; a Fixed *)

ASSUME ThousandAssumption == Thousand \in Range128

-----------------------------------------------------------------------------
(* The functions.  An input i maps names to scalars.                       *)

Number(i, name) == i[name].scalar

GwpRow(substance, gwp100) == [substance |-> Text(substance), gwp100 |-> Text(gwp100)]

(* gwp_value: the first row of the substance; the embedded table has both. *)
GwpValue(substance) ==
  LET rows == TableFiles["gwp"].val
      k == Min({j \in DOMAIN rows : rows[j].substance = Text(substance)})
  IN  ParseWhole(rows[k].gwp100.text)

CF4  == <<10, 11, 4>>
C2F6 == <<10, 2, 11, 6>>

(* Mutant: divides before it multiplies. *)
SlopeCf4DividedEarly(i) ==
  AndThen(TryMul(Number(i, "anode_effect_minutes_per_cell_day"), Number(i, "slope_emission_factor_cf4")),
    LAMBDA rate : AndThen(TryDiv(rate, Thousand), LAMBDA t : TryMul(t, Number(i, "production_t"))))

SlopeCf4(i) ==
  AndThen(TryMul(Number(i, "anode_effect_minutes_per_cell_day"), Number(i, "slope_emission_factor_cf4")),
    LAMBDA rate : AndThen(TryMul(rate, Number(i, "production_t")), LAMBDA kg : TryDiv(kg, Thousand)))

OvervoltageCf4(i) ==
  AndThen(TryDiv(Number(i, "anode_effect_overvoltage_mv"), Number(i, "current_efficiency_percent")),
    LAMBDA ratio : AndThen(TryMul(Number(i, "overvoltage_coefficient_cf4"), ratio),
    LAMBDA rate : AndThen(TryMul(rate, Number(i, "production_t")), LAMBDA kg : TryDiv(kg, Thousand))))

(* What slope and overvoltage do with CF4: PfcEmissions. *)
PfcEmissions(i, cf4_t) ==
  AndThen(TryMul(cf4_t, Number(i, "weight_fraction_c2f6_cf4")), LAMBDA c2f6_t :
  AndThen(GwpValue(CF4), LAMBDA cf4 : AndThen(GwpValue(C2F6), LAMBDA c2f6 :
  AndThen(TryMul(cf4_t, cf4), LAMBDA cf4_co2e : AndThen(TryMul(c2f6_t, c2f6), LAMBDA c2f6_co2e :
  AndThen(TryAdd(cf4_co2e, c2f6_co2e), LAMBDA pfc :
    Ok([cf4_t |-> cf4_t, c2f6_t |-> c2f6_t, pfc_tco2e |-> pfc])))))))

(* see_primary_slope and see_primary_overvoltage, with what their methods  *)
(* return for CF4; the outputs are in the order of their names.            *)
SeePrimary(i, cf4) ==
  AndThen(cf4, LAMBDA cf4_t : AndThen(PfcEmissions(i, cf4_t), LAMBDA e :
  AndThen(TryAdd(Number(i, "direct_co2_t"), e.pfc_tco2e), LAMBDA attributed :
  AndThen(TryDiv(attributed, Number(i, "production_t")), LAMBDA see :
    Ok(<<Scalar(e.c2f6_t), Scalar(e.cf4_t), Scalar(e.pfc_tco2e), Scalar(see)>>)))))

(* see_secondary: see_complex of the added unwrought aluminium. *)
ThirdCountry == <<12>>

Contribution(s) ==
  IF s.origin = Text(ThirdCountry) THEN TryMul(s.quantity_t.scalar, s.see_tco2e_per_t.scalar) ELSE Ok(0)

SeeSecondary(i) ==
  LET supplies == i.supplies.list
      attributed[n \in 0 .. Len(supplies)] ==
        IF n = 0 THEN Ok(Number(i, "direct_co2_t"))
        ELSE AndThen(attributed[n - 1], LAMBDA a :
             AndThen(Contribution(supplies[n].record), LAMBDA c : TryAdd(a, c)))
  IN  AndThen(attributed[Len(supplies)], LAMBDA a :
      AndThen(TryDiv(a, Number(i, "production_t")), LAMBDA see : Ok(<<Scalar(see)>>)))

-----------------------------------------------------------------------------
(* The rules.                                                              *)

InputNode(name) == [op |-> "input", name |-> name, args |-> <<>>]
FieldNode(name) == [op |-> "field", name |-> name, args |-> <<>>]
ConstNode(value) == [op |-> "const", literals |-> <<value>>, args |-> <<>>]
OpNode(op, args) == [op |-> op, args |-> args]
GwpNode(substance) ==
  [op |-> "table", table |-> "gwp", column |-> "gwp100", cell |-> "scalar",
   matches |-> <<[column |-> "substance", by |-> [kind \in {"equals"} |-> substance]]>>]

(* Gases from a node of CF4, the last so far; the outputs are c2f6_t,      *)
(* cf4_t, pfc_tco2e and see_tco2e_per_t, the order of a BTreeMap.          *)
PrimaryRule(cf4Nodes) ==
  LET n == Len(cf4Nodes)
  IN  [nodes |-> cf4Nodes \o
         <<InputNode("weight_fraction_c2f6_cf4"), OpNode("mul", <<n, n + 1>>),
           ConstNode(Text(CF4)), GwpNode(n + 3), OpNode("mul", <<n + 4, n>>),
           ConstNode(Text(C2F6)), GwpNode(n + 6), OpNode("mul", <<n + 7, n + 2>>),
           OpNode("add", <<n + 5, n + 8>>),
           InputNode("direct_co2_t"), OpNode("add", <<n + 10, n + 9>>),
           InputNode("production_t"), OpNode("div", <<n + 11, n + 12>>)>>,
       outputs |-> <<n + 2, n, n + 9, n + 13>>, proves |-> 4]

SlopeRule ==
  PrimaryRule(<<InputNode("anode_effect_minutes_per_cell_day"), InputNode("slope_emission_factor_cf4"),
                OpNode("mul", <<1, 2>>), InputNode("production_t"), OpNode("mul", <<3, 4>>),
                ConstNode(Scalar(Thousand)), OpNode("div", <<5, 6>>)>>)

OvervoltageRule ==
  PrimaryRule(<<InputNode("overvoltage_coefficient_cf4"), InputNode("anode_effect_overvoltage_mv"),
                InputNode("current_efficiency_percent"), OpNode("div", <<2, 3>>), OpNode("mul", <<1, 4>>),
                InputNode("production_t"), OpNode("mul", <<5, 6>>),
                ConstNode(Scalar(Thousand)), OpNode("div", <<7, 8>>)>>)

SecondaryRule ==
  [nodes |-> <<InputNode("direct_co2_t"), InputNode("supplies"),
               FieldNode("origin"), ConstNode(Text(ThirdCountry)), OpNode("eq", <<3, 4>>),
               FieldNode("quantity_t"), FieldNode("see_tco2e_per_t"), OpNode("mul", <<6, 7>>),
               ConstNode(Scalar(0)), OpNode("select", <<5, 8, 9>>), OpNode("sum", <<2, 10>>),
               OpNode("add", <<1, 11>>), InputNode("production_t"), OpNode("div", <<12, 13>>)>>,
   outputs |-> <<14>>, proves |-> 1]

-----------------------------------------------------------------------------
(* What the routes are invoked with: check_inputs admits the declared      *)
(* inputs only (rules.json), and both potentials are in the embedded table.*)

Numbers(i, names) == \A name \in names : name \in DOMAIN i /\ Is(i[name], "scalar")

PrimaryInputs == {"direct_co2_t", "production_t", "weight_fraction_c2f6_cf4"}

IsSupply(s) ==
  /\ {"origin", "quantity_t", "see_tco2e_per_t"} \subseteq DOMAIN s
  /\ Is(s.origin, "text") /\ s.origin = Text(s.origin.text)
  /\ Is(s.quantity_t, "scalar") /\ Is(s.see_tco2e_per_t, "scalar")

SlopeInputs(i) ==
  Numbers(i, PrimaryInputs \cup {"anode_effect_minutes_per_cell_day", "slope_emission_factor_cf4"})

OvervoltageInputs(i) ==
  Numbers(i, PrimaryInputs \cup {"anode_effect_overvoltage_mv", "current_efficiency_percent",
                                 "overvoltage_coefficient_cf4"})

SecondaryInputs(i) ==
  /\ Numbers(i, {"direct_co2_t", "production_t"})
  /\ "supplies" \in DOMAIN i /\ Is(i.supplies, "list")
  /\ \A k \in DOMAIN i.supplies.list :
       Is(i.supplies.list[k], "record") /\ IsSupply(i.supplies.list[k].record)

ASSUME RoutesAssumption ==
  \A r \in Rules : \A i \in Invocations(r) :
    /\ r = SlopeRule => SlopeInputs(i)
    /\ r = OvervoltageRule => OvervoltageInputs(i)
    /\ r = SecondaryRule => SecondaryInputs(i)

ASSUME GwpAssumption ==
  /\ "gwp" \in DOMAIN TableFiles /\ TableFiles["gwp"].ok
  /\ LET rows == TableFiles["gwp"].val
     IN  /\ \A k \in DOMAIN rows : rows[k] = GwpRow(rows[k].substance.text, rows[k].gwp100.text)
         /\ \A substance \in {CF4, C2F6} :
              (\E k \in DOMAIN rows : rows[k].substance.text = substance) /\ GwpValue(substance).ok

-----------------------------------------------------------------------------

(* What the functions return for the invocation of the rule. *)
Typed ==
  CASE rule = SlopeRule -> SeePrimary(inputs, SlopeCf4(inputs))
    [] rule = OvervoltageRule -> SeePrimary(inputs, OvervoltageCf4(inputs))
    [] rule = SecondaryRule -> SeeSecondary(inputs)

(***************************************************************************)
(* The interpreter and the sector's functions, which nothing in the code   *)
(* ties together, agree on every aluminium route: on all four outputs and  *)
(* on the error, although the rule computes C2F6 first and CF4 four times, *)
(* reads each potential where it needs it and multiplies by it from the    *)
(* left.  Only the secondary route, which adds the direct emissions last,  *)
(* may fail where the function succeeds or the reverse.                    *)
(* (pfc.rs:78-141, boundaries.rs:42-97, rules.json:13-284)                 *)
(***************************************************************************)
AluminiumRoutesAgree ==
  (phase = "done" /\ rule \in {SlopeRule, OvervoltageRule, SecondaryRule}) =>
    \/ Typed.ok /\ outcome.ok /\ Typed.val = outputs /\ outcome.val = Last(outputs).scalar
    \/ ~Typed.ok /\ outcome = Typed
    \/ rule = SecondaryRule /\ ~(Typed.ok /\ outcome.ok)

=============================================================================
