-------------------------- MODULE InvocationProofs --------------------------
(***************************************************************************)
(* Theorems about Invocation, for every set of releases, documents and     *)
(* invocations that callers build.                                         *)
(***************************************************************************)
EXTENDS Invocation, WellFoundedInduction, TLAPS

-----------------------------------------------------------------------------
(* Collect.                                                                *)

LEMMA CollectOk ==
  ASSUME NEW results
  PROVE  Collect(results).ok <=> \A k \in DOMAIN results : results[k].ok
BY DEF Collect, Ok, Err

LEMMA CollectValues ==
  ASSUME NEW results, Collect(results).ok
  PROVE  Collect(results).val = [k \in DOMAIN results |-> results[k].val]
BY DEF Collect, Ok, Err

-----------------------------------------------------------------------------
(* What check_inputs admits has the declared shape.                        *)

LEMMA CheckedRecordConforms ==
  ASSUME NEW value, NEW fields, CheckRecord(value, fields).ok
  PROVE  /\ Is(value, "record")
         /\ DOMAIN value.record = DOMAIN fields
         /\ \A f \in DOMAIN fields : Is(value.record[f], fields[f])
<1> DEFINE field(f) == IF f \notin DOMAIN value.record THEN Err("MissingField")
                       ELSE IF Is(value.record[f], fields[f]) THEN Ok(value.record[f])
                       ELSE Err("TypeMismatch")
           checks == [f \in DOMAIN fields |-> field(f)]
<1>1. Is(value, "record") /\ DOMAIN value.record \subseteq DOMAIN fields /\ Collect(checks).ok
  BY DEF CheckRecord, Ok, Err
<1>2. \A f \in DOMAIN fields : field(f).ok
  <2> HIDE DEF field
  <2> QED BY <1>1, CollectOk
<1>3. \A f \in DOMAIN fields : f \in DOMAIN value.record /\ Is(value.record[f], fields[f])
  BY <1>2 DEF Ok, Err
<1> QED BY <1>1, <1>3

LEMMA CheckedInputConforms ==
  ASSUME NEW decl, NEW value, NEW types, CheckInput(decl, value, types).ok
  PROVE  Conforms(value, decl, types)
<1>1. Is(value, decl.type)
  BY DEF CheckInput, Ok, Err
<1>2. CASE decl.type # "list"
  BY <1>1, <1>2 DEF Conforms
<1>3. CASE decl.type = "list"
  <2> DEFINE items == [k \in DOMAIN value.list |-> CheckRecord(value.list[k], types[decl.of])]
  <2>1. Collect(items).ok
    BY <1>3 DEF CheckInput, Ok, Err
  <2>2. \A k \in DOMAIN value.list : CheckRecord(value.list[k], types[decl.of]).ok
    BY <2>1, CollectOk
  <2> QED BY <1>1, <1>3, <2>2, CheckedRecordConforms DEF Conforms
<1> QED BY <1>2, <1>3

LEMMA AdmittedConforms ==
  ASSUME NEW schema, NEW inv, Admit(schema, inv).ok
  PROVE  /\ inv.rule \in DOMAIN schema.rules
         /\ DOMAIN inv.inputs = DOMAIN schema.rules[inv.rule].inputs
         /\ \A n \in DOMAIN inv.inputs :
              Conforms(inv.inputs[n], schema.rules[inv.rule].inputs[n], schema.types)
<1> DEFINE decls == schema.rules[inv.rule].inputs
           input(n) == IF n \in DOMAIN inv.inputs
                         THEN CheckInput(decls[n], inv.inputs[n], schema.types)
                         ELSE Err("MissingInput")
           checks == [n \in DOMAIN decls |-> input(n)]
<1>1. inv.rule \in DOMAIN schema.rules
  BY DEF Admit, Err
<1>2. DOMAIN inv.inputs \subseteq DOMAIN decls /\ Collect(checks).ok
  BY <1>1 DEF Admit, CheckInputs, Err
<1>3. \A n \in DOMAIN decls : input(n).ok
  <2> HIDE DEF input
  <2> QED BY <1>2, CollectOk
<1>4. \A n \in DOMAIN decls :
        n \in DOMAIN inv.inputs /\ CheckInput(decls[n], inv.inputs[n], schema.types).ok
  BY <1>3 DEF Err
<1> QED BY <1>1, <1>2, <1>4, CheckedInputConforms

-----------------------------------------------------------------------------
(* What coercion builds passes check_inputs.                               *)

LEMMA CoercedFieldMatches ==
  ASSUME NEW json, NEW kind \in Kinds, CoerceField(json, kind).ok
  PROVE  Is(CoerceField(json, kind).val, kind)
<1>1. CASE kind = "scalar"
  <2>1. CoerceField(json, kind) = CoerceScalar(json)
    BY <1>1 DEF CoerceField
  <2>2. CoerceScalar(json).ok => CoerceScalar(json).val = Scalar(ParseWhole(json.string).val)
    BY DEF CoerceScalar, Ok, Err
  <2> QED BY <1>1, <2>1, <2>2 DEF Is, Scalar
<1>2. CASE kind = "text"
  BY <1>2 DEF CoerceField, Ok, Err, Is, Text
<1>3. CASE kind = "bool"
  BY <1>3 DEF CoerceField, Ok, Err, Is, Bool
<1> QED BY <1>1, <1>2, <1>3 DEF Kinds

LEMMA CoercedRecordChecks ==
  ASSUME NEW json, NEW fields, \A f \in DOMAIN fields : fields[f] \in Kinds,
         CoerceRecord(json, fields).ok
  PROVE  CheckRecord(CoerceRecord(json, fields).val, fields).ok
<1> DEFINE coerced(f) == IF f \in DOMAIN json.object THEN CoerceField(json.object[f], fields[f])
                         ELSE Err("MissingField")
           values == [f \in DOMAIN fields |-> coerced(f)]
           value == CoerceRecord(json, fields).val
           field(f) == IF f \notin DOMAIN value.record THEN Err("MissingField")
                       ELSE IF Is(value.record[f], fields[f]) THEN Ok(value.record[f])
                       ELSE Err("TypeMismatch")
<1>1. Collect(values).ok /\ value = Record(Collect(values).val)
  BY DEF CoerceRecord, Ok, Err
<1>2. value = Record([f \in DOMAIN fields |-> coerced(f).val])
  <2> HIDE DEF coerced
  <2> QED BY <1>1, CollectValues
<1>3. Is(value, "record") /\ value.record = [f \in DOMAIN fields |-> coerced(f).val]
  BY <1>2 DEF Record, Is
<1>4. \A f \in DOMAIN fields : coerced(f).ok
  <2> HIDE DEF coerced
  <2> QED BY <1>1, CollectOk
<1>5. \A f \in DOMAIN fields : Is(value.record[f], fields[f])
  <2> SUFFICES ASSUME NEW f \in DOMAIN fields PROVE Is(value.record[f], fields[f])
    OBVIOUS
  <2>1. coerced(f) = CoerceField(json.object[f], fields[f]) /\ CoerceField(json.object[f], fields[f]).ok
    BY <1>4 DEF Err
  <2> QED BY <1>3, <2>1, CoercedFieldMatches
<1>6. \A f \in DOMAIN fields : field(f).ok
  BY <1>3, <1>5 DEF Ok
<1>7. Collect([f \in DOMAIN fields |-> field(f)]).ok
  <2> HIDE DEF field
  <2> QED BY <1>6, CollectOk
<1> QED BY <1>3, <1>7 DEF CheckRecord

LEMMA CoercedListChecks ==
  ASSUME NEW json, NEW decl, NEW types, decl.type = "list",
         \A t \in DOMAIN types : \A f \in DOMAIN types[t] : types[t][f] \in Kinds,
         CoerceList(json, decl.of, types).ok
  PROVE  CheckInput(decl, CoerceList(json, decl.of, types).val, types).ok
<1> DEFINE item(k) == CoerceRecord(json.array[k], types[decl.of])
           items == [k \in DOMAIN json.array |-> item(k)]
           value == CoerceList(json, decl.of, types).val
<1>1. decl.of \in DOMAIN types /\ Collect(items).ok /\ value = List(Collect(items).val)
  BY DEF CoerceList, Ok, Err
<1>2. value = List([k \in DOMAIN json.array |-> item(k).val]) /\ \A k \in DOMAIN json.array : item(k).ok
  <2> HIDE DEF item
  <2> QED BY <1>1, CollectValues, CollectOk
<1>3. Is(value, "list") /\ value.list = [k \in DOMAIN json.array |-> item(k).val]
  BY <1>2 DEF List, Is
<1>4. \A k \in DOMAIN value.list : CheckRecord(value.list[k], types[decl.of]).ok
  BY <1>1, <1>2, <1>3, CoercedRecordChecks
<1>5. Collect([k \in DOMAIN value.list |-> CheckRecord(value.list[k], types[decl.of])]).ok
  BY <1>4, CollectOk
<1> QED BY <1>1, <1>3, <1>5 DEF CheckInput

LEMMA CoercedInputChecks ==
  ASSUME NEW json, NEW decl, NEW types, decl.type \in Kinds \cup {"list"},
         \A t \in DOMAIN types : \A f \in DOMAIN types[t] : types[t][f] \in Kinds,
         Coerce(json, decl, types).ok
  PROVE  CheckInput(decl, Coerce(json, decl, types).val, types).ok
<1>1. CASE decl.type = "list"
  BY <1>1, CoercedListChecks DEF Coerce
<1>2. CASE decl.type # "list"
  <2>1. Coerce(json, decl, types) = CoerceField(json, decl.type) /\ decl.type \in Kinds
    BY <1>2 DEF Coerce
  <2>2. Is(Coerce(json, decl, types).val, decl.type)
    BY <2>1, CoercedFieldMatches
  <2> QED BY <1>2, <2>2 DEF CheckInput, Ok
<1> QED BY <1>1, <1>2

LEMMA CoercedInputsCheck ==
  ASSUME NEW raw, NEW decls, NEW types,
         \A n \in DOMAIN decls : decls[n].type \in Kinds \cup {"list"},
         \A t \in DOMAIN types : \A f \in DOMAIN types[t] : types[t][f] \in Kinds,
         CoerceInputs(raw, decls, types).ok
  PROVE  CheckInputs(decls, CoerceInputs(raw, decls, types).val, types).ok
<1> DEFINE coerced(n) == IF n \in DOMAIN raw THEN Coerce(raw[n], decls[n], types) ELSE Err("MissingInput")
           values == [n \in DOMAIN decls |-> coerced(n)]
           inputs == CoerceInputs(raw, decls, types).val
           input(n) == IF n \in DOMAIN inputs THEN CheckInput(decls[n], inputs[n], types)
                       ELSE Err("MissingInput")
<1>1. Collect(values).ok /\ inputs = Collect(values).val
  BY DEF CoerceInputs, Err
<1>2. inputs = [n \in DOMAIN decls |-> coerced(n).val] /\ \A n \in DOMAIN decls : coerced(n).ok
  <2> HIDE DEF coerced, inputs
  <2> QED BY <1>1, CollectValues, CollectOk
<1>3. \A n \in DOMAIN decls : input(n).ok
  <2> SUFFICES ASSUME NEW n \in DOMAIN decls PROVE input(n).ok
    OBVIOUS
  <2>1. coerced(n) = Coerce(raw[n], decls[n], types) /\ Coerce(raw[n], decls[n], types).ok
    BY <1>2 DEF Err
  <2>2. CheckInput(decls[n], Coerce(raw[n], decls[n], types).val, types).ok
    BY <2>1, CoercedInputChecks
  <2>3. n \in DOMAIN inputs /\ inputs[n] = Coerce(raw[n], decls[n], types).val
    <3> HIDE DEF inputs
    <3> QED BY <1>2, <2>1
  <2> HIDE DEF inputs
  <2> QED BY <2>2, <2>3
<1>4. Collect([n \in DOMAIN decls |-> input(n)]).ok
  <2> HIDE DEF input
  <2> QED BY <1>3, CollectOk
<1>5. DOMAIN inputs \subseteq DOMAIN decls
  <2> HIDE DEF inputs
  <2> QED BY <1>2
<1> HIDE DEF inputs
<1>6. CheckInputs(decls, inputs, types).ok
  BY <1>4, <1>5 DEF CheckInputs
<1> QED BY <1>6 DEF inputs

LEMMA ParsedIsAdmittedBySameBundle ==
  ASSUME NEW b \in Bundles, NEW document, FromJson(Schemas[b], document).ok
  PROVE  Admit(Schemas[b], FromJson(Schemas[b], document).val).ok
<1> DEFINE schema == Schemas[b]
           raw == document.object.inputs.object
           rule == document.object.rule.string
           inputs == CoerceInputs(raw, schema.rules[rule].inputs, schema.types)
<1>1. rule \in DOMAIN schema.rules /\ inputs.ok
  BY DEF FromJson, Ok, Err
<1>2. FromJson(schema, document).val = [rule |-> rule, inputs |-> inputs.val]
  BY DEF FromJson, Ok, Err
<1>3. CheckInputs(schema.rules[rule].inputs, inputs.val, schema.types).ok
  BY <1>1, SchemasAssumption, CoercedInputsCheck
<1> HIDE DEF inputs
<1> QED BY <1>1, <1>2, <1>3 DEF Admit

-----------------------------------------------------------------------------
(* No error is an undeclared record type.  The error of a loop is that of  *)
(* its first failing turn, which exists since names and places are natural *)
(* numbers.                                                                *)

Resolved(r) == r.ok \/ r.err \in RuleErrors \ {"UnknownType"}

LEMMA ErrorNames ==
  {"TypeMismatch", "UnknownField", "MissingField", "UnknownInput", "MissingInput", "UnknownRule",
   "InvalidConstantScalar", "InvalidJson", "Invocation"} \subseteq RuleErrors \ {"UnknownType"}
BY DEF RuleErrors

LEMMA LeastNatural ==
  ASSUME NEW T \in SUBSET Nat, T # {}
  PROVE  \E k \in T : \A m \in T : k <= m
<1> DEFINE R == OpToRel(<, Nat)
<1>1. IsWellFoundedOn(R, Nat)
  BY NatLessThanWellFounded
<1>2. \A m, n \in Nat : m < n => <<m, n>> \in R
  BY DEF OpToRel
<1> HIDE DEF R
<1>3. PICK k \in T : \A m \in T : <<m, k>> \notin R
  BY <1>1, WFMin
<1>4. \A m \in T : ~(m < k)
  BY <1>2, <1>3
<1> QED BY <1>4

LEMMA CollectResolved ==
  ASSUME NEW results, DOMAIN results \subseteq Nat,
         \A k \in DOMAIN results : Resolved(results[k])
  PROVE  Resolved(Collect(results))
<1> DEFINE errors == {k \in DOMAIN results : ~results[k].ok}
           first == CHOOSE k \in errors : \A m \in errors : k <= m
<1>1. CASE errors = {}
  BY <1>1 DEF Collect, Resolved, Ok
<1>2. CASE errors # {}
  <2>1. first \in errors
    BY <1>2, LeastNatural
  <2>2. Collect(results) = Err(results[first].err)
    BY <1>2 DEF Collect
  <2> QED BY <2>1, <2>2, ErrorNames DEF Resolved, Err
<1> QED BY <1>1, <1>2

LEMMA CoercedFieldResolved ==
  ASSUME NEW json, NEW kind \in Kinds
  PROVE  Resolved(CoerceField(json, kind))
BY ErrorNames DEF CoerceField, CoerceScalar, Kinds, Resolved, Ok, Err

LEMMA CoercedRecordResolved ==
  ASSUME NEW json, NEW fields, DOMAIN fields \subseteq Nat,
         \A f \in DOMAIN fields : fields[f] \in Kinds
  PROVE  Resolved(CoerceRecord(json, fields))
<1> DEFINE coerced(f) == IF f \in DOMAIN json.object THEN CoerceField(json.object[f], fields[f])
                         ELSE Err("MissingField")
           values == [f \in DOMAIN fields |-> coerced(f)]
<1>1. \A f \in DOMAIN fields : Resolved(coerced(f))
  BY CoercedFieldResolved, ErrorNames DEF Resolved, Err
<1>2. Resolved(Collect(values))
  <2> HIDE DEF coerced
  <2> QED BY <1>1, CollectResolved
<1>3. CoerceRecord(json, fields) \in
        {Err("TypeMismatch"), Err("UnknownField"), Ok(Record(Collect(values).val)), Collect(values)}
  BY DEF CoerceRecord
<1> QED BY <1>2, <1>3, ErrorNames DEF Resolved, Ok, Err

LEMMA CoercedListResolved ==
  ASSUME NEW json, NEW types, NEW of \in DOMAIN types, DOMAIN types[of] \subseteq Nat,
         \A f \in DOMAIN types[of] : types[of][f] \in Kinds,
         Is(json, "array") => DOMAIN json.array \subseteq Nat
  PROVE  Resolved(CoerceList(json, of, types))
<1> DEFINE item(k) == CoerceRecord(json.array[k], types[of])
           items == [k \in DOMAIN json.array |-> item(k)]
<1>1. CASE ~Is(json, "array")
  BY <1>1, ErrorNames DEF CoerceList, Resolved, Err
<1>2. CASE Is(json, "array")
  <2>1. \A k \in DOMAIN json.array : Resolved(item(k))
    BY CoercedRecordResolved
  <2>2. Resolved(Collect(items))
    <3> HIDE DEF item
    <3> QED BY <1>2, <2>1, CollectResolved
  <2>3. CoerceList(json, of, types) \in {Ok(List(Collect(items).val)), Collect(items)}
    BY <1>2 DEF CoerceList
  <2> QED BY <2>2, <2>3 DEF Resolved, Ok
<1> QED BY <1>1, <1>2

(* Every list in the inputs of an invocation is a sequence, at least one    *)
(* indexed by natural numbers.                                             *)
Indexed(inputs) ==
  \A n \in DOMAIN inputs : Is(inputs[n], "list") => DOMAIN inputs[n].list \subseteq Nat

LEMMA CoercedInputResolved ==
  ASSUME NEW json, NEW decl, NEW types, decl.type \in Kinds \cup {"list"},
         decl.type = "list" => decl.of \in DOMAIN types,
         \A t \in DOMAIN types : DOMAIN types[t] \subseteq Nat /\ \A f \in DOMAIN types[t] : types[t][f] \in Kinds,
         Is(json, "array") => DOMAIN json.array \subseteq Nat
  PROVE  Resolved(Coerce(json, decl, types))
<1>1. CASE decl.type = "list"
  BY <1>1, CoercedListResolved DEF Coerce
<1>2. CASE decl.type # "list"
  BY <1>2, CoercedFieldResolved DEF Coerce
<1> QED BY <1>1, <1>2

LEMMA CoercedInputIndexed ==
  ASSUME NEW json, NEW decl, NEW types, decl.type \in Kinds \cup {"list"},
         Is(json, "array") => DOMAIN json.array \subseteq Nat,
         Coerce(json, decl, types).ok, Is(Coerce(json, decl, types).val, "list")
  PROVE  DOMAIN Coerce(json, decl, types).val.list \subseteq Nat
<1>1. CASE decl.type = "list"
  <2> DEFINE items == Collect([k \in DOMAIN json.array |-> CoerceRecord(json.array[k], types[decl.of])])
  <2>1. Is(json, "array") /\ items.ok /\ Coerce(json, decl, types).val = List(items.val)
    BY <1>1 DEF Coerce, CoerceList, Ok, Err
  <2>2. DOMAIN items.val = DOMAIN json.array
    BY <2>1, CollectValues
  <2> QED BY <2>1, <2>2 DEF List
<1>2. CASE decl.type # "list"
  <2>1. Coerce(json, decl, types) = CoerceField(json, decl.type) /\ decl.type \in Kinds
    BY <1>2 DEF Coerce
  <2>2. Coerce(json, decl, types).val \in
          {Scalar(ParseWhole(json.string).val), Text(json.string), Bool(json.bool)}
    BY <2>1 DEF CoerceField, CoerceScalar, Kinds, Ok, Err
  <2> QED BY <2>2 DEF Is, Scalar, Text, Bool
<1> QED BY <1>1, <1>2

LEMMA CheckedRecordResolved ==
  ASSUME NEW value, NEW fields, DOMAIN fields \subseteq Nat
  PROVE  Resolved(CheckRecord(value, fields))
<1> DEFINE field(f) == IF f \notin DOMAIN value.record THEN Err("MissingField")
                       ELSE IF Is(value.record[f], fields[f]) THEN Ok(value.record[f])
                       ELSE Err("TypeMismatch")
           checks == [f \in DOMAIN fields |-> field(f)]
<1>1. \A f \in DOMAIN fields : Resolved(field(f))
  BY ErrorNames DEF Resolved, Ok, Err
<1>2. Resolved(Collect(checks))
  <2> HIDE DEF field
  <2> QED BY <1>1, CollectResolved
<1>3. CheckRecord(value, fields) \in {Err("TypeMismatch"), Err("UnknownField"), Collect(checks)}
  BY DEF CheckRecord
<1> QED BY <1>2, <1>3, ErrorNames DEF Resolved, Err

LEMMA CheckedInputResolved ==
  ASSUME NEW decl, NEW value, NEW types,
         decl.type = "list" => decl.of \in DOMAIN types,
         \A t \in DOMAIN types : DOMAIN types[t] \subseteq Nat,
         Is(value, "list") => DOMAIN value.list \subseteq Nat
  PROVE  Resolved(CheckInput(decl, value, types))
<1>1. CASE ~Is(value, decl.type)
  BY <1>1, ErrorNames DEF CheckInput, Resolved, Err
<1>2. CASE Is(value, decl.type) /\ decl.type # "list"
  BY <1>2 DEF CheckInput, Resolved, Ok
<1>3. CASE Is(value, decl.type) /\ decl.type = "list"
  <2> DEFINE check(k) == CheckRecord(value.list[k], types[decl.of])
             checks == [k \in DOMAIN value.list |-> check(k)]
  <2>1. \A k \in DOMAIN value.list : Resolved(check(k))
    BY <1>3, CheckedRecordResolved
  <2>2. Resolved(Collect(checks))
    <3> HIDE DEF check
    <3> QED BY <1>3, <2>1, CollectResolved
  <2>3. CheckInput(decl, value, types) = Collect(checks)
    BY <1>3 DEF CheckInput
  <2> QED BY <2>2, <2>3
<1> QED BY <1>1, <1>2, <1>3


LEMMA CoercedInputsResolved ==
  ASSUME NEW raw, NEW decls, NEW types, DOMAIN decls \subseteq Nat,
         \A n \in DOMAIN decls : /\ decls[n].type \in Kinds \cup {"list"}
                                 /\ decls[n].type = "list" => decls[n].of \in DOMAIN types,
         \A t \in DOMAIN types : DOMAIN types[t] \subseteq Nat /\ \A f \in DOMAIN types[t] : types[t][f] \in Kinds,
         \A n \in DOMAIN raw : Is(raw[n], "array") => DOMAIN raw[n].array \subseteq Nat
  PROVE  /\ Resolved(CoerceInputs(raw, decls, types))
         /\ CoerceInputs(raw, decls, types).ok => Indexed(CoerceInputs(raw, decls, types).val)
<1> DEFINE coerced(n) == IF n \in DOMAIN raw THEN Coerce(raw[n], decls[n], types) ELSE Err("MissingInput")
           values == [n \in DOMAIN decls |-> coerced(n)]
           inputs == CoerceInputs(raw, decls, types)
<1>1. \A n \in DOMAIN decls : Resolved(coerced(n))
  BY CoercedInputResolved, ErrorNames DEF Resolved, Err
<1>2. Resolved(Collect(values))
  <2> HIDE DEF coerced
  <2> QED BY <1>1, CollectResolved
<1>3. inputs \in {Err("UnknownInput"), Collect(values)}
  BY DEF CoerceInputs
<1>4. ASSUME inputs.ok PROVE Indexed(inputs.val)
  <2>1. inputs = Collect(values)
    BY <1>3, <1>4 DEF Err
  <2>2. inputs.val = [n \in DOMAIN decls |-> coerced(n).val] /\ \A n \in DOMAIN decls : coerced(n).ok
    <3> HIDE DEF coerced, inputs
    <3> QED BY <1>4, <2>1, CollectValues, CollectOk
  <2>3. ASSUME NEW n \in DOMAIN decls, Is(coerced(n).val, "list")
        PROVE  DOMAIN coerced(n).val.list \subseteq Nat
    <3>1. n \in DOMAIN raw /\ coerced(n) = Coerce(raw[n], decls[n], types)
      BY <2>2 DEF Err
    <3>2. Coerce(raw[n], decls[n], types).ok /\ Is(Coerce(raw[n], decls[n], types).val, "list")
      BY <2>2, <2>3, <3>1
    <3> HIDE DEF coerced
    <3> QED BY <3>1, <3>2, CoercedInputIndexed
  <2> HIDE DEF inputs, coerced
  <2> QED BY <2>2, <2>3 DEF Indexed
<1> HIDE DEF inputs, values
<1>5. Resolved(inputs)
  BY <1>2, <1>3, ErrorNames DEF Resolved, Err
<1> QED BY <1>4, <1>5 DEF inputs

LEMMA CheckedInputsResolved ==
  ASSUME NEW decls, NEW inputs, NEW types, DOMAIN decls \subseteq Nat, Indexed(inputs),
         \A n \in DOMAIN decls : decls[n].type = "list" => decls[n].of \in DOMAIN types,
         \A t \in DOMAIN types : DOMAIN types[t] \subseteq Nat
  PROVE  Resolved(CheckInputs(decls, inputs, types))
<1> DEFINE check(n) == IF n \in DOMAIN inputs THEN CheckInput(decls[n], inputs[n], types) ELSE Err("MissingInput")
           checks == [n \in DOMAIN decls |-> check(n)]
<1>1. \A n \in DOMAIN decls : Resolved(check(n))
  BY CheckedInputResolved, ErrorNames DEF Indexed, Resolved, Err
<1>2. Resolved(Collect(checks))
  <2> HIDE DEF check
  <2> QED BY <1>1, CollectResolved
<1>3. CheckInputs(decls, inputs, types) \in {Err("UnknownInput"), Collect(checks)}
  BY DEF CheckInputs
<1> QED BY <1>2, <1>3, ErrorNames DEF Resolved, Err

(* What validation and the assumption on schemas say of one rule. *)
LEMMA RuleResolved ==
  ASSUME NEW b \in Bundles, Validated(Schemas[b]), NEW r \in DOMAIN Schemas[b].rules
  PROVE  LET decls == Schemas[b].rules[r].inputs
             types == Schemas[b].types
         IN  /\ DOMAIN decls \subseteq Nat
             /\ \A n \in DOMAIN decls : /\ decls[n].type \in Kinds \cup {"list"}
                                         /\ decls[n].type = "list" => decls[n].of \in DOMAIN types
             /\ \A t \in DOMAIN types :
                  DOMAIN types[t] \subseteq Nat /\ \A f \in DOMAIN types[t] : types[t][f] \in Kinds
BY SchemasAssumption DEF Validated

LEMMA RuleInputsResolved ==
  ASSUME NEW b \in Bundles, Validated(Schemas[b]), NEW r \in DOMAIN Schemas[b].rules, NEW raw,
         \A n \in DOMAIN raw : Is(raw[n], "array") => DOMAIN raw[n].array \subseteq Nat
  PROVE  LET coerced == CoerceInputs(raw, Schemas[b].rules[r].inputs, Schemas[b].types)
         IN  Resolved(coerced) /\ (coerced.ok => Indexed(coerced.val))
<1>1. /\ DOMAIN Schemas[b].rules[r].inputs \subseteq Nat
      /\ \A t \in DOMAIN Schemas[b].types :
           DOMAIN Schemas[b].types[t] \subseteq Nat /\ \A f \in DOMAIN Schemas[b].types[t] : Schemas[b].types[t][f] \in Kinds
  BY RuleResolved
<1>2. \A n \in DOMAIN Schemas[b].rules[r].inputs :
        /\ Schemas[b].rules[r].inputs[n].type \in Kinds \cup {"list"}
        /\ Schemas[b].rules[r].inputs[n].type = "list" => Schemas[b].rules[r].inputs[n].of \in DOMAIN Schemas[b].types
  BY SchemasAssumption DEF Validated
<1> QED BY <1>1, <1>2, CoercedInputsResolved

LEMMA ParsedResolved ==
  ASSUME NEW b \in Bundles, Validated(Schemas[b]), NEW document \in Documents
  PROVE  LET parsed == FromJson(Schemas[b], document)
         IN  Resolved(parsed) /\ (parsed.ok => Indexed(parsed.val.inputs))
<1> DEFINE schema == Schemas[b]
           raw == document.object.inputs.object
           rule == document.object.rule.string
           inputs == CoerceInputs(raw, schema.rules[rule].inputs, schema.types)
           parsed == FromJson(schema, document)
           reached == /\ Is(document, "object") /\ Has(document.object, "inputs", "object")
                      /\ rule \in DOMAIN schema.rules
<1>1. \/ parsed \in {Err("InvalidJson"), Err("Invocation"), Err("UnknownRule")}
      \/ reached /\ inputs.ok /\ parsed = Ok([rule |-> rule, inputs |-> inputs.val])
      \/ reached /\ ~inputs.ok /\ parsed = inputs
  BY DEF FromJson
<1>2. ASSUME reached PROVE Resolved(inputs) /\ (inputs.ok => Indexed(inputs.val))
  <2>1. \A n \in DOMAIN raw : Is(raw[n], "array") => DOMAIN raw[n].array \subseteq Nat
    BY <1>2, ListsAssumption
  <2>2. rule \in DOMAIN Schemas[b].rules
    BY <1>2
  <2> HIDE DEF raw, rule
  <2>3. /\ Resolved(CoerceInputs(raw, Schemas[b].rules[rule].inputs, Schemas[b].types))
        /\ CoerceInputs(raw, Schemas[b].rules[rule].inputs, Schemas[b].types).ok
             => Indexed(CoerceInputs(raw, Schemas[b].rules[rule].inputs, Schemas[b].types).val)
    BY <2>1, <2>2, RuleInputsResolved
  <2> QED BY <2>3
<1> HIDE DEF parsed, inputs, reached
<1>3. Resolved(parsed) /\ (parsed.ok => Indexed(parsed.val.inputs))
  BY <1>1, <1>2, ErrorNames DEF Resolved, Ok, Err
<1> QED BY <1>3 DEF parsed

LEMMA AdmittedResolved ==
  ASSUME NEW b \in Bundles, Validated(Schemas[b]), NEW inv, Indexed(inv.inputs)
  PROVE  Resolved(Admit(Schemas[b], inv))
<1>1. CASE inv.rule \notin DOMAIN Schemas[b].rules
  BY <1>1, ErrorNames DEF Admit, Resolved, Err
<1>2. CASE inv.rule \in DOMAIN Schemas[b].rules
  BY <1>2, RuleResolved, CheckedInputsResolved DEF Admit
<1> QED BY <1>1, <1>2

-----------------------------------------------------------------------------
(* The specification.  Inv says of the last evaluation, and of the bundles *)
(* that have parsed the invocation at hand, that the check accepts it.     *)

Inv ==
  /\ bundle \in Bundles
  /\ \A b \in parsers : b \in Bundles /\ Admit(Schemas[b], invocation).ok
  /\ result.call = "evaluate" => result = Returned("evaluate", Admit(Schemas[bundle], invocation))

LEMMA InvInductive == Spec => []Inv
<1>1. Init => Inv
  BY DEF Init, Inv
<1>2. Inv /\ [Next]_vars => Inv'
  <2> SUFFICES ASSUME Inv, [Next]_vars PROVE Inv'
    OBVIOUS
  <2>1. ASSUME NEW b \in Bundles, FromFiles(b) PROVE Inv'
    BY <2>1 DEF FromFiles, Inv
  <2>2. ASSUME NEW document \in Documents, ParseInvocation(document) PROVE Inv'
    <3> DEFINE parsed == FromJson(Schemas[bundle], document)
    <3>1. result'.call # "evaluate" /\ bundle' = bundle
      BY <2>2 DEF ParseInvocation, Returned
    <3>2. CASE parsed.ok
      <4>1. invocation' = parsed.val /\ parsers' = {bundle}
        BY <2>2, <3>2 DEF ParseInvocation
      <4>2. Admit(Schemas[bundle], parsed.val).ok
        BY <3>2, ParsedIsAdmittedBySameBundle DEF Inv
      <4> QED BY <3>1, <4>1, <4>2 DEF Inv
    <3>3. CASE ~parsed.ok
      BY <2>2, <3>1, <3>3 DEF ParseInvocation, Inv
    <3> QED BY <3>2, <3>3
  <2>3. ASSUME NEW inv \in Built, Build(inv) PROVE Inv'
    BY <2>3 DEF Build, Inv
  <2>4. CASE Evaluate
    BY <2>4 DEF Evaluate, Inv
  <2>5. CASE UNCHANGED vars
    BY <2>5 DEF vars, Inv
  <2> QED BY <2>1, <2>2, <2>3, <2>4, <2>5 DEF Next
<1> QED BY <1>1, <1>2, PTL DEF Spec

(* What reaches a rule has exactly the declared inputs, of the declared    *)
(* types, whoever built the invocation and whichever release parsed it.    *)
THEOREM InvocationAdmittedIsWellTyped == Spec => []AdmittedIsWellTyped
<1>1. Inv => AdmittedIsWellTyped
  BY AdmittedConforms DEF Inv, AdmittedIsWellTyped, Returned
<1> QED BY <1>1, InvInductive, PTL

(* What a bundle has parsed it admits, for any schema, document and        *)
(* sequence of calls.                                                      *)
THEOREM InvocationParsedIsAdmitted == Spec => []ParsedIsAdmitted
<1>1. Inv => ParsedIsAdmitted
  BY DEF Inv, ParsedIsAdmitted, Returned
<1> QED BY <1>1, InvInductive, PTL

(* Of the calls so far: the bundle in use was validated, every list is a   *)
(* sequence, and the last call did not meet an undeclared record type.     *)
ResolvedInv ==
  /\ bundle \in Bundles /\ Validated(Schemas[bundle])
  /\ Indexed(invocation.inputs)
  /\ RecordTypesResolve

LEMMA ResolvedInductive == Spec => []ResolvedInv
<1>1. Init => ResolvedInv
  BY ListsAssumption DEF Init, ResolvedInv, Indexed, RecordTypesResolve
<1>2. ResolvedInv /\ [Next]_vars => ResolvedInv'
  <2> SUFFICES ASSUME ResolvedInv, [Next]_vars PROVE ResolvedInv'
    OBVIOUS
  <2>1. ASSUME NEW b \in Bundles, FromFiles(b) PROVE ResolvedInv'
    BY <2>1 DEF FromFiles, ResolvedInv, RecordTypesResolve
  <2>2. ASSUME NEW document \in Documents, ParseInvocation(document) PROVE ResolvedInv'
    <3> DEFINE parsed == FromJson(Schemas[bundle], document)
    <3>1. Resolved(parsed) /\ (parsed.ok => Indexed(parsed.val.inputs))
      BY ParsedResolved DEF ResolvedInv
    <3>2. /\ result' = Returned("parse_invocation", parsed)
          /\ invocation' = IF parsed.ok THEN parsed.val ELSE invocation
          /\ bundle' = bundle
      BY <2>2 DEF ParseInvocation
    <3> HIDE DEF parsed
    <3>3. RecordTypesResolve'
      BY <3>1, <3>2 DEF RecordTypesResolve, Returned, Resolved
    <3>4. Indexed(invocation.inputs)'
      BY <3>1, <3>2 DEF ResolvedInv, Indexed
    <3> QED BY <3>2, <3>3, <3>4 DEF ResolvedInv
  <2>3. ASSUME NEW inv \in Built, Build(inv) PROVE ResolvedInv'
    BY <2>3, ListsAssumption DEF Build, ResolvedInv, Indexed, RecordTypesResolve
  <2>4. CASE Evaluate
    <3>1. Resolved(Admit(Schemas[bundle], invocation))
      BY AdmittedResolved DEF ResolvedInv
    <3>2. RecordTypesResolve'
      BY <2>4, <3>1 DEF Evaluate, RecordTypesResolve, Returned, Resolved
    <3> QED BY <2>4, <3>2 DEF Evaluate, ResolvedInv, Indexed
  <2>5. CASE UNCHANGED vars
    BY <2>5 DEF vars, ResolvedInv, Indexed, RecordTypesResolve
  <2> QED BY <2>1, <2>2, <2>3, <2>4, <2>5 DEF Next
<1> QED BY <1>1, <1>2, PTL DEF Spec

(* Validation at load resolves every record type: neither parsing nor      *)
(* evaluating ever fails on an undeclared one, in any bundle that loads.   *)
THEOREM InvocationRecordTypesResolve == Spec => []RecordTypesResolve
<1>1. ResolvedInv => RecordTypesResolve
  BY DEF ResolvedInv
<1> QED BY <1>1, ResolvedInductive, PTL

-----------------------------------------------------------------------------
(* Types: whatever is parsed or built, its scalars are Fixed, and an error *)
(* is one of RuleError.                                                    *)

FixedField(v) == Is(v, "scalar") => v.scalar \in Range128

LEMMA ParsedInRange ==
  ASSUME NEW text, ParseWhole(text).ok
  PROVE  ParseWhole(text).val \in Range128
<1> DEFINE whole == Written(text)[Len(text)] * SCALE
<1>1. ParseWhole(text) \in {Checked(whole), Err("InvalidDecimal")}
  BY DEF ParseWhole
<1> HIDE DEF whole
<1> QED BY <1>1 DEF Checked, Ok, Err

LEMMA CoercedFieldInRange ==
  ASSUME NEW json, NEW kind \in Kinds, CoerceField(json, kind).ok
  PROVE  FixedField(CoerceField(json, kind).val) /\ ~Is(CoerceField(json, kind).val, "list")
<1>1. CASE kind = "scalar"
  <2>1. CoerceField(json, kind) = CoerceScalar(json)
    BY <1>1 DEF CoerceField
  <2>2. /\ CoerceScalar(json).val = Scalar(ParseWhole(json.string).val)
        /\ ParseWhole(json.string).ok
    BY <2>1 DEF CoerceScalar, Ok, Err
  <2>3. ParseWhole(json.string).val \in Range128
    BY <2>2, ParsedInRange
  <2> QED BY <2>1, <2>2, <2>3 DEF FixedField, Is, Scalar
<1>2. CASE kind = "text"
  BY <1>2 DEF CoerceField, Ok, Err, FixedField, Is, Text
<1>3. CASE kind = "bool"
  BY <1>3 DEF CoerceField, Ok, Err, FixedField, Is, Bool
<1> QED BY <1>1, <1>2, <1>3 DEF Kinds

LEMMA CoercedRecordInRange ==
  ASSUME NEW json, NEW fields, \A f \in DOMAIN fields : fields[f] \in Kinds,
         CoerceRecord(json, fields).ok
  PROVE  \A f \in DOMAIN CoerceRecord(json, fields).val.record :
           FixedField(CoerceRecord(json, fields).val.record[f])
<1> DEFINE coerced(f) == IF f \in DOMAIN json.object THEN CoerceField(json.object[f], fields[f])
                         ELSE Err("MissingField")
           values == [f \in DOMAIN fields |-> coerced(f)]
           value == CoerceRecord(json, fields).val
<1>1. Collect(values).ok /\ value = Record(Collect(values).val)
  BY DEF CoerceRecord, Ok, Err
<1>2. value = Record([f \in DOMAIN fields |-> coerced(f).val]) /\ \A f \in DOMAIN fields : coerced(f).ok
  <2> HIDE DEF coerced
  <2> QED BY <1>1, CollectValues, CollectOk
<1>3. value.record = [f \in DOMAIN fields |-> coerced(f).val]
  BY <1>2 DEF Record
<1>4. \A f \in DOMAIN fields : FixedField(coerced(f).val)
  <2> SUFFICES ASSUME NEW f \in DOMAIN fields PROVE FixedField(coerced(f).val)
    OBVIOUS
  <2>1. coerced(f) = CoerceField(json.object[f], fields[f]) /\ CoerceField(json.object[f], fields[f]).ok
    BY <1>2 DEF Err
  <2> QED BY <2>1, CoercedFieldInRange
<1> HIDE DEF coerced, value
<1>5. \A f \in DOMAIN value.record : FixedField(value.record[f])
  BY <1>3, <1>4
<1> QED BY <1>5 DEF value

LEMMA CoercedInputInRange ==
  ASSUME NEW json, NEW decl, NEW types, decl.type \in Kinds \cup {"list"},
         \A t \in DOMAIN types : \A f \in DOMAIN types[t] : types[t][f] \in Kinds,
         Coerce(json, decl, types).ok
  PROVE  InRange(Coerce(json, decl, types).val)
<1>1. CASE decl.type # "list"
  <2>1. Coerce(json, decl, types) = CoerceField(json, decl.type) /\ decl.type \in Kinds
    BY <1>1 DEF Coerce
  <2> QED BY <2>1, CoercedFieldInRange DEF InRange, FixedField
<1>2. CASE decl.type = "list"
  <2> DEFINE item(k) == CoerceRecord(json.array[k], types[decl.of])
             items == [k \in DOMAIN json.array |-> item(k)]
             value == Coerce(json, decl, types).val
  <2>1. decl.of \in DOMAIN types /\ Collect(items).ok /\ value = List(Collect(items).val)
    BY <1>2 DEF Coerce, CoerceList, Ok, Err
  <2>2. value = List([k \in DOMAIN json.array |-> item(k).val]) /\ \A k \in DOMAIN json.array : item(k).ok
    <3> HIDE DEF item
    <3> QED BY <2>1, CollectValues, CollectOk
  <2>3. \A k \in DOMAIN json.array : \A f \in DOMAIN item(k).val.record : FixedField(item(k).val.record[f])
    BY <2>1, <2>2, CoercedRecordInRange
  <2> HIDE DEF item
  <2>4. InRange(List([k \in DOMAIN json.array |-> item(k).val]))
    BY <2>3 DEF InRange, List, Is, FixedField
  <2> QED BY <2>2, <2>4
<1> QED BY <1>1, <1>2

LEMMA CoercedInputsInRange ==
  ASSUME NEW raw, NEW decls, NEW types,
         \A n \in DOMAIN decls : decls[n].type \in Kinds \cup {"list"},
         \A t \in DOMAIN types : \A f \in DOMAIN types[t] : types[t][f] \in Kinds,
         CoerceInputs(raw, decls, types).ok
  PROVE  \A n \in DOMAIN CoerceInputs(raw, decls, types).val : InRange(CoerceInputs(raw, decls, types).val[n])
<1> DEFINE coerced(n) == IF n \in DOMAIN raw THEN Coerce(raw[n], decls[n], types) ELSE Err("MissingInput")
           values == [n \in DOMAIN decls |-> coerced(n)]
           inputs == CoerceInputs(raw, decls, types).val
<1>1. Collect(values).ok /\ inputs = Collect(values).val
  BY DEF CoerceInputs, Err
<1>2. inputs = [n \in DOMAIN decls |-> coerced(n).val] /\ \A n \in DOMAIN decls : coerced(n).ok
  <2> HIDE DEF coerced, inputs
  <2> QED BY <1>1, CollectValues, CollectOk
<1>3. \A n \in DOMAIN decls : InRange(coerced(n).val)
  <2> SUFFICES ASSUME NEW n \in DOMAIN decls PROVE InRange(coerced(n).val)
    OBVIOUS
  <2>1. coerced(n) = Coerce(raw[n], decls[n], types) /\ Coerce(raw[n], decls[n], types).ok
    BY <1>2 DEF Err
  <2> QED BY <2>1, CoercedInputInRange
<1> HIDE DEF coerced, inputs
<1>4. \A n \in DOMAIN inputs : InRange(inputs[n])
  BY <1>2, <1>3
<1> QED BY <1>4 DEF inputs

LEMMA ParsedInputsInRange ==
  ASSUME NEW b \in Bundles, NEW document, FromJson(Schemas[b], document).ok
  PROVE  \A n \in DOMAIN FromJson(Schemas[b], document).val.inputs :
           InRange(FromJson(Schemas[b], document).val.inputs[n])
<1> DEFINE schema == Schemas[b]
           raw == document.object.inputs.object
           rule == document.object.rule.string
           inputs == CoerceInputs(raw, schema.rules[rule].inputs, schema.types)
<1>1. rule \in DOMAIN schema.rules /\ inputs.ok
  BY DEF FromJson, Ok, Err
<1>2. FromJson(schema, document).val = [rule |-> rule, inputs |-> inputs.val]
  BY DEF FromJson, Ok, Err
<1>3. \A n \in DOMAIN inputs.val : InRange(inputs.val[n])
  BY <1>1, SchemasAssumption, CoercedInputsInRange
<1> HIDE DEF inputs
<1> QED BY <1>2, <1>3

LEMMA ReturnedType ==
  ASSUME NEW call, NEW r, Resolved(r)
  PROVE  Returned(call, r).error \in RuleErrors \cup {"none"}
BY DEF Returned, Resolved

(* A bundle in use is validated, every scalar of an invocation is in range *)
(* whether it was parsed or built, and a call fails only with a RuleError. *)
THEOREM InvocationTypeCorrect == Spec => []TypeOK
<1>1. Init => TypeOK
  BY BuiltAssumption DEF Init, TypeOK
<1>2. TypeOK /\ ResolvedInv /\ [Next]_vars => TypeOK'
  <2> SUFFICES ASSUME TypeOK, ResolvedInv, [Next]_vars PROVE TypeOK'
    OBVIOUS
  <2>1. ASSUME NEW b \in Bundles, FromFiles(b) PROVE TypeOK'
    BY <2>1 DEF FromFiles, TypeOK
  <2>2. ASSUME NEW document \in Documents, ParseInvocation(document) PROVE TypeOK'
    <3> DEFINE parsed == FromJson(Schemas[bundle], document)
    <3>1. /\ result' = Returned("parse_invocation", parsed)
          /\ invocation' = IF parsed.ok THEN parsed.val ELSE invocation
          /\ parsers' = IF parsed.ok THEN {bundle} ELSE parsers
          /\ bundle' = bundle
      BY <2>2 DEF ParseInvocation
    <3>2. Resolved(parsed)
      BY ParsedResolved DEF ResolvedInv
    <3>3. parsed.ok => \A n \in DOMAIN parsed.val.inputs : InRange(parsed.val.inputs[n])
      BY ParsedInputsInRange DEF TypeOK
    <3> HIDE DEF parsed
    <3>4. result'.error \in RuleErrors \cup {"none"} /\ result'.call = "parse_invocation"
      BY <3>1, <3>2, ReturnedType DEF Returned
    <3> QED BY <3>1, <3>3, <3>4 DEF TypeOK
  <2>3. ASSUME NEW inv \in Built, Build(inv) PROVE TypeOK'
    BY <2>3, BuiltAssumption DEF Build, TypeOK
  <2>4. CASE Evaluate
    <3>1. Resolved(Admit(Schemas[bundle], invocation))
      BY AdmittedResolved DEF ResolvedInv
    <3>2. result'.error \in RuleErrors \cup {"none"} /\ result'.call = "evaluate"
      BY <2>4, <3>1, ReturnedType DEF Evaluate, Returned
    <3> QED BY <2>4, <3>2 DEF Evaluate, TypeOK
  <2>5. CASE UNCHANGED vars
    BY <2>5 DEF vars, TypeOK
  <2> QED BY <2>1, <2>2, <2>3, <2>4, <2>5 DEF Next
<1> QED BY <1>1, <1>2, ResolvedInductive, PTL DEF Spec

=============================================================================
