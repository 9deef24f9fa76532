----------------------------- MODULE Invocation -----------------------------
(***************************************************************************)
(* Typed requests (kaimeter-interpreter): a RuleBundle parses an           *)
(* invocation from JSON (Invocation::from_json, Value::coerce) and checks  *)
(* the one it evaluates (check_inputs).  The two are written separately.   *)
(* An invocation outlives the call that parsed it: it may be evaluated by  *)
(* the bundle of another release, and a caller may build one itself.       *)
(*                                                                         *)
(* Names are natural numbers, in byte order: a BTreeMap is a function that *)
(* is iterated by increasing name.  A JSON value is a record with one      *)
(* field, "string", "bool", "array", "object" or another kind.             *)
(***************************************************************************)
EXTENDS Values

CONSTANTS
  Bundles,    (* releases                                               *)
  Schemas,    (* release |-> its rules.json                             *)
  Documents,  (* JSON texts, as values; [malformed |-> 0] is no JSON    *)
  Built       (* invocations a caller builds: [rule, inputs]            *)

(* rules.json is [tag, types, rules]: types maps a name to fields with     *)
(* kinds, rules maps a name to [sound, inputs].  An input is [type], a     *)
(* list also has the record type `of`.  `sound` is the verdict of          *)
(* validate_proves and Expr::validate, which module Evaluator models.      *)
Kinds == {"scalar", "text", "bool"}

ASSUME SchemasAssumption ==
  \A b \in Bundles :
    LET schema == Schemas[b]
    IN  /\ DOMAIN schema.types \subseteq Nat
        /\ \A t \in DOMAIN schema.types :
             /\ DOMAIN schema.types[t] \subseteq Nat
             /\ \A f \in DOMAIN schema.types[t] : schema.types[t][f] \in Kinds
        /\ \A r \in DOMAIN schema.rules :
             /\ DOMAIN schema.rules[r].inputs \subseteq Nat
             /\ \A n \in DOMAIN schema.rules[r].inputs :
                  schema.rules[r].inputs[n].type \in Kinds \cup {"list"}

VARIABLES
  bundle,      (* the RuleBundle in use                                  *)
  invocation,  (* the Invocation at hand                                 *)
  parsers,     (* the bundles that have parsed it: none or one           *)
  result       (* the last call, whether it returned Ok, and its error    *)

vars == <<bundle, invocation, parsers, result>>

-----------------------------------------------------------------------------

(* A loop that leaves at the first error: all the values, or that error. *)
Collect(results) ==
  LET errors == {k \in DOMAIN results : ~results[k].ok}
  IN  IF errors = {} THEN Ok([k \in DOMAIN results |-> results[k].val])
      ELSE Err(results[CHOOSE k \in errors : \A m \in errors : k <= m].err)

(* Mutant: list inputs are not checked against the record types. *)
ValidatedButLists(schema) ==
  /\ schema.tag = "kaimeter-rules-v1"
  /\ schema.rules # <<>>
  /\ \A r \in DOMAIN schema.rules : schema.rules[r].sound

(* RulesSchema::validate; validate_inputs is the last conjunct. *)
Validated(schema) ==
  /\ schema.tag = "kaimeter-rules-v1"
  /\ schema.rules # <<>>
  /\ \A r \in DOMAIN schema.rules :
       /\ schema.rules[r].sound
       /\ \A n \in DOMAIN schema.rules[r].inputs :
            schema.rules[r].inputs[n].type = "list" =>
              schema.rules[r].inputs[n].of \in DOMAIN schema.types

-----------------------------------------------------------------------------
(* Coercion from JSON.                                                     *)

CoerceScalar(json) ==
  IF ~Is(json, "string") THEN Err("TypeMismatch")
  ELSE LET x == ParseWhole(json.string)
       IN  IF x.ok THEN Ok(Scalar(x.val)) ELSE Err("InvalidConstantScalar")

(* A scalar, text or boolean, as an input or as a field. *)
CoerceField(json, kind) ==
  CASE kind = "scalar" -> CoerceScalar(json)
    [] kind = "text" -> IF Is(json, "string") THEN Ok(Text(json.string)) ELSE Err("TypeMismatch")
    [] kind = "bool" -> IF Is(json, "bool") THEN Ok(Bool(json.bool)) ELSE Err("TypeMismatch")

(* Mutant: an absent field is skipped. *)
CoerceRecordPresent(json, fields) ==
  IF ~Is(json, "object") THEN Err("TypeMismatch")
  ELSE IF ~(DOMAIN json.object \subseteq DOMAIN fields) THEN Err("UnknownField")
  ELSE LET values == Collect([f \in DOMAIN json.object |-> CoerceField(json.object[f], fields[f])])
       IN  IF values.ok THEN Ok(Record(values.val)) ELSE values

CoerceRecord(json, fields) ==
  IF ~Is(json, "object") THEN Err("TypeMismatch")
  ELSE IF ~(DOMAIN json.object \subseteq DOMAIN fields) THEN Err("UnknownField")
  ELSE LET values == Collect([f \in DOMAIN fields |->
                       IF f \in DOMAIN json.object THEN CoerceField(json.object[f], fields[f])
                       ELSE Err("MissingField")])
       IN  IF values.ok THEN Ok(Record(values.val)) ELSE values

CoerceList(json, of, types) ==
  IF ~Is(json, "array") THEN Err("TypeMismatch")
  ELSE IF of \notin DOMAIN types THEN Err("UnknownType")
  ELSE LET items == Collect([k \in DOMAIN json.array |-> CoerceRecord(json.array[k], types[of])])
       IN  IF items.ok THEN Ok(List(items.val)) ELSE items

Coerce(json, decl, types) ==
  IF decl.type = "list" THEN CoerceList(json, decl.of, types) ELSE CoerceField(json, decl.type)

CoerceInputs(raw, decls, types) ==
  IF ~(DOMAIN raw \subseteq DOMAIN decls) THEN Err("UnknownInput")
  ELSE Collect([n \in DOMAIN decls |->
         IF n \in DOMAIN raw THEN Coerce(raw[n], decls[n], types) ELSE Err("MissingInput")])

Has(members, name, kind) == name \in DOMAIN members /\ Is(members[name], kind)

(* Every scalar of a value is a Fixed. *)
InRange(v) ==
  /\ Is(v, "scalar") => v.scalar \in Range128
  /\ Is(v, "list") =>
       \A k \in DOMAIN v.list : Is(v.list[k], "record") =>
         \A f \in DOMAIN v.list[k].record :
           Is(v.list[k].record[f], "scalar") => v.list[k].record[f].scalar \in Range128

(* What a caller builds is made of Values. *)
ASSUME BuiltAssumption ==
  \A inv \in Built : \A n \in DOMAIN inv.inputs : InRange(inv.inputs[n])

(* Lists are sequences, in a document and in an invocation. *)
ASSUME ListsAssumption ==
  /\ \A document \in Documents :
       Is(document, "object") /\ Has(document.object, "inputs", "object") =>
         \A n \in DOMAIN document.object.inputs.object :
           Is(document.object.inputs.object[n], "array") =>
             DOMAIN document.object.inputs.object[n].array \subseteq Nat
  /\ \A inv \in Built : \A n \in DOMAIN inv.inputs :
       Is(inv.inputs[n], "list") => DOMAIN inv.inputs[n].list \subseteq Nat

(* Invocation::from_json.  A well-formed context is one decoded value; it *)
(* is passed on to the journal (module Guest).                             *)
FromJson(schema, document) ==
  IF Is(document, "malformed") THEN Err("InvalidJson")
  ELSE IF ~Is(document, "object") \/ ~Has(document.object, "rule", "string") THEN Err("Invocation")
  ELSE LET members == document.object
           rule == members.rule.string
       IN  IF rule \notin DOMAIN schema.rules THEN Err("UnknownRule")
           ELSE IF ~Has(members, "context", "context") \/ ~Has(members, "inputs", "object")
             THEN Err("Invocation")
           ELSE LET inputs == CoerceInputs(members.inputs.object, schema.rules[rule].inputs, schema.types)
                IN  IF inputs.ok THEN Ok([rule |-> rule, inputs |-> inputs.val]) ELSE inputs

-----------------------------------------------------------------------------
(* Checks before an evaluation.                                            *)

CheckRecord(value, fields) ==
  IF ~Is(value, "record") THEN Err("TypeMismatch")
  ELSE IF ~(DOMAIN value.record \subseteq DOMAIN fields) THEN Err("UnknownField")
  ELSE Collect([f \in DOMAIN fields |->
         IF f \notin DOMAIN value.record THEN Err("MissingField")
         ELSE IF Is(value.record[f], fields[f]) THEN Ok(value.record[f]) ELSE Err("TypeMismatch")])

CheckInput(decl, value, types) ==
  IF ~Is(value, decl.type) THEN Err("TypeMismatch")
  ELSE IF decl.type # "list" THEN Ok(value)
  ELSE IF decl.of \notin DOMAIN types THEN Err("UnknownType")
  ELSE Collect([k \in DOMAIN value.list |-> CheckRecord(value.list[k], types[decl.of])])

(* Mutant: the inputs the rule does not declare are not refused. *)
CheckInputsDeclared(decls, inputs, types) ==
  Collect([n \in DOMAIN decls |->
    IF n \in DOMAIN inputs THEN CheckInput(decls[n], inputs[n], types) ELSE Err("MissingInput")])

CheckInputs(decls, inputs, types) ==
  IF ~(DOMAIN inputs \subseteq DOMAIN decls) THEN Err("UnknownInput")
  ELSE Collect([n \in DOMAIN decls |->
         IF n \in DOMAIN inputs THEN CheckInput(decls[n], inputs[n], types) ELSE Err("MissingInput")])

(* RuleBundle::evaluate up to evaluate_rule, which is module Evaluator. *)
Admit(schema, inv) ==
  IF inv.rule \notin DOMAIN schema.rules THEN Err("UnknownRule")
  ELSE CheckInputs(schema.rules[inv.rule].inputs, inv.inputs, schema.types)

-----------------------------------------------------------------------------

Returned(call, r) == [call |-> call, ok |-> r.ok, error |-> IF r.ok THEN "none" ELSE r.err]

(* RuleBundle::from_files of a release: there is no bundle without it. *)
FromFiles(b) ==
  /\ Validated(Schemas[b])
  /\ bundle' = b
  /\ result' = [call |-> "from_files", ok |-> TRUE, error |-> "none"]
  /\ UNCHANGED <<invocation, parsers>>

ParseInvocation(document) ==
  LET parsed == FromJson(Schemas[bundle], document)
  IN  /\ result' = Returned("parse_invocation", parsed)
      /\ invocation' = IF parsed.ok THEN parsed.val ELSE invocation
      /\ parsers' = IF parsed.ok THEN {bundle} ELSE parsers
      /\ UNCHANGED bundle

(* The members of Invocation are public. *)
Build(inv) ==
  /\ invocation' = inv /\ parsers' = {}
  /\ result' = [call |-> "build", ok |-> TRUE, error |-> "none"]
  /\ UNCHANGED bundle

Evaluate ==
  /\ result' = Returned("evaluate", Admit(Schemas[bundle], invocation))
  /\ UNCHANGED <<bundle, invocation, parsers>>

Init ==
  /\ bundle \in {b \in Bundles : Validated(Schemas[b])}
  /\ invocation \in Built
  /\ parsers = {}
  /\ result = [call |-> "build", ok |-> TRUE, error |-> "none"]

Next ==
  \/ \E b \in Bundles : FromFiles(b)
  \/ \E document \in Documents : ParseInvocation(document)
  \/ \E inv \in Built : Build(inv)
  \/ Evaluate

Spec == Init /\ [][Next]_vars

-----------------------------------------------------------------------------

(* A bundle in use is validated, and every scalar of an invocation is a    *)
(* Fixed, however it came about.                                           *)
TypeOK ==
  /\ bundle \in Bundles /\ Validated(Schemas[bundle])
  /\ parsers \subseteq Bundles
  /\ \A n \in DOMAIN invocation.inputs : InRange(invocation.inputs[n])
  /\ result.call \in {"from_files", "parse_invocation", "build", "evaluate"}
  /\ result.error \in RuleErrors \cup {"none"}

(* A value has the shape of its declaration: what Evaluator assumes when   *)
(* it looks up an input or a field.                                        *)
Conforms(v, decl, types) ==
  IF decl.type # "list" THEN Is(v, decl.type)
  ELSE /\ Is(v, "list")
       /\ \A k \in DOMAIN v.list :
            /\ Is(v.list[k], "record")
            /\ DOMAIN v.list[k].record = DOMAIN types[decl.of]
            /\ \A f \in DOMAIN types[decl.of] : Is(v.list[k].record[f], types[decl.of][f])

(* The inputs that reach a rule are exactly the declared ones and have the *)
(* declared types of the bundle that evaluates, whoever built the          *)
(* invocation and whichever release parsed it.                             *)
AdmittedIsWellTyped ==
  result.call = "evaluate" /\ result.ok =>
    LET schema == Schemas[bundle]
        inputs == invocation.inputs
    IN  /\ invocation.rule \in DOMAIN schema.rules
        /\ DOMAIN inputs = DOMAIN schema.rules[invocation.rule].inputs
        /\ \A n \in DOMAIN inputs :
             Conforms(inputs[n], schema.rules[invocation.rule].inputs[n], schema.types)

(* What a bundle has parsed it admits: coercion and check_inputs, written  *)
(* apart, agree on every type.                                             *)
ParsedIsAdmitted ==
  result.call = "evaluate" /\ bundle \in parsers => result.ok

(* Validation has resolved every record type: no later call fails on an    *)
(* undeclared one, and so no rule is unusable in a bundle that loads.      *)
RecordTypesResolve == result.error # "UnknownType"

=============================================================================
