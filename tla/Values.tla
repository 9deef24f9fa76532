------------------------------- MODULE Values -------------------------------
(***************************************************************************)
(* Values of the interpreter (kaimeter-interpreter, src/value.rs).  A      *)
(* value is a record with one field, named for the enum's variant.  A text *)
(* is a sequence of symbols: 0 .. 9 are the digits, others are letters.    *)
(***************************************************************************)
EXTENDS FixedPoint, Numerals

Scalar(x) == [scalar |-> x]
Text(t)   == [text |-> t]
Bool(b)   == [bool |-> b]
List(s)   == [list |-> s]
Record(f) == [record |-> f]

(* RuleError, its variants without their fields. *)
RuleErrors ==
  {"Overflow", "DivisionByZero", "InvalidDecimal", "InvalidDate", "Schema", "MissingRulesFile",
   "RulesNotUtf8", "UnsupportedSchema", "NoRules", "NoOutputs", "MissingProves", "UnknownRule",
   "MissingInput", "UnknownInput", "MissingField", "UnknownOutput", "TypeMismatch", "UnknownField",
   "NoElement", "UnknownTable", "MissingRows", "TableJson", "MissingRow", "MissingColumn",
   "NonStringCell", "InvalidTableScalar", "InvalidOperands", "InvalidConstant", "InvalidPredicate",
   "UnknownType", "InvalidConstantScalar", "Invocation", "InvalidJson"}

Is(v, kind) == kind \in DOMAIN v

(* Value::as_scalar, as_text, as_bool, as_list. *)
As(v, kind) == IF Is(v, kind) THEN Ok(v[kind]) ELSE Err("TypeMismatch")

(* Mutant: an i128 parser that does not look at the scale. *)
ParseWholeUnscaled(text) ==
  IF text # <<>> /\ (\A k \in DOMAIN text : text[k] \in 0 .. 9) /\ Written(text)[Len(text)] <= MAX
    THEN Ok(Written(text)[Len(text)] * SCALE)
    ELSE Err("InvalidDecimal")

(* A whole decimal number; what from_str does with the rest is in Decimal. *)
ParseWhole(text) ==
  IF text # <<>> /\ \A k \in DOMAIN text : text[k] \in 0 .. 9
    THEN Checked(Written(text)[Len(text)] * SCALE)
    ELSE Err("InvalidDecimal")

=============================================================================
