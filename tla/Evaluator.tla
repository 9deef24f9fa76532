----------------------------- MODULE Evaluator ------------------------------
(***************************************************************************)
(* The interpreter of rule programs (kaimeter-interpreter, src/rule.rs):   *)
(* RulesSchema::validate, then Evaluator::eval on every output of a rule.  *)
(*                                                                         *)
(* A program is an expression DAG (interpreter contract, section 3): a     *)
(* sequence of nodes whose operands are nodes before them.  The recursion  *)
(* of eval is the variable `stack`, one frame per call with the operand    *)
(* values it holds; `elements` is the field of that name, the records of   *)
(* the sums and counts being evaluated; `ret` is what the last call gave.  *)
(*                                                                         *)
(* A rule is [nodes, outputs, proves]: outputs are node numbers in the     *)
(* order of their names, proves the place of the proven output (0 when     *)
(* the member is absent, beyond the outputs when it names none).           *)
(***************************************************************************)
EXTENDS Tables

CONSTANTS
  Rules,         (* rules, well-formed or not            *)
  Invocations(_) (* the inputs a rule is invoked with    *)

VARIABLES
  rule,      (* the rule evaluated                                   *)
  inputs,    (* the inputs of the invocation                         *)
  phase,     (* "loaded", "evaluating", "done"                       *)
  outputs,   (* values of the outputs evaluated so far               *)
  stack,     (* calls of eval in progress: node, vals, acc           *)
  elements,  (* records in scope, the innermost last                 *)
  ret,       (* the result just returned by a call, or Nothing       *)
  outcome    (* Ok(proven scalar), Err(e) or Nothing                 *)

vars == <<rule, inputs, phase, outputs, stack, elements, ret, outcome>>

Nothing == Err("Nothing")

-----------------------------------------------------------------------------
(* What the serde types of schema.rs and value.rs admit.                   *)

Kinds == {"scalar", "text", "bool", "list", "record"}

IsValue(v) == \E kind \in Kinds : DOMAIN v = {kind} /\ (kind = "scalar" => v.scalar \in Range128)

(* ValueType: a constant, or a field of a record. *)
IsPlain(v) == IsValue(v) /\ \A kind \in DOMAIN v : kind \in {"scalar", "text", "bool"}

IsElement(record) == \A name \in DOMAIN record : IsPlain(record[name])

(* InputDecl: a plain value or a list.  A length is a usize, below i128::MAX. *)
IsInput(v) ==
  \/ IsPlain(v)
  \/ /\ DOMAIN v = {"list"}
     /\ DOMAIN v.list = 1 .. Len(v.list) /\ Len(v.list) \in 0 .. MAX
     /\ \A k \in DOMAIN v.list : Is(v.list[k], "record") => IsElement(v.list[k].record)

-----------------------------------------------------------------------------
(* Validation (src/schema.rs).                                             *)

ScalarPairOps == {"add", "sub", "mul", "div", "min", "max"}
UnaryOps == {"neg", "abs", "round"}
OrderOps == {"lt", "le", "gt", "ge"}
PairOps == ScalarPairOps \cup OrderOps \cup {"eq", "ne"}
LoopOps == {"sum", "count"}

(* Mutant: the arity of negation is not checked. *)
ShapeOkButNot(node) ==
  CASE node.op \in PairOps -> Len(node.args) = 2
    [] node.op \in UnaryOps -> Len(node.args) = 1
    [] node.op \in {"and", "or"} -> node.args # <<>>
    [] node.op = "const" -> Len(node.literals) = 1 /\ ~Is(node.literals[1], "malformed")
    [] node.op = "table" -> node.matches # <<>> /\ \A k \in DOMAIN node.matches :
                                Cardinality(DOMAIN node.matches[k].by) = 1
    [] OTHER -> TRUE

(* The node's own checks in Expr::validate: operand counts, one literal    *)
(* that parses, one matcher per predicate.                                 *)
ShapeOk(node) ==
  CASE node.op \in PairOps -> Len(node.args) = 2
    [] node.op \in UnaryOps \cup {"not"} -> Len(node.args) = 1
    [] node.op \in {"and", "or"} -> node.args # <<>>
    [] node.op = "const" -> Len(node.literals) = 1 /\ ~Is(node.literals[1], "malformed")
    [] node.op = "table" -> node.matches # <<>> /\ \A k \in DOMAIN node.matches :
                                Cardinality(DOMAIN node.matches[k].by) = 1
    [] OTHER -> TRUE

(* The children of a node: its operands, or its predicates' operands. *)
Children(node) ==
  IF node.op = "table"
    THEN UNION {{node.matches[k].by[m] : m \in DOMAIN node.matches[k].by} : k \in DOMAIN node.matches}
    ELSE ToSet(node.args)

Ops == PairOps \cup UnaryOps \cup LoopOps \cup {"const", "input", "field", "table", "not", "and", "or", "select"}

(* The variant of Expr fixes how many operands these have, not the list of *)
(* an operation or of predicates.                                          *)
IsNode(node) ==
  /\ node.op \in Ops
  /\ node.op = "const" => \A k \in DOMAIN node.literals : Is(node.literals[k], "malformed") \/ IsPlain(node.literals[k])
  /\ node.op = "table" => DOMAIN node.matches = 1 .. Len(node.matches) /\ Len(node.matches) \in Nat
  /\ node.op # "table" => DOMAIN node.args = 1 .. Len(node.args) /\ Len(node.args) \in Nat
  /\ node.op = "select" => Len(node.args) = 3
  /\ node.op = "sum" => Len(node.args) = 2
  /\ node.op = "count" => Len(node.args) \in {1, 2}

(* Operands come before the expression they are part of. *)
ASSUME RulesAssumption ==
  \A r \in Rules :
    /\ DOMAIN r.nodes = 1 .. Len(r.nodes) /\ Len(r.nodes) \in Nat
    /\ DOMAIN r.outputs = 1 .. Len(r.outputs) /\ Len(r.outputs) \in Nat
    /\ \A k \in DOMAIN r.outputs : r.outputs[k] \in DOMAIN r.nodes
    /\ \A i \in DOMAIN r.nodes : IsNode(r.nodes[i]) /\ Children(r.nodes[i]) \subseteq 1 .. i - 1

ASSUME InputsAssumption ==
  \A r \in Rules : \A i \in Invocations(r) : \A name \in DOMAIN i : IsInput(i[name])

(* The errors of a malformed expression. *)
MalformedErrors ==
  {"InvalidOperands", "InvalidConstant", "InvalidConstantScalar", "InvalidPredicate"}

(* A table's file is a list of rows; reading it fails with errors of its own. *)
IsTable(rows) ==
  /\ DOMAIN rows = 1 .. Len(rows) /\ Len(rows) \in Nat
  /\ \A k \in DOMAIN rows : \A column \in DOMAIN rows[k] :
       Is(rows[k][column], "text") => Len(rows[k][column].text) \in Nat

ASSUME TablesAssumption ==
  \A name \in DOMAIN TableFiles :
    IF TableFiles[name].ok THEN IsTable(TableFiles[name].val)
    ELSE TableFiles[name].err \in RuleErrors \ MalformedErrors

(* Expr::validate: a node is well formed when it and its children are. *)
ShapesOk(r) ==
  LET ok[i \in DOMAIN r.nodes] == ShapeOk(r.nodes[i]) /\ \A c \in Children(r.nodes[i]) : ok[c]
  IN  ok

Valid(r) == \A k \in DOMAIN r.outputs : ShapesOk(r)[r.outputs[k]]

ProvesOk(r) ==
  /\ r.outputs # <<>>
  /\ IF r.proves = 0 THEN Len(r.outputs) = 1 ELSE r.proves \in DOMAIN r.outputs

Validate ==
  /\ phase = "loaded"
  /\ LET ok == ProvesOk(rule) /\ Valid(rule)
     IN  /\ phase' = IF ok THEN "evaluating" ELSE "done"
         /\ outcome' = IF ok THEN Nothing ELSE Err("Invalid")
  /\ UNCHANGED <<rule, inputs, outputs, stack, elements, ret>>

-----------------------------------------------------------------------------
(* Calls.                                                                  *)

Top == Last(stack)
Node == rule.nodes[Top.node]
Vals == Top.vals

Call(i) == stack' = Append(stack, [node |-> i, vals |-> <<>>, acc |-> 0]) /\ ret' = Nothing

Return(r) == stack' = Front(stack) /\ ret' = r

(* The next statement of a call of one of these operations. *)
Running(ops) ==
  phase = "evaluating" /\ stack # <<>> /\ ret = Nothing /\ Node.op \in ops

Rest == UNCHANGED <<rule, inputs, phase, outputs, outcome>>

(* evaluate_rule: the outputs are evaluated in the order of their names. *)
StartOutput ==
  /\ phase = "evaluating" /\ stack = <<>> /\ ret = Nothing
  /\ Len(outputs) < Len(rule.outputs)
  /\ Call(rule.outputs[Len(outputs) + 1])
  /\ UNCHANGED elements /\ Rest

(* Mutant: the output is not recorded, so the same one comes next. *)
FinishOutputUnrecorded ==
  /\ phase = "evaluating" /\ stack = <<>> /\ ret # Nothing
  /\ ret' = Nothing
  /\ IF ret.ok
       THEN UNCHANGED <<outputs, phase, outcome>>
       ELSE phase' = "done" /\ outcome' = ret /\ UNCHANGED outputs
  /\ UNCHANGED <<rule, inputs, stack, elements>>

FinishOutput ==
  /\ phase = "evaluating" /\ stack = <<>> /\ ret # Nothing
  /\ ret' = Nothing
  /\ IF ret.ok
       THEN outputs' = Append(outputs, ret.val) /\ UNCHANGED <<phase, outcome>>
       ELSE phase' = "done" /\ outcome' = ret /\ UNCHANGED outputs
  /\ UNCHANGED <<rule, inputs, stack, elements>>

(* The proven output must be a scalar, found out after all are computed. *)
Prove ==
  /\ phase = "evaluating" /\ stack = <<>> /\ ret = Nothing
  /\ Len(outputs) = Len(rule.outputs)
  /\ phase' = "done"
  /\ outcome' = As(outputs[IF rule.proves = 0 THEN 1 ELSE rule.proves], "scalar")
  /\ UNCHANGED <<rule, inputs, outputs, stack, elements, ret>>


-----------------------------------------------------------------------------
(* Evaluator::eval, one action per kind of node.                           *)

Constant(node) ==
  IF Len(node.literals) # 1 THEN Err("InvalidConstant")
  ELSE IF Is(node.literals[1], "malformed") THEN Err("InvalidConstantScalar")
  ELSE Ok(node.literals[1])

(* Mutant: the field of the outermost record. *)
FieldOfOutermost(name) ==
  IF elements = <<>> THEN Err("NoElement")
  ELSE IF name \in DOMAIN Head(elements) THEN Ok(Head(elements)[name]) ELSE Err("UnknownField")

Field(name) ==
  IF elements = <<>> THEN Err("NoElement")
  ELSE IF name \in DOMAIN Last(elements) THEN Ok(Last(elements)[name]) ELSE Err("UnknownField")

Input(name) == IF name \in DOMAIN inputs THEN Ok(inputs[name]) ELSE Err("UnknownInput")

EvalLeaf ==
  /\ \/ Running({"const"}) /\ Return(Constant(Node))
     \/ Running({"input"}) /\ Return(Input(Node.name))
     \/ Running({"field"}) /\ Return(Field(Node.name))
  /\ UNCHANGED elements /\ Rest

(* Operands from left to right, after the operand count. *)
Eager(arity, Result(_)) ==
  IF Len(Node.args) # arity THEN Return(Err("InvalidOperands"))
  ELSE IF Len(Vals) < arity THEN Call(Node.args[Len(Vals) + 1])
  ELSE Return(Result(Vals))

Smaller(x, y) == IF y < x THEN y ELSE x
Larger(x, y) == IF y < x THEN x ELSE y

Arithmetic(op, x, y) ==
  CASE op = "add" -> TryAdd(x, y)
    [] op = "sub" -> TrySub(x, y)
    [] op = "mul" -> TryMul(x, y)
    [] op = "div" -> TryDiv(x, y)
    [] op = "min" -> Ok(Smaller(x, y))
    [] op = "max" -> Ok(Larger(x, y))

Unary(op, x) ==
  CASE op = "neg" -> TryNeg(x)
    [] op = "abs" -> TryAbs(x)
    [] op = "round" -> Ok(RoundToInteger(x))

AsScalar(r) == AndThen(r, LAMBDA x : Ok(Scalar(x)))
AsBool(r) == AndThen(r, LAMBDA b : Ok(Bool(b)))

EvalArithmetic ==
  /\ \/ /\ Running(ScalarPairOps)
        /\ Eager(2, LAMBDA v : AsScalar(Arithmetic(Node.op, v[1].scalar, v[2].scalar)))
     \/ /\ Running(UnaryOps)
        /\ Eager(1, LAMBDA v : AsScalar(Unary(Node.op, v[1].scalar)))
  /\ UNCHANGED elements /\ Rest

Equality(op, x, y) ==
  IF \E kind \in {"scalar", "text", "bool"} : Is(x, kind) /\ Is(y, kind)
    THEN Ok((x = y) = (op = "eq"))
    ELSE Err("TypeMismatch")

Holds(op, x, y) ==
  CASE op = "lt" -> x < y [] op = "le" -> x <= y [] op = "gt" -> x > y [] op = "ge" -> x >= y

(* Two scalars, or two texts that are dates. *)
Order(op, x, y) ==
  CASE Is(x, "scalar") /\ Is(y, "scalar") -> Ok(Holds(op, x.scalar, y.scalar))
    [] Is(x, "text") /\ Is(y, "text") ->
         AndThen(DateOf(x.text), LAMBDA d : AndThen(DateOf(y.text), LAMBDA e : Ok(Holds(op, d, e))))
    [] OTHER -> Err("TypeMismatch")

EvalComparison ==
  /\ \/ /\ Running({"eq", "ne"})
        /\ Eager(2, LAMBDA v : AsBool(Equality(Node.op, v[1], v[2])))
     \/ /\ Running(OrderOps)
        /\ Eager(2, LAMBDA v : AsBool(Order(Node.op, v[1], v[2])))
  /\ UNCHANGED elements /\ Rest

(* The value at which a conjunction or a disjunction stops. *)
Decides(op) == op = "or"

EvalLogic ==
  /\ \/ /\ Running({"not"})
        /\ Eager(1, LAMBDA v : Ok(Bool(~v[1].bool)))
     \/ /\ Running({"and", "or"})
        /\ IF Vals # <<>> /\ Last(Vals).bool = Decides(Node.op)
             THEN Return(Ok(Bool(Decides(Node.op))))
           ELSE IF Len(Vals) < Len(Node.args) THEN Call(Node.args[Len(Vals) + 1])
           ELSE Return(Ok(Bool(~Decides(Node.op))))
  /\ UNCHANGED elements /\ Rest

(* Condition, then the one branch it names. *)
EvalSelect ==
  /\ Running({"select"})
  /\ \/ Vals = <<>> /\ Call(Node.args[1])
     \/ Len(Vals) = 1 /\ Call(Node.args[IF Vals[1].bool THEN 2 ELSE 3])
     \/ Len(Vals) > 1 /\ Return(Ok(Vals[2]))
  /\ UNCHANGED elements /\ Rest

(* bind_predicates, of the values evaluated so far. *)
BoundPredicates(matches, values) ==
  [k \in DOMAIN values |->
     [column |-> matches[k].column, value |-> values[k].text, prefix |-> "prefixOf" \in DOMAIN matches[k].by]]

(* The table file is read before the predicates' operands are evaluated. *)
EvalTable ==
  /\ Running({"table"})
  /\ LET file == IF Node.table \in DOMAIN TableFiles THEN TableFiles[Node.table] ELSE Err("UnknownTable")
         matches == Node.matches
     IN  IF ~file.ok THEN Return(file)
         ELSE IF Len(Vals) < Len(matches)
           THEN LET by == matches[Len(Vals) + 1].by
                IN  IF Cardinality(DOMAIN by) # 1 THEN Return(Err("InvalidPredicate"))
                    ELSE Call(by[CHOOSE m \in DOMAIN by : TRUE])
         ELSE LET k == SelectRow(file.val, BoundPredicates(matches, Vals))
              IN  Return(IF k = 0 THEN Err("MissingRow")
                         ELSE ReadCell(file.val[k], Node.column, Node.cell))
  /\ UNCHANGED elements /\ Rest

-----------------------------------------------------------------------------
(* Sums and counts.  A frame holds the list and the terms so far, acc the  *)
(* running total.                                                          *)

Items == Vals[1].list
InBody == Vals # <<>> /\ Node.op \in LoopOps

EvalLoop ==
  /\ Running(LoopOps)
  /\ IF Vals = <<>> THEN Call(Node.args[1]) /\ UNCHANGED elements
     ELSE IF Len(Vals) - 1 = Len(Items)
       THEN /\ Return(IF Node.op = "sum" THEN Ok(Scalar(Top.acc))
                      ELSE AsScalar(Checked(Top.acc * SCALE)))
            /\ UNCHANGED elements
     ELSE IF Len(Node.args) = 1
       THEN /\ stack' = [stack EXCEPT ![Len(stack)].vals = Append(@, Bool(TRUE)),
                                      ![Len(stack)].acc = @ + 1]
            /\ UNCHANGED <<elements, ret>>
     ELSE LET item == Items[Len(Vals)]
          IN  IF Is(item, "record")
                THEN Call(Node.args[2]) /\ elements' = Append(elements, item.record)
                ELSE Return(Err("TypeMismatch")) /\ UNCHANGED elements
  /\ Rest

(* Mutant: the running total is not checked. *)
LoopTermUnchecked ==
  /\ phase = "evaluating" /\ stack # <<>> /\ ret # Nothing /\ InBody
  /\ elements' = Front(elements)
  /\ LET term == AndThen(ret, LAMBDA v : As(v, IF Node.op = "sum" THEN "scalar" ELSE "bool"))
     IN  IF term.ok
           THEN /\ stack' = [stack EXCEPT
                     ![Len(stack)].vals = Append(@, ret.val),
                     ![Len(stack)].acc = @ + IF Node.op = "sum" THEN term.val ELSE IF term.val THEN 1 ELSE 0]
                /\ ret' = Nothing
           ELSE Return(term)
  /\ Rest

(* Mutant: an element is left in scope when its term fails to add up. *)
LoopTermLeavesElement ==
  /\ phase = "evaluating" /\ stack # <<>> /\ ret # Nothing /\ InBody
  /\ LET term == AndThen(ret, LAMBDA v : As(v, IF Node.op = "sum" THEN "scalar" ELSE "bool"))
         acc == AndThen(term, LAMBDA x :
                  IF Node.op = "sum" THEN TryAdd(Top.acc, x) ELSE Ok(Top.acc + IF x THEN 1 ELSE 0))
     IN  /\ elements' = IF term.ok THEN Front(elements) ELSE elements
         /\ IF acc.ok
              THEN /\ stack' = [stack EXCEPT ![Len(stack)].vals = Append(@, ret.val),
                                             ![Len(stack)].acc = acc.val]
                   /\ ret' = Nothing
              ELSE Return(acc)
  /\ Rest

(* The closure of with_element has returned: the element leaves the scope, *)
(* whatever the result, and the term is added or counted.                  *)
LoopTerm ==
  /\ phase = "evaluating" /\ stack # <<>> /\ ret # Nothing /\ InBody
  /\ elements' = Front(elements)
  /\ LET term == AndThen(ret, LAMBDA v : As(v, IF Node.op = "sum" THEN "scalar" ELSE "bool"))
         acc == AndThen(term, LAMBDA x :
                  IF Node.op = "sum" THEN TryAdd(Top.acc, x) ELSE Ok(Top.acc + IF x THEN 1 ELSE 0))
     IN  IF acc.ok
           THEN /\ stack' = [stack EXCEPT ![Len(stack)].vals = Append(@, ret.val),
                                          ![Len(stack)].acc = acc.val]
                /\ ret' = Nothing
           ELSE Return(acc)
  /\ Rest

-----------------------------------------------------------------------------
(* A call returns to its caller, which takes the variant it needs; `?`     *)
(* hands an error on.                                                      *)

Wanted ==
  CASE Node.op \in ScalarPairOps \cup UnaryOps -> {"scalar"}
    [] Node.op \in {"and", "or", "not"} -> {"bool"}
    [] Node.op = "select" /\ Vals = <<>> -> {"bool"}
    [] Node.op \in LoopOps -> {"list"}
    [] Node.op = "table" -> {"text"}
    [] OTHER -> {"scalar", "text", "bool", "list", "record"}

Receive ==
  /\ phase = "evaluating" /\ stack # <<>> /\ ret # Nothing /\ ~InBody
  /\ IF ~ret.ok THEN Return(ret)
     ELSE IF DOMAIN ret.val \subseteq Wanted
       THEN /\ stack' = [stack EXCEPT ![Len(stack)].vals = Append(@, ret.val)]
            /\ ret' = Nothing
       ELSE Return(Err("TypeMismatch"))
  /\ UNCHANGED elements /\ Rest

Init ==
  /\ rule \in Rules /\ inputs \in Invocations(rule)
  /\ phase = "loaded"
  /\ outputs = <<>> /\ stack = <<>> /\ elements = <<>>
  /\ ret = Nothing /\ outcome = Nothing

Next ==
  \/ Validate \/ StartOutput \/ FinishOutput \/ Prove
  \/ EvalLeaf \/ EvalArithmetic \/ EvalComparison \/ EvalLogic \/ EvalSelect
  \/ EvalTable \/ EvalLoop \/ LoopTerm \/ Receive

(* eval is called by the thread that waits for it: it runs on to its end. *)
Spec == Init /\ [][Next]_vars /\ WF_vars(Next)

-----------------------------------------------------------------------------

IsResult(r) == IF r.ok THEN IsValue(r.val) ELSE r.err \in RuleErrors \cup {"Nothing"}

(***************************************************************************)
(* Types: every scalar in an output, in a frame or on its way back is in   *)
(* the range of Fixed, and every error one of the code's.                  *)
(***************************************************************************)
TypeOK ==
  /\ phase \in {"loaded", "evaluating", "done"}
  /\ Len(outputs) <= Len(rule.outputs) /\ \A k \in DOMAIN outputs : IsValue(outputs[k])
  /\ \A d \in DOMAIN stack :
       /\ stack[d].node \in DOMAIN rule.nodes /\ stack[d].acc \in Range128
       /\ \A k \in DOMAIN stack[d].vals : IsValue(stack[d].vals[k])
  /\ IsResult(ret)
  /\ IF outcome.ok THEN outcome.val \in Range128 ELSE outcome.err \in RuleErrors \cup {"Nothing", "Invalid"}

(* The calls whose closure is running: a sum or count below another call,  *)
(* or the call a result is about to reach, with its list already there.    *)
OpenLoops ==
  {d \in DOMAIN stack : /\ rule.nodes[stack[d].node].op \in LoopOps /\ stack[d].vals # <<>>
                        /\ d < Len(stack) \/ ret # Nothing}

(* The record the loop of frame d has bound. *)
Bound(d) == stack[d].vals[1].list[Len(stack[d].vals)].record

(***************************************************************************)
(* The records in scope are exactly the current items of the loops being   *)
(* evaluated, outermost first: with_element pushes and pops in step with   *)
(* the recursion of eval, on errors too (rule.rs:559-574).  In particular  *)
(* none is left when an output ends or fails.                              *)
(***************************************************************************)
ScopeIsTheOpenLoops ==
  /\ Len(elements) = Cardinality(OpenLoops)
  /\ \A d \in OpenLoops : elements[Cardinality({e \in OpenLoops : e <= d})] = Bound(d)

(***************************************************************************)
(* Validation and evaluation agree on what is well formed: evaluating a    *)
(* rule that validate accepted never meets the shape errors eval tests for *)
(* again (schema.rs:403-525 against rule.rs:362-781).                      *)
(***************************************************************************)
ValidRulesAreWellFormed == ~ret.ok => ret.err \notin MalformedErrors

(***************************************************************************)
(* Every evaluation ends, with a value or an error (contract, section 3).  *)
(***************************************************************************)
EvaluationEnds == <>(phase = "done")

=============================================================================
