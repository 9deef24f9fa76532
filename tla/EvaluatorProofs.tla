-------------------------- MODULE EvaluatorProofs ---------------------------
(***************************************************************************)
(* Theorems about Evaluator, RuleMeaning and Aluminium, for every set of   *)
(* rules, inputs and tables.                                               *)
(***************************************************************************)
EXTENDS Aluminium, FixedProofs, FiniteSetTheorems, SequenceTheorems, TLAPS

-----------------------------------------------------------------------------
(* The inductive invariant.                                                *)

IsSequence(s) == \E A : s \in Seq(A)

(* What a call may hand back: never a fault that validation excludes. *)
GoodResult(r) ==
  IF r.ok THEN IsInput(r.val) ELSE r.err \in RuleErrors \ MalformedErrors

(* The running total: in range, and for a count at most the terms seen. *)
TotalOk(op, f) ==
  /\ f.acc \in Range128
  /\ op = "count" => /\ f.acc \in Nat
                     /\ f.vals = <<>> => f.acc = 0
                     /\ f.vals # <<>> => f.acc <= Len(f.vals) - 1

(* A call holds values of the variants its operation takes. *)
FrameOk(r, f) ==
  /\ DOMAIN f = {"node", "vals", "acc"} /\ IsSequence(f.vals)
  /\ f.node \in DOMAIN r.nodes /\ ShapesOk(r)[f.node]
  /\ \A k \in DOMAIN f.vals : IsInput(f.vals[k])
  /\ r.nodes[f.node].op \in ScalarPairOps \cup UnaryOps =>
       \A k \in DOMAIN f.vals : Is(f.vals[k], "scalar")
  /\ r.nodes[f.node].op \in LoopOps /\ f.vals # <<>> =>
       Is(f.vals[1], "list") /\ Len(f.vals) - 1 <= Len(f.vals[1].list)
  /\ TotalOk(r.nodes[f.node].op, f)

(* A rule under evaluation was accepted; no call is left over elsewhere. *)
Accepted ==
  /\ rule \in Rules /\ inputs \in Invocations(rule)
  /\ phase \in {"loaded", "evaluating", "done"}
  /\ phase = "evaluating" => Valid(rule) /\ ProvesOk(rule)

(* One value for each output evaluated, and none beyond the last. *)
OutputsOk ==
  /\ IsSequence(outputs) /\ \A k \in DOMAIN outputs : IsInput(outputs[k])
  /\ Len(outputs) <= Len(rule.outputs)
  /\ stack # <<>> \/ ret # Nothing => Len(outputs) < Len(rule.outputs)
  /\ IF outcome.ok THEN outcome.val \in Range128 ELSE outcome.err \in RuleErrors \cup {"Nothing", "Invalid"}

CallsOk ==
  /\ IsSequence(stack) /\ \A d \in DOMAIN stack : FrameOk(rule, stack[d])
  /\ ret = Nothing \/ GoodResult(ret)

(* The records in scope, and the item each open loop has reached. *)
ScopeOk ==
  /\ IsSequence(elements) /\ \A k \in DOMAIN elements : IsElement(elements[k])
  /\ \A d \in OpenLoops : Len(stack[d].vals) <= Len(stack[d].vals[1].list)
  /\ ScopeIsTheOpenLoops

Inv == Accepted /\ OutputsOk /\ CallsOk /\ ScopeOk

-----------------------------------------------------------------------------
(* Sequences.                                                              *)

LEMMA SequenceType ==
  ASSUME NEW s, IsSequence(s)
  PROVE  Len(s) \in Nat /\ DOMAIN s = 1 .. Len(s) /\ (s = <<>> <=> Len(s) = 0)
<1>1. PICK A : s \in Seq(A)
  BY DEF IsSequence
<1> QED BY <1>1, EmptySeq

LEMMA EmptySequence == IsSequence(<<>>) /\ Len(<<>>) = 0 /\ DOMAIN <<>> = {}
<1>1. <<>> \in Seq({})
  BY EmptySeq
<1>2. Len(<<>>) = 0 /\ DOMAIN <<>> = {}
  OBVIOUS
<1> QED BY <1>1, <1>2 DEF IsSequence

LEMMA Appended ==
  ASSUME NEW s, IsSequence(s), NEW x
  PROVE  /\ IsSequence(Append(s, x)) /\ Len(Append(s, x)) = Len(s) + 1
         /\ Append(s, x)[Len(s) + 1] = x
         /\ \A k \in 1 .. Len(s) : Append(s, x)[k] = s[k]
<1>1. PICK A : s \in Seq(A)
  BY DEF IsSequence
<1>2. s \in Seq(A \cup {x}) /\ x \in A \cup {x}
  BY <1>1, SeqMonotonic
<1>3. /\ Append(s, x) \in Seq(A \cup {x}) /\ Len(Append(s, x)) = Len(s) + 1
      /\ Append(s, x)[Len(s) + 1] = x
      /\ \A k \in 1 .. Len(s) : Append(s, x)[k] = s[k]
  BY <1>2, AppendProperties
<1> QED BY <1>3 DEF IsSequence

LEMMA Fronted ==
  ASSUME NEW s, IsSequence(s), s # <<>>
  PROVE  /\ IsSequence(Front(s)) /\ Len(Front(s)) = Len(s) - 1
         /\ \A k \in 1 .. Len(s) - 1 : Front(s)[k] = s[k]
<1>1. PICK A : s \in Seq(A)
  BY DEF IsSequence
<1>2. Len(s) \in Nat /\ Len(s) > 0
  BY <1>1, SequenceType
<1>3. /\ SubSeq(s, 1, Len(s) - 1) \in Seq(A) /\ Len(SubSeq(s, 1, Len(s) - 1)) = Len(s) - 1
      /\ \A k \in 1 .. Len(s) - 1 : SubSeq(s, 1, Len(s) - 1)[k] = s[k]
  <2>1. 1 \in 1 .. Len(s) + 1 /\ Len(s) - 1 \in 1 - 1 .. Len(s)
    BY <1>2
  <2>2. /\ SubSeq(s, 1, Len(s) - 1) \in Seq(A)
        /\ Len(SubSeq(s, 1, Len(s) - 1)) = IF 1 <= Len(s) - 1 THEN Len(s) - 1 - 1 + 1 ELSE 0
        /\ \A k \in 1 .. Len(s) - 1 - 1 + 1 : SubSeq(s, 1, Len(s) - 1)[k] = s[1 + k - 1]
    BY <1>1, <2>1, SubSeqProperties
  <2>3. /\ (IF 1 <= Len(s) - 1 THEN Len(s) - 1 - 1 + 1 ELSE 0) = Len(s) - 1
        /\ Len(s) - 1 - 1 + 1 = Len(s) - 1
        /\ \A k \in 1 .. Len(s) - 1 : 1 + k - 1 = k
    <3>1. \A n \in Nat : n > 0 => /\ (IF 1 <= n - 1 THEN n - 1 - 1 + 1 ELSE 0) = n - 1
                                  /\ n - 1 - 1 + 1 = n - 1
                                  /\ \A k \in 1 .. n - 1 : 1 + k - 1 = k
      OBVIOUS
    <3> QED BY <1>2, <3>1, Zenon
  <2> QED BY <2>2, <2>3, Zenon
<1> QED BY <1>3 DEF IsSequence, Front

LEMMA Updated ==
  ASSUME NEW s, IsSequence(s), NEW n \in 1 .. Len(s), NEW x
  PROVE  /\ IsSequence([s EXCEPT ![n] = x]) /\ Len([s EXCEPT ![n] = x]) = Len(s)
         /\ [s EXCEPT ![n] = x][n] = x
         /\ \A k \in 1 .. Len(s) : k # n => [s EXCEPT ![n] = x][k] = s[k]
<1>1. PICK A : s \in Seq(A)
  BY DEF IsSequence
<1>2. s \in Seq(A \cup {x}) /\ x \in A \cup {x}
  BY <1>1, SeqMonotonic
<1>3. [s EXCEPT ![n] = x] \in Seq(A \cup {x}) /\ Len([s EXCEPT ![n] = x]) = Len(s)
  BY <1>2
<1> QED BY <1>2, <1>3 DEF IsSequence

-----------------------------------------------------------------------------
(* Validation.                                                             *)

(* The nodes below which every shape is right are closed under children,   *)
(* so they solve the recursion of Expr::validate.                          *)
LEMMA ShapesOkIs ==
  ASSUME NEW r \in Rules, NEW i \in DOMAIN r.nodes
  PROVE  ShapesOk(r)[i] = (ShapeOk(r.nodes[i]) /\ \A c \in Children(r.nodes[i]) : ShapesOk(r)[c])
<1> DEFINE D == DOMAIN r.nodes
           Step(f) == [j \in D |-> ShapeOk(r.nodes[j]) /\ \A c \in Children(r.nodes[j]) : f[c]]
           Closed(S) == S \subseteq D /\ \A j \in S : ShapeOk(r.nodes[j]) /\ Children(r.nodes[j]) \subseteq S
           good == UNION {S \in SUBSET D : Closed(S)}
           f0 == [j \in D |-> j \in good]
<1>1. \A j \in D : Children(r.nodes[j]) \subseteq D
  <2>1. DOMAIN r.nodes = 1 .. Len(r.nodes) /\ Len(r.nodes) \in Nat
        /\ \A j \in DOMAIN r.nodes : Children(r.nodes[j]) \subseteq 1 .. j - 1
    BY RulesAssumption
  <2> HIDE DEF D
  <2>2. \A j \in 1 .. Len(r.nodes) : 1 .. j - 1 \subseteq 1 .. Len(r.nodes)
    BY <2>1
  <2> QED BY <2>1, <2>2 DEF D
<1>2. Closed(good)
  OBVIOUS
<1>3. ASSUME NEW j \in D, ShapeOk(r.nodes[j]), Children(r.nodes[j]) \subseteq good
      PROVE  j \in good
  <2>1. Closed(good \cup {j})
    BY <1>2, <1>3
  <2> QED BY <2>1
<1> HIDE DEF good
<1>4. \A j \in D : (j \in good) = (ShapeOk(r.nodes[j]) /\ \A c \in Children(r.nodes[j]) : f0[c])
  <2> SUFFICES ASSUME NEW j \in D
               PROVE  (j \in good) <=> (ShapeOk(r.nodes[j]) /\ \A c \in Children(r.nodes[j]) : f0[c])
    OBVIOUS
  <2>1. (\A c \in Children(r.nodes[j]) : f0[c]) <=> Children(r.nodes[j]) \subseteq good
    BY <1>1
  <2> QED BY <1>2, <1>3, <2>1
<1>5. f0 = Step(f0)
  BY <1>4
<1> HIDE DEF f0
<1>6. ShapesOk(r) = CHOOSE f : f = Step(f)
  BY DEF ShapesOk
<1> HIDE DEF Step
<1>7. ShapesOk(r) = Step(ShapesOk(r))
  BY <1>5, <1>6
<1> QED BY <1>7 DEF Step

LEMMA ShapesOkHolds ==
  ASSUME NEW r \in Rules, NEW i \in DOMAIN r.nodes, ShapesOk(r)[i]
  PROVE  ShapeOk(r.nodes[i]) /\ \A c \in Children(r.nodes[i]) : ShapesOk(r)[c]
BY ShapesOkIs

-----------------------------------------------------------------------------
(* Values and results.                                                     *)

LEMMA Variants ==
  ASSUME NEW v, IsInput(v)
  PROVE  /\ IsValue(v)
         /\ Is(v, "scalar") => v.scalar \in Range128
         /\ DOMAIN v \subseteq {"scalar"} => Is(v, "scalar")
         /\ DOMAIN v \subseteq {"list"} => Is(v, "list")
         /\ Is(v, "list") => /\ DOMAIN v.list = 1 .. Len(v.list) /\ Len(v.list) \in 0 .. MAX
                            /\ \A k \in DOMAIN v.list : Is(v.list[k], "record") => IsElement(v.list[k].record)
BY DEF IsInput, IsPlain, IsValue, Kinds, Is

LEMMA PlainIsInput == ASSUME NEW v, IsPlain(v) PROVE IsInput(v)
BY DEF IsInput

LEMMA Built ==
  /\ \A x \in Range128 : IsPlain(Scalar(x)) /\ IsInput(Scalar(x))
  /\ \A b : IsPlain(Bool(b)) /\ IsInput(Bool(b))
  /\ \A t : IsPlain(Text(t)) /\ IsInput(Text(t))
BY DEF IsInput, IsPlain, IsValue, Kinds, Scalar, Bool, Text

(* An error of RuleError that validation does not exclude. *)
Fault == RuleErrors \ MalformedErrors

LEMMA Faults ==
  /\ ArithmeticErrors \subseteq Fault
  /\ {"TypeMismatch", "InvalidDate", "InvalidDecimal", "InvalidTableScalar", "UnknownTable", "MissingRow",
      "MissingColumn", "NonStringCell", "NoElement", "UnknownField", "UnknownInput"} \subseteq Fault
  /\ "Nothing" \notin Fault
BY DEF Fault, RuleErrors, MalformedErrors, ArithmeticErrors

LEMMA GoodOk == ASSUME NEW v, IsInput(v) PROVE GoodResult(Ok(v))
BY DEF GoodResult, Ok

LEMMA GoodErr == ASSUME NEW e \in Fault PROVE GoodResult(Err(e))
BY DEF GoodResult, Err, Fault

LEMMA GoodIsSomething == ASSUME NEW r, GoodResult(r) PROVE r # Nothing
BY Faults DEF GoodResult, Nothing, Err, Fault

Numeric(r) == IF r.ok THEN r.val \in Range128 ELSE r.err \in Fault

LEMMA CheckedNumeric == ASSUME NEW n PROVE Numeric(Checked(n))
BY Faults DEF Numeric, Checked, Ok, Err, ArithmeticErrors

LEMMA NumericOk == ASSUME NEW x \in Range128 PROVE Numeric(Ok(x))
BY DEF Numeric, Ok

LEMMA AsScalarGood == ASSUME NEW r, Numeric(r) PROVE GoodResult(AsScalar(r))
<1>1. CASE r.ok
  <2>1. AsScalar(r) = Ok(Scalar(r.val)) /\ r.val \in Range128
    BY <1>1 DEF AsScalar, AndThen, Numeric
  <2> QED BY <2>1, Built, GoodOk
<1>2. CASE ~r.ok
  <2>1. AsScalar(r) = r /\ r.err \in Fault
    BY <1>2 DEF AsScalar, AndThen, Numeric
  <2> QED BY <1>2, <2>1 DEF GoodResult, Fault
<1> QED BY <1>1, <1>2

LEMMA AsBoolGood ==
  ASSUME NEW r, r.ok \/ r.err \in Fault
  PROVE  GoodResult(AsBool(r))
<1>1. CASE r.ok
  <2>1. AsBool(r) = Ok(Bool(r.val))
    BY <1>1 DEF AsBool, AndThen
  <2> QED BY <2>1, Built, GoodOk
<1>2. CASE ~r.ok
  <2>1. AsBool(r) = r
    BY <1>2 DEF AsBool, AndThen
  <2> QED BY <1>2, <2>1 DEF GoodResult, Fault
<1> QED BY <1>1, <1>2

LEMMA ArithmeticNumeric ==
  ASSUME NEW op \in ScalarPairOps, NEW x \in Range128, NEW y \in Range128
  PROVE  Numeric(Arithmetic(op, x, y))
<1>1. CASE op = "add"
  BY <1>1, CheckedNumeric, Zenon DEF Arithmetic, TryAdd
<1>2. CASE op = "sub"
  BY <1>2, CheckedNumeric, Zenon DEF Arithmetic, TrySub
<1>3. CASE op = "mul"
  <2>1. Arithmetic(op, x, y) = TryMul(x, y)
    BY <1>3, Zenon DEF Arithmetic
  <2>2. TryMul(x, y) = Err("Overflow") \/ \E v \in Range128 : TryMul(x, y) = Ok(v)
    BY TryMulResult
  <2> QED BY <2>1, <2>2, Faults DEF Numeric, Ok, Err, ArithmeticErrors
<1>4. CASE op = "div"
  <2>1. Arithmetic(op, x, y) = TryDiv(x, y)
    BY <1>4, Zenon DEF Arithmetic
  <2>2. \/ TryDiv(x, y) = Err("Overflow") \/ TryDiv(x, y) = Err("DivisionByZero")
        \/ \E v \in Range128 : TryDiv(x, y) = Ok(v)
    BY TryDivResult
  <2> QED BY <2>1, <2>2, Faults DEF Numeric, Ok, Err, ArithmeticErrors
<1>5. CASE op = "min"
  <2>1. Arithmetic(op, x, y) = Ok(Smaller(x, y))
    BY <1>5, Zenon DEF Arithmetic
  <2> QED BY <2>1, NumericOk DEF Smaller
<1>6. CASE op = "max"
  <2>1. Arithmetic(op, x, y) = Ok(Larger(x, y))
    BY <1>6, Zenon DEF Arithmetic
  <2> QED BY <2>1, NumericOk DEF Larger
<1> QED BY <1>1, <1>2, <1>3, <1>4, <1>5, <1>6 DEF ScalarPairOps

LEMMA UnaryNumeric ==
  ASSUME NEW op \in UnaryOps, NEW x \in Range128
  PROVE  Numeric(Unary(op, x))
<1>1. CASE op = "neg"
  BY <1>1, CheckedNumeric, Zenon DEF Unary, TryNeg
<1>2. CASE op = "abs"
  BY <1>2, CheckedNumeric, Zenon DEF Unary, TryAbs
<1>3. CASE op = "round"
  <2>1. Unary(op, x) = Ok(RoundToInteger(x))
    BY <1>3, Zenon DEF Unary
  <2> QED BY <2>1, RoundToIntegerResult, NumericOk
<1> QED BY <1>1, <1>2, <1>3 DEF UnaryOps

LEMMA EqualityFault == ASSUME NEW op, NEW x, NEW y PROVE Equality(op, x, y).ok \/ Equality(op, x, y).err \in Fault
BY Faults DEF Equality, Ok, Err

LEMMA OrderFault ==
  ASSUME NEW op, NEW x, NEW y, IsInput(x), IsInput(y)
  PROVE  Order(op, x, y).ok \/ Order(op, x, y).err \in Fault
<1>0. Is(x, "scalar") => ~Is(x, "text")
  <2>1. PICK kind \in Kinds : DOMAIN x = {kind}
    BY Variants, Zenon DEF IsValue
  <2> QED BY <2>1 DEF Is
<1>1. CASE Is(x, "scalar") /\ Is(y, "scalar")
  <2>1. Order(op, x, y) = Ok(Holds(op, x.scalar, y.scalar))
    BY <1>0, <1>1, Zenon DEF Order
  <2> QED BY <2>1 DEF Ok
<1>2. CASE Is(x, "text") /\ Is(y, "text")
  <2> DEFINE d == DateOf(x.text)
             e == DateOf(y.text)
  <2>1. (d.ok \/ d.err \in Fault) /\ (e.ok \/ e.err \in Fault)
    BY Faults DEF DateOf, Ok, Err
  <2> HIDE DEF d, e
  <2>2. Order(op, x, y) = AndThen(d, LAMBDA a : AndThen(e, LAMBDA b : Ok(Holds(op, a, b))))
    BY <1>0, <1>2, Zenon DEF Order, d, e
  <2> QED BY <2>1, <2>2 DEF AndThen, Ok
<1>3. CASE ~(Is(x, "scalar") /\ Is(y, "scalar")) /\ ~(Is(x, "text") /\ Is(y, "text"))
  <2>1. Order(op, x, y) = Err("TypeMismatch")
    BY <1>3, Zenon DEF Order
  <2> QED BY <2>1, Faults DEF Err
<1> QED BY <1>1, <1>2, <1>3

LEMMA ReadCellGood == ASSUME NEW row, NEW column, NEW cell PROVE GoodResult(ReadCell(row, column, cell))
<1> DEFINE number == ParseWhole(row[column].text)
<1>1. Numeric(number)
  <2>1. ASSUME NEW n PROVE Numeric(Checked(n))
    BY CheckedNumeric
  <2>2. Numeric(Err("InvalidDecimal"))
    BY Faults DEF Numeric, Err
  <2> QED BY <2>1, <2>2 DEF ParseWhole
<1> HIDE DEF number
<1>2. CASE column \notin DOMAIN row
  BY <1>2, Faults, GoodErr DEF ReadCell
<1>3. CASE column \in DOMAIN row /\ ~Is(row[column], "text")
  BY <1>3, Faults, GoodErr DEF ReadCell
<1>4. CASE column \in DOMAIN row /\ Is(row[column], "text") /\ cell = "text"
  <2>1. ReadCell(row, column, cell) = Ok(Text(row[column].text))
    BY <1>4 DEF ReadCell
  <2> QED BY <2>1, Built, GoodOk
<1>5. CASE column \in DOMAIN row /\ Is(row[column], "text") /\ cell # "text"
  <2>1. ReadCell(row, column, cell) = IF number.ok THEN Ok(Scalar(number.val)) ELSE Err("InvalidTableScalar")
    BY <1>5 DEF ReadCell, number
  <2>2. CASE number.ok
    BY <1>1, <2>1, <2>2, Built, GoodOk DEF Numeric
  <2>3. CASE ~number.ok
    BY <2>1, <2>3, Faults, GoodErr
  <2> QED BY <2>2, <2>3
<1> QED BY <1>2, <1>3, <1>4, <1>5

-----------------------------------------------------------------------------
(* Calls and scope.                                                        *)

LEMMA StackTop ==
  ASSUME CallsOk, stack # <<>>
  PROVE  /\ Len(stack) \in Nat \ {0} /\ DOMAIN stack = 1 .. Len(stack) /\ Len(stack) \in DOMAIN stack
         /\ Top = stack[Len(stack)] /\ FrameOk(rule, Top)
<1>1. Len(stack) \in Nat \ {0} /\ DOMAIN stack = 1 .. Len(stack)
  BY SequenceType DEF CallsOk
<1>2. Len(stack) \in DOMAIN stack
  BY <1>1
<1> QED BY <1>1, <1>2 DEF CallsOk, Top, Last

(* The loops whose closure has called another expression. *)
LoopsBelow ==
  {d \in 1 .. Len(stack) - 1 : rule.nodes[stack[d].node].op \in LoopOps /\ stack[d].vals # <<>>}

LEMMA OpenLoopsBelow ==
  ASSUME CallsOk, stack # <<>>
  PROVE  OpenLoops = IF InBody /\ ret # Nothing THEN LoopsBelow \cup {Len(stack)} ELSE LoopsBelow
<1>1. Len(stack) \in Nat \ {0} /\ DOMAIN stack = 1 .. Len(stack) /\ Top = stack[Len(stack)]
  BY StackTop
<1> QED BY <1>1 DEF OpenLoops, InBody, Node, Vals, LoopsBelow

LEMMA NoOpenLoops ==
  ASSUME stack = <<>>
  PROVE  OpenLoops = {}
BY EmptySequence DEF OpenLoops

LEMMA SameScope ==
  ASSUME ScopeOk, OpenLoops' = OpenLoops, \A d \in OpenLoops : stack'[d] = stack[d], elements' = elements
  PROVE  ScopeOk'
<1>1. IsSequence(elements') /\ \A k \in DOMAIN elements' : IsElement(elements'[k])
  BY DEF ScopeOk
<1>2. \A d \in OpenLoops' : Len(stack'[d].vals) <= Len(stack'[d].vals[1].list)
  BY DEF ScopeOk
<1>3. Len(elements') = Cardinality(OpenLoops')
  BY DEF ScopeOk, ScopeIsTheOpenLoops
<1>4. ASSUME NEW d \in OpenLoops'
      PROVE  elements'[Cardinality({e \in OpenLoops' : e <= d})] = Bound(d)'
  <2>1. elements[Cardinality({e \in OpenLoops : e <= d})] = Bound(d)
    BY DEF ScopeOk, ScopeIsTheOpenLoops
  <2>2. Bound(d)' = Bound(d)
    BY DEF Bound
  <2> QED BY <2>1, <2>2
<1> QED BY <1>1, <1>2, <1>3, <1>4 DEF ScopeOk, ScopeIsTheOpenLoops

LEMMA NewFrame ==
  ASSUME NEW r, NEW i \in DOMAIN r.nodes, ShapesOk(r)[i]
  PROVE  FrameOk(r, [node |-> i, vals |-> <<>>, acc |-> 0])
<1> DEFINE f == [node |-> i, vals |-> <<>>, acc |-> 0]
<1>1. f.node = i /\ f.vals = <<>> /\ f.acc = 0 /\ DOMAIN f = {"node", "vals", "acc"}
  OBVIOUS
<1>2. 0 \in Range128 /\ 0 \in Nat
  BY FixedAssumption DEF Range128, MIN
<1> HIDE DEF f
<1>3. TotalOk(r.nodes[i].op, f)
  BY <1>1, <1>2, Zenon DEF TotalOk
<1>4. \A k \in DOMAIN f.vals : FALSE
  BY <1>1, EmptySequence
<1> QED BY <1>1, <1>3, <1>4, EmptySequence, Zenon DEF FrameOk, f

(* A new call: the one that makes it, if a loop, is open when it has a list. *)
LEMMA CalledStack ==
  ASSUME CallsOk, NEW i \in DOMAIN rule.nodes, ShapesOk(rule)[i], Call(i), UNCHANGED rule
  PROVE  /\ CallsOk'
         /\ stack = <<>> => OpenLoops' = {}
         /\ stack # <<>> => OpenLoops' = IF InBody THEN LoopsBelow \cup {Len(stack)} ELSE LoopsBelow
         /\ \A d \in 1 .. Len(stack) : stack'[d] = stack[d]
<1> DEFINE new == [node |-> i, vals |-> <<>>, acc |-> 0]
           n == Len(stack)
<1>1. n \in Nat /\ DOMAIN stack = 1 .. n /\ IsSequence(stack) /\ (stack = <<>> <=> n = 0)
  BY SequenceType DEF CallsOk
<1>2. /\ IsSequence(stack') /\ Len(stack') = n + 1 /\ stack'[n + 1] = new
      /\ \A d \in 1 .. n : stack'[d] = stack[d]
  BY <1>1, Appended DEF Call
<1>3. DOMAIN stack' = 1 .. n + 1
  BY <1>2, SequenceType
<1>4. FrameOk(rule, new) /\ new.vals = <<>> /\ ret' = Nothing /\ rule' = rule
  BY NewFrame DEF Call
<1> HIDE DEF new
<1>5. CallsOk'
  <2>1. ASSUME NEW d \in 1 .. n + 1 PROVE FrameOk(rule, stack'[d])
    <3>1. CASE d = n + 1
      BY <1>2, <1>4, <3>1
    <3>2. CASE d # n + 1
      <4>1. d \in 1 .. n
        BY <1>1, <3>2
      <4> QED BY <1>1, <1>2, <4>1 DEF CallsOk
    <3> QED BY <3>1, <3>2
  <2> QED BY <1>2, <1>3, <1>4, <2>1 DEF CallsOk
<1>6. OpenLoops' = {d \in 1 .. n : rule.nodes[stack[d].node].op \in LoopOps /\ stack[d].vals # <<>>}
  BY <1>1, <1>2, <1>3, <1>4 DEF OpenLoops
<1>7. CASE stack = <<>>
  BY <1>1, <1>2, <1>5, <1>6, <1>7
<1>8. CASE stack # <<>>
  <2>1. Top = stack[n] /\ n > 0
    BY <1>1, <1>8, StackTop
  <2>2. OpenLoops' = IF InBody THEN LoopsBelow \cup {n} ELSE LoopsBelow
    BY <1>1, <1>6, <2>1 DEF InBody, Node, Vals, LoopsBelow
  <2> QED BY <1>2, <1>5, <1>8, <2>2
<1> QED BY <1>7, <1>8

LEMMA ReturnedStack ==
  ASSUME CallsOk, stack # <<>>, NEW r, GoodResult(r), Return(r), UNCHANGED rule
  PROVE  CallsOk' /\ OpenLoops' = LoopsBelow /\ \A d \in LoopsBelow : stack'[d] = stack[d]
<1> DEFINE n == Len(stack)
<1>1. n \in Nat \ {0} /\ DOMAIN stack = 1 .. n /\ IsSequence(stack)
  BY StackTop DEF CallsOk
<1>2. IsSequence(stack') /\ Len(stack') = n - 1 /\ \A d \in 1 .. n - 1 : stack'[d] = stack[d]
  BY <1>1, Fronted DEF Return
<1>3. DOMAIN stack' = 1 .. n - 1
  BY <1>2, SequenceType
<1>4. ret' = r /\ rule' = rule /\ r # Nothing
  BY GoodIsSomething DEF Return
<1>5. CallsOk'
  <2>1. ASSUME NEW d \in 1 .. n - 1 PROVE FrameOk(rule, stack'[d])
    BY <1>1, <1>2 DEF CallsOk
  <2> QED BY <1>2, <1>3, <1>4, <2>1 DEF CallsOk
<1>6. OpenLoops' = LoopsBelow
  BY <1>1, <1>2, <1>3, <1>4 DEF OpenLoops, LoopsBelow
<1> QED BY <1>2, <1>5, <1>6 DEF LoopsBelow

LEMMA ContinuedStack ==
  ASSUME CallsOk, stack # <<>>, NEW f, FrameOk(rule, f),
         stack' = [stack EXCEPT ![Len(stack)] = f], ret' = Nothing, UNCHANGED rule
  PROVE  CallsOk' /\ OpenLoops' = LoopsBelow /\ \A d \in LoopsBelow : stack'[d] = stack[d]
<1> DEFINE n == Len(stack)
<1>1. n \in Nat \ {0} /\ DOMAIN stack = 1 .. n /\ n \in 1 .. n /\ IsSequence(stack)
  BY StackTop DEF CallsOk
<1>2. /\ IsSequence(stack') /\ Len(stack') = n /\ stack'[n] = f
      /\ \A d \in 1 .. n : d # n => stack'[d] = stack[d]
  BY <1>1, Updated
<1>3. DOMAIN stack' = 1 .. n
  BY <1>2, SequenceType
<1>4. LoopsBelow = {d \in 1 .. n - 1 : rule.nodes[stack[d].node].op \in LoopOps /\ stack[d].vals # <<>>}
  BY DEF LoopsBelow
<1> HIDE DEF n
<1>5. \A d \in 1 .. n - 1 : d \in 1 .. n /\ d # n /\ d < n
  BY <1>1
<1>6. CallsOk'
  <2>1. ASSUME NEW d \in 1 .. n PROVE FrameOk(rule, stack'[d])
    BY <1>1, <1>2 DEF CallsOk
  <2> QED BY <1>2, <1>3, <2>1 DEF CallsOk
<1>7. OpenLoops' = LoopsBelow
  <2>1. ASSUME NEW d \in 1 .. n PROVE d \in OpenLoops' <=> d \in LoopsBelow
    BY <1>1, <1>2, <1>3, <1>4, <1>5 DEF OpenLoops
  <2> QED BY <1>3, <1>4, <1>5, <2>1 DEF OpenLoops
<1> QED BY <1>2, <1>4, <1>5, <1>6, <1>7

(* Outside the terms of a loop, a call opens and closes no scope. *)
LEMMA CallPreserves ==
  ASSUME CallsOk, ScopeOk, ret = Nothing, stack = <<>> \/ ~InBody,
         NEW i \in DOMAIN rule.nodes, ShapesOk(rule)[i], Call(i), UNCHANGED <<rule, elements>>
  PROVE  CallsOk' /\ ScopeOk'
<1>1. CallsOk' /\ \A d \in DOMAIN stack : stack'[d] = stack[d]
  BY CalledStack, SequenceType DEF CallsOk
<1>2. OpenLoops' = OpenLoops
  BY CalledStack, NoOpenLoops, OpenLoopsBelow
<1>3. \A d \in OpenLoops : stack'[d] = stack[d]
  BY <1>1 DEF OpenLoops
<1> QED BY <1>1, <1>2, <1>3, SameScope

LEMMA ReturnPreserves ==
  ASSUME CallsOk, ScopeOk, stack # <<>>, ret = Nothing \/ ~InBody,
         NEW r, GoodResult(r), Return(r), UNCHANGED <<rule, elements>>
  PROVE  CallsOk' /\ ScopeOk'
BY ReturnedStack, OpenLoopsBelow, SameScope

LEMMA ContinuePreserves ==
  ASSUME CallsOk, ScopeOk, stack # <<>>, ret = Nothing \/ ~InBody, NEW f, FrameOk(rule, f),
         stack' = [stack EXCEPT ![Len(stack)] = f], ret' = Nothing, UNCHANGED <<rule, elements>>
  PROVE  CallsOk' /\ ScopeOk'
BY ContinuedStack, OpenLoopsBelow, SameScope

(* The places of the open loops when an innermost one is added. *)
LEMMA Ranks ==
  ASSUME NEW n \in Nat \ {0}, NEW S \in SUBSET (1 .. n - 1)
  PROVE  /\ Cardinality(S) \in Nat /\ Cardinality(S \cup {n}) = Cardinality(S) + 1
         /\ {e \in S \cup {n} : e <= n} = S \cup {n}
         /\ \A d \in S : /\ d # n /\ {e \in S \cup {n} : e <= d} = {e \in S : e <= d}
                         /\ Cardinality({e \in S : e <= d}) \in 1 .. Cardinality(S)
<1>1. IsFiniteSet(S)
  <2>1. IsFiniteSet(1 .. n - 1)
    <3>1. 1 \in Int /\ n - 1 \in Int
      OBVIOUS
    <3> QED BY <3>1, FS_Interval
  <2> QED BY <2>1, FS_Subset
<1>2. n \notin S
  OBVIOUS
<1>3. Cardinality(S) \in Nat /\ Cardinality(S \cup {n}) = Cardinality(S) + 1
  BY <1>1, <1>2, FS_AddElement, FS_CardinalityType
<1>4. ASSUME NEW d \in S
      PROVE  Cardinality({e \in S : e <= d}) \in 1 .. Cardinality(S)
  <2> DEFINE T == {e \in S : e <= d}
  <2>1. T \subseteq S /\ d \in T
    OBVIOUS
  <2> HIDE DEF T
  <2>2. IsFiniteSet(T) /\ Cardinality(T) <= Cardinality(S)
    BY <1>1, <2>1, FS_Subset
  <2>3. Cardinality(T) \in Nat /\ Cardinality(T) # 0
    BY <2>1, <2>2, FS_CardinalityType, FS_EmptySet
  <2>4. Cardinality(T) \in 1 .. Cardinality(S)
    BY <1>3, <2>2, <2>3
  <2> QED BY <2>4 DEF T
<1>5. {e \in S \cup {n} : e <= n} = S \cup {n}
  <2>1. \A e \in S \cup {n} : e <= n
    OBVIOUS
  <2> QED BY <2>1, Zenon
<1>6. \A d \in S : d # n /\ {e \in S \cup {n} : e <= d} = {e \in S : e <= d}
  OBVIOUS
<1> QED BY <1>3, <1>4, <1>5, <1>6

(* The term of an item is evaluated with its record in scope ... *)
LEMMA LoopCallPreserves ==
  ASSUME CallsOk, ScopeOk, stack # <<>>, ret = Nothing, InBody, Len(Vals) <= Len(Items),
         NEW i \in DOMAIN rule.nodes, ShapesOk(rule)[i], Call(i), UNCHANGED rule,
         IsElement(Items[Len(Vals)].record), elements' = Append(elements, Items[Len(Vals)].record)
  PROVE  CallsOk' /\ ScopeOk'
<1> DEFINE n == Len(stack)
           S == LoopsBelow
           record == Items[Len(Vals)].record
<1>1. n \in Nat \ {0} /\ n \in 1 .. n /\ Vals = stack[n].vals /\ Items = stack[n].vals[1].list
  BY StackTop DEF Vals, Items
<1>2. S \in SUBSET (1 .. n - 1) /\ \A d \in S : d \in 1 .. n
  BY <1>1 DEF LoopsBelow
<1>3. CallsOk' /\ OpenLoops' = S \cup {n} /\ OpenLoops = S /\ \A d \in 1 .. n : stack'[d] = stack[d]
  BY CalledStack, OpenLoopsBelow
<1>4. IsSequence(elements) /\ Len(elements) \in Nat /\ DOMAIN elements = 1 .. Len(elements)
  BY SequenceType DEF ScopeOk
<1>5. /\ IsSequence(elements') /\ Len(elements') = Len(elements) + 1 /\ elements'[Len(elements) + 1] = record
      /\ \A k \in 1 .. Len(elements) : elements'[k] = elements[k]
  BY <1>4, Appended
<1>6. DOMAIN elements' = 1 .. Len(elements) + 1
  BY <1>5, SequenceType
<1>7. IsElement(record)
  OBVIOUS
<1>8. Len(stack[n].vals) <= Len(stack[n].vals[1].list)
  BY <1>1
<1> HIDE DEF n, S
<1>9. /\ Cardinality(S) \in Nat /\ Cardinality(S \cup {n}) = Cardinality(S) + 1
      /\ {e \in S \cup {n} : e <= n} = S \cup {n}
      /\ \A d \in S : /\ d # n /\ {e \in S \cup {n} : e <= d} = {e \in S : e <= d}
                      /\ Cardinality({e \in S : e <= d}) \in 1 .. Cardinality(S)
  BY <1>1, <1>2, Ranks
<1>10. Len(elements) = Cardinality(S) /\ \A d \in S : elements[Cardinality({e \in S : e <= d})] = Bound(d)
  BY <1>3 DEF ScopeOk, ScopeIsTheOpenLoops
<1>11. \A k \in DOMAIN elements' : IsElement(elements'[k])
  <2> SUFFICES ASSUME NEW k \in 1 .. Len(elements) + 1 PROVE IsElement(elements'[k])
    BY <1>6
  <2>1. k = Len(elements) + 1 \/ k \in 1 .. Len(elements)
    BY <1>4
  <2> HIDE DEF record
  <2> QED BY <1>4, <1>5, <1>7, <2>1 DEF ScopeOk
<1>12. \A d \in OpenLoops' : Len(stack'[d].vals) <= Len(stack'[d].vals[1].list)
  BY <1>1, <1>2, <1>3, <1>8 DEF ScopeOk
<1>13. \A d \in S \cup {n} : Bound(d)' = Bound(d)
  BY <1>1, <1>2, <1>3 DEF Bound
<1>14. ASSUME NEW d \in S \cup {n}
       PROVE  elements'[Cardinality({e \in S \cup {n} : e <= d})] = Bound(d)
  <2>1. CASE d = n
    <3>1. Bound(n) = record
      BY <1>1 DEF Bound
    <3> HIDE DEF record
    <3> QED BY <1>5, <1>9, <1>10, <2>1, <3>1
  <2>2. CASE d \in S
    <3> DEFINE rank == Cardinality({e \in S : e <= d})
    <3>1. Cardinality({e \in S \cup {n} : e <= d}) = rank /\ rank \in 1 .. Len(elements) /\ elements[rank] = Bound(d)
      BY <1>9, <1>10, <2>2
    <3> HIDE DEF rank
    <3> QED BY <1>5, <3>1
  <2> QED BY <2>1, <2>2
<1>15. ScopeIsTheOpenLoops'
  BY <1>3, <1>5, <1>9, <1>10, <1>13, <1>14 DEF ScopeIsTheOpenLoops
<1> QED BY <1>3, <1>5, <1>11, <1>12, <1>15 DEF ScopeOk

(* ... and the record leaves the scope when the term has its result. *)
LEMMA LoopPop ==
  ASSUME CallsOk, ScopeOk, stack # <<>>, ret # Nothing, InBody,
         OpenLoops' = LoopsBelow, \A d \in LoopsBelow : stack'[d] = stack[d], elements' = Front(elements)
  PROVE  ScopeOk'
<1> DEFINE n == Len(stack)
           S == LoopsBelow
<1>1. n \in Nat \ {0}
  BY StackTop
<1>2. S \in SUBSET (1 .. n - 1)
  BY DEF LoopsBelow
<1>3. OpenLoops = S \cup {n}
  BY OpenLoopsBelow
<1>4. IsSequence(elements) /\ Len(elements) \in Nat /\ DOMAIN elements = 1 .. Len(elements)
  BY SequenceType DEF ScopeOk
<1> HIDE DEF n, S
<1>5. /\ Cardinality(S) \in Nat /\ Cardinality(S \cup {n}) = Cardinality(S) + 1
      /\ {e \in S \cup {n} : e <= n} = S \cup {n}
      /\ \A d \in S : /\ d # n /\ {e \in S \cup {n} : e <= d} = {e \in S : e <= d}
                      /\ Cardinality({e \in S : e <= d}) \in 1 .. Cardinality(S)
  BY <1>1, <1>2, Ranks
<1>6. /\ Len(elements) = Cardinality(S) + 1
      /\ \A d \in S : elements[Cardinality({e \in S : e <= d})] = Bound(d)
  BY <1>3, <1>5 DEF ScopeOk, ScopeIsTheOpenLoops
<1>7. elements # <<>>
  BY <1>4, <1>5, <1>6, SequenceType
<1>8. /\ IsSequence(elements') /\ Len(elements') = Len(elements) - 1
      /\ \A k \in 1 .. Len(elements) - 1 : elements'[k] = elements[k]
  BY <1>4, <1>7, Fronted
<1>9. DOMAIN elements' = 1 .. Len(elements) - 1 /\ Len(elements) - 1 = Cardinality(S)
  BY <1>5, <1>6, <1>8, SequenceType
<1>10. \A k \in DOMAIN elements' : IsElement(elements'[k])
  <2>1. \A k \in 1 .. Len(elements) - 1 : k \in 1 .. Len(elements)
    BY <1>4
  <2> QED BY <1>4, <1>8, <1>9, <2>1 DEF ScopeOk
<1>11. \A d \in OpenLoops' : Len(stack'[d].vals) <= Len(stack'[d].vals[1].list)
  BY <1>3 DEF ScopeOk, S
<1>12. \A d \in S : Bound(d)' = Bound(d)
  BY DEF Bound, S
<1>13. ASSUME NEW d \in S
       PROVE  elements'[Cardinality({e \in S : e <= d})] = Bound(d)
  <2> DEFINE rank == Cardinality({e \in S : e <= d})
  <2>1. rank \in 1 .. Len(elements) - 1 /\ elements[rank] = Bound(d)
    BY <1>5, <1>6, <1>9
  <2> HIDE DEF rank
  <2>2. elements'[rank] = Bound(d)
    BY <1>8, <2>1
  <2> QED BY <2>2 DEF rank
<1>14. ScopeIsTheOpenLoops'
  <2>1. OpenLoops' = S
    BY DEF S
  <2> QED BY <1>8, <1>9, <1>12, <1>13, <2>1 DEF ScopeIsTheOpenLoops
<1> QED BY <1>8, <1>10, <1>11, <1>14 DEF ScopeOk

-----------------------------------------------------------------------------
(* The call on top of the stack.                                           *)

LEMMA Shapes ==
  ASSUME NEW node, ShapeOk(node)
  PROVE  /\ node.op \in PairOps => Len(node.args) = 2
         /\ node.op \in UnaryOps \cup {"not"} => Len(node.args) = 1
         /\ node.op = "const" => Len(node.literals) = 1 /\ ~Is(node.literals[1], "malformed")
         /\ node.op = "table" => \A k \in DOMAIN node.matches : Cardinality(DOMAIN node.matches[k].by) = 1
<1>1. CASE node.op \in PairOps
  <2>1. node.op \notin UnaryOps \cup {"not", "and", "or", "const", "table"}
    BY <1>1 DEF PairOps, ScalarPairOps, OrderOps, UnaryOps
  <2>2. Len(node.args) = 2
    BY <1>1, <2>1, Zenon DEF ShapeOk
  <2> QED BY <2>1, <2>2
<1>2. CASE node.op \in UnaryOps \cup {"not"}
  <2>1. node.op \notin PairOps \cup {"and", "or", "const", "table"}
    BY <1>2 DEF PairOps, ScalarPairOps, OrderOps, UnaryOps
  <2>2. Len(node.args) = 1
    BY <1>2, <2>1, Zenon DEF ShapeOk
  <2> QED BY <2>1, <2>2
<1>3. CASE node.op = "const"
  <2>1. node.op \notin PairOps \cup UnaryOps \cup {"not", "and", "or", "table"}
    BY <1>3 DEF PairOps, ScalarPairOps, OrderOps, UnaryOps
  <2>2. Len(node.literals) = 1 /\ ~Is(node.literals[1], "malformed")
    BY <1>3, <2>1, Zenon DEF ShapeOk
  <2> QED BY <2>1, <2>2
<1>4. CASE node.op = "table"
  <2>1. node.op \notin PairOps \cup UnaryOps \cup {"not", "and", "or", "const"}
    BY <1>4 DEF PairOps, ScalarPairOps, OrderOps, UnaryOps
  <2>2. \A k \in DOMAIN node.matches : Cardinality(DOMAIN node.matches[k].by) = 1
    BY <1>4, <2>1, Zenon DEF ShapeOk
  <2> QED BY <2>1, <2>2
<1> QED BY <1>1, <1>2, <1>3, <1>4

(* Every node under evaluation has been validated, with all below it. *)
LEMMA TopNode ==
  ASSUME Accepted, CallsOk, stack # <<>>
  PROVE  /\ IsNode(Node) /\ ShapeOk(Node)
         /\ \A c \in Children(Node) : c \in DOMAIN rule.nodes /\ ShapesOk(rule)[c]
         /\ IsSequence(Vals) /\ Len(Vals) \in Nat /\ DOMAIN Vals = 1 .. Len(Vals)
         /\ Vals = <<>> <=> Len(Vals) = 0
         /\ \A k \in 1 .. Len(Vals) : IsInput(Vals[k])
<1>1. FrameOk(rule, Top) /\ rule \in Rules
  BY StackTop DEF Accepted
<1>2. /\ DOMAIN rule.nodes = 1 .. Len(rule.nodes) /\ Len(rule.nodes) \in Nat
      /\ \A i \in DOMAIN rule.nodes : IsNode(rule.nodes[i]) /\ Children(rule.nodes[i]) \subseteq 1 .. i - 1
  BY <1>1, RulesAssumption
<1>3. Top.node \in DOMAIN rule.nodes /\ ShapesOk(rule)[Top.node] /\ Node = rule.nodes[Top.node]
  BY <1>1 DEF FrameOk, Node
<1>4. IsNode(Node) /\ Children(Node) \subseteq DOMAIN rule.nodes
  <2>1. \A i \in 1 .. Len(rule.nodes) : 1 .. i - 1 \subseteq 1 .. Len(rule.nodes)
    BY <1>2
  <2> QED BY <1>2, <1>3, <2>1
<1>5. ShapeOk(Node) /\ \A c \in Children(Node) : ShapesOk(rule)[c]
  BY <1>1, <1>3, ShapesOkHolds
<1>6. IsSequence(Vals) /\ \A k \in DOMAIN Vals : IsInput(Vals[k])
  BY <1>1 DEF FrameOk, Vals
<1>7. Len(Vals) \in Nat /\ DOMAIN Vals = 1 .. Len(Vals) /\ (Vals = <<>> <=> Len(Vals) = 0)
  BY <1>6, SequenceType
<1> QED BY <1>4, <1>5, <1>6, <1>7

LEMMA Operands ==
  ASSUME NEW node, IsNode(node), node.op # "table"
  PROVE  Len(node.args) \in Nat /\ \A k \in 1 .. Len(node.args) : node.args[k] \in Children(node)
BY DEF IsNode, Children, ToSet

LEMMA RestPreserves ==
  ASSUME Accepted, OutputsOk, Rest, stack # <<>>
  PROVE  Accepted' /\ OutputsOk'
BY DEF Accepted, OutputsOk, Rest

LEMMA ResultPreserves ==
  ASSUME Inv, stack # <<>>, ret = Nothing, NEW r, GoodResult(r), Return(r), UNCHANGED elements, Rest
  PROVE  Inv'
<1>1. Accepted /\ OutputsOk /\ CallsOk /\ ScopeOk
  BY DEF Inv
<1>2. Accepted' /\ OutputsOk' /\ UNCHANGED <<rule, elements>>
  BY <1>1, RestPreserves DEF Rest
<1>3. CallsOk' /\ ScopeOk'
  BY <1>1, <1>2, ReturnPreserves
<1> QED BY <1>2, <1>3 DEF Inv

LEMMA OperandPreserves ==
  ASSUME Inv, stack # <<>>, ret = Nothing, ~InBody, NEW c \in Children(Node), Call(c), UNCHANGED elements, Rest
  PROVE  Inv'
<1>1. Accepted /\ OutputsOk /\ CallsOk /\ ScopeOk
  BY DEF Inv
<1>2. Accepted' /\ OutputsOk' /\ UNCHANGED <<rule, elements>>
  BY <1>1, RestPreserves DEF Rest
<1>3. c \in DOMAIN rule.nodes /\ ShapesOk(rule)[c]
  BY <1>1, TopNode
<1>4. CallsOk' /\ ScopeOk'
  BY <1>1, <1>2, <1>3, CallPreserves
<1> QED BY <1>2, <1>4 DEF Inv

(* Operands from left to right, and a result when all are there. *)
LEMMA EagerPreserves ==
  ASSUME Inv, stack # <<>>, ret = Nothing, Node.op \notin LoopOps \cup {"table"},
         NEW arity, Len(Node.args) = arity, NEW r,
         IF Len(Vals) < arity THEN Call(Node.args[Len(Vals) + 1]) ELSE Return(r),
         ~(Len(Vals) < arity) => GoodResult(r),
         UNCHANGED elements, Rest
  PROVE  Inv'
<1>1. ~InBody /\ Len(Vals) \in Nat /\ IsNode(Node)
  BY TopNode DEF Inv, InBody
<1>2. CASE Len(Vals) < arity
  <2>1. arity \in Nat /\ \A k \in 1 .. arity : Node.args[k] \in Children(Node)
    BY <1>1, Operands
  <2>2. Len(Vals) + 1 \in 1 .. arity
    BY <1>1, <1>2, <2>1
  <2> QED BY <1>1, <1>2, <2>1, <2>2, OperandPreserves
<1>3. CASE ~(Len(Vals) < arity)
  BY <1>3, ResultPreserves
<1> QED BY <1>2, <1>3

-----------------------------------------------------------------------------
(* Evaluator::eval, one lemma per action.                                  *)

LEMMA LeafStep == ASSUME Inv, EvalLeaf PROVE Inv'
<1>1. stack # <<>> /\ ret = Nothing /\ UNCHANGED elements /\ Rest
  BY DEF EvalLeaf, Running
<1>2. IsNode(Node) /\ ShapeOk(Node) /\ Accepted /\ ScopeOk
  BY <1>1, TopNode DEF Inv
<1>3. CASE Running({"const"}) /\ Return(Constant(Node))
  <2>1. Node.op = "const"
    BY <1>3 DEF Running
  <2>2. Len(Node.literals) = 1 /\ ~Is(Node.literals[1], "malformed")
    BY <1>2, <2>1, Shapes
  <2>3. IsPlain(Node.literals[1])
    BY <1>2, <2>1, <2>2 DEF IsNode
  <2>4. Constant(Node) = Ok(Node.literals[1])
    BY <2>2 DEF Constant
  <2> QED BY <1>1, <1>3, <2>3, <2>4, PlainIsInput, GoodOk, ResultPreserves
<1>4. CASE Running({"input"}) /\ Return(Input(Node.name))
  <2>1. \A name \in DOMAIN inputs : IsInput(inputs[name])
    BY <1>2, InputsAssumption DEF Accepted
  <2>2. GoodResult(Input(Node.name))
    BY <2>1, GoodOk, GoodErr, Faults DEF Input
  <2> QED BY <1>1, <1>4, <2>2, ResultPreserves
<1>5. CASE Running({"field"}) /\ Return(Field(Node.name))
  <2>1. elements = <<>> \/ IsElement(Last(elements))
    <3>1. Len(elements) \in Nat /\ DOMAIN elements = 1 .. Len(elements) /\ (elements = <<>> <=> Len(elements) = 0)
      BY <1>2, SequenceType DEF ScopeOk
    <3>2. elements # <<>> => Len(elements) \in DOMAIN elements
      BY <3>1
    <3> QED BY <1>2, <3>2 DEF ScopeOk, Last
  <2>2. GoodResult(Field(Node.name))
    BY <2>1, PlainIsInput, GoodOk, GoodErr, Faults DEF Field, IsElement
  <2> QED BY <1>1, <1>5, <2>2, ResultPreserves
<1> QED BY <1>3, <1>4, <1>5 DEF EvalLeaf

LEMMA ArithmeticStep == ASSUME Inv, EvalArithmetic PROVE Inv'
<1>1. stack # <<>> /\ ret = Nothing /\ UNCHANGED elements /\ Rest
  BY DEF EvalArithmetic, Running
<1>2. IsNode(Node) /\ ShapeOk(Node) /\ Len(Vals) \in Nat /\ DOMAIN Vals = 1 .. Len(Vals)
      /\ \A k \in 1 .. Len(Vals) : IsInput(Vals[k])
  BY <1>1, TopNode DEF Inv
<1>3. Node.op \in ScalarPairOps \cup UnaryOps => \A k \in 1 .. Len(Vals) : Vals[k].scalar \in Range128
  <2>1. FrameOk(rule, Top)
    BY <1>1, StackTop DEF Inv
  <2>2. Node.op \in ScalarPairOps \cup UnaryOps => \A k \in 1 .. Len(Vals) : Is(Vals[k], "scalar")
    BY <1>2, <2>1 DEF FrameOk, Node, Vals
  <2> QED BY <1>2, <2>2, Variants
<1>4. CASE /\ Running(ScalarPairOps)
           /\ Eager(2, LAMBDA v : AsScalar(Arithmetic(Node.op, v[1].scalar, v[2].scalar)))
  <2> DEFINE r == AsScalar(Arithmetic(Node.op, Vals[1].scalar, Vals[2].scalar))
  <2>1. Node.op \in ScalarPairOps /\ Node.op \in PairOps /\ Node.op \notin LoopOps \cup {"table"}
    BY <1>4 DEF Running, PairOps, ScalarPairOps, LoopOps
  <2>2. Len(Node.args) = 2
    BY <1>2, <2>1, Shapes
  <2>3. IF Len(Vals) < 2 THEN Call(Node.args[Len(Vals) + 1]) ELSE Return(r)
    BY <1>4, <2>2 DEF Eager
  <2>4. ~(Len(Vals) < 2) => GoodResult(r)
    <3> SUFFICES ASSUME ~(Len(Vals) < 2) PROVE GoodResult(r)
      OBVIOUS
    <3>1. 1 \in 1 .. Len(Vals) /\ 2 \in 1 .. Len(Vals)
      BY <1>2
    <3> QED BY <1>3, <2>1, <3>1, ArithmeticNumeric, AsScalarGood
  <2> HIDE DEF r
  <2> QED BY <1>1, <2>1, <2>2, <2>3, <2>4, EagerPreserves
<1>5. CASE /\ Running(UnaryOps)
           /\ Eager(1, LAMBDA v : AsScalar(Unary(Node.op, v[1].scalar)))
  <2> DEFINE r == AsScalar(Unary(Node.op, Vals[1].scalar))
  <2>1. Node.op \in UnaryOps /\ Node.op \notin LoopOps \cup {"table"}
    BY <1>5 DEF Running, UnaryOps, LoopOps
  <2>2. Len(Node.args) = 1
    BY <1>2, <2>1, Shapes
  <2>3. IF Len(Vals) < 1 THEN Call(Node.args[Len(Vals) + 1]) ELSE Return(r)
    BY <1>5, <2>2 DEF Eager
  <2>4. ~(Len(Vals) < 1) => GoodResult(r)
    <3> SUFFICES ASSUME ~(Len(Vals) < 1) PROVE GoodResult(r)
      OBVIOUS
    <3>1. 1 \in 1 .. Len(Vals)
      BY <1>2
    <3> QED BY <1>3, <2>1, <3>1, UnaryNumeric, AsScalarGood
  <2> HIDE DEF r
  <2> QED BY <1>1, <2>1, <2>2, <2>3, <2>4, EagerPreserves
<1> QED BY <1>4, <1>5 DEF EvalArithmetic

LEMMA ComparisonStep == ASSUME Inv, EvalComparison PROVE Inv'
<1>1. stack # <<>> /\ ret = Nothing /\ UNCHANGED elements /\ Rest
  BY DEF EvalComparison, Running
<1>2. IsNode(Node) /\ ShapeOk(Node) /\ Len(Vals) \in Nat /\ \A k \in 1 .. Len(Vals) : IsInput(Vals[k])
  BY <1>1, TopNode DEF Inv
<1>3. CASE /\ Running({"eq", "ne"})
           /\ Eager(2, LAMBDA v : AsBool(Equality(Node.op, v[1], v[2])))
  <2> DEFINE r == AsBool(Equality(Node.op, Vals[1], Vals[2]))
  <2>1. Node.op \in PairOps /\ Node.op \notin LoopOps \cup {"table"}
    BY <1>3 DEF Running, PairOps, LoopOps
  <2>2. Len(Node.args) = 2
    BY <1>2, <2>1, Shapes
  <2>3. IF Len(Vals) < 2 THEN Call(Node.args[Len(Vals) + 1]) ELSE Return(r)
    BY <1>3, <2>2 DEF Eager
  <2>4. GoodResult(r)
    BY EqualityFault, AsBoolGood
  <2> HIDE DEF r
  <2> QED BY <1>1, <2>1, <2>2, <2>3, <2>4, EagerPreserves
<1>4. CASE /\ Running(OrderOps)
           /\ Eager(2, LAMBDA v : AsBool(Order(Node.op, v[1], v[2])))
  <2> DEFINE r == AsBool(Order(Node.op, Vals[1], Vals[2]))
  <2>1. Node.op \in PairOps /\ Node.op \notin LoopOps \cup {"table"}
    BY <1>4 DEF Running, PairOps, OrderOps, LoopOps
  <2>2. Len(Node.args) = 2
    BY <1>2, <2>1, Shapes
  <2>3. IF Len(Vals) < 2 THEN Call(Node.args[Len(Vals) + 1]) ELSE Return(r)
    BY <1>4, <2>2 DEF Eager
  <2>4. ~(Len(Vals) < 2) => GoodResult(r)
    <3> SUFFICES ASSUME ~(Len(Vals) < 2) PROVE GoodResult(r)
      OBVIOUS
    <3>1. 1 \in 1 .. Len(Vals) /\ 2 \in 1 .. Len(Vals)
      BY <1>2
    <3> QED BY <1>2, <3>1, OrderFault, AsBoolGood
  <2> HIDE DEF r
  <2> QED BY <1>1, <2>1, <2>2, <2>3, <2>4, EagerPreserves
<1> QED BY <1>3, <1>4 DEF EvalComparison

LEMMA LogicStep == ASSUME Inv, EvalLogic PROVE Inv'
<1>1. stack # <<>> /\ ret = Nothing /\ UNCHANGED elements /\ Rest
  BY DEF EvalLogic, Running
<1>2. IsNode(Node) /\ ShapeOk(Node) /\ Len(Vals) \in Nat
  BY <1>1, TopNode DEF Inv
<1>3. CASE Running({"not"}) /\ Eager(1, LAMBDA v : Ok(Bool(~v[1].bool)))
  <2> DEFINE r == Ok(Bool(~Vals[1].bool))
  <2>1. Node.op = "not" /\ Node.op \notin LoopOps \cup {"table"}
    BY <1>3 DEF Running, LoopOps
  <2>2. Len(Node.args) = 1
    BY <1>2, <2>1, Shapes
  <2>3. IF Len(Vals) < 1 THEN Call(Node.args[Len(Vals) + 1]) ELSE Return(r)
    BY <1>3, <2>2 DEF Eager
  <2>4. GoodResult(r)
    BY Built, GoodOk
  <2> HIDE DEF r
  <2> QED BY <1>1, <2>1, <2>2, <2>3, <2>4, EagerPreserves
<1>4. CASE Running({"and", "or"})
  <2>1. Node.op \notin LoopOps \cup {"table"} /\ ~InBody /\ Node.op \notin {"not"}
    BY <1>4 DEF Running, LoopOps, InBody
  <2>2. \/ Return(Ok(Bool(Decides(Node.op)))) \/ Return(Ok(Bool(~Decides(Node.op))))
        \/ Len(Vals) < Len(Node.args) /\ Call(Node.args[Len(Vals) + 1])
    BY <2>1 DEF EvalLogic, Running
  <2>3. ASSUME NEW b, Return(Ok(Bool(b))) PROVE Inv'
    BY <1>1, <2>3, Built, GoodOk, ResultPreserves
  <2>4. ASSUME Len(Vals) < Len(Node.args), Call(Node.args[Len(Vals) + 1]) PROVE Inv'
    <3>1. Len(Node.args) \in Nat /\ \A k \in 1 .. Len(Node.args) : Node.args[k] \in Children(Node)
      BY <1>2, <2>1, Operands
    <3>2. Len(Vals) + 1 \in 1 .. Len(Node.args)
      BY <1>2, <2>4, <3>1
    <3> QED BY <1>1, <2>1, <2>4, <3>1, <3>2, OperandPreserves
  <2> QED BY <2>2, <2>3, <2>4
<1> QED BY <1>3, <1>4 DEF EvalLogic

LEMMA SelectStep == ASSUME Inv, EvalSelect PROVE Inv'
<1>1. stack # <<>> /\ ret = Nothing /\ UNCHANGED elements /\ Rest /\ Node.op = "select"
  BY DEF EvalSelect, Running
<1>2. /\ IsNode(Node) /\ Len(Vals) \in Nat /\ \A k \in 1 .. Len(Vals) : IsInput(Vals[k])
  BY <1>1, TopNode DEF Inv
<1>3. ~InBody /\ Len(Node.args) = 3
  BY <1>1, <1>2 DEF InBody, LoopOps, IsNode
<1>4. \A k \in {1, 2, 3} : Node.args[k] \in Children(Node)
  BY <1>1, <1>2, <1>3, Operands
<1>5. CASE Len(Vals) > 1 /\ Return(Ok(Vals[2]))
  <2>1. 2 \in 1 .. Len(Vals)
    BY <1>2, <1>5
  <2> QED BY <1>1, <1>2, <1>5, <2>1, GoodOk, ResultPreserves
<1>6. ASSUME NEW k \in {1, 2, 3}, Call(Node.args[k]) PROVE Inv'
  BY <1>1, <1>3, <1>4, <1>6, OperandPreserves
<1>7. (Len(Vals) > 1 /\ Return(Ok(Vals[2]))) \/ \E k \in {1, 2, 3} : Call(Node.args[k])
  BY DEF EvalSelect
<1> QED BY <1>5, <1>6, <1>7

LEMMA TableStep == ASSUME Inv, EvalTable PROVE Inv'
<1> DEFINE file == IF Node.table \in DOMAIN TableFiles THEN TableFiles[Node.table] ELSE Err("UnknownTable")
           by == Node.matches[Len(Vals) + 1].by
           k == SelectRow(file.val, BoundPredicates(Node.matches, Vals))
           r == IF k = 0 THEN Err("MissingRow") ELSE ReadCell(file.val[k], Node.column, Node.cell)
<1>1. stack # <<>> /\ ret = Nothing /\ UNCHANGED elements /\ Rest /\ Node.op = "table"
  BY DEF EvalTable, Running
<1>2. IsNode(Node) /\ ShapeOk(Node) /\ Len(Vals) \in Nat
  BY <1>1, TopNode DEF Inv
<1>3. \A m \in DOMAIN Node.matches : Cardinality(DOMAIN Node.matches[m].by) = 1
  BY <1>1, <1>2, Shapes
<1>4. \/ ~file.ok /\ Return(file)
      \/ Len(Vals) < Len(Node.matches) /\ Cardinality(DOMAIN by) # 1
      \/ Len(Vals) < Len(Node.matches) /\ Cardinality(DOMAIN by) = 1 /\ Call(by[CHOOSE m \in DOMAIN by : TRUE])
      \/ Return(r)
  BY Zenon DEF EvalTable
<1>5. CASE ~file.ok /\ Return(file)
  <2>1. GoodResult(file)
    BY <1>5, TablesAssumption, GoodErr, Faults DEF GoodResult
  <2> HIDE DEF file
  <2> QED BY <1>1, <1>5, <2>1, ResultPreserves
<1>6. ASSUME Len(Vals) < Len(Node.matches)
      PROVE  Len(Vals) + 1 \in DOMAIN Node.matches /\ Cardinality(DOMAIN by) = 1
  <2>1. DOMAIN Node.matches = 1 .. Len(Node.matches) /\ Len(Node.matches) \in Nat
    BY <1>1, <1>2 DEF IsNode
  <2>2. Len(Vals) + 1 \in DOMAIN Node.matches
    BY <1>2, <1>6, <2>1
  <2> QED BY <1>3, <2>2
<1>7. CASE Len(Vals) < Len(Node.matches) /\ Call(by[CHOOSE m \in DOMAIN by : TRUE])
  <2> DEFINE m == CHOOSE m \in DOMAIN by : TRUE
  <2>1. DOMAIN by # {}
    <3>1. Cardinality(DOMAIN by) = 1
      BY <1>6, <1>7
    <3>2. Cardinality({}) = 0
      BY FS_EmptySet
    <3> HIDE DEF by
    <3> QED BY <3>1, <3>2
  <2>2. m \in DOMAIN by
    BY <2>1
  <2>3. by[m] \in Children(Node)
    <3> DEFINE q == Len(Vals) + 1
    <3>1. q \in DOMAIN Node.matches /\ m \in DOMAIN Node.matches[q].by /\ by[m] = Node.matches[q].by[m]
      BY <1>6, <1>7, <2>2
    <3> HIDE DEF q, m, by
    <3>2. Node.matches[q].by[m] \in Children(Node)
      BY <1>1, <3>1 DEF Children
    <3> QED BY <3>1, <3>2
  <2>4. ~InBody
    BY <1>1 DEF InBody, LoopOps
  <2> HIDE DEF by
  <2> QED BY <1>1, <1>7, <2>3, <2>4, OperandPreserves
<1>8. CASE Return(r)
  <2>1. GoodResult(r)
    <3> HIDE DEF k
    <3> QED BY ReadCellGood, GoodErr, Faults
  <2> HIDE DEF r
  <2> QED BY <1>1, <1>8, <2>1, ResultPreserves
<1> QED BY <1>4, <1>5, <1>6, <1>7, <1>8

(* A frame with one more operand. *)
LEMMA LongerFrame ==
  ASSUME NEW r, NEW f, FrameOk(r, f), NEW v, IsInput(v), NEW a, NEW g,
         g = [f EXCEPT !.vals = Append(f.vals, v), !.acc = a],
         r.nodes[f.node].op \in ScalarPairOps \cup UnaryOps => Is(v, "scalar"),
         r.nodes[f.node].op \in LoopOps /\ f.vals = <<>> => Is(v, "list"),
         r.nodes[f.node].op \in LoopOps /\ f.vals # <<>> => Len(f.vals) <= Len(f.vals[1].list),
         a \in Range128,
         r.nodes[f.node].op = "count" => a \in Nat /\ a <= Len(f.vals)
  PROVE  FrameOk(r, g)
<1> DEFINE n == Len(f.vals)
           op == r.nodes[f.node].op
<1>1. DOMAIN f = {"node", "vals", "acc"} /\ IsSequence(f.vals)
  BY DEF FrameOk
<1>2. g.node = f.node /\ g.vals = Append(f.vals, v) /\ g.acc = a /\ DOMAIN g = {"node", "vals", "acc"}
  BY <1>1
<1>3. n \in Nat /\ DOMAIN f.vals = 1 .. n /\ (f.vals = <<>> <=> n = 0)
  BY <1>1, SequenceType
<1>4. /\ IsSequence(g.vals) /\ Len(g.vals) = n + 1 /\ g.vals[n + 1] = v
      /\ \A k \in 1 .. n : g.vals[k] = f.vals[k]
  BY <1>1, <1>2, Appended
<1> HIDE DEF n, op
<1>5. DOMAIN g.vals = 1 .. n + 1 /\ g.vals # <<>>
  <2>1. DOMAIN g.vals = 1 .. Len(g.vals) /\ (g.vals = <<>> <=> Len(g.vals) = 0)
    BY <1>4, SequenceType
  <2> QED BY <1>3, <1>4, <2>1
<1>6. \A k \in 1 .. n + 1 : k = n + 1 \/ k \in 1 .. n
  BY <1>3
<1>7. \A k \in DOMAIN g.vals : IsInput(g.vals[k])
  BY <1>3, <1>4, <1>5, <1>6 DEF FrameOk
<1>8. op \in ScalarPairOps \cup UnaryOps => \A k \in DOMAIN g.vals : Is(g.vals[k], "scalar")
  BY <1>3, <1>4, <1>5, <1>6 DEF FrameOk, op
<1>9. op \in LoopOps => Is(g.vals[1], "list") /\ Len(g.vals) - 1 <= Len(g.vals[1].list)
  <2>1. CASE f.vals = <<>>
    <3>1. g.vals[1] = v /\ Len(g.vals) - 1 = 0
      BY <1>3, <1>4, <2>1
    <3>2. Is(v, "list") => Len(v.list) \in 0 .. MAX
      BY Variants
    <3>3. \A m \in 0 .. MAX : 0 <= m
      BY FixedAssumption
    <3> QED BY <2>1, <3>1, <3>2, <3>3 DEF op
  <2>2. CASE f.vals # <<>>
    <3>1. 1 \in 1 .. n /\ Len(g.vals) - 1 = n
      BY <1>3, <1>4, <2>2
    <3>2. op \in LoopOps => Is(f.vals[1], "list") /\ n <= Len(f.vals[1].list)
      BY <2>2 DEF FrameOk, op, n
    <3> QED BY <1>4, <3>1, <3>2
  <2> QED BY <2>1, <2>2
<1>10. TotalOk(op, g)
  <2>1. Len(g.vals) - 1 = n
    BY <1>3, <1>4
  <2> QED BY <1>2, <1>5, <2>1 DEF TotalOk, op, n
<1> QED BY <1>2, <1>4, <1>7, <1>8, <1>9, <1>10 DEF FrameOk, op

(* The updates of the frame on top, as updates of one frame. *)
LEMMA TopUpdate ==
  ASSUME CallsOk, stack # <<>>, NEW v, NEW a, NEW t,
         \/ t = [stack EXCEPT ![Len(stack)].vals = Append(@, v), ![Len(stack)].acc = a]
         \/ t = [stack EXCEPT ![Len(stack)].vals = Append(@, v), ![Len(stack)].acc = @ + 1] /\ a = Top.acc + 1
         \/ t = [stack EXCEPT ![Len(stack)].vals = Append(@, v)] /\ a = Top.acc
  PROVE  t = [stack EXCEPT ![Len(stack)] = [Top EXCEPT !.vals = Append(Top.vals, v), !.acc = a]]
<1>1. Len(stack) \in DOMAIN stack /\ Top = stack[Len(stack)] /\ DOMAIN Top = {"node", "vals", "acc"}
  BY StackTop DEF FrameOk
<1> QED BY <1>1

LEMMA LoopFrame ==
  ASSUME Accepted, CallsOk, stack # <<>>, InBody
  PROVE  /\ Len(Vals) \in Nat \ {0} /\ Node.op \in LoopOps /\ FrameOk(rule, Top)
         /\ Node = rule.nodes[Top.node] /\ Vals = Top.vals
         /\ DOMAIN Items = 1 .. Len(Items) /\ Len(Items) \in Nat /\ Len(Items) <= MAX
         /\ \A k \in DOMAIN Items : Is(Items[k], "record") => IsElement(Items[k].record)
         /\ Len(Vals) - 1 <= Len(Items)
         /\ Top.acc \in Range128
         /\ Node.op = "count" => Top.acc \in Nat /\ Top.acc <= Len(Vals) - 1
<1>1. FrameOk(rule, Top) /\ Vals # <<>> /\ Node.op \in LoopOps
  BY StackTop DEF InBody
<1>2. Len(Vals) \in Nat \ {0} /\ IsInput(Vals[1])
  <2>1. Len(Vals) \in Nat /\ Len(Vals) # 0 /\ \A k \in 1 .. Len(Vals) : IsInput(Vals[k])
    BY <1>1, TopNode
  <2>2. 1 \in 1 .. Len(Vals)
    BY <2>1
  <2> QED BY <2>1, <2>2
<1>3. Node = rule.nodes[Top.node] /\ Vals = Top.vals
  BY DEF Node, Vals
<1>4. Is(Vals[1], "list") /\ Len(Vals) - 1 <= Len(Items) /\ TotalOk(Node.op, Top)
  BY <1>1, <1>3 DEF FrameOk, Items
<1>5. /\ DOMAIN Items = 1 .. Len(Items) /\ Len(Items) \in 0 .. MAX
      /\ \A k \in DOMAIN Items : Is(Items[k], "record") => IsElement(Items[k].record)
  BY <1>2, <1>4, Variants DEF Items
<1>6. Len(Items) \in Nat /\ Len(Items) <= MAX
  BY <1>5, FixedAssumption
<1>7. Top.acc \in Range128 /\ (Node.op = "count" => Top.acc \in Nat /\ Top.acc <= Len(Vals) - 1)
  BY <1>1, <1>3, <1>4 DEF TotalOk
<1> QED BY <1>1, <1>2, <1>3, <1>4, <1>5, <1>6, <1>7

LEMMA LoopStep == ASSUME Inv, EvalLoop PROVE Inv'
<1>1. stack # <<>> /\ ret = Nothing /\ Rest /\ Node.op \in LoopOps
  BY DEF EvalLoop, Running
<1>2. Accepted /\ OutputsOk /\ CallsOk /\ ScopeOk /\ IsNode(Node)
  BY <1>1, TopNode DEF Inv
<1>3. Accepted' /\ OutputsOk' /\ UNCHANGED rule
  BY <1>1, <1>2, RestPreserves DEF Rest
<1>4. /\ Len(Node.args) \in {1, 2} /\ (Node.op = "sum" => Len(Node.args) = 2)
      /\ \A k \in 1 .. Len(Node.args) : Node.args[k] \in Children(Node)
  BY <1>1, <1>2, Operands DEF IsNode, LoopOps
<1>5. CASE Vals = <<>>
  <2>1. Call(Node.args[1]) /\ UNCHANGED elements /\ ~InBody
    BY <1>5 DEF EvalLoop, InBody
  <2>2. Node.args[1] \in Children(Node)
    BY <1>4
  <2> QED BY <1>1, <2>1, <2>2, OperandPreserves
<1>6. CASE Vals # <<>>
  <2>1. InBody
    BY <1>1, <1>6 DEF InBody
  <2>2. /\ Len(Vals) \in Nat \ {0} /\ FrameOk(rule, Top) /\ Node = rule.nodes[Top.node] /\ Vals = Top.vals
        /\ DOMAIN Items = 1 .. Len(Items) /\ Len(Items) \in Nat /\ Len(Items) <= MAX
        /\ \A k \in DOMAIN Items : Is(Items[k], "record") => IsElement(Items[k].record)
        /\ Len(Vals) - 1 <= Len(Items) /\ Top.acc \in Range128
        /\ Node.op = "count" => Top.acc \in Nat /\ Top.acc <= Len(Vals) - 1
    BY <1>1, <1>2, <2>1, LoopFrame
  <2>3. CASE Len(Vals) - 1 = Len(Items)
    <3>1. /\ UNCHANGED elements
          /\ Return(Ok(Scalar(Top.acc))) \/ Return(AsScalar(Checked(Top.acc * SCALE)))
      BY <1>6, <2>3 DEF EvalLoop
    <3>2. GoodResult(Ok(Scalar(Top.acc))) /\ GoodResult(AsScalar(Checked(Top.acc * SCALE)))
      BY <2>2, Built, GoodOk, CheckedNumeric, AsScalarGood
    <3>3. ASSUME NEW r, GoodResult(r), Return(r) PROVE Inv'
      BY <1>1, <3>1, <3>3, ResultPreserves
    <3> QED BY <3>1, <3>2, <3>3
  <2>4. CASE Len(Vals) - 1 # Len(Items) /\ Len(Node.args) = 1
    <3> DEFINE f == [Top EXCEPT !.vals = Append(Top.vals, Bool(TRUE)), !.acc = Top.acc + 1]
    <3>1. /\ stack' = [stack EXCEPT ![Len(stack)].vals = Append(@, Bool(TRUE)), ![Len(stack)].acc = @ + 1]
          /\ UNCHANGED <<elements, ret>>
      BY <1>6, <2>4 DEF EvalLoop
    <3>2. stack' = [stack EXCEPT ![Len(stack)] = f] /\ ret' = Nothing
      BY <1>1, <1>2, <3>1, TopUpdate
    <3>3. Node.op = "count"
      BY <1>1, <1>4, <2>4 DEF LoopOps
    <3>4. /\ Len(Top.vals) <= Len(Top.vals[1].list) /\ Top.vals # <<>>
          /\ Top.acc + 1 \in Nat /\ Top.acc + 1 <= Len(Top.vals) /\ Top.acc + 1 \in Range128
      <4>1. Len(Vals) <= Len(Items) /\ Top.acc + 1 \in Nat /\ Top.acc + 1 <= Len(Vals) /\ Top.acc + 1 <= MAX
        <5>1. \A v \in Nat \ {0} : \A n, a, max \in Nat :
                 v - 1 <= n /\ v - 1 # n /\ n <= max /\ a <= v - 1 => v <= n /\ a + 1 \in Nat /\ a + 1 <= v /\ a + 1 <= max
          OBVIOUS
        <5>2. MAX \in Nat
          BY FixedAssumption
        <5> QED BY <2>2, <2>4, <3>3, <5>1, <5>2
      <4>2. Top.acc + 1 \in Range128
        BY <4>1, FixedAssumption DEF Range128, MIN
      <4> QED BY <1>6, <2>2, <4>1, <4>2 DEF Items
    <3>5. rule.nodes[Top.node].op = "count" /\ "count" \notin ScalarPairOps \cup UnaryOps /\ IsInput(Bool(TRUE))
      BY <2>2, <3>3, Built DEF ScalarPairOps, UnaryOps
    <3>6. FrameOk(rule, f)
      BY <2>2, <3>4, <3>5, LongerFrame
    <3> HIDE DEF f
    <3>7. CallsOk' /\ ScopeOk'
      BY <1>1, <1>2, <1>3, <3>1, <3>2, <3>6, ContinuePreserves
    <3> QED BY <1>3, <3>7 DEF Inv
  <2>5. CASE Len(Vals) - 1 # Len(Items) /\ Len(Node.args) # 1
    <3> DEFINE item == Items[Len(Vals)]
    <3>1. Len(Vals) \in DOMAIN Items /\ Len(Vals) <= Len(Items) /\ Len(Node.args) = 2
      BY <1>4, <2>2, <2>5
    <3>2. CASE Is(item, "record")
      <4>1. Call(Node.args[2]) /\ elements' = Append(elements, item.record) /\ IsElement(item.record)
        BY <1>6, <2>2, <2>5, <3>1, <3>2 DEF EvalLoop
      <4>2. Node.args[2] \in DOMAIN rule.nodes /\ ShapesOk(rule)[Node.args[2]]
        BY <1>1, <1>2, <1>4, <3>1, TopNode
      <4>3. CallsOk' /\ ScopeOk'
        BY <1>1, <1>2, <1>3, <2>1, <3>1, <4>1, <4>2, LoopCallPreserves
      <4> QED BY <1>3, <4>3 DEF Inv
    <3>3. CASE ~Is(item, "record")
      <4>1. Return(Err("TypeMismatch")) /\ UNCHANGED elements
        BY <1>6, <2>5, <3>3 DEF EvalLoop
      <4> QED BY <1>1, <4>1, GoodErr, Faults, ResultPreserves
    <3> QED BY <3>2, <3>3
  <2> QED BY <2>3, <2>4, <2>5
<1> QED BY <1>5, <1>6

LEMMA LoopTermStep == ASSUME Inv, LoopTerm PROVE Inv'
<1> DEFINE term == AndThen(ret, LAMBDA v : As(v, IF Node.op = "sum" THEN "scalar" ELSE "bool"))
           acc == AndThen(term, LAMBDA x :
                    IF Node.op = "sum" THEN TryAdd(Top.acc, x) ELSE Ok(Top.acc + IF x THEN 1 ELSE 0))
           f == [Top EXCEPT !.vals = Append(Top.vals, ret.val), !.acc = acc.val]
<1>1. stack # <<>> /\ ret # Nothing /\ InBody /\ elements' = Front(elements) /\ Rest
  BY DEF LoopTerm
<1>2. Accepted /\ OutputsOk /\ CallsOk /\ ScopeOk /\ GoodResult(ret)
  BY <1>1 DEF Inv, CallsOk
<1>3. Accepted' /\ OutputsOk' /\ UNCHANGED rule
  BY <1>1, <1>2, RestPreserves DEF Rest
<1>4. /\ Len(Vals) \in Nat \ {0} /\ Node.op \in LoopOps /\ FrameOk(rule, Top)
      /\ Node = rule.nodes[Top.node] /\ Vals = Top.vals
      /\ Len(Items) \in Nat /\ Len(Items) <= MAX /\ Top.acc \in Range128
      /\ Node.op = "count" => Top.acc \in Nat /\ Top.acc <= Len(Vals) - 1
  BY <1>1, <1>2, LoopFrame
<1>5. Len(Vals) <= Len(Items)
  <2>1. Len(stack) \in OpenLoops
    BY <1>1, <1>2, OpenLoopsBelow
  <2>2. Top = stack[Len(stack)]
    BY <1>1, <1>2, StackTop
  <2> QED BY <1>2, <2>1, <2>2 DEF ScopeOk, Vals, Items
<1>6. IF acc.ok THEN /\ stack' = [stack EXCEPT ![Len(stack)].vals = Append(@, ret.val),
                                              ![Len(stack)].acc = acc.val]
                     /\ ret' = Nothing
      ELSE Return(acc)
  BY DEF LoopTerm
<1>7. IF term.ok THEN ret.ok ELSE term.err \in Fault
  BY <1>2, Faults DEF AndThen, As, Ok, Err, GoodResult, Fault
<1>8. CASE acc.ok
  <2>1. ret.ok /\ IsInput(ret.val)
    <3>1. term.ok
      <4> HIDE DEF term
      <4> QED BY <1>8 DEF AndThen
    <3> QED BY <1>2, <1>7, <3>1 DEF GoodResult
  <2>2. acc.val \in Range128 /\ (Node.op = "count" => acc.val \in Nat /\ acc.val <= Len(Vals))
    <3>1. CASE Node.op = "sum"
      <4>1. acc = TryAdd(Top.acc, term.val)
        <5> HIDE DEF term
        <5> QED BY <1>8, <3>1 DEF AndThen
      <4>2. Numeric(acc)
        BY <4>1, CheckedNumeric DEF TryAdd
      <4> QED BY <1>8, <3>1, <4>2 DEF Numeric
    <3>2. CASE Node.op = "count"
      <4>1. acc.val = Top.acc + 1 \/ acc.val = Top.acc + 0
        <5> HIDE DEF term
        <5>1. acc = Ok(Top.acc + IF term.val THEN 1 ELSE 0)
          BY <1>8, <3>2 DEF AndThen
        <5> HIDE DEF acc
        <5>2. acc.val = Top.acc + IF term.val THEN 1 ELSE 0
          BY <5>1 DEF Ok
        <5> QED BY <5>2, Zenon
      <4> HIDE DEF acc
      <4>2. acc.val \in Nat /\ acc.val <= Len(Vals) /\ acc.val <= MAX
        BY <1>4, <1>5, <3>2, <4>1, FixedAssumption
      <4> QED BY <4>2, FixedAssumption DEF Range128, MIN
    <3> QED BY <1>4, <3>1, <3>2 DEF LoopOps
  <2> HIDE DEF acc, term
  <2>3. stack' = [stack EXCEPT ![Len(stack)] = f] /\ ret' = Nothing
    BY <1>1, <1>2, <1>6, <1>8, TopUpdate
  <2>4. FrameOk(rule, f)
    <3>1. Top.vals # <<>> /\ Len(Top.vals) <= Len(Top.vals[1].list)
      BY <1>1, <1>4, <1>5 DEF InBody, Items
    <3>2. rule.nodes[Top.node].op \in LoopOps /\ rule.nodes[Top.node].op \notin ScalarPairOps \cup UnaryOps
      BY <1>4 DEF LoopOps, ScalarPairOps, UnaryOps
    <3> QED BY <1>4, <2>1, <2>2, <3>1, <3>2, LongerFrame
  <2> HIDE DEF f
  <2>5. CallsOk' /\ OpenLoops' = LoopsBelow /\ \A d \in LoopsBelow : stack'[d] = stack[d]
    BY <1>1, <1>2, <1>3, <2>3, <2>4, ContinuedStack
  <2>6. ScopeOk'
    BY <1>1, <1>2, <2>5, LoopPop
  <2> QED BY <1>3, <2>5, <2>6 DEF Inv
<1>9. CASE ~acc.ok
  <2>1. acc.err \in Fault
    <3>1. CASE ~term.ok
      <4>1. acc = term
        <5> HIDE DEF term
        <5> QED BY <3>1 DEF AndThen
      <4> QED BY <1>7, <3>1, <4>1
    <3>2. CASE term.ok
      <4>1. acc = TryAdd(Top.acc, term.val) \/ acc.ok
        <5> HIDE DEF term
        <5> QED BY <3>2 DEF AndThen, Ok
      <4> QED BY <1>9, <4>1, CheckedNumeric DEF TryAdd, Numeric
    <3> QED BY <3>1, <3>2
  <2> HIDE DEF acc, term
  <2>2. GoodResult(acc) /\ Return(acc)
    BY <1>6, <1>9, <2>1 DEF GoodResult, Fault
  <2>3. CallsOk' /\ OpenLoops' = LoopsBelow /\ \A d \in LoopsBelow : stack'[d] = stack[d]
    BY <1>1, <1>2, <1>3, <2>2, ReturnedStack
  <2>4. ScopeOk'
    BY <1>1, <1>2, <2>3, LoopPop
  <2> QED BY <1>3, <2>3, <2>4 DEF Inv
<1> QED BY <1>8, <1>9

LEMMA WantedVariants ==
  /\ Node.op \in ScalarPairOps \cup UnaryOps => Wanted = {"scalar"}
  /\ Node.op \in LoopOps => Wanted = {"list"}
<1>1. ASSUME Node.op \in ScalarPairOps \cup UnaryOps PROVE Wanted = {"scalar"}
  <2>1. Node.op \notin {"and", "or", "not", "select", "table"} \cup LoopOps
    BY <1>1 DEF ScalarPairOps, UnaryOps, LoopOps
  <2> QED BY <1>1, <2>1, Zenon DEF Wanted
<1>2. ASSUME Node.op \in LoopOps PROVE Wanted = {"list"}
  <2>1. Node.op \notin {"and", "or", "not", "select", "table"} \cup ScalarPairOps \cup UnaryOps
    BY <1>2 DEF ScalarPairOps, UnaryOps, LoopOps
  <2> QED BY <1>2, <2>1, Zenon DEF Wanted
<1> QED BY <1>1, <1>2

LEMMA ReceiveStep == ASSUME Inv, Receive PROVE Inv'
<1>1. stack # <<>> /\ ret # Nothing /\ ~InBody /\ UNCHANGED elements /\ Rest
  BY DEF Receive
<1>2. Accepted /\ OutputsOk /\ CallsOk /\ ScopeOk /\ GoodResult(ret)
  BY <1>1 DEF Inv, CallsOk
<1>3. Accepted' /\ OutputsOk' /\ UNCHANGED <<rule, elements>>
  BY <1>1, <1>2, RestPreserves DEF Rest
<1>4. ASSUME NEW r, GoodResult(r), Return(r) PROVE Inv'
  <2>1. CallsOk' /\ ScopeOk'
    BY <1>1, <1>2, <1>3, <1>4, ReturnPreserves
  <2> QED BY <1>3, <2>1 DEF Inv
<1>5. CASE ~ret.ok
  <2>1. Return(ret)
    BY <1>5 DEF Receive
  <2> QED BY <1>2, <1>4, <2>1
<1>6. CASE ret.ok /\ ~(DOMAIN ret.val \subseteq Wanted)
  <2>1. Return(Err("TypeMismatch"))
    BY <1>6 DEF Receive
  <2> QED BY <1>4, <2>1, GoodErr, Faults
<1>7. CASE ret.ok /\ DOMAIN ret.val \subseteq Wanted
  <2> DEFINE f == [Top EXCEPT !.vals = Append(Top.vals, ret.val), !.acc = Top.acc]
  <2>1. stack' = [stack EXCEPT ![Len(stack)].vals = Append(@, ret.val)] /\ ret' = Nothing
    BY <1>7 DEF Receive
  <2>2. stack' = [stack EXCEPT ![Len(stack)] = f]
    BY <1>1, <1>2, <2>1, TopUpdate
  <2>3. IsInput(ret.val)
    BY <1>2, <1>7 DEF GoodResult
  <2>4. FrameOk(rule, Top) /\ Node = rule.nodes[Top.node] /\ Vals = Top.vals
    BY <1>1, <1>2, StackTop DEF Node, Vals
  <2>5. /\ Node.op \in ScalarPairOps \cup UnaryOps => Is(ret.val, "scalar")
        /\ Node.op \in LoopOps => Is(ret.val, "list")
    BY <1>7, <2>3, WantedVariants, Variants
  <2>6. /\ Top.acc \in Range128
        /\ Node.op = "count" => Top.vals = <<>> /\ Top.acc \in Nat /\ Top.acc <= Len(Top.vals)
    <3>1. TotalOk(Node.op, Top)
      BY <2>4 DEF FrameOk
    <3>2. Node.op \in LoopOps => Top.vals = <<>>
      BY <1>1, <2>4 DEF InBody
    <3>3. Len(<<>>) = 0
      BY EmptySequence
    <3> QED BY <3>1, <3>2, <3>3 DEF TotalOk, LoopOps
  <2>7. Node.op \in LoopOps => Top.vals = <<>>
    BY <1>1, <2>4 DEF InBody
  <2>8. FrameOk(rule, f)
    BY <2>3, <2>4, <2>5, <2>6, <2>7, LongerFrame
  <2> HIDE DEF f
  <2>9. CallsOk' /\ ScopeOk'
    BY <1>1, <1>2, <1>3, <2>1, <2>2, <2>8, ContinuePreserves
  <2> QED BY <1>3, <2>9 DEF Inv
<1> QED BY <1>5, <1>6, <1>7

-----------------------------------------------------------------------------
(* The outputs.                                                            *)

LEMMA SameCalls ==
  ASSUME CallsOk, ScopeOk, UNCHANGED <<rule, stack, elements>>,
         ret' = ret \/ (stack = <<>> /\ ret' = Nothing)
  PROVE  CallsOk' /\ ScopeOk'
<1>1. CallsOk'
  BY DEF CallsOk
<1>2. OpenLoops' = OpenLoops
  <2>1. CASE ret' = ret
    BY <2>1 DEF OpenLoops
  <2>2. CASE stack = <<>>
    BY <2>2, EmptySequence DEF OpenLoops
  <2> QED BY <2>1, <2>2
<1> QED BY <1>1, <1>2, SameScope

LEMMA ValidateStep == ASSUME Inv, Validate PROVE Inv'
<1>1. CallsOk' /\ ScopeOk'
  BY SameCalls DEF Inv, Validate
<1>2. Accepted'
  BY DEF Inv, Accepted, Validate
<1>3. OutputsOk'
  BY DEF Inv, OutputsOk, Validate, Nothing, Err
<1> QED BY <1>1, <1>2, <1>3 DEF Inv

LEMMA RuleOutputs ==
  ASSUME Accepted
  PROVE  /\ DOMAIN rule.outputs = 1 .. Len(rule.outputs) /\ Len(rule.outputs) \in Nat
         /\ \A k \in DOMAIN rule.outputs : rule.outputs[k] \in DOMAIN rule.nodes
BY RulesAssumption DEF Accepted

LEMMA StartStep == ASSUME Inv, StartOutput PROVE Inv'
<1> DEFINE i == rule.outputs[Len(outputs) + 1]
<1>1. /\ phase = "evaluating" /\ stack = <<>> /\ ret = Nothing /\ Len(outputs) < Len(rule.outputs)
      /\ Call(i) /\ UNCHANGED elements /\ Rest
  BY DEF StartOutput
<1>2. Accepted /\ OutputsOk /\ CallsOk /\ ScopeOk
  BY DEF Inv
<1>3. Len(outputs) + 1 \in DOMAIN rule.outputs
  <2>1. Len(outputs) \in Nat
    BY <1>2, SequenceType DEF OutputsOk
  <2>2. DOMAIN rule.outputs = 1 .. Len(rule.outputs) /\ Len(rule.outputs) \in Nat
    BY <1>2, RuleOutputs
  <2> QED BY <1>1, <2>1, <2>2
<1>4. i \in DOMAIN rule.nodes /\ ShapesOk(rule)[i]
  BY <1>1, <1>2, <1>3, RuleOutputs DEF Accepted, Valid
<1> HIDE DEF i
<1>5. CallsOk' /\ ScopeOk'
  BY <1>1, <1>2, <1>4, CallPreserves DEF Rest
<1>6. Accepted'
  BY <1>1, <1>2 DEF Accepted, Rest
<1>7. OutputsOk'
  BY <1>1, <1>2 DEF OutputsOk, Rest
<1> QED BY <1>5, <1>6, <1>7 DEF Inv

LEMMA FinishStep == ASSUME Inv, FinishOutput PROVE Inv'
<1>1. /\ phase = "evaluating" /\ stack = <<>> /\ ret # Nothing /\ ret' = Nothing
      /\ UNCHANGED <<rule, inputs, stack, elements>>
  BY DEF FinishOutput
<1>2. Accepted /\ OutputsOk /\ CallsOk /\ ScopeOk
  BY DEF Inv
<1>3. CallsOk' /\ ScopeOk'
  BY <1>1, <1>2, SameCalls
<1>4. GoodResult(ret)
  BY <1>1, <1>2 DEF CallsOk
<1>5. Accepted'
  BY <1>1, <1>2 DEF FinishOutput, Accepted
<1>6. Len(outputs) < Len(rule.outputs) /\ Len(outputs) \in Nat /\ DOMAIN outputs = 1 .. Len(outputs)
      /\ Len(rule.outputs) \in Nat
  BY <1>1, <1>2, SequenceType, RuleOutputs DEF OutputsOk
<1>7. CASE ret.ok
  <2>1. outputs' = Append(outputs, ret.val) /\ outcome' = outcome /\ IsInput(ret.val)
    BY <1>4, <1>7 DEF FinishOutput, GoodResult
  <2>2. /\ IsSequence(outputs') /\ Len(outputs') = Len(outputs) + 1 /\ outputs'[Len(outputs) + 1] = ret.val
        /\ \A k \in 1 .. Len(outputs) : outputs'[k] = outputs[k]
    BY <1>2, <2>1, Appended DEF OutputsOk
  <2>3. DOMAIN outputs' = 1 .. Len(outputs) + 1
    BY <2>2, SequenceType
  <2>4. \A k \in 1 .. Len(outputs) + 1 : k = Len(outputs) + 1 \/ k \in 1 .. Len(outputs)
    BY <1>6
  <2>5. \A k \in DOMAIN outputs' : IsInput(outputs'[k])
    BY <1>2, <1>6, <2>1, <2>2, <2>3, <2>4 DEF OutputsOk
  <2>6. Len(outputs') <= Len(rule'.outputs) /\ stack' = <<>> /\ ret' = Nothing
    BY <1>1, <1>6, <2>2
  <2>7. OutputsOk'
    BY <1>2, <2>1, <2>2, <2>5, <2>6 DEF OutputsOk
  <2> QED BY <1>3, <1>5, <2>7 DEF Inv
<1>8. CASE ~ret.ok
  <2>1. outputs' = outputs /\ outcome' = ret /\ ret.err \in RuleErrors
    BY <1>4, <1>8 DEF FinishOutput, GoodResult
  <2>2. OutputsOk'
    BY <1>1, <1>2, <1>8, <2>1 DEF OutputsOk
  <2> QED BY <1>3, <1>5, <2>2 DEF Inv
<1> QED BY <1>7, <1>8

LEMMA ProveStep == ASSUME Inv, Prove PROVE Inv'
<1> DEFINE k == IF rule.proves = 0 THEN 1 ELSE rule.proves
<1>1. /\ phase = "evaluating" /\ Len(outputs) = Len(rule.outputs) /\ phase' = "done"
      /\ outcome' = As(outputs[k], "scalar") /\ UNCHANGED <<rule, inputs, outputs, stack, elements, ret>>
  BY DEF Prove
<1>2. Accepted /\ OutputsOk /\ CallsOk /\ ScopeOk
  BY DEF Inv
<1>3. CallsOk' /\ ScopeOk'
  BY <1>1, <1>2, SameCalls
<1>4. Accepted'
  BY <1>1, <1>2 DEF Accepted
<1>5. IsInput(outputs[k])
  <2>1. DOMAIN outputs = DOMAIN rule.outputs
    BY <1>1, <1>2, SequenceType, RuleOutputs DEF OutputsOk
  <2>2. k \in DOMAIN rule.outputs
    <3>1. DOMAIN rule.outputs = 1 .. Len(rule.outputs)
      BY <1>2, RuleOutputs
    <3>2. IF rule.proves = 0 THEN Len(rule.outputs) = 1 ELSE rule.proves \in DOMAIN rule.outputs
      BY <1>1, <1>2 DEF Accepted, ProvesOk
    <3> QED BY <3>1, <3>2
  <2> QED BY <1>2, <2>1, <2>2 DEF OutputsOk
<1> HIDE DEF k
<1>6. IF outcome'.ok THEN outcome'.val \in Range128 ELSE outcome'.err \in RuleErrors
  <2>1. CASE Is(outputs[k], "scalar")
    <3>1. outputs[k].scalar \in Range128 /\ outcome' = Ok(outputs[k].scalar)
      BY <1>1, <1>5, <2>1, Variants DEF As
    <3> QED BY <3>1 DEF Ok
  <2>2. CASE ~Is(outputs[k], "scalar")
    <3>1. outcome' = Err("TypeMismatch")
      BY <1>1, <2>2 DEF As
    <3> QED BY <3>1 DEF Err, RuleErrors
  <2> QED BY <2>1, <2>2
<1>7. OutputsOk'
  BY <1>1, <1>2, <1>6 DEF OutputsOk
<1> QED BY <1>3, <1>4, <1>7 DEF Inv

-----------------------------------------------------------------------------
(* The theorems.                                                           *)

LEMMA InitInv == Init => Inv
<1> SUFFICES ASSUME Init PROVE Inv
  OBVIOUS
<1>1. /\ rule \in Rules /\ inputs \in Invocations(rule) /\ phase = "loaded" /\ outputs = <<>>
      /\ stack = <<>> /\ elements = <<>> /\ ret = Nothing /\ outcome = Nothing
  BY DEF Init
<1>2. IsSequence(<<>>) /\ Len(<<>>) = 0 /\ DOMAIN <<>> = {}
  BY EmptySequence
<1>3. Accepted
  BY <1>1 DEF Accepted
<1>4. OutputsOk
  <2>1. Len(rule.outputs) \in Nat
    BY <1>3, RuleOutputs
  <2>2. Len(outputs) <= Len(rule.outputs)
    BY <1>1, <1>2, <2>1
  <2>3. ~outcome.ok /\ outcome.err = "Nothing"
    BY <1>1 DEF Nothing, Err
  <2> QED BY <1>1, <1>2, <2>2, <2>3 DEF OutputsOk
<1>5. CallsOk
  BY <1>1, <1>2 DEF CallsOk
<1>6. OpenLoops = {}
  BY <1>1, NoOpenLoops
<1>7. ScopeOk
  <2>1. Len(elements) = Cardinality(OpenLoops)
    BY <1>1, <1>2, <1>6, FS_EmptySet
  <2> QED BY <1>1, <1>2, <1>6, <2>1 DEF ScopeOk, ScopeIsTheOpenLoops
<1> QED BY <1>3, <1>4, <1>5, <1>7 DEF Inv

LEMMA StepInv == Inv /\ [Next]_vars => Inv'
<1> SUFFICES ASSUME Inv, [Next]_vars PROVE Inv'
  OBVIOUS
<1>1. CASE Validate
  BY <1>1, ValidateStep
<1>2. CASE StartOutput
  BY <1>2, StartStep
<1>3. CASE FinishOutput
  BY <1>3, FinishStep
<1>4. CASE Prove
  BY <1>4, ProveStep
<1>5. CASE EvalLeaf
  BY <1>5, LeafStep
<1>6. CASE EvalArithmetic
  BY <1>6, ArithmeticStep
<1>7. CASE EvalComparison
  BY <1>7, ComparisonStep
<1>8. CASE EvalLogic
  BY <1>8, LogicStep
<1>9. CASE EvalSelect
  BY <1>9, SelectStep
<1>10. CASE EvalTable
  BY <1>10, TableStep
<1>11. CASE EvalLoop
  BY <1>11, LoopStep
<1>12. CASE LoopTerm
  BY <1>12, LoopTermStep
<1>13. CASE Receive
  BY <1>13, ReceiveStep
<1>14. CASE UNCHANGED vars
  <2>1. CallsOk' /\ ScopeOk'
    BY <1>14, SameCalls DEF Inv, vars
  <2>2. Accepted' /\ OutputsOk'
    BY <1>14 DEF Inv, Accepted, OutputsOk, vars
  <2> QED BY <2>1, <2>2 DEF Inv
<1> QED BY <1>1, <1>2, <1>3, <1>4, <1>5, <1>6, <1>7, <1>8, <1>9, <1>10, <1>11, <1>12, <1>13, <1>14 DEF Next

LEMMA Invariance == Spec => []Inv
BY InitInv, StepInv, PTL DEF Spec

(***************************************************************************)
(* Types: whatever the rule and its inputs, no scalar the interpreter      *)
(* computes leaves the range of Fixed, no total of a sum and no number of  *)
(* items of a count wraps, and every error is one of the code's.           *)
(***************************************************************************)
THEOREM EvaluatorTypeCorrect == Spec => []TypeOK
<1>1. Inv => TypeOK
  <2> SUFFICES ASSUME Inv PROVE TypeOK
    OBVIOUS
  <2>1. Accepted /\ OutputsOk /\ CallsOk
    BY DEF Inv
  <2>2. \A k \in DOMAIN outputs : IsValue(outputs[k])
    BY <2>1, Variants DEF OutputsOk
  <2>3. ASSUME NEW d \in DOMAIN stack
        PROVE  /\ stack[d].node \in DOMAIN rule.nodes /\ stack[d].acc \in Range128
               /\ \A k \in DOMAIN stack[d].vals : IsValue(stack[d].vals[k])
    <3>1. FrameOk(rule, stack[d])
      BY <2>1 DEF CallsOk
    <3> QED BY <3>1, Variants DEF FrameOk, TotalOk
  <2>4. IsResult(ret)
    <3>1. CASE ret = Nothing
      BY <3>1 DEF IsResult, Nothing, Err
    <3>2. CASE GoodResult(ret)
      BY <3>2, Variants DEF IsResult, GoodResult
    <3> QED BY <2>1, <3>1, <3>2 DEF CallsOk
  <2> QED BY <2>1, <2>2, <2>3, <2>4 DEF TypeOK, Accepted, OutputsOk
<1> QED BY <1>1, Invariance, PTL

(***************************************************************************)
(* Scoping: at every moment the stack of elements holds exactly the items  *)
(* the enclosing sums and counts have reached, outermost first, however    *)
(* the loops nest and whichever terms fail (rule.rs:559-574).              *)
(***************************************************************************)
THEOREM ScopesAreLoops == Spec => []ScopeIsTheOpenLoops
<1>1. Inv => ScopeIsTheOpenLoops
  BY DEF Inv, ScopeOk
<1> QED BY <1>1, Invariance, PTL

(***************************************************************************)
(* What RulesSchema::validate accepts, eval finds well formed: the shape   *)
(* tests of eval never fail on a validated rule (schema.rs:403-525 against *)
(* rule.rs:362-781).                                                       *)
(***************************************************************************)
THEOREM ValidatedRulesAreWellFormed == Spec => []ValidRulesAreWellFormed
<1>1. Inv => ValidRulesAreWellFormed
  BY DEF Inv, CallsOk, GoodResult, ValidRulesAreWellFormed, Nothing, Err, MalformedErrors
<1> QED BY <1>1, Invariance, PTL

-----------------------------------------------------------------------------
(* What a call is worth: the inductive invariant of OutcomeIsTheMeaning.   *)

(* The k-th child a call evaluates, when it holds these values, ...        *)
Asked(node, vals, k) ==
  IF node.op = "table" THEN Compared(node.matches[k])
  ELSE IF k = 1 THEN node.args[1]
  ELSE IF node.op = "select" THEN node.args[IF vals[1].bool THEN 2 ELSE 3]
  ELSE IF node.op \in LoopOps THEN node.args[2]
  ELSE node.args[k]

(* ... its scope, ...                                                      *)
AskedScope(node, vals, k, scope) ==
  IF node.op \in LoopOps /\ k # 1 THEN <<vals[1].list[k - 1].record>> ELSE scope

(* ... the kind of its result, ...                                         *)
Kind(op, k) ==
  IF op \in ScalarPairOps \cup UnaryOps \/ (op = "sum" /\ k # 1) THEN "scalar"
  ELSE IF op \in {"and", "or", "not"} \/ (op = "count" /\ k # 1) \/ (op = "select" /\ k = 1) THEN "bool"
  ELSE IF op \in LoopOps THEN "list"
  ELSE IF op = "table" THEN "text"
  ELSE "any"

Fits(v, kind) == kind = "any" \/ Is(v, kind)

FileOf(node) == IF node.table \in DOMAIN TableFiles THEN TableFiles[node.table] ELSE Err("UnknownTable")

(* ... and whether it evaluates a k-th child at all.                       *)
Asking(node, vals, k) ==
  IF node.op = "table" THEN FileOf(node).ok /\ k <= Len(node.matches)
  ELSE IF node.op \in LoopOps
    THEN k # 1 => /\ Len(node.args) = 2 /\ k - 1 <= Len(vals[1].list)
                  /\ Is(vals[1].list[k - 1], "record")
  ELSE IF node.op = "select" THEN k <= 2
  ELSE /\ k <= Len(node.args) /\ node.op \notin {"const", "input", "field"}
       /\ node.op \in {"and", "or"} => \A j \in 1 .. k - 1 : vals[j].bool # (node.op = "or")

Answer(m, node, vals, k, scope) == m[Asked(node, vals, k)][AskedScope(node, vals, k, scope)]

(* A value a call holds is the meaning of the child it stands for, unless  *)
(* it stands for an item that only counts.                                 *)
Answered(m, node, vals, k, scope) ==
  \/ /\ Asking(node, vals, k)
     /\ Answer(m, node, vals, k, scope) = Ok(vals[k]) /\ Fits(vals[k], Kind(node.op, k))
  \/ node.op = "count" /\ k # 1 /\ Len(node.args) = 1 /\ vals[k] = Bool(TRUE)

(* The running total of a loop is that of the terms it has seen. *)
TotalMeant(m, node, vals, acc) ==
  /\ vals = <<>> => acc = 0
  /\ node.op = "sum" /\ vals # <<>> =>
       LET totals == Totals(LoopTerms(vals[1].list, m[node.args[2]], "scalar"))
       IN  acc = totals[Len(vals) - 1] /\ \A j \in 1 .. Len(vals) - 1 : totals[j] \in Range128
  /\ node.op = "count" /\ vals # <<>> => acc = Cardinality({j \in 1 .. Len(vals) - 1 : vals[j + 1].bool})

(* Lists come from the inputs. *)
Listed(in, v) == Is(v, "list") => \E name \in DOMAIN in : in[name] = v

FrameMeant(r, in, f, scope) ==
  LET node == r.nodes[f.node]
      m == Meanings(r, in)
  IN  /\ scope \in Scopes(in)
      /\ \A k \in DOMAIN f.vals : Listed(in, f.vals[k]) /\ Answered(m, node, f.vals, k, scope)
      /\ TotalMeant(m, node, f.vals, f.acc)

IsOpen(r, f) == r.nodes[f.node].op \in LoopOps /\ f.vals # <<>>

(* The record the innermost loop below a call has bound. *)
ScopeAt(r, s, d) ==
  LET below == {e \in 1 .. d - 1 : IsOpen(r, s[e])}
      e == CHOOSE e \in below : \A x \in below : x <= e
  IN  IF below = {} THEN <<>> ELSE <<s[e].vals[1].list[Len(s[e].vals)].record>>

Next1(f) == Len(f.vals) + 1

(* A call f has asked for the child that g evaluates. *)
Linked(r, f, g) ==
  LET node == r.nodes[f.node]
  IN  Asking(node, f.vals, Next1(f)) /\ g.node = Asked(node, f.vals, Next1(f))

(* A call waits for the child it asked, and the first for an output. *)
CallsMeant ==
  /\ \A d \in DOMAIN stack : FrameMeant(rule, inputs, stack[d], ScopeAt(rule, stack, d))
  /\ stack # <<>> => stack[1].node = rule.outputs[Len(outputs) + 1]
  /\ \A d \in 1 .. Len(stack) - 1 : Linked(rule, stack[d], stack[d + 1])

(* A result on its way back is the meaning of the child that was asked. *)
ResultMeant ==
  ret # Nothing =>
    /\ ret.ok => ret = Ok(ret.val) /\ Listed(inputs, ret.val)
    /\ IF stack = <<>> THEN ret = Meanings(rule, inputs)[rule.outputs[Len(outputs) + 1]][<<>>]
       ELSE /\ Asking(Node, Vals, Next1(Top))
            /\ ret = Answer(Meanings(rule, inputs), Node, Vals, Next1(Top), ScopeAt(rule, stack, Len(stack)))

OutputsMeant ==
  /\ \A k \in DOMAIN outputs : Meanings(rule, inputs)[rule.outputs[k]][<<>>] = Ok(outputs[k])
  /\ OutcomeIsTheMeaning

Meant == CallsMeant /\ ResultMeant /\ OutputsMeant
-----------------------------------------------------------------------------
(* The operators of RuleMeaning.                                           *)

LEMMA MinimumIs ==
  ASSUME NEW S \in SUBSET Nat, NEW k \in S, \A j \in S : k <= j
  PROVE  Min(S) = k
<1>1. ASSUME NEW x \in S, \A y \in S : x <= y PROVE x = k
  BY <1>1
<1> QED BY <1>1 DEF Min

(* The result of a caller that is handed a value it cannot take. *)
Refusal(r) == IF r.ok THEN Err("TypeMismatch") ELSE r

LEMMA Taken ==
  ASSUME NEW r, NEW v, r = Ok(v), NEW kind, Is(v, kind)
  PROVE  Take(r, kind) = Ok(v[kind])
BY DEF Take, AndThen, Ok, As

LEMMA NotTaken ==
  ASSUME NEW r, NEW kind, r.ok => r = Ok(r.val) /\ ~Is(r.val, kind)
  PROVE  Take(r, kind) = Refusal(r) /\ ~Take(r, kind).ok
<1>1. CASE r.ok
  <2>1. Take(r, kind) = As(r.val, kind)
    BY <1>1 DEF Take, AndThen
  <2>2. As(r.val, kind) = Err("TypeMismatch")
    BY <1>1 DEF As
  <2> QED BY <1>1, <2>1, <2>2 DEF Refusal, Err
<1>2. CASE ~r.ok
  BY <1>2 DEF Take, AndThen, Refusal
<1> QED BY <1>1, <1>2

LEMMA AllGood ==
  ASSUME NEW results, NEW vals, DOMAIN vals = DOMAIN results, vals = [k \in DOMAIN vals |-> vals[k]],
         \A k \in DOMAIN results : results[k] = Ok(vals[k])
  PROVE  All(results) = Ok(vals)
<1>1. {k \in DOMAIN results : ~results[k].ok} = {}
  BY DEF Ok
<1>2. [k \in DOMAIN results |-> results[k].val] = vals
  BY DEF Ok
<1> QED BY <1>1, <1>2 DEF All

LEMMA AllBad ==
  ASSUME NEW results, NEW n \in Nat, DOMAIN results = 1 .. n,
         NEW k \in 1 .. n, ~results[k].ok, \A j \in 1 .. k - 1 : results[j].ok
  PROVE  All(results) = results[k]
<1> DEFINE bad == {j \in DOMAIN results : ~results[j].ok}
<1>1. bad \in SUBSET Nat /\ k \in bad
  OBVIOUS
<1>2. ASSUME NEW j \in bad PROVE k <= j
  <2>1. j \notin 1 .. k - 1
    OBVIOUS
  <2> QED BY <2>1
<1> HIDE DEF bad
<1>3. Min(bad) = k /\ bad # {}
  BY <1>1, <1>2, MinimumIs
<1> QED BY <1>3 DEF All, bad

(* The meaning of a node depends on the nodes below it only. *)
LEMMA MeansBelow ==
  ASSUME NEW node, IsNode(node), NEW scope, NEW in, NEW m, NEW m2, \A c \in Children(node) : m[c] = m2[c],
         node.op = "table" => \A k \in DOMAIN node.matches : DOMAIN node.matches[k].by # {}
  PROVE  Means(node, scope, in, m) = Means(node, scope, in, m2)
<1>1. CASE node.op = "table"
  <2>1. ASSUME NEW k \in DOMAIN node.matches PROVE Compared(node.matches[k]) \in Children(node)
    <3> DEFINE e == CHOOSE e \in DOMAIN node.matches[k].by : TRUE
    <3>1. e \in DOMAIN node.matches[k].by
      BY <1>1
    <3>2. Compared(node.matches[k]) = node.matches[k].by[e]
      BY DEF Compared
    <3> HIDE DEF e
    <3> QED BY <1>1, <3>1, <3>2 DEF Children
  <2>2. [k \in DOMAIN node.matches |-> m[Compared(node.matches[k])][scope]]
         = [k \in DOMAIN node.matches |-> m2[Compared(node.matches[k])][scope]]
    BY <2>1
  <2> QED BY <1>1, <2>2, Zenon DEF Means
<1>2. CASE node.op # "table"
  <2> DEFINE results == [k \in DOMAIN node.args |-> m[node.args[k]][scope]]
             results2 == [k \in DOMAIN node.args |-> m2[node.args[k]][scope]]
  <2>1. results = results2
    BY <1>2 DEF Children, ToSet
  <2>2. node.op \in LoopOps => m[Last(node.args)] = m2[Last(node.args)]
    <3> SUFFICES ASSUME node.op \in LoopOps PROVE m[Last(node.args)] = m2[Last(node.args)]
      OBVIOUS
    <3>1. Len(node.args) \in {1, 2} /\ \A k \in 1 .. Len(node.args) : node.args[k] \in Children(node)
      BY <1>2, Operands DEF IsNode, LoopOps
    <3> QED BY <3>1 DEF Last
  <2>3. CASE node.op = "sum"
    <3>1. Means(node, scope, in, m) = SumResult(results[1], m[Last(node.args)])
      BY <1>2, <2>3, Zenon DEF Means
    <3>2. Means(node, scope, in, m2) = SumResult(results2[1], m2[Last(node.args)])
      BY <1>2, <2>3, Zenon DEF Means
    <3>3. m[Last(node.args)] = m2[Last(node.args)]
      BY <2>2, <2>3 DEF LoopOps
    <3> HIDE DEF results, results2
    <3> QED BY <2>1, <3>1, <3>2, <3>3, Zenon
  <2>4. CASE node.op = "count"
    <3>1. Means(node, scope, in, m) = CountResult(results[1], Len(node.args) = 2, m[Last(node.args)])
      BY <1>2, <2>4, Zenon DEF Means
    <3>2. Means(node, scope, in, m2) = CountResult(results2[1], Len(node.args) = 2, m2[Last(node.args)])
      BY <1>2, <2>4, Zenon DEF Means
    <3>3. m[Last(node.args)] = m2[Last(node.args)]
      BY <2>2, <2>4 DEF LoopOps
    <3> HIDE DEF results, results2
    <3> QED BY <2>1, <3>1, <3>2, <3>3, Zenon
  <2>5. CASE node.op \notin LoopOps
    <3>0. node.op # "sum" /\ node.op # "count"
      BY <2>5 DEF LoopOps
    <3>1. Means(node, scope, in, m) = OperationResult(node, results, scope, in)
      BY <1>2, <3>0, Zenon DEF Means
    <3>2. Means(node, scope, in, m2) = OperationResult(node, results2, scope, in)
      BY <1>2, <3>0, Zenon DEF Means
    <3> HIDE DEF results, results2
    <3> QED BY <2>1, <3>1, <3>2, Zenon
  <2> QED BY <2>3, <2>4, <2>5 DEF LoopOps
<1> QED BY <1>1, <1>2

(* The recursion of Meanings is well defined. *)
LEMMA MeaningsRows ==
  ASSUME NEW r, Len(r.nodes) \in Nat, NEW in
  PROVE  \E W : /\ Meanings(r, in) = W[Len(r.nodes)] /\ W[0] = <<>>
                /\ \A n \in 1 .. Len(r.nodes) :
                     W[n] = Append(W[n - 1], [scope \in Scopes(in) |-> Means(r.nodes[n], scope, in, W[n - 1])])
<1> DEFINE N == Len(r.nodes)
           Row(n, before) == [scope \in Scopes(in) |-> Means(r.nodes[n], scope, in, before)]
           Value(g, n) == IF n = 0 THEN <<>> ELSE Append(g[n - 1], Row(n, g[n - 1]))
           W == CHOOSE h : h = [n \in 0 .. N |-> Value(h, n)]
           Settled(g, m) == \A n \in 0 .. N : n <= m => g[n] = Value(g, n)
           S == {m \in Nat : \E g : Settled(g, m)}
<1>1. Meanings(r, in) = W[N]
  BY DEF Meanings
<1> HIDE DEF N, Row
<1>2. N \in Nat
  BY DEF N
<1>3. 0 \in S
  <2>1. Settled([n \in 0 .. N |-> <<>>], 0)
    BY <1>2
  <2> QED BY <2>1
<1>4. ASSUME NEW m \in S PROVE m + 1 \in S
  <2>1. PICK g : Settled(g, m)
    OBVIOUS
  <2> DEFINE next == [n \in 0 .. N |-> Value(g, n)]
  <2>2. \A n \in 0 .. N : next[n] = Value(g, n)
    OBVIOUS
  <2> HIDE DEF next
  <2>3. \A n \in 0 .. N : n <= m => next[n] = g[n]
    BY <2>1, <2>2
  <2>4. ASSUME NEW n \in 0 .. N, n <= m + 1 PROVE next[n] = Value(next, n)
    <3>1. CASE n = 0
      BY <2>2, <3>1
    <3>2. CASE n # 0
      <4>1. n - 1 \in 0 .. N /\ n - 1 <= m
        BY <1>2, <2>4, <3>2
      <4>2. next[n - 1] = g[n - 1]
        BY <2>3, <4>1
      <4> QED BY <2>2, <3>2, <4>2
    <3> QED BY <3>1, <3>2
  <2>5. Settled(next, m + 1)
    BY <2>4
  <2> QED BY <2>5
<1>5. PICK g : Settled(g, N)
  <2>1. S \in SUBSET Nat
    OBVIOUS
  <2>2. N \in S
    <3> HIDE DEF S
    <3>1. S = Nat
      BY <1>3, <1>4, <2>1, SetInduction
    <3> QED BY <1>2, <3>1
  <2> QED BY <2>2
<1> DEFINE h == [n \in 0 .. N |-> g[n]]
<1>6. ASSUME NEW n \in 0 .. N PROVE h[n] = Value(h, n)
  <2>1. CASE n = 0
    BY <1>2, <1>5, <2>1
  <2>2. CASE n # 0
    <3>1. n - 1 \in 0 .. N
      BY <1>2, <2>2
    <3>2. h[n - 1] = g[n - 1] /\ h[n] = g[n]
      BY <3>1
    <3>3. g[n] = Value(g, n)
      BY <1>2, <1>5
    <3> QED BY <2>2, <3>2, <3>3
  <2> QED BY <2>1, <2>2
<1>7. h = [n \in 0 .. N |-> Value(h, n)]
  BY <1>6
<1> HIDE DEF h
<1>8. W = [n \in 0 .. N |-> Value(W, n)]
  BY <1>7
<1> HIDE DEF W
<1>9. W[0] = <<>>
  BY <1>2, <1>8
<1>10. ASSUME NEW n \in 1 .. N PROVE W[n] = Append(W[n - 1], Row(n, W[n - 1]))
  <2>1. n \in 0 .. N /\ n # 0
    BY <1>2
  <2>2. W[n] = Value(W, n)
    BY <1>8, <2>1
  <2> QED BY <2>1, <2>2
<1> QED BY <1>1, <1>9, <1>10 DEF N, Row

LEMMA NodeMeaning ==
  ASSUME NEW r \in Rules, NEW in, NEW i \in DOMAIN r.nodes, NEW scope \in Scopes(in),
         r.nodes[i].op = "table" => \A k \in DOMAIN r.nodes[i].matches : DOMAIN r.nodes[i].matches[k].by # {}
  PROVE  Meanings(r, in)[i][scope] = Means(r.nodes[i], scope, in, Meanings(r, in))
<1> DEFINE N == Len(r.nodes)
           Row(n, before) == [s \in Scopes(in) |-> Means(r.nodes[n], s, in, before)]
<1>1. /\ DOMAIN r.nodes = 1 .. N /\ N \in Nat
      /\ \A j \in DOMAIN r.nodes : IsNode(r.nodes[j]) /\ Children(r.nodes[j]) \subseteq 1 .. j - 1
  BY RulesAssumption
<1>2. PICK W : /\ Meanings(r, in) = W[N] /\ W[0] = <<>>
               /\ \A n \in 1 .. N : W[n] = Append(W[n - 1], Row(n, W[n - 1]))
  BY <1>1, MeaningsRows
<1> HIDE DEF Row, N
<1> DEFINE Filled(n) == /\ IsSequence(W[n]) /\ Len(W[n]) = n
                        /\ \A j \in 1 .. n : W[n][j] = Row(j, W[j - 1])
           S == {n \in Nat : n <= N => Filled(n)}
<1>3. 0 \in S
  BY <1>2, EmptySequence
<1>4. ASSUME NEW n \in S PROVE n + 1 \in S
  <2> SUFFICES ASSUME n + 1 <= N PROVE Filled(n + 1)
    OBVIOUS
  <2>1. n \in Nat /\ n + 1 \in 1 .. N /\ (n + 1) - 1 = n /\ Filled(n)
    BY <1>1
  <2>2. W[n + 1] = Append(W[n], Row(n + 1, W[n]))
    BY <1>2, <2>1, Zenon
  <2>3. /\ IsSequence(W[n + 1]) /\ Len(W[n + 1]) = Len(W[n]) + 1
        /\ W[n + 1][Len(W[n]) + 1] = Row(n + 1, W[n])
        /\ \A j \in 1 .. Len(W[n]) : W[n + 1][j] = W[n][j]
    BY <2>1, <2>2, Appended
  <2>4. \A j \in 1 .. n + 1 : j \in 1 .. n \/ j = n + 1
    BY <2>1
  <2>5. ASSUME NEW j \in 1 .. n + 1 PROVE W[n + 1][j] = Row(j, W[j - 1])
    <3>1. CASE j \in 1 .. n
      BY <2>1, <2>3, <3>1
    <3>2. CASE j = n + 1
      BY <2>1, <2>3, <3>2
    <3> QED BY <2>4, <3>1, <3>2
  <2>6. Len(W[n + 1]) = n + 1
    BY <2>1, <2>3
  <2> QED BY <2>3, <2>5, <2>6
<1>5. ASSUME NEW n \in 0 .. N PROVE Filled(n)
  <2>1. S \in SUBSET Nat
    OBVIOUS
  <2>2. n \in S /\ n <= N
    <3> HIDE DEF S
    <3>1. S = Nat
      BY <1>3, <1>4, <2>1, SetInduction
    <3> QED BY <1>1, <3>1
  <2> QED BY <2>2
<1>6. i \in 1 .. N /\ i - 1 \in 0 .. N /\ N \in 0 .. N
  BY <1>1
<1> DEFINE m == W[i - 1]
<1>7. Meanings(r, in)[i] = Row(i, m)
  BY <1>2, <1>5, <1>6
<1>8. Meanings(r, in)[i][scope] = Means(r.nodes[i], scope, in, m)
  BY <1>7 DEF Row
<1>9. ASSUME NEW c \in Children(r.nodes[i]) PROVE m[c] = Meanings(r, in)[c]
  <2>1. c \in 1 .. i - 1
    BY <1>1
  <2>2. c \in 1 .. N
    BY <1>1, <1>6, <2>1
  <2> QED BY <1>2, <1>5, <1>6, <2>1, <2>2
<1> HIDE DEF m
<1> QED BY <1>1, <1>8, <1>9, MeansBelow

-----------------------------------------------------------------------------
(* Operations, given the values of their operands.                         *)

Negated(b) == IF b.ok THEN Ok(Bool(~b.val[1])) ELSE b

LEMMA Operations ==
  ASSUME NEW node, NEW results, NEW scope, NEW in
  PROVE  /\ node.op = "const" => OperationResult(node, results, scope, in) = Ok(node.literals[1])
         /\ node.op = "input" =>
              OperationResult(node, results, scope, in)
                = IF node.name \in DOMAIN in THEN Ok(in[node.name]) ELSE Err("UnknownInput")
         /\ node.op = "field" => OperationResult(node, results, scope, in) = FieldOf(scope, node.name)
         /\ node.op \in ScalarPairOps =>
              OperationResult(node, results, scope, in)
                = LET x == All(TakeEach(results, "scalar"))
                  IN  IF x.ok THEN AsScalar(Arithmetic(node.op, x.val[1], x.val[2])) ELSE x
         /\ node.op \in UnaryOps =>
              OperationResult(node, results, scope, in)
                = LET x == All(TakeEach(results, "scalar")) IN IF x.ok THEN AsScalar(Unary(node.op, x.val[1])) ELSE x
         /\ node.op \in {"eq", "ne"} =>
              OperationResult(node, results, scope, in)
                = LET v == All(results) IN IF v.ok THEN AsBool(Equality(node.op, v.val[1], v.val[2])) ELSE v
         /\ node.op \in OrderOps =>
              OperationResult(node, results, scope, in)
                = LET v == All(results) IN IF v.ok THEN AsBool(Order(node.op, v.val[1], v.val[2])) ELSE v
         /\ node.op = "not" =>
              OperationResult(node, results, scope, in)
                = Negated(All(TakeEach(results, "bool")))
         /\ node.op \in {"and", "or"} =>
              OperationResult(node, results, scope, in) = Junction(node.op, TakeEach(results, "bool"))
         /\ node.op = "select" =>
              OperationResult(node, results, scope, in)
                = LET b == Take(results[1], "bool") IN IF b.ok THEN results[IF b.val THEN 2 ELSE 3] ELSE b
<1>1. CASE node.op = "const"
  <2>1. /\ node.op # "input" /\ node.op # "field" /\ node.op \notin ScalarPairOps /\ node.op \notin UnaryOps /\ node.op \notin {"eq", "ne"}
        /\ node.op \notin OrderOps /\ node.op # "not" /\ node.op \notin {"and", "or"} /\ node.op # "select"
    BY <1>1 DEF ScalarPairOps, UnaryOps, OrderOps
  <2> QED BY <1>1, <2>1, Zenon DEF OperationResult
<1>2. CASE node.op = "input"
  <2>1. /\ node.op # "const" /\ node.op # "field" /\ node.op \notin ScalarPairOps /\ node.op \notin UnaryOps /\ node.op \notin {"eq", "ne"}
        /\ node.op \notin OrderOps /\ node.op # "not" /\ node.op \notin {"and", "or"} /\ node.op # "select"
    BY <1>2 DEF ScalarPairOps, UnaryOps, OrderOps
  <2> QED BY <1>2, <2>1, Zenon DEF OperationResult
<1>3. CASE node.op = "field"
  <2>1. /\ node.op # "const" /\ node.op # "input" /\ node.op \notin ScalarPairOps /\ node.op \notin UnaryOps /\ node.op \notin {"eq", "ne"}
        /\ node.op \notin OrderOps /\ node.op # "not" /\ node.op \notin {"and", "or"} /\ node.op # "select"
    BY <1>3 DEF ScalarPairOps, UnaryOps, OrderOps
  <2> QED BY <1>3, <2>1, Zenon DEF OperationResult
<1>4. CASE node.op \in ScalarPairOps
  <2>1. /\ node.op # "const" /\ node.op # "input" /\ node.op # "field" /\ node.op \notin UnaryOps /\ node.op \notin {"eq", "ne"}
        /\ node.op \notin OrderOps /\ node.op # "not" /\ node.op \notin {"and", "or"} /\ node.op # "select"
    BY <1>4 DEF ScalarPairOps, UnaryOps, OrderOps
  <2> QED BY <1>4, <2>1, Zenon DEF OperationResult, AndThen
<1>5. CASE node.op \in UnaryOps
  <2>1. /\ node.op # "const" /\ node.op # "input" /\ node.op # "field" /\ node.op \notin ScalarPairOps /\ node.op \notin {"eq", "ne"}
        /\ node.op \notin OrderOps /\ node.op # "not" /\ node.op \notin {"and", "or"} /\ node.op # "select"
    BY <1>5 DEF ScalarPairOps, UnaryOps, OrderOps
  <2> QED BY <1>5, <2>1, Zenon DEF OperationResult, AndThen
<1>6. CASE node.op \in {"eq", "ne"}
  <2>1. /\ node.op # "const" /\ node.op # "input" /\ node.op # "field" /\ node.op \notin ScalarPairOps /\ node.op \notin UnaryOps
        /\ node.op \notin OrderOps /\ node.op # "not" /\ node.op \notin {"and", "or"} /\ node.op # "select"
    BY <1>6 DEF ScalarPairOps, UnaryOps, OrderOps
  <2> QED BY <1>6, <2>1, Zenon DEF OperationResult, AndThen
<1>7. CASE node.op \in OrderOps
  <2>1. /\ node.op # "const" /\ node.op # "input" /\ node.op # "field" /\ node.op \notin ScalarPairOps /\ node.op \notin UnaryOps
        /\ node.op \notin {"eq", "ne"} /\ node.op # "not" /\ node.op \notin {"and", "or"} /\ node.op # "select"
    BY <1>7 DEF ScalarPairOps, UnaryOps, OrderOps
  <2> QED BY <1>7, <2>1, Zenon DEF OperationResult, AndThen
<1>8. CASE node.op = "not"
  <2>1. /\ node.op # "const" /\ node.op # "input" /\ node.op # "field" /\ node.op \notin ScalarPairOps /\ node.op \notin UnaryOps
        /\ node.op \notin {"eq", "ne"} /\ node.op \notin OrderOps /\ node.op \notin {"and", "or"} /\ node.op # "select"
    BY <1>8 DEF ScalarPairOps, UnaryOps, OrderOps
  <2> QED BY <1>8, <2>1, Zenon DEF OperationResult, AndThen, Negated
<1>9. CASE node.op \in {"and", "or"}
  <2>1. /\ node.op # "const" /\ node.op # "input" /\ node.op # "field" /\ node.op \notin ScalarPairOps /\ node.op \notin UnaryOps
        /\ node.op \notin {"eq", "ne"} /\ node.op \notin OrderOps /\ node.op # "not" /\ node.op # "select"
    BY <1>9 DEF ScalarPairOps, UnaryOps, OrderOps
  <2> QED BY <1>9, <2>1, Zenon DEF OperationResult
<1>10. CASE node.op = "select"
  <2>1. /\ node.op # "const" /\ node.op # "input" /\ node.op # "field" /\ node.op \notin ScalarPairOps /\ node.op \notin UnaryOps
        /\ node.op \notin {"eq", "ne"} /\ node.op \notin OrderOps /\ node.op # "not" /\ node.op \notin {"and", "or"}
    BY <1>10 DEF ScalarPairOps, UnaryOps, OrderOps
  <2> QED BY <1>10, <2>1, Zenon DEF OperationResult, AndThen
<1> QED BY <1>1, <1>2, <1>3, <1>4, <1>5, <1>6, <1>7, <1>8, <1>9, <1>10, Zenon

LEMMA KindsOf ==
  ASSUME NEW op, NEW k
  PROVE  /\ op \in ScalarPairOps \cup UnaryOps => Kind(op, k) = "scalar"
         /\ op \in {"and", "or", "not"} => Kind(op, k) = "bool"
         /\ op \in OrderOps \cup {"eq", "ne"} => Kind(op, k) = "any"
         /\ op = "select" => Kind(op, k) = IF k = 1 THEN "bool" ELSE "any"
         /\ op = "table" => Kind(op, k) = "text"
         /\ op \in LoopOps /\ k = 1 => Kind(op, k) = "list"
         /\ op = "sum" /\ k # 1 => Kind(op, k) = "scalar"
         /\ op = "count" /\ k # 1 => Kind(op, k) = "bool"
BY DEF Kind, ScalarPairOps, UnaryOps, OrderOps, LoopOps

LEMMA TakenAll ==
  ASSUME NEW results, NEW n \in Nat, DOMAIN results = 1 .. n, NEW vals, NEW kind,
         \A k \in 1 .. n : results[k] = Ok(vals[k]) /\ Is(vals[k], kind)
  PROVE  All(TakeEach(results, kind)) = Ok([k \in 1 .. n |-> vals[k][kind]])
<1> DEFINE taken == TakeEach(results, kind)
           plain == [k \in 1 .. n |-> vals[k][kind]]
<1>1. DOMAIN taken = 1 .. n /\ DOMAIN plain = 1 .. n /\ plain = [k \in DOMAIN plain |-> plain[k]]
  BY DEF TakeEach
<1>2. ASSUME NEW k \in 1 .. n PROVE taken[k] = Ok(plain[k])
  <2>1. taken[k] = Take(results[k], kind)
    BY DEF TakeEach
  <2> QED BY <2>1, Taken
<1> HIDE DEF taken, plain
<1>3. All(taken) = Ok(plain)
  BY <1>1, <1>2, AllGood
<1> QED BY <1>3 DEF taken, plain

LEMMA TakenBad ==
  ASSUME NEW results, NEW n \in Nat, DOMAIN results = 1 .. n, NEW vals, NEW kind, NEW k \in 1 .. n,
         \A j \in 1 .. k - 1 : results[j] = Ok(vals[j]) /\ Is(vals[j], kind),
         results[k].ok => results[k] = Ok(results[k].val) /\ ~Is(results[k].val, kind)
  PROVE  All(TakeEach(results, kind)) = Refusal(results[k]) /\ ~Refusal(results[k]).ok
<1> DEFINE taken == TakeEach(results, kind)
<1>1. DOMAIN taken = 1 .. n /\ \A j \in 1 .. n : taken[j] = Take(results[j], kind)
  BY DEF TakeEach
<1> HIDE DEF taken
<1>2. taken[k] = Refusal(results[k]) /\ ~taken[k].ok
  BY <1>1, NotTaken
<1>3. ASSUME NEW j \in 1 .. k - 1 PROVE taken[j].ok
  <2>1. j \in 1 .. n
    OBVIOUS
  <2>2. taken[j] = Ok(vals[j][kind])
    BY <1>1, <2>1, Taken
  <2> QED BY <2>2 DEF Ok
<1>4. All(taken) = taken[k]
  BY <1>1, <1>2, <1>3, AllBad
<1> QED BY <1>2, <1>4 DEF taken

(* The results of the operands of a node. *)
ResultsOf(m, node, scope) == [k \in DOMAIN node.args |-> m[node.args[k]][scope]]

EagerOps == PairOps \cup UnaryOps \cup {"not"}

LEMMA OperationMeans ==
  ASSUME NEW node, IsNode(node), node.op \notin LoopOps \cup {"table"}, NEW scope, NEW in, NEW m
  PROVE  /\ Means(node, scope, in, m) = OperationResult(node, ResultsOf(m, node, scope), scope, in)
         /\ Len(node.args) \in Nat /\ DOMAIN ResultsOf(m, node, scope) = 1 .. Len(node.args)
<1>1. node.op # "table" /\ node.op # "sum" /\ node.op # "count"
  BY DEF LoopOps
<1>2. Means(node, scope, in, m) = OperationResult(node, ResultsOf(m, node, scope), scope, in)
  BY <1>1, Zenon DEF Means, ResultsOf
<1>3. Len(node.args) \in Nat /\ DOMAIN node.args = 1 .. Len(node.args)
  BY <1>1 DEF IsNode
<1> QED BY <1>2, <1>3 DEF ResultsOf

(* Of these operations each value held is that of the operand in its place. *)
LEMMA OperandsHeld ==
  ASSUME NEW node, IsNode(node), node.op \in EagerOps \cup {"and", "or"}, NEW scope, NEW m, NEW vals, IsSequence(vals),
         \A k \in DOMAIN vals : Answered(m, node, vals, k, scope)
  PROVE  /\ \A k \in 1 .. Len(vals) : /\ k \in 1 .. Len(node.args) /\ Asking(node, vals, k)
                                      /\ ResultsOf(m, node, scope)[k] = Ok(vals[k])
                                      /\ Fits(vals[k], Kind(node.op, k))
         /\ \A k \in 1 .. Len(node.args) : Answer(m, node, vals, k, scope) = ResultsOf(m, node, scope)[k]
<1>1. node.op \notin LoopOps \cup {"table", "select", "count"}
  BY DEF EagerOps, PairOps, ScalarPairOps, OrderOps, UnaryOps, LoopOps
<1>2. Len(node.args) \in Nat /\ DOMAIN node.args = 1 .. Len(node.args)
  BY <1>1 DEF IsNode
<1>3. ASSUME NEW k \in 1 .. Len(node.args) PROVE Answer(m, node, vals, k, scope) = ResultsOf(m, node, scope)[k]
  <2>1. Asked(node, vals, k) = node.args[k] /\ AskedScope(node, vals, k, scope) = scope
    BY <1>1 DEF Asked, AskedScope
  <2> QED BY <1>2, <2>1 DEF Answer, ResultsOf
<1>4. ASSUME NEW k \in 1 .. Len(vals)
      PROVE  /\ k \in 1 .. Len(node.args) /\ Asking(node, vals, k)
             /\ ResultsOf(m, node, scope)[k] = Ok(vals[k]) /\ Fits(vals[k], Kind(node.op, k))
  <2>1. k \in DOMAIN vals /\ k \in Nat \ {0}
    BY SequenceType
  <2>2. Asking(node, vals, k) /\ Answer(m, node, vals, k, scope) = Ok(vals[k]) /\ Fits(vals[k], Kind(node.op, k))
    BY <1>1, <2>1 DEF Answered
  <2>3. k <= Len(node.args)
    BY <1>1, <2>2 DEF Asking
  <2>4. k \in 1 .. Len(node.args)
    BY <1>2, <2>1, <2>3
  <2> QED BY <1>3, <2>2, <2>4
<1> QED BY <1>3, <1>4

Held(m, node, vals, scope) == \A j \in DOMAIN vals : Answered(m, node, vals, j, scope)

(* What eval computes from all its operands. *)
EagerWorth(node, vals, w) ==
  /\ node.op \in ScalarPairOps => w = AsScalar(Arithmetic(node.op, vals[1].scalar, vals[2].scalar))
  /\ node.op \in UnaryOps => w = AsScalar(Unary(node.op, vals[1].scalar))
  /\ node.op \in {"eq", "ne"} => w = AsBool(Equality(node.op, vals[1], vals[2]))
  /\ node.op \in OrderOps => w = AsBool(Order(node.op, vals[1], vals[2]))
  /\ node.op = "not" => w = Ok(Bool(~vals[1].bool))

LEMMA EagerMeans ==
  ASSUME NEW node, IsNode(node), ShapeOk(node), node.op \in EagerOps, NEW scope, NEW in, NEW m,
         NEW vals, IsSequence(vals), ~(Len(vals) < Len(node.args)), Held(m, node, vals, scope)
  PROVE  EagerWorth(node, vals, Means(node, scope, in, m))
<1>0. \A k \in DOMAIN vals : Answered(m, node, vals, k, scope)
  BY DEF Held
<1> DEFINE n == Len(node.args)
           results == ResultsOf(m, node, scope)
           taken(kind) == [k \in 1 .. n |-> vals[k][kind]]
<1>1. node.op \notin LoopOps \cup {"table"} /\ node.op \in EagerOps \cup {"and", "or"}
  BY DEF EagerOps, PairOps, ScalarPairOps, OrderOps, UnaryOps, LoopOps
<1>2. Means(node, scope, in, m) = OperationResult(node, results, scope, in) /\ n \in Nat /\ DOMAIN results = 1 .. n
  BY <1>1, OperationMeans
<1>3. /\ \A k \in 1 .. Len(vals) : k \in 1 .. n /\ results[k] = Ok(vals[k]) /\ Fits(vals[k], Kind(node.op, k))
      /\ \A k \in 1 .. n : Answer(m, node, vals, k, scope) = results[k]
  BY <1>0, <1>1, OperandsHeld
<1>4. /\ node.op \in PairOps => n = 2
      /\ node.op \in UnaryOps \cup {"not"} => n = 1
  BY Shapes
<1>5. Len(vals) \in Nat /\ DOMAIN vals = 1 .. Len(vals)
  BY SequenceType
<1> HIDE DEF results
<1>6. Len(vals) = n
  <2> SUFFICES ASSUME Len(vals) # 0 PROVE Len(vals) <= n
    BY <1>2, <1>5
  <2>1. Len(vals) \in 1 .. Len(vals)
    BY <1>5
  <2>2. Len(vals) \in 1 .. n
    BY <1>3, <2>1
  <2> QED BY <1>2, <2>2
<1> HIDE DEF n
<1>7. ASSUME NEW kind \in {"scalar", "bool"}, \A k : Kind(node.op, k) = kind
      PROVE  All(TakeEach(results, kind)) = Ok(taken(kind))
  <2>1. \A k \in 1 .. n : results[k] = Ok(vals[k]) /\ Is(vals[k], kind)
    BY <1>3, <1>6, <1>7 DEF Fits
  <2> QED BY <1>2, <2>1, TakenAll
<1>8. All(results) = Ok(vals)
  <2>1. vals = [k \in DOMAIN vals |-> vals[k]]
    <3>1. PICK A : vals \in Seq(A)
      BY DEF IsSequence
    <3> QED BY <3>1
  <2> QED BY <1>2, <1>3, <1>5, <1>6, <2>1, AllGood
<1>9. ASSUME node.op \in ScalarPairOps
      PROVE  Means(node, scope, in, m) = AsScalar(Arithmetic(node.op, vals[1].scalar, vals[2].scalar))
  <2>1. n = 2
    BY <1>4, <1>9 DEF PairOps
  <2>2. All(TakeEach(results, "scalar")) = Ok(taken("scalar"))
    BY <1>7, <1>9, KindsOf
  <2>3. taken("scalar")[1] = vals[1].scalar /\ taken("scalar")[2] = vals[2].scalar
    BY <2>1
  <2> HIDE DEF taken
  <2> QED BY <1>2, <1>9, <2>2, <2>3, Operations DEF Ok
<1>10. ASSUME node.op \in UnaryOps
       PROVE  Means(node, scope, in, m) = AsScalar(Unary(node.op, vals[1].scalar))
  <2>1. n = 1
    BY <1>4, <1>10
  <2>2. All(TakeEach(results, "scalar")) = Ok(taken("scalar"))
    BY <1>7, <1>10, KindsOf
  <2>3. taken("scalar")[1] = vals[1].scalar
    BY <2>1
  <2> HIDE DEF taken
  <2> QED BY <1>2, <1>10, <2>2, <2>3, Operations DEF Ok
<1>11. ASSUME node.op \in {"eq", "ne"}
       PROVE  Means(node, scope, in, m) = AsBool(Equality(node.op, vals[1], vals[2]))
  BY <1>2, <1>8, <1>11, Operations DEF Ok
<1>12. ASSUME node.op \in OrderOps
       PROVE  Means(node, scope, in, m) = AsBool(Order(node.op, vals[1], vals[2]))
  BY <1>2, <1>8, <1>12, Operations DEF Ok
<1>13. ASSUME node.op = "not"
       PROVE  Means(node, scope, in, m) = Ok(Bool(~vals[1].bool))
  <2>1. n = 1
    BY <1>4, <1>13
  <2>2. All(TakeEach(results, "bool")) = Ok(taken("bool"))
    BY <1>7, <1>13, KindsOf
  <2>3. taken("bool")[1] = vals[1].bool
    BY <2>1
  <2> HIDE DEF taken
  <2>4. OperationResult(node, results, scope, in) = Negated(Ok(taken("bool")))
    BY <1>13, <2>2, Operations
  <2>5. Negated(Ok(taken("bool"))) = Ok(Bool(~taken("bool")[1]))
    BY Zenon DEF Negated, Ok
  <2> QED BY <1>2, <2>3, <2>4, <2>5, Zenon
<1> QED BY <1>9, <1>10, <1>11, <1>12, <1>13, Zenon DEF EagerWorth

(* An operand has no value the operation takes: the meaning is its error. *)
LEMMA EagerFails ==
  ASSUME NEW node, IsNode(node), node.op \in EagerOps, NEW scope, NEW in, NEW m,
         NEW vals, IsSequence(vals), NEW k, k = Len(vals) + 1, Asking(node, vals, k),
         Held(m, node, vals, scope),
         NEW r, r = Answer(m, node, vals, k, scope),
         r.ok => r = Ok(r.val) /\ ~Fits(r.val, Kind(node.op, k))
  PROVE  Means(node, scope, in, m) = Refusal(r) /\ ~Refusal(r).ok
<1> USE DEF Held
<1> DEFINE n == Len(node.args)
           results == ResultsOf(m, node, scope)
<1>1. node.op \notin LoopOps \cup {"table", "select"} /\ node.op \in EagerOps \cup {"and", "or"}
  BY DEF EagerOps, PairOps, ScalarPairOps, OrderOps, UnaryOps, LoopOps
<1>2. Means(node, scope, in, m) = OperationResult(node, results, scope, in) /\ n \in Nat /\ DOMAIN results = 1 .. n
  BY <1>1, OperationMeans
<1>3. /\ \A j \in 1 .. Len(vals) : j \in 1 .. n /\ results[j] = Ok(vals[j]) /\ Fits(vals[j], Kind(node.op, j))
      /\ \A j \in 1 .. n : Answer(m, node, vals, j, scope) = results[j]
  BY <1>1, OperandsHeld
<1>4. Len(vals) \in Nat
  BY SequenceType
<1>5. k \in 1 .. n /\ r = results[k] /\ k - 1 = Len(vals)
  <2>1. k <= n
    BY <1>1 DEF Asking
  <2>2. k \in 1 .. n /\ k - 1 = Len(vals)
    BY <1>2, <1>4, <2>1
  <2> QED BY <1>3, <2>2
<1> HIDE DEF n, results
<1>6. ASSUME NEW kind \in {"scalar", "bool"}, \A j : Kind(node.op, j) = kind
      PROVE  All(TakeEach(results, kind)) = Refusal(r) /\ ~Refusal(r).ok
  <2>1. \A j \in 1 .. k - 1 : results[j] = Ok(vals[j]) /\ Is(vals[j], kind)
    BY <1>3, <1>5, <1>6 DEF Fits
  <2>2. r.ok => r = Ok(r.val) /\ ~Is(r.val, kind)
    BY <1>6 DEF Fits
  <2> QED BY <1>2, <1>5, <2>1, <2>2, TakenBad
<1>7. ASSUME node.op \in OrderOps \cup {"eq", "ne"}
      PROVE  All(results) = Refusal(r) /\ ~Refusal(r).ok
  <2>1. ~r.ok /\ Refusal(r) = r
    BY <1>7, KindsOf DEF Fits, Refusal
  <2>2. ASSUME NEW j \in 1 .. k - 1 PROVE results[j].ok
    <3>1. j \in 1 .. Len(vals)
      BY <1>5, Zenon
    <3>2. results[j] = Ok(vals[j])
      BY <1>3, <3>1, Zenon
    <3> QED BY <3>2 DEF Ok
  <2> QED BY <1>2, <1>5, <2>1, <2>2, AllBad
<1>8. CASE node.op \in ScalarPairOps
  <2>1. All(TakeEach(results, "scalar")) = Refusal(r) /\ ~Refusal(r).ok
    BY <1>6, <1>8, KindsOf
  <2> QED BY <1>2, <1>8, <2>1, Operations
<1>9. CASE node.op \in UnaryOps
  <2>1. All(TakeEach(results, "scalar")) = Refusal(r) /\ ~Refusal(r).ok
    BY <1>6, <1>9, KindsOf
  <2> QED BY <1>2, <1>9, <2>1, Operations
<1>10. CASE node.op = "not"
  <2>1. All(TakeEach(results, "bool")) = Refusal(r) /\ ~Refusal(r).ok
    BY <1>6, <1>10, KindsOf
  <2> QED BY <1>2, <1>10, <2>1, Operations DEF Negated
<1>11. CASE node.op \in {"eq", "ne"}
  BY <1>2, <1>7, <1>11, Operations
<1>12. CASE node.op \in OrderOps
  BY <1>2, <1>7, <1>12, Operations
<1>13. node.op \in ScalarPairOps \/ node.op \in UnaryOps \/ node.op = "not" \/ node.op \in {"eq", "ne"} \/ node.op \in OrderOps
  BY DEF EagerOps, PairOps
<1> QED BY <1>8, <1>9, <1>10, <1>11, <1>12, <1>13

-----------------------------------------------------------------------------
(* The row a list of predicates selects.                                   *)

(* The lengths match_row adds up are texts of the row. *)
Measured(row) ==
  \A column \in DOMAIN row : Is(row[column], "text") => Len(row[column].text) \in Nat

LEMMA ScoreIs ==
  ASSUME NEW row, Measured(row), NEW p
  PROVE  Score(row, p) \in Nat \cup {-1} /\ (~p.prefix => Score(row, p) \in {0, -1})
BY DEF Score, MatchPredicate, PrefixScore, NoScore, Measured

LEMMA MatchRowIn ==
  ASSUME NEW row, NEW predicates, Len(predicates) \in Nat, NEW A, A = Nat \cup {-1} \/ A = {0, -1},
         \A n \in 1 .. Len(predicates) : Score(row, predicates[n]) \in A
  PROVE  MatchRow(row, predicates) \in A
<1> DEFINE N == Len(predicates)
           Plus(n, v) == IF v = NoScore \/ Score(row, predicates[n]) = NoScore THEN NoScore
                         ELSE v + Score(row, predicates[n])
           More(n, v) == IF n + 1 <= N THEN Plus(n + 1, v) ELSE v
           step == [n \in Nat |-> [v \in A |-> More(n, v)]]
           Value(g, n) == IF n = 0 THEN 0 ELSE Plus(n, g[n - 1])
           W == CHOOSE h : h = [n \in 0 .. N |-> Value(h, n)]
<1>1. MatchRow(row, predicates) = W[N]
  BY DEF MatchRow
<1>2. N \in Nat /\ NoScore = -1 /\ 0 \in A /\ -1 \in A
  BY DEF NoScore
<1>3. ASSUME NEW n \in 1 .. N, NEW v \in A PROVE Plus(n, v) \in A
  <2>1. PICK s \in A : s = Score(row, predicates[n])
    OBVIOUS
  <2> QED BY <1>2, <2>1
<1> HIDE DEF N, Plus
<1>4. PICK f : Unfolds(f, A, 0, step)
  <2>1. ASSUME NEW n \in Nat, NEW v \in A PROVE More(n, v) \in A
    <3>1. n + 1 <= N => n + 1 \in 1 .. N
      BY <1>2
    <3> QED BY <1>3, <3>1
  <2>2. step \in [Nat -> [A -> A]]
    BY <2>1
  <2> HIDE DEF step
  <2> QED BY <1>2, <2>2, PrimitiveRecursion, Zenon
<1>5. f \in [Nat -> A] /\ f[0] = 0 /\ \A n \in Nat : f[n + 1] = More(n, f[n])
  BY <1>4 DEF Unfolds
<1> DEFINE g == [n \in 0 .. N |-> f[n]]
<1>6. ASSUME NEW n \in 0 .. N PROVE g[n] = Value(g, n) /\ g[n] \in A
  <2>1. CASE n = 0
    BY <1>2, <1>5, <2>1
  <2>2. CASE n # 0
    <3>1. n - 1 \in Nat /\ n - 1 \in 0 .. N /\ (n - 1) + 1 = n /\ n <= N
      BY <1>2, <2>2
    <3>2. f[n] = More(n - 1, f[n - 1])
      BY <1>5, <3>1
    <3>3. g[n - 1] = f[n - 1] /\ g[n] = f[n] /\ f[n] \in A
      BY <1>5, <3>1
    <3> QED BY <2>2, <3>1, <3>2, <3>3
  <2> QED BY <2>1, <2>2
<1>7. g = [n \in 0 .. N |-> Value(g, n)] /\ g \in [0 .. N -> A]
  BY <1>6
<1> HIDE DEF g
<1>8. W = [n \in 0 .. N |-> Value(W, n)]
  BY <1>7
<1> HIDE DEF W
<1> DEFINE S == {n \in Nat : n <= N => W[n] \in A}
<1>9. \A n \in 0 .. N : W[n] = Value(W, n)
  BY <1>8
<1>10. 0 \in S
  BY <1>2, <1>9
<1>11. ASSUME NEW n \in S PROVE n + 1 \in S
  <2> SUFFICES ASSUME n + 1 <= N PROVE W[n + 1] \in A
    OBVIOUS
  <2>1. n \in Nat /\ n + 1 \in 1 .. N /\ n + 1 \in 0 .. N /\ (n + 1) - 1 = n /\ W[n] \in A /\ n + 1 # 0
    BY <1>2
  <2>2. W[n + 1] = Plus(n + 1, W[n])
    BY <1>9, <2>1
  <2> QED BY <1>3, <2>1, <2>2
<1>12. S = Nat
  <2>1. S \in SUBSET Nat
    OBVIOUS
  <2> HIDE DEF S
  <2> QED BY <1>10, <1>11, <2>1, SetInduction
<1>13. N \in S
  <2> HIDE DEF S
  <2> QED BY <1>2, <1>12
<1> QED BY <1>1, <1>2, <1>13

(* The loop of select_row after n rows. *)
Leads(scores, n, k) ==
  /\ k = 0 => \A j \in 1 .. n : scores[j] = -1
  /\ k # 0 => /\ k \in 1 .. n /\ scores[k] # -1
              /\ \A j \in 1 .. n : scores[j] # -1 => scores[j] < scores[k] \/ (scores[j] = scores[k] /\ j >= k)

HasPrefix(predicates) == \E n \in DOMAIN predicates : predicates[n].prefix

LEMMA SelectRowLeads ==
  ASSUME NEW rows, Len(rows) \in Nat, NEW predicates,
         NEW scores, scores = Scores(rows, predicates), scores \in [1 .. Len(rows) -> Nat \cup {-1}],
         ~HasPrefix(predicates) => scores \in [1 .. Len(rows) -> {0, -1}]
  PROVE  SelectRow(rows, predicates) \in 0 .. Len(rows) /\ Leads(scores, Len(rows), SelectRow(rows, predicates))
<1> DEFINE N == Len(rows)
           prefix == HasPrefix(predicates)
           Step(n, v) == IF scores[n] # NoScore /\ (v = 0 \/ (prefix /\ scores[n] > scores[v])) THEN n ELSE v
           More(n, v) == IF n + 1 <= N THEN Step(n + 1, v) ELSE v
           step == [n \in Nat |-> [v \in Nat |-> More(n, v)]]
           Value(g, n) == IF n = 0 THEN 0 ELSE Step(n, g[n - 1])
           W == CHOOSE h : h = [n \in 0 .. N |-> Value(h, n)]
<1>1. SelectRow(rows, predicates) = W[N]
  BY DEF SelectRow, HasPrefix
<1>2. N \in Nat /\ NoScore = -1
  BY DEF NoScore
<1> HIDE DEF N, prefix
<1>3. PICK f : Unfolds(f, Nat, 0, step)
  <2>1. \A n \in Nat, v \in Nat : More(n, v) \in Nat
    OBVIOUS
  <2>2. step \in [Nat -> [Nat -> Nat]]
    BY <2>1
  <2>3. 0 \in Nat
    OBVIOUS
  <2> HIDE DEF step
  <2> QED BY <2>2, <2>3, PrimitiveRecursion, Zenon
<1>4. f \in [Nat -> Nat] /\ f[0] = 0 /\ \A n \in Nat : f[n + 1] = More(n, f[n])
  BY <1>3 DEF Unfolds
<1> DEFINE g == [n \in 0 .. N |-> f[n]]
<1> HIDE DEF Step
<1>5. ASSUME NEW n \in 0 .. N PROVE g[n] = Value(g, n)
  <2>1. CASE n = 0
    BY <1>4, <2>1
  <2>2. CASE n # 0
    <3>1. n - 1 \in Nat /\ n - 1 \in 0 .. N /\ (n - 1) + 1 = n /\ n <= N
      BY <1>2, <2>2
    <3>2. f[n] = More(n - 1, f[n - 1])
      BY <1>4, <3>1
    <3>3. g[n - 1] = f[n - 1] /\ g[n] = f[n]
      BY <3>1
    <3> QED BY <2>2, <3>1, <3>2, <3>3
  <2> QED BY <2>1, <2>2
<1>6. g = [n \in 0 .. N |-> Value(g, n)]
  BY <1>5
<1> HIDE DEF g
<1>7. W = [n \in 0 .. N |-> Value(W, n)]
  BY <1>6
<1> HIDE DEF W
<1>8. \A n \in 0 .. N : W[n] = Value(W, n)
  BY <1>7
<1>9. W[0] = 0
  BY <1>2, <1>8
<1>10. ASSUME NEW n \in 1 .. N PROVE W[n] = Step(n, W[n - 1])
  <2>1. n \in 0 .. N /\ n # 0
    BY <1>2
  <2> QED BY <1>8, <2>1, Zenon
<1> DEFINE S == {n \in Nat : n <= N => W[n] \in 0 .. n /\ Leads(scores, n, W[n])}
<1>11. 0 \in S
  BY <1>9 DEF Leads
<1>12. ASSUME NEW n \in S PROVE n + 1 \in S
  <2> SUFFICES ASSUME n + 1 <= N PROVE W[n + 1] \in 0 .. n + 1 /\ Leads(scores, n + 1, W[n + 1])
    OBVIOUS
  <2>1. n \in Nat /\ n + 1 \in 1 .. N /\ (n + 1) - 1 = n /\ W[n] \in 0 .. n /\ Leads(scores, n, W[n])
    BY <1>2
  <2>2. PICK v \in 0 .. n : v = W[n]
    BY <2>1
  <2>3. W[n + 1] = Step(n + 1, v)
    BY <1>10, <2>1, <2>2
  <2> HIDE DEF S
  <2>4. PICK w : w = W[n + 1]
    OBVIOUS
  <2>5. \A j \in 1 .. n + 1 : scores[j] \in Nat \cup {-1}
    BY <1>2, <2>1 DEF N
  <2>6. \A j \in 1 .. n + 1 : j \in 1 .. n \/ j = n + 1
    BY <2>1
  <2>7. CASE scores[n + 1] # -1 /\ (v = 0 \/ (prefix /\ scores[n + 1] > scores[v]))
    <3>1. w = n + 1
      BY <1>2, <2>3, <2>4, <2>7 DEF Step
    <3>2. ASSUME NEW j \in 1 .. n, scores[j] # -1 PROVE scores[j] < scores[n + 1]
      <4>1. v # 0
        BY <2>1, <2>2, <3>2 DEF Leads
      <4>2. v \in 1 .. n /\ scores[j] <= scores[v]
        BY <2>1, <2>2, <2>5, <2>6, <3>2, <4>1 DEF Leads
      <4>3. scores[j] \in Int /\ scores[v] \in Int /\ scores[n + 1] \in Int
        BY <2>1, <2>5, <4>2
      <4> QED BY <2>7, <4>1, <4>2, <4>3
    <3> QED BY <2>1, <2>4, <2>6, <2>7, <3>1, <3>2 DEF Leads
  <2>8. CASE ~(scores[n + 1] # -1 /\ (v = 0 \/ (prefix /\ scores[n + 1] > scores[v])))
    <3>1. w = v
      BY <1>2, <2>3, <2>4, <2>8 DEF Step
    <3>2. CASE v = 0
      <4>1. scores[n + 1] = -1
        BY <2>8, <3>2
      <4> QED BY <2>1, <2>2, <2>4, <2>6, <3>1, <3>2, <4>1 DEF Leads
    <3>3. CASE v # 0
      <4>1. v \in 1 .. n /\ v \in 1 .. n + 1 /\ scores[v] \in Int /\ scores[n + 1] \in Int /\ scores[v] # -1
        BY <2>1, <2>2, <2>5, <3>3 DEF Leads
      <4>2. scores[n + 1] # -1 => scores[n + 1] < scores[v] \/ (scores[n + 1] = scores[v] /\ n + 1 >= v)
        <5>1. CASE prefix
          BY <2>8, <4>1, <5>1
        <5>2. CASE ~prefix
          <6>1. scores \in [1 .. N -> {0, -1}] /\ v \in 1 .. N
            BY <1>2, <2>1, <4>1, <5>2 DEF prefix, N
          <6>2. scores[v] \in {0, -1} /\ scores[n + 1] \in {0, -1}
            BY <2>1, <6>1
          <6> QED BY <2>1, <4>1, <6>2
        <5> QED BY <5>1, <5>2
      <4>3. \A j \in 1 .. n : scores[j] # -1 => scores[j] < scores[v] \/ (scores[j] = scores[v] /\ j >= v)
        BY <2>1, <2>2, <3>3 DEF Leads
      <4>4. \A j \in 1 .. n + 1 : scores[j] # -1 => scores[j] < scores[v] \/ (scores[j] = scores[v] /\ j >= v)
        BY <2>6, <4>2, <4>3, Zenon
      <4> QED BY <2>4, <3>1, <3>3, <4>1, <4>4 DEF Leads
    <3> QED BY <3>2, <3>3
  <2> QED BY <2>7, <2>8
<1>13. S = Nat
  <2>1. S \in SUBSET Nat
    OBVIOUS
  <2> HIDE DEF S
  <2> QED BY <1>11, <1>12, <2>1, SetInduction
<1>14. N \in S
  <2> HIDE DEF S
  <2> QED BY <1>2, <1>13
<1>15. W[N] \in 0 .. N /\ Leads(scores, N, W[N])
  BY <1>2, <1>14
<1> QED BY <1>1, <1>15 DEF N

(* What select_row computes is the longest match, the first of equal ones. *)
LEMMA SelectsTheLongestMatch ==
  ASSUME NEW rows, IsTable(rows), NEW predicates, Len(predicates) \in Nat, DOMAIN predicates = 1 .. Len(predicates)
  PROVE  SelectRow(rows, predicates) = LongestMatch(rows, predicates)
<1> DEFINE N == Len(rows)
           scores == Scores(rows, predicates)
           b == SelectRow(rows, predicates)
           best == {k \in DOMAIN rows : /\ MatchRow(rows[k], predicates) # NoScore
                                        /\ \A j \in DOMAIN rows : MatchRow(rows[j], predicates) <= MatchRow(rows[k], predicates)}
<1>1. N \in Nat /\ DOMAIN rows = 1 .. N /\ NoScore = -1 /\ \A k \in 1 .. N : Measured(rows[k])
  BY DEF IsTable, Measured, NoScore
<1>2. LongestMatch(rows, predicates) = IF best = {} THEN 0 ELSE Min(best)
  BY DEF LongestMatch
<1>3. \A k \in 1 .. N : scores[k] = MatchRow(rows[k], predicates)
  BY DEF Scores
<1>4. ASSUME NEW k \in 1 .. N PROVE MatchRow(rows[k], predicates) \in Nat \cup {-1}
  <2>1. \A n \in 1 .. Len(predicates) : Score(rows[k], predicates[n]) \in Nat \cup {-1}
    BY <1>1, ScoreIs
  <2> QED BY <2>1, MatchRowIn
<1>5. ASSUME NEW k \in 1 .. N, ~HasPrefix(predicates) PROVE MatchRow(rows[k], predicates) \in {0, -1}
  <2>1. \A n \in 1 .. Len(predicates) : Score(rows[k], predicates[n]) \in {0, -1}
    BY <1>1, <1>5, ScoreIs DEF HasPrefix
  <2> QED BY <2>1, MatchRowIn
<1>6. scores \in [1 .. N -> Nat \cup {-1}] /\ (~HasPrefix(predicates) => scores \in [1 .. N -> {0, -1}])
  BY <1>4, <1>5 DEF Scores
<1> HIDE DEF scores
<1>7. b \in 0 .. N /\ Leads(scores, N, b)
  BY <1>1, <1>6, SelectRowLeads DEF scores
<1>8. \A k : k \in best <=> k \in 1 .. N /\ scores[k] # -1 /\ \A j \in 1 .. N : scores[j] <= scores[k]
  BY <1>1, <1>3
<1> HIDE DEF N, best, b
<1>9. CASE b = 0
  <2>1. best = {}
    BY <1>7, <1>8, <1>9 DEF Leads
  <2> QED BY <1>2, <1>9, <2>1 DEF b
<1>10. CASE b # 0
  <2>1. b \in 1 .. N /\ scores[b] # -1
        /\ \A j \in 1 .. N : scores[j] # -1 => scores[j] < scores[b] \/ (scores[j] = scores[b] /\ j >= b)
    BY <1>7, <1>10 DEF Leads
  <2>2. scores[b] \in Nat
    BY <1>6, <2>1
  <2>3. ASSUME NEW j \in 1 .. N PROVE scores[j] <= scores[b]
    <3>1. scores[j] \in Nat \cup {-1}
      BY <1>6
    <3> QED BY <2>1, <2>2, <3>1
  <2>4. b \in best
    BY <1>8, <2>1, <2>3
  <2>5. ASSUME NEW j \in best PROVE b <= j
    <3>1. j \in 1 .. N /\ scores[j] # -1 /\ scores[b] <= scores[j]
      BY <1>8, <2>1
    <3>2. scores[j] \in Nat
      BY <1>6, <3>1
    <3>3. scores[j] < scores[b] \/ (scores[j] = scores[b] /\ j >= b)
      BY <2>1, <3>1
    <3> QED BY <1>1, <2>1, <2>2, <3>1, <3>2, <3>3
  <2>6. best \in SUBSET Nat
    BY <1>1, <1>8
  <2>7. Min(best) = b
    BY <2>4, <2>5, <2>6, MinimumIs
  <2> QED BY <1>2, <2>4, <2>7 DEF b
<1> QED BY <1>9, <1>10

-----------------------------------------------------------------------------
(* The meaning of the other operations.                                    *)

LEMMA JunctionStops ==
  ASSUME NEW op, NEW logical, NEW n \in Nat, DOMAIN logical = 1 .. n, NEW k \in 1 .. n,
         logical[k].ok => logical[k].val = (op = "or"),
         \A j \in 1 .. k - 1 : logical[j].ok /\ logical[j].val # (op = "or")
  PROVE  Junction(op, logical) = AsBool(logical[k])
<1> DEFINE stops == {j \in DOMAIN logical : ~logical[j].ok \/ logical[j].val = (op = "or")}
<1>1. k \in stops /\ stops \in SUBSET Nat
  OBVIOUS
<1>2. ASSUME NEW j \in stops PROVE k <= j
  <2>1. j \notin 1 .. k - 1 /\ j \in 1 .. n
    OBVIOUS
  <2> QED BY <2>1
<1> HIDE DEF stops
<1>3. Min(stops) = k /\ stops # {}
  BY <1>1, <1>2, MinimumIs
<1>4. Junction(op, logical) = IF stops = {} THEN Ok(Bool(op = "and")) ELSE AsBool(logical[Min(stops)])
  BY Zenon DEF Junction, stops
<1> QED BY <1>3, <1>4, Zenon

LEMMA JunctionRuns ==
  ASSUME NEW op, NEW logical, \A j \in DOMAIN logical : logical[j].ok /\ logical[j].val # (op = "or")
  PROVE  Junction(op, logical) = Ok(Bool(op = "and"))
<1> DEFINE stops == {j \in DOMAIN logical : ~logical[j].ok \/ logical[j].val = (op = "or")}
<1>1. stops = {}
  OBVIOUS
<1> HIDE DEF stops
<1>2. Junction(op, logical) = IF stops = {} THEN Ok(Bool(op = "and")) ELSE AsBool(logical[Min(stops)])
  BY Zenon DEF Junction, stops
<1> QED BY <1>1, <1>2, Zenon

LEMMA LogicMeans ==
  ASSUME NEW node, IsNode(node), node.op \in {"and", "or"}, NEW scope, NEW in, NEW m,
         NEW vals, IsSequence(vals),
         \A k \in DOMAIN vals : Answered(m, node, vals, k, scope)
  PROVE  /\ vals # <<>> /\ Last(vals).bool = (node.op = "or") =>
              Means(node, scope, in, m) = Ok(Bool(node.op = "or"))
         /\ ~(vals # <<>> /\ Last(vals).bool = (node.op = "or")) /\ ~(Len(vals) < Len(node.args)) =>
              Means(node, scope, in, m) = Ok(Bool(node.op = "and"))
<1> DEFINE n == Len(node.args)
           results == ResultsOf(m, node, scope)
           logical == TakeEach(results, "bool")
<1>1. node.op \notin LoopOps \cup {"table", "select"} /\ node.op \in EagerOps \cup {"and", "or"}
  BY DEF LoopOps
<1>2. Means(node, scope, in, m) = OperationResult(node, results, scope, in) /\ n \in Nat /\ DOMAIN results = 1 .. n
  BY <1>1, OperationMeans
<1>3. /\ \A k \in 1 .. Len(vals) : k \in 1 .. n /\ Asking(node, vals, k) /\ results[k] = Ok(vals[k]) /\ Fits(vals[k], Kind(node.op, k))
      /\ \A k \in 1 .. n : Answer(m, node, vals, k, scope) = results[k]
  BY <1>1, OperandsHeld
<1>4. Len(vals) \in Nat /\ DOMAIN vals = 1 .. Len(vals) /\ (vals = <<>> <=> Len(vals) = 0)
  BY SequenceType
<1>5. Means(node, scope, in, m) = Junction(node.op, logical)
  BY <1>2, Operations
<1>6. DOMAIN logical = 1 .. n
  BY <1>2 DEF TakeEach
<1>7. ASSUME NEW k \in 1 .. Len(vals) PROVE logical[k] = Ok(vals[k].bool) /\ k \in 1 .. n
  <2>1. logical[k] = Take(results[k], "bool")
    BY <1>2, <1>3 DEF TakeEach
  <2>2. results[k] = Ok(vals[k]) /\ Is(vals[k], "bool") /\ k \in 1 .. n
    BY <1>3, KindsOf DEF Fits
  <2> QED BY <2>1, <2>2, Taken
<1>8. ASSUME vals # <<>> PROVE \A j \in 1 .. Len(vals) - 1 : vals[j].bool # (node.op = "or")
  <2>1. Len(vals) \in 1 .. Len(vals)
    BY <1>4, <1>8
  <2>2. Asking(node, vals, Len(vals))
    BY <1>3, <2>1
  <2> QED BY <1>1, <2>2, Zenon DEF Asking
<1> HIDE DEF logical, results, n
<1>9. ASSUME vals # <<>>, Last(vals).bool = (node.op = "or")
      PROVE  Means(node, scope, in, m) = Ok(Bool(node.op = "or"))
  <2> DEFINE k == Len(vals)
  <2>1. k \in 1 .. Len(vals)
    BY <1>4, <1>9
  <2>2. logical[k] = Ok(vals[k].bool) /\ vals[k].bool = (node.op = "or") /\ k \in 1 .. n
    BY <1>7, <1>9, <2>1 DEF Last
  <2>3. ASSUME NEW j \in 1 .. k - 1 PROVE logical[j].ok /\ logical[j].val # (node.op = "or")
    <3>1. j \in 1 .. Len(vals)
      BY <1>4
    <3>2. logical[j] = Ok(vals[j].bool) /\ vals[j].bool # (node.op = "or")
      BY <1>7, <1>8, <1>9, <3>1
    <3> QED BY <3>2 DEF Ok
  <2>4. logical[k].ok => logical[k].val = (node.op = "or")
    BY <2>2 DEF Ok
  <2> HIDE DEF k
  <2>5. Junction(node.op, logical) = AsBool(logical[k])
    BY <1>2, <1>6, <2>2, <2>3, <2>4, JunctionStops
  <2>6. AsBool(logical[k]) = Ok(Bool(logical[k].val)) /\ logical[k].val = vals[k].bool
    <3>1. logical[k].ok /\ logical[k].val = vals[k].bool
      BY <2>2 DEF Ok
    <3> QED BY <3>1, Zenon DEF AsBool, AndThen
  <2> QED BY <1>5, <2>2, <2>5, <2>6, Zenon
<1>10. ASSUME ~(vals # <<>> /\ Last(vals).bool = (node.op = "or")), ~(Len(vals) < n)
       PROVE  Means(node, scope, in, m) = Ok(Bool(node.op = "and"))
  <2>1. ASSUME NEW j \in 1 .. n PROVE logical[j].ok /\ logical[j].val # (node.op = "or")
    <3>1. j \in 1 .. Len(vals) /\ vals # <<>>
      BY <1>2, <1>4, <1>10
    <3>2. vals[j].bool # (node.op = "or")
      <4>1. CASE j \in 1 .. Len(vals) - 1
        BY <1>8, <3>1, <4>1
      <4>2. CASE j \notin 1 .. Len(vals) - 1
        <5>1. \A l \in Nat : \A i \in 1 .. l : i \notin 1 .. l - 1 => i = l
          OBVIOUS
        <5>2. j = Len(vals)
          BY <1>4, <3>1, <4>2, <5>1
        <5> QED BY <1>10, <3>1, <5>2 DEF Last
      <4> QED BY <4>1, <4>2
    <3>3. logical[j] = Ok(vals[j].bool)
      BY <1>7, <3>1
    <3> QED BY <3>2, <3>3 DEF Ok
  <2>2. Junction(node.op, logical) = Ok(Bool(node.op = "and"))
    BY <1>6, <2>1, JunctionRuns
  <2> QED BY <1>5, <2>2, Zenon
<1> QED BY <1>9, <1>10, Zenon DEF n

LEMMA LogicFails ==
  ASSUME NEW node, IsNode(node), node.op \in {"and", "or"}, NEW scope, NEW in, NEW m,
         NEW vals, IsSequence(vals), NEW k, k = Len(vals) + 1, Asking(node, vals, k),
         \A j \in DOMAIN vals : Answered(m, node, vals, j, scope),
         NEW r, r = Answer(m, node, vals, k, scope),
         r.ok => r = Ok(r.val) /\ ~Fits(r.val, Kind(node.op, k))
  PROVE  Means(node, scope, in, m) = Refusal(r) /\ ~Refusal(r).ok
<1> DEFINE n == Len(node.args)
           results == ResultsOf(m, node, scope)
           logical == TakeEach(results, "bool")
<1>1. node.op \notin LoopOps \cup {"table", "select"} /\ node.op \in EagerOps \cup {"and", "or"}
  BY DEF LoopOps
<1>2. Means(node, scope, in, m) = OperationResult(node, results, scope, in) /\ n \in Nat /\ DOMAIN results = 1 .. n
  BY <1>1, OperationMeans
<1>3. /\ \A j \in 1 .. Len(vals) : j \in 1 .. n /\ Asking(node, vals, j) /\ results[j] = Ok(vals[j]) /\ Fits(vals[j], Kind(node.op, j))
      /\ \A j \in 1 .. n : Answer(m, node, vals, j, scope) = results[j]
  BY <1>1, OperandsHeld
<1>4. Len(vals) \in Nat
  BY SequenceType
<1>5. /\ k \in 1 .. n /\ k - 1 = Len(vals)
      /\ \A j \in 1 .. k - 1 : vals[j].bool # (node.op = "or")
  <2>1. k <= n /\ \A j \in 1 .. k - 1 : vals[j].bool # (node.op = "or")
    BY <1>1, Zenon DEF Asking
  <2> QED BY <1>2, <1>4, <2>1
<1>6. r = results[k]
  BY <1>3, <1>5
<1>7. DOMAIN logical = 1 .. n /\ \A j \in 1 .. n : logical[j] = Take(results[j], "bool")
  BY <1>2 DEF TakeEach
<1>8. Means(node, scope, in, m) = Junction(node.op, logical)
  BY <1>2, Operations
<1> HIDE DEF n, results, logical
<1>9. logical[k] = Refusal(r) /\ ~logical[k].ok
  <2>1. r.ok => r = Ok(r.val) /\ ~Is(r.val, "bool")
    BY KindsOf DEF Fits
  <2> QED BY <1>5, <1>6, <1>7, <2>1, NotTaken
<1>10. ASSUME NEW j \in 1 .. k - 1 PROVE logical[j].ok /\ logical[j].val # (node.op = "or")
  <2>1. j \in 1 .. Len(vals) /\ j \in 1 .. n
    BY <1>2, <1>4, <1>5
  <2>2. results[j] = Ok(vals[j]) /\ Is(vals[j], "bool")
    BY <1>3, <2>1, KindsOf DEF Fits
  <2>3. logical[j] = Ok(vals[j].bool)
    BY <1>7, <2>1, <2>2, Taken
  <2> QED BY <1>5, <2>3 DEF Ok
<1>11. Junction(node.op, logical) = AsBool(logical[k])
  BY <1>2, <1>5, <1>7, <1>9, <1>10, JunctionStops
<1>12. AsBool(logical[k]) = logical[k]
  BY <1>9 DEF AsBool, AndThen
<1> QED BY <1>8, <1>9, <1>11, <1>12

LEMMA LeafMeans ==
  ASSUME NEW node, IsNode(node), ShapeOk(node), NEW scope, NEW in, NEW m
  PROVE  /\ node.op = "const" => Means(node, scope, in, m) = Constant(node)
         /\ node.op = "input" =>
              Means(node, scope, in, m) = IF node.name \in DOMAIN in THEN Ok(in[node.name]) ELSE Err("UnknownInput")
         /\ node.op = "field" => Means(node, scope, in, m) = FieldOf(scope, node.name)
<1>1. ASSUME node.op \in {"const", "input", "field"}
      PROVE  Means(node, scope, in, m) = OperationResult(node, ResultsOf(m, node, scope), scope, in)
  <2>1. node.op \notin LoopOps \cup {"table"}
    BY <1>1 DEF LoopOps
  <2> QED BY <2>1, OperationMeans
<1>2. node.op = "const" => Constant(node) = Ok(node.literals[1])
  BY Shapes DEF Constant
<1> QED BY <1>1, <1>2, Operations

(* The next child has no value the node takes: the meaning is its error. *)
Fails(m, node, vals, scope, in) ==
  LET r == Answer(m, node, vals, Len(vals) + 1, scope)
  IN  Asking(node, vals, Len(vals) + 1) /\ (r.ok => r = Ok(r.val) /\ ~Fits(r.val, Kind(node.op, Len(vals) + 1))) =>
        Means(node, scope, in, m) = Refusal(r) /\ ~Refusal(r).ok

LEMMA SelectMeans ==
  ASSUME NEW node, IsNode(node), node.op = "select", NEW scope, NEW in, NEW m,
         NEW vals, IsSequence(vals),
         \A k \in DOMAIN vals : Answered(m, node, vals, k, scope)
  PROVE  /\ Len(vals) \in 0 .. 2
         /\ Len(vals) > 1 => Means(node, scope, in, m) = Ok(vals[2])
         /\ Fails(m, node, vals, scope, in)
<1> DEFINE results == ResultsOf(m, node, scope)
           b == Take(results[1], "bool")
<1>1. node.op \notin LoopOps \cup {"table", "count"}
  BY DEF LoopOps
<1>2. Means(node, scope, in, m) = OperationResult(node, results, scope, in)
  BY <1>1, OperationMeans
<1>3. Means(node, scope, in, m) = IF b.ok THEN results[IF b.val THEN 2 ELSE 3] ELSE b
  BY <1>2, Operations
<1>4. DOMAIN node.args = 1 .. 3
  BY <1>1 DEF IsNode
<1>5. /\ Answer(m, node, vals, 1, scope) = results[1]
      /\ Answer(m, node, vals, 2, scope) = results[IF vals[1].bool THEN 2 ELSE 3]
  BY <1>1, <1>4 DEF Answer, Asked, AskedScope, ResultsOf
<1>6. Len(vals) \in Nat /\ DOMAIN vals = 1 .. Len(vals)
  BY SequenceType
<1>7. \A k \in 1 .. Len(vals) : /\ Asking(node, vals, k) /\ Answer(m, node, vals, k, scope) = Ok(vals[k])
                                /\ Fits(vals[k], Kind(node.op, k))
  BY <1>1, <1>6 DEF Answered
<1> HIDE DEF results
<1>8. Len(vals) \in 0 .. 2
  <2> SUFFICES ASSUME Len(vals) # 0 PROVE Len(vals) <= 2
    BY <1>6
  <2>1. Len(vals) \in 1 .. Len(vals)
    BY <1>6
  <2>2. Asking(node, vals, Len(vals))
    BY <1>7, <2>1
  <2> QED BY <1>1, <2>2 DEF Asking
<1>9. Len(vals) > 0 => b = Ok(vals[1].bool)
  <2> SUFFICES ASSUME Len(vals) > 0 PROVE b = Ok(vals[1].bool)
    OBVIOUS
  <2>1. 1 \in 1 .. Len(vals)
    BY <1>6
  <2>2. results[1] = Ok(vals[1]) /\ Is(vals[1], "bool")
    BY <1>5, <1>7, <2>1, KindsOf DEF Fits
  <2> QED BY <2>2, Taken
<1> HIDE DEF b
<1>10. Len(vals) > 0 => Means(node, scope, in, m) = Answer(m, node, vals, 2, scope)
  <2> SUFFICES ASSUME Len(vals) > 0 PROVE Means(node, scope, in, m) = Answer(m, node, vals, 2, scope)
    OBVIOUS
  <2>1. b.ok /\ b.val = vals[1].bool
    BY <1>9 DEF Ok
  <2>2. b.val <=> vals[1].bool
    BY <2>1
  <2>3. CASE vals[1].bool
    <3>1. Means(node, scope, in, m) = results[2] /\ Answer(m, node, vals, 2, scope) = results[2]
      BY <1>3, <1>5, <2>1, <2>2, <2>3
    <3> QED BY <3>1
  <2>4. CASE ~vals[1].bool
    <3>1. Means(node, scope, in, m) = results[3] /\ Answer(m, node, vals, 2, scope) = results[3]
      BY <1>3, <1>5, <2>1, <2>2, <2>4
    <3> QED BY <3>1
  <2> QED BY <2>3, <2>4
<1>11. Len(vals) > 1 => Means(node, scope, in, m) = Ok(vals[2])
  <2> SUFFICES ASSUME Len(vals) > 1 PROVE Means(node, scope, in, m) = Ok(vals[2])
    OBVIOUS
  <2>1. 2 \in 1 .. Len(vals) /\ Len(vals) > 0
    BY <1>6
  <2> QED BY <1>7, <1>10, <2>1
<1>12. ASSUME NEW k, k = Len(vals) + 1, Asking(node, vals, k),
              NEW r, r = Answer(m, node, vals, k, scope),
              r.ok => r = Ok(r.val) /\ ~Fits(r.val, Kind(node.op, k))
       PROVE  Means(node, scope, in, m) = Refusal(r) /\ ~Refusal(r).ok
  <2>1. k \in {1, 2}
    BY <1>1, <1>6, <1>12 DEF Asking
  <2>2. CASE k = 1
    <3>1. r = results[1] /\ (r.ok => r = Ok(r.val) /\ ~Is(r.val, "bool"))
      BY <1>5, <1>12, <2>2, KindsOf DEF Fits
    <3>2. b = Refusal(r) /\ ~b.ok
      BY <3>1, NotTaken DEF b
    <3> QED BY <1>3, <3>2
  <2>3. CASE k = 2
    <3>1. Len(vals) > 0 /\ ~r.ok
      BY <1>6, <1>12, <2>3, KindsOf DEF Fits
    <3> QED BY <1>10, <1>12, <2>3, <3>1 DEF Refusal
  <2> QED BY <2>1, <2>2, <2>3
<1>13. Fails(m, node, vals, scope, in)
  BY <1>12, Zenon DEF Fails
<1> QED BY <1>8, <1>11, <1>13

(* The results of the operands of a table's predicates. *)
ComparedOf(m, node, scope) == [k \in DOMAIN node.matches |-> m[Compared(node.matches[k])][scope]]

(* What eval reads from the table, once its predicates' operands are there. *)
TableWorth(node, vals, w) ==
  LET file == FileOf(node)
      k == SelectRow(file.val, BoundPredicates(node.matches, vals))
  IN  /\ ~file.ok => w = file
      /\ file.ok /\ ~(Len(vals) < Len(node.matches)) =>
           w = IF k = 0 THEN Err("MissingRow") ELSE ReadCell(file.val[k], node.column, node.cell)

LEMMA TableMeans ==
  ASSUME NEW node, IsNode(node), node.op = "table", NEW scope, NEW in, NEW m,
         NEW vals, IsSequence(vals), Held(m, node, vals, scope)
  PROVE  TableWorth(node, vals, Means(node, scope, in, m))
<1>0. \A k \in DOMAIN vals : Answered(m, node, vals, k, scope)
  BY DEF Held
<1> DEFINE file == FileOf(node)
           compared == ComparedOf(m, node, scope)
           n == Len(node.matches)
           texts == [k \in 1 .. n |-> vals[k].text]
           all == All(TakeEach(compared, "text"))
<1>1. Means(node, scope, in, m) = TableResult(node, compared)
  BY Zenon DEF Means, ComparedOf
<1>2. Means(node, scope, in, m) = IF ~file.ok THEN file ELSE IF all.ok THEN TableCell(node, file.val, all.val) ELSE all
  <2>1. CASE node.table \notin DOMAIN TableFiles
    <3>1. file = Err("UnknownTable") /\ ~file.ok
      BY <2>1 DEF FileOf, Err
    <3> QED BY <1>1, <2>1, <3>1, Zenon DEF TableResult
  <2>2. CASE node.table \in DOMAIN TableFiles
    <3>1. file = TableFiles[node.table]
      BY <2>2 DEF FileOf
    <3>2. TableResult(node, compared) = IF ~file.ok THEN file ELSE IF all.ok THEN TableCell(node, file.val, all.val) ELSE all
      BY <2>2, <3>1, Zenon DEF TableResult, AndThen
    <3> QED BY <1>1, <3>2, Zenon
  <2> QED BY <2>1, <2>2
<1>3. ASSUME file.ok, ~(Len(vals) < n)
      PROVE  Means(node, scope, in, m) = IF SelectRow(file.val, BoundPredicates(node.matches, vals)) = 0 THEN Err("MissingRow")
               ELSE ReadCell(file.val[SelectRow(file.val, BoundPredicates(node.matches, vals))], node.column, node.cell)
  <2>1. n \in Nat /\ DOMAIN node.matches = 1 .. n
    BY DEF IsNode
  <2>2. Len(vals) \in Nat /\ DOMAIN vals = 1 .. Len(vals)
    BY SequenceType
  <2>3. ASSUME NEW k \in 1 .. Len(vals)
        PROVE  Asking(node, vals, k) /\ Answer(m, node, vals, k, scope) = Ok(vals[k]) /\ Fits(vals[k], Kind(node.op, k))
    <3>1. k \in DOMAIN vals /\ node.op # "count"
      BY <2>2
    <3> QED BY <1>0, <3>1 DEF Answered
  <2>4. Len(vals) = n
    <3> SUFFICES ASSUME Len(vals) # 0 PROVE Len(vals) <= n
      BY <1>3, <2>1, <2>2
    <3>1. Len(vals) \in 1 .. Len(vals)
      BY <2>2
    <3>2. Asking(node, vals, Len(vals))
      BY <2>3, <3>1
    <3> QED BY <3>2 DEF Asking
  <2>5. ASSUME NEW k \in 1 .. n PROVE compared[k] = Ok(vals[k]) /\ Is(vals[k], "text")
    <3>1. Asked(node, vals, k) = Compared(node.matches[k]) /\ AskedScope(node, vals, k, scope) = scope
      BY DEF Asked, AskedScope, LoopOps
    <3>2. Answer(m, node, vals, k, scope) = compared[k]
      BY <2>1, <3>1 DEF Answer, ComparedOf
    <3>3. k \in 1 .. Len(vals) /\ Kind(node.op, k) = "text"
      BY <2>4, KindsOf
    <3> QED BY <2>3, <3>2, <3>3 DEF Fits
  <2>6. DOMAIN compared = 1 .. n
    BY <2>1 DEF ComparedOf
  <2> HIDE DEF compared, file
  <2>7. all = Ok(texts)
    <3> DEFINE kind == "text"
    <3>1. \A k \in 1 .. n : compared[k] = Ok(vals[k]) /\ Is(vals[k], kind)
      BY <2>5
    <3> HIDE DEF kind, n
    <3>2. n \in Nat
      BY <2>1
    <3>3. All(TakeEach(compared, kind)) = Ok([k \in 1 .. n |-> vals[k][kind]])
      BY ONLY <2>6, <3>1, <3>2, TakenAll
    <3> QED BY <3>3 DEF kind
  <2>8. all.ok /\ all.val = texts
    BY <2>7 DEF Ok
  <2> DEFINE bound == [k \in DOMAIN texts |->
                         [column |-> node.matches[k].column, value |-> texts[k],
                          prefix |-> "prefixOf" \in DOMAIN node.matches[k].by]]
  <2>9. bound = BoundPredicates(node.matches, vals)
    BY <2>2, <2>4 DEF BoundPredicates
  <2>10. DOMAIN bound = 1 .. n /\ Len(bound) = n
    <3>1. DOMAIN bound = 1 .. n
      OBVIOUS
    <3> HIDE DEF bound
    <3> QED BY <2>1, <3>1
  <2>11. TableCell(node, file.val, texts)
           = IF LongestMatch(file.val, bound) = 0 THEN Err("MissingRow")
             ELSE ReadCell(file.val[LongestMatch(file.val, bound)], node.column, node.cell)
    <3> HIDE DEF texts
    <3> QED BY Zenon DEF TableCell
  <2>12. IsTable(file.val)
    <3>1. node.table \in DOMAIN TableFiles /\ file = TableFiles[node.table]
      BY <1>3 DEF file, FileOf, Err
    <3> QED BY <1>3, <3>1, TablesAssumption
  <2> HIDE DEF bound, texts, all
  <2>13. SelectRow(file.val, bound) = LongestMatch(file.val, bound)
    BY <2>1, <2>10, <2>12, SelectsTheLongestMatch
  <2>14. Means(node, scope, in, m) = TableCell(node, file.val, texts)
    BY <1>2, <1>3, <2>8
  <2> QED BY <2>9, <2>11, <2>13, <2>14, Zenon
<1> HIDE DEF compared, all
<1>4. ~file.ok => Means(node, scope, in, m) = file
  BY <1>2
<1> QED BY <1>3, <1>4, Zenon DEF TableWorth, file

LEMMA TableFails ==
  ASSUME NEW node, IsNode(node), node.op = "table", NEW scope, NEW in, NEW m,
         NEW vals, IsSequence(vals), NEW k, k = Len(vals) + 1, Asking(node, vals, k),
         \A j \in DOMAIN vals : Answered(m, node, vals, j, scope),
         NEW r, r = Answer(m, node, vals, k, scope),
         r.ok => r = Ok(r.val) /\ ~Fits(r.val, Kind(node.op, k))
  PROVE  Means(node, scope, in, m) = Refusal(r) /\ ~Refusal(r).ok
<1> DEFINE file == FileOf(node)
           compared == ComparedOf(m, node, scope)
           n == Len(node.matches)
           all == All(TakeEach(compared, "text"))
<1>1. Means(node, scope, in, m) = TableResult(node, compared)
  BY Zenon DEF Means, ComparedOf
<1>2. file.ok /\ k <= n
  BY DEF Asking
<1>3. node.table \in DOMAIN TableFiles /\ file = TableFiles[node.table]
  BY <1>2 DEF FileOf, Err
<1> HIDE DEF file
<1>4. Means(node, scope, in, m) = IF all.ok THEN TableCell(node, file.val, all.val) ELSE all
  BY <1>1, <1>2, <1>3, Zenon DEF TableResult, AndThen
<1>5. n \in Nat /\ DOMAIN node.matches = 1 .. n
  BY DEF IsNode
<1>6. Len(vals) \in Nat /\ DOMAIN vals = 1 .. Len(vals)
  BY SequenceType
<1>7. k \in 1 .. n /\ k - 1 = Len(vals)
  BY <1>2, <1>5, <1>6
<1>8. DOMAIN compared = 1 .. n
  BY <1>5 DEF ComparedOf
<1>9. ASSUME NEW j \in 1 .. n PROVE Answer(m, node, vals, j, scope) = compared[j]
  <2>1. Asked(node, vals, j) = Compared(node.matches[j]) /\ AskedScope(node, vals, j, scope) = scope
    BY DEF Asked, AskedScope, LoopOps
  <2> QED BY <1>5, <2>1 DEF Answer, ComparedOf
<1> HIDE DEF compared, n
<1>10. ASSUME NEW j \in 1 .. k - 1 PROVE compared[j] = Ok(vals[j]) /\ Is(vals[j], "text")
  <2>1. j \in DOMAIN vals /\ j \in 1 .. n /\ node.op # "count"
    BY <1>5, <1>6, <1>7
  <2>2. Answer(m, node, vals, j, scope) = Ok(vals[j]) /\ Fits(vals[j], Kind(node.op, j))
    BY <2>1 DEF Answered
  <2> QED BY <1>9, <2>1, <2>2, KindsOf DEF Fits
<1>11. compared[k].ok => compared[k] = Ok(compared[k].val) /\ ~Is(compared[k].val, "text")
  BY <1>7, <1>9, KindsOf DEF Fits
<1>12. all = Refusal(compared[k]) /\ ~Refusal(compared[k]).ok
  <2>1. \A j \in 1 .. k - 1 : compared[j] = Ok(vals[j]) /\ Is(vals[j], "text")
    BY <1>10
  <2>2. k \in 1 .. n /\ n \in Nat
    BY <1>5, <1>7
  <2> HIDE DEF all
  <2>3. All(TakeEach(compared, "text")) = Refusal(compared[k]) /\ ~Refusal(compared[k]).ok
    BY ONLY <1>8, <1>11, <2>1, <2>2, TakenBad
  <2> QED BY <2>3 DEF all
<1>13. r = compared[k]
  BY <1>7, <1>9
<1> HIDE DEF all
<1> QED BY <1>4, <1>12, <1>13

-----------------------------------------------------------------------------
(* The meaning of sums and counts.                                         *)

(* The recursion of Totals is well defined. *)
LEMMA TotalsRows ==
  ASSUME NEW terms, Len(terms) \in Nat
  PROVE  /\ Totals(terms)[0] = 0
         /\ \A n \in 1 .. Len(terms) :
              Totals(terms)[n] = IF ~terms[n].ok THEN 0 ELSE Totals(terms)[n - 1] + terms[n].val
<1> DEFINE N == Len(terms)
           Value(g, n) == IF n = 0 \/ ~terms[n].ok THEN 0 ELSE g[n - 1] + terms[n].val
           W == CHOOSE h : h = [n \in 0 .. N |-> Value(h, n)]
           Settled(g, m) == \A n \in 0 .. N : n <= m => g[n] = Value(g, n)
           S == {m \in Nat : \E g : Settled(g, m)}
<1>1. Totals(terms) = W
  BY DEF Totals
<1> HIDE DEF N
<1>2. N \in Nat
  BY DEF N
<1>3. 0 \in S
  <2>1. Settled([n \in 0 .. N |-> 0], 0)
    BY <1>2
  <2> QED BY <2>1
<1>4. ASSUME NEW m \in S PROVE m + 1 \in S
  <2>1. PICK g : Settled(g, m)
    OBVIOUS
  <2> DEFINE next == [n \in 0 .. N |-> Value(g, n)]
  <2>2. \A n \in 0 .. N : next[n] = Value(g, n)
    OBVIOUS
  <2> HIDE DEF next
  <2>3. \A n \in 0 .. N : n <= m => next[n] = g[n]
    BY <2>1, <2>2
  <2>4. ASSUME NEW n \in 0 .. N, n <= m + 1 PROVE next[n] = Value(next, n)
    <3>1. CASE n = 0
      BY <2>2, <3>1
    <3>2. CASE n # 0
      <4>1. n - 1 \in 0 .. N /\ n - 1 <= m
        BY <1>2, <2>4, <3>2
      <4>2. next[n - 1] = g[n - 1]
        BY <2>3, <4>1
      <4> QED BY <2>2, <3>2, <4>2
    <3> QED BY <3>1, <3>2
  <2>5. Settled(next, m + 1)
    BY <2>4
  <2> QED BY <2>5
<1>5. PICK g : Settled(g, N)
  <2>1. S \in SUBSET Nat
    OBVIOUS
  <2>2. N \in S
    <3> HIDE DEF S
    <3>1. S = Nat
      BY <1>3, <1>4, <2>1, SetInduction
    <3> QED BY <1>2, <3>1
  <2> QED BY <2>2
<1> DEFINE h == [n \in 0 .. N |-> g[n]]
<1>6. ASSUME NEW n \in 0 .. N PROVE h[n] = Value(h, n)
  <2>1. CASE n = 0
    BY <1>2, <1>5, <2>1
  <2>2. CASE n # 0
    <3>1. n - 1 \in 0 .. N
      BY <1>2, <2>2
    <3>2. h[n - 1] = g[n - 1] /\ h[n] = g[n]
      BY <3>1
    <3>3. g[n] = Value(g, n)
      BY <1>2, <1>5
    <3> QED BY <2>2, <3>2, <3>3
  <2> QED BY <2>1, <2>2
<1>7. h = [n \in 0 .. N |-> Value(h, n)]
  BY <1>6
<1> HIDE DEF h
<1>8. W = [n \in 0 .. N |-> Value(W, n)]
  BY <1>7
<1> HIDE DEF W
<1>9. W[0] = 0
  BY <1>2, <1>8
<1>10. ASSUME NEW n \in 1 .. N PROVE W[n] = IF ~terms[n].ok THEN 0 ELSE W[n - 1] + terms[n].val
  <2>1. n \in 0 .. N /\ n # 0
    BY <1>2
  <2>2. W[n] = Value(W, n)
    BY <1>8, <2>1
  <2> QED BY <2>1, <2>2
<1> QED BY <1>1, <1>9, <1>10 DEF N

LEMMA TotalFits ==
  ASSUME NEW terms, Len(terms) \in Nat, DOMAIN terms = 1 .. Len(terms),
         \A j \in 1 .. Len(terms) : terms[j].ok /\ Totals(terms)[j] \in Range128
  PROVE  Total(terms) = Ok(Totals(terms)[Len(terms)])
<1> DEFINE stops == {n \in DOMAIN terms : ~terms[n].ok \/ Totals(terms)[n] \notin Range128}
<1>1. stops = {}
  OBVIOUS
<1> HIDE DEF stops
<1>2. Total(terms) = IF stops = {} THEN Ok(Totals(terms)[Len(terms)])
                     ELSE AndThen(terms[Min(stops)], LAMBDA x : Err("Overflow"))
  BY Zenon DEF Total, stops
<1> QED BY <1>1, <1>2, Zenon

LEMMA TotalStops ==
  ASSUME NEW terms, Len(terms) \in Nat, DOMAIN terms = 1 .. Len(terms), NEW k \in 1 .. Len(terms),
         ~terms[k].ok \/ Totals(terms)[k] \notin Range128,
         \A j \in 1 .. k - 1 : terms[j].ok /\ Totals(terms)[j] \in Range128
  PROVE  Total(terms) = IF terms[k].ok THEN Err("Overflow") ELSE terms[k]
<1> DEFINE stops == {n \in DOMAIN terms : ~terms[n].ok \/ Totals(terms)[n] \notin Range128}
<1>1. k \in stops /\ stops \in SUBSET Nat
  OBVIOUS
<1>2. ASSUME NEW j \in stops PROVE k <= j
  <2>1. j \notin 1 .. k - 1 /\ j \in 1 .. Len(terms)
    OBVIOUS
  <2> QED BY <2>1
<1> HIDE DEF stops
<1>3. Min(stops) = k /\ stops # {}
  BY <1>1, <1>2, MinimumIs
<1>4. Total(terms) = IF stops = {} THEN Ok(Totals(terms)[Len(terms)])
                     ELSE IF terms[Min(stops)].ok THEN Err("Overflow") ELSE terms[Min(stops)]
  BY Zenon DEF Total, stops, AndThen
<1> QED BY <1>3, <1>4, Zenon

(* The list of a loop is there: its terms, those seen and the next one. *)
TermKind(op) == IF op = "sum" THEN "scalar" ELSE "bool"

TermsOf(m, node, vals) == LoopTerms(vals[1].list, m[node.args[2]], TermKind(node.op))

LEMMA LoopArguments ==
  ASSUME NEW node, IsNode(node), node.op \in LoopOps
  PROVE  /\ node.op = "sum" \/ node.op = "count"
         /\ DOMAIN node.args = 1 .. Len(node.args) /\ Len(node.args) \in {1, 2}
         /\ node.op = "sum" => Len(node.args) = 2
         /\ Len(node.args) = 2 => Last(node.args) = node.args[2]
BY DEF IsNode, LoopOps, Last

Looping(m, node, vals, scope) ==
  /\ IsNode(node) /\ node.op \in LoopOps
  /\ IsSequence(vals) /\ vals # <<>> /\ IsInput(vals[1])
  /\ \A k \in DOMAIN vals : Answered(m, node, vals, k, scope)

LEMMA ListHeld ==
  ASSUME NEW node, NEW scope, NEW m, NEW vals, Looping(m, node, vals, scope)
  PROVE  /\ m[node.args[1]][scope] = Ok(vals[1]) /\ Take(m[node.args[1]][scope], "list") = Ok(vals[1].list)
         /\ Len(vals) \in Nat \ {0} /\ DOMAIN vals = 1 .. Len(vals)
         /\ Len(vals[1].list) \in Nat /\ DOMAIN vals[1].list = 1 .. Len(vals[1].list)
<1> USE DEF Looping
<1>1. Len(vals) \in Nat \ {0} /\ DOMAIN vals = 1 .. Len(vals)
  BY SequenceType
<1>2. Answer(m, node, vals, 1, scope) = Ok(vals[1]) /\ Fits(vals[1], Kind(node.op, 1))
  <2>1. 1 \in DOMAIN vals
    BY <1>1
  <2>2. Answered(m, node, vals, 1, scope)
    BY <2>1
  <2> QED BY <2>2 DEF Answered
<1>3. node.op # "table"
  BY DEF LoopOps
<1>4. Answer(m, node, vals, 1, scope) = m[node.args[1]][scope]
  BY <1>3 DEF Answer, Asked, AskedScope
<1>5. Is(vals[1], "list")
  BY <1>2, KindsOf DEF Fits
<1>6. Take(m[node.args[1]][scope], "list") = Ok(vals[1].list)
  BY <1>2, <1>4, <1>5, Taken
<1>7. DOMAIN vals[1].list = 1 .. Len(vals[1].list) /\ Len(vals[1].list) \in 0 .. MAX /\ MAX \in Nat
  BY <1>5, Variants, FixedAssumption
<1> QED BY <1>1, <1>2, <1>4, <1>6, <1>7

LEMMA SumMeans ==
  ASSUME NEW node, IsNode(node), node.op = "sum", NEW scope, NEW in, NEW m
  PROVE  Means(node, scope, in, m) = SumResult(m[node.args[1]][scope], m[node.args[2]])
<1>1. node.op \in LoopOps /\ node.op # "table"
  BY DEF LoopOps
<1>2. ResultsOf(m, node, scope)[1] = m[node.args[1]][scope] /\ Last(node.args) = node.args[2]
  BY <1>1, LoopArguments DEF ResultsOf
<1>3. Means(node, scope, in, m) = SumResult(ResultsOf(m, node, scope)[1], m[Last(node.args)])
  BY <1>1, Zenon DEF Means, ResultsOf
<1> QED BY <1>2, <1>3

LEMMA CountMeans ==
  ASSUME NEW node, IsNode(node), node.op = "count", NEW scope, NEW in, NEW m
  PROVE  Means(node, scope, in, m) = CountResult(m[node.args[1]][scope], Len(node.args) = 2, m[Last(node.args)])
<1>1. node.op \in LoopOps /\ node.op # "table" /\ node.op # "sum"
  BY DEF LoopOps
<1>2. ResultsOf(m, node, scope)[1] = m[node.args[1]][scope]
  BY <1>1, LoopArguments DEF ResultsOf
<1>3. Means(node, scope, in, m) = CountResult(ResultsOf(m, node, scope)[1], Len(node.args) = 2, m[Last(node.args)])
  BY <1>1, Zenon DEF Means, ResultsOf
<1> QED BY <1>2, <1>3, Zenon

(* The terms of the items the loop has seen. *)
LEMMA TermsHeld ==
  ASSUME NEW node, Len(node.args) = 2, NEW scope, NEW m, NEW vals, Looping(m, node, vals, scope),
         NEW j \in 1 .. Len(vals) - 1
  PROVE  j \in DOMAIN vals[1].list /\ TermsOf(m, node, vals)[j] = Ok(vals[j + 1][TermKind(node.op)])
<1>1. Len(vals) \in Nat \ {0} /\ DOMAIN vals = 1 .. Len(vals)
      /\ Len(vals[1].list) \in Nat /\ DOMAIN vals[1].list = 1 .. Len(vals[1].list)
  BY ListHeld
<1> USE DEF Looping
<1>2. j + 1 \in DOMAIN vals /\ j + 1 # 1 /\ (j + 1) - 1 = j
  BY <1>1
<1>3. Asking(node, vals, j + 1) /\ Answer(m, node, vals, j + 1, scope) = Ok(vals[j + 1])
      /\ Fits(vals[j + 1], Kind(node.op, j + 1))
  BY <1>2 DEF Answered
<1>4. node.op # "table" /\ node.op # "select"
  BY DEF LoopOps
<1>5. j <= Len(vals[1].list) /\ Is(vals[1].list[j], "record")
  BY <1>2, <1>3, <1>4 DEF Asking
<1>6. Answer(m, node, vals, j + 1, scope) = m[node.args[2]][<<vals[1].list[j].record>>]
  BY <1>2, <1>4 DEF Answer, Asked, AskedScope
<1>7. Is(vals[j + 1], TermKind(node.op))
  <2>1. Kind(node.op, j + 1) = TermKind(node.op) /\ TermKind(node.op) # "any"
    BY <1>2, KindsOf, LoopArguments DEF TermKind
  <2> QED BY <1>3, <2>1 DEF Fits
<1>8. j \in DOMAIN vals[1].list
  BY <1>1, <1>5
<1>9. Take(m[node.args[2]][<<vals[1].list[j].record>>], TermKind(node.op)) = Ok(vals[j + 1][TermKind(node.op)])
  BY <1>3, <1>6, <1>7, Taken
<1> HIDE DEF Looping
<1>10. TermsOf(m, node, vals)[j] =
         IF Is(vals[1].list[j], "record")
           THEN Take(m[node.args[2]][<<vals[1].list[j].record>>], TermKind(node.op)) ELSE Err("TypeMismatch")
  BY <1>8 DEF TermsOf, LoopTerms
<1> QED BY <1>5, <1>8, <1>9, <1>10

LEMMA SumIs ==
  ASSUME NEW list, NEW body
  PROVE  LET t == Take(list, "list")
         IN  SumResult(list, body) = IF t.ok THEN AsScalar(Total(LoopTerms(t.val, body, "scalar"))) ELSE t
BY Zenon DEF SumResult, AndThen

LEMMA CountRefused ==
  ASSUME NEW list, NEW filtered, NEW body, ~Take(list, "list").ok
  PROVE  CountResult(list, filtered, body) = Take(list, "list")
BY Zenon DEF CountResult, AndThen

LEMMA CountFiltered ==
  ASSUME NEW list, NEW body, NEW items, Take(list, "list") = Ok(items),
         NEW all, all = All(LoopTerms(items, body, "bool"))
  PROVE  CountResult(list, TRUE, body) = IF all.ok THEN AsScalar(Kept(all.val)) ELSE all
<1>1. Ok(items).ok /\ Ok(items).val = items
  BY DEF Ok
<1> QED BY <1>1, Zenon DEF CountResult, AndThen

LEMMA CountItems ==
  ASSUME NEW list, NEW body, NEW items, Take(list, "list") = Ok(items)
  PROVE  CountResult(list, FALSE, body) = AsScalar(Kept([k \in DOMAIN items |-> TRUE]))
<1> DEFINE ones == [k \in DOMAIN items |-> TRUE]
<1>1. Ok(items).ok /\ Ok(items).val = items /\ Ok(ones).ok /\ Ok(ones).val = ones
  BY DEF Ok
<1>2. CountResult(list, FALSE, body) = IF Ok(ones).ok THEN AsScalar(Kept(Ok(ones).val)) ELSE Ok(ones)
  BY <1>1, Zenon DEF CountResult, AndThen
<1> QED BY <1>1, <1>2, Zenon

(* The list of a loop is refused. *)
LEMMA ListFails ==
  ASSUME NEW node, IsNode(node), node.op \in LoopOps, NEW scope, NEW in, NEW m,
         NEW r, r = m[node.args[1]][scope], r.ok => r = Ok(r.val) /\ ~Is(r.val, "list")
  PROVE  Means(node, scope, in, m) = Refusal(r) /\ ~Refusal(r).ok
<1>1. Take(r, "list") = Refusal(r) /\ ~Refusal(r).ok
  BY NotTaken
<1>2. CASE node.op = "sum"
  <2>1. SumResult(r, m[node.args[2]]) = Refusal(r)
    BY <1>1, SumIs, Zenon
  <2> QED BY <1>1, <1>2, <2>1, SumMeans
<1>3. CASE node.op = "count"
  <2> DEFINE filtered == Len(node.args) = 2
  <2>1. Means(node, scope, in, m) = CountResult(r, filtered, m[Last(node.args)])
    BY <1>3, CountMeans
  <2> HIDE DEF filtered
  <2>2. ~Take(r, "list").ok
    BY <1>1
  <2>3. CountResult(r, filtered, m[Last(node.args)]) = Take(r, "list")
    BY <2>2, CountRefused, Zenon
  <2> QED BY <1>1, <2>1, <2>3, Zenon
<1> QED BY <1>2, <1>3, LoopArguments

(* The list is there: the meaning is that of the terms. *)
LEMMA SumOfTerms ==
  ASSUME NEW node, IsNode(node), node.op = "sum", NEW scope, NEW in, NEW m,
         NEW vals, Take(m[node.args[1]][scope], "list") = Ok(vals[1].list)
  PROVE  Means(node, scope, in, m) = AsScalar(Total(TermsOf(m, node, vals)))
<1>1. Ok(vals[1].list).ok /\ Ok(vals[1].list).val = vals[1].list
  BY DEF Ok
<1>2. SumResult(m[node.args[1]][scope], m[node.args[2]]) = AsScalar(Total(LoopTerms(vals[1].list, m[node.args[2]], "scalar")))
  BY <1>1, SumIs, Zenon
<1>3. TermsOf(m, node, vals) = LoopTerms(vals[1].list, m[node.args[2]], "scalar")
  BY DEF TermsOf, TermKind
<1> QED BY <1>2, <1>3, SumMeans

LEMMA CountOfTerms ==
  ASSUME NEW node, IsNode(node), node.op = "count", Len(node.args) = 2, NEW scope, NEW in, NEW m,
         NEW vals, Take(m[node.args[1]][scope], "list") = Ok(vals[1].list),
         NEW all, all = All(TermsOf(m, node, vals))
  PROVE  Means(node, scope, in, m) = IF all.ok THEN AsScalar(Kept(all.val)) ELSE all
<1>1. node.op \in LoopOps /\ Last(node.args) = node.args[2] /\ (Len(node.args) = 2) = TRUE
  BY LoopArguments DEF LoopOps
<1>2. all = All(LoopTerms(vals[1].list, m[node.args[2]], "bool"))
  BY DEF TermsOf, TermKind
<1>3. CountResult(m[node.args[1]][scope], TRUE, m[node.args[2]]) = IF all.ok THEN AsScalar(Kept(all.val)) ELSE all
  BY <1>2, CountFiltered
<1>4. Means(node, scope, in, m) = CountResult(m[node.args[1]][scope], Len(node.args) = 2, m[Last(node.args)])
  BY CountMeans
<1> QED BY <1>1, <1>3, <1>4, Zenon

LEMMA CountOfItems ==
  ASSUME NEW node, IsNode(node), node.op = "count", Len(node.args) = 1, NEW scope, NEW in, NEW m,
         NEW vals, Take(m[node.args[1]][scope], "list") = Ok(vals[1].list)
  PROVE  Means(node, scope, in, m) = AsScalar(Kept([k \in DOMAIN vals[1].list |-> TRUE]))
<1>1. (Len(node.args) = 2) = FALSE
  OBVIOUS
<1>2. CountResult(m[node.args[1]][scope], FALSE, m[Last(node.args)]) = AsScalar(Kept([k \in DOMAIN vals[1].list |-> TRUE]))
  BY CountItems, Zenon
<1>3. Means(node, scope, in, m) = CountResult(m[node.args[1]][scope], Len(node.args) = 2, m[Last(node.args)])
  BY CountMeans
<1> QED BY <1>1, <1>2, <1>3, Zenon

LEMMA LengthIs ==
  ASSUME NEW s, NEW n \in Nat, DOMAIN s = 1 .. n
  PROVE  Len(s) = n
OBVIOUS

(* Every item seen: the meaning is what the loop has added up or counted. *)
LEMMA LoopDone ==
  ASSUME NEW node, NEW scope, NEW in, NEW m, NEW vals, Looping(m, node, vals, scope),
         NEW acc, TotalMeant(m, node, vals, acc), Len(vals) - 1 = Len(vals[1].list)
  PROVE  Means(node, scope, in, m) = IF node.op = "sum" THEN Ok(Scalar(acc)) ELSE AsScalar(Checked(acc * SCALE))
<1> DEFINE L == Len(vals[1].list)
           terms == TermsOf(m, node, vals)
           kept == {j \in 1 .. L : vals[j + 1].bool}
<1> HIDE DEF kept
<1>1. /\ Take(m[node.args[1]][scope], "list") = Ok(vals[1].list)
      /\ Len(vals) \in Nat \ {0} /\ DOMAIN vals = 1 .. Len(vals) /\ L \in Nat /\ DOMAIN vals[1].list = 1 .. L
  BY ListHeld
<1>2. DOMAIN terms = 1 .. L
  BY <1>1 DEF TermsOf, LoopTerms
<1>6. L + 1 = Len(vals)
  <2>1. Len(vals) \in Nat
    BY <1>1
  <2> QED BY <2>1
<1>0. IsNode(node) /\ node.op \in LoopOps /\ vals # <<>> /\ \A k \in DOMAIN vals : Answered(m, node, vals, k, scope)
  BY DEF Looping
<1>3. ASSUME Len(node.args) = 2, NEW j \in 1 .. L PROVE terms[j] = Ok(vals[j + 1][TermKind(node.op)])
  <2>1. j \in 1 .. Len(vals) - 1
    BY <1>1
  <2> QED BY <1>3, <2>1, TermsHeld
<1> HIDE DEF terms, L
<1>4. CASE node.op = "sum"
  <2>1. Len(node.args) = 2 /\ TermsOf(m, node, vals) = LoopTerms(vals[1].list, m[node.args[2]], "scalar")
    BY <1>4, LoopArguments DEF TermsOf, TermKind, Looping
  <2>2. acc = Totals(terms)[L] /\ \A j \in 1 .. L : Totals(terms)[j] \in Range128
    BY <1>4, <2>1 DEF TotalMeant, terms, L
  <2>3. Len(terms) = L /\ L \in Nat
    BY <1>1, <1>2, LengthIs
  <2>4. ASSUME NEW j \in 1 .. L PROVE terms[j].ok
    <3>1. terms[j] = Ok(vals[j + 1][TermKind(node.op)])
      BY <1>3, <2>1, Zenon
    <3> QED BY <3>1 DEF Ok
  <2>5. Total(terms) = Ok(acc)
    BY <1>1, <1>2, <2>2, <2>3, <2>4, TotalFits
  <2>6. AsScalar(Ok(acc)) = Ok(Scalar(acc))
    BY DEF AsScalar, AndThen, Ok
  <2>7. Means(node, scope, in, m) = AsScalar(Total(terms))
    <3>1. Means(node, scope, in, m) = AsScalar(Total(TermsOf(m, node, vals)))
      <4>1. IsNode(node) /\ Take(m[node.args[1]][scope], "list") = Ok(vals[1].list)
        BY <1>0, <1>1
      <4> QED BY <1>4, <4>1, SumOfTerms
    <3> QED BY <3>1 DEF terms
  <2> QED BY <1>4, <2>5, <2>6, <2>7
<1>5. CASE node.op = "count"
  <2>1. acc = Cardinality(kept)
    BY <1>0, <1>5 DEF TotalMeant, L, kept
  <2>2. CASE Len(node.args) = 2
    <3> DEFINE bools == [j \in 1 .. L |-> vals[j + 1].bool]
    <3>1. DOMAIN bools = DOMAIN terms /\ bools = [j \in DOMAIN bools |-> bools[j]]
          /\ \A j \in 1 .. L : bools[j] = vals[j + 1].bool
      BY <1>2
    <3>2. kept = {j \in DOMAIN bools : bools[j]}
      BY DEF kept
    <3> HIDE DEF bools
    <3>3. \A j \in DOMAIN terms : terms[j] = Ok(bools[j])
      <4>1. \A j \in 1 .. L : terms[j] = Ok(vals[j + 1][TermKind(node.op)])
        BY <1>3, <2>2, Zenon
      <4>2. TermKind(node.op) = "bool"
        BY <1>5 DEF TermKind
      <4> QED BY <1>2, <3>1, <4>1, <4>2
    <3>4. All(terms) = Ok(bools)
      BY <3>1, <3>3, AllGood, Zenon
    <3>5. Kept(bools) = Checked(acc * SCALE)
      BY <2>1, <3>2 DEF Kept
    <3>6. Means(node, scope, in, m) = IF All(terms).ok THEN AsScalar(Kept(All(terms).val)) ELSE All(terms)
      BY <1>0, <1>1, <1>5, <2>2, CountOfTerms DEF terms
    <3>7. All(terms).ok /\ All(terms).val = bools
      BY <3>4 DEF Ok
    <3> QED BY <1>5, <3>5, <3>6, <3>7
  <2>3. CASE Len(node.args) = 1
    <3> DEFINE ones == [j \in DOMAIN vals[1].list |-> TRUE]
    <3>1. ASSUME NEW j \in 1 .. L PROVE vals[j + 1].bool
      <4>1. j + 1 \in DOMAIN vals /\ j + 1 # 1
        <5>2. \A l \in Nat : \A i \in 1 .. l : i + 1 \in 1 .. l + 1 /\ i + 1 # 1
          OBVIOUS
        <5>3. j + 1 \in 1 .. L + 1 /\ j + 1 # 1
          BY <1>1, <5>2, Zenon
        <5> QED BY <1>1, <1>6, <5>3, Zenon
      <4>2. ~Asking(node, vals, j + 1)
        <5>1. node.op # "table"
          BY <1>5
        <5> QED BY <1>0, <2>3, <4>1, <5>1 DEF Asking
      <4>3. vals[j + 1] = Bool(TRUE)
        BY <1>0, <4>1, <4>2 DEF Answered
      <4> QED BY <4>3 DEF Bool
    <3>2. kept = 1 .. L /\ {j \in DOMAIN ones : ones[j]} = 1 .. L
      BY <1>1, <3>1 DEF kept
    <3> HIDE DEF ones
    <3>3. Kept(ones) = Checked(acc * SCALE)
      BY <2>1, <3>2 DEF Kept
    <3>4. Means(node, scope, in, m) = AsScalar(Kept(ones))
      BY <1>0, <1>1, <1>5, <2>3, CountOfItems DEF ones
    <3> QED BY <1>5, <3>3, <3>4
  <2> QED BY <2>2, <2>3, LoopArguments DEF Looping
<1> QED BY <1>4, <1>5, LoopArguments DEF Looping

(* The next term is bad, or its sum does not fit: the meaning is its error. *)
LEMMA LoopStops ==
  ASSUME NEW node, Len(node.args) = 2, NEW scope, NEW in, NEW m, NEW vals, Looping(m, node, vals, scope),
         NEW acc, TotalMeant(m, node, vals, acc), Len(vals) <= Len(vals[1].list),
         NEW t, t = TermsOf(m, node, vals)[Len(vals)],
         t.ok => node.op = "sum" /\ acc + t.val \notin Range128
  PROVE  Means(node, scope, in, m) = IF t.ok THEN Err("Overflow") ELSE t
<1> DEFINE L == Len(vals[1].list)
           terms == TermsOf(m, node, vals)
           n == Len(vals)
<1>1. /\ Take(m[node.args[1]][scope], "list") = Ok(vals[1].list)
      /\ n \in Nat \ {0} /\ DOMAIN vals = 1 .. n /\ L \in Nat /\ DOMAIN vals[1].list = 1 .. L
  BY ListHeld
<1>2. DOMAIN terms = 1 .. L
  BY <1>1 DEF TermsOf, LoopTerms
<1>0. IsNode(node) /\ node.op \in LoopOps /\ vals # <<>>
  BY DEF Looping
<1>3. ASSUME NEW j \in 1 .. n - 1 PROVE terms[j].ok
  <2>1. terms[j] = Ok(vals[j + 1][TermKind(node.op)])
    BY TermsHeld
  <2> QED BY <2>1 DEF Ok
<1> HIDE DEF terms, L
<1>4. Len(terms) = L /\ n \in 1 .. L
  BY <1>1, <1>2 DEF L
<1>5. CASE node.op = "sum"
  <2>1. TermsOf(m, node, vals) = LoopTerms(vals[1].list, m[node.args[2]], "scalar")
    BY <1>5 DEF TermsOf, TermKind
  <2>2. acc = Totals(terms)[n - 1] /\ \A j \in 1 .. n - 1 : Totals(terms)[j] \in Range128
    BY <1>0, <1>5, <2>1 DEF TotalMeant, terms
  <2>3. t.ok => Totals(terms)[n] = acc + t.val
    <3>1. Totals(terms)[n] = IF ~terms[n].ok THEN 0 ELSE Totals(terms)[n - 1] + terms[n].val
      BY <1>1, <1>4, TotalsRows
    <3> QED BY <2>2, <3>1 DEF terms
  <2>4. Total(terms) = IF terms[n].ok THEN Err("Overflow") ELSE terms[n]
    <3>1. ~terms[n].ok \/ Totals(terms)[n] \notin Range128
      BY <2>3 DEF terms
    <3>2. \A j \in 1 .. n - 1 : terms[j].ok /\ Totals(terms)[j] \in Range128
      BY <1>3, <2>2
    <3>3. n \in 1 .. Len(terms) /\ Len(terms) \in Nat /\ DOMAIN terms = 1 .. Len(terms)
      BY <1>1, <1>2, <1>4
    <3> HIDE DEF n
    <3> QED BY <3>1, <3>2, <3>3, TotalStops, Zenon
  <2>5. Means(node, scope, in, m) = AsScalar(Total(terms))
    BY <1>0, <1>1, <1>5, SumOfTerms DEF terms
  <2>6. AsScalar(Err("Overflow")) = Err("Overflow") /\ (~t.ok => AsScalar(t) = t)
    BY DEF AsScalar, AndThen, Err
  <2> QED BY <2>4, <2>5, <2>6 DEF terms
<1>6. CASE node.op = "count"
  <2>1. ~terms[n].ok /\ terms[n] = t
    BY <1>6 DEF terms
  <2>2. All(terms) = terms[n]
    <3>1. \A j \in 1 .. n - 1 : terms[j].ok
      BY <1>3
    <3>2. n \in DOMAIN terms /\ L \in Nat
      BY <1>1, <1>2, <1>4
    <3> HIDE DEF n
    <3> QED BY <1>1, <1>2, <1>4, <2>1, <3>1, <3>2, AllBad
  <2>3. Means(node, scope, in, m) = IF All(terms).ok THEN AsScalar(Kept(All(terms).val)) ELSE All(terms)
    BY <1>0, <1>1, <1>6, CountOfTerms DEF terms
  <2> QED BY <2>1, <2>2, <2>3
<1> QED BY <1>5, <1>6, LoopArguments DEF Looping

-----------------------------------------------------------------------------
(* The next step of a call, of any operation.                              *)

Framed(m, node, vals, acc, scope) ==
  /\ IsNode(node) /\ IsSequence(vals)
  /\ \A k \in DOMAIN vals : IsInput(vals[k]) /\ Answered(m, node, vals, k, scope)
  /\ TotalMeant(m, node, vals, acc)

LEMMA LoopingFrame ==
  ASSUME NEW m, NEW node, NEW vals, NEW acc, NEW scope, Framed(m, node, vals, acc, scope),
         node.op \in LoopOps, vals # <<>>
  PROVE  Looping(m, node, vals, scope)
<1>1. IsSequence(vals)
  BY DEF Framed
<1>2. 1 \in DOMAIN vals
  BY <1>1, SequenceType
<1> QED BY <1>2 DEF Framed, Looping

(* The child a loop asks next is the term of its next item. *)
AsksTerm(m, node, vals, k, scope) ==
  /\ Len(node.args) = 2 /\ Len(vals) \in Nat \ {0} /\ Len(vals) <= Len(vals[1].list)
  /\ Answer(m, node, vals, k, scope) = m[node.args[2]][<<vals[1].list[Len(vals)].record>>]
  /\ TermsOf(m, node, vals)[Len(vals)] = Take(Answer(m, node, vals, k, scope), TermKind(node.op))
  /\ Kind(node.op, k) = TermKind(node.op) /\ TermKind(node.op) # "any"

LEMMA NextTerm ==
  ASSUME NEW m, NEW node, NEW vals, NEW scope, Looping(m, node, vals, scope),
         NEW k, k = Len(vals) + 1, Asking(node, vals, k)
  PROVE  AsksTerm(m, node, vals, k, scope)
<1> DEFINE n == Len(vals)
           list == vals[1].list
<1>1. n \in Nat \ {0} /\ Len(list) \in Nat /\ DOMAIN list = 1 .. Len(list)
  BY ListHeld
<1>2. k # 1 /\ k - 1 = n
  BY <1>1
<1>3. IsNode(node) /\ node.op \in LoopOps /\ node.op # "table"
  BY DEF Looping, LoopOps
<1> HIDE DEF n, list
<1>4. Asking(node, vals, k)
  OBVIOUS
<1>5. Len(node.args) = 2 /\ n <= Len(list) /\ Is(list[n], "record")
  BY <1>2, <1>3, <1>4 DEF Asking, list
<1>6. Answer(m, node, vals, k, scope) = m[node.args[2]][<<list[n].record>>]
  <2>1. node.op # "select"
    BY <1>3 DEF LoopOps
  <2> QED BY <1>2, <1>3, <2>1 DEF Answer, Asked, AskedScope, list
<1>7. n \in DOMAIN list
  BY <1>1, <1>5
<1>8. TermsOf(m, node, vals)[n] = Take(m[node.args[2]][<<list[n].record>>], TermKind(node.op))
  BY <1>5, <1>7 DEF TermsOf, LoopTerms, list
<1>9. Kind(node.op, k) = TermKind(node.op) /\ TermKind(node.op) # "any"
  BY <1>2, <1>3, KindsOf, LoopArguments DEF TermKind
<1> QED BY <1>1, <1>5, <1>6, <1>8, <1>9 DEF n, list, AsksTerm

LEMMA ChildFails ==
  ASSUME NEW m, NEW node, NEW vals, NEW acc, NEW scope, NEW in, Framed(m, node, vals, acc, scope)
  PROVE  Fails(m, node, vals, scope, in)
<1> DEFINE k == Len(vals) + 1
           r == Answer(m, node, vals, k, scope)
<1>1. IsNode(node) /\ IsSequence(vals) /\ \A j \in DOMAIN vals : Answered(m, node, vals, j, scope)
  BY DEF Framed
<1> HIDE DEF k, r
<1> SUFFICES ASSUME Asking(node, vals, k), r.ok => r = Ok(r.val) /\ ~Fits(r.val, Kind(node.op, k))
             PROVE  Means(node, scope, in, m) = Refusal(r) /\ ~Refusal(r).ok
  BY DEF Fails, k, r
<1>2. k = Len(vals) + 1 /\ r = Answer(m, node, vals, k, scope)
  BY DEF k, r
<1>3. CASE node.op \in EagerOps
  <2>1. Held(m, node, vals, scope)
    BY <1>1 DEF Held
  <2> QED BY <1>1, <1>2, <1>3, <2>1, EagerFails
<1>4. CASE node.op \in {"and", "or"}
  BY <1>1, <1>2, <1>4, LogicFails
<1>5. CASE node.op = "table"
  BY <1>1, <1>2, <1>5, TableFails
<1>6. CASE node.op = "select"
  <2>1. Fails(m, node, vals, scope, in)
    BY <1>1, <1>6, SelectMeans
  <2> QED BY <2>1 DEF Fails, k, r
<1>7. CASE node.op \in LoopOps /\ vals = <<>>
  <2>1. k = 1
    BY <1>2, <1>7, EmptySequence
  <2>2. r = m[node.args[1]][scope]
    BY <1>2, <1>7, <2>1 DEF Answer, Asked, AskedScope, LoopOps
  <2>3. Kind(node.op, k) = "list"
    BY <1>7, <2>1, KindsOf
  <2>4. r.ok => r = Ok(r.val) /\ ~Is(r.val, "list")
    BY <2>3 DEF Fits
  <2> QED BY <1>1, <1>7, <2>2, <2>4, ListFails
<1>8. CASE node.op \in LoopOps /\ vals # <<>>
  <2> DEFINE t == TermsOf(m, node, vals)[Len(vals)]
  <2>1. Looping(m, node, vals, scope)
    BY <1>8, LoopingFrame
  <2>2. /\ Len(node.args) = 2 /\ Len(vals) <= Len(vals[1].list)
        /\ t = Take(r, TermKind(node.op)) /\ Kind(node.op, k) = TermKind(node.op) /\ TermKind(node.op) # "any"
    <3>1. AsksTerm(m, node, vals, k, scope)
      BY <1>2, <2>1, NextTerm
    <3> QED BY <1>2, <3>1 DEF AsksTerm
  <2>3. t = Refusal(r) /\ ~t.ok
    <3>1. r.ok => r = Ok(r.val) /\ ~Is(r.val, TermKind(node.op))
      BY <2>2 DEF Fits
    <3> QED BY <2>2, <3>1, NotTaken
  <2>4. TotalMeant(m, node, vals, acc)
    BY DEF Framed
  <2>5. Means(node, scope, in, m) = IF t.ok THEN Err("Overflow") ELSE t
    <3>1. t = TermsOf(m, node, vals)[Len(vals)]
      OBVIOUS
    <3> HIDE DEF t
    <3> QED BY <2>1, <2>2, <2>3, <2>4, <3>1, LoopStops
  <2> HIDE DEF t
  <2> QED BY <2>3, <2>5
<1>9. CASE node.op \in {"const", "input", "field"}
  <2>1. ~Asking(node, vals, k)
    BY <1>9 DEF Asking, LoopOps
  <2> QED BY <2>1
<1> QED BY <1>1, <1>3, <1>4, <1>5, <1>6, <1>7, <1>8, <1>9 DEF IsNode, Ops, EagerOps

(* What a call asked before is not changed by a value more. *)
LEMMA AskedSame ==
  ASSUME NEW m, NEW node, NEW vals, IsSequence(vals), NEW v, NEW scope, NEW k \in 1 .. Len(vals) + 1
  PROVE  /\ Asking(node, Append(vals, v), k) <=> Asking(node, vals, k)
         /\ Answer(m, node, Append(vals, v), k, scope) = Answer(m, node, vals, k, scope)
<1> DEFINE w == Append(vals, v)
<1>1. Len(vals) \in Nat /\ \A j \in 1 .. Len(vals) : w[j] = vals[j]
  BY SequenceType, Appended
<1> HIDE DEF w
<1>2. k # 1 => w[1] = vals[1]
  <2>1. k # 1 => 1 \in 1 .. Len(vals)
    BY <1>1
  <2> QED BY <1>1, <2>1
<1>3. \A j \in 1 .. k - 1 : w[j] = vals[j]
  <2>1. \A j \in 1 .. k - 1 : j \in 1 .. Len(vals)
    BY <1>1
  <2> QED BY <1>1, <2>1
<1>4. (\A j \in 1 .. k - 1 : w[j].bool # (node.op = "or")) <=> (\A j \in 1 .. k - 1 : vals[j].bool # (node.op = "or"))
  BY <1>3
<1>5. Asking(node, w, k) <=> Asking(node, vals, k)
  BY <1>2, <1>4 DEF Asking
<1>6. Asked(node, w, k) = Asked(node, vals, k) /\ AskedScope(node, w, k, scope) = AskedScope(node, vals, k, scope)
  BY <1>2 DEF Asked, AskedScope
<1> QED BY <1>5, <1>6 DEF Answer, w

LEMMA FrameExtends ==
  ASSUME NEW m, NEW node, NEW vals, NEW acc, NEW scope, Framed(m, node, vals, acc, scope),
         NEW v, IsInput(v), NEW a, TotalMeant(m, node, Append(vals, v), a),
         \/ /\ Asking(node, vals, Len(vals) + 1) /\ Answer(m, node, vals, Len(vals) + 1, scope) = Ok(v)
            /\ Fits(v, Kind(node.op, Len(vals) + 1))
         \/ node.op = "count" /\ Len(vals) # 0 /\ Len(node.args) = 1 /\ v = Bool(TRUE)
  PROVE  Framed(m, node, Append(vals, v), a, scope)
<1> DEFINE w == Append(vals, v)
           n == Len(vals)
<1>1. IsSequence(vals) /\ n \in Nat /\ DOMAIN vals = 1 .. n
  BY SequenceType DEF Framed
<1>2. IsSequence(w) /\ DOMAIN w = 1 .. n + 1 /\ w[n + 1] = v /\ \A k \in 1 .. n : w[k] = vals[k]
  BY <1>1, Appended, SequenceType
<1>3. \A k \in 1 .. n + 1 : /\ Asking(node, w, k) <=> Asking(node, vals, k)
                            /\ Answer(m, node, w, k, scope) = Answer(m, node, vals, k, scope)
  BY <1>1, AskedSame
<1> HIDE DEF w
<1>4. ASSUME NEW k \in 1 .. n + 1 PROVE IsInput(w[k]) /\ Answered(m, node, w, k, scope)
  <2>1. CASE k = n + 1
    <3>1. n + 1 \in 1 .. n + 1 /\ (n # 0 => n + 1 # 1)
      BY <1>1
    <3>2. Asking(node, w, n + 1) <=> Asking(node, vals, n + 1)
      BY <1>3, <3>1
    <3>3. Answer(m, node, w, n + 1, scope) = Answer(m, node, vals, n + 1, scope)
      BY <1>3, <3>1
    <3>4. Answered(m, node, w, n + 1, scope)
      BY <1>2, <3>1, <3>2, <3>3 DEF Answered
    <3> QED BY <1>2, <2>1, <3>4
  <2>2. CASE k # n + 1
    <3>1. k \in 1 .. n
      BY <1>1, <2>2
    <3>2. IsInput(vals[k]) /\ Answered(m, node, vals, k, scope) /\ w[k] = vals[k]
      BY <1>1, <1>2, <3>1 DEF Framed
    <3>3. Asking(node, w, k) <=> Asking(node, vals, k)
      BY <1>3
    <3>4. Answer(m, node, w, k, scope) = Answer(m, node, vals, k, scope)
      BY <1>3
    <3> QED BY <3>2, <3>3, <3>4 DEF Answered
  <2> QED BY <2>1, <2>2
<1> QED BY <1>2, <1>4 DEF Framed, w

(* The running total of a value more. *)
LEMMA FirstTotal ==
  ASSUME NEW m, NEW node, NEW vals, NEW acc, TotalMeant(m, node, vals, acc), vals = <<>>,
         NEW v, IsInput(v), node.op \in LoopOps => Is(v, "list")
  PROVE  TotalMeant(m, node, Append(vals, v), acc)
<1> DEFINE w == Append(vals, v)
<1>1. w # <<>> /\ Len(w) = 1 /\ w[1] = v
  BY EmptySequence, Appended, SequenceType
<1>2. acc = 0 /\ Len(w) - 1 = 0
  BY <1>1 DEF TotalMeant
<1> HIDE DEF w
<1>3. ASSUME node.op = "sum"
      PROVE  Totals(LoopTerms(w[1].list, m[node.args[2]], "scalar"))[0] = 0
  <2> DEFINE terms == LoopTerms(w[1].list, m[node.args[2]], "scalar")
  <2>1. DOMAIN w[1].list = 1 .. Len(w[1].list) /\ Len(w[1].list) \in 0 .. MAX /\ MAX \in Nat
    BY <1>1, <1>3, Variants, FixedAssumption DEF LoopOps
  <2>2. DOMAIN terms = 1 .. Len(w[1].list) /\ Len(w[1].list) \in Nat
    BY <2>1 DEF LoopTerms
  <2> HIDE DEF terms
  <2>3. Len(terms) \in Nat
    BY <2>2, LengthIs
  <2> QED BY <2>3, TotalsRows DEF terms
<1>4. {j \in 1 .. Len(w) - 1 : w[j + 1].bool} = {} /\ \A j \in 1 .. Len(w) - 1 : FALSE
  <2>1. 1 .. Len(w) - 1 = {}
    <3>1. 1 .. 0 = {}
      OBVIOUS
    <3> QED BY <1>2, <3>1, Zenon
  <2> QED BY <2>1
<1>5. Cardinality({j \in 1 .. Len(w) - 1 : w[j + 1].bool}) = 0
  BY <1>4, FS_EmptySet
<1> QED BY <1>1, <1>2, <1>3, <1>4, <1>5 DEF TotalMeant, w

LEMMA OtherTotal ==
  ASSUME NEW m, NEW node, NEW vals, IsSequence(vals), NEW acc, node.op \notin LoopOps, NEW v
  PROVE  TotalMeant(m, node, Append(vals, v), acc)
<1>1. Append(vals, v) # <<>>
  BY Appended, SequenceType, EmptySequence
<1> QED BY <1>1 DEF TotalMeant, LoopOps

LEMMA SumTotal ==
  ASSUME NEW m, NEW node, node.op = "sum", NEW vals, NEW acc, NEW scope, Looping(m, node, vals, scope),
         TotalMeant(m, node, vals, acc), Len(vals) <= Len(vals[1].list),
         NEW x, TermsOf(m, node, vals)[Len(vals)] = Ok(x), acc + x \in Range128, NEW v
  PROVE  TotalMeant(m, node, Append(vals, v), acc + x)
<1> DEFINE w == Append(vals, v)
           n == Len(vals)
           terms == TermsOf(m, node, vals)
<1>1. n \in Nat \ {0} /\ DOMAIN vals = 1 .. n /\ Len(vals[1].list) \in Nat /\ DOMAIN vals[1].list = 1 .. Len(vals[1].list)
  BY ListHeld
<1>2. IsSequence(vals) /\ vals # <<>>
  BY DEF Looping
<1>3. Len(w) = n + 1 /\ w # <<>> /\ w[1] = vals[1]
  <2>1. 1 \in 1 .. n
    BY <1>1
  <2>2. IsSequence(w) /\ Len(w) = n + 1 /\ w[1] = vals[1]
    BY <1>2, <2>1, Appended
  <2> QED BY <1>1, <2>2, EmptySequence
<1>4. terms = LoopTerms(vals[1].list, m[node.args[2]], "scalar")
  BY DEF TermsOf, TermKind
<1>5. DOMAIN terms = 1 .. Len(vals[1].list)
  BY <1>1, <1>4 DEF LoopTerms
<1> HIDE DEF terms, w
<1>6. Len(terms) = Len(vals[1].list)
  BY <1>1, <1>5, LengthIs
<1>7. acc = Totals(terms)[n - 1] /\ \A j \in 1 .. n - 1 : Totals(terms)[j] \in Range128
  BY <1>2, <1>4 DEF TotalMeant
<1>8. Totals(terms)[n] = acc + x
  <2>1. n \in 1 .. Len(terms) /\ Len(terms) \in Nat
    BY <1>1, <1>6
  <2>2. Totals(terms)[n] = IF ~terms[n].ok THEN 0 ELSE Totals(terms)[n - 1] + terms[n].val
    BY <2>1, TotalsRows
  <2>3. terms[n].ok /\ terms[n].val = x
    BY DEF terms, Ok
  <2> QED BY <1>7, <2>2, <2>3
<1>9. ASSUME NEW j \in 1 .. n PROVE Totals(terms)[j] \in Range128
  <2>1. CASE j = n
    BY <1>8, <2>1
  <2>2. CASE j # n
    <3>1. j \in 1 .. n - 1
      <4>1. n \in Nat \ {0}
        BY <1>1
      <4> HIDE DEF n
      <4> QED BY <2>2, <4>1
    <3> QED BY <1>7, <3>1
  <2> QED BY <2>1, <2>2
<1>10. Len(w) - 1 = n
  BY <1>1, <1>3
<1> HIDE DEF n
<1> QED BY <1>3, <1>4, <1>8, <1>9, <1>10 DEF TotalMeant, w

LEMMA CountTotal ==
  ASSUME NEW m, NEW node, node.op = "count", NEW vals, NEW acc, IsSequence(vals), vals # <<>>,
         TotalMeant(m, node, vals, acc), NEW v
  PROVE  TotalMeant(m, node, Append(vals, v), acc + IF v.bool THEN 1 ELSE 0)
<1> DEFINE w == Append(vals, v)
           n == Len(vals)
           S == {j \in 1 .. n - 1 : vals[j + 1].bool}
           T == {j \in 1 .. n : w[j + 1].bool}
<1>1. n \in Nat \ {0} /\ Len(w) = n + 1 /\ w[n + 1] = v /\ w # <<>> /\ \A k \in 1 .. n : w[k] = vals[k]
  <2>1. n \in Nat \ {0}
    BY SequenceType
  <2> QED BY <2>1, Appended, EmptySequence
<1> HIDE DEF w, n
<1>2. T = IF v.bool THEN S \cup {n} ELSE S
  <2>1. \A j \in 1 .. n - 1 : j + 1 \in 1 .. n /\ j \in 1 .. n /\ j # n
    BY <1>1
  <2>2. \A j \in 1 .. n - 1 : w[j + 1] = vals[j + 1]
    BY <1>1, <2>1
  <2>3. \A j \in 1 .. n : j = n \/ j \in 1 .. n - 1
    BY <1>1
  <2>4. n \in 1 .. n
    BY <1>1
  <2> QED BY <1>1, <2>1, <2>2, <2>3, <2>4
<1>3. IsFiniteSet(S) /\ n \notin S
  <2>1. IsFiniteSet(1 .. n - 1) /\ n \notin 1 .. n - 1
    BY <1>1, FS_Interval
  <2> QED BY <2>1, FS_Subset
<1>4. acc = Cardinality(S)
  BY DEF TotalMeant, n
<1>5. Cardinality(S \cup {n}) = Cardinality(S) + 1 /\ Cardinality(S) \in Nat
  BY <1>3, FS_AddElement, FS_CardinalityType
<1> HIDE DEF S, T
<1>6. acc + (IF v.bool THEN 1 ELSE 0) = Cardinality(T)
  BY <1>2, <1>4, <1>5
<1>7. Len(w) - 1 = n
  BY <1>1
<1>8. Cardinality({j \in 1 .. Len(w) - 1 : w[j + 1].bool}) = Cardinality(T)
  BY <1>7 DEF T
<1> QED BY <1>1, <1>6, <1>8 DEF TotalMeant, w

-----------------------------------------------------------------------------
(* The scope of a call.                                                    *)

LEMMA LargestOf ==
  ASSUME NEW n \in Nat, NEW S \in SUBSET (1 .. n), S # {}
  PROVE  \E e \in S : \A x \in S : x <= e
<1> DEFINE gaps == {n - x : x \in S}
<1>0. \A x \in S : x \in 1 .. n
  OBVIOUS
<1>1. gaps \in SUBSET Nat /\ gaps # {}
  <2>1. \A x \in S : n - x \in Nat
    BY <1>0
  <2> QED BY <2>1
<1>2. PICK g \in gaps : \A h \in gaps : g <= h
  <2> HIDE DEF gaps
  <2> QED BY <1>1, LeastNatural
<1>3. PICK e \in S : g = n - e
  OBVIOUS
<1>4. ASSUME NEW x \in S PROVE x <= e
  <2>1. n - x \in gaps
    OBVIOUS
  <2>2. n - e <= n - x
    BY <1>2, <1>3, <2>1
  <2> HIDE DEF gaps
  <2>3. x \in 1 .. n /\ e \in 1 .. n
    BY <1>0
  <2> QED BY <2>2, <2>3
<1> QED BY <1>4

(* The item a loop is at. *)
ItemOf(f) == f.vals[1].list[Len(f.vals)].record

LEMMA ScopeFirst == ASSUME NEW r, NEW s PROVE ScopeAt(r, s, 1) = <<>>
<1>1. 1 .. 1 - 1 = {}
  OBVIOUS
<1>2. {e \in 1 .. 1 - 1 : IsOpen(r, s[e])} = {}
  BY <1>1
<1> QED BY <1>2, Zenon DEF ScopeAt

LEMMA ScopeNext ==
  ASSUME NEW r, NEW s, NEW d \in Nat \ {0}
  PROVE  ScopeAt(r, s, d + 1) = IF IsOpen(r, s[d]) THEN <<ItemOf(s[d])>> ELSE ScopeAt(r, s, d)
<1> DEFINE below == {e \in 1 .. d - 1 : IsOpen(r, s[e])}
           upto == {e \in 1 .. (d + 1) - 1 : IsOpen(r, s[e])}
           Greatest(S) == CHOOSE e \in S : \A x \in S : x <= e
<1>1. /\ ScopeAt(r, s, d) = IF below = {} THEN <<>> ELSE <<ItemOf(s[Greatest(below)])>>
      /\ ScopeAt(r, s, d + 1) = IF upto = {} THEN <<>> ELSE <<ItemOf(s[Greatest(upto)])>>
  BY Zenon DEF ScopeAt, ItemOf
<1>2. CASE IsOpen(r, s[d])
  <2>1. d \in upto /\ \A x \in upto : x <= d /\ x \in Nat
    BY <1>2
  <2> HIDE DEF upto
  <2>2. \A e \in upto : (\A x \in upto : x <= e) => e = d
    BY <2>1
  <2>3. Greatest(upto) = d /\ upto # {}
    BY <2>1, <2>2
  <2> HIDE DEF Greatest
  <2> QED BY <1>1, <1>2, <2>3
<1>3. CASE ~IsOpen(r, s[d])
  <2>1. upto = below
    BY <1>3
  <2> HIDE DEF upto, below, Greatest
  <2> QED BY <1>1, <1>3, <2>1
<1> QED BY <1>2, <1>3

LEMMA ScopeSame ==
  ASSUME NEW r, NEW s, NEW t, NEW d \in Nat, \A e \in 1 .. d - 1 : t[e] = s[e]
  PROVE  ScopeAt(r, t, d) = ScopeAt(r, s, d)
<1> DEFINE below == {e \in 1 .. d - 1 : IsOpen(r, s[e])}
           below2 == {e \in 1 .. d - 1 : IsOpen(r, t[e])}
           Greatest(S) == CHOOSE e \in S : \A x \in S : x <= e
<1>1. /\ ScopeAt(r, s, d) = IF below = {} THEN <<>> ELSE <<ItemOf(s[Greatest(below)])>>
      /\ ScopeAt(r, t, d) = IF below2 = {} THEN <<>> ELSE <<ItemOf(t[Greatest(below2)])>>
  BY Zenon DEF ScopeAt, ItemOf
<1>2. below2 = below
  OBVIOUS
<1>3. below # {} => Greatest(below) \in 1 .. d - 1
  <2> SUFFICES ASSUME below # {} PROVE Greatest(below) \in 1 .. d - 1
    OBVIOUS
  <2>1. d # 0
    OBVIOUS
  <2>2. d - 1 \in Nat /\ below \in SUBSET (1 .. d - 1)
    BY <2>1
  <2> HIDE DEF below
  <2>3. \E e \in below : \A x \in below : x <= e
    BY <2>2, LargestOf
  <2>4. Greatest(below) \in below
    BY <2>3
  <2> HIDE DEF Greatest
  <2> QED BY <2>2, <2>4
<1> HIDE DEF below, below2, Greatest
<1> QED BY <1>1, <1>2, <1>3

(* The record in scope is the last pushed. *)
LEMMA FieldInScope ==
  ASSUME CallsOk, ScopeOk, stack # <<>>, ret = Nothing, NEW name
  PROVE  FieldOf(ScopeAt(rule, stack, Len(stack)), name) = Field(name)
<1> DEFINE n == Len(stack)
           below == {e \in 1 .. n - 1 : IsOpen(rule, stack[e])}
           Greatest(S) == CHOOSE e \in S : \A x \in S : x <= e
           scope == ScopeAt(rule, stack, n)
<1>1. n \in Nat \ {0} /\ OpenLoops = LoopsBelow
  BY StackTop, OpenLoopsBelow
<1>2. OpenLoops = below
  BY <1>1 DEF LoopsBelow, IsOpen
<1>3. scope = IF below = {} THEN <<>> ELSE <<ItemOf(stack[Greatest(below)])>>
  BY Zenon DEF ScopeAt, ItemOf
<1>4. below \in SUBSET (1 .. n - 1) /\ n - 1 \in Nat
  BY <1>1
<1>5. IsSequence(elements) /\ Len(elements) = Cardinality(below)
  BY <1>2 DEF ScopeOk, ScopeIsTheOpenLoops
<1>6. IsFiniteSet(below)
  BY <1>4, FS_Interval, FS_Subset
<1> HIDE DEF below, scope
<1>7. CASE below = {}
  <2>1. elements = <<>> /\ scope = <<>>
    BY <1>3, <1>5, <1>7, FS_EmptySet, SequenceType
  <2> QED BY <2>1 DEF FieldOf, Field, scope
<1>8. CASE below # {}
  <2>1. Greatest(below) \in below /\ \A x \in below : x <= Greatest(below)
    <3>1. \E e \in below : \A x \in below : x <= e
      BY <1>4, <1>8, LargestOf
    <3> QED BY <3>1
  <2> DEFINE e == Greatest(below)
  <2>2. scope = <<ItemOf(stack[e])>>
    BY <1>3, <1>8, Zenon
  <2> HIDE DEF e
  <2>3. {x \in below : x <= e} = below
    BY <2>1 DEF e
  <2>4. elements[Cardinality(below)] = Bound(e)
    <3>1. elements[Cardinality({x \in OpenLoops : x <= e})] = Bound(e)
      BY <1>2, <2>1 DEF ScopeOk, ScopeIsTheOpenLoops, e
    <3> QED BY <1>2, <2>3, <3>1
  <2>5. Last(elements) = ItemOf(stack[e])
    BY <1>5, <2>4 DEF Last, Bound, ItemOf
  <2>6. elements # <<>>
    <3>1. Cardinality(below) # 0
      BY <1>6, <1>8, FS_EmptySet
    <3> QED BY <1>5, <3>1, EmptySequence
  <2> DEFINE item == ItemOf(stack[e])
  <2>7. scope = <<item>> /\ Last(elements) = item
    BY <2>2, <2>5
  <2> HIDE DEF item
  <2> QED BY <2>6, <2>7 DEF FieldOf, Field, scope
<1> QED BY <1>7, <1>8

-----------------------------------------------------------------------------
(* Calls, results and values more keep the meaning.                        *)

NodeMeanings == Meanings(rule, inputs)

InnerScope == ScopeAt(rule, stack, Len(stack))

LEMMA TopMeant ==
  ASSUME Accepted, CallsOk, CallsMeant, stack # <<>>
  PROVE  /\ Framed(NodeMeanings, Node, Vals, Top.acc, InnerScope) /\ ShapeOk(Node)
         /\ \A k \in DOMAIN Vals : Listed(inputs, Vals[k])
         /\ InnerScope \in Scopes(inputs)
         /\ NodeMeanings[Top.node][InnerScope] = Means(Node, InnerScope, inputs, NodeMeanings)
<1>1. Len(stack) \in DOMAIN stack /\ Top = stack[Len(stack)] /\ FrameOk(rule, Top)
  BY StackTop
<1>2. FrameMeant(rule, inputs, Top, InnerScope)
  BY <1>1 DEF CallsMeant, InnerScope
<1>3. /\ IsNode(Node) /\ ShapeOk(Node) /\ IsSequence(Vals) /\ DOMAIN Vals = 1 .. Len(Vals)
      /\ \A k \in 1 .. Len(Vals) : IsInput(Vals[k])
  BY TopNode
<1>4. /\ InnerScope \in Scopes(inputs) /\ TotalMeant(NodeMeanings, Node, Vals, Top.acc)
      /\ \A k \in DOMAIN Vals : Listed(inputs, Vals[k]) /\ Answered(NodeMeanings, Node, Vals, k, InnerScope)
  BY <1>2 DEF FrameMeant, NodeMeanings, Node, Vals
<1>5. NodeMeanings[Top.node][InnerScope] = Means(Node, InnerScope, inputs, NodeMeanings)
  <2>1. rule \in Rules /\ Top.node \in DOMAIN rule.nodes /\ Node = rule.nodes[Top.node]
    BY <1>1 DEF Accepted, FrameOk, Node
  <2>2. Node.op = "table" => \A k \in DOMAIN Node.matches : DOMAIN Node.matches[k].by # {}
    <3> SUFFICES ASSUME Node.op = "table", NEW k \in DOMAIN Node.matches PROVE DOMAIN Node.matches[k].by # {}
      OBVIOUS
    <3>1. Cardinality(DOMAIN Node.matches[k].by) = 1
      BY <1>3, Shapes
    <3>2. Cardinality({}) = 0
      BY FS_EmptySet
    <3>3. ASSUME DOMAIN Node.matches[k].by = {} PROVE FALSE
      <4>1. Cardinality({}) = 1
        BY <3>1, <3>3, Zenon
      <4> QED BY <3>2, <4>1
    <3> QED BY <3>3
  <2> QED BY <1>4, <2>1, <2>2, NodeMeaning DEF NodeMeanings
<1> QED BY <1>3, <1>4, <1>5 DEF Framed

(* The scope of the call below a call is the one it was asked in. *)
LEMMA AskedScopeIs ==
  ASSUME NEW r, NEW s, NEW d \in Nat \ {0}, IsSequence(s[d].vals), NEW k, k = Next1(s[d])
  PROVE  ScopeAt(r, s, d + 1) = AskedScope(r.nodes[s[d].node], s[d].vals, k, ScopeAt(r, s, d))
<1> DEFINE f == s[d]
<1>1. k = Len(f.vals) + 1 /\ Len(f.vals) \in Nat /\ (f.vals = <<>> <=> Len(f.vals) = 0)
  BY SequenceType DEF Next1
<1>2. (k # 1 <=> f.vals # <<>>) /\ k - 1 = Len(f.vals)
  BY <1>1
<1>3. ScopeAt(r, s, d + 1) = IF IsOpen(r, f) THEN <<ItemOf(f)>> ELSE ScopeAt(r, s, d)
  BY ScopeNext
<1> HIDE DEF f
<1> QED BY <1>2, <1>3 DEF IsOpen, ItemOf, AskedScope, f

LEMMA AskedScopeIn ==
  ASSUME NEW m, NEW node, NEW vals, NEW acc, NEW scope, Framed(m, node, vals, acc, scope),
         NEW in, scope \in Scopes(in), \A j \in DOMAIN vals : Listed(in, vals[j]),
         NEW k, k = Len(vals) + 1, Asking(node, vals, k)
  PROVE  AskedScope(node, vals, k, scope) \in Scopes(in)
<1>1. IsSequence(vals) /\ Len(vals) \in Nat /\ DOMAIN vals = 1 .. Len(vals) /\ (vals = <<>> <=> Len(vals) = 0)
  BY SequenceType DEF Framed
<1>2. CASE node.op \in LoopOps /\ k # 1
  <2>1. vals # <<>> /\ 1 \in DOMAIN vals /\ k - 1 = Len(vals)
    BY <1>1, <1>2
  <2>2. Looping(m, node, vals, scope)
    BY <1>2, <2>1, LoopingFrame
  <2>3. Len(vals) \in Nat \ {0} /\ DOMAIN vals[1].list = 1 .. Len(vals[1].list) /\ Len(vals[1].list) \in Nat
    BY <2>2, ListHeld
  <2>4. Is(vals[1], "list")
    <3>1. Answered(m, node, vals, 1, scope)
      BY <2>1 DEF Framed
    <3>2. Kind(node.op, 1) = "list"
      BY <1>2, KindsOf
    <3> QED BY <3>1, <3>2 DEF Answered, Fits
  <2> DEFINE item == vals[1].list[Len(vals)]
  <2>5. Len(vals) <= Len(vals[1].list) /\ Is(item, "record")
    BY <1>2, <2>1 DEF Asking, LoopOps
  <2>6. item \in Range(vals[1].list)
    BY <2>3, <2>5 DEF Range
  <2>7. PICK name \in DOMAIN in : in[name] = vals[1]
    BY <2>1, <2>4 DEF Listed
  <2> HIDE DEF item
  <2>8. <<item.record>> \in Scopes(in)
    BY <2>4, <2>5, <2>6, <2>7 DEF Scopes
  <2>9. AskedScope(node, vals, k, scope) = <<item.record>>
    BY <1>2, <2>1 DEF AskedScope, item
  <2> QED BY <2>8, <2>9
<1>3. CASE ~(node.op \in LoopOps /\ k # 1)
  BY <1>3 DEF AskedScope
<1> QED BY <1>2, <1>3

(* The calls below are not affected. *)
LEMMA LowerScopes ==
  ASSUME NEW n \in Nat, \A d \in 1 .. n : stack'[d] = stack[d], rule' = rule
  PROVE  \A d \in 1 .. n + 1 : ScopeAt(rule', stack', d) = ScopeAt(rule, stack, d)
<1> SUFFICES ASSUME NEW d \in 1 .. n + 1 PROVE ScopeAt(rule', stack', d) = ScopeAt(rule, stack, d)
  OBVIOUS
<1>1. d \in Nat /\ \A e \in 1 .. d - 1 : stack'[e] = stack[e]
  OBVIOUS
<1>2. ScopeAt(rule, stack', d) = ScopeAt(rule, stack, d)
  BY <1>1, ScopeSame
<1> QED BY <1>2

LEMMA LowerFrames ==
  ASSUME CallsMeant, NEW n \in Nat, \A d \in 1 .. n : d \in DOMAIN stack /\ stack'[d] = stack[d],
         UNCHANGED <<rule, inputs>>
  PROVE  \A d \in 1 .. n : FrameMeant(rule', inputs', stack'[d], ScopeAt(rule', stack', d))
<1> SUFFICES ASSUME NEW d \in 1 .. n PROVE FrameMeant(rule', inputs', stack'[d], ScopeAt(rule', stack', d))
  OBVIOUS
<1>1. d \in 1 .. n + 1 /\ rule' = rule /\ inputs' = inputs
  OBVIOUS
<1>2. ScopeAt(rule', stack', d) = ScopeAt(rule, stack, d)
  BY <1>1, LowerScopes
<1>3. FrameMeant(rule, inputs, stack[d], ScopeAt(rule, stack, d)) /\ stack'[d] = stack[d]
  BY DEF CallsMeant
<1> QED BY <1>1, <1>2, <1>3, Zenon

(* A call of the child that is asked next. *)
LEMMA CallMeans ==
  ASSUME Accepted, CallsOk, CallsMeant, NEW i, Call(i), UNCHANGED <<rule, inputs, outputs>>,
         stack = <<>> => i = rule.outputs[Len(outputs) + 1],
         stack # <<>> => Asking(Node, Vals, Next1(Top)) /\ i = Asked(Node, Vals, Next1(Top))
  PROVE  CallsMeant' /\ ResultMeant'
<1> DEFINE n == Len(stack)
           new == [node |-> i, vals |-> <<>>, acc |-> 0]
<1>1. n \in Nat /\ DOMAIN stack = 1 .. n /\ IsSequence(stack) /\ (stack = <<>> <=> n = 0)
  BY SequenceType DEF CallsOk
<1>2. /\ IsSequence(stack') /\ Len(stack') = n + 1 /\ stack'[n + 1] = new
      /\ \A d \in 1 .. n : stack'[d] = stack[d]
  BY <1>1, Appended DEF Call
<1>3. DOMAIN stack' = 1 .. n + 1
  BY <1>2, SequenceType
<1>4. new.node = i /\ new.vals = <<>> /\ new.acc = 0 /\ ret' = Nothing /\ rule' = rule /\ inputs' = inputs /\ outputs' = outputs
  BY DEF Call
<1>5. stack # <<>> => Top = stack[n] /\ n # 0 /\ n \in 1 .. n
  BY <1>1, StackTop
<1> HIDE DEF new, n
<1>6. \A d \in 1 .. n : d \in DOMAIN stack /\ stack'[d] = stack[d]
  BY <1>1, <1>2
<1>7. \A d \in 1 .. n : FrameMeant(rule', inputs', stack'[d], ScopeAt(rule', stack', d))
  BY <1>1, <1>4, <1>6, LowerFrames
<1>8. \A d \in 1 .. n + 1 : ScopeAt(rule', stack', d) = ScopeAt(rule, stack, d)
  BY <1>1, <1>2, <1>4, LowerScopes
<1>9. ScopeAt(rule, stack, n + 1) \in Scopes(inputs)
  <2>1. CASE stack = <<>>
    <3>1. n + 1 = 1
      BY <1>1, <2>1
    <3>2. ScopeAt(rule, stack, n + 1) = <<>>
      BY <3>1, ScopeFirst
    <3> QED BY <3>2 DEF Scopes
  <2>2. CASE stack # <<>>
    <3> DEFINE k == Next1(Top)
    <3>1. /\ Framed(NodeMeanings, Node, Vals, Top.acc, InnerScope)
          /\ \A j \in DOMAIN Vals : Listed(inputs, Vals[j])
          /\ InnerScope \in Scopes(inputs)
      BY <2>2, TopMeant
    <3>2. k = Len(Vals) + 1 /\ Asking(Node, Vals, k)
      BY <2>2 DEF Next1, Vals
    <3> HIDE DEF k
    <3>3. AskedScope(Node, Vals, k, InnerScope) \in Scopes(inputs)
      BY <3>1, <3>2, AskedScopeIn
    <3>4. n \in Nat \ {0} /\ Top = stack[n]
      BY <1>1, <1>5, <2>2
    <3>5. IsSequence(stack[n].vals) /\ k = Next1(stack[n])
      BY <3>1, <3>4 DEF Framed, Vals, k
    <3>6. ScopeAt(rule, stack, n + 1) = AskedScope(rule.nodes[stack[n].node], stack[n].vals, k, ScopeAt(rule, stack, n))
      BY <3>4, <3>5, AskedScopeIs
    <3> QED BY <3>3, <3>4, <3>6, Zenon DEF Node, Vals, InnerScope, n
  <2> QED BY <2>1, <2>2
<1>10. FrameMeant(rule', inputs', stack'[n + 1], ScopeAt(rule', stack', n + 1))
  <2>1. ScopeAt(rule', stack', n + 1) \in Scopes(inputs')
    <3>1. n + 1 \in 1 .. n + 1
      BY <1>1
    <3> QED BY <1>4, <1>8, <1>9, <3>1
  <2>2. DOMAIN <<>> = {}
    BY EmptySequence
  <2>3. \A k \in DOMAIN new.vals : FALSE
    BY <1>4, <2>2
  <2>4. \A m, node : TotalMeant(m, node, new.vals, new.acc)
    BY <1>4 DEF TotalMeant
  <2> QED BY <1>2, <2>1, <2>3, <2>4, Zenon DEF FrameMeant
<1>11. ASSUME NEW d \in 1 .. n + 1 PROVE FrameMeant(rule', inputs', stack'[d], ScopeAt(rule', stack', d))
  <2>1. CASE d = n + 1
    BY <1>10, <2>1
  <2>2. CASE d # n + 1
    <3>1. d \in 1 .. n
      BY <1>1, <2>2
    <3> QED BY <1>7, <3>1
  <2> QED BY <2>1, <2>2
<1>12. stack'[1].node = rule'.outputs[Len(outputs') + 1]
  <2>1. CASE stack = <<>>
    BY <1>1, <1>2, <1>4, <2>1
  <2>2. CASE stack # <<>>
    <3>1. 1 \in 1 .. n
      BY <1>1, <1>5, <2>2
    <3>2. stack[1].node = rule.outputs[Len(outputs) + 1]
      BY <2>2 DEF CallsMeant
    <3> QED BY <1>2, <1>4, <3>1, <3>2
  <2> QED BY <2>1, <2>2
<1>13. ASSUME NEW d \in 1 .. n PROVE Linked(rule', stack'[d], stack'[d + 1])
  <2>1. CASE d = n
    <3>1. stack # <<>>
      BY <1>1
    <3>2. stack'[d] = Top /\ stack'[d + 1] = new
      BY <1>2, <1>5, <2>1, <3>1
    <3> QED BY <1>4, <3>1, <3>2 DEF Linked, Node, Vals
  <2>2. CASE d # n
    <3>1. d \in 1 .. n - 1 /\ d + 1 \in 1 .. n
      BY <1>1, <2>2
    <3>2. Linked(rule, stack[d], stack[d + 1])
      BY <3>1 DEF CallsMeant, n
    <3> QED BY <1>2, <1>4, <3>1, <3>2
  <2> QED BY <2>1, <2>2
<1>14. Len(stack') - 1 = n
  BY <1>1, <1>2
<1>15. CallsMeant'
  BY <1>3, <1>11, <1>12, <1>13, <1>14 DEF CallsMeant
<1> QED BY <1>4, <1>15 DEF ResultMeant

(* The result of a call that ends. *)
LEMMA ReturnMeans ==
  ASSUME Accepted, CallsOk, CallsMeant, stack # <<>>, NEW r, Return(r), UNCHANGED <<rule, inputs, outputs>>,
         r = Means(Node, InnerScope, inputs, NodeMeanings), r.ok => r = Ok(r.val) /\ Listed(inputs, r.val)
  PROVE  CallsMeant' /\ ResultMeant'
<1> DEFINE n == Len(stack)
<1>1. n \in Nat \ {0} /\ DOMAIN stack = 1 .. n /\ IsSequence(stack) /\ Top = stack[n]
  BY StackTop DEF CallsOk
<1>2. IsSequence(stack') /\ Len(stack') = n - 1 /\ \A d \in 1 .. n - 1 : stack'[d] = stack[d]
  BY <1>1, Fronted DEF Return
<1>3. DOMAIN stack' = 1 .. n - 1 /\ (stack' = <<>> <=> n - 1 = 0)
  BY <1>2, SequenceType
<1>4. ret' = r /\ rule' = rule /\ inputs' = inputs /\ outputs' = outputs
  BY DEF Return
<1>5. r = NodeMeanings[Top.node][InnerScope]
  BY TopMeant
<1> HIDE DEF n
<1>6. n - 1 \in Nat /\ \A d \in 1 .. n - 1 : d \in DOMAIN stack /\ stack'[d] = stack[d]
  BY <1>1, <1>2
<1>7. \A d \in 1 .. n - 1 : FrameMeant(rule', inputs', stack'[d], ScopeAt(rule', stack', d))
  BY <1>4, <1>6, LowerFrames
<1>8. stack' # <<>> => stack'[1].node = rule'.outputs[Len(outputs') + 1]
  <2> SUFFICES ASSUME stack' # <<>> PROVE stack'[1].node = rule'.outputs[Len(outputs') + 1]
    OBVIOUS
  <2>1. 1 \in 1 .. n - 1
    BY <1>1, <1>3
  <2> QED BY <1>2, <1>4, <2>1 DEF CallsMeant
<1>9. ASSUME NEW d \in 1 .. (n - 1) - 1 PROVE Linked(rule', stack'[d], stack'[d + 1])
  <2>1. d \in 1 .. n - 1 /\ d + 1 \in 1 .. n - 1
    BY <1>1
  <2>2. Linked(rule, stack[d], stack[d + 1])
    BY <2>1 DEF CallsMeant, n
  <2> QED BY <1>2, <1>4, <2>1, <2>2
<1>10. CallsMeant'
  BY <1>2, <1>3, <1>7, <1>8, <1>9 DEF CallsMeant
<1>11. CASE stack' = <<>>
  <2>1. n = 1
    BY <1>1, <1>3, <1>11
  <2>2. InnerScope = <<>>
    BY <2>1, ScopeFirst DEF InnerScope, n
  <2>3. Top.node = rule.outputs[Len(outputs) + 1]
    BY <1>1, <2>1 DEF CallsMeant
  <2>4. ret' = Meanings(rule', inputs')[rule'.outputs[Len(outputs') + 1]][<<>>]
    BY <1>4, <1>5, <2>2, <2>3, Zenon DEF NodeMeanings
  <2>5. ret'.ok => ret' = Ok(ret'.val) /\ Listed(inputs', ret'.val)
    BY <1>4
  <2> QED BY <1>10, <1>11, <2>4, <2>5 DEF ResultMeant
<1>12. CASE stack' # <<>>
  <2> DEFINE d == n - 1
             f == stack[d]
  <2>1. d \in Nat \ {0} /\ d \in 1 .. n - 1 /\ d + 1 = n /\ Len(stack') = d
    BY <1>1, <1>2, <1>3, <1>12
  <2>2. Top' = stack'[d] /\ stack'[d] = f
    BY <1>2, <2>1 DEF Top, Last
  <2> HIDE DEF d
  <2>3. Linked(rule, f, Top)
    BY <1>1, <2>1 DEF CallsMeant, n
  <2>4. IsSequence(f.vals)
    <3>1. d \in DOMAIN stack
      BY <1>6, <2>1
    <3> QED BY <3>1 DEF CallsOk, FrameOk
  <2> DEFINE k == Next1(f)
             node == rule.nodes[f.node]
  <2>5. ScopeAt(rule, stack, d + 1) = AskedScope(node, f.vals, k, ScopeAt(rule, stack, d))
    BY <2>1, <2>4, AskedScopeIs
  <2>6. Asking(node, f.vals, k) /\ Top.node = Asked(node, f.vals, k)
    BY <2>3 DEF Linked
  <2>7. r = Answer(NodeMeanings, node, f.vals, k, ScopeAt(rule, stack, d))
    BY <1>5, <2>1, <2>5, <2>6, Zenon DEF Answer, InnerScope, n
  <2>8. ScopeAt(rule', stack', d) = ScopeAt(rule, stack, d)
    BY <1>4, <1>6, <2>1, LowerScopes
  <2>9. Node' = node /\ Vals' = f.vals
    BY <1>4, <2>2 DEF Node, Vals
  <2>10. Asking(Node', Vals', Next1(Top'))
         /\ ret' = Answer(Meanings(rule', inputs'), Node', Vals', Next1(Top'), ScopeAt(rule', stack', Len(stack')))
    <3>1. Next1(Top') = k
      BY <2>2
    <3> HIDE DEF k, node, f
    <3> QED BY <1>4, <2>1, <2>6, <2>7, <2>8, <2>9, <3>1, Zenon DEF NodeMeanings
  <2>11. ret'.ok => ret' = Ok(ret'.val) /\ Listed(inputs', ret'.val)
    BY <1>4
  <2> QED BY <1>10, <1>12, <2>10, <2>11 DEF ResultMeant
<1> QED BY <1>11, <1>12

(* A value more for the top call. *)
LEMMA ContinueMeans ==
  ASSUME Accepted, CallsOk, CallsMeant, stack # <<>>, NEW v, NEW a,
         stack' = [stack EXCEPT ![Len(stack)] = [Top EXCEPT !.vals = Append(Top.vals, v), !.acc = a]],
         ret' = Nothing, UNCHANGED <<rule, inputs, outputs>>,
         Framed(NodeMeanings, Node, Append(Vals, v), a, InnerScope), Listed(inputs, v)
  PROVE  CallsMeant' /\ ResultMeant'
<1> DEFINE n == Len(stack)
           f == [Top EXCEPT !.vals = Append(Top.vals, v), !.acc = a]
<1>1. n \in Nat \ {0} /\ DOMAIN stack = 1 .. n /\ IsSequence(stack) /\ Top = stack[n] /\ FrameOk(rule, Top) /\ n \in 1 .. n
  BY StackTop DEF CallsOk
<1>2. f.node = Top.node /\ f.vals = Append(Vals, v) /\ f.acc = a
  BY <1>1 DEF FrameOk, Vals
<1> HIDE DEF f
<1>3. /\ IsSequence(stack') /\ Len(stack') = n /\ stack'[n] = f
      /\ \A d \in 1 .. n : d # n => stack'[d] = stack[d]
  BY <1>1, Updated DEF f
<1>4. DOMAIN stack' = 1 .. n
  BY <1>3, SequenceType
<1>5. ret' = Nothing /\ rule' = rule /\ inputs' = inputs /\ outputs' = outputs
  OBVIOUS
<1> HIDE DEF n
<1>6. n - 1 \in Nat /\ n = (n - 1) + 1 /\ \A d \in 1 .. n - 1 : d \in 1 .. n /\ d # n
  BY <1>1
<1>7. \A d \in 1 .. n - 1 : d \in DOMAIN stack /\ stack'[d] = stack[d]
  BY <1>1, <1>3, <1>6
<1>8. \A d \in 1 .. n - 1 : FrameMeant(rule', inputs', stack'[d], ScopeAt(rule', stack', d))
  BY <1>5, <1>6, <1>7, LowerFrames
<1>9. ScopeAt(rule', stack', n) = InnerScope
  <2>1. \A d \in 1 .. (n - 1) + 1 : ScopeAt(rule', stack', d) = ScopeAt(rule, stack, d)
    BY <1>5, <1>6, <1>7, LowerScopes
  <2>2. n \in 1 .. (n - 1) + 1
    BY <1>1
  <2> QED BY <2>1, <2>2 DEF InnerScope, n
<1>10. FrameMeant(rule', inputs', stack'[n], ScopeAt(rule', stack', n))
  <2>1. /\ Framed(NodeMeanings, Node, Vals, Top.acc, InnerScope)
        /\ \A k \in DOMAIN Vals : Listed(inputs, Vals[k])
        /\ InnerScope \in Scopes(inputs)
    BY TopMeant
  <2>2. IsSequence(Vals)
    BY <2>1 DEF Framed
  <2>3. \A k \in DOMAIN Append(Vals, v) : Listed(inputs, Append(Vals, v)[k])
    <3> DEFINE w == Append(Vals, v)
    <3>1. /\ Len(Vals) \in Nat /\ DOMAIN Vals = 1 .. Len(Vals) /\ DOMAIN w = 1 .. Len(Vals) + 1
          /\ w[Len(Vals) + 1] = v /\ \A k \in 1 .. Len(Vals) : w[k] = Vals[k]
      BY <2>2, Appended, SequenceType
    <3> HIDE DEF w
    <3>2. ASSUME NEW k \in 1 .. Len(Vals) + 1 PROVE Listed(inputs, w[k])
      <4>1. CASE k = Len(Vals) + 1
        BY <3>1, <4>1
      <4>2. CASE k # Len(Vals) + 1
        <5>1. k \in 1 .. Len(Vals)
          BY <3>1, <4>2
        <5> QED BY <2>1, <3>1, <5>1
      <4> QED BY <4>1, <4>2
    <3> QED BY <3>1, <3>2 DEF w
  <2> DEFINE w == Append(Vals, v)
  <2>4. /\ \A k \in DOMAIN w : Listed(inputs, w[k]) /\ Answered(NodeMeanings, Node, w, k, InnerScope)
        /\ TotalMeant(NodeMeanings, Node, w, a)
    BY <2>3 DEF Framed
  <2> HIDE DEF w
  <2>5. f.vals = w /\ f.acc = a /\ rule.nodes[f.node] = Node
    BY <1>2 DEF w, Node
  <2>6. FrameMeant(rule, inputs, f, InnerScope)
    BY <2>1, <2>4, <2>5 DEF FrameMeant, NodeMeanings
  <2> QED BY <1>3, <1>5, <1>9, <2>6, Zenon
<1>11. ASSUME NEW d \in 1 .. n PROVE FrameMeant(rule', inputs', stack'[d], ScopeAt(rule', stack', d))
  <2>1. CASE d = n
    BY <1>10, <2>1
  <2>2. CASE d # n
    <3>1. d \in 1 .. n - 1
      BY <1>1, <2>2
    <3> QED BY <1>8, <3>1
  <2> QED BY <2>1, <2>2
<1>12. \A d \in 1 .. n : stack'[d].node = stack[d].node
  BY <1>1, <1>2, <1>3
<1>13. stack'[1].node = rule'.outputs[Len(outputs') + 1]
  <2>1. 1 \in 1 .. n
    BY <1>1
  <2> QED BY <1>5, <1>12, <2>1 DEF CallsMeant
<1>14. ASSUME NEW d \in 1 .. n - 1 PROVE Linked(rule', stack'[d], stack'[d + 1])
  <2>1. d + 1 \in 1 .. n
    BY <1>1
  <2>2. Linked(rule, stack[d], stack[d + 1]) /\ stack'[d] = stack[d] /\ stack'[d + 1].node = stack[d + 1].node
    BY <1>7, <1>12, <2>1 DEF CallsMeant, n
  <2> QED BY <1>5, <2>2 DEF Linked
<1>15. CallsMeant'
  BY <1>3, <1>4, <1>11, <1>13, <1>14 DEF CallsMeant
<1> QED BY <1>5, <1>15 DEF ResultMeant

-----------------------------------------------------------------------------
(* Each step keeps the meaning.                                            *)

LEMMA RestMeans ==
  ASSUME Inv, OutputsMeant, Rest, CallsMeant', ResultMeant'
  PROVE  Meant'
<1>1. OutputsMeant'
  BY DEF OutputsMeant, OutcomeIsTheMeaning, Rest
<1> QED BY <1>1 DEF Meant

(* Results that are values of their own, not lists. *)
Proper(in, r) == r.ok => r = Ok(r.val) /\ Listed(in, r.val)

LEMMA ProperErr == ASSUME NEW in, NEW r, ~r.ok PROVE Proper(in, r)
BY DEF Proper

LEMMA ProperPlain == ASSUME NEW in, NEW v, ~Is(v, "list") PROVE Proper(in, Ok(v))
BY DEF Proper, Ok, Listed

LEMMA ProperScalar == ASSUME NEW in, NEW r PROVE Proper(in, AsScalar(r))
<1>1. AsScalar(r) = IF r.ok THEN Ok(Scalar(r.val)) ELSE r
  BY Zenon DEF AsScalar, AndThen
<1>2. ~Is(Scalar(r.val), "list")
  BY DEF Is, Scalar
<1> QED BY <1>1, <1>2, ProperErr, ProperPlain

LEMMA ProperBool == ASSUME NEW in, NEW r PROVE Proper(in, AsBool(r))
<1>1. AsBool(r) = IF r.ok THEN Ok(Bool(r.val)) ELSE r
  BY Zenon DEF AsBool, AndThen
<1>2. ~Is(Bool(r.val), "list")
  BY DEF Is, Bool
<1> QED BY <1>1, <1>2, ProperErr, ProperPlain

LEMMA ProperOkBool == ASSUME NEW in, NEW b PROVE Proper(in, Ok(Bool(b)))
<1>1. ~Is(Bool(b), "list")
  BY DEF Is, Bool
<1> QED BY <1>1, ProperPlain

LEMMA ProperError == ASSUME NEW in, NEW e PROVE Proper(in, Err(e))
BY DEF Proper, Err

LEMMA ProperCell == ASSUME NEW in, NEW row, NEW column, NEW cell PROVE Proper(in, ReadCell(row, column, cell))
<1> DEFINE number == ParseWhole(row[column].text)
<1>1. ~Is(Text(row[column].text), "list") /\ ~Is(Scalar(number.val), "list")
  BY DEF Is, Text, Scalar
<1>2. /\ Proper(in, Ok(Text(row[column].text))) /\ Proper(in, Ok(Scalar(number.val)))
      /\ \A e : Proper(in, Err(e))
  BY <1>1, ProperPlain, ProperError
<1> QED BY <1>2 DEF ReadCell

-----------------------------------------------------------------------------
(* Evaluator::eval keeps the results meant, one lemma per action.          *)

LEMMA ResultMeans ==
  ASSUME Inv, Meant, stack # <<>>, NEW r, Return(r), Rest,
         r = Means(Node, InnerScope, inputs, NodeMeanings), Proper(inputs, r)
  PROVE  Meant'
<1>1. Accepted /\ CallsOk /\ CallsMeant /\ OutputsMeant
  BY DEF Inv, Meant
<1>2. UNCHANGED <<rule, inputs, outputs>> /\ (r.ok => r = Ok(r.val) /\ Listed(inputs, r.val))
  BY DEF Rest, Proper
<1>3. CallsMeant' /\ ResultMeant'
  BY <1>1, <1>2, ReturnMeans
<1> QED BY <1>1, <1>3, RestMeans

LEMMA ChildMeans ==
  ASSUME Inv, Meant, stack # <<>>, NEW i, Call(i), Rest,
         NEW k, k = Len(Vals) + 1, Asking(Node, Vals, k), i = Asked(Node, Vals, k)
  PROVE  Meant'
<1>1. Accepted /\ CallsOk /\ CallsMeant /\ OutputsMeant
  BY DEF Inv, Meant
<1>2. UNCHANGED <<rule, inputs, outputs>> /\ Next1(Top) = k
  BY DEF Rest, Next1, Vals
<1>3. CallsMeant' /\ ResultMeant'
  BY <1>1, <1>2, CallMeans
<1> QED BY <1>1, <1>3, RestMeans

(* The call under evaluation, and what it is worth. *)
LEMMA CallAtTop ==
  ASSUME Inv, Meant, stack # <<>>
  PROVE  /\ Framed(NodeMeanings, Node, Vals, Top.acc, InnerScope)
         /\ IsNode(Node) /\ ShapeOk(Node) /\ IsSequence(Vals)
         /\ Held(NodeMeanings, Node, Vals, InnerScope)
         /\ Len(Vals) \in Nat /\ DOMAIN Vals = 1 .. Len(Vals) /\ (Vals = <<>> <=> Len(Vals) = 0)
         /\ \A k \in DOMAIN Vals : Listed(inputs, Vals[k])
<1>1. Accepted /\ CallsOk /\ CallsMeant
  BY DEF Inv, Meant
<1>2. /\ Framed(NodeMeanings, Node, Vals, Top.acc, InnerScope) /\ ShapeOk(Node)
      /\ \A k \in DOMAIN Vals : Listed(inputs, Vals[k])
  BY <1>1, TopMeant
<1>3. IsNode(Node) /\ IsSequence(Vals) /\ Held(NodeMeanings, Node, Vals, InnerScope)
  BY <1>2 DEF Framed, Held
<1>4. Len(Vals) \in Nat /\ DOMAIN Vals = 1 .. Len(Vals) /\ (Vals = <<>> <=> Len(Vals) = 0)
  BY <1>3, SequenceType
<1> QED BY <1>2, <1>3, <1>4

LEMMA LeafMeant == ASSUME Inv, Meant, EvalLeaf PROVE Meant'
<1>1. stack # <<>> /\ ret = Nothing /\ Rest
  BY DEF EvalLeaf, Running
<1>2. IsNode(Node) /\ ShapeOk(Node) /\ Accepted /\ CallsOk /\ ScopeOk
  BY <1>1, CallAtTop DEF Inv
<1>3. CASE Running({"const"}) /\ Return(Constant(Node))
  <2>1. Node.op = "const"
    BY <1>3 DEF Running
  <2>2. Len(Node.literals) = 1 /\ ~Is(Node.literals[1], "malformed")
    BY <1>2, <2>1, Shapes
  <2>3. IsPlain(Node.literals[1])
    BY <1>2, <2>1, <2>2 DEF IsNode
  <2>4. Constant(Node) = Ok(Node.literals[1])
    BY <2>2 DEF Constant
  <2>5. Proper(inputs, Constant(Node))
    BY <2>3, <2>4, ProperPlain DEF IsPlain, Is
  <2>6. Constant(Node) = Means(Node, InnerScope, inputs, NodeMeanings)
    BY <1>2, <2>1, LeafMeans
  <2> QED BY <1>1, <1>3, <2>5, <2>6, ResultMeans
<1>4. CASE Running({"input"}) /\ Return(Input(Node.name))
  <2>1. Node.op = "input"
    BY <1>4 DEF Running
  <2>2. Input(Node.name) = Means(Node, InnerScope, inputs, NodeMeanings)
    BY <1>2, <2>1, LeafMeans DEF Input
  <2>3. Proper(inputs, Input(Node.name))
    BY DEF Input, Proper, Listed, Ok, Err
  <2> QED BY <1>1, <1>4, <2>2, <2>3, ResultMeans
<1>5. CASE Running({"field"}) /\ Return(Field(Node.name))
  <2>1. Node.op = "field"
    BY <1>5 DEF Running
  <2>2. FieldOf(InnerScope, Node.name) = Field(Node.name)
    BY <1>1, <1>2, FieldInScope DEF InnerScope
  <2>3. Field(Node.name) = Means(Node, InnerScope, inputs, NodeMeanings)
    BY <1>2, <2>1, <2>2, LeafMeans
  <2>4. elements = <<>> \/ IsElement(Last(elements))
    <3>1. Len(elements) \in Nat /\ DOMAIN elements = 1 .. Len(elements) /\ (elements = <<>> <=> Len(elements) = 0)
      BY <1>2, SequenceType DEF ScopeOk
    <3>2. elements # <<>> => Len(elements) \in DOMAIN elements
      BY <3>1
    <3> QED BY <1>2, <3>2 DEF ScopeOk, Last
  <2>5. Proper(inputs, Field(Node.name))
    BY <2>4, ProperPlain, ProperError DEF Field, IsElement, IsPlain, Is
  <2> QED BY <1>1, <1>5, <2>3, <2>5, ResultMeans
<1> QED BY <1>3, <1>4, <1>5 DEF EvalLeaf

(* Operands from left to right, and a result when all are there. *)
LEMMA EagerMeant ==
  ASSUME Inv, Meant, stack # <<>>, Node.op \in EagerOps, NEW arity, Len(Node.args) = arity, NEW r,
         IF Len(Vals) < arity THEN Call(Node.args[Len(Vals) + 1]) ELSE Return(r),
         ~(Len(Vals) < arity) => r = Means(Node, InnerScope, inputs, NodeMeanings) /\ Proper(inputs, r),
         Rest
  PROVE  Meant'
<1>1. Len(Vals) \in Nat /\ IsNode(Node)
  BY CallAtTop
<1>2. CASE Len(Vals) < arity
  <2> DEFINE k == Len(Vals) + 1
  <2>1. Node.op \notin LoopOps \cup {"table", "select", "const", "input", "field", "and", "or"}
    BY DEF EagerOps, PairOps, ScalarPairOps, OrderOps, UnaryOps, LoopOps
  <2>2. Len(Node.args) \in Nat
    BY <1>1, <2>1, Operands
  <2>3. k <= Len(Node.args)
    BY <1>1, <1>2, <2>2
  <2> HIDE DEF k
  <2>4. Asking(Node, Vals, k) /\ Node.args[k] = Asked(Node, Vals, k)
    BY <2>1, <2>3, Zenon DEF Asking, Asked
  <2>5. k = Len(Vals) + 1 /\ Call(Node.args[k])
    BY <1>2 DEF k
  <2> QED BY <2>4, <2>5, ChildMeans
<1>3. CASE ~(Len(Vals) < arity)
  BY <1>3, ResultMeans
<1> QED BY <1>2, <1>3

LEMMA ArithmeticMeant == ASSUME Inv, Meant, EvalArithmetic PROVE Meant'
<1>1. stack # <<>> /\ Rest
  BY DEF EvalArithmetic, Running
<1>2. /\ IsNode(Node) /\ ShapeOk(Node) /\ IsSequence(Vals)
      /\ Held(NodeMeanings, Node, Vals, InnerScope)
  BY <1>1, CallAtTop
<1>3. CASE /\ Running(ScalarPairOps)
           /\ Eager(2, LAMBDA v : AsScalar(Arithmetic(Node.op, v[1].scalar, v[2].scalar)))
  <2> DEFINE r == AsScalar(Arithmetic(Node.op, Vals[1].scalar, Vals[2].scalar))
  <2>1. Node.op \in ScalarPairOps /\ Node.op \in PairOps /\ Node.op \in EagerOps
    BY <1>3 DEF Running, PairOps, EagerOps
  <2>2. Len(Node.args) = 2
    BY <1>2, <2>1, Shapes
  <2>3. IF Len(Vals) < 2 THEN Call(Node.args[Len(Vals) + 1]) ELSE Return(r)
    BY <1>3, <2>2 DEF Eager
  <2>4. ~(Len(Vals) < 2) => r = Means(Node, InnerScope, inputs, NodeMeanings) /\ Proper(inputs, r)
    <3>1. ASSUME ~(Len(Vals) < Len(Node.args)) PROVE EagerWorth(Node, Vals, Means(Node, InnerScope, inputs, NodeMeanings))
      BY <1>2, <2>1, <3>1, EagerMeans
    <3> QED BY <2>1, <2>2, <3>1, ProperScalar DEF EagerWorth
  <2> HIDE DEF r
  <2> QED BY <1>1, <2>1, <2>2, <2>3, <2>4, EagerMeant
<1>4. CASE /\ Running(UnaryOps)
           /\ Eager(1, LAMBDA v : AsScalar(Unary(Node.op, v[1].scalar)))
  <2> DEFINE r == AsScalar(Unary(Node.op, Vals[1].scalar))
  <2>1. Node.op \in UnaryOps /\ Node.op \in EagerOps
    BY <1>4 DEF Running, EagerOps
  <2>2. Len(Node.args) = 1
    BY <1>2, <2>1, Shapes
  <2>3. IF Len(Vals) < 1 THEN Call(Node.args[Len(Vals) + 1]) ELSE Return(r)
    BY <1>4, <2>2 DEF Eager
  <2>4. ~(Len(Vals) < 1) => r = Means(Node, InnerScope, inputs, NodeMeanings) /\ Proper(inputs, r)
    <3>1. ASSUME ~(Len(Vals) < Len(Node.args)) PROVE EagerWorth(Node, Vals, Means(Node, InnerScope, inputs, NodeMeanings))
      BY <1>2, <2>1, <3>1, EagerMeans
    <3> QED BY <2>1, <2>2, <3>1, ProperScalar DEF EagerWorth
  <2> HIDE DEF r
  <2> QED BY <1>1, <2>1, <2>2, <2>3, <2>4, EagerMeant
<1> QED BY <1>3, <1>4 DEF EvalArithmetic

LEMMA ComparisonMeant == ASSUME Inv, Meant, EvalComparison PROVE Meant'
<1>1. stack # <<>> /\ Rest
  BY DEF EvalComparison, Running
<1>2. /\ IsNode(Node) /\ ShapeOk(Node) /\ IsSequence(Vals)
      /\ Held(NodeMeanings, Node, Vals, InnerScope)
  BY <1>1, CallAtTop
<1>3. CASE /\ Running({"eq", "ne"})
           /\ Eager(2, LAMBDA v : AsBool(Equality(Node.op, v[1], v[2])))
  <2> DEFINE r == AsBool(Equality(Node.op, Vals[1], Vals[2]))
  <2>1. Node.op \in {"eq", "ne"} /\ Node.op \in PairOps /\ Node.op \in EagerOps
    BY <1>3 DEF Running, PairOps, EagerOps
  <2>2. Len(Node.args) = 2
    BY <1>2, <2>1, Shapes
  <2>3. IF Len(Vals) < 2 THEN Call(Node.args[Len(Vals) + 1]) ELSE Return(r)
    BY <1>3, <2>2 DEF Eager
  <2>4. ~(Len(Vals) < 2) => r = Means(Node, InnerScope, inputs, NodeMeanings) /\ Proper(inputs, r)
    <3>1. ASSUME ~(Len(Vals) < Len(Node.args)) PROVE EagerWorth(Node, Vals, Means(Node, InnerScope, inputs, NodeMeanings))
      BY <1>2, <2>1, <3>1, EagerMeans
    <3> QED BY <2>1, <2>2, <3>1, ProperBool DEF EagerWorth
  <2> HIDE DEF r
  <2> QED BY <1>1, <2>1, <2>2, <2>3, <2>4, EagerMeant
<1>4. CASE /\ Running(OrderOps)
           /\ Eager(2, LAMBDA v : AsBool(Order(Node.op, v[1], v[2])))
  <2> DEFINE r == AsBool(Order(Node.op, Vals[1], Vals[2]))
  <2>1. Node.op \in OrderOps /\ Node.op \in PairOps /\ Node.op \in EagerOps
    BY <1>4 DEF Running, PairOps, EagerOps
  <2>2. Len(Node.args) = 2
    BY <1>2, <2>1, Shapes
  <2>3. IF Len(Vals) < 2 THEN Call(Node.args[Len(Vals) + 1]) ELSE Return(r)
    BY <1>4, <2>2 DEF Eager
  <2>4. ~(Len(Vals) < 2) => r = Means(Node, InnerScope, inputs, NodeMeanings) /\ Proper(inputs, r)
    <3>1. ASSUME ~(Len(Vals) < Len(Node.args)) PROVE EagerWorth(Node, Vals, Means(Node, InnerScope, inputs, NodeMeanings))
      BY <1>2, <2>1, <3>1, EagerMeans
    <3> QED BY <2>1, <2>2, <3>1, ProperBool DEF EagerWorth
  <2> HIDE DEF r
  <2> QED BY <1>1, <2>1, <2>2, <2>3, <2>4, EagerMeant
<1> QED BY <1>3, <1>4 DEF EvalComparison

LEMMA LogicMeant == ASSUME Inv, Meant, EvalLogic PROVE Meant'
<1>1. stack # <<>> /\ Rest
  BY DEF EvalLogic, Running
<1>2. /\ IsNode(Node) /\ ShapeOk(Node) /\ IsSequence(Vals)
      /\ Held(NodeMeanings, Node, Vals, InnerScope)
      /\ \A k \in DOMAIN Vals : Answered(NodeMeanings, Node, Vals, k, InnerScope)
      /\ Len(Vals) \in Nat /\ DOMAIN Vals = 1 .. Len(Vals) /\ (Vals = <<>> <=> Len(Vals) = 0)
  BY <1>1, CallAtTop DEF Held
<1>3. CASE Running({"not"}) /\ Eager(1, LAMBDA v : Ok(Bool(~v[1].bool)))
  <2> DEFINE r == Ok(Bool(~Vals[1].bool))
  <2>1. Node.op = "not" /\ Node.op \in EagerOps
    BY <1>3 DEF Running, EagerOps
  <2>2. Len(Node.args) = 1
    BY <1>2, <2>1, Shapes
  <2>3. IF Len(Vals) < 1 THEN Call(Node.args[Len(Vals) + 1]) ELSE Return(r)
    BY <1>3, <2>2 DEF Eager
  <2>4. ~(Len(Vals) < 1) => r = Means(Node, InnerScope, inputs, NodeMeanings)
    <3>1. ASSUME ~(Len(Vals) < Len(Node.args)) PROVE EagerWorth(Node, Vals, Means(Node, InnerScope, inputs, NodeMeanings))
      BY <1>2, <2>1, <3>1, EagerMeans
    <3> QED BY <2>1, <2>2, <3>1 DEF EagerWorth
  <2>5. Proper(inputs, r)
    BY ProperOkBool
  <2> HIDE DEF r
  <2> QED BY <1>1, <2>1, <2>2, <2>3, <2>4, <2>5, EagerMeant
<1>4. CASE Running({"and", "or"})
  <2>1. Node.op \in {"and", "or"} /\ Node.op \notin {"not", "table", "select", "const", "input", "field"} \cup LoopOps
    BY <1>4 DEF Running, LoopOps
  <2> DEFINE stops == Vals # <<>> /\ Last(Vals).bool = (Node.op = "or")
             k == Len(Vals) + 1
  <2>2. Node.op = "and" <=> Node.op # "or"
    BY <2>1
  <2>3. \/ stops /\ Return(Ok(Bool(Node.op = "or")))
        \/ ~stops /\ Len(Vals) < Len(Node.args) /\ Call(Node.args[k])
        \/ ~stops /\ ~(Len(Vals) < Len(Node.args)) /\ Return(Ok(Bool(Node.op # "or")))
    BY <2>1, Zenon DEF EvalLogic, Running, Decides
  <2>4. ASSUME stops PROVE Means(Node, InnerScope, inputs, NodeMeanings) = Ok(Bool(Node.op = "or"))
    BY <1>2, <2>1, <2>4, LogicMeans
  <2>5. ASSUME ~stops, ~(Len(Vals) < Len(Node.args))
        PROVE  Means(Node, InnerScope, inputs, NodeMeanings) = Ok(Bool(Node.op # "or"))
    <3>1. Means(Node, InnerScope, inputs, NodeMeanings) = Ok(Bool(Node.op = "and"))
      BY <1>2, <2>1, <2>5, LogicMeans
    <3>2. (Node.op = "and") = (Node.op # "or")
      BY <2>2
    <3> QED BY <3>1, <3>2, Zenon
  <2>6. ASSUME ~stops, Len(Vals) < Len(Node.args), Call(Node.args[k]) PROVE Meant'
    <3>1. k \in Nat /\ k = Len(Vals) + 1 /\ k <= Len(Node.args)
      <4>1. Len(Node.args) \in Nat
        BY <1>2, <2>1, Operands
      <4> QED BY <1>2, <2>6, <4>1
    <3>2. \A j \in 1 .. k - 1 : Vals[j].bool # (Node.op = "or")
      <4> SUFFICES ASSUME NEW j \in 1 .. k - 1 PROVE Vals[j].bool # (Node.op = "or")
        OBVIOUS
      <4>1. CASE j = Len(Vals)
        BY <1>2, <2>6, <4>1 DEF Last
      <4>2. CASE j # Len(Vals)
        <5>1. Len(Vals) \in DOMAIN Vals /\ j \in 1 .. Len(Vals) - 1
          <6>1. \A n, x \in Int : x \in 1 .. n + 1 - 1 /\ x # n => n \in 1 .. n /\ x \in 1 .. n - 1
            OBVIOUS
          <6>2. Len(Vals) \in Int /\ j \in Int /\ j \in 1 .. Len(Vals) + 1 - 1
            BY <1>2
          <6>3. Len(Vals) \in 1 .. Len(Vals) /\ j \in 1 .. Len(Vals) - 1
            BY <4>2, <6>1, <6>2, Zenon
          <6> QED BY <1>2, <6>3
        <5>2. Asking(Node, Vals, Len(Vals))
          <6>1. Answered(NodeMeanings, Node, Vals, Len(Vals), InnerScope) /\ Node.op # "count"
            BY <1>2, <2>1, <5>1 DEF LoopOps
          <6> QED BY <6>1 DEF Answered
        <5>3. \A l \in 1 .. Len(Vals) - 1 : Vals[l].bool # (Node.op = "or")
          BY <2>1, <5>2, Zenon DEF Asking
        <5> QED BY <5>1, <5>3
      <4> QED BY <4>1, <4>2
    <3> HIDE DEF k, stops
    <3>3. Asking(Node, Vals, k)
      BY <2>1, <3>1, <3>2, Zenon DEF Asking
    <3>4. Node.args[k] = Asked(Node, Vals, k)
      BY <2>1, Zenon DEF Asked
    <3> QED BY <1>1, <2>6, <3>1, <3>3, <3>4, ChildMeans
  <2> HIDE DEF k, stops
  <2>7. ASSUME NEW b, Return(Ok(Bool(b))), Means(Node, InnerScope, inputs, NodeMeanings) = Ok(Bool(b)) PROVE Meant'
    <3>1. Proper(inputs, Ok(Bool(b)))
      BY ProperOkBool
    <3> QED BY <1>1, <2>7, <3>1, ResultMeans
  <2>8. CASE stops /\ Return(Ok(Bool(Node.op = "or")))
    <3> DEFINE b == (Node.op = "or")
    <3>1. Return(Ok(Bool(b))) /\ Means(Node, InnerScope, inputs, NodeMeanings) = Ok(Bool(b))
      BY <2>4, <2>8
    <3> HIDE DEF b
    <3> QED BY <2>7, <3>1
  <2>9. CASE ~stops /\ ~(Len(Vals) < Len(Node.args)) /\ Return(Ok(Bool(Node.op # "or")))
    <3> DEFINE b == (Node.op # "or")
    <3>1. Return(Ok(Bool(b))) /\ Means(Node, InnerScope, inputs, NodeMeanings) = Ok(Bool(b))
      BY <2>5, <2>9
    <3> HIDE DEF b
    <3> QED BY <2>7, <3>1
  <2> QED BY <2>3, <2>6, <2>8, <2>9
<1> QED BY <1>3, <1>4 DEF EvalLogic

LEMMA SelectMeant == ASSUME Inv, Meant, EvalSelect PROVE Meant'
<1>1. stack # <<>> /\ Rest /\ Node.op = "select"
  BY DEF EvalSelect, Running
<1>2. /\ IsNode(Node) /\ IsSequence(Vals)
      /\ \A k \in DOMAIN Vals : Answered(NodeMeanings, Node, Vals, k, InnerScope)
      /\ Len(Vals) \in Nat /\ DOMAIN Vals = 1 .. Len(Vals) /\ (Vals = <<>> <=> Len(Vals) = 0)
      /\ \A k \in DOMAIN Vals : Listed(inputs, Vals[k])
  BY <1>1, CallAtTop DEF Held
<1>3. Node.op \notin LoopOps \cup {"table"}
  BY <1>1 DEF LoopOps
<1>4. CASE Len(Vals) > 1 /\ Return(Ok(Vals[2]))
  <2>1. Ok(Vals[2]) = Means(Node, InnerScope, inputs, NodeMeanings)
    BY <1>1, <1>2, <1>4, SelectMeans
  <2>2. Proper(inputs, Ok(Vals[2]))
    <3>1. 2 \in DOMAIN Vals
      BY <1>2, <1>4
    <3> QED BY <1>2, <3>1 DEF Proper, Ok
  <2> QED BY <1>1, <1>4, <2>1, <2>2, ResultMeans
<1>5. CASE Vals = <<>> /\ Call(Node.args[1])
  <2>1. Asking(Node, Vals, 1) /\ Node.args[1] = Asked(Node, Vals, 1) /\ Len(Vals) + 1 = 1
    BY <1>1, <1>2, <1>3, <1>5 DEF Asking, Asked
  <2> QED BY <1>1, <1>5, <2>1, ChildMeans
<1>6. CASE Len(Vals) = 1 /\ Call(Node.args[IF Vals[1].bool THEN 2 ELSE 3])
  <2>1. Asking(Node, Vals, 2) /\ Len(Vals) + 1 = 2
    BY <1>1, <1>3, <1>6 DEF Asking
  <2>2. Node.args[IF Vals[1].bool THEN 2 ELSE 3] = Asked(Node, Vals, 2)
    BY <1>1, <1>3, Zenon DEF Asked
  <2> DEFINE i == Node.args[IF Vals[1].bool THEN 2 ELSE 3]
  <2>3. Call(i) /\ i = Asked(Node, Vals, 2)
    BY <1>6, <2>2
  <2> HIDE DEF i
  <2> QED BY <1>1, <2>1, <2>3, ChildMeans
<1> QED BY <1>4, <1>5, <1>6 DEF EvalSelect

LEMMA TableMeant == ASSUME Inv, Meant, EvalTable PROVE Meant'
<1> DEFINE by == Node.matches[Len(Vals) + 1].by
           k == SelectRow(FileOf(Node).val, BoundPredicates(Node.matches, Vals))
           r == IF k = 0 THEN Err("MissingRow") ELSE ReadCell(FileOf(Node).val[k], Node.column, Node.cell)
           w == Means(Node, InnerScope, inputs, NodeMeanings)
           n == Len(Vals) + 1
<1>1. stack # <<>> /\ Rest /\ Node.op = "table"
  BY DEF EvalTable, Running
<1>2. /\ IsNode(Node) /\ ShapeOk(Node) /\ IsSequence(Vals) /\ Len(Vals) \in Nat
      /\ Held(NodeMeanings, Node, Vals, InnerScope)
  BY <1>1, CallAtTop
<1>3. TableWorth(Node, Vals, w)
  BY <1>1, <1>2, TableMeans
<1>4. \A m \in DOMAIN Node.matches : Cardinality(DOMAIN Node.matches[m].by) = 1
  BY <1>1, <1>2, Shapes
<1>5. \/ ~FileOf(Node).ok /\ Return(FileOf(Node))
      \/ FileOf(Node).ok /\ Len(Vals) < Len(Node.matches) /\ Cardinality(DOMAIN by) # 1
      \/ FileOf(Node).ok /\ Len(Vals) < Len(Node.matches) /\ Call(by[CHOOSE m \in DOMAIN by : TRUE])
      \/ FileOf(Node).ok /\ ~(Len(Vals) < Len(Node.matches)) /\ Return(r)
  BY Zenon DEF EvalTable, FileOf
<1>6. CASE ~FileOf(Node).ok /\ Return(FileOf(Node))
  <2>1. FileOf(Node) = w /\ Proper(inputs, FileOf(Node))
    BY <1>3, <1>6, ProperErr DEF TableWorth
  <2> HIDE DEF w
  <2> QED BY <1>1, <1>6, <2>1, ResultMeans DEF w
<1>7. ASSUME Len(Vals) < Len(Node.matches)
      PROVE  n \in DOMAIN Node.matches /\ n <= Len(Node.matches)
  <2>1. DOMAIN Node.matches = 1 .. Len(Node.matches) /\ Len(Node.matches) \in Nat
    BY <1>1, <1>2 DEF IsNode
  <2> QED BY <1>2, <1>7, <2>1
<1>8. CASE FileOf(Node).ok /\ Len(Vals) < Len(Node.matches) /\ Cardinality(DOMAIN by) # 1
  <2>1. n \in DOMAIN Node.matches /\ by = Node.matches[n].by
    BY <1>7, <1>8
  <2> HIDE DEF by, n
  <2> QED BY <1>4, <1>8, <2>1
<1>9. CASE FileOf(Node).ok /\ Len(Vals) < Len(Node.matches) /\ Call(by[CHOOSE m \in DOMAIN by : TRUE])
  <2>1. n <= Len(Node.matches)
    BY <1>7, <1>9
  <2>2. Compared(Node.matches[n]) = by[CHOOSE m \in DOMAIN by : TRUE]
    BY DEF Compared
  <2>3. n = Len(Vals) + 1 /\ Call(Compared(Node.matches[n]))
    BY <1>9, <2>2
  <2> HIDE DEF n
  <2>4. Asking(Node, Vals, n) /\ Compared(Node.matches[n]) = Asked(Node, Vals, n)
    BY <1>1, <1>9, <2>1 DEF Asking, Asked
  <2> QED BY <1>1, <2>3, <2>4, ChildMeans
<1>10. CASE FileOf(Node).ok /\ ~(Len(Vals) < Len(Node.matches)) /\ Return(r)
  <2>1. r = w
    BY <1>3, <1>10, Zenon DEF TableWorth
  <2>2. Proper(inputs, r)
    <3> HIDE DEF k
    <3> QED BY ProperCell, ProperError
  <2> HIDE DEF r
  <2> QED BY <1>1, <1>10, <2>1, <2>2, ResultMeans
<1> QED BY <1>5, <1>6, <1>8, <1>9, <1>10

(* The variants Receive takes are those of the kind a call asks for. *)
LEMMA WantedFits ==
  ASSUME NEW v, IsInput(v), ~InBody, Len(Vals) \in Nat, Vals = <<>> <=> Len(Vals) = 0
  PROVE  DOMAIN v \subseteq Wanted <=> Fits(v, Kind(Node.op, Len(Vals) + 1))
<1> DEFINE k == Len(Vals) + 1
           agrees == DOMAIN v \subseteq Wanted <=> Fits(v, Kind(Node.op, k))
<1> SUFFICES agrees
  OBVIOUS
<1>1. \E kind \in {"scalar", "text", "bool", "list", "record"} : DOMAIN v = {kind}
  BY Variants DEF IsValue, Kinds
<1>2. ASSUME NEW kind \in {"scalar", "text", "bool", "list"}, Wanted = {kind}, Kind(Node.op, k) = kind
      PROVE  agrees
  BY <1>1, <1>2 DEF Fits, Is
<1>3. ASSUME Wanted = {"scalar", "text", "bool", "list", "record"}, Kind(Node.op, k) = "any"
      PROVE  agrees
  BY <1>1, <1>3 DEF Fits
<1>4. k = 1 <=> Vals = <<>>
  OBVIOUS
<1> HIDE DEF k, agrees
<1>5. CASE Node.op \in ScalarPairOps \cup UnaryOps
  BY <1>2, <1>5, WantedVariants, KindsOf
<1>6. CASE Node.op \in LoopOps
  <2>1. k = 1
    BY <1>4, <1>6 DEF InBody
  <2>2. Wanted = {"list"} /\ Kind(Node.op, k) = "list"
    BY <1>6, <2>1, WantedVariants, KindsOf
  <2> QED BY <1>2, <2>2
<1>7. CASE Node.op \in {"and", "or", "not"}
  <2>1. Node.op \notin ScalarPairOps \cup UnaryOps
    BY <1>7 DEF ScalarPairOps, UnaryOps
  <2>2. Wanted = {"bool"}
    <3>1. Node.op \notin LoopOps /\ Node.op # "select" /\ Node.op # "table"
      BY <1>7 DEF LoopOps
    <3> QED BY <1>7, <2>1, <3>1, Zenon DEF Wanted
  <2>3. Kind(Node.op, k) = "bool"
    BY <1>7, KindsOf
  <2> QED BY <1>2, <2>2, <2>3
<1>8. CASE Node.op = "table"
  <2>1. Node.op \notin ScalarPairOps \cup UnaryOps \cup {"and", "or", "not", "select"} \cup LoopOps
    BY <1>8 DEF ScalarPairOps, UnaryOps, LoopOps
  <2>2. Wanted = {"text"}
    BY <1>8, <2>1, Zenon DEF Wanted
  <2> QED BY <1>2, <1>8, <2>2, KindsOf
<1>9. CASE Node.op = "select"
  <2>1. Node.op \notin ScalarPairOps \cup UnaryOps \cup {"and", "or", "not", "table"} \cup LoopOps
    BY <1>9 DEF ScalarPairOps, UnaryOps, LoopOps
  <2>2. CASE k = 1
    <3>1. Wanted = {"bool"}
      BY <1>4, <1>9, <2>1, <2>2, Zenon DEF Wanted
    <3>2. Kind(Node.op, k) = "bool"
      BY <1>9, <2>2, KindsOf
    <3> QED BY <1>2, <3>1, <3>2
  <2>3. CASE k # 1
    <3>1. Wanted = {"scalar", "text", "bool", "list", "record"}
      BY <1>4, <2>1, <2>3, Zenon DEF Wanted
    <3>2. Kind(Node.op, k) = "any"
      BY <1>9, <2>3, KindsOf
    <3> QED BY <1>3, <3>1, <3>2
  <2> QED BY <2>2, <2>3
<1>10. CASE Node.op \notin ScalarPairOps \cup UnaryOps \cup {"and", "or", "not", "select", "table"} \cup LoopOps
  <2>1. Wanted = {"scalar", "text", "bool", "list", "record"}
    BY <1>10, Zenon DEF Wanted
  <2>2. Kind(Node.op, k) = "any"
    BY <1>10, Zenon DEF Kind, LoopOps
  <2> QED BY <1>3, <2>1, <2>2
<1> QED BY <1>5, <1>6, <1>7, <1>8, <1>9, <1>10

LEMMA ReceiveMeant == ASSUME Inv, Meant, Receive PROVE Meant'
<1> DEFINE k == Len(Vals) + 1
<1>1. stack # <<>> /\ ret # Nothing /\ ~InBody /\ Rest
  BY DEF Receive
<1>2. Accepted /\ CallsOk /\ CallsMeant /\ ResultMeant /\ OutputsMeant /\ GoodResult(ret)
  BY <1>1 DEF Inv, CallsOk, Meant
<1>3. /\ Framed(NodeMeanings, Node, Vals, Top.acc, InnerScope)
      /\ IsSequence(Vals) /\ Len(Vals) \in Nat /\ (Vals = <<>> <=> Len(Vals) = 0)
  BY <1>1, CallAtTop
<1>4. /\ Asking(Node, Vals, k) /\ ret = Answer(NodeMeanings, Node, Vals, k, InnerScope)
      /\ ret.ok => ret = Ok(ret.val) /\ Listed(inputs, ret.val)
  BY <1>1, <1>2 DEF ResultMeant, NodeMeanings, InnerScope, Next1, Vals
<1>5. ret.ok => (DOMAIN ret.val \subseteq Wanted <=> Fits(ret.val, Kind(Node.op, k)))
  BY <1>1, <1>2, <1>3, WantedFits DEF GoodResult
<1>6. ASSUME ret.ok => ~(DOMAIN ret.val \subseteq Wanted), NEW r, Return(r), r = Refusal(ret) PROVE Meant'
  <2>1. Fails(NodeMeanings, Node, Vals, InnerScope, inputs)
    BY <1>3, ChildFails
  <2>2. Means(Node, InnerScope, inputs, NodeMeanings) = Refusal(ret) /\ ~Refusal(ret).ok
    BY <1>4, <1>5, <1>6, <2>1, Zenon DEF Fails
  <2> QED BY <1>1, <1>6, <2>2, ProperErr, ResultMeans
<1>7. CASE ~ret.ok
  BY <1>6, <1>7 DEF Receive, Refusal
<1>8. CASE ret.ok /\ ~(DOMAIN ret.val \subseteq Wanted)
  BY <1>6, <1>8 DEF Receive, Refusal
<1>9. CASE ret.ok /\ DOMAIN ret.val \subseteq Wanted
  <2>1. stack' = [stack EXCEPT ![Len(stack)].vals = Append(@, ret.val)] /\ ret' = Nothing
    BY <1>9 DEF Receive
  <2>2. stack' = [stack EXCEPT ![Len(stack)] = [Top EXCEPT !.vals = Append(Top.vals, ret.val), !.acc = Top.acc]]
    BY <1>1, <1>2, <2>1, TopUpdate
  <2>3. /\ IsInput(ret.val) /\ Fits(ret.val, Kind(Node.op, k)) /\ Listed(inputs, ret.val)
        /\ Answer(NodeMeanings, Node, Vals, k, InnerScope) = Ok(ret.val)
    BY <1>2, <1>4, <1>5, <1>9 DEF GoodResult
  <2>4. TotalMeant(NodeMeanings, Node, Append(Vals, ret.val), Top.acc)
    <3>1. TotalMeant(NodeMeanings, Node, Vals, Top.acc)
      BY <1>3 DEF Framed
    <3>2. CASE Node.op \in LoopOps
      <4>1. Vals = <<>> /\ k = 1
        BY <1>1, <1>3, <3>2 DEF InBody
      <4>2. Is(ret.val, "list")
        BY <2>3, <3>2, <4>1, KindsOf DEF Fits
      <4> QED BY <2>3, <3>1, <4>1, <4>2, FirstTotal
    <3>3. CASE Node.op \notin LoopOps
      BY <1>3, <3>3, OtherTotal
    <3> QED BY <3>2, <3>3
  <2>5. Framed(NodeMeanings, Node, Append(Vals, ret.val), Top.acc, InnerScope)
    BY <1>3, <1>4, <2>3, <2>4, FrameExtends
  <2>6. UNCHANGED <<rule, inputs, outputs>>
    BY <1>1 DEF Rest
  <2>7. CallsMeant' /\ ResultMeant'
    BY <1>1, <1>2, <2>1, <2>2, <2>3, <2>5, <2>6, ContinueMeans
  <2>8. Inv /\ OutputsMeant /\ Rest
    BY <1>1, <1>2
  <2> QED BY <2>7, <2>8, RestMeans
<1> QED BY <1>7, <1>8, <1>9

LEMMA LoopMeant == ASSUME Inv, Meant, EvalLoop PROVE Meant'
<1> DEFINE w == Means(Node, InnerScope, inputs, NodeMeanings)
           k == Len(Vals) + 1
<1>1. stack # <<>> /\ ret = Nothing /\ Rest /\ Node.op \in LoopOps /\ Node.op # "table"
  BY DEF EvalLoop, Running, LoopOps
<1>2. Accepted /\ CallsOk /\ CallsMeant /\ ResultMeant /\ OutputsMeant
  BY DEF Inv, Meant
<1>3. /\ Framed(NodeMeanings, Node, Vals, Top.acc, InnerScope) /\ IsNode(Node)
      /\ IsSequence(Vals) /\ Len(Vals) \in Nat /\ DOMAIN Vals = 1 .. Len(Vals) /\ (Vals = <<>> <=> Len(Vals) = 0)
      /\ Held(NodeMeanings, Node, Vals, InnerScope)
  BY <1>1, CallAtTop
<1>4. TotalMeant(NodeMeanings, Node, Vals, Top.acc)
  BY <1>3 DEF Framed
<1>5. Len(Node.args) \in {1, 2} /\ (Node.op = "sum" => Len(Node.args) = 2) /\ (Node.op = "sum" \/ Node.op = "count")
  BY <1>1, <1>3, LoopArguments
<1>6. CASE Vals = <<>>
  <2>1. Call(Node.args[1]) /\ k = 1
    BY <1>3, <1>6 DEF EvalLoop
  <2> HIDE DEF k
  <2>2. Asking(Node, Vals, k) /\ Node.args[1] = Asked(Node, Vals, k)
    BY <1>1, <2>1, Zenon DEF Asking, Asked
  <2> QED BY <1>1, <2>1, <2>2, ChildMeans DEF k
<1>7. CASE Vals # <<>>
  <2>1. InBody /\ Looping(NodeMeanings, Node, Vals, InnerScope)
    BY <1>1, <1>3, <1>7, LoopingFrame DEF InBody
  <2>2. /\ Len(Vals) \in Nat \ {0} /\ DOMAIN Items = 1 .. Len(Items) /\ Len(Items) \in Nat
        /\ Len(Vals) - 1 <= Len(Items)
    BY <1>1, <1>2, <2>1, LoopFrame
  <2>3. CASE Len(Vals) - 1 = Len(Items)
    <3> DEFINE r == IF Node.op = "sum" THEN Ok(Scalar(Top.acc)) ELSE AsScalar(Checked(Top.acc * SCALE))
    <3>1. Return(r)
      BY <1>7, <2>3 DEF EvalLoop
    <3>2. r = w
      BY <1>4, <2>1, <2>3, LoopDone DEF Items
    <3>3. Proper(inputs, r)
      BY ProperScalar, ProperPlain DEF Scalar, Is
    <3> HIDE DEF r
    <3> QED BY <1>1, <3>1, <3>2, <3>3, ResultMeans
  <2>4. CASE Len(Vals) - 1 # Len(Items) /\ Len(Node.args) = 1
    <3> DEFINE v == Bool(TRUE)
    <3>1. /\ stack' = [stack EXCEPT ![Len(stack)].vals = Append(@, v), ![Len(stack)].acc = @ + 1]
          /\ ret' = Nothing
      BY <1>1, <1>7, <2>4 DEF EvalLoop
    <3>2. stack' = [stack EXCEPT ![Len(stack)] = [Top EXCEPT !.vals = Append(Top.vals, v), !.acc = Top.acc + 1]]
      BY <1>1, <1>2, <3>1, TopUpdate
    <3>3. IsInput(v) /\ Listed(inputs, v) /\ v.bool = TRUE
      BY Built DEF Listed, Is, Bool
    <3> HIDE DEF v
    <3>4. Node.op = "count"
      BY <1>5, <2>4
    <3>5. TotalMeant(NodeMeanings, Node, Append(Vals, v), Top.acc + 1)
      <4>1. TotalMeant(NodeMeanings, Node, Append(Vals, v), Top.acc + IF v.bool THEN 1 ELSE 0)
        BY <1>3, <1>4, <1>7, <3>4, CountTotal
      <4>2. (IF v.bool THEN 1 ELSE 0) = 1
        BY <3>3
      <4> QED BY <4>1, <4>2, Zenon
    <3>6. Framed(NodeMeanings, Node, Append(Vals, v), Top.acc + 1, InnerScope)
      <4>1. Len(Vals) # 0 /\ v = Bool(TRUE)
        BY <2>2 DEF v
      <4> QED BY <1>3, <2>4, <3>3, <3>4, <3>5, <4>1, FrameExtends
    <3>7. UNCHANGED <<rule, inputs, outputs>>
      BY <1>1 DEF Rest
    <3> DEFINE a == Top.acc + 1
    <3>8. /\ stack' = [stack EXCEPT ![Len(stack)] = [Top EXCEPT !.vals = Append(Top.vals, v), !.acc = a]]
          /\ Framed(NodeMeanings, Node, Append(Vals, v), a, InnerScope)
      BY <3>2, <3>6
    <3> HIDE DEF a
    <3>9. CallsMeant' /\ ResultMeant'
      BY <1>1, <1>2, <3>1, <3>3, <3>7, <3>8, ContinueMeans
    <3>10. Inv /\ OutputsMeant /\ Rest
      BY <1>1, <1>2
    <3> QED BY <3>9, <3>10, RestMeans
  <2>5. CASE Len(Vals) - 1 # Len(Items) /\ Len(Node.args) # 1
    <3> DEFINE item == Items[Len(Vals)]
    <3>1. Len(Vals) \in DOMAIN Items /\ Len(Vals) <= Len(Items) /\ Len(Node.args) = 2
      BY <1>5, <2>2, <2>5
    <3>2. k - 1 = Len(Vals) /\ k # 1
      BY <2>2
    <3>3. CASE Is(item, "record")
      <4>1. Call(Node.args[2])
        BY <1>7, <2>5, <3>3 DEF EvalLoop
      <4> HIDE DEF k
      <4>2. Asking(Node, Vals, k)
        BY <1>1, <3>1, <3>2, <3>3 DEF Asking, Items
      <4>3. Node.args[2] = Asked(Node, Vals, k)
        BY <1>1, <3>2 DEF Asked, LoopOps
      <4> QED BY <1>1, <4>1, <4>2, <4>3, ChildMeans DEF k
    <3>4. CASE ~Is(item, "record")
      <4> DEFINE t == TermsOf(NodeMeanings, Node, Vals)[Len(Vals)]
      <4>1. Return(Err("TypeMismatch"))
        BY <1>7, <2>5, <3>4 DEF EvalLoop
      <4>2. t = Err("TypeMismatch")
        BY <3>1, <3>4 DEF TermsOf, LoopTerms, Items
      <4>3. Err("TypeMismatch").ok = FALSE
        BY DEF Err
      <4> HIDE DEF t
      <4>4. ~t.ok
        BY <4>2, <4>3
      <4>5. w = IF t.ok THEN Err("Overflow") ELSE t
        BY <1>4, <2>1, <3>1, <4>4, LoopStops DEF t, Items
      <4>6. Err("TypeMismatch") = w
        BY <4>2, <4>4, <4>5
      <4> QED BY <1>1, <4>1, <4>6, ProperError, ResultMeans
    <3> QED BY <3>3, <3>4
  <2> QED BY <2>3, <2>4, <2>5
<1> QED BY <1>6, <1>7

LEMMA LoopTermMeant == ASSUME Inv, Meant, LoopTerm PROVE Meant'
<1> DEFINE kind == TermKind(Node.op)
           term == Take(ret, kind)
           acc == IF ~term.ok THEN term ELSE IF Node.op = "sum" THEN TryAdd(Top.acc, term.val)
                  ELSE Ok(Top.acc + IF term.val THEN 1 ELSE 0)
           k == Len(Vals) + 1
           w == Means(Node, InnerScope, inputs, NodeMeanings)
<1>1. stack # <<>> /\ ret # Nothing /\ InBody /\ Vals # <<>> /\ Rest /\ Node.op \in LoopOps
  BY DEF LoopTerm, InBody
<1>2. Accepted /\ CallsOk /\ CallsMeant /\ ResultMeant /\ OutputsMeant /\ GoodResult(ret)
  BY <1>1 DEF Inv, CallsOk, Meant
<1>3. /\ Framed(NodeMeanings, Node, Vals, Top.acc, InnerScope) /\ IsNode(Node)
      /\ IsSequence(Vals) /\ Len(Vals) \in Nat
  BY <1>1, CallAtTop
<1>4. TotalMeant(NodeMeanings, Node, Vals, Top.acc) /\ Looping(NodeMeanings, Node, Vals, InnerScope)
  BY <1>1, <1>3, LoopingFrame DEF Framed
<1>5. /\ Asking(Node, Vals, k) /\ ret = Answer(NodeMeanings, Node, Vals, k, InnerScope)
      /\ ret.ok => ret = Ok(ret.val) /\ Listed(inputs, ret.val)
  BY <1>1, <1>2 DEF ResultMeant, NodeMeanings, InnerScope, Next1, Vals
<1>6. AsksTerm(NodeMeanings, Node, Vals, k, InnerScope)
  BY <1>4, <1>5, NextTerm
<1>7. /\ Len(Node.args) = 2 /\ Len(Vals) \in Nat \ {0} /\ Len(Vals) <= Len(Vals[1].list)
      /\ TermsOf(NodeMeanings, Node, Vals)[Len(Vals)] = term
      /\ Kind(Node.op, k) = kind /\ kind # "any"
  BY <1>5, <1>6 DEF AsksTerm
<1>8. IF acc.ok THEN /\ stack' = [stack EXCEPT ![Len(stack)].vals = Append(@, ret.val),
                                              ![Len(stack)].acc = acc.val]
                     /\ ret' = Nothing
      ELSE Return(acc)
  <2>1. term = AndThen(ret, LAMBDA v : As(v, IF Node.op = "sum" THEN "scalar" ELSE "bool"))
    BY Zenon DEF Take, TermKind
  <2> HIDE DEF term
  <2>2. acc = AndThen(term, LAMBDA x :
                IF Node.op = "sum" THEN TryAdd(Top.acc, x) ELSE Ok(Top.acc + IF x THEN 1 ELSE 0))
    BY Zenon DEF AndThen
  <2> HIDE DEF acc
  <2> QED BY <2>1, <2>2, Zenon DEF LoopTerm
<1>9. Node.op = "sum" \/ Node.op = "count"
  BY <1>1, <1>3, LoopArguments
<1>10. ASSUME term.ok
       PROVE  /\ ret = Ok(ret.val) /\ Listed(inputs, ret.val) /\ IsInput(ret.val) /\ Is(ret.val, kind)
              /\ term = Ok(ret.val[kind]) /\ term.val = ret.val[kind]
  <2>1. ret.ok /\ Is(ret.val, kind)
    <3> SUFFICES ASSUME ret.ok => ~Is(ret.val, kind) PROVE FALSE
      OBVIOUS
    <3>1. ret.ok => ret = Ok(ret.val) /\ ~Is(ret.val, kind)
      BY <1>5
    <3> QED BY <1>10, <3>1, NotTaken
  <2>2. ret = Ok(ret.val) /\ Listed(inputs, ret.val) /\ IsInput(ret.val)
    BY <1>2, <1>5, <2>1 DEF GoodResult
  <2> HIDE DEF kind
  <2>3. term = Ok(ret.val[kind])
    BY <2>1, <2>2, Taken
  <2>4. term.val = ret.val[kind]
    BY <2>3 DEF Ok
  <2> QED BY <2>1, <2>2, <2>3, <2>4
<1> HIDE DEF term
<1>11. CASE acc.ok
  <2>1. term.ok
    BY <1>11
  <2>2. /\ ret = Ok(ret.val) /\ Listed(inputs, ret.val) /\ IsInput(ret.val) /\ Is(ret.val, kind)
        /\ term = Ok(ret.val[kind]) /\ term.val = ret.val[kind]
    BY <1>10, <2>1
  <2> DEFINE v == ret.val
             x == term.val
             a == acc.val
  <2>3. TotalMeant(NodeMeanings, Node, Append(Vals, v), a)
    <3>1. CASE Node.op = "sum"
      <4>1. acc = Checked(Top.acc + x)
        BY <2>1, <3>1 DEF TryAdd
      <4>2. a = Top.acc + x /\ Top.acc + x \in Range128
        <5> HIDE DEF acc, x
        <5> QED BY <1>11, <4>1 DEF Checked, Ok, Err
      <4> HIDE DEF acc, a
      <4>3. TermsOf(NodeMeanings, Node, Vals)[Len(Vals)] = Ok(x)
        BY <1>7, <2>2
      <4> HIDE DEF v, x
      <4>4. TotalMeant(NodeMeanings, Node, Append(Vals, v), Top.acc + x)
        BY <1>4, <1>7, <3>1, <4>2, <4>3, SumTotal
      <4> QED BY <4>2, <4>4
    <3>2. CASE Node.op = "count"
      <4>1. kind = "bool"
        BY <3>2 DEF TermKind
      <4>2. x = v.bool
        BY <2>2, <4>1
      <4>3. acc = Ok(Top.acc + IF x THEN 1 ELSE 0)
        BY <2>1, <3>2
      <4>4. a = Top.acc + IF v.bool THEN 1 ELSE 0
        <5> HIDE DEF acc, v, x
        <5>1. acc.val = Top.acc + IF x THEN 1 ELSE 0
          BY <4>3 DEF Ok
        <5> QED BY <4>2, <5>1, Zenon
      <4> HIDE DEF acc, a, v, x
      <4>5. TotalMeant(NodeMeanings, Node, Append(Vals, v), Top.acc + IF v.bool THEN 1 ELSE 0)
        BY <1>1, <1>3, <1>4, <3>2, CountTotal
      <4> QED BY <4>4, <4>5, Zenon
    <3> QED BY <1>9, <3>1, <3>2
  <2>4. stack' = [stack EXCEPT ![Len(stack)].vals = Append(@, v), ![Len(stack)].acc = a] /\ ret' = Nothing
    BY <1>8, <1>11
  <2>5. /\ IsInput(v) /\ Listed(inputs, v) /\ Fits(v, Kind(Node.op, k))
        /\ Answer(NodeMeanings, Node, Vals, k, InnerScope) = Ok(v)
    BY <1>5, <1>7, <2>2 DEF Fits
  <2> HIDE DEF acc, a, v, x
  <2>6. stack' = [stack EXCEPT ![Len(stack)] = [Top EXCEPT !.vals = Append(Top.vals, v), !.acc = a]]
    <3>1. Len(stack) \in DOMAIN stack /\ Top = stack[Len(stack)] /\ DOMAIN Top = {"node", "vals", "acc"}
      BY <1>1, <1>2, StackTop DEF FrameOk
    <3> QED BY <2>4, <3>1
  <2>7. Framed(NodeMeanings, Node, Append(Vals, v), a, InnerScope)
    BY <1>3, <1>5, <2>3, <2>5, FrameExtends
  <2>8. UNCHANGED <<rule, inputs, outputs>>
    BY <1>1 DEF Rest
  <2>9. CallsMeant' /\ ResultMeant'
    BY <1>1, <1>2, <2>4, <2>5, <2>6, <2>7, <2>8, ContinueMeans
  <2>10. Inv /\ OutputsMeant /\ Rest
    BY <1>1, <1>2
  <2> QED BY <2>9, <2>10, RestMeans
<1>12. CASE ~acc.ok
  <2>1. term.ok => Node.op = "sum" /\ Top.acc + term.val \notin Range128
    <3> SUFFICES ASSUME term.ok PROVE Node.op = "sum" /\ Top.acc + term.val \notin Range128
      OBVIOUS
    <3>1. Node.op = "sum"
      BY <1>12 DEF Ok
    <3>2. acc = Checked(Top.acc + term.val)
      BY <3>1 DEF TryAdd
    <3> HIDE DEF acc
    <3> QED BY <1>12, <3>1, <3>2 DEF Checked, Ok
  <2>2. acc = IF term.ok THEN Err("Overflow") ELSE term
    <3>1. term.ok => acc = Checked(Top.acc + term.val)
      BY <2>1 DEF TryAdd
    <3>2. term.ok => acc = Err("Overflow")
      <4> HIDE DEF acc
      <4> QED BY <2>1, <3>1 DEF Checked
    <3> QED BY <3>2
  <2> HIDE DEF acc
  <2>3. w = IF term.ok THEN Err("Overflow") ELSE term
    BY <1>4, <1>7, <2>1, LoopStops
  <2>4. Return(acc) /\ acc = w /\ Proper(inputs, acc)
    BY <1>8, <1>12, <2>2, <2>3, ProperErr
  <2> QED BY <1>1, <2>4, ResultMeans
<1> QED BY <1>11, <1>12

-----------------------------------------------------------------------------
(* The outputs, and the outcome.                                           *)

OutputResults == [k \in DOMAIN rule.outputs |-> NodeMeanings[rule.outputs[k]][<<>>]]

LEMMA MeaningIs ==
  Meaning(rule, inputs)
    = LET all == All(OutputResults)
      IN  IF all.ok THEN As(all.val[IF rule.proves = 0 THEN 1 ELSE rule.proves], "scalar") ELSE all
BY Zenon DEF Meaning, AndThen, OutputResults, NodeMeanings

(* Nothing is on the stack and nothing on its way: nothing to be meant. *)
LEMMA IdleMeant == ASSUME stack = <<>>, ret = Nothing PROVE CallsMeant /\ ResultMeant
<1>1. Len(stack) = 0 /\ DOMAIN stack = {}
  BY EmptySequence
<1>2. CallsMeant
  BY <1>1 DEF CallsMeant
<1> QED BY <1>2 DEF ResultMeant

LEMMA SameMeant ==
  ASSUME CallsMeant, ResultMeant, UNCHANGED <<rule, inputs, outputs, stack, ret>>
  PROVE  CallsMeant' /\ ResultMeant'
<1>1. CallsMeant'
  BY DEF CallsMeant
<1>2. ResultMeant'
  BY DEF ResultMeant, Top, Node, Vals
<1> QED BY <1>1, <1>2

LEMMA ValidateMeant == ASSUME Inv, Meant, Validate PROVE Meant'
<1>1. CallsMeant' /\ ResultMeant'
  BY SameMeant DEF Meant, Validate
<1>2. OutcomeIsTheMeaning'
  <2>1. phase' = "evaluating" \/ outcome' = Err("Invalid")
    BY DEF Validate
  <2> QED BY <2>1 DEF OutcomeIsTheMeaning
<1>3. OutputsMeant'
  BY <1>2 DEF Meant, OutputsMeant, Validate
<1> QED BY <1>1, <1>3 DEF Meant

LEMMA StartMeant == ASSUME Inv, Meant, StartOutput PROVE Meant'
<1> DEFINE i == rule.outputs[Len(outputs) + 1]
<1>1. stack = <<>> /\ Call(i) /\ Rest
  BY DEF StartOutput
<1>2. Accepted /\ CallsOk /\ CallsMeant /\ OutputsMeant
  BY DEF Inv, Meant
<1>3. UNCHANGED <<rule, inputs, outputs>>
  BY <1>1 DEF Rest
<1>4. i = rule.outputs[Len(outputs) + 1]
  OBVIOUS
<1> HIDE DEF i
<1>5. CallsMeant' /\ ResultMeant'
  BY <1>1, <1>2, <1>3, <1>4, CallMeans
<1> QED BY <1>1, <1>2, <1>5, RestMeans

LEMMA FinishMeant == ASSUME Inv, Meant, FinishOutput PROVE Meant'
<1> DEFINE n == Len(outputs)
<1>1. /\ phase = "evaluating" /\ stack = <<>> /\ ret # Nothing /\ ret' = Nothing
      /\ UNCHANGED <<rule, inputs, stack, elements>>
  BY DEF FinishOutput
<1>2. Accepted /\ OutputsOk /\ ResultMeant /\ OutputsMeant
  BY DEF Inv, Meant
<1>3. CallsMeant' /\ ResultMeant'
  <2>1. stack' = <<>> /\ ret' = Nothing
    BY <1>1
  <2>2. ASSUME NEW s, s = <<>> PROVE Len(s) = 0 /\ DOMAIN s = {}
    BY <2>2, EmptySequence
  <2>3. Len(stack') = 0 /\ DOMAIN stack' = {}
    BY <2>1, <2>2
  <2>4. CallsMeant'
    BY <2>1, <2>3 DEF CallsMeant
  <2> QED BY <2>1, <2>4 DEF ResultMeant
<1>4. n \in Nat /\ DOMAIN outputs = 1 .. n /\ n < Len(rule.outputs)
      /\ DOMAIN rule.outputs = 1 .. Len(rule.outputs) /\ Len(rule.outputs) \in Nat
  BY <1>1, <1>2, SequenceType, RuleOutputs DEF OutputsOk
<1>5. \A k \in 1 .. n : NodeMeanings[rule.outputs[k]][<<>>] = Ok(outputs[k])
  BY <1>2, <1>4 DEF OutputsMeant, NodeMeanings
<1>6. NodeMeanings[rule.outputs[n + 1]][<<>>] = ret /\ (ret.ok => ret = Ok(ret.val))
  BY <1>1, <1>2 DEF ResultMeant, NodeMeanings
<1>7. CASE ret.ok
  <2>1. outputs' = Append(outputs, ret.val) /\ phase' = phase
    BY <1>7 DEF FinishOutput
  <2>2. /\ Len(outputs') = n + 1 /\ outputs'[n + 1] = ret.val /\ IsSequence(outputs')
        /\ \A k \in 1 .. n : outputs'[k] = outputs[k]
    BY <1>2, <2>1, Appended DEF OutputsOk
  <2>3. DOMAIN outputs' = 1 .. n + 1
    BY <2>2, SequenceType
  <2>4. \A k \in 1 .. n + 1 : k = n + 1 \/ k \in 1 .. n
    BY <1>4
  <2>5. NodeMeanings' = NodeMeanings /\ rule' = rule
    BY <1>1 DEF NodeMeanings
  <2> HIDE DEF n
  <2>6. \A k \in DOMAIN outputs' : NodeMeanings[rule.outputs[k]][<<>>] = Ok(outputs'[k])
    BY <1>5, <1>6, <1>7, <2>2, <2>3, <2>4
  <2>7. \A k \in DOMAIN outputs' : Meanings(rule', inputs')[rule'.outputs[k]][<<>>] = Ok(outputs'[k])
    BY <2>5, <2>6 DEF NodeMeanings
  <2>8. OutcomeIsTheMeaning'
    BY <1>1, <2>1 DEF OutcomeIsTheMeaning
  <2> QED BY <1>3, <2>7, <2>8 DEF Meant, OutputsMeant
<1>8. CASE ~ret.ok
  <2>1. outputs' = outputs /\ outcome' = ret
    BY <1>8 DEF FinishOutput
  <2> DEFINE results == OutputResults
             size == Len(rule.outputs)
             k == n + 1
  <2>2. size \in Nat /\ DOMAIN results = 1 .. size /\ k \in 1 .. size
    BY <1>4 DEF OutputResults
  <2>3. results[k] = ret
    BY <1>4, <1>6, <2>2 DEF OutputResults
  <2>4. \A j \in 1 .. k - 1 : results[j].ok
    <3> SUFFICES ASSUME NEW j \in 1 .. k - 1 PROVE results[j].ok
      OBVIOUS
    <3>1. j \in 1 .. n /\ j \in DOMAIN rule.outputs
      BY <1>4
    <3>2. results[j] = Ok(outputs[j])
      BY <1>5, <3>1 DEF OutputResults
    <3> QED BY <3>2 DEF Ok
  <2> HIDE DEF results, size, k
  <2>5. All(results) = ret
    <3>1. ~results[k].ok
      BY <1>8, <2>3
    <3>2. All(results) = results[k]
      BY <2>2, <2>4, <3>1, AllBad
    <3> QED BY <2>3, <3>2
  <2>6. Meaning(rule, inputs) = ret
    BY <1>8, <2>5, MeaningIs DEF results
  <2>7. OutcomeIsTheMeaning'
    BY <1>1, <2>1, <2>6 DEF OutcomeIsTheMeaning
  <2>8. \A j \in DOMAIN outputs' : Meanings(rule', inputs')[rule'.outputs[j]][<<>>] = Ok(outputs'[j])
    BY <1>1, <1>2, <2>1 DEF OutputsMeant
  <2> QED BY <1>3, <2>7, <2>8 DEF Meant, OutputsMeant
<1> QED BY <1>7, <1>8

LEMMA ProveMeant == ASSUME Inv, Meant, Prove PROVE Meant'
<1> DEFINE k == IF rule.proves = 0 THEN 1 ELSE rule.proves
<1>1. /\ Len(outputs) = Len(rule.outputs) /\ outcome' = As(outputs[k], "scalar")
      /\ UNCHANGED <<rule, inputs, outputs, stack, elements, ret>>
  BY DEF Prove
<1>2. Accepted /\ OutputsOk /\ CallsMeant /\ ResultMeant /\ OutputsMeant
  BY DEF Inv, Meant
<1>3. CallsMeant' /\ ResultMeant'
  BY <1>1, <1>2, SameMeant
<1>4. DOMAIN outputs = DOMAIN rule.outputs /\ IsSequence(outputs)
  BY <1>1, <1>2, SequenceType, RuleOutputs DEF OutputsOk
<1>5. All(OutputResults) = Ok(outputs)
  <2> DEFINE results == OutputResults
  <2>1. outputs = [j \in DOMAIN outputs |-> outputs[j]]
    <3>1. PICK A : outputs \in Seq(A)
      BY <1>4 DEF IsSequence
    <3> QED BY <3>1
  <2>2. DOMAIN results = DOMAIN outputs /\ \A j \in DOMAIN results : results[j] = Ok(outputs[j])
    BY <1>2, <1>4 DEF OutputResults, OutputsMeant, NodeMeanings
  <2> HIDE DEF results
  <2>3. All(results) = Ok(outputs)
    BY <2>1, <2>2, AllGood
  <2> QED BY <2>3 DEF results
<1>6. Meaning(rule, inputs) = As(outputs[k], "scalar")
  BY <1>5, MeaningIs DEF Ok
<1> HIDE DEF k
<1>7. OutcomeIsTheMeaning'
  BY <1>1, <1>6 DEF OutcomeIsTheMeaning
<1>8. OutputsMeant'
  BY <1>1, <1>2, <1>7 DEF OutputsMeant
<1> QED BY <1>3, <1>8 DEF Meant

-----------------------------------------------------------------------------

LEMMA InitMeant == Init => Meant
<1> SUFFICES ASSUME Init PROVE Meant
  OBVIOUS
<1>1. stack = <<>> /\ ret = Nothing /\ outputs = <<>> /\ phase = "loaded"
  BY DEF Init
<1>2. CallsMeant /\ ResultMeant
  BY <1>1, IdleMeant
<1>3. OutputsMeant
  BY <1>1, EmptySequence DEF OutputsMeant, OutcomeIsTheMeaning
<1> QED BY <1>2, <1>3 DEF Meant

LEMMA StepMeant == Inv /\ Meant /\ [Next]_vars => Meant'
<1> SUFFICES ASSUME Inv, Meant, [Next]_vars PROVE Meant'
  OBVIOUS
<1>1. CASE Validate
  BY <1>1, ValidateMeant
<1>2. CASE StartOutput
  BY <1>2, StartMeant
<1>3. CASE FinishOutput
  BY <1>3, FinishMeant
<1>4. CASE Prove
  BY <1>4, ProveMeant
<1>5. CASE EvalLeaf
  BY <1>5, LeafMeant
<1>6. CASE EvalArithmetic
  BY <1>6, ArithmeticMeant
<1>7. CASE EvalComparison
  BY <1>7, ComparisonMeant
<1>8. CASE EvalLogic
  BY <1>8, LogicMeant
<1>9. CASE EvalSelect
  BY <1>9, SelectMeant
<1>10. CASE EvalTable
  BY <1>10, TableMeant
<1>11. CASE EvalLoop
  BY <1>11, LoopMeant
<1>12. CASE LoopTerm
  BY <1>12, LoopTermMeant
<1>13. CASE Receive
  BY <1>13, ReceiveMeant
<1>14. CASE UNCHANGED vars
  <2>1. CallsMeant' /\ ResultMeant'
    BY <1>14, SameMeant DEF Meant, vars
  <2>2. OutputsMeant'
    BY <1>14 DEF Meant, OutputsMeant, OutcomeIsTheMeaning, vars
  <2> QED BY <2>1, <2>2 DEF Meant
<1> QED BY <1>1, <1>2, <1>3, <1>4, <1>5, <1>6, <1>7, <1>8, <1>9, <1>10, <1>11, <1>12, <1>13, <1>14 DEF Next

(***************************************************************************)
(* What a rule computes: for every rule that validate accepts, every       *)
(* invocation and every parameter table, the scalar or the error the       *)
(* interpreter ends with is the meaning of the rule.  Operands go from     *)
(* left to right, what a condition, a junction or a failure leaves out is  *)
(* never evaluated, a field is read in the record of the innermost loop, a *)
(* table in its longest matching row, a sum fails at the first prefix out  *)
(* of range, and the first output that fails is the error of the rule      *)
(* (rule.rs:143-174 and 362-781).                                          *)
(***************************************************************************)
THEOREM EvaluatesTheMeaning == Spec => []OutcomeIsTheMeaning
<1>1. Inv /\ Meant /\ [Next]_vars => (Inv /\ Meant)'
  BY StepInv, StepMeant
<1>2. Init => Inv /\ Meant
  BY InitInv, InitMeant
<1>3. Meant => OutcomeIsTheMeaning
  BY DEF Meant, OutputsMeant
<1> QED BY <1>1, <1>2, <1>3, PTL DEF Spec

-----------------------------------------------------------------------------
(* How a rule ends.                                                        *)

(* A proven output comes after all others, and no valid rule is refused. *)
Finished ==
  /\ phase = "done" /\ outcome.ok => Len(outputs) = Len(rule.outputs)
  /\ ProvesOk(rule) /\ Valid(rule) => outcome # Err("Invalid")

LEMMA RestFinished == ASSUME Finished, Rest PROVE Finished'
BY DEF Finished, Rest

LEMMA StepFinished == Inv /\ Finished /\ [Next]_vars => Finished'
<1> SUFFICES ASSUME Inv, Finished, [Next]_vars PROVE Finished'
  OBVIOUS
<1>1. CASE Validate
  <2>1. rule' = rule
    BY <1>1 DEF Validate
  <2>2. CASE ProvesOk(rule) /\ Valid(rule)
    <3>1. phase' = "evaluating" /\ outcome' = Nothing
      BY <1>1, <2>2 DEF Validate
    <3> QED BY <3>1 DEF Finished, Nothing, Err
  <2>3. CASE ~(ProvesOk(rule) /\ Valid(rule))
    <3>1. outcome' = Err("Invalid")
      BY <1>1, <2>3 DEF Validate
    <3>2. ~(ProvesOk(rule') /\ Valid(rule'))
      BY <2>1, <2>3
    <3> QED BY <3>1, <3>2 DEF Finished, Err
  <2> QED BY <2>2, <2>3
<1>2. CASE FinishOutput
  <2>1. /\ ret # Nothing /\ rule' = rule
        /\ IF ret.ok THEN outcome' = outcome /\ phase' = phase ELSE outcome' = ret
    BY <1>2 DEF FinishOutput
  <2>2. ~ret.ok => ret.err \in RuleErrors
    BY <2>1 DEF Inv, CallsOk, GoodResult
  <2>3. ~ret.ok => ret # Err("Invalid")
    BY <2>2 DEF Err, RuleErrors
  <2>4. phase = "evaluating"
    BY <1>2 DEF FinishOutput
  <2>5. phase' = "done" /\ outcome'.ok => FALSE
    BY <2>1, <2>4
  <2>6. outcome' = Err("Invalid") => outcome = Err("Invalid")
    BY <2>1, <2>3
  <2> QED BY <2>1, <2>5, <2>6 DEF Finished
<1>3. CASE Prove
  <2>1. Len(outputs) = Len(rule.outputs) /\ rule' = rule /\ outputs' = outputs
    BY <1>3 DEF Prove
  <2>2. \E v : outcome' = As(v, "scalar")
    BY <1>3 DEF Prove
  <2>3. outcome' # Err("Invalid")
    BY <2>2 DEF As, Ok, Err
  <2> QED BY <2>1, <2>3 DEF Finished
<1>4. CASE UNCHANGED vars
  BY <1>4 DEF Finished, vars
<1>5. CASE StartOutput
  BY <1>5, RestFinished DEF StartOutput
<1>6. CASE EvalLeaf
  BY <1>6, RestFinished DEF EvalLeaf
<1>7. CASE EvalArithmetic
  BY <1>7, RestFinished DEF EvalArithmetic
<1>8. CASE EvalComparison
  BY <1>8, RestFinished DEF EvalComparison
<1>9. CASE EvalLogic
  BY <1>9, RestFinished DEF EvalLogic
<1>10. CASE EvalSelect
  BY <1>10, RestFinished DEF EvalSelect
<1>11. CASE EvalTable
  BY <1>11, RestFinished DEF EvalTable
<1>12. CASE EvalLoop
  BY <1>12, RestFinished DEF EvalLoop
<1>13. CASE LoopTerm
  BY <1>13, RestFinished DEF LoopTerm
<1>14. CASE Receive
  BY <1>14, RestFinished DEF Receive
<1> QED BY <1>1, <1>2, <1>3, <1>4, <1>5, <1>6, <1>7, <1>8, <1>9, <1>10, <1>11, <1>12, <1>13, <1>14 DEF Next

(* A rule is valid when its nodes are, since operands come first. *)
LEMMA ShapedIsValid ==
  ASSUME NEW r \in Rules, \A i \in DOMAIN r.nodes : ShapeOk(r.nodes[i])
  PROVE  Valid(r)
<1> DEFINE N == Len(r.nodes)
           bad == {i \in 1 .. N : ~ShapesOk(r)[i]}
<1>1. /\ DOMAIN r.nodes = 1 .. N /\ N \in Nat
      /\ \A k \in DOMAIN r.outputs : r.outputs[k] \in DOMAIN r.nodes
      /\ \A i \in DOMAIN r.nodes : Children(r.nodes[i]) \subseteq 1 .. i - 1
  BY RulesAssumption
<1> HIDE DEF N
<1>2. bad = {}
  <2> SUFFICES ASSUME bad # {} PROVE FALSE
    OBVIOUS
  <2>1. bad \in SUBSET Nat
    BY <1>1
  <2>2. PICK i \in bad : \A j \in bad : i <= j
    BY <2>1, LeastNatural
  <2>3. i \in 1 .. N /\ ~ShapesOk(r)[i]
    OBVIOUS
  <2>4. ASSUME NEW c \in Children(r.nodes[i]) PROVE ShapesOk(r)[c]
    <3>1. c \in 1 .. i - 1
      BY <1>1, <2>3
    <3>2. c \in 1 .. N /\ ~(i <= c)
      BY <1>1, <2>3, <3>1
    <3> QED BY <2>2, <3>2
  <2>5. ShapesOk(r)[i] = (ShapeOk(r.nodes[i]) /\ \A c \in Children(r.nodes[i]) : ShapesOk(r)[c])
    BY <1>1, <2>3, ShapesOkIs
  <2> QED BY <1>1, <2>3, <2>4, <2>5
<1> QED BY <1>1, <1>2 DEF Valid

-----------------------------------------------------------------------------
(* Scalars that nodes compute.                                             *)

IsNumber(q) == (\E x \in Range128 : q = Ok(x)) \/ (\E e : q = Err(e))

(* An operation on two numbers, or the error of the first that failed. *)
Combined(op, p, q) == IF ~p.ok THEN p ELSE IF ~q.ok THEN q ELSE Arithmetic(op, p.val, q.val)

RouteOps == {"add", "mul", "div"}

LEMMA RouteArithmetic ==
  ASSUME NEW x, NEW y
  PROVE  /\ Arithmetic("add", x, y) = TryAdd(x, y)
         /\ Arithmetic("mul", x, y) = TryMul(x, y)
         /\ Arithmetic("div", x, y) = TryDiv(x, y)
BY DEF Arithmetic

LEMMA OperationIsNumber ==
  ASSUME NEW x \in Range128, NEW y \in Range128
  PROVE  IsNumber(TryAdd(x, y)) /\ IsNumber(TryMul(x, y)) /\ IsNumber(TryDiv(x, y))
<1>1. IsNumber(TryAdd(x, y))
  BY DEF IsNumber, TryAdd, Checked
<1>2. IsNumber(TryMul(x, y))
  BY TryMulResult DEF IsNumber
<1>3. IsNumber(TryDiv(x, y))
  BY TryDivResult DEF IsNumber
<1> QED BY <1>1, <1>2, <1>3

LEMMA CombinedIsNumber ==
  ASSUME NEW op \in RouteOps, NEW p, IsNumber(p), NEW q, IsNumber(q)
  PROVE  IsNumber(Combined(op, p, q))
<1>1. CASE p.ok /\ q.ok
  <2>1. p.val \in Range128 /\ q.val \in Range128
    BY <1>1 DEF IsNumber, Ok, Err
  <2> QED BY <1>1, <2>1, OperationIsNumber, RouteArithmetic DEF Combined, RouteOps
<1>2. CASE ~(p.ok /\ q.ok)
  BY <1>2 DEF Combined
<1> QED BY <1>1, <1>2

LEMMA TakeScalar ==
  ASSUME NEW q, IsNumber(q)
  PROVE  Take(AsScalar(q), "scalar") = q
<1>1. CASE q.ok
  <2>1. q = Ok(q.val)
    BY <1>1 DEF IsNumber, Ok, Err
  <2>2. AsScalar(q) = Ok(Scalar(q.val))
    BY <1>1 DEF AsScalar, AndThen
  <2>3. Is(Scalar(q.val), "scalar") /\ Scalar(q.val)["scalar"] = q.val
    BY DEF Is, Scalar
  <2>4. Take(AsScalar(q), "scalar") = Ok(Scalar(q.val)["scalar"])
    BY <2>2, <2>3, Taken
  <2> QED BY <2>1, <2>3, <2>4
<1>2. CASE ~q.ok
  BY <1>2 DEF Take, AsScalar, AndThen
<1> QED BY <1>1, <1>2

(* What node i of a rule is worth in a scope, as a number. *)
Worth(r, in, scope, i) == Take(Meanings(r, in)[i][scope], "scalar")

LEMMA InputWorth ==
  ASSUME NEW r \in Rules, NEW in \in Invocations(r), NEW scope \in Scopes(in), NEW i \in DOMAIN r.nodes,
         NEW name \in DOMAIN in, Is(in[name], "scalar"), r.nodes[i] = InputNode(name), ShapeOk(r.nodes[i])
  PROVE  Worth(r, in, scope, i) = Ok(Number(in, name)) /\ Number(in, name) \in Range128
<1> DEFINE node == r.nodes[i]
<1>1. node.op = "input" /\ node.name = name /\ IsNode(node)
  BY RulesAssumption DEF InputNode
<1>2. Meanings(r, in)[i][scope] = Means(node, scope, in, Meanings(r, in))
  BY <1>1, NodeMeaning
<1> HIDE DEF node
<1>3. Means(node, scope, in, Meanings(r, in)) = Ok(in[name])
  BY <1>1, LeafMeans DEF node
<1>4. Worth(r, in, scope, i) = Ok(in[name]["scalar"])
  BY <1>2, <1>3, Taken DEF Worth
<1>5. in[name].scalar \in Range128
  BY InputsAssumption, Variants
<1> QED BY <1>4, <1>5 DEF Number

LEMMA ConstMeans ==
  ASSUME NEW r \in Rules, NEW in, NEW scope \in Scopes(in), NEW i \in DOMAIN r.nodes,
         NEW v, r.nodes[i] = ConstNode(v), ShapeOk(r.nodes[i])
  PROVE  Meanings(r, in)[i][scope] = Ok(v)
<1> DEFINE node == r.nodes[i]
<1>1. node.op = "const" /\ node.literals = <<v>> /\ IsNode(node)
  BY RulesAssumption DEF ConstNode
<1>2. Meanings(r, in)[i][scope] = Means(node, scope, in, Meanings(r, in))
  BY <1>1, NodeMeaning
<1>3. node.op \notin LoopOps \cup {"table"}
  BY <1>1 DEF LoopOps
<1> HIDE DEF node
<1>4. Means(node, scope, in, Meanings(r, in)) = Ok(node.literals[1])
  BY <1>1, <1>3, OperationMeans, Operations
<1> QED BY <1>1, <1>2, <1>4

LEMMA PairWorth ==
  ASSUME NEW r \in Rules, NEW in, NEW scope \in Scopes(in), NEW i \in DOMAIN r.nodes,
         NEW op \in RouteOps, NEW a, NEW b, r.nodes[i] = OpNode(op, <<a, b>>),
         NEW p, IsNumber(p), Worth(r, in, scope, a) = p,
         NEW q, IsNumber(q), Worth(r, in, scope, b) = q
  PROVE  /\ Meanings(r, in)[i][scope] = AsScalar(Combined(op, p, q))
         /\ Worth(r, in, scope, i) = Combined(op, p, q)
         /\ IsNumber(Combined(op, p, q))
<1> DEFINE node == r.nodes[i]
           m == Meanings(r, in)
           results == ResultsOf(m, node, scope)
           x == All(TakeEach(results, "scalar"))
<1>1. node.op = op /\ node.args = <<a, b>> /\ op \in ScalarPairOps /\ op \notin LoopOps \cup {"table"} /\ IsNode(node)
  BY RulesAssumption DEF OpNode, RouteOps, ScalarPairOps, LoopOps
<1>2. m[i][scope] = Means(node, scope, in, m)
  BY <1>1, NodeMeaning
<1> HIDE DEF node, m
<1>3. Means(node, scope, in, m) = OperationResult(node, results, scope, in)
      /\ DOMAIN results = 1 .. 2
  BY <1>1, OperationMeans
<1>4. results[1] = m[a][scope] /\ results[2] = m[b][scope]
  BY <1>1 DEF ResultsOf
<1> HIDE DEF results
<1> DEFINE taken == TakeEach(results, "scalar")
<1>5. DOMAIN taken = 1 .. 2 /\ taken[1] = p /\ taken[2] = q
  BY <1>3, <1>4 DEF TakeEach, Worth, m
<1> HIDE DEF taken
<1>6. OperationResult(node, results, scope, in)
        = IF All(taken).ok THEN AsScalar(Arithmetic(op, All(taken).val[1], All(taken).val[2])) ELSE All(taken)
  BY <1>1, Operations DEF taken
<1>7. CASE p.ok /\ q.ok
  <2> DEFINE vals == [k \in 1 .. 2 |-> taken[k].val]
  <2>1. p = Ok(p.val) /\ q = Ok(q.val)
    BY <1>7 DEF IsNumber, Ok, Err
  <2>2. \A k \in DOMAIN taken : taken[k] = Ok(vals[k])
    BY <1>5, <2>1
  <2>3. DOMAIN vals = DOMAIN taken /\ vals = [k \in DOMAIN vals |-> vals[k]] /\ vals[1] = p.val /\ vals[2] = q.val
    BY <1>5
  <2> HIDE DEF vals
  <2>4. All(taken) = Ok(vals)
    BY <2>2, <2>3, AllGood
  <2>5. All(taken).ok /\ All(taken).val = vals
    BY <2>4 DEF Ok
  <2>6. Combined(op, p, q) = Arithmetic(op, p.val, q.val)
    BY <1>7 DEF Combined
  <2>7. m[i][scope] = AsScalar(Combined(op, p, q))
    BY <1>2, <1>3, <1>6, <2>3, <2>5, <2>6
  <2> QED BY <2>7, CombinedIsNumber, TakeScalar DEF Worth, m
<1>8. CASE ~p.ok
  <2>1. All(taken) = p
    <3>1. 1 \in 1 .. 2 /\ 2 \in Nat /\ \A j \in 1 .. 1 - 1 : taken[j].ok
      OBVIOUS
    <3>2. All(taken) = taken[1]
      BY <1>5, <1>8, <3>1, AllBad
    <3> QED BY <1>5, <3>2
  <2>2. AsScalar(p) = p /\ Combined(op, p, q) = p
    BY <1>8 DEF AsScalar, AndThen, Combined
  <2> QED BY <1>2, <1>3, <1>6, <1>8, <2>1, <2>2, TakeScalar DEF Worth, m
<1>9. CASE p.ok /\ ~q.ok
  <2>1. All(taken) = q
    <3>1. 2 \in 1 .. 2 /\ 2 \in Nat /\ \A j \in 1 .. 2 - 1 : taken[j].ok
      BY <1>5, <1>9
    <3>2. All(taken) = taken[2]
      BY <1>5, <1>9, <3>1, AllBad
    <3> QED BY <1>5, <3>2
  <2>2. AsScalar(q) = q /\ Combined(op, p, q) = q
    BY <1>9 DEF AsScalar, AndThen, Combined
  <2> QED BY <1>2, <1>3, <1>6, <1>9, <2>1, <2>2, TakeScalar DEF Worth, m
<1> QED BY <1>7, <1>8, <1>9

-----------------------------------------------------------------------------
(* The warming potentials.                                                 *)

LEMMA MinimumIn ==
  ASSUME NEW S \in SUBSET Nat, S # {}
  PROVE  Min(S) \in S
<1>1. PICK k \in S : \A j \in S : k <= j
  BY LeastNatural
<1> QED BY <1>1, MinimumIs

(* One predicate: its score is the row's. *)
LEMMA MatchOne ==
  ASSUME NEW row, NEW predicates, Len(predicates) = 1, Score(row, predicates[1]) \in {0, -1}
  PROVE  MatchRow(row, predicates) = Score(row, predicates[1])
<1> DEFINE s == Score(row, predicates[1])
           Value(g, n) == IF n = 0 THEN 0
                          ELSE IF g[n - 1] = NoScore \/ Score(row, predicates[n]) = NoScore THEN NoScore
                          ELSE g[n - 1] + Score(row, predicates[n])
           W == CHOOSE h : h = [n \in 0 .. Len(predicates) |-> Value(h, n)]
           g == [n \in 0 .. 1 |-> IF n = 0 THEN 0 ELSE s]
<1>1. MatchRow(row, predicates) = W[Len(predicates)]
  BY DEF MatchRow
<1>2. ASSUME NEW n \in 0 .. 1 PROVE g[n] = Value(g, n)
  <2>1. n = 0 \/ n = 1
    OBVIOUS
  <2>2. g[0] = 0 /\ g[1] = s /\ NoScore = -1
    BY DEF NoScore
  <2> HIDE DEF g
  <2> QED BY <2>1, <2>2
<1>3. g = [n \in 0 .. 1 |-> Value(g, n)]
  BY <1>2
<1> HIDE DEF g
<1>4. W = [n \in 0 .. 1 |-> Value(W, n)]
  BY <1>3
<1> HIDE DEF W
<1>5. W[0] = 0
  BY <1>4
<1>6. W[1] = IF W[0] = NoScore \/ s = NoScore THEN NoScore ELSE W[0] + s
  BY <1>4
<1> QED BY <1>1, <1>5, <1>6 DEF NoScore

GwpRows == TableFiles["gwp"].val

LEMMA GwpTable ==
  /\ "gwp" \in DOMAIN TableFiles /\ TableFiles["gwp"].ok
  /\ DOMAIN GwpRows = 1 .. Len(GwpRows) /\ Len(GwpRows) \in Nat
  /\ \A k \in DOMAIN GwpRows : GwpRows[k] = GwpRow(GwpRows[k].substance.text, GwpRows[k].gwp100.text)
BY GwpAssumption, TablesAssumption DEF GwpRows, IsTable

(* The row of a substance, as both sides look for it. *)
LEMMA GwpMatch ==
  ASSUME NEW substance, NEW predicates, Len(predicates) = 1,
         predicates[1] = [column |-> "substance", value |-> substance, prefix |-> FALSE],
         \E k \in DOMAIN GwpRows : GwpRows[k].substance.text = substance
  PROVE  LET places == {j \in DOMAIN GwpRows : GwpRows[j].substance = Text(substance)}
         IN  LongestMatch(GwpRows, predicates) = Min(places) /\ Min(places) \in DOMAIN GwpRows /\ Min(places) # 0
<1> DEFINE rows == GwpRows
           places == {j \in DOMAIN rows : rows[j].substance = Text(substance)}
           best == {k \in DOMAIN rows : /\ MatchRow(rows[k], predicates) # NoScore
                                        /\ \A j \in DOMAIN rows : MatchRow(rows[j], predicates) <= MatchRow(rows[k], predicates)}
<1>1. DOMAIN rows = 1 .. Len(rows) /\ Len(rows) \in Nat
      /\ \A k \in DOMAIN rows : rows[k] = GwpRow(rows[k].substance.text, rows[k].gwp100.text)
  BY GwpTable
<1> HIDE DEF rows
<1>2. ASSUME NEW k \in DOMAIN rows
      PROVE  /\ rows[k].substance = Text(substance) => MatchRow(rows[k], predicates) = 0
             /\ rows[k].substance # Text(substance) => MatchRow(rows[k], predicates) = -1
  <2> DEFINE row == rows[k]
             name == row.substance.text
  <2>1. row = [substance |-> Text(name), gwp100 |-> Text(row.gwp100.text)]
    BY <1>1 DEF GwpRow
  <2> HIDE DEF row
  <2>2. "substance" \in DOMAIN row /\ row["substance"] = Text(name)
    BY <2>1
  <2> HIDE DEF name
  <2>3. Is(row["substance"], "text") /\ row["substance"].text = name
    BY <2>2 DEF Is, Text
  <2>4. Score(row, predicates[1]) = IF name = substance THEN 0 ELSE -1
    BY <2>2, <2>3 DEF Score, MatchPredicate, NoScore
  <2>5. MatchRow(row, predicates) = IF name = substance THEN 0 ELSE -1
    BY <2>4, MatchOne
  <2>6. row.substance = Text(substance) <=> name = substance
    BY <2>2 DEF Text
  <2> QED BY <2>5, <2>6 DEF row
<1>3. \E k \in DOMAIN rows : rows[k].substance = Text(substance)
  <2>1. PICK k \in DOMAIN rows : rows[k].substance.text = substance
    BY DEF rows
  <2>2. rows[k].substance = Text(rows[k].substance.text)
    BY <1>1 DEF GwpRow
  <2> QED BY <2>1, <2>2
<1>4. best = places
  BY <1>2, <1>3 DEF NoScore
<1>5. places # {} /\ places \in SUBSET Nat /\ 0 \notin places
  BY <1>1, <1>3
<1>6. Min(places) \in places
  BY <1>5, MinimumIn
<1>7. LongestMatch(rows, predicates) = IF best = {} THEN 0 ELSE Min(best)
  BY DEF LongestMatch
<1> HIDE DEF best
<1>8. LongestMatch(rows, predicates) = Min(places)
  BY <1>4, <1>5, <1>7
<1> QED BY <1>5, <1>6, <1>8 DEF rows

LEMMA GwpWorth ==
  ASSUME NEW r \in Rules, NEW in, NEW scope \in Scopes(in), NEW i \in DOMAIN r.nodes,
         NEW c, r.nodes[i] = GwpNode(c), NEW substance \in {CF4, C2F6},
         Meanings(r, in)[c][scope] = Ok(Text(substance))
  PROVE  /\ Worth(r, in, scope, i) = GwpValue(substance)
         /\ GwpValue(substance).ok /\ IsNumber(GwpValue(substance))
<1> DEFINE node == r.nodes[i]
           m == Meanings(r, in)
           match == node.matches[1]
           compared == [k \in DOMAIN node.matches |-> m[Compared(node.matches[k])][scope]]
           taken == TakeEach(compared, "text")
           texts == [k \in 1 .. 1 |-> substance]
           bound == [k \in DOMAIN texts |->
                       [column |-> node.matches[k].column, value |-> texts[k],
                        prefix |-> "prefixOf" \in DOMAIN node.matches[k].by]]
           places == {j \in DOMAIN GwpRows : GwpRows[j].substance = Text(substance)}
           row == GwpRows[Min(places)]
<1>1. /\ node.op = "table" /\ node.table = "gwp" /\ node.column = "gwp100" /\ node.cell = "scalar"
      /\ node.matches = <<[column |-> "substance", by |-> [kind \in {"equals"} |-> c]]>>
  BY DEF GwpNode
<1> HIDE DEF node
<1>2. /\ DOMAIN node.matches = 1 .. 1
      /\ node.matches[1] = [column |-> "substance", by |-> [kind \in {"equals"} |-> c]]
  BY <1>1
<1>3. match.column = "substance" /\ match.by = [kind \in {"equals"} |-> c]
  BY <1>2
<1>4. DOMAIN match.by = {"equals"} /\ match.by["equals"] = c
  BY <1>3
<1>5. Compared(match) = c
  BY <1>4 DEF Compared
<1>6. m[i][scope] = Means(node, scope, in, m)
  <2>1. node.op = "table" => \A k \in DOMAIN node.matches : DOMAIN node.matches[k].by # {}
    BY <1>2, <1>4
  <2> QED BY <2>1, NodeMeaning DEF node
<1> HIDE DEF m
<1>7. Means(node, scope, in, m) = TableResult(node, compared)
  BY <1>1, Zenon DEF Means
<1>8. DOMAIN compared = 1 .. 1 /\ compared[1] = Ok(Text(substance))
  BY <1>2, <1>5 DEF m
<1> HIDE DEF compared
<1>9. All(taken) = Ok(texts)
  <2>1. DOMAIN taken = 1 .. 1 /\ taken[1] = Take(Ok(Text(substance)), "text")
    BY <1>8 DEF TakeEach
  <2>2. Take(Ok(Text(substance)), "text") = Ok(substance)
    <3>1. Is(Text(substance), "text") /\ Text(substance)["text"] = substance
      BY DEF Is, Text
    <3>2. Take(Ok(Text(substance)), "text") = Ok(Text(substance)["text"])
      BY <3>1, Taken
    <3> QED BY <3>1, <3>2
  <2> HIDE DEF taken
  <2>3. DOMAIN texts = DOMAIN taken /\ texts = [k \in DOMAIN texts |-> texts[k]]
        /\ \A k \in DOMAIN taken : taken[k] = Ok(texts[k])
    BY <2>1, <2>2
  <2> HIDE DEF texts
  <2> QED BY <2>3, AllGood
<1>10. TableResult(node, compared) = TableCell(node, GwpRows, texts)
  <2>1. TableResult(node, compared) = IF All(taken).ok THEN TableCell(node, GwpRows, All(taken).val) ELSE All(taken)
    BY <1>1, GwpTable, Zenon DEF TableResult, AndThen, GwpRows
  <2> HIDE DEF taken, texts
  <2> QED BY <1>9, <2>1 DEF Ok
<1>11. /\ Len(bound) = 1
       /\ bound[1] = [column |-> "substance", value |-> substance, prefix |-> FALSE]
  <2>1. DOMAIN texts = 1 .. 1 /\ texts[1] = substance
    OBVIOUS
  <2> HIDE DEF texts
  <2>2. DOMAIN bound = 1 .. 1 /\ Len(bound) = 1
    BY <2>1
  <2>3. bound[1] = [column |-> match.column, value |-> texts[1], prefix |-> "prefixOf" \in DOMAIN match.by]
    BY <2>1
  <2>4. ("prefixOf" \in DOMAIN match.by) = FALSE
    BY <1>4
  <2> HIDE DEF bound
  <2> QED BY <1>3, <2>1, <2>2, <2>3, <2>4
<1>12. TableCell(node, GwpRows, texts)
         = IF LongestMatch(GwpRows, bound) = 0 THEN Err("MissingRow")
           ELSE ReadCell(GwpRows[LongestMatch(GwpRows, bound)], node.column, node.cell)
  BY Zenon DEF TableCell
<1>13. /\ LongestMatch(GwpRows, bound) = Min(places) /\ Min(places) \in DOMAIN GwpRows /\ Min(places) # 0
  <2>1. \E k \in DOMAIN GwpRows : GwpRows[k].substance.text = substance
    BY GwpAssumption DEF GwpRows
  <2> HIDE DEF bound
  <2> QED BY <1>11, <2>1, GwpMatch
<1> HIDE DEF bound, texts
<1>14. m[i][scope] = ReadCell(row, "gwp100", "scalar")
  BY <1>1, <1>6, <1>7, <1>10, <1>12, <1>13
<1> DEFINE number == ParseWhole(row.gwp100.text)
<1>15. GwpValue(substance) = number /\ number.ok
  <2>1. GwpValue(substance) = number
    BY DEF GwpValue, GwpRows
  <2> QED BY <2>1, GwpAssumption
<1>16. IsNumber(number)
  BY DEF ParseWhole, IsNumber, Checked
<1>17. ReadCell(row, "gwp100", "scalar") = Ok(Scalar(number.val))
  <2>1. row = GwpRow(row.substance.text, row.gwp100.text)
    BY <1>13, GwpTable
  <2> HIDE DEF row
  <2>2. "gwp100" \in DOMAIN row /\ row["gwp100"] = Text(row.gwp100.text)
    BY <2>1 DEF GwpRow
  <2>3. Is(row["gwp100"], "text")
    BY <2>2 DEF Is, Text
  <2> QED BY <1>15, <2>2, <2>3 DEF ReadCell
<1> HIDE DEF number
<1>18. number = Ok(number.val) /\ AsScalar(number) = Ok(Scalar(number.val))
  BY <1>15, <1>16 DEF IsNumber, Ok, Err, AsScalar, AndThen
<1>19. Worth(r, in, scope, i) = number
  BY <1>14, <1>16, <1>17, <1>18, TakeScalar DEF Worth, m
<1> QED BY <1>15, <1>16, <1>19

-----------------------------------------------------------------------------
(* The routes as programs.                                                 *)

IsJoined(u, s, t) ==
  /\ Len(u) = Len(s) + Len(t)
  /\ \A k \in 1 .. Len(s) : u[k] = s[k]
  /\ \A k \in 1 .. Len(t) : u[Len(s) + k] = t[k]

LEMMA Joined ==
  ASSUME NEW s, IsSequence(s), NEW t, IsSequence(t)
  PROVE  IsJoined(s \o t, s, t)
<1>1. PICK A, B : s \in Seq(A) /\ t \in Seq(B)
  BY DEF IsSequence
<1>2. s \in Seq(A \cup B) /\ t \in Seq(A \cup B)
  BY <1>1, SeqMonotonic
<1> QED BY <1>2, ConcatProperties DEF IsJoined

LEMMA RouteShapes ==
  /\ \A name : ShapeOk(InputNode(name)) /\ ShapeOk(FieldNode(name))
  /\ \A x : ShapeOk(ConstNode(Scalar(x))) /\ ShapeOk(ConstNode(Text(x)))
  /\ \A op \in RouteOps \cup {"eq"} : \A a, b : ShapeOk(OpNode(op, <<a, b>>))
  /\ \A a, b, c : ShapeOk(OpNode("select", <<a, b, c>>)) /\ ShapeOk(OpNode("sum", <<a, b>>))
  /\ \A c : ShapeOk(GwpNode(c))
<1>1. \A name : ShapeOk(InputNode(name)) /\ ShapeOk(FieldNode(name))
  BY DEF ShapeOk, InputNode, FieldNode, PairOps, ScalarPairOps, OrderOps, UnaryOps
<1>2. \A x : ShapeOk(ConstNode(Scalar(x))) /\ ShapeOk(ConstNode(Text(x)))
  <2> SUFFICES ASSUME NEW v, ~Is(v, "malformed") PROVE ShapeOk(ConstNode(v))
    BY DEF Is, Scalar, Text
  <2>1. Len(<<v>>) = 1 /\ <<v>>[1] = v
    OBVIOUS
  <2> QED BY <2>1 DEF ShapeOk, ConstNode, PairOps, ScalarPairOps, OrderOps, UnaryOps
<1>3. \A op \in RouteOps \cup {"eq"} : \A a, b : ShapeOk(OpNode(op, <<a, b>>))
  <2> SUFFICES ASSUME NEW op \in RouteOps \cup {"eq"}, NEW a, NEW b PROVE ShapeOk(OpNode(op, <<a, b>>))
    OBVIOUS
  <2>1. op \in PairOps /\ op \notin UnaryOps \cup {"not", "and", "or", "const", "table"} /\ Len(<<a, b>>) = 2
    BY DEF RouteOps, PairOps, ScalarPairOps, UnaryOps
  <2> QED BY <2>1, Zenon DEF ShapeOk, OpNode
<1>4. \A a, b, c : ShapeOk(OpNode("select", <<a, b, c>>)) /\ ShapeOk(OpNode("sum", <<a, b>>))
  BY DEF ShapeOk, OpNode, PairOps, ScalarPairOps, OrderOps, UnaryOps
<1>5. ASSUME NEW c PROVE ShapeOk(GwpNode(c))
  <2> DEFINE matches == <<[column |-> "substance", by |-> [kind \in {"equals"} |-> c]]>>
  <2>1. matches # <<>> /\ DOMAIN matches = {1} /\ DOMAIN matches[1].by = {"equals"}
    OBVIOUS
  <2>2. Cardinality({"equals"}) = 1
    BY FS_Singleton
  <2>3. matches # <<>> /\ \A k \in DOMAIN matches : Cardinality(DOMAIN matches[k].by) = 1
    BY <2>1, <2>2
  <2> HIDE DEF matches
  <2>4. GwpNode(c).op = "table" /\ GwpNode(c).matches = matches
    BY DEF GwpNode, matches
  <2>5. "table" \notin PairOps \cup UnaryOps \cup {"not", "and", "or", "const"}
    BY DEF PairOps, ScalarPairOps, OrderOps, UnaryOps
  <2> QED BY <2>3, <2>4, <2>5, Zenon DEF ShapeOk
<1> QED BY <1>1, <1>2, <1>3, <1>4, <1>5

(* The thirteen nodes of the gases, after the n of CF4. *)
IsGases(nodes, n) ==
  /\ nodes[n + 1] = InputNode("weight_fraction_c2f6_cf4")
  /\ nodes[n + 2] = OpNode("mul", <<n, n + 1>>)
  /\ nodes[n + 3] = ConstNode(Text(CF4))
  /\ nodes[n + 4] = GwpNode(n + 3)
  /\ nodes[n + 5] = OpNode("mul", <<n + 4, n>>)
  /\ nodes[n + 6] = ConstNode(Text(C2F6))
  /\ nodes[n + 7] = GwpNode(n + 6)
  /\ nodes[n + 8] = OpNode("mul", <<n + 7, n + 2>>)
  /\ nodes[n + 9] = OpNode("add", <<n + 5, n + 8>>)
  /\ nodes[n + 10] = InputNode("direct_co2_t")
  /\ nodes[n + 11] = OpNode("add", <<n + 10, n + 9>>)
  /\ nodes[n + 12] = InputNode("production_t")
  /\ nodes[n + 13] = OpNode("div", <<n + 11, n + 12>>)

LEMMA PrimaryNodes ==
  ASSUME NEW c, IsSequence(c)
  PROVE  LET n == Len(c)
             r == PrimaryRule(c)
         IN  /\ n \in Nat /\ Len(r.nodes) = n + 13
             /\ \A k \in 1 .. n : r.nodes[k] = c[k]
             /\ IsGases(r.nodes, n)
             /\ r.outputs = <<n + 2, n, n + 9, n + 13>> /\ r.proves = 4
<1> DEFINE n == Len(c)
           tail == <<InputNode("weight_fraction_c2f6_cf4"), OpNode("mul", <<n, n + 1>>),
                     ConstNode(Text(CF4)), GwpNode(n + 3), OpNode("mul", <<n + 4, n>>),
                     ConstNode(Text(C2F6)), GwpNode(n + 6), OpNode("mul", <<n + 7, n + 2>>),
                     OpNode("add", <<n + 5, n + 8>>),
                     InputNode("direct_co2_t"), OpNode("add", <<n + 10, n + 9>>),
                     InputNode("production_t"), OpNode("div", <<n + 11, n + 12>>)>>
           r == PrimaryRule(c)
           nodes == c \o tail
<1>1. r.nodes = nodes /\ r.outputs = <<n + 2, n, n + 9, n + 13>> /\ r.proves = 4
  BY DEF PrimaryRule
<1>2. n \in Nat
  BY SequenceType
<1>3. IsSequence(tail) /\ Len(tail) = 13
  <2>1. \A a1, a2, a3, a4, a5, a6, a7, a8, a9, a10, a11, a12, a13 :
          LET t == <<a1, a2, a3, a4, a5, a6, a7, a8, a9, a10, a11, a12, a13>>
          IN  t \in Seq({a1, a2, a3, a4, a5, a6, a7, a8, a9, a10, a11, a12, a13}) /\ Len(t) = 13
    OBVIOUS
  <2> QED BY <2>1, Zenon DEF IsSequence
<1>4. /\ tail[1] = InputNode("weight_fraction_c2f6_cf4") /\ tail[2] = OpNode("mul", <<n, n + 1>>)
      /\ tail[3] = ConstNode(Text(CF4)) /\ tail[4] = GwpNode(n + 3) /\ tail[5] = OpNode("mul", <<n + 4, n>>)
      /\ tail[6] = ConstNode(Text(C2F6)) /\ tail[7] = GwpNode(n + 6) /\ tail[8] = OpNode("mul", <<n + 7, n + 2>>)
      /\ tail[9] = OpNode("add", <<n + 5, n + 8>>) /\ tail[10] = InputNode("direct_co2_t")
      /\ tail[11] = OpNode("add", <<n + 10, n + 9>>) /\ tail[12] = InputNode("production_t")
      /\ tail[13] = OpNode("div", <<n + 11, n + 12>>)
  OBVIOUS
<1> HIDE DEF tail
<1>5. /\ Len(nodes) = n + 13
      /\ \A k \in 1 .. n : nodes[k] = c[k]
      /\ \A k \in 1 .. 13 : nodes[n + k] = tail[k]
  <2>1. IsJoined(nodes, c, tail)
    BY <1>3, Joined
  <2>2. /\ Len(nodes) = n + Len(tail)
        /\ \A k \in 1 .. n : nodes[k] = c[k]
        /\ \A k \in 1 .. Len(tail) : nodes[n + k] = tail[k]
    BY <2>1, Zenon DEF IsJoined
  <2> HIDE DEF n, nodes
  <2> QED BY <1>3, <2>2
<1> HIDE DEF n, nodes
<1>6. IsGases(nodes, n)
  <2>1. /\ nodes[n + 1] = tail[1] /\ nodes[n + 2] = tail[2] /\ nodes[n + 3] = tail[3] /\ nodes[n + 4] = tail[4]
        /\ nodes[n + 5] = tail[5] /\ nodes[n + 6] = tail[6] /\ nodes[n + 7] = tail[7] /\ nodes[n + 8] = tail[8]
        /\ nodes[n + 9] = tail[9] /\ nodes[n + 10] = tail[10] /\ nodes[n + 11] = tail[11]
        /\ nodes[n + 12] = tail[12] /\ nodes[n + 13] = tail[13]
    BY <1>5
  <2> QED BY <1>4, <2>1, Zenon DEF IsGases
<1> QED BY <1>1, <1>2, <1>5, <1>6 DEF n

LEMMA PrimaryPrefix ==
  ASSUME NEW c, IsSequence(c), NEW r \in Rules, r = PrimaryRule(c)
  PROVE  /\ Len(r.nodes) = Len(c) + 13 /\ DOMAIN r.nodes = 1 .. Len(r.nodes)
         /\ \A k \in 1 .. Len(c) : r.nodes[k] = c[k]
BY PrimaryNodes, RulesAssumption

LEMMA PrimaryValid ==
  ASSUME NEW c, IsSequence(c), \A k \in 1 .. Len(c) : ShapeOk(c[k]), PrimaryRule(c) \in Rules
  PROVE  ProvesOk(PrimaryRule(c)) /\ Valid(PrimaryRule(c))
<1> DEFINE n == Len(c)
           r == PrimaryRule(c)
           nodes == r.nodes
<1>1. /\ n \in Nat /\ Len(nodes) = n + 13 /\ DOMAIN nodes = 1 .. Len(nodes)
      /\ \A k \in 1 .. n : nodes[k] = c[k]
  BY PrimaryNodes, RulesAssumption
<1>2. IsGases(nodes, n) /\ r.outputs = <<n + 2, n, n + 9, n + 13>> /\ r.proves = 4
  BY PrimaryNodes
<1> HIDE DEF n, nodes
<1>3. ASSUME NEW i \in DOMAIN nodes PROVE ShapeOk(nodes[i])
  <2>1. /\ ShapeOk(nodes[n + 1]) /\ ShapeOk(nodes[n + 2]) /\ ShapeOk(nodes[n + 3]) /\ ShapeOk(nodes[n + 4])
        /\ ShapeOk(nodes[n + 5]) /\ ShapeOk(nodes[n + 6]) /\ ShapeOk(nodes[n + 7]) /\ ShapeOk(nodes[n + 8])
        /\ ShapeOk(nodes[n + 9]) /\ ShapeOk(nodes[n + 10]) /\ ShapeOk(nodes[n + 11])
        /\ ShapeOk(nodes[n + 12]) /\ ShapeOk(nodes[n + 13])
    <3>1. {"mul", "add", "div"} \subseteq RouteOps \cup {"eq"}
      BY DEF RouteOps
    <3> QED BY <1>2, <3>1, RouteShapes, Zenon DEF IsGases
  <2>2. i \in 1 .. n \/ i - n \in 1 .. 13
    BY <1>1
  <2>3. i - n \in 1 .. 13 => ShapeOk(nodes[n + (i - n)])
    <3>1. \A k \in 1 .. 13 : ShapeOk(nodes[n + k])
      <4> SUFFICES ASSUME NEW k \in 1 .. 13 PROVE ShapeOk(nodes[n + k])
        OBVIOUS
      <4>1. k = 1 \/ k = 2 \/ k = 3 \/ k = 4 \/ k = 5 \/ k = 6 \/ k = 7 \/ k = 8 \/ k = 9 \/ k = 10 \/ k = 11 \/ k = 12 \/ k = 13
        OBVIOUS
      <4> QED BY <2>1, <4>1
    <3> QED BY <3>1
  <2>4. i \in 1 .. n => ShapeOk(nodes[i])
    BY <1>1 DEF n
  <2>5. n + (i - n) = i
    BY <1>1
  <2> QED BY <2>2, <2>3, <2>4, <2>5
<1>4. Valid(r)
  BY <1>3, ShapedIsValid DEF nodes
<1>5. r.outputs # <<>> /\ r.proves = 4 /\ 4 \in DOMAIN r.outputs
  BY <1>2
<1> QED BY <1>4, <1>5 DEF ProvesOk

-----------------------------------------------------------------------------
(* The gases, from what CF4 is worth.                                      *)

C2f6Worth(i, q) == Combined("mul", q, Ok(Number(i, "weight_fraction_c2f6_cf4")))

PfcWorth(i, q) ==
  Combined("add", Combined("mul", GwpValue(CF4), q), Combined("mul", GwpValue(C2F6), C2f6Worth(i, q)))

SeeWorth(i, q) ==
  Combined("div", Combined("add", Ok(Number(i, "direct_co2_t")), PfcWorth(i, q)), Ok(Number(i, "production_t")))

LEMMA NumberIs ==
  ASSUME NEW r \in Rules, NEW in \in Invocations(r), NEW names, Numbers(in, names), NEW name \in names
  PROVE  /\ name \in DOMAIN in /\ Is(in[name], "scalar") /\ Number(in, name) \in Range128
         /\ IsNumber(Ok(Number(in, name)))
<1>1. name \in DOMAIN in /\ Is(in[name], "scalar")
  BY DEF Numbers
<1>2. in[name].scalar \in Range128
  BY <1>1, InputsAssumption, Variants
<1> QED BY <1>1, <1>2 DEF Number, IsNumber

(* Nodes outside any loop. *)
LEMMA TopNodes ==
  ASSUME NEW r \in Rules, NEW in \in Invocations(r), NEW names, Numbers(in, names)
  PROVE  /\ \A i \in DOMAIN r.nodes, name \in names :
              r.nodes[i] = InputNode(name) =>
                /\ Worth(r, in, <<>>, i) = Ok(Number(in, name)) /\ IsNumber(Worth(r, in, <<>>, i))
         /\ \A i \in DOMAIN r.nodes, x \in Range128 :
              r.nodes[i] = ConstNode(Scalar(x)) =>
                Worth(r, in, <<>>, i) = Ok(x) /\ IsNumber(Worth(r, in, <<>>, i))
         /\ \A i \in DOMAIN r.nodes, op \in RouteOps : \A a, b :
              r.nodes[i] = OpNode(op, <<a, b>>) /\ IsNumber(Worth(r, in, <<>>, a)) /\ IsNumber(Worth(r, in, <<>>, b)) =>
                /\ Meanings(r, in)[i][<<>>] = AsScalar(Worth(r, in, <<>>, i))
                /\ Worth(r, in, <<>>, i) = Combined(op, Worth(r, in, <<>>, a), Worth(r, in, <<>>, b))
                /\ IsNumber(Worth(r, in, <<>>, i))
<1>1. <<>> \in Scopes(in)
  BY DEF Scopes
<1>2. ASSUME NEW i \in DOMAIN r.nodes, NEW name \in names, r.nodes[i] = InputNode(name)
      PROVE  Worth(r, in, <<>>, i) = Ok(Number(in, name)) /\ IsNumber(Worth(r, in, <<>>, i))
  <2>1. name \in DOMAIN in /\ Is(in[name], "scalar") /\ IsNumber(Ok(Number(in, name)))
    BY NumberIs
  <2>2. ShapeOk(r.nodes[i])
    BY <1>2, RouteShapes
  <2>3. Worth(r, in, <<>>, i) = Ok(Number(in, name))
    BY <1>1, <1>2, <2>1, <2>2, InputWorth
  <2> QED BY <2>1, <2>3
<1>3. ASSUME NEW i \in DOMAIN r.nodes, NEW x \in Range128, r.nodes[i] = ConstNode(Scalar(x))
      PROVE  Worth(r, in, <<>>, i) = Ok(x) /\ IsNumber(Worth(r, in, <<>>, i))
  <2>1. ShapeOk(r.nodes[i])
    BY <1>3, RouteShapes
  <2>2. Meanings(r, in)[i][<<>>] = Ok(Scalar(x))
    BY <1>1, <1>3, <2>1, ConstMeans
  <2>3. Is(Scalar(x), "scalar") /\ Scalar(x)["scalar"] = x
    BY DEF Is, Scalar
  <2>4. Worth(r, in, <<>>, i) = Ok(x)
    BY <2>2, <2>3, Taken DEF Worth
  <2> QED BY <2>4 DEF IsNumber
<1>4. ASSUME NEW i \in DOMAIN r.nodes, NEW op \in RouteOps, NEW a, NEW b, r.nodes[i] = OpNode(op, <<a, b>>),
             IsNumber(Worth(r, in, <<>>, a)), IsNumber(Worth(r, in, <<>>, b))
      PROVE  /\ Meanings(r, in)[i][<<>>] = AsScalar(Worth(r, in, <<>>, i))
             /\ Worth(r, in, <<>>, i) = Combined(op, Worth(r, in, <<>>, a), Worth(r, in, <<>>, b))
             /\ IsNumber(Worth(r, in, <<>>, i))
  BY <1>1, <1>4, PairWorth
<1> QED BY <1>2, <1>3, <1>4

LEMMA GwpNumber ==
  ASSUME NEW substance \in {CF4, C2F6}
  PROVE  GwpValue(substance).ok /\ IsNumber(GwpValue(substance))
<1>1. GwpValue(substance).ok
  BY GwpAssumption
<1>2. IsNumber(GwpValue(substance))
  BY DEF GwpValue, ParseWhole, IsNumber, Checked
<1> QED BY <1>1, <1>2

LEMMA GasNumbers ==
  ASSUME NEW r \in Rules, NEW in \in Invocations(r), Numbers(in, PrimaryInputs), NEW q, IsNumber(q)
  PROVE  IsNumber(C2f6Worth(in, q)) /\ IsNumber(PfcWorth(in, q)) /\ IsNumber(SeeWorth(in, q))
<1>1. /\ IsNumber(Ok(Number(in, "weight_fraction_c2f6_cf4"))) /\ IsNumber(Ok(Number(in, "direct_co2_t")))
      /\ IsNumber(Ok(Number(in, "production_t")))
  BY NumberIs DEF PrimaryInputs
<1>2. IsNumber(C2f6Worth(in, q))
  BY <1>1, CombinedIsNumber DEF C2f6Worth, RouteOps
<1>3. IsNumber(GwpValue(CF4)) /\ IsNumber(GwpValue(C2F6))
  BY GwpNumber
<1>4. IsNumber(Combined("mul", GwpValue(CF4), q)) /\ IsNumber(Combined("mul", GwpValue(C2F6), C2f6Worth(in, q)))
  BY <1>2, <1>3, CombinedIsNumber DEF RouteOps
<1>5. IsNumber(PfcWorth(in, q))
  BY <1>4, CombinedIsNumber DEF PfcWorth, RouteOps
<1>6. IsNumber(Combined("add", Ok(Number(in, "direct_co2_t")), PfcWorth(in, q)))
  BY <1>1, <1>5, CombinedIsNumber DEF RouteOps
<1>7. IsNumber(SeeWorth(in, q))
  BY <1>1, <1>6, CombinedIsNumber DEF SeeWorth, RouteOps
<1> QED BY <1>2, <1>5, <1>7

(* The nodes of the gases compute them. *)
LEMMA GasesMean ==
  ASSUME NEW r \in Rules, NEW in \in Invocations(r), Numbers(in, PrimaryInputs),
         NEW n \in Nat, DOMAIN r.nodes = 1 .. n + 13, IsGases(r.nodes, n),
         NEW q, IsNumber(q), Worth(r, in, <<>>, n) = q
  PROVE  /\ Meanings(r, in)[n + 2][<<>>] = AsScalar(C2f6Worth(in, q))
         /\ Meanings(r, in)[n + 9][<<>>] = AsScalar(PfcWorth(in, q))
         /\ Meanings(r, in)[n + 13][<<>>] = AsScalar(SeeWorth(in, q))
<1> DEFINE W(i) == Worth(r, in, <<>>, i)
           nodes == r.nodes
           m == Meanings(r, in)
<1>1. <<>> \in Scopes(in)
  BY DEF Scopes
<1>2. /\ nodes[n + 1] = InputNode("weight_fraction_c2f6_cf4") /\ nodes[n + 2] = OpNode("mul", <<n, n + 1>>)
      /\ nodes[n + 3] = ConstNode(Text(CF4)) /\ nodes[n + 4] = GwpNode(n + 3)
      /\ nodes[n + 5] = OpNode("mul", <<n + 4, n>>) /\ nodes[n + 6] = ConstNode(Text(C2F6))
      /\ nodes[n + 7] = GwpNode(n + 6) /\ nodes[n + 8] = OpNode("mul", <<n + 7, n + 2>>)
      /\ nodes[n + 9] = OpNode("add", <<n + 5, n + 8>>) /\ nodes[n + 10] = InputNode("direct_co2_t")
      /\ nodes[n + 11] = OpNode("add", <<n + 10, n + 9>>) /\ nodes[n + 12] = InputNode("production_t")
      /\ nodes[n + 13] = OpNode("div", <<n + 11, n + 12>>)
  BY Zenon DEF IsGases
<1>3. /\ n + 1 \in DOMAIN nodes /\ n + 2 \in DOMAIN nodes /\ n + 3 \in DOMAIN nodes /\ n + 4 \in DOMAIN nodes
      /\ n + 5 \in DOMAIN nodes /\ n + 6 \in DOMAIN nodes /\ n + 7 \in DOMAIN nodes /\ n + 8 \in DOMAIN nodes
      /\ n + 9 \in DOMAIN nodes /\ n + 10 \in DOMAIN nodes /\ n + 11 \in DOMAIN nodes
      /\ n + 12 \in DOMAIN nodes /\ n + 13 \in DOMAIN nodes
  OBVIOUS
<1>4. /\ \A i \in DOMAIN nodes, name \in PrimaryInputs :
           nodes[i] = InputNode(name) => W(i) = Ok(Number(in, name)) /\ IsNumber(W(i))
      /\ \A i \in DOMAIN nodes, op \in RouteOps : \A a, b :
           nodes[i] = OpNode(op, <<a, b>>) /\ IsNumber(W(a)) /\ IsNumber(W(b)) =>
             m[i][<<>>] = AsScalar(W(i)) /\ W(i) = Combined(op, W(a), W(b)) /\ IsNumber(W(i))
  BY TopNodes
<1>5. ASSUME NEW i \in DOMAIN nodes, NEW substance \in {CF4, C2F6}, nodes[i] = ConstNode(Text(substance))
      PROVE  m[i][<<>>] = Ok(Text(substance))
  <2>1. ShapeOk(nodes[i])
    BY <1>5, RouteShapes
  <2> QED BY <1>1, <1>5, <2>1, ConstMeans
<1>6. ASSUME NEW i \in DOMAIN nodes, NEW c, NEW substance \in {CF4, C2F6}, nodes[i] = GwpNode(c),
             m[c][<<>>] = Ok(Text(substance))
      PROVE  W(i) = GwpValue(substance) /\ IsNumber(W(i))
  BY <1>1, <1>6, GwpWorth
<1>7. W(n) = q /\ IsNumber(W(n)) /\ {"mul", "add", "div"} \subseteq RouteOps
  BY DEF RouteOps
<1> HIDE DEF W, nodes, m
<1>8. W(n + 1) = Ok(Number(in, "weight_fraction_c2f6_cf4")) /\ IsNumber(W(n + 1))
  BY <1>2, <1>3, <1>4 DEF PrimaryInputs
<1>9. m[n + 2][<<>>] = AsScalar(W(n + 2)) /\ W(n + 2) = C2f6Worth(in, q) /\ IsNumber(W(n + 2))
  <2>1. /\ m[n + 2][<<>>] = AsScalar(W(n + 2)) /\ IsNumber(W(n + 2))
        /\ W(n + 2) = Combined("mul", W(n), W(n + 1))
    <3>1. n + 2 \in DOMAIN nodes /\ nodes[n + 2] = OpNode("mul", <<n, n + 1>>) /\ "mul" \in RouteOps
      BY <1>2, <1>3, <1>7
    <3> QED BY <1>4, <1>7, <1>8, <3>1
  <2> QED BY <1>7, <1>8, <2>1, Zenon DEF C2f6Worth
<1>10. m[n + 3][<<>>] = Ok(Text(CF4)) /\ m[n + 6][<<>>] = Ok(Text(C2F6))
  BY <1>2, <1>3, <1>5
<1>11. /\ W(n + 4) = GwpValue(CF4) /\ IsNumber(W(n + 4))
       /\ W(n + 7) = GwpValue(C2F6) /\ IsNumber(W(n + 7))
  BY <1>2, <1>3, <1>6, <1>10
<1>12. W(n + 5) = Combined("mul", GwpValue(CF4), q) /\ IsNumber(W(n + 5))
  <2>1. W(n + 5) = Combined("mul", W(n + 4), W(n)) /\ IsNumber(W(n + 5))
    <3>1. n + 5 \in DOMAIN nodes /\ nodes[n + 5] = OpNode("mul", <<n + 4, n>>) /\ "mul" \in RouteOps
      BY <1>2, <1>3, <1>7
    <3> QED BY <1>4, <1>7, <1>11, <3>1
  <2> QED BY <1>7, <1>11, <2>1, Zenon
<1>13. W(n + 8) = Combined("mul", GwpValue(C2F6), C2f6Worth(in, q)) /\ IsNumber(W(n + 8))
  <2>1. W(n + 8) = Combined("mul", W(n + 7), W(n + 2)) /\ IsNumber(W(n + 8))
    <3>1. n + 8 \in DOMAIN nodes /\ nodes[n + 8] = OpNode("mul", <<n + 7, n + 2>>) /\ "mul" \in RouteOps
      BY <1>2, <1>3, <1>7
    <3> QED BY <1>4, <1>9, <1>11, <3>1
  <2> QED BY <1>9, <1>11, <2>1, Zenon
<1>14. m[n + 9][<<>>] = AsScalar(W(n + 9)) /\ W(n + 9) = PfcWorth(in, q) /\ IsNumber(W(n + 9))
  <2>1. /\ m[n + 9][<<>>] = AsScalar(W(n + 9)) /\ IsNumber(W(n + 9))
        /\ W(n + 9) = Combined("add", W(n + 5), W(n + 8))
    <3>1. n + 9 \in DOMAIN nodes /\ nodes[n + 9] = OpNode("add", <<n + 5, n + 8>>) /\ "add" \in RouteOps
      BY <1>2, <1>3, <1>7
    <3> QED BY <1>4, <1>12, <1>13, <3>1
  <2> QED BY <1>12, <1>13, <2>1, Zenon DEF PfcWorth
<1>15. /\ W(n + 10) = Ok(Number(in, "direct_co2_t")) /\ IsNumber(W(n + 10))
       /\ W(n + 12) = Ok(Number(in, "production_t")) /\ IsNumber(W(n + 12))
  BY <1>2, <1>3, <1>4 DEF PrimaryInputs
<1>16. W(n + 11) = Combined("add", W(n + 10), W(n + 9)) /\ IsNumber(W(n + 11))
  <2>1. n + 11 \in DOMAIN nodes /\ nodes[n + 11] = OpNode("add", <<n + 10, n + 9>>) /\ "add" \in RouteOps
    BY <1>2, <1>3, <1>7
  <2> QED BY <1>4, <1>14, <1>15, <2>1
<1>17. m[n + 13][<<>>] = AsScalar(W(n + 13)) /\ W(n + 13) = SeeWorth(in, q)
  <2>1. m[n + 13][<<>>] = AsScalar(W(n + 13)) /\ W(n + 13) = Combined("div", W(n + 11), W(n + 12))
    <3>1. n + 13 \in DOMAIN nodes /\ nodes[n + 13] = OpNode("div", <<n + 11, n + 12>>) /\ "div" \in RouteOps
      BY <1>2, <1>3, <1>7
    <3> QED BY <1>4, <1>15, <1>16, <3>1
  <2> QED BY <1>14, <1>15, <1>16, <2>1, Zenon DEF SeeWorth
<1> QED BY <1>9, <1>14, <1>17 DEF m

LEMMA Commutes ==
  ASSUME NEW x \in Range128, NEW y \in Range128
  PROVE  TryMul(x, y) = TryMul(y, x)
<1>1. x * y = y * x
  BY DEF Range128
<1> QED BY <1>1, Zenon DEF TryMul

LEMMA CombinedGood ==
  ASSUME NEW op, NEW x, NEW y
  PROVE  Combined(op, Ok(x), Ok(y)) = Arithmetic(op, x, y)
BY DEF Combined, Ok

LEMMA GoodNumber ==
  ASSUME NEW q, IsNumber(q), q.ok
  PROVE  q = Ok(q.val) /\ q.val \in Range128
BY DEF IsNumber, Ok, Err

(* PfcEmissions of a tonnage. *)
LEMMA PfcIs ==
  ASSUME NEW r \in Rules, NEW in \in Invocations(r), Numbers(in, PrimaryInputs), NEW x \in Range128
  PROVE  LET c == C2f6Worth(in, Ok(x))
             e == PfcWorth(in, Ok(x))
         IN  PfcEmissions(in, x) = IF ~c.ok THEN c ELSE IF ~e.ok THEN e
                                   ELSE Ok([cf4_t |-> x, c2f6_t |-> c.val, pfc_tco2e |-> e.val])
<1> DEFINE w == Number(in, "weight_fraction_c2f6_cf4")
           c == C2f6Worth(in, Ok(x))
           e == PfcWorth(in, Ok(x))
           u == GwpValue(CF4)
           v == GwpValue(C2F6)
           a == TryMul(x, u.val)
           b == TryMul(c.val, v.val)
           t == TryAdd(a.val, b.val)
<1>1. PfcEmissions(in, x) =
        LET k == TryMul(x, w)
            l == TryMul(k.val, v.val)
            s == TryAdd(a.val, l.val)
        IN  IF k.ok THEN IF u.ok THEN IF v.ok THEN IF a.ok THEN IF l.ok THEN IF s.ok
              THEN Ok([cf4_t |-> x, c2f6_t |-> k.val, pfc_tco2e |-> s.val])
              ELSE s ELSE l ELSE a ELSE v ELSE u ELSE k
  BY Zenon DEF PfcEmissions, AndThen
<1>2. TryMul(x, w) = c
  BY CombinedGood, RouteArithmetic DEF C2f6Worth
<1>3. u.ok /\ u = Ok(u.val) /\ u.val \in Range128 /\ v.ok /\ v = Ok(v.val) /\ v.val \in Range128
  BY GwpNumber, GoodNumber
<1>4. IsNumber(c)
  <2>1. IsNumber(Ok(x))
    BY DEF IsNumber
  <2> QED BY <2>1, GasNumbers
<1> HIDE DEF w, c, u, v
<1>5. PfcEmissions(in, x) =
        IF c.ok THEN IF a.ok THEN IF b.ok THEN IF t.ok
          THEN Ok([cf4_t |-> x, c2f6_t |-> c.val, pfc_tco2e |-> t.val])
          ELSE t ELSE b ELSE a ELSE c
  BY <1>1, <1>2, <1>3, Zenon
<1>6. Combined("mul", u, Ok(x)) = a
  <2>1. Combined("mul", u, Ok(x)) = TryMul(u.val, x)
    BY <1>3, CombinedGood, RouteArithmetic
  <2> QED BY <1>3, <2>1, Commutes
<1>7. c.ok => Combined("mul", v, c) = b
  <2> SUFFICES ASSUME c.ok PROVE Combined("mul", v, c) = b
    OBVIOUS
  <2>1. c = Ok(c.val) /\ c.val \in Range128
    BY <1>4, GoodNumber
  <2>2. Combined("mul", v, c) = TryMul(v.val, c.val)
    BY <1>3, <2>1, CombinedGood, RouteArithmetic
  <2> QED BY <1>3, <2>1, <2>2, Commutes
<1>8. e = Combined("add", Combined("mul", u, Ok(x)), Combined("mul", v, c))
  BY DEF PfcWorth, c, u, v
<1> HIDE DEF a, b, t, e
<1>9. c.ok => e = IF ~a.ok THEN a ELSE IF ~b.ok THEN b ELSE t
  BY <1>6, <1>7, <1>8, RouteArithmetic, Zenon DEF Combined, t
<1>10. CASE ~c.ok
  BY <1>5, <1>10, Zenon DEF c
<1>11. CASE c.ok
  BY <1>5, <1>9, <1>11, Zenon DEF c, e
<1> QED BY <1>10, <1>11

(* The function of a primary route, from what CF4 is worth. *)
LEMMA SeePrimaryIs ==
  ASSUME NEW r \in Rules, NEW in \in Invocations(r), Numbers(in, PrimaryInputs), NEW q, IsNumber(q)
  PROVE  LET c == C2f6Worth(in, q)
             e == PfcWorth(in, q)
             g == SeeWorth(in, q)
         IN  /\ SeePrimary(in, q) = IF ~c.ok THEN c ELSE IF ~e.ok THEN e ELSE IF ~g.ok THEN g
                                    ELSE Ok(<<Scalar(c.val), Scalar(q.val), Scalar(e.val), Scalar(g.val)>>)
             /\ ~q.ok => c = q
<1> DEFINE c == C2f6Worth(in, q)
           e == PfcWorth(in, q)
           g == SeeWorth(in, q)
           d == Number(in, "direct_co2_t")
           p == Number(in, "production_t")
           f == TryAdd(d, e.val)
<1>1. CASE ~q.ok
  <2>1. c = q
    BY <1>1 DEF C2f6Worth, Combined
  <2>2. SeePrimary(in, q) = q
    BY <1>1, Zenon DEF SeePrimary, AndThen
  <2> QED BY <1>1, <2>1, <2>2
<1>2. CASE q.ok
  <2>1. q = Ok(q.val) /\ q.val \in Range128
    BY <1>2, GoodNumber
  <2>2. PfcEmissions(in, q.val) = IF ~c.ok THEN c ELSE IF ~e.ok THEN e
          ELSE Ok([cf4_t |-> q.val, c2f6_t |-> c.val, pfc_tco2e |-> e.val])
    BY <2>1, PfcIs
  <2>3. IsNumber(e) /\ IsNumber(c)
    BY GasNumbers
  <2> DEFINE gases == PfcEmissions(in, q.val)
             h == TryAdd(d, gases.val.pfc_tco2e)
             k == TryDiv(h.val, p)
  <2>4. SeePrimary(in, q) =
          IF gases.ok THEN IF h.ok THEN IF k.ok
            THEN Ok(<<Scalar(gases.val.c2f6_t), Scalar(gases.val.cf4_t), Scalar(gases.val.pfc_tco2e), Scalar(k.val)>>)
            ELSE k ELSE h ELSE gases
    BY <1>2, Zenon DEF SeePrimary, AndThen
  <2>5. g = Combined("div", Combined("add", Ok(d), e), Ok(p))
    BY DEF SeeWorth
  <2>6. d \in Range128 /\ p \in Range128
    BY NumberIs DEF PrimaryInputs
  <2> HIDE DEF c, e, g, d, p, gases
  <2>7. CASE ~c.ok
    BY <1>2, <2>2, <2>4, <2>7, Zenon DEF c, e, g, gases
  <2>8. CASE c.ok /\ ~e.ok
    BY <1>2, <2>2, <2>4, <2>8, Zenon DEF c, e, g, gases
  <2>9. CASE c.ok /\ e.ok
    <3>1. gases = Ok([cf4_t |-> q.val, c2f6_t |-> c.val, pfc_tco2e |-> e.val])
      BY <2>2, <2>9, Zenon DEF gases
    <3>2. /\ gases.ok /\ gases.val.cf4_t = q.val /\ gases.val.c2f6_t = c.val /\ gases.val.pfc_tco2e = e.val
      BY <3>1 DEF Ok
    <3>3. e = Ok(e.val) /\ e.val \in Range128
      BY <2>3, <2>9, GoodNumber
    <3>4. Combined("add", Ok(d), e) = f
      BY <3>3, CombinedGood, RouteArithmetic
    <3>5. IsNumber(f)
      BY <2>6, <3>3, OperationIsNumber
    <3>6. g = IF f.ok THEN TryDiv(f.val, p) ELSE f
      <4>1. CASE f.ok
        <5>1. f = Ok(f.val)
          BY <3>5, <4>1, GoodNumber
        <5>2. Combined("div", Ok(f.val), Ok(p)) = TryDiv(f.val, p)
          BY CombinedGood, RouteArithmetic
        <5> HIDE DEF f
        <5> QED BY <2>5, <3>4, <4>1, <5>1, <5>2, Zenon
      <4>2. CASE ~f.ok
        <5> HIDE DEF f
        <5>1. Combined("div", f, Ok(p)) = f
          BY <4>2 DEF Combined
        <5> QED BY <2>5, <3>4, <4>2, <5>1, Zenon
      <4> QED BY <4>1, <4>2
    <3>7. h = f
      BY <3>2, Zenon
    <3> HIDE DEF f, h
    <3>8. SeePrimary(in, q) =
            IF f.ok THEN IF TryDiv(f.val, p).ok
              THEN Ok(<<Scalar(c.val), Scalar(q.val), Scalar(e.val), Scalar(TryDiv(f.val, p).val)>>)
              ELSE TryDiv(f.val, p) ELSE f
      BY <2>4, <3>2, <3>7, Zenon
    <3>9. SeePrimary(in, q) =
            IF ~g.ok THEN g ELSE Ok(<<Scalar(c.val), Scalar(q.val), Scalar(e.val), Scalar(g.val)>>)
      BY <3>6, <3>8, Zenon
    <3> QED BY <1>2, <2>9, <3>9, Zenon DEF c, e, g
  <2> QED BY <2>7, <2>8, <2>9
<1> QED BY <1>1, <1>2

-----------------------------------------------------------------------------
(* How a valid rule ends, and the primary routes.                          *)

LEMMA Ends ==
  ASSUME Inv, Meant, Finished, phase = "done", ProvesOk(rule), Valid(rule)
  PROVE  /\ outcome = Meaning(rule, inputs)
         /\ IsSequence(outputs)
         /\ outcome.ok => /\ Len(outputs) = Len(rule.outputs)
                          /\ \A k \in 1 .. Len(outputs) : Meanings(rule, inputs)[rule.outputs[k]][<<>>] = Ok(outputs[k])
<1>1. outcome # Err("Invalid") /\ (outcome.ok => Len(outputs) = Len(rule.outputs))
  BY DEF Finished
<1>2. IsSequence(outputs)
  BY DEF Inv, OutputsOk
<1>3. DOMAIN outputs = 1 .. Len(outputs)
  BY <1>2, SequenceType
<1>4. \A k \in DOMAIN outputs : Meanings(rule, inputs)[rule.outputs[k]][<<>>] = Ok(outputs[k])
  BY DEF Meant, OutputsMeant
<1>5. outcome = Meaning(rule, inputs)
  BY <1>1 DEF Meant, OutputsMeant, OutcomeIsTheMeaning
<1> QED BY <1>1, <1>2, <1>3, <1>4, <1>5

(* A number that is there, as the scalar of a node. *)
LEMMA ScalarIs ==
  ASSUME NEW q, IsNumber(q)
  PROVE  /\ q.ok => AsScalar(q) = Ok(Scalar(q.val))
         /\ ~q.ok => AsScalar(q) = q
BY DEF AsScalar, AndThen

LEMMA PrimaryMeans ==
  ASSUME NEW r, NEW in, NEW i1, NEW i2, NEW i3, NEW i4, r.outputs = <<i1, i2, i3, i4>>, r.proves = 4,
         NEW c, IsNumber(c), Meanings(r, in)[i1][<<>>] = AsScalar(c),
         NEW q, IsNumber(q), Meanings(r, in)[i2][<<>>] = AsScalar(q),
         NEW e, IsNumber(e), Meanings(r, in)[i3][<<>>] = AsScalar(e),
         NEW g, IsNumber(g), Meanings(r, in)[i4][<<>>] = AsScalar(g),
         ~q.ok => c = q
  PROVE  Meaning(r, in) = IF ~c.ok THEN c ELSE IF ~e.ok THEN e ELSE g
<1> DEFINE m == Meanings(r, in)
           results == [k \in DOMAIN r.outputs |-> m[r.outputs[k]][<<>>]]
           All4 == All(results)
<1>1. DOMAIN results = 1 .. 4 /\ results[1] = AsScalar(c) /\ results[2] = AsScalar(q)
      /\ results[3] = AsScalar(e) /\ results[4] = AsScalar(g)
  OBVIOUS
<1>2. Meaning(r, in) = IF All4.ok THEN As(All4.val[4], "scalar") ELSE All4
  <2>1. Meaning(r, in) = AndThen(All4, LAMBDA values : As(values[IF r.proves = 0 THEN 1 ELSE r.proves], "scalar"))
    BY Zenon DEF Meaning
  <2>2. (IF r.proves = 0 THEN 1 ELSE r.proves) = 4
    OBVIOUS
  <2> HIDE DEF All4
  <2> QED BY <2>1, <2>2, Zenon DEF AndThen
<1> HIDE DEF results
<1>3. 4 \in Nat /\ 1 \in 1 .. 4 /\ 3 \in 1 .. 4 /\ 4 \in 1 .. 4
  OBVIOUS
<1>4. CASE ~c.ok
  <2>1. AsScalar(c) = c
    BY <1>4, ScalarIs
  <2>2. ~results[1].ok /\ \A j \in 1 .. 1 - 1 : results[j].ok
    BY <1>1, <1>4, <2>1
  <2>3. All4 = results[1]
    BY <1>1, <1>3, <2>2, AllBad
  <2> HIDE DEF All4
  <2> QED BY <1>1, <1>2, <1>4, <2>1, <2>3
<1>5. CASE c.ok /\ ~e.ok
  <2>1. q.ok
    BY <1>5
  <2>2. AsScalar(c).ok /\ AsScalar(q).ok /\ AsScalar(e) = e
    BY <1>5, <2>1, ScalarIs DEF Ok
  <2>3. ~results[3].ok /\ \A j \in 1 .. 3 - 1 : results[j].ok
    BY <1>1, <1>5, <2>2
  <2>4. All4 = results[3]
    BY <1>1, <1>3, <2>3, AllBad
  <2> HIDE DEF All4
  <2> QED BY <1>1, <1>2, <1>5, <2>2, <2>4
<1>6. CASE c.ok /\ e.ok /\ ~g.ok
  <2>1. q.ok
    BY <1>6
  <2>2. AsScalar(c).ok /\ AsScalar(q).ok /\ AsScalar(e).ok /\ AsScalar(g) = g
    BY <1>6, <2>1, ScalarIs DEF Ok
  <2>3. ~results[4].ok /\ \A j \in 1 .. 4 - 1 : results[j].ok
    BY <1>1, <1>6, <2>2
  <2>4. All4 = results[4]
    BY <1>1, <1>3, <2>3, AllBad
  <2> HIDE DEF All4
  <2> QED BY <1>1, <1>2, <1>6, <2>2, <2>4
<1>7. CASE c.ok /\ e.ok /\ g.ok
  <2>1. q.ok
    BY <1>7
  <2> DEFINE vals == <<Scalar(c.val), Scalar(q.val), Scalar(e.val), Scalar(g.val)>>
  <2>2. DOMAIN vals = 1 .. 4 /\ vals = [k \in DOMAIN vals |-> vals[k]]
        /\ vals[1] = Scalar(c.val) /\ vals[2] = Scalar(q.val) /\ vals[3] = Scalar(e.val) /\ vals[4] = Scalar(g.val)
    OBVIOUS
  <2>3. /\ AsScalar(c) = Ok(Scalar(c.val)) /\ AsScalar(q) = Ok(Scalar(q.val))
        /\ AsScalar(e) = Ok(Scalar(e.val)) /\ AsScalar(g) = Ok(Scalar(g.val))
    BY <1>7, <2>1, ScalarIs
  <2> HIDE DEF vals
  <2>4. \A k \in DOMAIN results : results[k] = Ok(vals[k])
    BY <1>1, <2>2, <2>3
  <2>5. All4 = Ok(vals)
    BY <1>1, <2>2, <2>4, AllGood
  <2> HIDE DEF All4
  <2>6. Meaning(r, in) = As(Scalar(g.val), "scalar")
    BY <1>2, <2>2, <2>5 DEF Ok
  <2>7. As(Scalar(g.val), "scalar") = Ok(g.val)
    BY DEF As, Is, Scalar
  <2>8. g = Ok(g.val)
    BY <1>7, GoodNumber
  <2> QED BY <1>7, <2>6, <2>7, <2>8
<1> QED BY <1>4, <1>5, <1>6, <1>7

LEMMA FourSequence ==
  ASSUME NEW s, IsSequence(s), Len(s) = 4, NEW a, NEW b, NEW c, NEW d, s[1] = a, s[2] = b, s[3] = c, s[4] = d
  PROVE  s = <<a, b, c, d>> /\ Last(s) = d
<1>1. PICK A : s \in Seq(A)
  BY DEF IsSequence
<1> QED BY <1>1 DEF Last

(* A primary route ends with what its function returns. *)
LEMMA PrimaryAgrees ==
  ASSUME Inv, Meant, Finished, phase = "done",
         NEW prefix, IsSequence(prefix), \A k \in 1 .. Len(prefix) : ShapeOk(prefix[k]), rule = PrimaryRule(prefix),
         Numbers(inputs, PrimaryInputs), NEW q, IsNumber(q),
         Meanings(rule, inputs)[Len(prefix)][<<>>] = AsScalar(q)
  PROVE  LET typed == SeePrimary(inputs, q)
         IN  \/ typed.ok /\ outcome.ok /\ typed.val = outputs /\ outcome.val = Last(outputs).scalar
             \/ ~typed.ok /\ outcome = typed
<1> DEFINE n == Len(prefix)
           typed == SeePrimary(inputs, q)
           m == Meanings(rule, inputs)
           c == C2f6Worth(inputs, q)
           e == PfcWorth(inputs, q)
           g == SeeWorth(inputs, q)
<1>1. rule \in Rules /\ inputs \in Invocations(rule)
  BY DEF Inv, Accepted
<1>2. /\ n \in Nat /\ Len(rule.nodes) = n + 13 /\ IsGases(rule.nodes, n)
      /\ rule.outputs = <<n + 2, n, n + 9, n + 13>> /\ rule.proves = 4
  BY PrimaryNodes
<1>3. DOMAIN rule.nodes = 1 .. n + 13
  BY <1>1, <1>2, RulesAssumption
<1>4. ProvesOk(rule) /\ Valid(rule)
  BY <1>1, PrimaryValid
<1>5. Worth(rule, inputs, <<>>, n) = q
  BY TakeScalar DEF Worth
<1>6. m[n + 2][<<>>] = AsScalar(c) /\ m[n + 9][<<>>] = AsScalar(e) /\ m[n + 13][<<>>] = AsScalar(g)
  <2> HIDE DEF n
  <2> QED BY <1>1, <1>2, <1>3, <1>5, GasesMean
<1>7. m[n][<<>>] = AsScalar(q)
  OBVIOUS
<1>8. IsNumber(c) /\ IsNumber(e) /\ IsNumber(g)
  BY <1>1, GasNumbers
<1>9. /\ typed = IF ~c.ok THEN c ELSE IF ~e.ok THEN e ELSE IF ~g.ok THEN g
                 ELSE Ok(<<Scalar(c.val), Scalar(q.val), Scalar(e.val), Scalar(g.val)>>)
      /\ ~q.ok => c = q
  BY <1>1, SeePrimaryIs
<1>10. /\ outcome = Meaning(rule, inputs) /\ IsSequence(outputs)
       /\ outcome.ok => /\ Len(outputs) = Len(rule.outputs)
                        /\ \A k \in 1 .. Len(outputs) : m[rule.outputs[k]][<<>>] = Ok(outputs[k])
  BY <1>4, Ends
<1> HIDE DEF n, m, c, e, g, typed
<1>11. Meaning(rule, inputs) = IF ~c.ok THEN c ELSE IF ~e.ok THEN e ELSE g
  BY <1>2, <1>6, <1>7, <1>8, <1>9, PrimaryMeans DEF m
<1>12. CASE ~c.ok \/ ~e.ok \/ ~g.ok
  <2>1. ~typed.ok /\ outcome = typed
    BY <1>9, <1>10, <1>11, <1>12
  <2> QED BY <2>1 DEF typed
<1>13. CASE c.ok /\ e.ok /\ g.ok
  <2>1. q.ok /\ outcome = g /\ outcome.ok
    BY <1>9, <1>10, <1>11, <1>13
  <2>2. /\ m[n + 2][<<>>] = Ok(Scalar(c.val)) /\ m[n][<<>>] = Ok(Scalar(q.val))
        /\ m[n + 9][<<>>] = Ok(Scalar(e.val)) /\ m[n + 13][<<>>] = Ok(Scalar(g.val))
    BY <1>6, <1>7, <1>8, <1>13, <2>1, ScalarIs
  <2>3. /\ Len(rule.outputs) = 4 /\ rule.outputs[1] = n + 2 /\ rule.outputs[2] = n
        /\ rule.outputs[3] = n + 9 /\ rule.outputs[4] = n + 13
    BY <1>2
  <2>4. Len(outputs) = 4 /\ \A k \in 1 .. 4 : m[rule.outputs[k]][<<>>] = Ok(outputs[k])
    BY <1>10, <2>1, <2>3
  <2>5. /\ outputs[1] = Scalar(c.val) /\ outputs[2] = Scalar(q.val)
        /\ outputs[3] = Scalar(e.val) /\ outputs[4] = Scalar(g.val)
    BY <2>2, <2>3, <2>4 DEF Ok
  <2>6. /\ outputs = <<Scalar(c.val), Scalar(q.val), Scalar(e.val), Scalar(g.val)>>
        /\ Last(outputs) = Scalar(g.val)
    BY <1>10, <2>4, <2>5, FourSequence
  <2>7. typed.ok /\ typed.val = outputs
    BY <1>9, <1>13, <2>6 DEF Ok
  <2>8. outcome.val = Last(outputs).scalar
    BY <2>1, <2>6 DEF Scalar
  <2> QED BY <2>1, <2>7, <2>8 DEF typed
<1> QED BY <1>12, <1>13

LEMMA CombinedWith ==
  ASSUME NEW op, NEW q, NEW y
  PROVE  /\ Combined(op, q, Ok(y)) = IF q.ok THEN Arithmetic(op, q.val, y) ELSE q
         /\ Combined(op, Ok(y), q) = IF q.ok THEN Arithmetic(op, y, q.val) ELSE q
BY DEF Combined, Ok

SlopeWorth(i) ==
  Combined("div",
    Combined("mul",
      Combined("mul", Ok(Number(i, "anode_effect_minutes_per_cell_day")), Ok(Number(i, "slope_emission_factor_cf4"))),
      Ok(Number(i, "production_t"))),
    Ok(Thousand))

LEMMA SlopeIs == ASSUME NEW in PROVE SlopeCf4(in) = SlopeWorth(in)
<1> DEFINE a == Number(in, "anode_effect_minutes_per_cell_day")
           b == Number(in, "slope_emission_factor_cf4")
           p == Number(in, "production_t")
           rate == TryMul(a, b)
           kg == TryMul(rate.val, p)
<1>1. SlopeCf4(in) = IF rate.ok THEN IF kg.ok THEN TryDiv(kg.val, Thousand) ELSE kg ELSE rate
  BY Zenon DEF SlopeCf4, AndThen
<1>2. SlopeWorth(in) = Combined("div", Combined("mul", Combined("mul", Ok(a), Ok(b)), Ok(p)), Ok(Thousand))
  BY Zenon DEF SlopeWorth
<1>3. Combined("mul", Ok(a), Ok(b)) = rate
  BY CombinedGood, RouteArithmetic
<1>4. Combined("mul", rate, Ok(p)) = IF rate.ok THEN kg ELSE rate
  BY CombinedWith, RouteArithmetic
<1> HIDE DEF a, b, p, rate, kg
<1>5. CASE rate.ok
  BY <1>1, <1>2, <1>3, <1>4, <1>5, CombinedWith, RouteArithmetic
<1>6. CASE ~rate.ok
  BY <1>1, <1>2, <1>3, <1>4, <1>6, CombinedWith, RouteArithmetic
<1> QED BY <1>5, <1>6

OvervoltageWorth(i) ==
  Combined("div",
    Combined("mul",
      Combined("mul", Ok(Number(i, "overvoltage_coefficient_cf4")),
        Combined("div", Ok(Number(i, "anode_effect_overvoltage_mv")), Ok(Number(i, "current_efficiency_percent")))),
      Ok(Number(i, "production_t"))),
    Ok(Thousand))

LEMMA OvervoltageIs == ASSUME NEW in PROVE OvervoltageCf4(in) = OvervoltageWorth(in)
<1> DEFINE a == Number(in, "anode_effect_overvoltage_mv")
           b == Number(in, "current_efficiency_percent")
           c == Number(in, "overvoltage_coefficient_cf4")
           p == Number(in, "production_t")
           ratio == TryDiv(a, b)
           rate == TryMul(c, ratio.val)
           kg == TryMul(rate.val, p)
<1>1. OvervoltageCf4(in) =
        IF ratio.ok THEN IF rate.ok THEN IF kg.ok THEN TryDiv(kg.val, Thousand) ELSE kg ELSE rate ELSE ratio
  BY Zenon DEF OvervoltageCf4, AndThen
<1>2. OvervoltageWorth(in)
        = Combined("div", Combined("mul", Combined("mul", Ok(c), Combined("div", Ok(a), Ok(b))), Ok(p)), Ok(Thousand))
  BY Zenon DEF OvervoltageWorth
<1>3. Combined("div", Ok(a), Ok(b)) = ratio
  BY CombinedGood, RouteArithmetic
<1>4. Combined("mul", Ok(c), ratio) = IF ratio.ok THEN rate ELSE ratio
  BY CombinedWith, RouteArithmetic
<1>5. Combined("mul", rate, Ok(p)) = IF rate.ok THEN kg ELSE rate
  BY CombinedWith, RouteArithmetic
<1> HIDE DEF a, b, c, p, ratio, rate, kg
<1>6. CASE ~ratio.ok
  BY <1>1, <1>2, <1>3, <1>4, <1>6, CombinedWith, RouteArithmetic
<1>7. CASE ratio.ok /\ rate.ok
  BY <1>1, <1>2, <1>3, <1>4, <1>5, <1>7, CombinedWith, RouteArithmetic
<1>8. CASE ratio.ok /\ ~rate.ok
  BY <1>1, <1>2, <1>3, <1>4, <1>5, <1>8, CombinedWith, RouteArithmetic
<1> QED BY <1>6, <1>7, <1>8

PrimaryAgreed(typed) ==
  \/ typed.ok /\ outcome.ok /\ typed.val = outputs /\ outcome.val = Last(outputs).scalar
  \/ ~typed.ok /\ outcome = typed

LEMMA SlopeAgrees ==
  ASSUME Inv, Meant, Finished, phase = "done", rule = SlopeRule
  PROVE  PrimaryAgreed(SeePrimary(inputs, SlopeCf4(inputs)))
<1> DEFINE prefix ==
             <<InputNode("anode_effect_minutes_per_cell_day"), InputNode("slope_emission_factor_cf4"),
               OpNode("mul", <<1, 2>>), InputNode("production_t"), OpNode("mul", <<3, 4>>),
               ConstNode(Scalar(Thousand)), OpNode("div", <<5, 6>>)>>
           names == PrimaryInputs \cup {"anode_effect_minutes_per_cell_day", "slope_emission_factor_cf4"}
           W(i) == Worth(rule, inputs, <<>>, i)
           nodes == rule.nodes
<1>1. rule = PrimaryRule(prefix)
  BY Zenon DEF SlopeRule
<1>2. rule \in Rules /\ inputs \in Invocations(rule)
  BY DEF Inv, Accepted
<1>3. Numbers(inputs, names) /\ Numbers(inputs, PrimaryInputs)
  <2>1. Numbers(inputs, names)
    BY <1>2, RoutesAssumption DEF SlopeInputs
  <2> QED BY <2>1 DEF Numbers
<1>4. /\ Len(prefix) = 7
      /\ prefix[1] = InputNode("anode_effect_minutes_per_cell_day")
      /\ prefix[2] = InputNode("slope_emission_factor_cf4")
      /\ prefix[3] = OpNode("mul", <<1, 2>>) /\ prefix[4] = InputNode("production_t")
      /\ prefix[5] = OpNode("mul", <<3, 4>>) /\ prefix[6] = ConstNode(Scalar(Thousand))
      /\ prefix[7] = OpNode("div", <<5, 6>>)
  OBVIOUS
<1>5. IsSequence(prefix)
  <2>1. \A a1, a2, a3, a4, a5, a6, a7 :
          <<a1, a2, a3, a4, a5, a6, a7>> \in Seq({a1, a2, a3, a4, a5, a6, a7})
    OBVIOUS
  <2> QED BY <2>1, Zenon DEF IsSequence
<1> HIDE DEF prefix
<1>6. \A k \in 1 .. Len(prefix) : ShapeOk(prefix[k])
  <2>1. /\ ShapeOk(prefix[1]) /\ ShapeOk(prefix[2]) /\ ShapeOk(prefix[3]) /\ ShapeOk(prefix[4])
        /\ ShapeOk(prefix[5]) /\ ShapeOk(prefix[6]) /\ ShapeOk(prefix[7])
    <3>1. {"mul", "div"} \subseteq RouteOps \cup {"eq"}
      BY DEF RouteOps
    <3> QED BY <1>4, <3>1, RouteShapes, Zenon
  <2>2. \A k \in 1 .. 7 : k = 1 \/ k = 2 \/ k = 3 \/ k = 4 \/ k = 5 \/ k = 6 \/ k = 7
    OBVIOUS
  <2> QED BY <1>4, <2>1, <2>2
<1>7. /\ Len(nodes) = 20 /\ DOMAIN nodes = 1 .. 20 /\ \A k \in 1 .. 7 : nodes[k] = prefix[k]
  <2>1. /\ Len(rule.nodes) = Len(prefix) + 13 /\ DOMAIN rule.nodes = 1 .. Len(rule.nodes)
        /\ \A k \in 1 .. Len(prefix) : rule.nodes[k] = prefix[k]
    <3>1. \A r \in Rules : r = PrimaryRule(prefix) =>
            /\ Len(r.nodes) = Len(prefix) + 13 /\ DOMAIN r.nodes = 1 .. Len(r.nodes)
            /\ \A k \in 1 .. Len(prefix) : r.nodes[k] = prefix[k]
      BY <1>5, PrimaryPrefix
    <3> QED BY <1>1, <1>2, <3>1
  <2> QED BY <1>4, <2>1
<1>8. /\ 1 \in DOMAIN nodes /\ 2 \in DOMAIN nodes /\ 3 \in DOMAIN nodes /\ 4 \in DOMAIN nodes
      /\ 5 \in DOMAIN nodes /\ 6 \in DOMAIN nodes /\ 7 \in DOMAIN nodes
  BY <1>7
<1>9. /\ nodes[1] = InputNode("anode_effect_minutes_per_cell_day")
      /\ nodes[2] = InputNode("slope_emission_factor_cf4")
      /\ nodes[3] = OpNode("mul", <<1, 2>>) /\ nodes[4] = InputNode("production_t")
      /\ nodes[5] = OpNode("mul", <<3, 4>>) /\ nodes[6] = ConstNode(Scalar(Thousand))
      /\ nodes[7] = OpNode("div", <<5, 6>>)
  BY <1>4, <1>7
<1>10. /\ \A i \in DOMAIN nodes, name \in names :
            nodes[i] = InputNode(name) => W(i) = Ok(Number(inputs, name)) /\ IsNumber(W(i))
       /\ \A i \in DOMAIN nodes, x \in Range128 :
            nodes[i] = ConstNode(Scalar(x)) => W(i) = Ok(x) /\ IsNumber(W(i))
       /\ \A i \in DOMAIN nodes, op \in RouteOps : \A a, b :
            nodes[i] = OpNode(op, <<a, b>>) /\ IsNumber(W(a)) /\ IsNumber(W(b)) =>
              /\ Meanings(rule, inputs)[i][<<>>] = AsScalar(W(i))
              /\ W(i) = Combined(op, W(a), W(b))
              /\ IsNumber(W(i))
  BY <1>2, <1>3, TopNodes
<1> HIDE DEF W, nodes
<1>11. /\ W(1) = Ok(Number(inputs, "anode_effect_minutes_per_cell_day")) /\ IsNumber(W(1))
       /\ W(2) = Ok(Number(inputs, "slope_emission_factor_cf4")) /\ IsNumber(W(2))
       /\ W(4) = Ok(Number(inputs, "production_t")) /\ IsNumber(W(4))
  BY <1>8, <1>9, <1>10 DEF PrimaryInputs
<1>12. W(6) = Ok(Thousand) /\ IsNumber(W(6))
  BY <1>8, <1>9, <1>10, ThousandAssumption
<1>13. "mul" \in RouteOps /\ "div" \in RouteOps
  BY DEF RouteOps
<1>14. W(3) = Combined("mul", W(1), W(2)) /\ IsNumber(W(3))
  BY <1>8, <1>9, <1>10, <1>11, <1>13
<1>15. W(5) = Combined("mul", W(3), W(4)) /\ IsNumber(W(5))
  BY <1>8, <1>9, <1>10, <1>11, <1>13, <1>14
<1>16. Meanings(rule, inputs)[7][<<>>] = AsScalar(W(7)) /\ W(7) = Combined("div", W(5), W(6)) /\ IsNumber(W(7))
  BY <1>8, <1>9, <1>10, <1>12, <1>13, <1>15
<1>17. W(7) = SlopeCf4(inputs)
  <2>1. W(7) = SlopeWorth(inputs)
    BY <1>11, <1>12, <1>14, <1>15, <1>16, Zenon DEF SlopeWorth
  <2> QED BY <2>1, SlopeIs
<1>18. IsNumber(SlopeCf4(inputs)) /\ Meanings(rule, inputs)[Len(prefix)][<<>>] = AsScalar(SlopeCf4(inputs))
  BY <1>4, <1>16, <1>17
<1> QED BY <1>1, <1>3, <1>5, <1>6, <1>18, PrimaryAgrees DEF PrimaryAgreed

LEMMA OvervoltageAgrees ==
  ASSUME Inv, Meant, Finished, phase = "done", rule = OvervoltageRule
  PROVE  PrimaryAgreed(SeePrimary(inputs, OvervoltageCf4(inputs)))
<1> DEFINE prefix ==
             <<InputNode("overvoltage_coefficient_cf4"), InputNode("anode_effect_overvoltage_mv"),
               InputNode("current_efficiency_percent"), OpNode("div", <<2, 3>>), OpNode("mul", <<1, 4>>),
               InputNode("production_t"), OpNode("mul", <<5, 6>>),
               ConstNode(Scalar(Thousand)), OpNode("div", <<7, 8>>)>>
           names == PrimaryInputs \cup {"anode_effect_overvoltage_mv", "current_efficiency_percent",
                                        "overvoltage_coefficient_cf4"}
           W(i) == Worth(rule, inputs, <<>>, i)
           nodes == rule.nodes
<1>1. rule = PrimaryRule(prefix)
  BY Zenon DEF OvervoltageRule
<1>2. rule \in Rules /\ inputs \in Invocations(rule)
  BY DEF Inv, Accepted
<1>3. Numbers(inputs, names) /\ Numbers(inputs, PrimaryInputs)
  <2>1. Numbers(inputs, names)
    BY <1>2, RoutesAssumption DEF OvervoltageInputs
  <2> QED BY <2>1 DEF Numbers
<1>4. /\ Len(prefix) = 9
      /\ prefix[1] = InputNode("overvoltage_coefficient_cf4") /\ prefix[2] = InputNode("anode_effect_overvoltage_mv")
      /\ prefix[3] = InputNode("current_efficiency_percent") /\ prefix[4] = OpNode("div", <<2, 3>>)
      /\ prefix[5] = OpNode("mul", <<1, 4>>) /\ prefix[6] = InputNode("production_t")
      /\ prefix[7] = OpNode("mul", <<5, 6>>) /\ prefix[8] = ConstNode(Scalar(Thousand))
      /\ prefix[9] = OpNode("div", <<7, 8>>)
  OBVIOUS
<1>5. IsSequence(prefix)
  <2>1. \A a1, a2, a3, a4, a5, a6, a7, a8, a9 :
          <<a1, a2, a3, a4, a5, a6, a7, a8, a9>> \in Seq({a1, a2, a3, a4, a5, a6, a7, a8, a9})
    OBVIOUS
  <2> QED BY <2>1, Zenon DEF IsSequence
<1> HIDE DEF prefix
<1>6. \A k \in 1 .. Len(prefix) : ShapeOk(prefix[k])
  <2>1. /\ ShapeOk(prefix[1]) /\ ShapeOk(prefix[2]) /\ ShapeOk(prefix[3]) /\ ShapeOk(prefix[4])
        /\ ShapeOk(prefix[5]) /\ ShapeOk(prefix[6]) /\ ShapeOk(prefix[7]) /\ ShapeOk(prefix[8]) /\ ShapeOk(prefix[9])
    <3>1. {"mul", "div"} \subseteq RouteOps \cup {"eq"}
      BY DEF RouteOps
    <3> QED BY <1>4, <3>1, RouteShapes, Zenon
  <2>2. \A k \in 1 .. 9 : k = 1 \/ k = 2 \/ k = 3 \/ k = 4 \/ k = 5 \/ k = 6 \/ k = 7 \/ k = 8 \/ k = 9
    OBVIOUS
  <2> QED BY <1>4, <2>1, <2>2
<1>7. /\ Len(nodes) = 22 /\ DOMAIN nodes = 1 .. 22 /\ \A k \in 1 .. 9 : nodes[k] = prefix[k]
  <2>1. /\ Len(rule.nodes) = Len(prefix) + 13 /\ DOMAIN rule.nodes = 1 .. Len(rule.nodes)
        /\ \A k \in 1 .. Len(prefix) : rule.nodes[k] = prefix[k]
    <3>1. \A r \in Rules : r = PrimaryRule(prefix) =>
            /\ Len(r.nodes) = Len(prefix) + 13 /\ DOMAIN r.nodes = 1 .. Len(r.nodes)
            /\ \A k \in 1 .. Len(prefix) : r.nodes[k] = prefix[k]
      BY <1>5, PrimaryPrefix
    <3> QED BY <1>1, <1>2, <3>1
  <2> QED BY <1>4, <2>1
<1>8. /\ 1 \in DOMAIN nodes /\ 2 \in DOMAIN nodes /\ 3 \in DOMAIN nodes /\ 4 \in DOMAIN nodes /\ 5 \in DOMAIN nodes
      /\ 6 \in DOMAIN nodes /\ 7 \in DOMAIN nodes /\ 8 \in DOMAIN nodes /\ 9 \in DOMAIN nodes
  BY <1>7
<1>9. /\ nodes[1] = InputNode("overvoltage_coefficient_cf4") /\ nodes[2] = InputNode("anode_effect_overvoltage_mv")
      /\ nodes[3] = InputNode("current_efficiency_percent") /\ nodes[4] = OpNode("div", <<2, 3>>)
      /\ nodes[5] = OpNode("mul", <<1, 4>>) /\ nodes[6] = InputNode("production_t")
      /\ nodes[7] = OpNode("mul", <<5, 6>>) /\ nodes[8] = ConstNode(Scalar(Thousand))
      /\ nodes[9] = OpNode("div", <<7, 8>>)
  BY <1>4, <1>7
<1>10. /\ \A i \in DOMAIN nodes, name \in names :
            nodes[i] = InputNode(name) => W(i) = Ok(Number(inputs, name)) /\ IsNumber(W(i))
       /\ \A i \in DOMAIN nodes, x \in Range128 :
            nodes[i] = ConstNode(Scalar(x)) => W(i) = Ok(x) /\ IsNumber(W(i))
       /\ \A i \in DOMAIN nodes, op \in RouteOps : \A a, b :
            nodes[i] = OpNode(op, <<a, b>>) /\ IsNumber(W(a)) /\ IsNumber(W(b)) =>
              /\ Meanings(rule, inputs)[i][<<>>] = AsScalar(W(i))
              /\ W(i) = Combined(op, W(a), W(b))
              /\ IsNumber(W(i))
  BY <1>2, <1>3, TopNodes
<1> HIDE DEF W, nodes
<1>11. /\ W(1) = Ok(Number(inputs, "overvoltage_coefficient_cf4")) /\ IsNumber(W(1))
       /\ W(2) = Ok(Number(inputs, "anode_effect_overvoltage_mv")) /\ IsNumber(W(2))
       /\ W(3) = Ok(Number(inputs, "current_efficiency_percent")) /\ IsNumber(W(3))
       /\ W(6) = Ok(Number(inputs, "production_t")) /\ IsNumber(W(6))
  BY <1>8, <1>9, <1>10 DEF PrimaryInputs
<1>12. W(8) = Ok(Thousand) /\ IsNumber(W(8))
  BY <1>8, <1>9, <1>10, ThousandAssumption
<1>13. "mul" \in RouteOps /\ "div" \in RouteOps
  BY DEF RouteOps
<1>14. W(4) = Combined("div", W(2), W(3)) /\ IsNumber(W(4))
  BY <1>8, <1>9, <1>10, <1>11, <1>13
<1>15. W(5) = Combined("mul", W(1), W(4)) /\ IsNumber(W(5))
  BY <1>8, <1>9, <1>10, <1>11, <1>13, <1>14
<1>16. W(7) = Combined("mul", W(5), W(6)) /\ IsNumber(W(7))
  BY <1>8, <1>9, <1>10, <1>11, <1>13, <1>15
<1>17. Meanings(rule, inputs)[9][<<>>] = AsScalar(W(9)) /\ W(9) = Combined("div", W(7), W(8)) /\ IsNumber(W(9))
  BY <1>8, <1>9, <1>10, <1>12, <1>13, <1>16
<1>18. W(9) = OvervoltageCf4(inputs)
  <2>1. W(9) = OvervoltageWorth(inputs)
    BY <1>11, <1>12, <1>14, <1>15, <1>16, <1>17, Zenon DEF OvervoltageWorth
  <2> QED BY <2>1, OvervoltageIs
<1>19. /\ IsNumber(OvervoltageCf4(inputs))
       /\ Meanings(rule, inputs)[Len(prefix)][<<>>] = AsScalar(OvervoltageCf4(inputs))
  BY <1>4, <1>17, <1>18
<1> QED BY <1>1, <1>3, <1>5, <1>6, <1>19, PrimaryAgrees DEF PrimaryAgreed

-----------------------------------------------------------------------------
(* The secondary route.                                                    *)

(* A running total and a contribution, or the first that failed. *)
Added(a, c) == IF a.ok THEN IF c.ok THEN TryAdd(a.val, c.val) ELSE c ELSE a

SupplyTotals(i) ==
  LET supplies == i.supplies.list
      attributed[n \in 0 .. Len(supplies)] ==
        IF n = 0 THEN Ok(Number(i, "direct_co2_t"))
        ELSE Added(attributed[n - 1], Contribution(supplies[n].record))
  IN  attributed

LEMMA SeeSecondaryIs ==
  ASSUME NEW in
  PROVE  LET a == SupplyTotals(in)[Len(in.supplies.list)]
             g == TryDiv(a.val, Number(in, "production_t"))
         IN  SeeSecondary(in) = IF a.ok THEN IF g.ok THEN Ok(<<Scalar(g.val)>>) ELSE g ELSE a
BY Zenon DEF SeeSecondary, SupplyTotals, Added, AndThen

(* The recursion of see_complex is well defined. *)
LEMMA SupplyRows ==
  ASSUME NEW in, Len(in.supplies.list) \in Nat
  PROVE  /\ SupplyTotals(in)[0] = Ok(Number(in, "direct_co2_t"))
         /\ \A n \in 1 .. Len(in.supplies.list) :
              SupplyTotals(in)[n] = Added(SupplyTotals(in)[n - 1], Contribution(in.supplies.list[n].record))
<1> DEFINE N == Len(in.supplies.list)
           first == Ok(Number(in, "direct_co2_t"))
           part(n) == Contribution(in.supplies.list[n].record)
           Value(g, n) == IF n = 0 THEN first ELSE Added(g[n - 1], part(n))
           W == CHOOSE h : h = [n \in 0 .. N |-> Value(h, n)]
           Settled(g, m) == \A n \in 0 .. N : n <= m => g[n] = Value(g, n)
           S == {m \in Nat : \E g : Settled(g, m)}
<1>1. SupplyTotals(in) = W
  BY DEF SupplyTotals
<1> HIDE DEF N, first, part
<1>2. N \in Nat
  BY DEF N
<1>3. 0 \in S
  <2>1. Settled([n \in 0 .. N |-> first], 0)
    BY <1>2
  <2> QED BY <2>1
<1>4. ASSUME NEW m \in S PROVE m + 1 \in S
  <2>1. PICK g : Settled(g, m)
    OBVIOUS
  <2> DEFINE next == [n \in 0 .. N |-> Value(g, n)]
  <2>2. \A n \in 0 .. N : next[n] = Value(g, n)
    OBVIOUS
  <2> HIDE DEF next
  <2>3. \A n \in 0 .. N : n <= m => next[n] = g[n]
    BY <2>1, <2>2
  <2>4. ASSUME NEW n \in 0 .. N, n <= m + 1 PROVE next[n] = Value(next, n)
    <3>1. CASE n = 0
      BY <2>2, <3>1
    <3>2. CASE n # 0
      <4>1. n - 1 \in 0 .. N /\ n - 1 <= m
        BY <1>2, <2>4, <3>2
      <4>2. next[n - 1] = g[n - 1]
        BY <2>3, <4>1
      <4> QED BY <2>2, <3>2, <4>2
    <3> QED BY <3>1, <3>2
  <2>5. Settled(next, m + 1)
    BY <2>4
  <2> QED BY <2>5
<1>5. PICK g : Settled(g, N)
  <2>1. S \in SUBSET Nat
    OBVIOUS
  <2>2. N \in S
    <3> HIDE DEF S
    <3>1. S = Nat
      BY <1>3, <1>4, <2>1, SetInduction
    <3> QED BY <1>2, <3>1
  <2> QED BY <2>2
<1> DEFINE h == [n \in 0 .. N |-> g[n]]
<1>6. ASSUME NEW n \in 0 .. N PROVE h[n] = Value(h, n)
  <2>1. CASE n = 0
    BY <1>2, <1>5, <2>1
  <2>2. CASE n # 0
    <3>1. n - 1 \in 0 .. N
      BY <1>2, <2>2
    <3>2. h[n - 1] = g[n - 1] /\ h[n] = g[n]
      BY <3>1
    <3>3. g[n] = Value(g, n)
      BY <1>2, <1>5
    <3> QED BY <2>2, <3>2, <3>3
  <2> QED BY <2>1, <2>2
<1>7. h = [n \in 0 .. N |-> Value(h, n)]
  BY <1>6
<1> HIDE DEF h
<1>8. W = [n \in 0 .. N |-> Value(W, n)]
  BY <1>7
<1> HIDE DEF W
<1>9. W[0] = first
  BY <1>2, <1>8
<1>10. ASSUME NEW n \in 1 .. N PROVE W[n] = Added(W[n - 1], part(n))
  <2>1. n \in 0 .. N /\ n # 0
    BY <1>2
  <2>2. W[n] = Value(W, n)
    BY <1>8, <2>1
  <2> QED BY <2>1, <2>2
<1> QED BY <1>1, <1>9, <1>10 DEF N, first, part

(* Where both sums go through, they are the same sum. *)
LEMMA SameSum ==
  ASSUME NEW in, NEW terms, NEW N \in Nat, Len(in.supplies.list) = N, Len(terms) = N, DOMAIN terms = 1 .. N,
         Number(in, "direct_co2_t") \in Range128,
         \A k \in 1 .. N : IsNumber(terms[k]) /\ terms[k] = Contribution(in.supplies.list[k].record),
         SupplyTotals(in)[N].ok, Total(terms).ok
  PROVE  /\ Total(terms) = Ok(Totals(terms)[N])
         /\ Totals(terms)[N] \in Range128 \cup {0}
         /\ SupplyTotals(in)[N].val = Number(in, "direct_co2_t") + Totals(terms)[N]
         /\ SupplyTotals(in)[N].val \in Range128
<1> DEFINE d == Number(in, "direct_co2_t")
           A == SupplyTotals(in)
           T == Totals(terms)
           P(n) == A[n].ok => A[n].val = d + T[n] /\ A[n].val \in Range128 /\ T[n] \in Int
           S == {n \in Nat : n <= N => P(n)}
<1>1. T[0] = 0 /\ \A n \in 1 .. N : T[n] = IF ~terms[n].ok THEN 0 ELSE T[n - 1] + terms[n].val
  BY TotalsRows
<1>2. A[0] = Ok(d) /\ \A n \in 1 .. N : A[n] = Added(A[n - 1], terms[n])
  BY SupplyRows
<1> HIDE DEF A, T, d
<1>3. d \in Range128 /\ d \in Int
  BY DEF d, Range128
<1>4. 0 \in S
  BY <1>1, <1>2, <1>3 DEF Ok
<1>5. ASSUME NEW n \in S PROVE n + 1 \in S
  <2> SUFFICES ASSUME n + 1 <= N, A[n + 1].ok
               PROVE  A[n + 1].val = d + T[n + 1] /\ A[n + 1].val \in Range128 /\ T[n + 1] \in Int
    OBVIOUS
  <2>1. n \in Nat /\ n + 1 \in 1 .. N /\ (n + 1) - 1 = n /\ n <= N
    OBVIOUS
  <2>2. A[n + 1] = Added(A[n], terms[n + 1])
    BY <1>2, <2>1
  <2>3. A[n].ok /\ terms[n + 1].ok /\ A[n + 1] = TryAdd(A[n].val, terms[n + 1].val)
    BY <2>2 DEF Added
  <2>4. A[n].val = d + T[n] /\ A[n].val \in Range128 /\ T[n] \in Int
    BY <2>1, <2>3
  <2>5. terms[n + 1].val \in Range128
    BY <2>1, <2>3, GoodNumber
  <2>6. T[n + 1] = T[n] + terms[n + 1].val
    BY <1>1, <2>1, <2>3
  <2>7. A[n + 1].val = A[n].val + terms[n + 1].val /\ A[n + 1].val \in Range128
    BY <2>3 DEF TryAdd, Checked, Ok, Err
  <2> QED BY <1>3, <2>4, <2>5, <2>6, <2>7 DEF Range128
<1>6. P(N)
  <2>1. S \in SUBSET Nat
    OBVIOUS
  <2>2. N \in S
    <3> HIDE DEF S
    <3>1. S = Nat
      BY <1>4, <1>5, <2>1, SetInduction
    <3> QED BY <3>1
  <2> QED BY <2>2
<1>7. \A j \in 1 .. N : terms[j].ok /\ T[j] \in Range128
  <2> DEFINE stops == {n \in DOMAIN terms : ~terms[n].ok \/ Totals(terms)[n] \notin Range128}
  <2>1. stops = {}
    <3> SUFFICES ASSUME stops # {} PROVE FALSE
      OBVIOUS
    <3>1. stops \in SUBSET Nat
      OBVIOUS
    <3>2. PICK k \in stops : \A j \in stops : k <= j
      BY <3>1, LeastNatural
    <3>3. k \in 1 .. N /\ \A j \in 1 .. k - 1 : j \notin stops /\ j \in DOMAIN terms
      BY <3>2
    <3>4. Total(terms) = IF terms[k].ok THEN Err("Overflow") ELSE terms[k]
      BY <3>3, TotalStops
    <3> QED BY <3>4 DEF Err
  <2> QED BY <2>1 DEF T
<1>8. Total(terms) = Ok(T[N])
  BY <1>7, TotalFits DEF T
<1>9. T[N] \in Range128 \cup {0}
  BY <1>1, <1>7
<1> QED BY <1>6, <1>8, <1>9 DEF A, T, d

LEMMA OkIs == ASSUME NEW x PROVE Ok(x).ok /\ Ok(x).val = x
BY DEF Ok

(* A term of the sum is the contribution of its supply. *)
LEMMA SupplyMeans ==
  ASSUME NEW r \in Rules, NEW in \in Invocations(r), r = SecondaryRule,
         NEW supply, IsSupply(supply), <<supply>> \in Scopes(in), IsElement(supply)
  PROVE  Worth(r, in, <<supply>>, 10) = Contribution(supply) /\ IsNumber(Contribution(supply))
<1> DEFINE nodes == r.nodes
           m == Meanings(r, in)
           scope == <<supply>>
           third == Text(ThirdCountry)
           same == supply.origin = third
           q == supply.quantity_t.scalar
           see == supply.see_tco2e_per_t.scalar
<1>1. /\ nodes[3] = FieldNode("origin") /\ nodes[4] = ConstNode(third) /\ nodes[5] = OpNode("eq", <<3, 4>>)
      /\ nodes[6] = FieldNode("quantity_t") /\ nodes[7] = FieldNode("see_tco2e_per_t")
      /\ nodes[8] = OpNode("mul", <<6, 7>>) /\ nodes[9] = ConstNode(Scalar(0))
      /\ nodes[10] = OpNode("select", <<5, 8, 9>>) /\ Len(nodes) = 14
  BY DEF SecondaryRule
<1>2. DOMAIN nodes = 1 .. 14 /\ \A i \in DOMAIN nodes : IsNode(nodes[i])
  BY <1>1, RulesAssumption
<1>3. /\ 3 \in DOMAIN nodes /\ 4 \in DOMAIN nodes /\ 5 \in DOMAIN nodes /\ 6 \in DOMAIN nodes
      /\ 7 \in DOMAIN nodes /\ 8 \in DOMAIN nodes /\ 9 \in DOMAIN nodes /\ 10 \in DOMAIN nodes
  BY <1>2
<1>4. scope \in Scopes(in) /\ scope # <<>> /\ scope[1] = supply
  OBVIOUS
<1>5. /\ {"origin", "quantity_t", "see_tco2e_per_t"} \subseteq DOMAIN supply
      /\ Is(supply.origin, "text") /\ Is(supply.quantity_t, "scalar") /\ Is(supply.see_tco2e_per_t, "scalar")
  BY DEF IsSupply
<1>6. q \in Range128 /\ see \in Range128
  <2>1. IsInput(supply.quantity_t) /\ IsInput(supply.see_tco2e_per_t)
    BY <1>5, PlainIsInput DEF IsElement
  <2> QED BY <1>5, <2>1, Variants
<1> HIDE DEF nodes, m, scope, third
<1>7. ASSUME NEW i \in DOMAIN nodes, NEW name \in DOMAIN supply, nodes[i] = FieldNode(name)
      PROVE  m[i][scope] = Ok(supply[name])
  <2>1. nodes[i].op = "field" /\ nodes[i].name = name /\ ShapeOk(nodes[i])
    BY <1>7, RouteShapes DEF FieldNode
  <2>2. m[i][scope] = Means(nodes[i], scope, in, m)
    BY <1>4, <2>1, NodeMeaning DEF nodes, m
  <2>3. Means(nodes[i], scope, in, m) = FieldOf(scope, nodes[i].name)
    BY <1>2, <2>1, LeafMeans
  <2>4. FieldOf(scope, name) = Ok(supply[name])
    BY <1>4, Zenon DEF FieldOf
  <2> QED BY <2>1, <2>2, <2>3, <2>4
<1>8. m[3][scope] = Ok(supply.origin)
  BY <1>1, <1>3, <1>5, <1>7
<1>9. m[4][scope] = Ok(third)
  <2>1. ShapeOk(nodes[4])
    BY <1>1, RouteShapes DEF third
  <2> QED BY <1>1, <1>3, <1>4, <2>1, ConstMeans DEF nodes, m
<1>10. m[5][scope] = Ok(Bool(same))
  <2> DEFINE node == nodes[5]
             results == ResultsOf(m, node, scope)
             vals == <<supply.origin, third>>
  <2>1. node.op = "eq" /\ node.args = <<3, 4>> /\ IsNode(node)
    BY <1>1, <1>2, <1>3 DEF OpNode
  <2> HIDE DEF node
  <2>2. node.op \notin LoopOps \cup {"table"} /\ node.op \in {"eq", "ne"}
    BY <2>1 DEF LoopOps
  <2>3. m[5][scope] = Means(node, scope, in, m)
    BY <1>3, <1>4, <2>1, NodeMeaning DEF node, nodes, m
  <2>4. Means(node, scope, in, m) = OperationResult(node, results, scope, in)
    BY <2>1, <2>2, OperationMeans
  <2>5. DOMAIN results = 1 .. 2 /\ results[1] = Ok(supply.origin) /\ results[2] = Ok(third)
    BY <1>8, <1>9, <2>1 DEF ResultsOf
  <2>6. DOMAIN vals = 1 .. 2 /\ vals = [k \in DOMAIN vals |-> vals[k]] /\ vals[1] = supply.origin /\ vals[2] = third
    OBVIOUS
  <2> HIDE DEF results, vals
  <2>7. \A k \in DOMAIN results : results[k] = Ok(vals[k])
    BY <2>5, <2>6
  <2>8. All(results) = Ok(vals)
    BY <2>5, <2>6, <2>7, AllGood
  <2>9. OperationResult(node, results, scope, in)
          = IF All(results).ok THEN AsBool(Equality("eq", All(results).val[1], All(results).val[2])) ELSE All(results)
    BY <2>1, <2>2, Operations
  <2>10. OperationResult(node, results, scope, in) = AsBool(Equality("eq", supply.origin, third))
    BY <2>6, <2>8, <2>9 DEF Ok
  <2>11. Equality("eq", supply.origin, third) = Ok(same)
    <3>1. Is(third, "text")
      BY DEF third, Is, Text
    <3>2. same \in BOOLEAN /\ (same = ("eq" = "eq")) = same
      OBVIOUS
    <3> QED BY <1>5, <3>1, <3>2 DEF Equality
  <2>12. AsBool(Ok(same)) = Ok(Bool(same))
    BY DEF AsBool, AndThen, Ok
  <2> QED BY <2>3, <2>4, <2>10, <2>11, <2>12
<1>11. ASSUME NEW i \in DOMAIN nodes, NEW name \in {"quantity_t", "see_tco2e_per_t"}, nodes[i] = FieldNode(name)
       PROVE  Worth(r, in, scope, i) = Ok(supply[name].scalar)
  <2>1. m[i][scope] = Ok(supply[name]) /\ Is(supply[name], "scalar")
    BY <1>5, <1>7, <1>11
  <2> QED BY <2>1, Taken DEF Worth, m
<1>12. Worth(r, in, scope, 6) = Ok(q) /\ Worth(r, in, scope, 7) = Ok(see) /\ IsNumber(Ok(q)) /\ IsNumber(Ok(see))
  BY <1>1, <1>3, <1>6, <1>11 DEF IsNumber
<1>13. m[8][scope] = AsScalar(TryMul(q, see)) /\ IsNumber(TryMul(q, see))
  <2>1. "mul" \in RouteOps
    BY DEF RouteOps
  <2>2. m[8][scope] = AsScalar(Combined("mul", Ok(q), Ok(see))) /\ IsNumber(Combined("mul", Ok(q), Ok(see)))
    BY <1>1, <1>3, <1>4, <1>12, <2>1, PairWorth DEF nodes, m
  <2> QED BY <2>2, CombinedGood, RouteArithmetic
<1>14. m[9][scope] = Ok(Scalar(0))
  <2>1. ShapeOk(nodes[9])
    BY <1>1, RouteShapes
  <2> QED BY <1>1, <1>3, <1>4, <2>1, ConstMeans DEF nodes, m
<1>15. m[10][scope] = IF same THEN AsScalar(TryMul(q, see)) ELSE Ok(Scalar(0))
  <2> DEFINE node == nodes[10]
             results == ResultsOf(m, node, scope)
             b == Take(results[1], "bool")
  <2>1. node.op = "select" /\ node.args = <<5, 8, 9>> /\ IsNode(node)
    BY <1>1, <1>2, <1>3 DEF OpNode
  <2> HIDE DEF node
  <2>2. node.op \notin LoopOps \cup {"table"}
    BY <2>1 DEF LoopOps
  <2>3. m[10][scope] = Means(node, scope, in, m)
    BY <1>3, <1>4, <2>1, NodeMeaning DEF node, nodes, m
  <2>4. Means(node, scope, in, m) = OperationResult(node, results, scope, in)
    BY <2>1, <2>2, OperationMeans
  <2>5. results[1] = Ok(Bool(same)) /\ results[2] = AsScalar(TryMul(q, see)) /\ results[3] = Ok(Scalar(0))
    BY <1>10, <1>13, <1>14, <2>1 DEF ResultsOf
  <2> HIDE DEF results
  <2>6. Take(results[1], "bool") = Ok(same)
    <3>1. Is(Bool(same), "bool") /\ Bool(same)["bool"] = same
      BY DEF Is, Bool
    <3>2. Take(results[1], "bool") = Ok(Bool(same)["bool"])
      BY <2>5, <3>1, Taken
    <3> QED BY <3>1, <3>2
  <2>7. OperationResult(node, results, scope, in) = IF b.ok THEN results[IF b.val THEN 2 ELSE 3] ELSE b
    BY <2>1, Operations
  <2> HIDE DEF same
  <2>8. b.ok /\ b.val = same
    BY <2>6, OkIs, Zenon
  <2> HIDE DEF b
  <2>9. OperationResult(node, results, scope, in) = results[IF same THEN 2 ELSE 3]
    BY <2>7, <2>8, Zenon
  <2> QED BY <2>3, <2>4, <2>5, <2>9
<1>16. Contribution(supply) = IF same THEN TryMul(q, see) ELSE Ok(0)
  BY DEF Contribution, third
<1>17. 0 \in Range128 /\ IsNumber(Ok(0)) /\ AsScalar(Ok(0)) = Ok(Scalar(0))
  <2>1. 0 \in Range128
    BY FixedAssumption DEF Range128, MIN
  <2> QED BY <2>1 DEF IsNumber, AsScalar, AndThen, Ok
<1> HIDE DEF same
<1>18. m[10][scope] = AsScalar(Contribution(supply)) /\ IsNumber(Contribution(supply))
  BY <1>13, <1>15, <1>16, <1>17
<1>19. Worth(r, in, scope, 10) = Contribution(supply)
  BY <1>18, TakeScalar DEF Worth, m
<1> QED BY <1>18, <1>19 DEF scope

LEMMA TotalIsNumber ==
  ASSUME NEW terms, Len(terms) \in Nat, DOMAIN terms = 1 .. Len(terms),
         \A k \in 1 .. Len(terms) : IsNumber(terms[k])
  PROVE  IsNumber(Total(terms))
<1> DEFINE N == Len(terms)
           T == Totals(terms)
           stops == {n \in DOMAIN terms : ~terms[n].ok \/ Totals(terms)[n] \notin Range128}
<1>1. CASE stops = {}
  <2>1. \A j \in 1 .. N : terms[j].ok /\ T[j] \in Range128
    BY <1>1
  <2>2. Total(terms) = Ok(T[N])
    BY <2>1, TotalFits
  <2>3. T[0] = 0 /\ 0 \in Range128
    BY TotalsRows, FixedAssumption DEF Range128, MIN
  <2>4. T[N] \in Range128
    <3> HIDE DEF T
    <3> QED BY <2>1, <2>3
  <2> QED BY <2>2, <2>4 DEF IsNumber
<1>2. CASE stops # {}
  <2>1. stops \in SUBSET Nat
    OBVIOUS
  <2>2. PICK k \in stops : \A j \in stops : k <= j
    BY <1>2, <2>1, LeastNatural
  <2>3. k \in 1 .. N /\ \A j \in 1 .. k - 1 : j \notin stops /\ j \in DOMAIN terms
    BY <2>2
  <2>4. Total(terms) = IF terms[k].ok THEN Err("Overflow") ELSE terms[k]
    BY <2>3, TotalStops
  <2> QED BY <2>3, <2>4 DEF IsNumber
<1> QED BY <1>1, <1>2

LEMMA SupplyScope ==
  ASSUME NEW in, NEW name \in DOMAIN in, Is(in[name], "list"),
         NEW k \in DOMAIN in[name].list, Is(in[name].list[k], "record")
  PROVE  <<in[name].list[k].record>> \in Scopes(in)
<1> DEFINE lists == {in[n].list : n \in {n \in DOMAIN in : Is(in[n], "list")}}
           items == UNION {Range(list) : list \in lists}
           item == in[name].list[k]
<1>1. in[name].list \in lists
  OBVIOUS
<1>2. item \in Range(in[name].list)
  BY DEF Range
<1> HIDE DEF lists
<1>3. item \in items
  BY <1>1, <1>2
<1> HIDE DEF items
<1>4. <<item.record>> \in {<<i.record>> : i \in {i \in items : Is(i, "record")}}
  BY <1>3
<1> QED BY <1>4, Zenon DEF Scopes, items, lists

(* The sum of the rule is that of the contributions. *)
LEMMA SumOfSupplies ==
  ASSUME NEW r \in Rules, NEW in \in Invocations(r), r = SecondaryRule
  PROVE  LET supplies == in.supplies.list
             terms == LoopTerms(supplies, Meanings(r, in)[10], "scalar")
         IN  /\ Len(supplies) \in Nat /\ DOMAIN terms = 1 .. Len(supplies) /\ Len(terms) = Len(supplies)
             /\ \A k \in 1 .. Len(supplies) : IsNumber(terms[k]) /\ terms[k] = Contribution(supplies[k].record)
             /\ Worth(r, in, <<>>, 11) = Total(terms)
<1> DEFINE supplies == in.supplies.list
           m == Meanings(r, in)
           terms == LoopTerms(supplies, m[10], "scalar")
           nodes == r.nodes
           N == Len(supplies)
<1>1. nodes[2] = InputNode("supplies") /\ nodes[11] = OpNode("sum", <<2, 10>>) /\ Len(nodes) = 14
  BY DEF SecondaryRule
<1>2. /\ DOMAIN nodes = 1 .. 14 /\ \A i \in DOMAIN nodes : IsNode(nodes[i])
      /\ 2 \in DOMAIN nodes /\ 11 \in DOMAIN nodes
  BY <1>1, RulesAssumption
<1>3. /\ "supplies" \in DOMAIN in /\ Is(in.supplies, "list")
      /\ \A k \in DOMAIN supplies : Is(supplies[k], "record") /\ IsSupply(supplies[k].record)
  BY RoutesAssumption DEF SecondaryInputs
<1>4. /\ DOMAIN supplies = 1 .. N /\ N \in Nat
      /\ \A k \in DOMAIN supplies : Is(supplies[k], "record") => IsElement(supplies[k].record)
  <2>1. IsInput(in["supplies"])
    BY <1>3, InputsAssumption
  <2>2. DOMAIN supplies = 1 .. N /\ N \in 0 .. MAX
        /\ \A k \in DOMAIN supplies : Is(supplies[k], "record") => IsElement(supplies[k].record)
    BY <1>3, <2>1, Variants
  <2> QED BY <2>2, FixedAssumption
<1>5. <<>> \in Scopes(in)
  BY DEF Scopes
<1>6. DOMAIN terms = 1 .. N /\ \A k \in 1 .. N : terms[k] = Take(m[10][<<supplies[k].record>>], "scalar")
  <2> HIDE DEF supplies, m
  <2> QED BY <1>3, <1>4 DEF LoopTerms
<1>7. Len(terms) = N
  <2> HIDE DEF supplies, m
  <2>1. terms = [k \in DOMAIN supplies |->
                  IF Is(supplies[k], "record") THEN Take(m[10][<<supplies[k].record>>], "scalar") ELSE Err("TypeMismatch")]
    BY DEF LoopTerms
  <2> QED BY <1>4, <2>1
<1>8. ASSUME NEW k \in 1 .. N PROVE IsNumber(terms[k]) /\ terms[k] = Contribution(supplies[k].record)
  <2> DEFINE supply == supplies[k].record
  <2>1. Is(supplies[k], "record") /\ IsSupply(supply) /\ IsElement(supply)
    BY <1>3, <1>4
  <2>2. <<supply>> \in Scopes(in)
    BY <1>3, <1>4, <2>1, SupplyScope
  <2>3. terms[k] = Worth(r, in, <<supply>>, 10)
    BY <1>6 DEF Worth
  <2> HIDE DEF supply
  <2>4. Worth(r, in, <<supply>>, 10) = Contribution(supply) /\ IsNumber(Contribution(supply))
    BY <2>1, <2>2, SupplyMeans
  <2> QED BY <2>3, <2>4 DEF supply
<1>9. m[2][<<>>] = Ok(in.supplies)
  <2>1. nodes[2].op = "input" /\ nodes[2].name = "supplies" /\ ShapeOk(nodes[2])
    BY <1>1, RouteShapes DEF InputNode
  <2>2. m[2][<<>>] = Means(nodes[2], <<>>, in, m)
    BY <1>2, <1>5, <2>1, NodeMeaning
  <2>3. Means(nodes[2], <<>>, in, m) = IF nodes[2].name \in DOMAIN in THEN Ok(in[nodes[2].name]) ELSE Err("UnknownInput")
    BY <1>2, <2>1, LeafMeans
  <2> HIDE DEF m, nodes
  <2> QED BY <1>3, <2>1, <2>2, <2>3
<1>10. m[11][<<>>] = AsScalar(Total(terms))
  <2>1. nodes[11].op = "sum" /\ nodes[11].args = <<2, 10>>
    BY <1>1 DEF OpNode
  <2>2. m[11][<<>>] = Means(nodes[11], <<>>, in, m)
    BY <1>2, <1>5, <2>1, NodeMeaning
  <2>3. Means(nodes[11], <<>>, in, m) = SumResult(m[nodes[11].args[1]][<<>>], m[nodes[11].args[2]])
    BY <1>2, <2>1, SumMeans
  <2>4. Take(m[2][<<>>], "list") = Ok(supplies)
    BY <1>3, <1>9, Taken
  <2>5. SumResult(m[2][<<>>], m[10])
          = IF Take(m[2][<<>>], "list").ok
              THEN AsScalar(Total(LoopTerms(Take(m[2][<<>>], "list").val, m[10], "scalar"))) ELSE Take(m[2][<<>>], "list")
    BY SumIs
  <2>6. nodes[11].args[1] = 2 /\ nodes[11].args[2] = 10
    BY <2>1
  <2> HIDE DEF m, nodes, supplies
  <2>7. SumResult(m[2][<<>>], m[10]) = AsScalar(Total(terms))
    BY <2>4, <2>5, OkIs, Zenon
  <2> QED BY <2>2, <2>3, <2>6, <2>7, Zenon
<1>11. IsNumber(Total(terms))
  <2> HIDE DEF terms, N
  <2> QED BY <1>4, <1>6, <1>7, <1>8, TotalIsNumber
<1>12. Worth(r, in, <<>>, 11) = Total(terms)
  BY <1>10, <1>11, TakeScalar DEF Worth
<1> QED BY <1>4, <1>6, <1>7, <1>8, <1>12

LEMMA SecondaryValid ==
  ASSUME SecondaryRule \in Rules
  PROVE  ProvesOk(SecondaryRule) /\ Valid(SecondaryRule)
<1> DEFINE r == SecondaryRule
           nodes == r.nodes
<1>1. /\ nodes[1] = InputNode("direct_co2_t") /\ nodes[2] = InputNode("supplies")
      /\ nodes[3] = FieldNode("origin") /\ nodes[4] = ConstNode(Text(ThirdCountry)) /\ nodes[5] = OpNode("eq", <<3, 4>>)
      /\ nodes[6] = FieldNode("quantity_t") /\ nodes[7] = FieldNode("see_tco2e_per_t")
      /\ nodes[8] = OpNode("mul", <<6, 7>>) /\ nodes[9] = ConstNode(Scalar(0))
      /\ nodes[10] = OpNode("select", <<5, 8, 9>>) /\ nodes[11] = OpNode("sum", <<2, 10>>)
      /\ nodes[12] = OpNode("add", <<1, 11>>) /\ nodes[13] = InputNode("production_t")
      /\ nodes[14] = OpNode("div", <<12, 13>>) /\ Len(nodes) = 14
      /\ r.outputs = <<14>> /\ r.proves = 1
  BY DEF SecondaryRule
<1>2. DOMAIN nodes = 1 .. 14
  BY <1>1, RulesAssumption
<1> HIDE DEF nodes
<1>3. /\ ShapeOk(nodes[1]) /\ ShapeOk(nodes[2]) /\ ShapeOk(nodes[3]) /\ ShapeOk(nodes[4]) /\ ShapeOk(nodes[5])
      /\ ShapeOk(nodes[6]) /\ ShapeOk(nodes[7]) /\ ShapeOk(nodes[8]) /\ ShapeOk(nodes[9]) /\ ShapeOk(nodes[10])
      /\ ShapeOk(nodes[11]) /\ ShapeOk(nodes[12]) /\ ShapeOk(nodes[13]) /\ ShapeOk(nodes[14])
  <2>1. /\ ShapeOk(nodes[1]) /\ ShapeOk(nodes[2]) /\ ShapeOk(nodes[13])
        /\ ShapeOk(nodes[3]) /\ ShapeOk(nodes[6]) /\ ShapeOk(nodes[7])
    BY <1>1, RouteShapes
  <2>2. ShapeOk(nodes[4]) /\ ShapeOk(nodes[9])
    BY <1>1, RouteShapes
  <2>3. ShapeOk(nodes[5]) /\ ShapeOk(nodes[8]) /\ ShapeOk(nodes[12]) /\ ShapeOk(nodes[14])
    <3>1. {"mul", "add", "div", "eq"} \subseteq RouteOps \cup {"eq"}
      BY DEF RouteOps
    <3> QED BY <1>1, <3>1, RouteShapes
  <2>4. ShapeOk(nodes[10]) /\ ShapeOk(nodes[11])
    BY <1>1, RouteShapes
  <2> QED BY <2>1, <2>2, <2>3, <2>4
<1>4. ASSUME NEW i \in DOMAIN nodes PROVE ShapeOk(nodes[i])
  <2>1. \/ i = 1 \/ i = 2 \/ i = 3 \/ i = 4 \/ i = 5 \/ i = 6 \/ i = 7
        \/ i = 8 \/ i = 9 \/ i = 10 \/ i = 11 \/ i = 12 \/ i = 13 \/ i = 14
    BY <1>2
  <2> QED BY <1>3, <2>1
<1>5. Valid(r)
  BY <1>4, ShapedIsValid DEF nodes
<1>6. ProvesOk(r)
  BY <1>1 DEF ProvesOk
<1> QED BY <1>5, <1>6

(* The secondary rule has one output: see_tco2e_per_t. *)
LEMMA SecondaryMeans ==
  ASSUME NEW r \in Rules, NEW in \in Invocations(r), r = SecondaryRule
  PROVE  LET terms == LoopTerms(in.supplies.list, Meanings(r, in)[10], "scalar")
             g == Combined("div", Combined("add", Ok(Number(in, "direct_co2_t")), Total(terms)),
                           Ok(Number(in, "production_t")))
         IN  Meanings(r, in)[14][<<>>] = AsScalar(g) /\ IsNumber(g)
<1> DEFINE W(i) == Worth(r, in, <<>>, i)
           nodes == r.nodes
           terms == LoopTerms(in.supplies.list, Meanings(r, in)[10], "scalar")
           names == {"direct_co2_t", "production_t"}
<1>1. /\ nodes[1] = InputNode("direct_co2_t") /\ nodes[12] = OpNode("add", <<1, 11>>)
      /\ nodes[13] = InputNode("production_t") /\ nodes[14] = OpNode("div", <<12, 13>>) /\ Len(nodes) = 14
  BY DEF SecondaryRule
<1>2. DOMAIN nodes = 1 .. 14
  BY <1>1, RulesAssumption
<1>3. 1 \in DOMAIN nodes /\ 12 \in DOMAIN nodes /\ 13 \in DOMAIN nodes /\ 14 \in DOMAIN nodes
  BY <1>2
<1>4. Numbers(in, names)
  BY RoutesAssumption DEF SecondaryInputs
<1>5. /\ \A i \in DOMAIN nodes, name \in names :
           nodes[i] = InputNode(name) => W(i) = Ok(Number(in, name)) /\ IsNumber(W(i))
      /\ \A i \in DOMAIN nodes, op \in RouteOps : \A a, b :
           nodes[i] = OpNode(op, <<a, b>>) /\ IsNumber(W(a)) /\ IsNumber(W(b)) =>
             /\ Meanings(r, in)[i][<<>>] = AsScalar(W(i))
             /\ W(i) = Combined(op, W(a), W(b))
             /\ IsNumber(W(i))
  BY <1>4, TopNodes
<1>6. W(11) = Total(terms) /\ IsNumber(Total(terms))
  <2>1. /\ Len(in.supplies.list) \in Nat /\ DOMAIN terms = 1 .. Len(in.supplies.list)
        /\ Len(terms) = Len(in.supplies.list)
        /\ \A k \in 1 .. Len(in.supplies.list) : IsNumber(terms[k])
        /\ W(11) = Total(terms)
    BY SumOfSupplies
  <2> HIDE DEF terms, W
  <2> QED BY <2>1, TotalIsNumber
<1> HIDE DEF W, nodes, terms
<1>7. "add" \in RouteOps /\ "div" \in RouteOps
  BY DEF RouteOps
<1>8. /\ W(1) = Ok(Number(in, "direct_co2_t")) /\ IsNumber(W(1))
      /\ W(13) = Ok(Number(in, "production_t")) /\ IsNumber(W(13))
  BY <1>1, <1>3, <1>5
<1>9. W(12) = Combined("add", W(1), W(11)) /\ IsNumber(W(12))
  BY <1>1, <1>3, <1>5, <1>6, <1>7, <1>8
<1>10. Meanings(r, in)[14][<<>>] = AsScalar(W(14)) /\ W(14) = Combined("div", W(12), W(13)) /\ IsNumber(W(14))
  BY <1>1, <1>3, <1>5, <1>7, <1>8, <1>9
<1>11. W(14) = Combined("div", Combined("add", Ok(Number(in, "direct_co2_t")), Total(terms)),
                        Ok(Number(in, "production_t")))
  BY <1>6, <1>8, <1>9, <1>10, Zenon
<1> QED BY <1>10, <1>11, Zenon DEF terms

LEMMA OneOutput ==
  ASSUME NEW r, NEW in, NEW i, r.outputs = <<i>>, r.proves = 1,
         NEW g, IsNumber(g), Meanings(r, in)[i][<<>>] = AsScalar(g)
  PROVE  Meaning(r, in) = g
<1> DEFINE m == Meanings(r, in)
           results == [k \in DOMAIN r.outputs |-> m[r.outputs[k]][<<>>]]
           all == All(results)
<1>1. DOMAIN results = 1 .. 1 /\ results[1] = AsScalar(g)
  OBVIOUS
<1>2. Meaning(r, in) = IF all.ok THEN As(all.val[1], "scalar") ELSE all
  <2>1. Meaning(r, in) = AndThen(all, LAMBDA values : As(values[IF r.proves = 0 THEN 1 ELSE r.proves], "scalar"))
    BY Zenon DEF Meaning
  <2>2. (IF r.proves = 0 THEN 1 ELSE r.proves) = 1
    OBVIOUS
  <2> HIDE DEF all
  <2> QED BY <2>1, <2>2, Zenon DEF AndThen
<1> HIDE DEF results
<1>3. CASE ~g.ok
  <2>1. AsScalar(g) = g
    BY <1>3, ScalarIs
  <2>2. ~results[1].ok /\ 1 \in 1 .. 1 /\ 1 \in Nat /\ \A j \in 1 .. 1 - 1 : results[j].ok
    BY <1>1, <1>3, <2>1
  <2>3. all = results[1]
    BY <1>1, <2>2, AllBad
  <2> HIDE DEF all
  <2> QED BY <1>1, <1>2, <1>3, <2>1, <2>3
<1>4. CASE g.ok
  <2> DEFINE vals == <<Scalar(g.val)>>
  <2>1. DOMAIN vals = 1 .. 1 /\ vals = [k \in DOMAIN vals |-> vals[k]] /\ vals[1] = Scalar(g.val)
    OBVIOUS
  <2>2. AsScalar(g) = Ok(Scalar(g.val))
    BY <1>4, ScalarIs
  <2> HIDE DEF vals
  <2>3. \A k \in DOMAIN results : results[k] = Ok(vals[k])
    BY <1>1, <2>1, <2>2
  <2>4. all = Ok(vals)
    BY <1>1, <2>1, <2>3, AllGood
  <2> HIDE DEF all
  <2>5. Meaning(r, in) = As(Scalar(g.val), "scalar")
    BY <1>2, <2>1, <2>4 DEF Ok
  <2>6. As(Scalar(g.val), "scalar") = Ok(g.val)
    BY DEF As, Is, Scalar
  <2>7. g = Ok(g.val)
    BY <1>4, GoodNumber
  <2> QED BY <2>5, <2>6, <2>7
<1> QED BY <1>3, <1>4

LEMMA OneSequence ==
  ASSUME NEW s, IsSequence(s), Len(s) = 1, NEW a, s[1] = a
  PROVE  s = <<a>> /\ Last(s) = a
<1>1. PICK A : s \in Seq(A)
  BY DEF IsSequence
<1> QED BY <1>1 DEF Last

LEMMA SecondaryAgrees ==
  ASSUME Inv, Meant, Finished, phase = "done", rule = SecondaryRule, SeeSecondary(inputs).ok, outcome.ok
  PROVE  SeeSecondary(inputs).val = outputs /\ outcome.val = Last(outputs).scalar
<1> DEFINE supplies == inputs.supplies.list
           N == Len(supplies)
           m == Meanings(rule, inputs)
           terms == LoopTerms(supplies, m[10], "scalar")
           d == Number(inputs, "direct_co2_t")
           p == Number(inputs, "production_t")
           a == SupplyTotals(inputs)[N]
           g == Combined("div", Combined("add", Ok(d), Total(terms)), Ok(p))
           typed == SeeSecondary(inputs)
<1>1. rule \in Rules /\ inputs \in Invocations(rule)
  BY DEF Inv, Accepted
<1>2. rule.outputs = <<14>> /\ rule.proves = 1
  BY DEF SecondaryRule
<1>3. ProvesOk(rule) /\ Valid(rule)
  BY <1>1, SecondaryValid
<1>4. d \in Range128
  <2>1. Numbers(inputs, {"direct_co2_t", "production_t"})
    BY <1>1, RoutesAssumption DEF SecondaryInputs
  <2> QED BY <1>1, <2>1, NumberIs
<1>5. m[14][<<>>] = AsScalar(g) /\ IsNumber(g)
  BY <1>1, SecondaryMeans
<1>6. /\ N \in Nat /\ DOMAIN terms = 1 .. N /\ Len(terms) = N
      /\ \A k \in 1 .. N : IsNumber(terms[k]) /\ terms[k] = Contribution(supplies[k].record)
  BY <1>1, SumOfSupplies
<1>7. /\ outcome = Meaning(rule, inputs) /\ IsSequence(outputs) /\ Len(outputs) = Len(rule.outputs)
      /\ \A k \in 1 .. Len(outputs) : m[rule.outputs[k]][<<>>] = Ok(outputs[k])
  BY <1>3, Ends
<1>8. typed = IF a.ok THEN IF TryDiv(a.val, p).ok THEN Ok(<<Scalar(TryDiv(a.val, p).val)>>) ELSE TryDiv(a.val, p) ELSE a
  BY SeeSecondaryIs
<1>9. a.ok /\ TryDiv(a.val, p).ok /\ typed = Ok(<<Scalar(TryDiv(a.val, p).val)>>)
  <2> HIDE DEF a
  <2>1. typed.ok
    OBVIOUS
  <2> HIDE DEF typed
  <2> QED BY <1>8, <2>1, Zenon
<1>10. Meaning(rule, inputs) = g
  <2> HIDE DEF g
  <2> QED BY <1>2, <1>5, OneOutput DEF m
<1>11. g.ok /\ outcome = g
  BY <1>7, <1>10
<1>12. Total(terms).ok
  <2> HIDE DEF terms
  <2> QED BY <1>11 DEF Combined
<1>13. /\ Total(terms) = Ok(Totals(terms)[N])
       /\ a.val = d + Totals(terms)[N] /\ a.val \in Range128
  <2>1. Totals(terms)[N] \in Range128 \cup {0} /\ Total(terms) = Ok(Totals(terms)[N])
        /\ a.val = d + Totals(terms)[N] /\ a.val \in Range128
    <3> HIDE DEF terms
    <3> QED BY <1>4, <1>6, <1>9, <1>12, SameSum
  <2> QED BY <2>1
<1> HIDE DEF d, p, a, terms, supplies
<1>14. g = TryDiv(a.val, p)
  <2>1. Combined("add", Ok(d), Total(terms)) = TryAdd(d, Totals(terms)[N])
    BY <1>13, CombinedGood, RouteArithmetic
  <2>2. TryAdd(d, Totals(terms)[N]) = Ok(a.val)
    BY <1>13, Zenon DEF TryAdd, Checked
  <2>3. Combined("div", Ok(a.val), Ok(p)) = TryDiv(a.val, p)
    BY CombinedGood, RouteArithmetic
  <2> QED BY <2>1, <2>2, <2>3
<1> HIDE DEF g, m
<1>15. Len(outputs) = 1 /\ outputs[1] = Scalar(g.val)
  <2>1. Len(rule.outputs) = 1 /\ rule.outputs[1] = 14
    BY <1>2
  <2>2. m[14][<<>>] = Ok(outputs[1]) /\ Len(outputs) = 1
    BY <1>7, <2>1
  <2>3. m[14][<<>>] = Ok(Scalar(g.val))
    BY <1>5, <1>11, ScalarIs
  <2>4. outputs[1] = Scalar(g.val)
    BY <2>2, <2>3, OkIs
  <2> QED BY <2>2, <2>4
<1>16. outputs = <<Scalar(g.val)>> /\ Last(outputs) = Scalar(g.val)
  BY <1>7, <1>15, OneSequence
<1>17. typed.val = outputs
  BY <1>9, <1>14, <1>16, OkIs
<1>18. outcome.val = Last(outputs).scalar
  BY <1>11, <1>16 DEF Scalar
<1> QED BY <1>17, <1>18

(* The routes are different rules. *)
LEMMA RoutesDiffer ==
  Len(SlopeRule.nodes) = 20 /\ Len(OvervoltageRule.nodes) = 22 /\ Len(SecondaryRule.nodes) = 14
<1>1. \A c : IsSequence(c) => Len(PrimaryRule(c).nodes) = Len(c) + 13
  BY PrimaryNodes
<1>2. Len(SlopeRule.nodes) = 20
  <2>1. \A a1, a2, a3, a4, a5, a6, a7 :
          LET s == <<a1, a2, a3, a4, a5, a6, a7>> IN IsSequence(s) /\ Len(s) = 7
    <3>1. \A a1, a2, a3, a4, a5, a6, a7 :
            <<a1, a2, a3, a4, a5, a6, a7>> \in Seq({a1, a2, a3, a4, a5, a6, a7})
      OBVIOUS
    <3> QED BY <3>1 DEF IsSequence
  <2>2. PICK s : SlopeRule = PrimaryRule(s) /\ IsSequence(s) /\ Len(s) = 7
    BY <2>1, Zenon DEF SlopeRule
  <2>3. Len(PrimaryRule(s).nodes) = Len(s) + 13
    BY <1>1, <2>2, Zenon
  <2>4. Len(s) + 13 = 20
    BY <2>2
  <2> QED BY <2>2, <2>3, <2>4
<1>3. Len(OvervoltageRule.nodes) = 22
  <2>1. \A a1, a2, a3, a4, a5, a6, a7, a8, a9 :
          LET s == <<a1, a2, a3, a4, a5, a6, a7, a8, a9>> IN IsSequence(s) /\ Len(s) = 9
    <3>1. \A a1, a2, a3, a4, a5, a6, a7, a8, a9 :
            <<a1, a2, a3, a4, a5, a6, a7, a8, a9>> \in Seq({a1, a2, a3, a4, a5, a6, a7, a8, a9})
      OBVIOUS
    <3> QED BY <3>1 DEF IsSequence
  <2>2. PICK s : OvervoltageRule = PrimaryRule(s) /\ IsSequence(s) /\ Len(s) = 9
    BY <2>1, Zenon DEF OvervoltageRule
  <2>3. Len(PrimaryRule(s).nodes) = Len(s) + 13
    BY <1>1, <2>2, Zenon
  <2>4. Len(s) + 13 = 22
    BY <2>2
  <2> QED BY <2>2, <2>3, <2>4
<1>4. Len(SecondaryRule.nodes) = 14
  BY DEF SecondaryRule
<1> QED BY <1>2, <1>3, <1>4

(***************************************************************************)
(* The interpreter and the sector's functions agree on every aluminium     *)
(* route (pfc.rs:78-141, boundaries.rs:42-97, rules.json:13-284).          *)
(***************************************************************************)
THEOREM AluminiumAgrees == Spec => []AluminiumRoutesAgree
<1>1. Inv /\ Meant /\ Finished /\ [Next]_vars => (Inv /\ Meant /\ Finished)'
  BY StepInv, StepMeant, StepFinished
<1>2. Init => Inv /\ Meant /\ Finished
  <2>1. Init => Finished
    BY DEF Init, Finished, Nothing, Err
  <2> QED BY <2>1, InitInv, InitMeant
<1>3. Inv /\ Meant /\ Finished => AluminiumRoutesAgree
  <2> SUFFICES ASSUME Inv, Meant, Finished, phase = "done", rule \in {SlopeRule, OvervoltageRule, SecondaryRule}
               PROVE  \/ Typed.ok /\ outcome.ok /\ Typed.val = outputs /\ outcome.val = Last(outputs).scalar
                      \/ ~Typed.ok /\ outcome = Typed
                      \/ rule = SecondaryRule /\ ~(Typed.ok /\ outcome.ok)
    BY DEF AluminiumRoutesAgree
  <2>1. SlopeRule # OvervoltageRule /\ SlopeRule # SecondaryRule /\ OvervoltageRule # SecondaryRule
    BY RoutesDiffer
  <2>2. CASE rule = SlopeRule
    <3>1. Typed = SeePrimary(inputs, SlopeCf4(inputs))
      BY <2>1, <2>2, Zenon DEF Typed
    <3> QED BY <2>2, <3>1, SlopeAgrees, Zenon DEF PrimaryAgreed
  <2>3. CASE rule = OvervoltageRule
    <3>1. Typed = SeePrimary(inputs, OvervoltageCf4(inputs))
      BY <2>1, <2>3, Zenon DEF Typed
    <3> QED BY <2>3, <3>1, OvervoltageAgrees, Zenon DEF PrimaryAgreed
  <2>4. CASE rule = SecondaryRule
    <3>1. Typed = SeeSecondary(inputs)
      BY <2>1, <2>4, Zenon DEF Typed
    <3> QED BY <2>4, <3>1, SecondaryAgrees, Zenon
  <2> QED BY <2>2, <2>3, <2>4
<1> QED BY <1>1, <1>2, <1>3, PTL DEF Spec

=============================================================================
