---------------------------- MODULE RuleMeaning -----------------------------
(***************************************************************************)
(* What a rule means, said without a machine: the result of a node in the  *)
(* scope of one record, or of none.  The interpreter reaches it with a     *)
(* stack of records it pushes and pops; here scoping is lexical, so the    *)
(* meaning of a node depends on the innermost record only.                 *)
(***************************************************************************)
EXTENDS Evaluator

(* F of each member in order (the concatenation makes TLC compute it once). *)
Each(s, F(_)) == [k \in DOMAIN s |-> F(s[k])] \o <<>>

(* A result that must be of one kind, and a sequence of them. *)
Take(r, kind) == AndThen(r, LAMBDA v : As(v, kind))
TakeEach(results, kind) == [k \in DOMAIN results |-> Take(results[k], kind)]

(* The first bad result of a sequence, or the sequence of values. *)
All(results) ==
  LET bad == {k \in DOMAIN results : ~results[k].ok}
  IN  IF bad = {} THEN Ok([k \in DOMAIN results |-> results[k].val]) ELSE results[Min(bad)]

(* A conjunction or a disjunction stops at the first operand that decides *)
(* it or fails; the operands after it are as if they were not there.      *)
Junction(op, logical) ==
  LET stops == {k \in DOMAIN logical : ~logical[k].ok \/ logical[k].val = (op = "or")}
  IN  IF stops = {} THEN Ok(Bool(op = "and")) ELSE AsBool(logical[Min(stops)])

(* The running totals of exact terms, until one fails. *)
Totals(terms) ==
  LET sum[n \in 0 .. Len(terms)] ==
        IF n = 0 \/ ~terms[n].ok THEN 0 ELSE sum[n - 1] + terms[n].val
  IN  sum

(* A sum of exact terms fails at the first prefix that does not fit. *)
Total(terms) ==
  LET stops == {n \in DOMAIN terms : ~terms[n].ok \/ Totals(terms)[n] \notin Range128}
  IN  IF stops = {} THEN Ok(Totals(terms)[Len(terms)])
      ELSE AndThen(terms[Min(stops)], LAMBDA x : Err("Overflow"))

Kept(bools) == Checked(Cardinality({k \in DOMAIN bools : bools[k]}) * SCALE)

(* The longest match; of equal ones, and without prefixes, the first. *)
LongestMatch(rows, predicates) ==
  LET length(k) == MatchRow(rows[k], predicates)
      best == {k \in DOMAIN rows : /\ length(k) # NoScore
                                   /\ \A j \in DOMAIN rows : length(j) <= length(k)}
  IN  IF best = {} THEN 0 ELSE Min(best)

TableCell(node, rows, texts) ==
  LET bound == [k \in DOMAIN texts |->
                  [column |-> node.matches[k].column, value |-> texts[k],
                   prefix |-> "prefixOf" \in DOMAIN node.matches[k].by]]
      k == LongestMatch(rows, bound)
  IN  IF k = 0 THEN Err("MissingRow") ELSE ReadCell(rows[k], node.column, node.cell)

(* What a predicate compares its column with. *)
Compared(match) == match.by[CHOOSE m \in DOMAIN match.by : TRUE]

-----------------------------------------------------------------------------

(* No record in scope, or the innermost one: an item of a list. *)
Scopes(in) ==
  LET lists == {in[name].list : name \in {n \in DOMAIN in : Is(in[n], "list")}}
      items == UNION {Range(list) : list \in lists}
  IN  {<<>>} \cup {<<item.record>> : item \in {i \in items : Is(i, "record")}}

FieldOf(scope, name) ==
  IF scope = <<>> THEN Err("NoElement")
  ELSE IF name \in DOMAIN scope[1] THEN Ok(scope[1][name]) ELSE Err("UnknownField")

(* The terms of a loop: what its body is in the scope of each item. *)
LoopTerms(items, body, kind) ==
  [k \in DOMAIN items |->
     IF Is(items[k], "record") THEN Take(body[<<items[k].record>>], kind) ELSE Err("TypeMismatch")]

TableResult(node, compared) ==
  IF node.table \notin DOMAIN TableFiles THEN Err("UnknownTable")
  ELSE AndThen(TableFiles[node.table], LAMBDA rows :
       AndThen(All(TakeEach(compared, "text")), LAMBDA texts : TableCell(node, rows, texts)))

SumResult(list, body) ==
  AndThen(Take(list, "list"), LAMBDA items : AsScalar(Total(LoopTerms(items, body, "scalar"))))

(* Without a condition every item counts, whatever it is. *)
CountResult(list, filtered, body) ==
  AndThen(Take(list, "list"), LAMBDA items :
  AndThen(IF filtered THEN All(LoopTerms(items, body, "bool")) ELSE Ok([k \in DOMAIN items |-> TRUE]),
    LAMBDA bools : AsScalar(Kept(bools))))

OperationResult(node, results, scope, in) ==
  CASE node.op = "const" -> Ok(node.literals[1])
    [] node.op = "input" -> IF node.name \in DOMAIN in THEN Ok(in[node.name]) ELSE Err("UnknownInput")
    [] node.op = "field" -> FieldOf(scope, node.name)
    [] node.op \in ScalarPairOps ->
         AndThen(All(TakeEach(results, "scalar")), LAMBDA x : AsScalar(Arithmetic(node.op, x[1], x[2])))
    [] node.op \in UnaryOps ->
         AndThen(All(TakeEach(results, "scalar")), LAMBDA x : AsScalar(Unary(node.op, x[1])))
    [] node.op \in {"eq", "ne"} -> AndThen(All(results), LAMBDA v : AsBool(Equality(node.op, v[1], v[2])))
    [] node.op \in OrderOps -> AndThen(All(results), LAMBDA v : AsBool(Order(node.op, v[1], v[2])))
    [] node.op = "not" -> AndThen(All(TakeEach(results, "bool")), LAMBDA b : Ok(Bool(~b[1])))
    [] node.op \in {"and", "or"} -> Junction(node.op, TakeEach(results, "bool"))
    [] node.op = "select" -> AndThen(Take(results[1], "bool"), LAMBDA b : results[IF b THEN 2 ELSE 3])

(* The result of a node in a scope, when that of a node c below it is      *)
(* m[c][scope]: only the body of a loop has a scope of its own.            *)
Means(node, scope, in, m) ==
  IF node.op = "table"
    THEN TableResult(node, [k \in DOMAIN node.matches |-> m[Compared(node.matches[k])][scope]])
    ELSE LET results == [k \in DOMAIN node.args |-> m[node.args[k]][scope]]
         IN  CASE node.op = "sum" -> SumResult(results[1], m[Last(node.args)])
               [] node.op = "count" -> CountResult(results[1], Len(node.args) = 2, m[Last(node.args)])
               [] OTHER -> OperationResult(node, results, scope, in)

(* The results of a rule's nodes: Meanings(r, in)[i][scope] of node i.     *)
(* Operands come first, so each node needs the nodes before it only.       *)
Meanings(r, in) ==
  LET first[n \in 0 .. Len(r.nodes)] ==
        IF n = 0 THEN <<>>
        ELSE LET before == first[n - 1]
             IN  Append(before, [scope \in Scopes(in) |-> Means(r.nodes[n], scope, in, before)])
  IN  first[Len(r.nodes)]

Meaning(r, in) ==
  LET m == Meanings(r, in)
  IN  AndThen(All([k \in DOMAIN r.outputs |-> m[r.outputs[k]][<<>>]]),
        LAMBDA values : As(values[IF r.proves = 0 THEN 1 ELSE r.proves], "scalar"))

(***************************************************************************)
(* The interpreter computes the meaning of the rule, in the value and in   *)
(* which error it reports: operands from left to right, branches and       *)
(* operands not needed never evaluated, fields read from the innermost     *)
(* record, the longest matching row, and every output, not only the proven *)
(* one (rule.rs:143-174).  The journal's output is therefore a function of *)
(* the bundle and the inputs alone.                                        *)
(***************************************************************************)
OutcomeIsTheMeaning ==
  (phase = "done" /\ outcome # Err("Invalid")) => outcome = Meaning(rule, inputs)

=============================================================================
