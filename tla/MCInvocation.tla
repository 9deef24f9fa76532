---------------------------- MODULE MCInvocation ----------------------------
(* Invocation for TLC: four releases that load and change each other's     *)
(* inputs, record fields and rules, and four that validation refuses.      *)
EXTENDS Invocation, TLC

Kind(k) == [type |-> k]
ListOf(t) == [type |-> "list", of |-> t]
Rule(inputs) == [sound |-> TRUE, inputs |-> inputs]
Schema(types, rules) == [tag |-> "kaimeter-rules-v1", types |-> types, rules |-> rules]

(* Inputs 1, 2, 3; record type 1 with fields 1, 2. *)
Inputs == (1 :> Kind("scalar")) @@ (2 :> ListOf(1)) @@ (3 :> Kind("bool"))
Fields == (1 :> "scalar") @@ (2 :> "text")
Slope == <<>>

ModelSchemas ==
  [first |-> Schema(1 :> Fields, ("see" :> Rule(Inputs)) @@ ("slope" :> Rule(Slope))),
   retyped |-> Schema(1 :> Fields, "see" :> Rule([Inputs EXCEPT ![1] = Kind("text")])),
   widened |-> Schema(1 :> (Fields @@ (3 :> "bool")), "see" :> Rule(Inputs)),
   narrowed |-> Schema(<<>>, "see" :> Rule(1 :> Kind("scalar"))),
   dangling |-> Schema(2 :> Fields, "see" :> Rule(Inputs)),
   empty |-> Schema(<<>>, <<>>),
   unsound |-> Schema(<<>>, "see" :> [sound |-> FALSE, inputs |-> <<>>]),
   foreign |-> [Schema(<<>>, "see" :> Rule(<<>>)) EXCEPT !.tag = "kaimeter-rules-v2"]]

-----------------------------------------------------------------------------

String(t) == [string |-> t]
Object(f) == [object |-> f]
Array(s) == [array |-> s]
Other == [number |-> 0]

(* Whole numbers at SCALE 10 and MAX 63: 6 fits, 60 does not, <<11>> is no *)
(* number.                                                                 *)
Texts == {<<6>>, <<6, 0>>, <<11>>}
Leaves == {String(t) : t \in Texts} \cup {[bool |-> TRUE], Other}

Records ==
  {Object(<<>>), Object(2 :> String(<<6>>)), Other}
    \cup {Object((1 :> x) @@ (2 :> y)) : x \in Leaves, y \in {String(<<11>>), Other}}
    \cup {Object((1 :> String(<<6>>)) @@ (2 :> String(<<11>>)) @@ (3 :> x)) : x \in {[bool |-> TRUE], Other}}

Lists ==
  {Array(<<>>), Other} \cup {Array(<<r>>) : r \in Records}
    \cup {Array(<<Object((1 :> String(<<6>>)) @@ (2 :> String(<<6>>))), r>>) : r \in Records}

RawInputs ==
  {Object((1 :> x) @@ (2 :> l) @@ (3 :> b)) : x \in Leaves, l \in Lists, b \in {[bool |-> FALSE], Other}}
    \cup {Object(<<>>), Object(1 :> String(<<6>>)), Object((1 :> String(<<6>>)) @@ (4 :> Other)), Other}

Request(rule, inputs) ==
  Object([rule |-> rule, context |-> [context |-> 0], inputs |-> inputs])

ModelDocuments ==
  {Request(String("see"), i) : i \in RawInputs}
    \cup {Request(rule, Object(<<>>)) : rule \in {String("slope"), String("gone"), Other}}
    \cup {[malformed |-> 0], Other, Object(<<>>), Object([rule |-> String("see")]),
          Object([rule |-> String("see"), context |-> Other, inputs |-> Object(<<>>)]),
          Object([rule |-> String("see"), context |-> [context |-> 0]])}

-----------------------------------------------------------------------------

RecordValues ==
  {Record(<<>>), Record((1 :> Scalar(MAX)) @@ (2 :> Text(<<11>>))), Bool(TRUE),
   Record((1 :> Text(<<6>>)) @@ (2 :> Text(<<11>>))),
   Record((1 :> Scalar(MIN)) @@ (2 :> Text(<<11>>)) @@ (3 :> Bool(TRUE)))}

ModelBuilt ==
  {[rule |-> "see", inputs |-> (1 :> x) @@ (2 :> l) @@ (3 :> Bool(TRUE))] :
     x \in {Scalar(MIN), Text(<<6>>)}, l \in {Bool(TRUE)} \cup {List(<<r>>) : r \in RecordValues}}
    \cup {[rule |-> "see", inputs |-> i] : i \in {<<>>, 1 :> Scalar(0), (1 :> Scalar(0)) @@ (4 :> Scalar(0))}}
    \cup {[rule |-> "slope", inputs |-> <<>>]}

=============================================================================
