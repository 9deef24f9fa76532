----------------------------- MODULE MCNumbers ------------------------------
(* Arithmetic and Precursors for TLC, one or the other in a behaviour: a   *)
(* step of one leaves the other where it started, so that every behaviour  *)
(* is one of ArithmeticSpec and one of Spec.                               *)
EXTENDS Arithmetic, Precursors

ModelOperands == Range128

(* Products that round down, up and to even, overflow and are negative;    *)
(* scalars of an invocation carry a sign that no schema rule restricts.    *)
(* One contribution is at most MAX / SCALE, because the raw product is     *)
(* checked: the sum alone overflows only on a list of about SCALE          *)
(* supplies, which a small SCALE keeps short.                              *)
ModelSupply ==
  {[see |-> p[1], quantity_t |-> p[2], origin |-> "third_country"] :
     p \in {<<3, -5>>, <<3, 5>>, <<5, 2>>, <<6, -5>>, <<6, 5>>}}
    \cup {[see |-> MAX, quantity_t |-> 2, origin |-> "third_country"]}
    \cup {[see |-> 6, quantity_t |-> 5, origin |-> "eu_or_excluded"]}

ModelDirect == {MIN, 0, 6, MAX - 6, MAX}
ModelProduction == {-5, 0, 6, 12}

ComputationRests == acc = 0 /\ call = NoCall
AggregationRests == direct = 0 /\ production = 0 /\ phase = "supplies" /\ n = 0

NumbersInit == ArithmeticInit /\ Init /\ (ComputationRests \/ AggregationRests)

NumbersNext ==
  \/ AggregationRests /\ ArithmeticNext /\ UNCHANGED vars
  \/ ComputationRests /\ Next /\ UNCHANGED arithmeticVars

NumbersSpec == NumbersInit /\ [][NumbersNext]_<<arithmeticVars, vars>>

=============================================================================
