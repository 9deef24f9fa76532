--------------------------- MODULE MCRuleMeaning ----------------------------
(* RuleMeaning and Aluminium for TLC: a 7-bit Fixed with one decimal       *)
(* place, rules of every operation over every leaf, and larger ones.       *)
EXTENDS Aluminium

(* Trees, and the DAG of a tree in post order. *)
N(op, args) == [op |-> op, args |-> args]
K(v) == [op |-> "const", literals |-> <<v>>, args |-> <<>>]
In(name) == [op |-> "input", name |-> name, args |-> <<>>]
F(name) == [op |-> "field", name |-> name, args |-> <<>>]
Lookup(table, column, cell, by, args) ==
  [op |-> "table", table |-> table, column |-> column, cell |-> cell, by |-> by, args |-> args]

RECURSIVE Flat(_, _)
Flat(tree, base) ==
  LET step(acc, t) == LET nodes == acc.nodes \o Flat(t, base + Len(acc.nodes))
                      IN  [nodes |-> nodes, roots |-> Append(acc.roots, base + Len(nodes))]
      children == FoldLeft(step, [nodes |-> <<>>, roots |-> <<>>], tree.args)
      matches == [k \in DOMAIN tree.args |->
                    [column |-> tree.by[k][1], by |-> tree.by[k][2] :> children.roots[k]]]
  IN  Append(children.nodes,
        IF tree.op = "table"
          THEN [op |-> "table", table |-> tree.table, column |-> tree.column, cell |-> tree.cell,
                matches |-> matches]
          ELSE [tree EXCEPT !.args = children.roots])

(* A rule of several outputs, and of one. *)
Rule(trees, proves) ==
  LET step(acc, t) == LET nodes == acc.nodes \o Flat(t, Len(acc.nodes))
                      IN  [nodes |-> nodes, outputs |-> Append(acc.outputs, Len(nodes))]
      all == FoldLeft(step, [nodes |-> <<>>, outputs |-> <<>>], trees)
  IN  [nodes |-> all.nodes, outputs |-> all.outputs, proves |-> proves]

One(tree) == Rule(<<tree>>, 0)

-----------------------------------------------------------------------------

Zero == K(Scalar(0))
Fifteen == K(Scalar(15))
Malformed == [malformed |-> 0]

ScalarLeaves == {Zero, Fifteen, In("x"), F("a")}
BoolLeaves == {K(Bool(TRUE)), In("flag"), F("b")}
TextLeaves == {K(Text(<<9>>)), In("code")}
Leaves == ScalarLeaves \cup BoolLeaves \cup TextLeaves \cup {In("list"), In("unknown")}

Pairs(ops, leaves) == {N(op, <<s, t>>) : op \in ops, s \in leaves, t \in leaves}

(* Every operation over every leaf, type errors included. *)
Shallow ==
  Pairs({"add", "sub", "div", "min", "max", "eq", "lt", "ge", "and", "or"}, Leaves)
    \cup Pairs({"mul", "ne", "le", "gt"}, ScalarLeaves \cup TextLeaves)
    \cup {N(op, <<t>>) : op \in UnaryOps \cup {"not", "count"}, t \in Leaves}
    \cup {N("select", <<c, s, t>>) : c \in BoolLeaves \cup {Zero}, s \in Leaves, t \in {Zero, In("unknown")}}

(* Loops over terms that fail, overflow and have the wrong type. *)
Terms == {F("a"), F("t"), F("unknown"), In("x"), N("div", <<Fifteen, F("a")>>)}
Conditions ==
  {F("b"), F("a"), N("and", <<F("b"), N("lt", <<N("div", <<Fifteen, F("a")>>), In("x")>>)>>),
   N("or", <<F("b"), N("gt", <<F("a"), In("x")>>)>>)}

Sum(t) == N("sum", <<In("list"), t>>)
Count(c) == N("count", <<In("list"), c>>)

(* Loops in loops, and fields read after an inner loop has ended. *)
Loops ==
  {Sum(t) : t \in Terms} \cup {Count(c) : c \in Conditions} \cup {N("sum", <<In("x"), F("a")>>)}
    \cup {Sum(N("add", <<Sum(t), F("a")>>)) : t \in Terms}
    \cup {Count(N("gt", <<F("a"), Sum(t)>>)) : t \in Terms}
    \cup {Sum(N("select", <<c, F("a"), Count(F("b"))>>)) : c \in Conditions}
    \cup {N("add", <<Sum(F("a")), F("a")>>)}
    \cup {N("select", <<N("gt", <<N("count", <<In("list")>>), Zero>>),
                        N("div", <<Sum(F("a")), N("count", <<In("list")>>)>>), In("x")>>)}

Lookups ==
  {Lookup(table, column, cell, <<<<"code", by>>>>, <<t>>) :
      table \in {"cn", "broken", "absent"}, column \in {"value", "name", "absent"}, cell \in {"scalar", "text"},
      by \in {"equals", "prefixOf"}, t \in {In("code"), In("unknown")}}
    \cup {Lookup("cn", "value", "scalar", <<<<"code", "prefixOf">>, <<"name", by>>>>, <<In("code"), t>>) :
      by \in {"equals", "prefixOf"}, t \in {K(Text(<<11>>)), In("code"), In("x")}}
    \cup {Sum(Lookup("cn", "value", "scalar", <<<<"code", "prefixOf">>>>, <<F("t")>>))}

(* rules.json, common.complex.see. *)
ComplexSee ==
  N("div", <<N("add", <<In("x"), Sum(N("select", <<N("eq", <<F("t"), K(Text(<<7>>))>>),
                                                   N("mul", <<F("a"), F("a")>>), Zero>>))>>), Fifteen>>)

Shapes ==
  {[nodes |-> Flat(t, 0) \o <<[op |-> "not", args |-> roots]>>, outputs |-> <<Len(Flat(t, 0)) + 1>>, proves |-> 0] :
      t \in {In("flag")}, roots \in {<<>>, <<1, 1>>}}
    \cup {One(t) : t \in {N("add", <<Zero>>), N("neg", <<Zero, Zero>>), N("and", <<>>), N("or", <<In("flag")>>),
                          N("lt", <<Zero>>), [K(Zero) EXCEPT !.literals = <<>>],
                          [K(Zero) EXCEPT !.literals = <<Scalar(0), Bool(TRUE)>>], K(Malformed)}}
    \cup {[nodes |-> <<K(Text(<<7>>)), [op |-> "table", table |-> "cn", column |-> "value", cell |-> "text",
                                       matches |-> m]>>, outputs |-> <<2>>, proves |-> 0] :
            m \in {<<>>, <<[column |-> "code", by |-> [e \in {"equals", "prefixOf"} |-> 1]]>>,
                   <<[column |-> "code", by |-> <<>>]>>}}
    \cup {Rule(ts, p) : ts \in {<<>>, <<Zero, In("x")>>, <<In("x"), In("flag")>>,
                                <<N("div", <<Zero, Zero>>), In("x")>>}, p \in 0 .. 3}

ModelRules ==
  {One(t) : t \in Shallow \cup Loops \cup Lookups \cup {ComplexSee}} \cup Shapes
    \cup {SlopeRule, OvervoltageRule, SecondaryRule}

-----------------------------------------------------------------------------

Lists ==
  {<<>>,
   <<[record |-> ("a" :> Scalar(25)) @@ ("b" :> Bool(TRUE)) @@ ("t" :> Text(<<7>>))],
     [record |-> ("a" :> Scalar(40)) @@ ("b" :> Bool(FALSE)) @@ ("t" :> Text(<<7, 2>>))]>>,
   <<[record |-> ("a" :> Scalar(-6)) @@ ("b" :> Bool(TRUE)) @@ ("t" :> Text(<<9>>))],
     [record |-> ("a" :> Scalar(0)) @@ ("b" :> Bool(TRUE)) @@ ("t" :> Text(<<7, 2, 5>>))],
     [record |-> ("a" :> Scalar(15)) @@ ("b" :> Bool(FALSE)) @@ ("t" :> Text(<<8>>))]>>}

Invocation(x, flag, code, list) ==
  ("x" :> Scalar(x)) @@ ("flag" :> Bool(flag)) @@ ("code" :> Text(code)) @@ ("list" :> List(list))

(* Products of the small factors round, and those of the large overflow. *)
Product(names, Values(_)) ==
  FoldSet(LAMBDA n, fs : {f @@ (n :> Scalar(v)) : f \in fs, v \in Values(n)}, {<<>>}, names)

PrimaryNames == {"production_t", "direct_co2_t", "weight_fraction_c2f6_cf4"}
PrimaryValues(name) ==
  CASE name = "production_t" -> {-6, 0, 6, 10}
    [] name = "direct_co2_t" -> {-10, 3}
    [] name = "weight_fraction_c2f6_cf4" -> {0, 5, 10}
    [] name = "current_efficiency_percent" -> {-10, 0, 20}
    [] OTHER -> {3, 6, 15}

Supplies ==
  LET supply(q, see, origin) ==
        [record |-> ("quantity_t" :> Scalar(q)) @@ ("see_tco2e_per_t" :> Scalar(see)) @@ ("origin" :> Text(origin))]
      each == {supply(q, see, <<12>>) : q \in {-6, 6}, see \in {5, 10}} \cup {supply(6, 10, <<13>>)}
  IN  UNION {[1 .. n -> each] : n \in 0 .. 2}

ModelInvocations(r) ==
  CASE r = SlopeRule ->
         Product(PrimaryNames \cup {"anode_effect_minutes_per_cell_day", "slope_emission_factor_cf4"}, PrimaryValues)
    [] r = OvervoltageRule ->
         Product(PrimaryNames \cup {"anode_effect_overvoltage_mv", "current_efficiency_percent",
                                    "overvoltage_coefficient_cf4"}, PrimaryValues)
    [] r = SecondaryRule ->
         {i @@ ("supplies" :> List(s)) : s \in Supplies,
                                         i \in Product({"production_t", "direct_co2_t"}, PrimaryValues)}
    [] OTHER ->
         {Invocation(0, TRUE, <<7, 2, 5>>, list) : list \in Lists}
           \cup {Invocation(60, FALSE, code, <<>>) : code \in {<<9>>, <<8, 8>>}}

(* Cells that are empty, no number, no string; rows that match alike. *)
Cell(t) == Text(t)
NoString == [number |-> 0]
CnRow(code, name, value) == ("code" :> code) @@ ("name" :> name) @@ ("value" :> value)
ModelTables ==
  ("cn" :> Ok(<<CnRow(Cell(<<>>), Cell(<<11>>), Cell(<<1>>)), <<>>,
                CnRow(Cell(<<7>>), Cell(<<11>>), Cell(<<2>>)),
                CnRow(NoString, Cell(<<11>>), Cell(<<3>>)),
                CnRow(Cell(<<7, 2>>), Cell(<<7>>), Cell(<<4>>)),
                CnRow(Cell(<<7, 2>>), Cell(<<11>>), Cell(<<5>>)),
                CnRow(Cell(<<8>>), Cell(<<7>>), Cell(<<9, 9>>)),
                "code" :> Cell(<<9>>), CnRow(Cell(<<9>>), NoString, Cell(<<12>>))>>))
    @@ ("gwp" :> Ok(<<GwpRow(CF4, <<2>>), GwpRow(C2F6, <<3>>)>>))
    @@ ("broken" :> Err("MissingRows"))
ModelCalendar == <<<<7>>, <<7, 2>>, <<9>>>>

=============================================================================
