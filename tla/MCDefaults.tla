----------------------------- MODULE MCDefaults -----------------------------
(* Decimal and Defaults for TLC. *)
EXTENDS Defaults

Four  == <<7, 6, 0, 1>>
Six   == Four \o <<1, 0>>
Eight == Six \o <<9, 0>>

(* Every date of nine years, months and days beyond the calendar included, *)
(* and shapes that are no date.                                            *)
IsoText(y, m, d) == DateText(Date(y, m, d))
Years == {0, 1, 1900, 2000, 2024, 2025, 2026, 2028, 2100}
Malformed ==
  {<<>>, Tail(IsoText(2026, 1, 1)), IsoText(2026, 1, 1) \o <<1>>,
   [IsoText(2026, 1, 1) EXCEPT ![5] = 1], [IsoText(2026, 1, 1) EXCEPT ![8] = HYPHEN + 1],
   [IsoText(2026, 1, 1) EXCEPT ![2] = HYPHEN], [IsoText(2026, 1, 1) EXCEPT ![10] = 12]}
DateTexts ==
  {IsoText(y, m, d) : y \in Years, m \in 0 .. 13 \cup {99}, d \in 0 .. 32 \cup {99}} \cup Malformed

(* The ends of the periods, the mark-ups and the entries' windows. *)
Importations ==
  {IsoText(2025, 12, 31), IsoText(2026, 1, 1), IsoText(2027, 6, 30), IsoText(2027, 7, 1),
   IsoText(2028, 2, 29), IsoText(2031, 1, 1)}

RequestedCodes ==
  {Four, Six, Eight, Six \o <<9, 9>>, Four \o <<2, 0, 0, 0>>, <<7, 6, 1, 6>>,
   <<7, 6, SPACE, 0, 1, SPACE>> \o <<1, 0>>, Four \o <<1>>, Four \o <<DOT, 0>>, <<7, 6>>}

Goods == {Good(code, country, "aluminium", on) : code \in RequestedCodes, country \in {"China", "Peru"}, on \in Importations}
Fertilisers == {Good(Six, "China", "fertilisers", on) : on \in Importations}
Precursors == {Precursor(code, "aluminium", on) : code \in RequestedCodes, on \in Importations}
DateRequests == {Good(<<>>, "Peru", "aluminium", on) : on \in DateTexts}

(* Rows for four, six and eight digits, each listed or not and with or     *)
(* without a value, behind rows of another country and before a repeated   *)
(* one.  With two decimals of twelve bits, 0.16 overflows under the last   *)
(* mark-up only; 0.125 and 0.15 under some are ties; a minus and the empty *)
(* text are no values but texts.                                           *)
Cents(digits) == <<0, DOT>> \o digits
Listed(code, total) == {<<>>, <<DefaultValueRow(code, "China", NoTotal)>>, <<DefaultValueRow(code, "China", total)>>}

CountryRows ==
  {<<DefaultValueRow(Eight, "Chile", Cents(<<0, 9>>))>> \o four \o eight \o six \o <<DefaultValueRow(Six, "China", Cents(<<0, 8>>))>> :
     four \in Listed(Four, Cents(<<1, 6>>)), six \in Listed(Six, Cents(<<1, 2, 5>>)),
     eight \in Listed(Eight, Cents(<<1, 5>>))}

OtherRows ==
  {<<>>, <<DefaultValueRow(Four, "other", Cents(<<0, 5>>)), DefaultValueRow(Six, "other", <<>>)>>,
   <<DefaultValueRow(Eight, "other", NoTotal), DefaultValueRow(Six, "other", <<MINUS>>), DefaultValueRow(Four, "other", <<9, 9>>)>>}

ModelAnnexIv == <<AnnexIvRow(Four, Cents(<<1, 5>>)), AnnexIvRow(Eight, Cents(<<1, 4, 5, 1>>)), AnnexIvRow(Eight, <<9>>)>>

Annexes == {AnnexI(rows, others) : rows \in CountryRows, others \in OtherRows}

NoDeclarations == {}

ModelDeclarations ==
  [request : Goods \cup Fertilisers, annexes : Annexes]
    \cup [request : DateRequests, annexes : {NoTables}]
    \cup [request : Precursors, annexes : {AnnexIv(ModelAnnexIv)}]

(* A six-digit entry from 2027 that ends, one of eight digits from 2028.   *)
ModelEntries ==
  <<ScopeEntry(Four, DEFINITIVE_PERIOD, NO_LIMIT), ScopeEntry(Eight, Date(2028, 1, 1), NO_LIMIT),
    ScopeEntry(Six, DEFINITIVE_PERIOD, Date(2027, 6, 30))>>

=============================================================================
