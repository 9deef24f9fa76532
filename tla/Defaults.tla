------------------------------ MODULE Defaults ------------------------------
(***************************************************************************)
(* Default values (kaimeter-rules, src/common): a declaration is dated,    *)
(* classified against Annex I, given its reporting period, and valued: the *)
(* row of its country or of the other countries, its text parsed by the    *)
(* decimal parser symbol by symbol, and the sector's mark-up applied.      *)
(*                                                                         *)
(* The operations are functions that a caller applies one after another.   *)
(* A CN code is a sequence of digits, SPACE and other symbols.  The decimal *)
(* parser also runs alone, on a text.                                      *)
(***************************************************************************)
EXTENDS Decimal, Dates, SequencesExt

CONSTANTS
  Declarations,  (* [request, annexes]: a request [good, code, country, sector, on], *)
                 (* and the tables [rows, other_countries, annex_iv] it is asked of *)
  ScopeEntries   (* ANNEX_I_ALUMINIUM: a sequence of [cn_code, applies_from, applies_to] *)

(* First day of the definitive period, from which aluminium() builds. *)
DEFINITIVE_PERIOD == Date(2026, 1, 1)

NO_LIMIT == Date(0, 0, 0)   (* applies_to: None *)

Sectors == {"cement", "iron and steel", "aluminium", "fertilisers", "hydrogen"}

(* A CN code without spaces, as tables and entries list it. *)
CnCodes == {code \in Seq(0 .. 9) : Len(code) \in {4, 6, 8}}

Requests == [good : BOOLEAN, code : Seq(Int), country : STRING, sector : Sectors, on : Seq(Int)]

(* total: a text, possibly empty, or no value at all (null in the tables). *)
NoTotal == <<-1>>   (* no symbol of a text is negative *)
Totals  == Seq(Nat) \cup {NoTotal}

EmbeddedTables ==
  [rows : Seq([cn_code : CnCodes, country : STRING, total : Totals]),
   other_countries : Seq([cn_code : CnCodes, country : STRING, total : Totals]),
   annex_iv : Seq([cn_code : CnCodes, highest : Seq(Nat)])]

(* The code, country and day of a request may be any text; the embedded    *)
(* tables list codes of four, six or eight digits (parameters.rs:327).     *)
ASSUME DeclarationsAssumption == Declarations \subseteq [request : Requests, annexes : EmbeddedTables]

ASSUME ScopeAssumption ==
  /\ ScopeEntries \in Seq([cn_code : CnCodes, applies_from : ValidDates, applies_to : ValidDates \cup {NO_LIMIT}])
  /\ \A k \in DOMAIN ScopeEntries : NotAfter(DEFINITIVE_PERIOD, ScopeEntries[k].applies_from)
  /\ \A j, k \in DOMAIN ScopeEntries : ScopeEntries[j].cn_code = ScopeEntries[k].cn_code => j = k

VARIABLES
  request,   (* the declaration; NoRequest when only a text is parsed   *)
  annexes,   (* the embedded tables                                     *)
  date,      (* Result of Date::from_iso, None before                   *)
  entry,     (* Result of classify, None before                         *)
  period,    (* Result of ReportingPeriod::of, None before              *)
  selected,  (* Result of the selection: [source, markup], None before  *)
  value      (* Result of default_value, None before                    *)

declared == <<request, annexes>>
results  == <<date, entry, period, selected, value>>
parsing  == <<text, shown, negative, rest, parser, outcome>>

None == Err("None")
Idle == Err("Idle")
SPACE == 14

-----------------------------------------------------------------------------
(* Requests, rows and tables.                                              *)

Good(code, country, sector, on) ==
  [good |-> TRUE, code |-> code, country |-> country, sector |-> sector, on |-> on]
Precursor(code, sector, on) ==
  [good |-> FALSE, code |-> code, country |-> "", sector |-> sector, on |-> on]
NoRequest == Precursor(<<>>, "", <<>>)

DefaultValueRow(cn_code, country, total) == [cn_code |-> cn_code, country |-> country, total |-> total]
AnnexIvRow(cn_code, highest) == [cn_code |-> cn_code, highest |-> highest]

AnnexI(rows, other_countries) == [rows |-> rows, other_countries |-> other_countries, annex_iv |-> <<>>]
AnnexIv(rows) == [rows |-> <<>>, other_countries |-> <<>>, annex_iv |-> rows]
NoTables == AnnexI(<<>>, <<>>)

ScopeEntry(cn_code, applies_from, applies_to) ==
  [cn_code |-> cn_code, applies_from |-> applies_from, applies_to |-> applies_to]

-----------------------------------------------------------------------------
(* CN codes.                                                               *)

(* The symbols of a text that are in a set, for every count of symbols. *)
Only(s, kept) ==
  LET taken[n \in 0 .. Len(s)] ==
        IF n = 0 THEN <<>>
        ELSE IF s[n] \in kept THEN Append(taken[n - 1], s[n]) ELSE taken[n - 1]
  IN  taken

NormalizeCnCode(code) ==
  LET digits == Only(code, Int \ {SPACE})[Len(code)]
  IN  IF ToSet(digits) \subseteq 0 .. 9 /\ Len(digits) \in {4, 6, 8}
        THEN Ok(digits) ELSE Err("InvalidCnCode")

(* best_row, best_annex_iv_row and classify: the first of the codes that    *)
(* is the 8, 6 or 4 digit prefix, longest first.  Zero when none is.       *)
Best(codes, code) ==
  LET at(n) == {k \in DOMAIN codes : n <= Len(code) /\ codes[k] = SubSeq(code, 1, n)}
      lengths == {n \in {8, 6, 4} : at(n) # {}}
  IN  IF lengths = {} THEN 0 ELSE Min(at(Max(lengths)))

Codes(rows) == [k \in DOMAIN rows |-> rows[k].cn_code]

(* The rows of a country, at their places in the table. *)
Of(rows, country) == RestrictValues(rows, LAMBDA row : row.country = country)

(* Mutant: rows without a value are passed over. *)
ValueOfValued(rows, code, kind) ==
  LET valued == RestrictValues(rows, LAMBDA row : row.total # NoTotal)
      k == Best(Codes(valued), code)
  IN  IF k = 0 THEN {} ELSE {[kind |-> kind, row |-> valued[k]]}

(* country_value and other_countries_value: the source, if its row has a    *)
(* value.                                                                  *)
ValueOf(rows, code, kind) ==
  LET k == Best(Codes(rows), code)
  IN  IF k = 0 \/ rows[k].total = NoTotal THEN {} ELSE {[kind |-> kind, row |-> rows[k]]}

CountrySource(code) == ValueOf(Of(annexes.rows, request.country), code, "country")
OtherCountriesSource(code) == ValueOf(annexes.other_countries, code, "other countries")

AnnexIvSource(code) ==
  LET k == Best(Codes(annexes.annex_iv), code)
      row(r) == DefaultValueRow(r.cn_code, "", r.highest)
  IN  IF k = 0 THEN {} ELSE {[kind |-> "annex IV", row |-> row(annexes.annex_iv[k])]}

(* default_value: the country's row first; precursor_default_value: Annex IV. *)
Sources(code) ==
  IF ~request.good THEN AnnexIvSource(code)
  ELSE IF CountrySource(code) # {} THEN CountrySource(code)
  ELSE OtherCountriesSource(code)

-----------------------------------------------------------------------------
(* The mark-up.                                                            *)

Percent(n) == (n * SCALE) \div 100

ASSUME MarkupAssumption == SCALE % 100 = 0 /\ SCALE + Percent(30) <= MAX

(* Mutant: only 2028 has the mark-up of 2028. *)
MarkupOf2028(sector, year) ==
  IF sector = "fertilisers" THEN Percent(1)
  ELSE IF year = 2027 THEN Percent(20)
  ELSE IF year = 2028 THEN Percent(30) ELSE Percent(10)

Markup(sector, year) ==
  IF sector = "fertilisers" THEN Percent(1)
  ELSE IF year = 2026 THEN Percent(10)
  ELSE IF year = 2027 THEN Percent(20) ELSE Percent(30)

(* assemble, after the parse. *)
Applied(base, markup) ==
  AndThen(TryAdd(SCALE, markup), LAMBDA factor :
  AndThen(TryMul(base, factor), LAMBDA applied :
    Ok([base |-> base, markup |-> markup, applied |-> applied])))

-----------------------------------------------------------------------------
(* The scope.                                                              *)

AppliesOn(e, on) == NotAfter(e.applies_from, on) /\ (e.applies_to = NO_LIMIT \/ NotAfter(on, e.applies_to))

(* Mutant: entries that are not in force are passed over. *)
ClassifyInForce(code, on) ==
  AndThen(NormalizeCnCode(code), LAMBDA digits :
    LET inForce == SelectSeq(ScopeEntries, LAMBDA e : AppliesOn(e, on))
        k == Best(Codes(inForce), digits)
    IN  IF k = 0 THEN Err("OutOfScope") ELSE Ok(inForce[k]))

Classify(code, on) ==
  AndThen(NormalizeCnCode(code), LAMBDA digits :
    LET k == Best(Codes(ScopeEntries), digits)
    IN  IF k = 0 \/ ~AppliesOn(ScopeEntries[k], on) THEN Err("OutOfScope") ELSE Ok(ScopeEntries[k]))

-----------------------------------------------------------------------------

DefaultsInit ==
  /\ date = None /\ entry = None /\ period = None /\ selected = None /\ value = None
  /\ \/ /\ Init
        /\ request = NoRequest /\ annexes = NoTables
     \/ /\ \E d \in Declarations : request = d.request /\ annexes = d.annexes
        /\ text = <<>> /\ shown = {} /\ negative = FALSE /\ rest = <<>>
        /\ parser = DefaultParser /\ outcome = Idle

ParseDate ==
  /\ request # NoRequest /\ date = None
  /\ date' = FromIso(request.on)
  /\ UNCHANGED <<declared, entry, period, selected, value, parsing>>

ClassifyGood ==
  /\ date.ok /\ entry = None
  /\ entry' = Classify(request.code, date.val)
  /\ UNCHANGED <<declared, date, period, selected, value, parsing>>

DeterminePeriod ==
  /\ date.ok /\ period = None
  /\ period' = PeriodOf(date.val)
  /\ UNCHANGED <<declared, date, entry, selected, value, parsing>>

(* default_value or precursor_default_value up to the parse of the text.   *)
SelectValue ==
  /\ period.ok /\ selected = None
  /\ LET code == NormalizeCnCode(request.code)
         found == IF code.ok THEN Sources(code.val) ELSE {}
     IN  IF found # {}
           THEN /\ \E source \in found :
                     /\ selected' = Ok([source |-> source, markup |-> Markup(request.sector, period.val)])
                     /\ FromStr(source.row.total)
                /\ UNCHANGED value
           ELSE /\ selected' = IF code.ok THEN Err("NoDefaultValue") ELSE code
                /\ value' = selected'
                /\ UNCHANGED parsing
  /\ UNCHANGED <<declared, date, entry, period>>

Assemble ==
  /\ selected.ok /\ value = None /\ Done
  /\ value' = AndThen(outcome, LAMBDA base : Applied(base, selected.val.markup))
  /\ UNCHANGED <<declared, date, entry, period, selected, parsing>>

DefaultsNext ==
  \/ Next /\ UNCHANGED <<declared, results>>
  \/ ParseDate
  \/ ClassifyGood
  \/ DeterminePeriod
  \/ SelectValue
  \/ Assemble

DefaultsSpec == DefaultsInit /\ [][DefaultsNext]_<<declared, results, parsing>>

-----------------------------------------------------------------------------

(***************************************************************************)
(* Both implementations of a date accept exactly the texts of the days of  *)
(* the Gregorian calendar, each day by one text, and compare them in the   *)
(* order of the days, although one of them never looks at the month        *)
(* (period.rs:29-52, date.rs:28-50, and the derived order).                *)
(***************************************************************************)
DatesAreTheCalendar ==
  date # None =>
    LET fields == IsoFields(request.on)
    IN  /\ date = InterpreterFromIso(request.on)
        /\ date.ok <=> fields.ok /\ IsReal(fields.val)
        /\ date.ok => /\ DateText(date.val) = request.on
                      /\ \A other \in {DEFINITIVE_PERIOD, Date(2024, 2, 29), Date(2100, 3, 1)} :
                           NotAfter(other, date.val) <=> DayNumber(other) <= DayNumber(date.val)

(***************************************************************************)
(* The entry that classifies a good is the most specific one that covers   *)
(* its code, in force that day: an entry not yet or no longer in force     *)
(* keeps the good out of scope even where a broader one is in force        *)
(* (scope.rs:93-96).  And a good in scope has a reporting period: the      *)
(* definitive period and the first year, constants of two files, agree.    *)
(***************************************************************************)
ScopeIsTheMostSpecificEntry ==
  entry # None =>
    LET digits == Only(request.code, 0 .. 9)[Len(request.code)]
        covering == {e \in ToSet(ScopeEntries) : IsPrefix(e.cn_code, digits)}
        inForce(e) == /\ DayNumber(e.applies_from) <= DayNumber(date.val)
                      /\ e.applies_to # NO_LIMIT => DayNumber(date.val) <= DayNumber(e.applies_to)
    IN  /\ entry.ok => /\ entry.val \in covering /\ inForce(entry.val)
                       /\ \A e \in covering : Len(e.cn_code) <= Len(entry.val.cn_code)
                       /\ period # None => period.ok
        /\ entry = Err("OutOfScope") =>
             \A e \in covering : inForce(e) => \E f \in covering : IsStrictPrefix(e.cn_code, f.cn_code)

(* The interpreter's row selection over the same rows, as Tables has it.   *)
T == INSTANCE Tables WITH TableFiles <- <<>>, Calendar <- <<>>

InterpreterSelects(rows, country, code) ==
  LET cells == [k \in DOMAIN rows |-> [cn_code |-> T!Text(rows[k].cn_code), country |-> T!Text(<<rows[k].country>>)]]
  IN  T!SelectRow(cells, <<[column |-> "country", value |-> <<country>>, prefix |-> FALSE],
                           [column |-> "cn_code", value |-> code, prefix |-> TRUE]>>)

(***************************************************************************)
(* The governing row of a good is the most specific of its country; only   *)
(* when it has none, or that row shows no value, do the other countries    *)
(* apply, and a broader row of the country never does; of rows with one    *)
(* code the first counts (parameters/README, "Regenerating the default     *)
(* values").  The interpreter's table look-up selects the same row of the  *)
(* country.                                                                *)
(***************************************************************************)
SelectsTheGoverningRow ==
  (selected # None /\ request.good /\ selected # Err("InvalidCnCode")) =>
    LET code == NormalizeCnCode(request.code).val
        covers(row) == IsPrefix(row.cn_code, code)
        governing(rows) ==
          {k \in DOMAIN rows : covers(rows[k]) /\ \A j \in DOMAIN rows : covers(rows[j]) =>
             \/ Len(rows[j].cn_code) < Len(rows[k].cn_code)
             \/ Len(rows[j].cn_code) = Len(rows[k].cn_code) /\ j >= k}
        valued(rows) == {rows[k] : k \in {g \in governing(rows) : rows[g].total # NoTotal}}
        country == valued(Of(annexes.rows, request.country))
        expected == IF country # {} THEN country ELSE valued(annexes.other_countries)
    IN  /\ selected.ok <=> expected # {}
        /\ selected.ok => selected.val.source.row \in expected
        /\ \A row \in country :
             annexes.rows[InterpreterSelects(annexes.rows, request.country, code)] = row

(***************************************************************************)
(* The value applied is the decimal of the selected row with the mark-up   *)
(* of sector and year on top (one per cent for fertilisers, else ten more  *)
(* per year up to thirty), less than a unit and a fifth from the exact     *)
(* product whatever the two roundings, and it is refused only for a        *)
(* malformed text or a product beyond the range.                           *)
(***************************************************************************)
AppliedIsTheMarkedUpText ==
  (selected.ok /\ value # None) =>
    LET percent == IF request.sector = "fertilisers" THEN 1 ELSE Min({30, 10 * (period.val - 2025)})
        exact  == Signed(Denoted(Body)) * (100 + percent)
        scaled == 100 * TenTo[Places(Body)]   (* exact / scaled is the product *)
    IN  /\ value.ok <=> WellFormed(Body) /\ Signed(DenotedUnits(Body)) * (100 + percent) * SCALE \in 100 * MIN .. 100 * MAX
        /\ value.ok =>
             2 * Magnitude(value.val.applied * scaled - exact * SCALE) <= TenTo[Places(Body)] * (200 + percent)

=============================================================================
