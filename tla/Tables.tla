------------------------------- MODULE Tables -------------------------------
(***************************************************************************)
(* The interpreter's access to parameter tables (kaimeter-interpreter,     *)
(* src/rule.rs): the row a list of bound predicates selects, and the cell  *)
(* read from it.                                                           *)
(*                                                                         *)
(* A row maps columns to cells, either a text or something else; a row     *)
(* that is no JSON object has no columns and so matches no predicate.      *)
(***************************************************************************)
EXTENDS Values, FiniteSetsExt, SequencesExt

CONSTANTS
  TableFiles,  (* parameters/<name>.json: table name |-> Ok(rows) or Err   *)
  Calendar     (* the texts that are ISO dates, in calendar order; a bound *)

ASSUME CalendarAssumption == \A j, k \in DOMAIN Calendar : Calendar[j] = Calendar[k] => j = k

-----------------------------------------------------------------------------

(* Date::from_iso, as the place of the text in the calendar. *)
DateOf(text) ==
  LET places == {k \in DOMAIN Calendar : Calendar[k] = text}
  IN  IF places = {} THEN Err("InvalidDate") ELSE Ok(CHOOSE k \in places : TRUE)

-----------------------------------------------------------------------------
(* Row selection.  A bound predicate is [column, value, prefix].           *)

NoScore == -1

(* prefix_score: the cell must be a non-empty prefix. *)
PrefixScore(cell, value) ==
  IF cell # <<>> /\ IsPrefix(cell, value) THEN Len(cell) ELSE NoScore

MatchPredicate(cell, predicate) ==
  IF predicate.prefix THEN PrefixScore(cell, predicate.value)
  ELSE IF cell = predicate.value THEN 0 ELSE NoScore

Score(row, predicate) ==
  IF predicate.column \in DOMAIN row /\ Is(row[predicate.column], "text")
    THEN MatchPredicate(row[predicate.column].text, predicate)
    ELSE NoScore

(* match_row: the total length of the prefixes, when every predicate holds. *)
MatchRow(row, predicates) ==
  LET total[n \in 0 .. Len(predicates)] ==
        IF n = 0 THEN 0
        ELSE IF total[n - 1] = NoScore \/ Score(row, predicates[n]) = NoScore THEN NoScore
        ELSE total[n - 1] + Score(row, predicates[n])
  IN  total[Len(predicates)]

Scores(rows, predicates) == [k \in 1 .. Len(rows) |-> MatchRow(rows[k], predicates)]

(* Mutant: of equal scores the last row wins. *)
SelectRowLast(rows, predicates) ==
  LET scores == Scores(rows, predicates)
      best[n \in 0 .. Len(rows)] ==
        IF n = 0 THEN 0
        ELSE IF scores[n] # NoScore /\ (best[n - 1] = 0 \/ scores[n] >= scores[best[n - 1]]) THEN n
        ELSE best[n - 1]
  IN  best[Len(rows)]

(* select_row: the loop keeps the best row so far, and leaves at the first *)
(* match when no predicate is a prefix.  Zero when no row matches.         *)
SelectRow(rows, predicates) ==
  LET scores == Scores(rows, predicates)
      prefix == \E n \in DOMAIN predicates : predicates[n].prefix
      best[n \in 0 .. Len(rows)] ==
        IF n = 0 THEN 0
        ELSE IF scores[n] # NoScore /\ (best[n - 1] = 0 \/ (prefix /\ scores[n] > scores[best[n - 1]])) THEN n
        ELSE best[n - 1]
  IN  best[Len(rows)]

(* string_cell and the conversion of the cell. *)
ReadCell(row, column, cell) ==
  IF column \notin DOMAIN row THEN Err("MissingColumn")
  ELSE IF ~Is(row[column], "text") THEN Err("NonStringCell")
  ELSE IF cell = "text" THEN Ok(Text(row[column].text))
  ELSE LET number == ParseWhole(row[column].text)
       IN  IF number.ok THEN Ok(Scalar(number.val)) ELSE Err("InvalidTableScalar")

=============================================================================
