------------------------------- MODULE Dates --------------------------------
(***************************************************************************)
(* Calendar dates and reporting periods.  The plain evaluator and the      *)
(* interpreter each have a Date of their own (kaimeter-rules,              *)
(* src/common/period.rs; kaimeter-interpreter, src/date.rs), which differ  *)
(* in how they reject a month; the rest of the two files is the same.      *)
(* A text is a sequence of symbols: a digit 0..9, HYPHEN, or another.      *)
(***************************************************************************)
EXTENDS FixedPoint, Numerals

HYPHEN == 11

InvalidDate == Err("InvalidDate")

(* parse_field: digits only; four of them stay below 2^16. *)
ParseField(bytes) ==
  IF \A k \in DOMAIN bytes : bytes[k] \in 0 .. 9
    THEN Ok(Written(bytes)[Len(bytes)]) ELSE InvalidDate

ParseU8(bytes) ==
  AndThen(ParseField(bytes), LAMBDA n : IF n < 256 THEN Ok(n) ELSE InvalidDate)

(* Mutant: every fourth year is a leap year. *)
IsJulianLeapYear(year) == year % 4 = 0

IsLeapYear(year) == year % 4 = 0 /\ (year % 100 # 0 \/ year % 400 = 0)

DaysInMonth(year, month) ==
  IF month \in {1, 3, 5, 7, 8, 10, 12} THEN 31
  ELSE IF month \in {4, 6, 9, 11} THEN 30
  ELSE IF month = 2 THEN (IF IsLeapYear(year) THEN 29 ELSE 28)
  ELSE 0

Date(year, month, day) == [year |-> year, month |-> month, day |-> day]

(* Date::from_parts of the plain evaluator. *)
FromParts(d) ==
  IF d.year = 0 \/ d.month = 0 \/ d.month > 12 \/ d.day = 0 \/ d.day > DaysInMonth(d.year, d.month)
    THEN InvalidDate ELSE Ok(d)

(* What FromParts lets through. *)
ValidDates == {d \in [year : Nat, month : Nat, day : Nat] : FromParts(d).ok}

(* Date::from_parts of the interpreter: the days of the month decide alone. *)
InterpreterFromParts(d) ==
  IF d.year = 0 \/ d.day = 0 \/ d.day > DaysInMonth(d.year, d.month) THEN InvalidDate ELSE Ok(d)

(* The fields from_iso reads, before it calls from_parts. *)
IsoFields(text) ==
  IF Len(text) # 10 \/ text[5] # HYPHEN \/ text[8] # HYPHEN THEN InvalidDate
  ELSE AndThen(ParseField(SubSeq(text, 1, 4)), LAMBDA year :
       AndThen(ParseU8(SubSeq(text, 6, 7)), LAMBDA month :
       AndThen(ParseU8(SubSeq(text, 9, 10)), LAMBDA day : Ok(Date(year, month, day)))))

FromIso(text) == AndThen(IsoFields(text), FromParts)

InterpreterFromIso(text) == AndThen(IsoFields(text), InterpreterFromParts)

(* Display: {:04}-{:02}-{:02}. *)
DateText(d) ==
  Padded(d.year, 4) \o <<HYPHEN>> \o Padded(d.month, 2) \o <<HYPHEN>> \o Padded(d.day, 2)

(* The derived order: fields from the year down. *)
NotAfter(a, b) ==
  \/ a.year < b.year
  \/ a.year = b.year /\ a.month < b.month
  \/ a.year = b.year /\ a.month = b.month /\ a.day <= b.day

-----------------------------------------------------------------------------
(* ReportingPeriod.                                                        *)

FIRST_YEAR == 2026

PeriodNew(year) == IF year < FIRST_YEAR THEN Err("UnsupportedPeriod") ELSE Ok(year)

PeriodOf(date) == PeriodNew(date.year)

-----------------------------------------------------------------------------
(* The Gregorian calendar as a count of days, for reference: years of      *)
(* 365.2425 days that begin in March, months of 30.6.                      *)

DayNumber(d) ==
  LET y == IF d.month > 2 THEN d.year ELSE d.year - 1
      m == (d.month + 9) % 12
  IN  365 * y + y \div 4 - y \div 100 + y \div 400 + (153 * m + 2) \div 5 + d.day

(* A date is real when it comes before the first of the next month. *)
NextMonth(d) ==
  IF d.month = 12 THEN Date(d.year + 1, 1, 1) ELSE Date(d.year, d.month + 1, 1)

IsReal(d) ==
  /\ d.year > 0 /\ d.month \in 1 .. 12 /\ d.day > 0
  /\ DayNumber(d) < DayNumber(NextMonth(d))

=============================================================================
