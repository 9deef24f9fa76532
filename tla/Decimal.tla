------------------------------ MODULE Decimal -------------------------------
(***************************************************************************)
(* Decimal text to Fixed and back (kaimeter-interpreter, src/fixed.rs):    *)
(* the streaming parser behind every scalar of rules.json, of a parameter  *)
(* table and of an invocation, and the Display that prints an output.      *)
(*                                                                         *)
(* A text is a sequence of symbols: a digit 0..9, a point, a sign, or any  *)
(* other byte (numbers, so that TLC compares them).  The parser reads it a *)
(* symbol at a time and keeps only SCALE_DIGITS decimals plus what         *)
(* rounding them needs.                                                    *)
(***************************************************************************)
EXTENDS FixedPoint, Numerals, FiniteSetsExt

CONSTANTS
  SCALE_DIGITS,  (* decimals of a Fixed, 6 in the code             *)
  Digits,        (* digits the enumerated texts are made of        *)
  MaxLength      (* longest enumerated text, the sign not included *)

ASSUME DecimalAssumption ==
  /\ SCALE_DIGITS \in Nat \ {0}
  /\ SCALE = TenTo[SCALE_DIGITS]
  /\ Digits \subseteq 0 .. 9
  /\ MaxLength \in Nat

VARIABLES
  text,     (* the text being parsed                                *)
  shown,    (* history: the values text was displayed from, if any  *)
  negative, (* its sign, once split off                             *)
  rest,     (* the symbols not consumed yet                         *)
  parser,   (* DecimalParser                                        *)
  outcome   (* Pending, then the Result of from_str                 *)

vars == <<text, shown, negative, rest, parser, outcome>>

DOT   == 10
MINUS == 11
PLUS  == 12
OTHER_BYTE == 13

Pending == Err("Pending")

NoExtra == -1

DefaultParser ==
  [integer |-> 0, fraction |-> 0, fraction_digits |-> 0, extra_first |-> NoExtra,
   extra_nonzero |-> FALSE, seen_dot |-> FALSE, seen_digit |-> FALSE]

-----------------------------------------------------------------------------
(* Display: the sign, the whole part, a point, SCALE_DIGITS decimals.      *)

WholeDigits(n) == Padded(n, Width(n))

(* Mutant: the decimals are printed without leading zeros. *)
UnpaddedDigits(n) == WholeDigits(n)

PaddedDigits(n) == Padded(n, SCALE_DIGITS)

Display(x) ==
  (IF x < 0 THEN <<MINUS>> ELSE <<>>)
    \o WholeDigits(Magnitude(x) \div SCALE)
    \o <<DOT>>
    \o PaddedDigits(Magnitude(x) % SCALE)

-----------------------------------------------------------------------------
(* The texts a run parses: every short one, and every displayed value.     *)

Symbols == Digits \cup {DOT, OTHER_BYTE}

ShortTexts == UNION {[1 .. n -> Symbols] : n \in 0 .. MaxLength}

SignedTexts ==
  UNION {{sign \o digits : sign \in {<<>>, <<MINUS>>, <<PLUS>>}} : digits \in ShortTexts}

HasSign(t) == t # <<>> /\ Head(t) \in {MINUS, PLUS}

Unsigned(t) == IF HasSign(t) THEN Tail(t) ELSE t

(* from_str splits the sign off; a text without anything else is refused. *)
Init ==
  /\ \/ text \in SignedTexts /\ shown = {}
     \/ \E x \in Range128 : text = Display(x) /\ shown = {x}
  /\ negative = (HasSign(text) /\ Head(text) = MINUS)
  /\ rest = Unsigned(text)
  /\ parser = DefaultParser
  /\ outcome = IF rest = <<>> THEN Err("InvalidDecimal") ELSE Pending

(* The same start in the course of a computation. *)
FromStr(t) ==
  /\ text' = t /\ shown' = {}
  /\ negative' = (HasSign(t) /\ Head(t) = MINUS)
  /\ rest' = Unsigned(t)
  /\ parser' = DefaultParser
  /\ outcome' = IF Unsigned(t) = <<>> THEN Err("InvalidDecimal") ELSE Pending

(* consume: the first point switches to the decimals.                      *)
ConsumeDot ==
  /\ outcome = Pending /\ rest # <<>>
  /\ Head(rest) = DOT /\ ~parser.seen_dot
  /\ parser' = [parser EXCEPT !.seen_dot = TRUE]
  /\ rest' = Tail(rest)
  /\ UNCHANGED <<text, shown, negative, outcome>>

(* consume: anything else that is not a digit, a second point included.    *)
ConsumeInvalid ==
  /\ outcome = Pending /\ rest # <<>>
  /\ \/ Head(rest) = DOT /\ parser.seen_dot
     \/ Head(rest) \notin (0 .. 9) \cup {DOT}
  /\ outcome' = Err("InvalidDecimal")
  /\ UNCHANGED <<text, shown, negative, rest, parser>>

(* consume_integer: the whole part is checked as it grows.                 *)
ConsumeInteger ==
  /\ outcome = Pending /\ rest # <<>>
  /\ Head(rest) \in 0 .. 9 /\ ~parser.seen_dot
  /\ LET grown == AndThen(Checked(parser.integer * 10), LAMBDA n : Checked(n + Head(rest)))
     IN  IF grown.ok
           THEN /\ parser' = [parser EXCEPT !.integer = grown.val, !.seen_digit = TRUE]
                /\ rest' = Tail(rest)
                /\ UNCHANGED outcome
           ELSE /\ outcome' = grown
                /\ UNCHANGED <<parser, rest>>
  /\ UNCHANGED <<text, shown, negative>>

(* Mutant: forgets whether a later decimal is not zero. *)
TakeFractionForgetful(p, digit) ==
  IF p.fraction_digits < SCALE_DIGITS
    THEN [p EXCEPT !.fraction = @ * 10 + digit, !.fraction_digits = @ + 1]
  ELSE IF p.extra_first = NoExtra THEN [p EXCEPT !.extra_first = digit]
  ELSE p

(* consume_fraction: past SCALE_DIGITS only the first digit is kept, and   *)
(* whether any later one is not zero.                                      *)
TakeFraction(p, digit) ==
  IF p.fraction_digits < SCALE_DIGITS
    THEN [p EXCEPT !.fraction = @ * 10 + digit, !.fraction_digits = @ + 1]
  ELSE IF p.extra_first = NoExtra THEN [p EXCEPT !.extra_first = digit]
  ELSE [p EXCEPT !.extra_nonzero = @ \/ digit # 0]

ConsumeFraction ==
  /\ outcome = Pending /\ rest # <<>>
  /\ Head(rest) \in 0 .. 9 /\ parser.seen_dot
  /\ parser' = [TakeFraction(parser, Head(rest)) EXCEPT !.seen_digit = TRUE]
  /\ rest' = Tail(rest)
  /\ UNCHANGED <<text, shown, negative, outcome>>

(* finish: rounds the kept decimals half to even, then scales, checking    *)
(* each step, and negates last.                                            *)
ScaledFraction(p) == p.fraction * TenTo[SCALE_DIGITS - p.fraction_digits]

RoundUp(p) ==
  \/ p.extra_first > 5
  \/ p.extra_first = 5 /\ (p.extra_nonzero \/ ScaledFraction(p) % 2 = 1)

(* Mutant: a text without digits is zero. *)
FinishedWithoutDigits(p, neg) ==
  AndThen(Checked(p.integer * SCALE), LAMBDA whole :
  AndThen(Checked(whole + ScaledFraction(p)), LAMBDA m :
  AndThen(Checked(m + (IF RoundUp(p) THEN 1 ELSE 0)), LAMBDA magnitude :
    IF neg THEN TryNeg(magnitude) ELSE Ok(magnitude))))

Finished(p, neg) ==
  IF ~p.seen_digit
    THEN Err("InvalidDecimal")
    ELSE AndThen(Checked(p.integer * SCALE), LAMBDA whole :
         AndThen(Checked(whole + ScaledFraction(p)), LAMBDA m :
         AndThen(Checked(m + (IF RoundUp(p) THEN 1 ELSE 0)), LAMBDA magnitude :
           IF neg THEN TryNeg(magnitude) ELSE Ok(magnitude))))

Finish ==
  /\ outcome = Pending /\ rest = <<>>
  /\ outcome' = Finished(parser, negative)
  /\ UNCHANGED <<text, shown, negative, rest, parser>>

Next ==
  \/ ConsumeDot
  \/ ConsumeInvalid
  \/ ConsumeInteger
  \/ ConsumeFraction
  \/ Finish

Spec == Init /\ [][Next]_vars

-----------------------------------------------------------------------------
(* What an unsigned text denotes, read as a whole and without limits.      *)

Denoted(s) == Written(s)[Len(s)]

Dots(s) == {k \in 1 .. Len(s) : s[k] = DOT}

Point(s) == IF Dots(s) = {} THEN 0 ELSE Min(Dots(s))

Places(s) == IF Point(s) = 0 THEN 0 ELSE Len(s) - Point(s)

WellFormed(s) ==
  /\ \E k \in 1 .. Len(s) : s[k] \in 0 .. 9
  /\ \A k \in 1 .. Len(s) : s[k] \in 0 .. 9 \/ k = Point(s)

(* The magnitude denoted, rounded half to even at the scale. *)
DenotedUnits(s) == RoundedQuotient(Denoted(s) * SCALE, TenTo[Places(s)])

Signed(n) == IF negative THEN -n ELSE n

Body == Unsigned(text)

Done == outcome # Pending

(***************************************************************************)
(* A parsed text is the decimal it writes, rounded half to even once: the  *)
(* sticky bit of extra digits and the parity test of finish lose nothing,  *)
(* however many decimals follow the kept ones (fixed.rs:202-223).          *)
(***************************************************************************)
ParsesNearestEven ==
  (Done /\ outcome.ok) =>
    IsNearestEven(outcome.val, Signed(Denoted(Body)) * SCALE, TenTo[Places(Body)])

(***************************************************************************)
(* A text is accepted exactly when it is a well-formed decimal whose       *)
(* rounded magnitude fits: the checks of consume_integer, made on a part   *)
(* of the number, and the three of finish reject nothing else.             *)
(***************************************************************************)
AcceptsDecimalsInRange ==
  Done => (outcome.ok <=> WellFormed(Body) /\ DenotedUnits(Body) <= MAX)

(***************************************************************************)
(* Parsing what Display prints gives the value back, MIN excepted: its     *)
(* magnitude is one more than MAX and finish scales before it negates.     *)
(***************************************************************************)
DisplayRoundTrips ==
  Done => \A x \in shown \ {MIN} : outcome = Ok(x)

(***************************************************************************)
(* fixed.rs:249-250: Overflow is returned when the integer part leaves the *)
(* scaled range, so a text whose integer part fits and whose value is      *)
(* representable is accepted.                                              *)
(***************************************************************************)
OverflowsOnlyOutOfRange ==
  (Done /\ outcome = Err("Overflow")) =>
    Signed(DenotedUnits(Body)) \notin Range128

=============================================================================
