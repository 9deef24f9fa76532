------------------------------ MODULE Numerals ------------------------------
(***************************************************************************)
(* Numbers and their decimal digits, as the parsers and the Displays of    *)
(* Fixed and Date share them.  A text is a sequence of numbers, of which   *)
(* 0 .. 9 are the digits.                                                  *)
(***************************************************************************)
EXTENDS Integers, Sequences

(* Powers of ten. *)
TenTo[n \in Nat] == IF n = 0 THEN 1 ELSE 10 * TenTo[n - 1]

(* The number that the digits among the first symbols of a text write, for *)
(* every count of symbols: `n * 10 + digit`, symbol by symbol.             *)
Written(s) ==
  LET number[n \in 0 .. Len(s)] ==
        IF n = 0 THEN 0
        ELSE IF s[n] \in 0 .. 9 THEN 10 * number[n - 1] + s[n] ELSE number[n - 1]
  IN  number

(* {:0width}, of a number with no more digits than that. *)
Padded(n, width) == [i \in 1 .. width |-> (n \div TenTo[width - i]) % 10]

(* {}: the shortest of them. *)
Width(n) == CHOOSE w \in 1 .. n + 1 : n < TenTo[w] /\ (w > 1 => TenTo[w - 1] <= n)

=============================================================================
