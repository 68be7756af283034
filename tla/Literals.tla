-------------------------------- MODULE Literals --------------------------------
(***************************************************************************)
(* The value of an integer literal: read_number (tokenizer.c) gathers the  *)
(* digits in a signed integer that must not overflow, and parse_literal    *)
(* (parser.c) puts the sign in front afterwards.                           *)
(***************************************************************************)
EXTENDS Integers

CONSTANTS
  IntMax,       \* INT64_MAX
  Digits,       \* the digits numbers are written in, 0 to 9
  MaxDigits     \* a bound: the longest run of digits

\* The check on the next digit divides INT64_MAX - digit, which must not be
\* negative.
ASSUME IntMaxAssumption == IntMax \in Nat /\ IntMax >= 9
ASSUME DigitsAssumption == Digits \subseteq 0..9
ASSUME MaxDigitsAssumption == MaxDigits \in Nat

VARIABLES
  negative,       \* a minus came first
  length,         \* digits read so far
  value,          \* read_number's accumulator
  out_of_range,
  exact,          \* not part of the program: what the digits are worth
  literal         \* the literal once parsed, NoLiteral before

number_vars == <<negative, length, value, out_of_range, exact, literal>>

NoLiteral == [done |-> FALSE, integer |-> 0, out_of_range |-> FALSE]

NumberInit ==
  /\ negative = FALSE
  /\ length = 0 /\ value = 0 /\ out_of_range = FALSE /\ exact = 0
  /\ literal = NoLiteral

\* read_number is called, perhaps after a minus; the last number is forgotten.
read_number(sign) ==
  /\ negative' = sign
  /\ length' = 0 /\ value' = 0 /\ out_of_range' = FALSE /\ exact' = 0
  /\ literal' = NoLiteral

\* Mutant of Overflows: the digit about to be added is not allowed for.
OverflowsLater(v, digit) == v > IntMax \div 10

\* Whether value * 10 + digit would not fit.
Overflows(v, digit) == v > (IntMax - digit) \div 10

ReadDigit(digit) ==
  /\ ~literal.done /\ length < MaxDigits
  /\ IF ~out_of_range /\ ~Overflows(value, digit)
     THEN value' = value * 10 + digit /\ UNCHANGED out_of_range
     ELSE out_of_range' = TRUE /\ UNCHANGED value
  /\ exact' = exact * 10 + digit
  /\ length' = length + 1
  /\ UNCHANGED <<negative, literal>>

Signed(v) == IF negative THEN -v ELSE v

\* The literal takes the number's value, negated after a minus, and its flag.
parse_literal ==
  /\ ~literal.done /\ length > 0
  /\ literal' = [done |-> TRUE, integer |-> Signed(value), out_of_range |-> out_of_range]
  /\ UNCHANGED <<negative, length, value, out_of_range, exact>>

NumberNext ==
  \/ \E sign \in BOOLEAN : read_number(sign)
  \/ \E digit \in Digits : ReadDigit(digit)
  \/ parse_literal

NumberSpec == NumberInit /\ [][NumberNext]_number_vars

-----------------------------------------------------------------------------
NumberTypeOK ==
  /\ negative \in BOOLEAN /\ length \in 0..MaxDigits
  /\ value \in 0..IntMax /\ out_of_range \in BOOLEAN /\ exact \in Nat
  /\ literal \in [done : BOOLEAN, integer : -IntMax..IntMax, out_of_range : BOOLEAN]

\* The accumulator is what the digits are worth until that does not fit:
\* value * 10 + digit is computed only when it fits, so no step overflows.
NumberExact ==
  /\ out_of_range <=> exact > IntMax
  /\ ~out_of_range => value = exact

\* An absurdly long number is flagged instead of wrapping, and no number that
\* fits is; a literal that is not flagged is worth what is written, its sign
\* included.  -IntMax - 1, which fits with its sign, is flagged without it.
LiteralExact ==
  literal.done =>
    /\ literal.out_of_range <=> exact > IntMax
    /\ ~literal.out_of_range => literal.integer = IF negative THEN -exact ELSE exact

=============================================================================
