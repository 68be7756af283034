-------------------------------- MODULE Lexer --------------------------------
(***************************************************************************)
(* A line cut into tokens (module Tokenizer), with the value of each       *)
(* number gathered on the way and taken by the parser between two calls of *)
(* tokenizer_next (module Literals).                                       *)
(***************************************************************************)
EXTENDS Literals, Sequences

CONSTANTS Alphabets, MaxLength, Keywords

VARIABLES line, position, start, at, tokens

Tok == INSTANCE Tokenizer

tokenizer_vars == <<line, position, start, at, tokens>>
all_vars == <<number_vars, tokenizer_vars>>

LexInit == NumberInit /\ Tok!Init

\* The parser takes an integer token before it asks for the next one.
LiteralDue ==
  /\ at = "blanks" /\ tokens # <<>> /\ tokens[Len(tokens)].type = "integer"
  /\ length > 0 /\ ~literal.done

AfterMinus == tokens # <<>> /\ Tok!Said(tokens[Len(tokens)]) = <<"-">>

BeginNumber == Tok!BeginToken /\ at' = "number" /\ read_number(AfterMinus)
BeginOther == Tok!BeginToken /\ at' # "number" /\ UNCHANGED number_vars
NumberDigit == Tok!Digit /\ \E digit \in Digits : ReadDigit(digit)
OtherStep == Tok!EndNumber \/ Tok!OtherStep

LexNext ==
  \/ ~LiteralDue /\ (BeginNumber \/ BeginOther \/ NumberDigit)
  \/ ~LiteralDue /\ OtherStep /\ UNCHANGED number_vars
  \/ LiteralDue /\ parse_literal /\ UNCHANGED tokenizer_vars

LexSpec == LexInit /\ [][LexNext]_all_vars

-----------------------------------------------------------------------------
\* The properties of the tokens (module Tokenizer).
TokensCoverLine == Tok!TokensCoverLine
StringsReadBack == Tok!StringsReadBack

=============================================================================
