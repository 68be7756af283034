------------------------------- MODULE Tokenizer -------------------------------
(***************************************************************************)
(* tokenizer_next (tokenizer.c): a line of SQL cut into tokens, one byte   *)
(* at a time: blanks and comments skipped, names and keywords, numbers,    *)
(* strings with doubled quotes, symbols of one and two characters, and     *)
(* bytes no token starts with.                                             *)
(*                                                                         *)
(* Bytes that are treated alike share one character: "(" stands for the    *)
(* symbols of one byte that begin no other, "#" for ASCII bytes no token   *)
(* starts with, "lead" and "cont" for the first and the other bytes of a   *)
(* UTF-8 sequence.  What an integer is worth is module Literals' question. *)
(***************************************************************************)
EXTENDS Integers, SequencesExt

CONSTANTS
  Alphabets,   \* sets of characters; a line is written in one of them
  MaxLength,   \* a bound: the longest line
  Keywords     \* the reserved words, each a sequence of lower-case letters

VARIABLES
  line,       \* the input, NUL-terminated in the code
  position,   \* the next unread character, from 1 here
  start,      \* where the token at work starts
  at,         \* where tokenizer_next stands
  tokens      \* the tokens returned so far

vars == <<line, position, start, at, tokens>>

CharAt(i) == IF i <= Len(line) THEN line[i] ELSE "NUL"
Here == CharAt(position)
Following == CharAt(position + 1)

Letters == {"o", "r", "O"}
is_space(c) == c \in {" ", "newline"}
is_digit(c) == c = "1"
is_name_start(c) == c \in Letters
is_name_char(c) == is_name_start(c) \/ is_digit(c)
ascii_lower(c) == IF c = "O" THEN "o" ELSE c

Text(from, length) == SubSeq(line, from, from + length - 1)

keyword_or_identifier(text) ==
  IF \E word \in Keywords :
       Len(word) = Len(text) /\ \A i \in DOMAIN text : ascii_lower(text[i]) = word[i]
  THEN "keyword" ELSE "name"

Init ==
  /\ line \in UNION {BoundedSeq(A, MaxLength) : A \in Alphabets}
  /\ position = 1 /\ start = 1 /\ at = "blanks" /\ tokens = <<>>

-----------------------------------------------------------------------------
GoOn(from, to, length) ==
  /\ at = from /\ at' = to
  /\ position' = position + length
  /\ UNCHANGED <<line, start, tokens>>

\* The token ends before `end` and is returned; the next call begins there.
Emit(type, end) ==
  /\ tokens' = Append(tokens, [type |-> type, start |-> start, length |-> end - start])
  /\ position' = end
  /\ at' = IF type = "END" THEN "end" ELSE "blanks"
  /\ UNCHANGED <<line, start>>

SkipSpace == is_space(Here) /\ GoOn("blanks", "blanks", 1)
BeginComment == Here = "-" /\ Following = "-" /\ GoOn("blanks", "comment", 0)
\* Mutant of SkipComment: a comment swallows the rest of the line.
SkipToEnd == Here # "NUL" /\ GoOn("comment", "comment", 1)
SkipComment == Here \notin {"NUL", "newline"} /\ GoOn("comment", "comment", 1)
EndComment == Here \in {"NUL", "newline"} /\ GoOn("comment", "blanks", 0)

\* The first character of a token decides its kind.
FirstKind(c) ==
  CASE c = "NUL" -> "done"
    [] is_name_start(c) -> "name"
    [] is_digit(c) -> "number"
    [] c = "'" -> "string"
    [] OTHER -> "symbol"

BeginToken ==
  /\ at = "blanks"
  /\ ~is_space(Here) /\ ~(Here = "-" /\ Following = "-")
  /\ start' = position
  /\ at' = FirstKind(Here)
  /\ position' = IF Here = "'" THEN position + 1 ELSE position
  /\ UNCHANGED <<line, tokens>>

EndOfInput == at = "done" /\ Emit("END", position)

NameChar == is_name_char(Here) /\ GoOn("name", "name", 1)
EndName ==
  /\ at = "name" /\ ~is_name_char(Here)
  /\ Emit(keyword_or_identifier(Text(start, position - start)), position)

\* read_number: digits, and whatever name they run into.
Digit == is_digit(Here) /\ GoOn("number", "number", 1)
EndNumber == at = "number" /\ ~is_name_char(Here) /\ Emit("integer", position)
RunOn == is_name_char(Here) /\ ~is_digit(Here) /\ GoOn("number", "malformed", 0)
RunOnChar == is_name_char(Here) /\ GoOn("malformed", "malformed", 1)
EndMalformed == at = "malformed" /\ ~is_name_char(Here) /\ Emit("malformed number", position)

\* read_string: two quotes in a row stand for one.
StringChar == Here \notin {"NUL", "'"} /\ GoOn("string", "string", 1)
DoubledQuote == Here = "'" /\ Following = "'" /\ GoOn("string", "string", 2)
EndString == at = "string" /\ Here = "'" /\ Following # "'" /\ Emit("string", position + 1)
Unterminated == at = "string" /\ Here = "NUL" /\ Emit("unterminated string", position)

-----------------------------------------------------------------------------
\* read_symbol

Pairs == {<<"!", "=">>, <<"<", "=">>, <<"<", ">">>, <<">", "=">>}
Singles == {"(", "-", "=", "<", ">"}

\* A UTF-8 sequence is taken whole, so that the message shows the character.
SymbolLength ==
  LET AllCont(n) == \A i \in 1..n : CharAt(position + i) = "cont"
  IN  IF <<Here, Following>> \in Pairs THEN 2
      ELSE IF Here \in {"lead", "cont"}
           THEN 1 + CHOOSE n \in 0..Len(line) : AllCont(n) /\ ~AllCont(n + 1)
           ELSE 1

Symbol ==
  /\ at = "symbol"
  /\ Emit(IF <<Here, Following>> \in Pairs \/ Here \in Singles THEN "symbol"
          ELSE "unrecognized character", position + SymbolLength)

\* Every step but those on which the value of a number depends: BeginToken,
\* Digit and EndNumber.
OtherStep ==
  \/ SkipSpace \/ BeginComment \/ SkipComment \/ EndComment
  \/ EndOfInput
  \/ NameChar \/ EndName
  \/ RunOn \/ RunOnChar \/ EndMalformed
  \/ StringChar \/ DoubledQuote \/ EndString \/ Unterminated
  \/ Symbol

-----------------------------------------------------------------------------
\* unescape_string (parser.c), which trusts the tokenizer: the content without
\* its quotes, and of every quote in it the next character skipped.
\* Mutant of unescape_string: quotes stay doubled.
KeepQuotes(text) == SubSeq(text, 2, Len(text) - 1)

unescape_string(text) ==
  LET content == SubSeq(text, 2, Len(text) - 1)
      from[i \in Nat] ==
        IF i > Len(content) THEN <<>>
        ELSE <<content[i]>> \o from[IF content[i] = "'" THEN i + 2 ELSE i + 1]
  IN  from[1]

Escape(text) == FlattenSeq([i \in DOMAIN text |-> IF text[i] = "'" THEN <<"'", "'">> ELSE <<text[i]>>])

-----------------------------------------------------------------------------
End(token) == token.start + token.length
Said(token) == Text(token.start, token.length)

\* A run of one character class that nothing could make longer.
Run(token, Class(_)) ==
  (\A i \in DOMAIN Said(token) : Class(Said(token)[i])) /\ ~is_name_char(CharAt(End(token)))

\* Between its outer quotes, the quotes of a string come in pairs.
Paired(text) ==
  \A i \in DOMAIN text : text[i] = "'" =>
    \E lo \in 1..i, hi \in i..Len(text) :
      /\ \A j \in lo..hi : text[j] = "'"
      /\ lo = 1 \/ text[lo - 1] # "'"
      /\ hi = Len(text) \/ text[hi + 1] # "'"
      /\ (hi - lo) % 2 = 1

\* What a token of each type looks like, and that it could not have been longer.
Lexeme(token) ==
  LET text == Said(token)
      next == CharAt(End(token))
  IN  CASE token.type = "END" -> token.start = Len(line) + 1 /\ token.length = 0
        [] token.type \in {"name", "keyword"} ->
             /\ Run(token, is_name_char) /\ is_name_start(text[1])
             /\ (token.type = "keyword") <=> [i \in DOMAIN text |-> ascii_lower(text[i])] \in Keywords
        [] token.type = "integer" -> Run(token, is_digit)
        [] token.type = "malformed number" ->
             /\ Run(token, is_name_char) /\ is_digit(text[1])
             /\ \E i \in DOMAIN text : is_name_start(text[i])
        [] token.type = "string" ->
             /\ token.length >= 2 /\ text[1] = "'" /\ Last(text) = "'" /\ next # "'"
             /\ Paired(SubSeq(text, 2, token.length - 1))
        [] token.type = "unterminated string" ->
             /\ text[1] = "'" /\ End(token) = Len(line) + 1
             /\ Paired(Tail(text))
        [] token.type = "symbol" ->
             \/ text \in Pairs
             \/ Len(text) = 1 /\ text[1] \in Singles /\ <<text[1], next>> \notin Pairs
        [] token.type = "unrecognized character" ->
             \/ text \in {<<"#">>, <<"!">>} /\ <<text[1], next>> \notin Pairs
             \/ /\ text[1] \in {"lead", "cont"} /\ next # "cont"
                /\ \A i \in 2..Len(text) : text[i] = "cont"

\* A character between two tokens is a blank, or belongs to a comment that
\* starts between them and whose line has not ended.
Blank(i, from) ==
  \/ is_space(line[i])
  \/ \E c \in from..i :
       /\ line[c] = "-" /\ CharAt(c + 1) = "-"
       /\ \A j \in c..i : line[j] # "newline"

\* The tokens cover the line: each is what its type says and as long as it can
\* be, they do not overlap, and all that is left out are blanks and comments.
\* And the line's NUL is never stepped past, whatever quote, comment or half
\* symbol the line breaks off in.
TokensCoverLine ==
  /\ position <= Len(line) + 1
  /\ \A n \in DOMAIN tokens :
       LET from == IF n = 1 THEN 1 ELSE End(tokens[n - 1])
       IN  /\ Lexeme(tokens[n])
           /\ from <= tokens[n].start
           /\ \A i \in from..(tokens[n].start - 1) : Blank(i, from)

\* unescape_string takes every quote inside for one of a pair: written again
\* with its quotes doubled, a string is the token it came from.
StringsReadBack ==
  \A n \in DOMAIN tokens :
    tokens[n].type = "string" =>
      <<"'">> \o Escape(unescape_string(Said(tokens[n]))) \o <<"'">> = Said(tokens[n])

=============================================================================
