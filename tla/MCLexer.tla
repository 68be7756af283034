------------------------------- MODULE MCLexer -------------------------------
(***************************************************************************)
(* Lines for module Lexer: blanks, comments and strings; the symbols and   *)
(* odd bytes; keywords in either case, and digits that run into names;     *)
(* numbers after a minus.                                                  *)
(***************************************************************************)
EXTENDS Lexer

MCAlphabets ==
  {{" ", "newline", "r", "'", "-"}, {"r", "<", "=", ">", "!", "lead", "cont", "#"},
   {"o", "r", "O", "1", " "}, {"1", "-", " ", "("}}
MCKeywords == {<<"o", "r">>}

=============================================================================
