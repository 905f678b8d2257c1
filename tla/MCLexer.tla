------------------------------ MODULE MCLexer ------------------------------
(* All the short texts of some alphabets: one for each part of the lexer. *)
EXTENDS Lexer

MCAlphabets ==
  { [chars |-> {"-", Newline, "a", ">"}, length |-> 8],
    [chars |-> {"0", "1", "x", "e", ".", "+"}, length |-> 6],
    [chars |-> {Quote, Apostrophe, Backslash, Newline, "u", "1"}, length |-> 5],
    [chars |-> {".", "=", "<", ":", "o", "r", " ", "@"}, length |-> 4] }
MCKeywords == {<<"o", "r">>}
=============================================================================
