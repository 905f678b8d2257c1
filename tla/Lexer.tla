------------------------------- MODULE Lexer -------------------------------
(***************************************************************************)
(* The lexer (src/lexer.c): lexer_next_token over one text, which ends in  *)
(* a NUL.  A character stands for all those that no rule tells from it.    *)
(* The values of literals and the interning of words are left out (for the *)
(* latter see StrTab).  The texts are given as alphabets, each with the    *)
(* greatest length of its texts.                                           *)
(***************************************************************************)
EXTENDS Integers, FiniteSets, SequencesExt

CONSTANTS
  Alphabets, \* records [chars, length]
  Keywords   \* the words that are keywords

VARIABLES
  text,
  current,        \* the position of the next character, counted from 1
  line, column,
  token,          \* the last token
  from,           \* the position behind the token before it
  lost            \* a character behind the NUL has been read

vars == <<text, current, line, column, token, from, lost>>

----------------------------------------------------------------------------
(* Characters.                                                             *)

NUL == "NUL"
Quote == "\""
Apostrophe == "'"
Backslash == "\\"
Newline == "\n"

Blanks == {" ", "\t", "\r", Newline}
Digits == {"0", "1"}
Letters == {"a", "e", "o", "r", "u", "x"}
HexDigits == Digits \cup {"a", "e"}
WordChars == Letters \cup Digits

\* A text ends at its first NUL; and keywords are looked up among the words.
ASSUME LexerAssumption ==
  /\ \A a \in Alphabets : a.length \in Nat /\ NUL \notin a.chars
  /\ \A word \in Keywords : word \in Seq(WordChars) /\ word # <<>> /\ word[1] \in Letters

\* The operators of one character; those of two; and there is one of three.
Singles == {"(", ")", "{", "}", "[", "]", ",", ":", ";", "|", "#", "~", "^", "%", "+",
            "*", "/", ".", "-", "=", "!", "<", ">", "&"}
Pairs == {<<":", "=">>, <<".", ".">>, <<"-", ">">>, <<"=", "=">>, <<"!", "=">>, <<"<", "=">>,
          <<"<", "<">>, <<">", "=">>, <<">", ">">>}

\* peek, peek_next and peek_after_next, which do not read behind the NUL.
End == Len(text) + 1
At(i) == IF i < End THEN text[i] ELSE NUL
Lexeme(i, j) == SubSeq(text, i, j - 1)

\* The first position from i on at which there is none of chars.
RunEnd(i, chars) ==
  CHOOSE j \in i .. End : At(j) \notin chars /\ \A k \in i .. j - 1 : At(k) \in chars

----------------------------------------------------------------------------
(* skip_whitespace_and_comments.                                           *)

IsDash(i) == At(i) = "-"
ThreeDashes(i) == IsDash(i) /\ IsDash(i + 1) /\ IsDash(i + 2)

\* Behind a comment --- ... --- (that may lack its end) whose text begins at i.
CommentEndPast(i) ==   \* a mutant: steps over the dashes of the end even if there are none
  Min({j \in i .. End : ThreeDashes(j) \/ j = End}) + 3
CommentEnd(i) ==
  LET ends == {j \in i .. End : ThreeDashes(j)} IN
  IF ends = {} THEN End ELSE Min(ends) + 3
LineEnd(i) == Min({j \in i .. End : At(j) \in {Newline, NUL}})

SkipLines(i) ==   \* a mutant: there are no comments but those of a line
  LET skip[k \in Nat] ==
        IF At(k) \in Blanks THEN skip[k + 1]
        ELSE IF IsDash(k) /\ IsDash(k + 1) THEN skip[LineEnd(k + 2)]
        ELSE k
  IN skip[i]
Skip(i) ==
  LET skip[k \in Nat] ==
        IF At(k) \in Blanks THEN skip[k + 1]
        ELSE IF ThreeDashes(k) THEN skip[CommentEnd(k + 3)]
        ELSE IF IsDash(k) /\ IsDash(k + 1) THEN skip[LineEnd(k + 2)]
        ELSE k
  IN skip[i]

----------------------------------------------------------------------------
(* Where the tokens end that begin at i.                                   *)

\* number: 0x1, 1.0, 1.0e+1 and 1; the exponent may lack its digits.
NumberEndDot(i) ==   \* a mutant: 1. is a number
  LET digits == RunEnd(i, Digits) IN
  IF At(digits) = "." THEN RunEnd(digits + 1, Digits) ELSE digits
NumberEnd(i) ==
  LET digits == RunEnd(i, Digits)
      fraction == RunEnd(digits + 1, Digits) IN
  IF At(i) = "0" /\ At(i + 1) = "x"
  THEN IF At(i + 2) \in HexDigits THEN RunEnd(i + 2, HexDigits) ELSE i + 1
  ELSE IF At(digits) = "." /\ At(digits + 1) \in Digits
  THEN IF At(fraction) = "e"
       THEN RunEnd(fraction + (IF At(fraction + 1) \in {"+", "-"} THEN 2 ELSE 1), Digits)
       ELSE fraction
  ELSE digits

IsFloat(i) == LET digits == RunEnd(i, Digits) IN
  /\ ~(At(i) = "0" /\ At(i + 1) = "x")
  /\ At(digits) = "." /\ At(digits + 1) \in Digits

\* string_lit, of what follows the quote: the closing quote, the NUL, or what is
\* behind the NUL if the last character is a backslash.
ClosingUnguarded(i) ==   \* a mutant: the NUL ends no string
  LET closing[k \in 1 .. End + 1] ==
        IF k > End \/ At(k) = Quote THEN k
        ELSE IF At(k) = Backslash /\ k < End THEN closing[k + 2] ELSE closing[k + 1]
  IN closing[i]
Closing(i) ==
  LET closing[k \in 1 .. End + 1] ==
        IF k > End \/ At(k) \in {Quote, NUL} THEN k
        ELSE IF At(k) = Backslash THEN closing[k + 2] ELSE closing[k + 1]
  IN closing[i]

\* The newlines in it that are no escapes: they are counted twice.
Escaped(i, k) == (k - 1 - Max({j \in i - 1 .. k - 1 : j = i - 1 \/ At(j) # Backslash})) % 2 = 1
CountedTwice(i, j) == Cardinality({k \in i .. j - 1 : At(k) = Newline /\ ~Escaped(i, k)})

\* char_literal: behind the character or escape that begins at i (decode_escape);
\* \u takes four digits, or fewer.
Decoded(i) ==
  IF At(i) # Backslash THEN i + 1
  ELSE IF At(i + 1) # "u" THEN i + 2
  ELSE Min({i + 6, RunEnd(i + 2, HexDigits)})

OperatorEnd(i) ==
  IF <<At(i), At(i + 1)>> \notin Pairs THEN i + 1
  ELSE IF At(i) = "." /\ At(i + 2) = "=" THEN i + 3
  ELSE i + 2

----------------------------------------------------------------------------
(* The steps: each is a call of lexer_next_token.                          *)

\* lexer_init
Init ==
  /\ \E a \in Alphabets : \E n \in 0 .. a.length : text \in [1 .. n -> a.chars]
  /\ current = 1
  /\ line = 1
  /\ column = 1
  /\ token = [kind |-> "none", start |-> 1, length |-> 0, line |-> 1, column |-> 1]
  /\ from = 1
  /\ lost = FALSE

\* advance, up to j; and make_token, error_token, of what that leaves.
Newlines(i, j) == {k \in i .. j - 1 : At(k) = Newline}
LineAt(j) == line + Cardinality(Newlines(current, j))
ColumnAtRun(j) ==   \* a mutant: a newline does not begin the columns anew
  column + j - current
ColumnAt(j) ==
  IF Newlines(current, j) = {} THEN column + j - current ELSE j - Max(Newlines(current, j))

TokenCounting(kind, i, j, more) ==
  /\ lost' = FALSE
  /\ current' = j
  /\ line' = LineAt(j) + more
  /\ column' = ColumnAt(j)
  /\ token' = [kind |-> kind, start |-> i, length |-> j - i,
               line |-> line', column |-> column' - (j - i)]
  /\ from' = current
  /\ UNCHANGED text
Token(kind, i, j) == TokenCounting(kind, i, j, 0)

\* What comes of reading behind the NUL is unknown.
Lose ==
  /\ lost' = TRUE
  /\ UNCHANGED <<text, current, line, column, token, from>>

EndOfText(i) == At(i) = NUL /\ Token("EOF", i, i)

Word(i) ==
  /\ At(i) \in Letters
  /\ LET j == RunEnd(i, WordChars) IN
     Token(IF Lexeme(i, j) \in Keywords THEN "keyword" ELSE "IDENTIFIER", i, j)

Number(i) ==
  /\ At(i) \in Digits
  /\ Token(IF IsFloat(i) THEN "FLOAT_LITERAL" ELSE "INT_LITERAL", i, NumberEnd(i))

String(i) ==
  /\ At(i) = Quote
  /\ LET j == Closing(i + 1)
         twice == CountedTwice(i + 1, j) IN
     IF j > End THEN Lose
     ELSE IF At(j) = NUL THEN TokenCounting("INVALID", i, j, twice)
     ELSE TokenCounting("STRING_LITERAL", i, j + 1, twice)

Character(i) ==
  /\ At(i) = Apostrophe
  /\ LET j == Decoded(i + 1) IN
     IF j > End THEN Lose
     ELSE IF At(j) = Apostrophe THEN Token("CHAR_LITERAL", i, j + 1)
     ELSE Token("INVALID", i, j)

Operator(i) == At(i) \in Singles /\ Token("operator", i, OperatorEnd(i))

InvalidStays(i) ==   \* a mutant: the character is not consumed
  /\ At(i) \notin Letters \cup Digits \cup Singles \cup {Quote, Apostrophe, NUL}
  /\ Token("INVALID", i, i)
Invalid(i) ==
  /\ At(i) \notin Letters \cup Digits \cup Singles \cup {Quote, Apostrophe, NUL}
  /\ Token("INVALID", i, i + 1)

Next ==
  /\ ~lost
  /\ \E start \in {Skip(current)} :
       \/ EndOfText(start)
       \/ Word(start)
       \/ Number(start)
       \/ String(start)
       \/ Character(start)
       \/ Operator(start)
       \/ Invalid(start)

\* The parser asks for tokens until there is an EOF (it calls the lexer while it
\* advances, and Parser shows that it does).
Spec == Init /\ [][Next]_vars /\ WF_vars(Next)

----------------------------------------------------------------------------
(* Properties.                                                             *)

TypeOK ==
  /\ current \in 1 .. End
  /\ line \in 1 .. 2 * Len(text) + 1
  /\ column \in 1 .. End
  /\ token.start \in from .. End
  /\ token.start + token.length = current
  /\ lost \in BOOLEAN

\* The words of the language's lexical grammar.
InClass(s, chars) == s # <<>> /\ ToSet(s) \subseteq chars
IsWord(s) == s # <<>> /\ s[1] \in Letters /\ ToSet(s) \subseteq WordChars
IsInt(s) ==
  \/ InClass(s, Digits)
  \/ Len(s) > 2 /\ s[1] = "0" /\ s[2] = "x" /\ InClass(SubSeq(s, 3, Len(s)), HexDigits)
IsReal(s) == \E p \in DOMAIN s, e \in 2 .. Len(s) + 1 :
  /\ p < e
  /\ s[p] = "."
  /\ InClass(SubSeq(s, 1, p - 1), Digits)
  /\ InClass(SubSeq(s, p + 1, e - 1), Digits)
  /\ e <= Len(s) => /\ s[e] = "e"
                    /\ \/ ToSet(SubSeq(s, e + 1, Len(s))) \subseteq Digits
                       \/ /\ e < Len(s) /\ s[e + 1] \in {"+", "-"}
                          /\ ToSet(SubSeq(s, e + 2, Len(s))) \subseteq Digits
IsOperator(s) ==
  s \in {<<c>> : c \in Singles} \cup Pairs \cup {<<".", ".", "=">>}

Kinds(s) ==
  CASE s \in Keywords -> {"keyword"}
    [] IsWord(s) /\ s \notin Keywords -> {"IDENTIFIER"}
    [] IsInt(s) -> {"INT_LITERAL"}
    [] IsReal(s) -> {"FLOAT_LITERAL"}
    [] IsOperator(s) -> {"operator"}
    [] OTHER -> {}

\* A word, a number and an operator are as long as they can be: none is cut short
\* by what it begins like, and none runs into what follows it.
LongestMatch ==
  token.kind \in {"keyword", "IDENTIFIER", "INT_LITERAL", "FLOAT_LITERAL", "operator"} =>
    /\ token.kind \in Kinds(Lexeme(token.start, current))
    /\ \A j \in current + 1 .. End : Kinds(Lexeme(token.start, j)) = {}

\* What the comments of lexer.c call a comment, "Multiline: --- ... ---" and "Single
\* line: --", at i .. j - 1.
IsComment(i, j) ==
  /\ IsDash(i) /\ IsDash(i + 1)
  /\ IF IsDash(i + 2)
     THEN \/ /\ j >= i + 6
             /\ ThreeDashes(j - 3)
             /\ \A k \in i + 3 .. j - 4 : ~ThreeDashes(k)
          \/ j = End /\ \A k \in i + 3 .. End : ~ThreeDashes(k)
     ELSE At(j) \in {Newline, NUL} /\ Newlines(i, j) = {}

\* What lies at i .. j - 1 can be cut into blanks and whole comments.
Gap(i, j) == \E cuts \in SUBSET (i .. j) :
  /\ {i, j} \subseteq cuts
  /\ \A c \in cuts \ {j} :
       \/ At(c) \in Blanks /\ c + 1 \in cuts
       \/ \E e \in cuts : e >= c + 2 /\ IsComment(c, e)

\* Between two tokens there are blanks and whole comments, nothing else; so every
\* character of the text is in a token, in a comment or a blank.  A newline is a
\* blank like any other to skip_whitespace_and_comments.
GapsBlank == Gap(from, token.start)

\* What lexer_test.c expects of lexer_next_token, `ASSERT_TOKEN(&L, TOKEN_NEWLINE,
\* "\n")` behind a line: outside of comments no newline is passed over.
NewlinesAreTokens ==
  \A k \in from .. token.start - 1 :
    At(k) = Newline => \E i \in from .. k, j \in k + 1 .. token.start : IsComment(i, j)

\* The line of a token is that of its end, and too large by at most the number of
\* newlines behind the first quote of the text, because string_lit counts a newline
\* that advance counts too; its column is that of its first character in its line,
\* if it is of one line.
TrueLine == 1 + Cardinality({k \in 1 .. current - 1 : At(k) = Newline})
InDoubt ==
  {k \in 1 .. current - 1 : At(k) = Newline /\ \E q \in 1 .. k - 1 : At(q) = Quote}
LineStart(i) == Max({0} \cup {k \in 1 .. i - 1 : At(k) = Newline})
Located ==
  /\ line \in TrueLine .. TrueLine + Cardinality(InDoubt)
  /\ LineStart(token.start) = LineStart(current) =>
       token.column = token.start - LineStart(token.start)

\* "Every diagnostic must point to the right source location" (FEATURES.md): the
\* line of a token of one line, from which diagnostics get theirs, is the line it is in.
LinesTrue == LineStart(token.start) = LineStart(current) => line = TrueLine

\* Only a text that breaks off in a literal, after a backslash or an apostrophe,
\* leads the lexer behind its end.
LostAtEnd == lost => Last(text) \in {Backslash, Apostrophe}

\* Every text has an end that the lexer comes to.
Termination == <>(token.kind = "EOF" \/ lost)
=============================================================================
