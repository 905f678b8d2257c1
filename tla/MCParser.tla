------------------------------ MODULE MCParser ------------------------------
(***************************************************************************)
(* Inputs for the parser: one correct program per construct, the same      *)
(* programs with one token dropped or replaced or cut off at any place,    *)
(* and all expressions of up to two operators.                             *)
(***************************************************************************)
EXTENDS Parser, SequencesExt

\* "nl" stands for a line break.
Lines(text) == {i \in 1 .. Len(text) : text[i] = "nl"}
Tokens(text) ==
  SelectSeq([i \in 1 .. Len(text) |->
               [kind |-> text[i],
                line |-> 1 + Cardinality({j \in Lines(text) : j < i})]],
            LAMBDA token : token.kind # "nl")

-----------------------------------------------------------------------------
(* Programs                                                                *)

Statements == {
  <<"return", "int">>, <<"return", "nl">>, <<"break", ";">>, <<"continue", ";", ";">>,
  <<"if", "id", "{", "}", "else", "if", "lit", "{", "}", "else", "{", "}">>,
  <<"while", "id", "<", "int", "{", "id", "=", "id", "+", "int", "}">>,
  <<"for", "(", "int", "..", "int", ")", "|", "*", "id", ",", "id", "|", "{", "}">>,
  <<"loop", "{", "break", "}">>,
  <<"match", "id", "{", "id", "(", "f", ":", "id", ",", "id", ")", "if", "id", "->",
    "id", ",", "id", ".", "id", "(", "id", ")", "->", "{", "}", "int", "->", "int", "}">>,
  <<"unsafe", "{", "*", "id", "=", "int", "}">>,
  <<"{", "{", "}", "}">>,
  <<"const", "prim", "id", "=", "int", "nl", "id", ":=", "id", "(", "id", ":", "int",
    ",", "int", ")", "nl", "(", "id", ")">>,
  <<"prim", "id", ",", "id", "=", "(", "int", ",", "int", ",", ")">>,
  <<"id", ".", "id", "id", "=", "[", "int", ",", "int", "]">>,
  <<"[", "int", "]", "prim", "id", "nl", "*", "id", "id", "nl", "!", "prim", "id">>,
  <<"(", "prim", ",", "(", "id", ",", "id", ")", ")", "id", "=", "id">>,
  <<"id", "=", "asm", "{", "str", "}", "->", "id">>,
  <<"id", "=", "volatile", "*", "id", "nl", "*", "id", "=", "int">>,
  <<"promote", "(", "&", "id", ")", "as", "dynamic">>,
  <<"id", "=", "sizeof", "(", "(", ")", ")">>,
  <<"id", "=", "id", "(", ")", "catch", "|", "id", "|", "{", "}">>,
  <<"id", ".", "id", "(", ")", "nl", "return", "error", ".", "id", ".", "id">>}

Declarations == {
  <<"#", "[", "id", "(", "int", ")", "]", "stack", "f", "id", "(", "self", ",", "id", ":",
    "*", "prim", ")", "=", "id", ":", "!", "J", "id", "=", "id">>,
  <<"dynamic", "f", "id", "(", ")", "=", "id", ":", "prim", "nl", "{", "f", "id", "(", ")",
    "{", "}", "}">>,
  <<"pub", "type", "id", "=", "{", "#", "[", "id", "]", "volatile", "id", ":", "prim", "=",
    "int", ",", "id", ":", "id", ".", "id", "}">>,
  <<"type", "id", "=", "id", ":", "prim", ",", "id", ":", "[", "int", "]", "prim">>,
  <<"type", "id", "=", "|", "id", "|", "id", "(", "prim", ",", "prim", ")">>,
  <<"schema", "id", ":", "id", "=", "{", "id", ":", "prim", "id", ":", "prim", "=", "str",
    ",", "}">>,
  <<"method", "id", "for", "id", "{", "regional", "f", "id", "(", "self", ")", "{", "}",
    "}">>,
  <<"interface", "id", "{", "f", "id", "(", "self", ")", "=", "id", ":", "prim", "f", "id",
    "(", ")", "}">>,
  <<"error", "id", "=", "{", "|", "id", "|", "id", "}">>,
  <<"mod", "id", "{", "pub", "f", "id", "(", ")", "{", "}", "prim", "id", "=", "int", "}">>,
  <<"use", "id", ".", "id", "nl", "extern", "prim", "id">>,
  <<"extern", "f", "id", "(", "id", ":", "prim", ")", "=", "id", ":", "prim">>}

Main == <<"f", "id", "(", ")", "{", "}", "nl">>
Inside == <<"f", "id", "(", ")", "{">>

Whole(statement) == Inside \o statement \o <<"}", "nl">> \o Main

Programs == {Whole(s) : s \in Statements} \union {d \o Main : d \in Declarations}

-----------------------------------------------------------------------------
(* Broken programs                                                         *)

Damaged(t) ==
  {RemoveAt(t, i) : i \in 1 .. Len(t)}
  \union {ReplaceAt(t, i, kind) : i \in 1 .. Len(t), kind \in {"}", ","}}

Cut(t) == {SubSeq(t, 1, i) : i \in 1 .. Len(t)}

Broken ==
  UNION {{Whole(t) : t \in Damaged(s)} \union {Inside \o t : t \in Cut(s)}
           : s \in Statements}
  \union UNION {{t \o Main : t \in Damaged(d)} \union Cut(d) : d \in Declarations}

-----------------------------------------------------------------------------
(* Expressions: trees are lists <<operator, operand, ...>>                 *)

Leaf == <<"leaf">>

Binaries == {"=", "catch", "or", "and", "==", "<", "&", "^", "+", "-", "*", "..", "/"}
PrefixOps == {"prefix", "try"}
SuffixOps == {"as", "field", "index", "call"}

Over(operands) ==
  {<<op, a, b>> : op \in Binaries, a \in operands, b \in operands}
  \union {<<op, a>> : op \in PrefixOps \union SuffixOps, a \in operands}

Trees == LET One == Over({Leaf}) IN
  {Leaf} \union One
    \union {<<op, a, Leaf>> : op \in Binaries, a \in One}
    \union {<<op, Leaf, a>> : op \in Binaries, a \in One}
    \union {<<op, a>> : op \in PrefixOps \union SuffixOps, a \in One}

\* How tightly an operator binds, from the left and from the right: what
\* follows a range joins its upper bound if it binds at least as "+" does.
Strength(op) ==
  CASE op = "=" -> 1 [] op = "catch" -> 2 [] op = "try" -> 3 [] op = "or" -> 4
    [] op = "and" -> 5 [] op = "==" -> 6 [] op = "<" -> 7
    [] op \in {"&", "^"} -> 8 [] op \in {"+", "-"} -> 9 [] op \in {"*", "/"} -> 10
    [] op = "prefix" -> 11 [] op = "as" -> 12
    [] op \in {"field", "index", "call", ".."} -> 13 [] op = "leaf" -> 14

StrengthBefore(op) == IF op = ".." THEN 8 ELSE Strength(op)

\* The least strength of an operand that stands without parentheses: binary
\* operators associate to the left, but for assignment.
LeftLeast(op) == IF op = "=" THEN 2 ELSE Strength(op)
RightLeast(op) == CASE op \in {"=", "try", "prefix"} -> Strength(op)
                    [] op = "catch" -> 3 [] op = ".." -> 9
                    [] OTHER -> Strength(op) + 1

Wrapped(text, bare) == IF bare THEN text ELSE <<"(">> \o text \o <<")">>

RECURSIVE Written(_), Nodes(_)

Written(tree) ==
  LET op == Head(tree)
      L == Wrapped(Written(tree[2]),
                   StrengthBefore(Head(tree[2])) >= LeftLeast(op))
      R == LET last == tree[Len(tree)] IN
           Wrapped(Written(last), Strength(Head(last)) >= RightLeast(op))
  IN CASE op = "leaf" -> <<"id">>
       [] op = "prefix" -> <<"!">> \o R
       [] op = "try" -> <<"try">> \o R
       [] op = "as" -> L \o <<"as", "prim">>
       [] op = "field" -> L \o <<".", "id">>
       [] op = "index" -> L \o <<"[", "id", "]">>
       [] op = "call" -> L \o <<"(", ")">>
       [] OTHER -> L \o <<op>> \o R

\* The order in which the nodes of a tree are built, operands first
Nodes(tree) ==
  FlattenSeq([i \in 1 .. (Len(tree) - 1) |-> Nodes(tree[i + 1])])
    \o (IF Head(tree) = "index" THEN <<"leaf">> ELSE <<>>) \o <<Head(tree)>>

-----------------------------------------------------------------------------

File(text, correct, nodes) ==
  [tokens |-> Tokens(Append(text, "EOF")), correct |-> correct, nodes |-> nodes]

MCInputs ==
  {File(t, TRUE, <<>>) : t \in Programs}
  \union {File(t, FALSE, <<>>) : t \in Broken}
  \union {File(<<"return">> \o Written(t), TRUE, Nodes(t)) : t \in Trees}
=============================================================================
