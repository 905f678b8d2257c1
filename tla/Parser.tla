------------------------------ MODULE Parser ------------------------------
(***************************************************************************)
(* The recursive-descent parser of the compiler (src/parser.c): what it    *)
(* consumes, when it gives up on a construct, what it reports, and how it  *)
(* goes on after an error.                                                 *)
(*                                                                         *)
(* The C call stack is todo: what is left to do, innermost first.  Each    *)
(* parse function is an action of its own that replaces its call by its    *)
(* body for the tokens ahead; a token the body expects, a token it takes   *)
(* whatever it is, and a node it builds are items of todo as well.  A      *)
(* function that returns NULL makes its callers return NULL, one by one,   *)
(* up to a loop that calls synchronize, or to a caller that does not look  *)
(* at the result: there the item CarryOn stands behind the call.           *)
(*                                                                         *)
(* Tokens that no function tells apart share a kind: "prim" the keywords   *)
(* of the primitive types, "lit" literals other than integers and strings, *)
(* "dynamic" also gc, "regional" also flex, "sizeof" also alignof, "^"     *)
(* also the shifts, "+" and "/" and "<" and "==" and ".." their groups.    *)
(* Nodes are left out but for those of expressions, whose order of         *)
(* construction (in out) is the shape of the tree.  The lexer produces no  *)
(* TOKEN_NEWLINE, so skip_newlines does nothing.                           *)
(***************************************************************************)
EXTENDS Naturals, Sequences, FiniteSets

CONSTANT Inputs   \* the files parsed, with what is known of them

Token == [kind : STRING, line : Nat]

\* correct: the file is a program of the language; nodes: the expression
\* nodes of such a file, operands first, or <<>> if they are not followed.
Input == [tokens : Seq(Token), correct : BOOLEAN, nodes : Seq(STRING)]

ASSUME InputsAssumption ==
  \A i \in Inputs :
    /\ i \in Input
    /\ i.tokens # <<>> /\ i.tokens[Len(i.tokens)].kind = "EOF"

VARIABLES
  input,        \* the file
  rest,         \* the tokens from current on
  prev_line,    \* the line of the token consumed last
  panic_mode,
  error_count,
  state,        \* "parsing", "failing" (returning NULL), "skipping", "done"
  todo,
  out,          \* the expression nodes built so far
  reported      \* tokens left when the last error was reported

vars == <<input, rest, prev_line, panic_mode, error_count, state, todo, out,
          reported>>

had_error == error_count > 0

Call(function) == [do |-> "call", what |-> function]
Need(kind) == [do |-> "need", what |-> kind]      \* expect, and stop in panic
Maybe(kind) == [do |-> "maybe", what |-> kind]    \* match, used for a flag
Shift == [do |-> "shift", what |-> ""]                \* advance
Build(node) == [do |-> "build", what |-> node]
CarryOn == [do |-> "carry_on", what |-> ""]

\* The parse functions, and what is left of some when a token has been seen
Functions ==
  {"additive", "after_arg", "and", "args", "arm", "arm_body", "arms", "array",
   "asm_output", "assign", "assigned", "attr_arg", "attrs", "bare_fields",
   "bitwise", "block", "body", "branch", "cast", "casts", "catch", "catches",
   "comma", "comparison", "decl", "declaration", "declarators", "decls", "default",
   "else", "equality", "error_decl", "error_variants", "expr", "extern",
   "extern_what", "field", "field_patterns", "fields", "for", "for_type", "func",
   "guard", "handler", "if", "index", "initialiser", "interface", "loop", "match",
   "method", "method_realm", "methods", "mod", "more_additive", "more_and",
   "more_array", "more_bare_fields", "more_bitwise", "more_comparison",
   "more_equality", "more_fields", "more_multiplicative", "more_or",
   "more_postfix", "more_tuple", "more_types", "multiplicative", "or", "param",
   "params", "parent", "path", "pattern", "pattern_postfix", "payload", "postfix",
   "primary", "program", "result", "result_and_body", "schema", "schema_fields",
   "semicolons", "signature", "signatures", "stmt", "stmts", "struct_pattern",
   "target", "try", "tuple", "tuple_or_group", "tuple_type", "type", "type_body",
   "type_decl", "types", "unary", "unsafe", "use", "value", "var", "variants",
   "while"}

\* The tokens that are expected, and the nodes of expressions
Expected ==
  {"(", ")", "*", ",", "->", ":", "=", "[", "]", "as", "const", "id", "pub", "str",
   "volatile", "{", "|", "}"}
NodeKinds ==
  {"..", "=", "as", "call", "catch", "field", "index", "leaf", "prefix", "try",
   "or", "and", "==", "<", "&", "^", "|", "+", "-", "*", "/"}

Item ==
  [do : {"call"}, what : Functions] \union [do : {"need", "maybe"}, what : Expected]
    \union [do : {"build"}, what : NodeKinds] \union {Shift, CarryOn}

-----------------------------------------------------------------------------
(* The token window                                                        *)

current == rest[1]

\* The kind i tokens ahead of current; the lexer repeats EOF.
Ahead(i) == rest[IF i < Len(rest) THEN i + 1 ELSE Len(rest)].kind

check(kinds) == current.kind \in kinds

OnNewLine == current.line > prev_line

AfterAdvance(tokens) == IF Len(tokens) = 1 THEN tokens ELSE Tail(tokens)

advance ==
  /\ rest' = AfterAdvance(rest)
  /\ prev_line' = current.line

\* Mutant: only the first error of a file is reported.
SuppressedAfterFirst == had_error

\* parser_error: one report, then silence until synchronize.
Suppressed == panic_mode

parser_error ==
  IF Suppressed
  THEN UNCHANGED <<panic_mode, error_count, reported>>
  ELSE /\ panic_mode' = TRUE
       /\ error_count' = error_count + 1
       /\ reported' = Len(rest)

-----------------------------------------------------------------------------
(* Calls and the other items of todo                                       *)

Doing(doing) == state = "parsing" /\ todo # <<>> /\ Head(todo).do = doing

At(function) == Doing("call") /\ Head(todo).what = function

Then(body) ==
  /\ todo' = body \o Tail(todo)
  /\ UNCHANGED <<input, rest, prev_line, panic_mode, error_count, state, out,
                 reported>>

Runs(function, body) == At(function) /\ Then(body)

\* return NULL, with an error reported unless panic_mode forbids it
Refuse ==
  /\ parser_error
  /\ state' = "failing"
  /\ UNCHANGED <<input, rest, prev_line, todo, out>>

Take ==
  /\ advance
  /\ todo' = Tail(todo)
  /\ UNCHANGED <<input, panic_mode, error_count, out, reported>>

Advance == Doing("shift") /\ Take /\ UNCHANGED state

\* expect() consumes the token in panic mode too; its callers then give up.
StateAfterExpect == IF panic_mode THEN "failing" ELSE "parsing"

Expect ==
  /\ Doing("need")
  /\ IF check({Head(todo).what})
     THEN Take /\ state' = StateAfterExpect
     ELSE Refuse

Match ==
  /\ Doing("maybe")
  /\ IF check({Head(todo).what}) THEN Take /\ UNCHANGED state ELSE Then(<<>>)

BuildNode ==
  /\ Doing("build")
  /\ todo' = Tail(todo)
  /\ out' = Append(out, Head(todo).what)
  /\ UNCHANGED <<input, rest, prev_line, panic_mode, error_count, state,
                 reported>>

GoOn == Doing("carry_on") /\ Then(<<>>)

-----------------------------------------------------------------------------
(* Error recovery                                                          *)

\* Mutant: parser_parse returns NULL too.
LoopsInside == {Call(loop) : loop \in
                  {"stmts", "decls", "methods", "signatures", "arms"}}

\* The loops that call synchronize when an element of theirs is NULL
Loops == {Call(loop) : loop \in
            {"program", "stmts", "decls", "methods", "signatures", "arms"}}

GiveUp ==
  /\ state = "failing" /\ todo # <<>> /\ Head(todo) \notin Loops \union {CarryOn}
  /\ todo' = Tail(todo)
  /\ UNCHANGED <<input, rest, prev_line, panic_mode, error_count, state, out,
                 reported>>

\* The result is not looked at: the caller goes on, still in panic mode.
Overlook ==
  /\ state = "failing" /\ todo # <<>> /\ Head(todo) = CarryOn
  /\ state' = "parsing"
  /\ todo' = Tail(todo)
  /\ UNCHANGED <<input, rest, prev_line, panic_mode, error_count, out, reported>>

\* Mutant: the token the error was found at is not skipped.
SynchronizeInPlace ==
  /\ state = "failing" /\ todo # <<>> /\ Head(todo) \in Loops
  /\ panic_mode' = FALSE
  /\ state' = "skipping"
  /\ UNCHANGED <<input, rest, prev_line, error_count, todo, out, reported>>

Synchronize ==
  /\ state = "failing" /\ todo # <<>> /\ Head(todo) \in Loops
  /\ panic_mode' = FALSE
  /\ advance
  /\ state' = "skipping"
  /\ UNCHANGED <<input, error_count, todo, out, reported>>

Realms == {"stack", "regional", "dynamic"}

Stops ==
  {"}", ")", "]", "f", "type", "schema", "method", "interface", "error",
   "mod", "use", "extern", "pub", "volatile", "const", "prim", "*", "[", "(",
   "!", "if", "while", "for", "loop", "match", "unsafe", "return", "break",
   "continue"} \union Realms

\* Mutant: the end of the file does not stop the search.
AtStopBeforeEOF == check(Stops)

AtStop == check(Stops \union {"EOF"})

Skip ==
  /\ state = "skipping"
  /\ IF AtStop
     THEN /\ state' = "parsing"
          /\ UNCHANGED <<rest, prev_line>>
     ELSE /\ advance
          /\ UNCHANGED state
  /\ UNCHANGED <<input, panic_mode, error_count, todo, out, reported>>

-----------------------------------------------------------------------------
(* Types, parameters and arguments                                         *)

AtEnd(closer) == check({closer, "EOF"})

parse_type_expr ==
  /\ At("type")
  /\ \/ check({"*"}) /\ Then(<<Shift, Call("type")>>)
     \/ check({"!"}) /\ Then(<<Shift, Call("type"), CarryOn>>)   \* !void
     \/ check({"["}) /\ Then(<<Shift, Call("expr"), Need("]"), Call("type")>>)
     \/ check({"("}) /\ Then(<<Shift, Call("tuple_type"), Need(")")>>)
     \/ check({"id"}) /\ Ahead(1) = "." /\ Then(<<Shift, Shift, Need("id")>>)
     \/ check({"id"}) /\ Ahead(1) # "." /\ Then(<<Shift>>)
     \/ check({"prim", "J"}) /\ Then(<<Shift>>)
     \/ ~check({"*", "!", "[", "(", "id", "prim", "J"}) /\ Refuse

TupleType ==
  Runs("tuple_type", IF check({")"}) THEN <<>> ELSE <<Call("types")>>)

TypeList ==
  \/ Runs("types", <<Call("type"), Call("more_types")>>)
  \/ Runs("more_types", IF check({","}) THEN <<Shift, Call("types")>> ELSE <<>>)

parse_param ==
  Runs("param", IF check({"self"}) THEN <<Shift>>
                ELSE <<Need("id"), Need(":"), Call("type")>>)

CommaOrCloser ==
  Runs("comma", IF check({")"}) THEN <<>> ELSE <<Need(",")>>)

parse_param_list ==
  Runs("params", IF AtEnd(")") THEN <<>>
                 ELSE <<Call("param"), Call("comma"), Call("params")>>)

parse_arg_list ==
  Runs("args",
       IF AtEnd(")") THEN <<>>
       ELSE (IF check({"id"}) /\ Ahead(1) = ":" THEN <<Shift, Shift>> ELSE <<>>)
              \o <<Call("expr"), Call("after_arg"), Call("args")>>)

\* After the comma the list ends at once if any error was reported before,
\* here or anywhere in the file.
ListCut == had_error

AfterArg ==
  /\ At("after_arg")
  /\ \/ check({")"}) /\ Then(<<>>)
     \/ /\ check({","})
        /\ advance
        /\ todo' = Tail(IF ListCut THEN Tail(todo) ELSE todo)
        /\ UNCHANGED <<input, panic_mode, error_count, state, out, reported>>
     \/ ~check({")", ","}) /\ Refuse

-----------------------------------------------------------------------------
(* Declarations                                                            *)

Signature == <<Need("id"), Need("("), Call("params"), CarryOn, Need(")")>>

\* Whatever the token is, it is taken for the 'f'.
parse_func_decl ==
  \/ Runs("func", <<Shift>> \o Signature \o <<Call("result_and_body")>>)
  \/ Runs("signature", <<Shift>> \o Signature \o <<Call("result")>>)

NamedResult == <<Shift, Need("id"), Need(":"), Call("type")>>

Result == Runs("result", IF check({"="}) THEN NamedResult ELSE <<>>)

ResultAndBody ==
  Runs("result_and_body", IF check({"="}) THEN NamedResult \o <<Call("body")>>
                          ELSE IF check({"{"}) THEN <<Call("block")>> ELSE <<>>)

\* A function that names its result may have one expression on the same line.
Body ==
  Runs("body", IF check({"{"}) THEN <<Call("block")>>
               ELSE IF ~OnNewLine THEN <<Call("expr")>> ELSE <<>>)

parse_attrs ==
  \/ Runs("attrs", IF check({"#"})
                   THEN <<Shift, Need("["), Need("id"), Call("attr_arg"), Need("]"),
                          Call("attrs")>>
                   ELSE <<>>)
  \/ Runs("attr_arg", IF check({"("}) THEN <<Shift, Call("expr"), Need(")")>>
                      ELSE <<>>)

\* Mutant: two names with a dot in between are a type.
QualifiedShort == check({"id"}) /\ Ahead(1) = "." /\ Ahead(2) = "id"

\* Module.Type and the name of a variable, seen with a copy of the lexer
Qualified == check({"id"}) /\ Ahead(1) = "." /\ Ahead(2) = "id" /\ Ahead(3) = "id"

HasType ==
  \/ check({"prim", "*", "[", "!", "("})
  \/ check({"id"}) /\ Ahead(1) = "id"
  \/ Qualified

\* The scan for the parenthesis that closes (T, U) reads on from a lexer that
\* stands behind next2, so that it looks at next and then never at next2.
Scanned == <<Ahead(1)>> \o [i \in 1 .. (Len(rest) - 3) |-> rest[i + 3].kind]

Count(kind, n) == Cardinality({i \in 1..n : Scanned[i] = kind})

Closes(n) == Count(")", n) = Count("(", n) + 1

NameAfterTuple ==
  \E n \in 1 .. (Len(Scanned) - 1) :
    Closes(n) /\ (\A m \in 1 .. (n - 1) : ~Closes(m)) /\ Scanned[n + 1] = "id"

is_var_decl_lookahead ==
  \/ check({"const", "volatile", "prim"})
  \/ check({"id"}) /\ Ahead(1) \in {"id", ":="}
  \/ Qualified
  \/ /\ check({"*", "!"})
     /\ \/ Ahead(1) = "prim"
        \/ Ahead(1) = "id" /\ Ahead(2) \in {"id", ","}
  \/ check({"["}) /\ Ahead(1) \in {"int", "id"} /\ Ahead(2) = "]"
  \/ check({"("}) /\ Len(rest) > 3 /\ NameAfterTuple

parse_var_decl ==
  \/ Runs("var", <<Maybe("const"), Maybe("volatile"), Call("declarators")>>)
  \/ Runs("declarators",
          (IF check({"id"}) /\ Ahead(1) = ":=" THEN <<Shift>>
           ELSE IF HasType THEN <<Call("type"), Need("id")>>
           ELSE <<Need("id")>>) \o <<Call("initialiser")>>)
  \/ Runs("initialiser",
          IF check({","}) THEN <<Shift, Call("declarators")>>
          ELSE IF check({"=", ":="}) THEN <<Shift, Call("expr")>> ELSE <<>>)

DefaultValue ==
  Runs("default", IF check({"="}) THEN <<Shift, Call("expr")>> ELSE <<>>)

FieldDecl == <<Need("id"), Need(":"), Call("type"), Call("default")>>

parse_type_decl ==
  \/ Runs("type_decl", <<Shift, Need("id"), Need("="), Call("type_body")>>)
  \/ Runs("type_body",
          IF check({"|"}) THEN <<Call("variants"), CarryOn>>
          ELSE IF check({"{"}) THEN <<Shift, Call("fields"), Need("}")>>
          ELSE <<Call("bare_fields")>>)
  \/ Runs("fields", IF AtEnd("}") THEN <<>>
                    ELSE <<Call("field"), Call("more_fields")>>)
  \/ Runs("more_fields", IF check({","}) THEN <<Shift, Call("fields")>> ELSE <<>>)
  \/ Runs("bare_fields", IF check({"EOF"}) THEN <<>>
                         ELSE <<Call("field"), Call("more_bare_fields")>>)
  \/ Runs("more_bare_fields",
          IF check({","}) THEN <<Shift, Call("bare_fields")>> ELSE <<>>)
  \/ Runs("field", <<Call("attrs"), CarryOn, Maybe("volatile")>> \o FieldDecl)

parse_variant_decl ==
  \/ Runs("variants", IF check({"|"})
                      THEN <<Shift, Need("id"), Call("payload"), Call("variants")>>
                      ELSE <<>>)
  \/ Runs("payload", IF check({"("}) THEN <<Shift, Call("types"), Need(")")>>
                     ELSE <<>>)

parse_schema_decl ==
  \/ Runs("schema", <<Shift, Need("id"), Call("parent"), Need("="), Need("{"),
                      Call("schema_fields")>>)
  \/ Runs("parent", IF check({":"}) THEN <<Shift, Need("id")>> ELSE <<>>)
  \/ Runs("schema_fields",
          IF AtEnd("}") THEN <<Need("}")>>
          ELSE <<Call("attrs"), CarryOn>> \o FieldDecl
                 \o <<Maybe(","), Call("schema_fields")>>)

parse_method_decl ==
  \/ Runs("method", <<Shift, Need("id"), Call("for_type"), Need("{"), Call("methods")>>)
  \/ Runs("for_type", IF check({"for"}) THEN <<Shift, Need("id")>> ELSE <<>>)
  \/ Runs("methods",
          IF AtEnd("}") THEN <<Need("}")>>
          ELSE <<Call("attrs"), CarryOn, Call("method_realm"), Call("func"),
                 Call("methods")>>)
  \/ Runs("method_realm",
          IF check({"regional", "dynamic"}) THEN <<Shift>> ELSE <<>>)

parse_interface_decl ==
  \/ Runs("interface", <<Shift, Need("id"), Need("{"), Call("signatures")>>)
  \/ Runs("signatures",
          IF AtEnd("}") THEN <<Need("}")>>
          ELSE <<Call("attrs"), CarryOn, Call("signature"), Call("signatures")>>)

parse_error_decl ==
  \/ Runs("error_decl", <<Shift, Need("id"), Need("="), Need("{"),
                          Call("error_variants"), Need("}")>>)
  \/ Runs("error_variants",
          IF check({"|"}) THEN <<Shift, Need("id"), Call("error_variants")>> ELSE <<>>)

parse_mod_decl ==
  \/ Runs("mod", <<Shift, Need("id"), Need("{"), Call("decls")>>)
  \/ Runs("decls", IF AtEnd("}") THEN <<Need("}")>>
                   ELSE <<Call("decl"), Call("decls")>>)

Path == Runs("path", IF check({"."}) THEN <<Shift, Need("id"), Call("path")>>
                     ELSE <<>>)

parse_use_decl == Runs("use", <<Shift, Need("id"), Call("path")>>)

parse_extern_decl ==
  \/ Runs("extern", <<Shift, Call("extern_what")>>)
  \/ Runs("extern_what",
          IF check({"f"}) THEN <<Shift>> \o Signature \o <<Call("result")>>
          ELSE <<Call("type"), Need("id")>>)

\* The tokens a declaration starts with, and the functions that parse it
DeclOf == [f |-> "func", type |-> "type_decl", schema |-> "schema",
           method |-> "method", interface |-> "interface", error |-> "error_decl",
           mod |-> "mod", use |-> "use", extern |-> "extern"]

parse_decl ==
  \/ Runs("decl", <<Call("attrs"), CarryOn, Maybe("pub"), Call("declaration")>>)
  \/ /\ At("declaration")
     /\ \/ check(Realms) /\ Then(<<Shift, Call("func")>>)
        \/ check(DOMAIN DeclOf) /\ Then(<<Call(DeclOf[current.kind])>>)
        \/ /\ ~check(Realms \union DOMAIN DeclOf)
           /\ IF is_var_decl_lookahead THEN Then(<<Call("var")>>) ELSE Refuse

-----------------------------------------------------------------------------
(* Statements and patterns                                                 *)

parse_block ==
  \/ Runs("block", <<Need("{"), Call("stmts")>>)
  \/ Runs("stmts", IF AtEnd("}") THEN <<Need("}")>>
                   ELSE <<Call("stmt"), Call("semicolons"), Call("stmts")>>)
  \/ Runs("semicolons", IF check({";"}) THEN <<Shift, Call("semicolons")>> ELSE <<>>)

parse_if_stmt ==
  \/ Runs("if", <<Shift, Call("expr"), Call("block"), Call("else")>>)
  \/ Runs("else", IF check({"else"}) THEN <<Shift, Call("branch")>> ELSE <<>>)
  \/ Runs("branch", <<Call(IF check({"if"}) THEN "if" ELSE "block")>>)

parse_while_stmt == Runs("while", <<Shift, Call("expr"), Call("block")>>)

parse_for_stmt ==
  \/ Runs("for", <<Shift, Need("("), Call("expr"), Need(")"), Need("|"), Maybe("*"),
                   Need("id"), Call("index"), Need("|"), Call("block")>>)
  \/ Runs("index", IF check({","}) THEN <<Shift, Need("id")>> ELSE <<>>)

parse_loop_stmt == Runs("loop", <<Shift, Call("block")>>)

parse_unsafe_block == Runs("unsafe", <<Shift, Call("block")>>)

parse_struct_pattern ==
  \/ Runs("struct_pattern", <<Shift, Need("("), Call("field_patterns")>>)
  \/ Runs("field_patterns",
          IF AtEnd(")") THEN <<Need(")")>>
          ELSE (IF check({"id", "f"}) /\ Ahead(1) = ":" THEN <<Shift, Shift>>
                ELSE <<>>)
                 \o <<Call("pattern"), Call("comma"), Call("field_patterns")>>)

parse_pattern ==
  \/ Runs("pattern",
          <<Call(IF check({"id"}) /\ Ahead(1) = "(" THEN "struct_pattern"
                 ELSE "primary"), Call("pattern_postfix")>>)
  \/ Runs("pattern_postfix",
          IF check({"."}) THEN <<Shift, Need("id"), Call("pattern_postfix")>>
          ELSE IF check({"("}) THEN <<Shift, Call("args"), CarryOn, Need(")"),
                                      Call("pattern_postfix")>>
          ELSE <<>>)

parse_match_arm ==
  \/ Runs("arm", <<Call("pattern"), Call("guard"), Need("->"), Call("arm_body")>>)
  \/ Runs("guard", IF check({"if"}) THEN <<Shift, Call("expr")>> ELSE <<>>)
  \/ Runs("arm_body", <<Call(IF check({"{"}) THEN "block" ELSE "expr")>>)

parse_match_stmt ==
  \/ Runs("match", <<Shift, Call("expr"), Need("{"), Call("arms")>>)
  \/ Runs("arms", IF AtEnd("}") THEN <<Need("}")>>
                  ELSE <<Call("arm"), Maybe(","), Call("arms")>>)

ReturnValue ==
  Runs("value", IF AtEnd("}") THEN <<>> ELSE <<Call("expr"), CarryOn>>)

\* The tokens a statement starts with, and the functions that parse it
StmtOf == [if |-> "if", while |-> "while", for |-> "for", loop |-> "loop",
           match |-> "match", unsafe |-> "unsafe"]

DeclStarts == {"pub", "#"} \union Realms \union DOMAIN DeclOf

parse_stmt ==
  /\ At("stmt")
  /\ \/ check({"return"}) /\ Then(<<Shift, Call("value")>>)
     \/ check({"break", "continue"}) /\ Then(<<Shift>>)
     \/ check(DOMAIN StmtOf) /\ Then(<<Call(StmtOf[current.kind])>>)
     \/ check({"{"}) /\ Then(<<Call("block")>>)
     \/ check(DeclStarts) /\ Then(<<Call("decl")>>)
     \/ /\ ~check({"return", "break", "continue", "{"} \union DOMAIN StmtOf
                    \union DeclStarts)
        /\ Then(<<Call(IF is_var_decl_lookahead THEN "var" ELSE "expr")>>)

parser_parse ==
  /\ At("program")
  /\ IF check({"EOF"})
     THEN /\ state' = "done"
          /\ todo' = <<>>
          /\ UNCHANGED <<input, rest, prev_line, panic_mode, error_count, out,
                         reported>>
     ELSE Then(<<Call("stmt"), Call("program")>>)

-----------------------------------------------------------------------------
(* Expressions                                                             *)

\* The binary operators from the loosest to the tightest, and whether an
\* operator on a new line starts another statement instead
Levels ==
  <<[name |-> "or", more |-> "more_or", operators |-> {"or"}, line |-> FALSE],
    [name |-> "and", more |-> "more_and", operators |-> {"and"}, line |-> FALSE],
    [name |-> "equality", more |-> "more_equality", operators |-> {"=="},
     line |-> FALSE],
    [name |-> "comparison", more |-> "more_comparison", operators |-> {"<"},
     line |-> TRUE],
    [name |-> "bitwise", more |-> "more_bitwise", operators |-> {"&", "^", "|"},
     line |-> TRUE],
    [name |-> "additive", more |-> "more_additive", operators |-> {"+", "-"},
     line |-> TRUE],
    [name |-> "multiplicative", more |-> "more_multiplicative",
     operators |-> {"*", "/"}, line |-> TRUE]>>

Operand(i) == Call(IF i = 7 THEN "unary" ELSE Levels[i + 1].name)

Continues(level) == check(level.operators) /\ ~(level.line /\ OnNewLine)

parse_binary == \E i \in 1..7 :
  \/ Runs(Levels[i].name, <<Operand(i), Call(Levels[i].more)>>)
  \/ Runs(Levels[i].more,
          IF Continues(Levels[i])
          THEN <<Shift, Operand(i), Build(current.kind), Call(Levels[i].more)>>
          ELSE <<>>)

parse_unary ==
  Runs("unary", IF check({"!", "-", "~", "&", "*"})
                THEN <<Shift, Call("unary"), Build("prefix")>> ELSE <<Call("cast")>>)

parse_cast ==
  \/ Runs("cast", <<Call("postfix"), Call("casts")>>)
  \/ Runs("casts", IF check({"as"})
                   THEN <<Shift, Call("type"), Build("as"), Call("casts")>> ELSE <<>>)

parse_postfix ==
  \/ Runs("postfix", <<Call("primary"), Call("more_postfix")>>)
  \/ Runs("more_postfix",
          IF check({"("}) /\ ~OnNewLine
          THEN <<Shift, Call("args"), CarryOn, Need(")"), Build("call"),
                 Call("more_postfix")>>
          ELSE IF check({"["}) /\ ~OnNewLine
          THEN <<Shift, Call("expr"), Need("]"), Build("index"), Call("more_postfix")>>
          ELSE IF check({"."})
          THEN <<Shift, Need("id"), Build("field"), Call("more_postfix")>>
          ELSE IF check({".."})
          THEN <<Shift, Call("additive"), Build(".."), Call("more_postfix")>>
          ELSE <<>>)

parse_try ==
  Runs("try", IF check({"try"}) THEN <<Shift, Call("try"), Build("try")>>
              ELSE <<Call("or")>>)

parse_catch ==
  \/ Runs("catch", <<Call("try"), Call("catches")>>)
  \/ Runs("catches",
          IF check({"catch"})
          THEN <<Shift, Call("handler"), Build("catch"), Call("catches")>> ELSE <<>>)
  \/ Runs("handler", IF check({"|"})
                     THEN <<Shift, Need("id"), Need("|"), Call("block")>>
                     ELSE <<Call("try")>>)

parse_assign ==
  \/ Runs("assign", <<Call("catch"), Call("assigned")>>)
  \/ Runs("assigned", IF check({"="}) THEN <<Shift, Call("assign"), Build("=")>>
                      ELSE <<>>)

parse_expr == Runs("expr", <<Call("assign")>>)

Literals == {"int", "lit", "str", "self", "id", "f"}

Elements ==
  \E closer \in {")", "]"} :
    LET list == IF closer = ")" THEN "tuple" ELSE "array"
        more == IF closer = ")" THEN "more_tuple" ELSE "more_array" IN
    \/ Runs(list, IF AtEnd(closer) THEN <<>> ELSE <<Call("expr"), Call(more)>>)
    \/ Runs(more, IF check({","}) THEN <<Shift, Call(list)>> ELSE <<>>)

TupleOrGroup ==
  Runs("tuple_or_group",
       IF check({","}) THEN <<Shift, Call("tuple"), Need(")")>> ELSE <<Need(")")>>)

AsmOutput ==
  Runs("asm_output", IF check({"->"}) THEN <<Shift, Need("id"), CarryOn>> ELSE <<>>)

PromoteTarget ==
  At("target") /\ IF check({"dynamic"}) THEN Then(<<Shift>>) ELSE Refuse

\* The bodies of parse_primary by the token that selects them
PrimaryOf ==
  [match |-> <<Call("match")>>,
   if |-> <<Call("if")>>,
   asm |-> <<Shift, Need("{"), Need("str"), Need("}"), Call("asm_output")>>,
   volatile |-> <<Shift, Call("unary")>>,
   promote |-> <<Shift, Need("("), Call("expr"), Need(")"), Need("as"), Call("target")>>,
   sizeof |-> <<Shift, Need("("), Call("type"), Need(")")>>,
   error |-> <<Shift, Call("path")>>]

parse_primary ==
  /\ At("primary")
  /\ \/ check(Literals) /\ Then(<<Shift, Build("leaf")>>)
     \/ check(DOMAIN PrimaryOf) /\ Then(PrimaryOf[current.kind])
     \/ check({"["}) /\ Then(<<Shift, Call("array"), Need("]")>>)
     \/ check({"("}) /\ Then(<<Shift, Call("expr"), Call("tuple_or_group")>>)
     \/ ~check({"[", "("} \union Literals \union DOMAIN PrimaryOf) /\ Refuse

-----------------------------------------------------------------------------

Init ==   \* parser_init, and the call of parser_parse
  /\ input \in Inputs
  /\ rest = input.tokens
  /\ prev_line = 1
  /\ panic_mode = FALSE
  /\ error_count = 0
  /\ state = "parsing"
  /\ todo = <<Call("program")>>
  /\ out = <<>>
  /\ reported = 0

ParseTypes == parse_type_expr \/ TupleType \/ TypeList

ParseLists ==
  \/ parse_param \/ CommaOrCloser \/ parse_param_list \/ parse_arg_list \/ AfterArg

ParseDeclarations ==
  \/ parse_func_decl \/ Result \/ ResultAndBody \/ Body \/ parse_attrs
  \/ parse_var_decl \/ DefaultValue \/ parse_type_decl \/ parse_variant_decl
  \/ parse_schema_decl \/ parse_method_decl \/ parse_interface_decl
  \/ parse_error_decl \/ parse_mod_decl \/ Path \/ parse_use_decl
  \/ parse_extern_decl \/ parse_decl

ParseStatements ==
  \/ parse_block \/ parse_if_stmt \/ parse_while_stmt \/ parse_for_stmt
  \/ parse_loop_stmt \/ parse_unsafe_block \/ parse_struct_pattern \/ parse_pattern
  \/ parse_match_arm \/ parse_match_stmt \/ ReturnValue \/ parse_stmt
  \/ parser_parse

ParseExpressions ==
  \/ parse_binary \/ parse_unary \/ parse_cast \/ parse_postfix \/ parse_try
  \/ parse_catch \/ parse_assign \/ parse_expr \/ Elements \/ TupleOrGroup
  \/ AsmOutput \/ PromoteTarget \/ parse_primary

Next ==
  \/ Advance \/ Expect \/ Match \/ BuildNode \/ GoOn
  \/ GiveUp \/ Overlook \/ Synchronize \/ Skip
  \/ ParseTypes \/ ParseLists \/ ParseDeclarations \/ ParseStatements
  \/ ParseExpressions

\* One thread that runs until it returns.
Spec == Init /\ [][Next]_vars /\ WF_vars(Next)

-----------------------------------------------------------------------------
(* Properties                                                              *)

\* The parser's fields have their types, and the call stack is a stack of
\* calls and expectations as long as parser_parse has not returned.
FieldsOK ==
  /\ rest \in Seq(Token) /\ rest # <<>>
  /\ prev_line \in Nat
  /\ panic_mode \in BOOLEAN
  /\ error_count \in Nat
  /\ state \in {"parsing", "failing", "skipping", "done"}
  /\ reported \in Nat

TypeOK ==
  /\ FieldsOK
  /\ input \in Input
  /\ todo \in Seq(Item)
  /\ out \in Seq(NodeKinds)

\* Until parser_parse returns, the call stack ends in it: a NULL does not get
\* past it but meets a loop that goes on, wherever on the way the functions give
\* up or go on (the NULL checks of all parse functions, parser_parse).
StackOK == state # "done" => todo # <<>> /\ todo[Len(todo)] = Call("program")

\* What holds between any two steps of the parser.
ParserOK == TypeOK /\ StackOK

\* parser_error and the NULLs: a function returns NULL up to synchronize only
\* in panic mode, after a report, whatever call chain the NULL came through;
\* so nothing is dropped from the tree without an error, and main, which looks
\* at had_error alone, never goes on with such a tree.
NothingDropped == [][Synchronize => panic_mode /\ had_error]_vars

\* panic_mode and synchronize: no token is reported twice, except the end of
\* the file, whatever synchronize stops at and whoever resumes there.
TokenReportedOnce ==
  [][error_count' > error_count =>
       \/ error_count = 0 \/ Len(rest) < reported \/ Len(rest) = 1]_vars

\* Every loop of the parser consumes a token in each round or leaves: on every
\* input, however broken, parser_parse returns.
Termination == <>(state = "done")

\* parser_parse: a program of the language is accepted, whichever constructs
\* follow each other: no lookahead (is_var_decl_lookahead, the line checks of
\* the postfix operators) takes a statement for something else.
Accepted == state = "done" /\ input.correct => ~had_error

\* The functions parse_assign to parse_primary: the tree built for an
\* expression is the one whose minimal text it is, so each operator has the
\* operands that its level and associativity give it.
ReadAsWritten ==
  state = "done" /\ input.correct /\ input.nodes # <<>> => out = input.nodes

\* A correct file is accepted, and read as it was written.
ReadRight == Accepted /\ ReadAsWritten

\* CONVENTIONS.md has the parser synchronize "to safe recovery points
\* (declaration keywords, closing braces)", and synchronize has a list of
\* tokens to "stop ON ... but don't consume": it leaves a closing brace to
\* the block that is open.
SyncKeepsBraces ==
  [][Synchronize /\ current.kind = "}" => rest' = rest]_vars
=============================================================================
