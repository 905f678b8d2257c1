----------------------------- MODULE ParserProof -----------------------------
(***************************************************************************)
(* For every set of files, the parser drops nothing without a report,      *)
(* reports no token twice but the end of the file, and keeps its stack of  *)
(* calls in order until parser_parse returns.                              *)
(***************************************************************************)
EXTENDS Parser, SequenceTheorems, TLAPS

-----------------------------------------------------------------------------
(* What a parse function does                                              *)

\* The functions whose calls stand anywhere in a body.
PlainFunctions == Functions \ {"program", "after_arg"}

Plain == Item \ {Call("program"), Call("after_arg")}

\* A function looks at the tokens ahead and says what comes next, or refuses.
Expands ==
  /\ state = "parsing" /\ todo # <<>> /\ Head(todo) # Call("program")
  /\ (\E body \in Seq(Plain) : Then(body)) \/ Refuse

LEMMA PlainItems ==
  /\ \A f \in PlainFunctions : Call(f) \in Plain
  /\ \A k \in Expected : Need(k) \in Plain /\ Maybe(k) \in Plain
  /\ \A n \in NodeKinds : Build(n) \in Plain
  /\ Shift \in Plain /\ CarryOn \in Plain
BY DEF Plain, PlainFunctions, Item, Call, Need, Maybe, Build, Shift, CarryOn

LEMMA PlainBodies ==
  /\ <<>> \in Seq(Plain)
  /\ \A a \in Plain : <<a>> \in Seq(Plain)
  /\ \A a, b \in Plain : <<a, b>> \in Seq(Plain)
  /\ \A a, b, c \in Plain : <<a, b, c>> \in Seq(Plain)
  /\ \A a, b, c, d \in Plain : <<a, b, c, d>> \in Seq(Plain)
  /\ \A a, b, c, d, e \in Plain : <<a, b, c, d, e>> \in Seq(Plain)
  /\ \A a, b, c, d, e, f \in Plain : <<a, b, c, d, e, f>> \in Seq(Plain)
  /\ \A s, t \in Seq(Plain) : s \o t \in Seq(Plain)
OBVIOUS

LEMMA Expanding ==
  \A function \in PlainFunctions :
    /\ \A body \in Seq(Plain) : Runs(function, body) => Expands
    /\ \A body \in Seq(Plain) : At(function) /\ Then(body) => Expands
    /\ At(function) /\ Refuse => Expands
<1> SUFFICES ASSUME NEW function \in PlainFunctions, At(function)
             PROVE  /\ \A body \in Seq(Plain) : Then(body) => Expands
                    /\ Refuse => Expands
  BY DEF Runs
<1>1. state = "parsing" /\ todo # <<>> /\ Head(todo).what = function
  BY DEF At, Doing
<1>2. function # "program" /\ Call("program").what = "program"
  BY DEF PlainFunctions, Call
<1>3. Head(todo) # Call("program")
  BY <1>1, <1>2
<1> QED BY <1>1, <1>3 DEF Expands

LEMMA TypesExpand == ParseTypes => Expands
<1>1. parse_type_expr => Expands
  <2>1. /\ {"expr", "tuple_type", "type"} \subseteq PlainFunctions
        /\ {")", "]", "id"} \subseteq Expected
    BY DEF PlainFunctions, Functions, Expected
  <2> QED BY <2>1, Expanding, PlainItems, PlainBodies DEF parse_type_expr
<1>2. TupleType => Expands
  <2>1. {"tuple_type", "types"} \subseteq PlainFunctions
    BY DEF PlainFunctions, Functions
  <2> QED BY <2>1, Expanding, PlainItems, PlainBodies DEF TupleType
<1>3. TypeList => Expands
  <2>1. {"more_types", "type", "types"} \subseteq PlainFunctions
    BY DEF PlainFunctions, Functions
  <2> QED BY <2>1, Expanding, PlainItems, PlainBodies DEF TypeList
<1> QED BY <1>1, <1>2, <1>3 DEF ParseTypes

LEMMA ListsExpand == ParseLists => Expands \/ parse_arg_list \/ AfterArg
<1>1. parse_param => Expands
  <2>1. /\ {"param", "type"} \subseteq PlainFunctions
        /\ {":", "id"} \subseteq Expected
    BY DEF PlainFunctions, Functions, Expected
  <2> QED BY <2>1, Expanding, PlainItems, PlainBodies DEF parse_param
<1>2. CommaOrCloser => Expands
  <2>1. /\ {"comma"} \subseteq PlainFunctions
        /\ {","} \subseteq Expected
    BY DEF PlainFunctions, Functions, Expected
  <2> QED BY <2>1, Expanding, PlainItems, PlainBodies DEF CommaOrCloser
<1>3. parse_param_list => Expands
  <2>1. {"comma", "param", "params"} \subseteq PlainFunctions
    BY DEF PlainFunctions, Functions
  <2> QED BY <2>1, Expanding, PlainItems, PlainBodies DEF parse_param_list
<1> QED BY <1>1, <1>2, <1>3 DEF ParseLists

LEMMA DeclarationsExpand == ParseDeclarations => Expands
<1>1. parse_func_decl => Expands
  <2>1. /\ {"func", "params", "result", "result_and_body", "signature"}
             \subseteq PlainFunctions
        /\ {"(", ")", "id"} \subseteq Expected
    BY DEF PlainFunctions, Functions, Expected
  <2>2. /\ Need("id") \in Plain /\ Need("(") \in Plain /\ Call("params") \in Plain
        /\ CarryOn \in Plain /\ Need(")") \in Plain
    BY <2>1, PlainItems
  <2>3. Signature \in Seq(Plain)
    BY <2>2, PlainBodies DEF Signature
  <2>4. \A last \in Plain : <<Shift>> \o Signature \o <<last>> \in Seq(Plain)
    BY <2>3, PlainItems, PlainBodies
  <2> QED BY <2>1, <2>4, PlainItems, Expanding DEF parse_func_decl
<1>2. Result => Expands
  <2>1. /\ {"result", "type"} \subseteq PlainFunctions
        /\ {":", "id"} \subseteq Expected
    BY DEF PlainFunctions, Functions, Expected
  <2> QED BY <2>1, Expanding, PlainItems, PlainBodies DEF Result, NamedResult
<1>3. ResultAndBody => Expands
  <2>1. /\ {"block", "body", "result_and_body", "type"} \subseteq PlainFunctions
        /\ {":", "id"} \subseteq Expected
    BY DEF PlainFunctions, Functions, Expected
  <2>2. NamedResult \in Seq(Plain)
    BY <2>1, PlainItems, PlainBodies DEF NamedResult
  <2>3. \A last \in Plain : NamedResult \o <<last>> \in Seq(Plain)
    BY <2>2, PlainBodies
  <2> QED BY <2>1, <2>3, PlainItems, PlainBodies, Expanding DEF ResultAndBody
<1>4. Body => Expands
  <2>1. {"block", "body", "expr"} \subseteq PlainFunctions
    BY DEF PlainFunctions, Functions
  <2> QED BY <2>1, Expanding, PlainItems, PlainBodies DEF Body
<1>5. parse_attrs => Expands
  <2>1. /\ {"attr_arg", "attrs", "expr"} \subseteq PlainFunctions
        /\ {")", "[", "]", "id"} \subseteq Expected
    BY DEF PlainFunctions, Functions, Expected
  <2> QED BY <2>1, Expanding, PlainItems, PlainBodies DEF parse_attrs
<1>6. parse_var_decl => Expands
  <2>1. /\ {"declarators", "expr", "initialiser", "type", "var"} \subseteq PlainFunctions
        /\ {"const", "id", "volatile"} \subseteq Expected
    BY DEF PlainFunctions, Functions, Expected
  <2>2. \A s \in Seq(Plain) : s \o <<Call("initialiser")>> \in Seq(Plain)
    BY <2>1, PlainItems, PlainBodies
  <2>3. (IF check({"id"}) /\ Ahead(1) = ":=" THEN <<Shift>>
         ELSE IF HasType THEN <<Call("type"), Need("id")>>
         ELSE <<Need("id")>>) \in Seq(Plain)
    BY <2>1, PlainItems, PlainBodies
  <2> QED
    BY <2>1, <2>2, <2>3, PlainItems, PlainBodies, Expanding DEF parse_var_decl
<1>7. DefaultValue => Expands
  <2>1. {"default", "expr"} \subseteq PlainFunctions
    BY DEF PlainFunctions, Functions
  <2> QED BY <2>1, Expanding, PlainItems, PlainBodies DEF DefaultValue
<1>8. parse_type_decl => Expands
  <2>1. {"attrs", "bare_fields", "default", "field", "fields", "more_bare_fields",
         "more_fields", "type", "type_body", "type_decl", "variants"}
          \subseteq PlainFunctions
    BY DEF PlainFunctions, Functions
  <2>2. {":", "=", "id", "volatile", "}"} \subseteq Expected
    BY DEF Expected
  <2>3. FieldDecl \in Seq(Plain)
    BY <2>1, <2>2, PlainItems, PlainBodies DEF FieldDecl
  <2>4. <<Call("attrs"), CarryOn, Maybe("volatile")>> \in Seq(Plain)
    BY <2>1, <2>2, PlainItems, PlainBodies
  <2>5. <<Call("attrs"), CarryOn, Maybe("volatile")>> \o FieldDecl \in Seq(Plain)
    BY <2>3, <2>4, PlainBodies
  <2> QED
    BY <2>1, <2>2, <2>5, PlainItems, PlainBodies, Expanding DEF parse_type_decl
<1>9. parse_variant_decl => Expands
  <2>1. /\ {"payload", "types", "variants"} \subseteq PlainFunctions
        /\ {")", "id"} \subseteq Expected
    BY DEF PlainFunctions, Functions, Expected
  <2> QED BY <2>1, Expanding, PlainItems, PlainBodies DEF parse_variant_decl
<1>10. parse_schema_decl => Expands
  <2>1. /\ {"attrs", "default", "parent", "schema", "schema_fields", "type"}
             \subseteq PlainFunctions
        /\ {",", ":", "=", "id", "{", "}"} \subseteq Expected
    BY DEF PlainFunctions, Functions, Expected
  <2>2. FieldDecl \in Seq(Plain)
    BY <2>1, PlainItems, PlainBodies DEF FieldDecl
  <2>3. /\ <<Call("attrs"), CarryOn>> \in Seq(Plain)
        /\ <<Maybe(","), Call("schema_fields")>> \in Seq(Plain)
    BY <2>1, PlainItems, PlainBodies
  <2>4. <<Call("attrs"), CarryOn>> \o FieldDecl
          \o <<Maybe(","), Call("schema_fields")>> \in Seq(Plain)
    BY <2>2, <2>3, PlainBodies
  <2> QED
    BY <2>1, <2>4, PlainItems, PlainBodies, Expanding DEF parse_schema_decl
<1>11. parse_method_decl => Expands
  <2>1. /\ {"attrs", "for_type", "func", "method", "method_realm", "methods"}
            \subseteq PlainFunctions
        /\ {"id", "{", "}"} \subseteq Expected
    BY DEF PlainFunctions, Functions, Expected
  <2> QED BY <2>1, Expanding, PlainItems, PlainBodies DEF parse_method_decl
<1>12. parse_interface_decl => Expands
  <2>1. /\ {"attrs", "interface", "signature", "signatures"} \subseteq
            PlainFunctions
        /\ {"id", "{", "}"} \subseteq Expected
    BY DEF PlainFunctions, Functions, Expected
  <2> QED BY <2>1, Expanding, PlainItems, PlainBodies DEF parse_interface_decl
<1>13. parse_error_decl => Expands
  <2>1. /\ {"error_decl", "error_variants"} \subseteq PlainFunctions
        /\ {"=", "id", "{", "}"} \subseteq Expected
    BY DEF PlainFunctions, Functions, Expected
  <2> QED BY <2>1, Expanding, PlainItems, PlainBodies DEF parse_error_decl
<1>14. parse_mod_decl => Expands
  <2>1. /\ {"decl", "decls", "mod"} \subseteq PlainFunctions
        /\ {"id", "{", "}"} \subseteq Expected
    BY DEF PlainFunctions, Functions, Expected
  <2> QED BY <2>1, Expanding, PlainItems, PlainBodies DEF parse_mod_decl
<1>15. Path => Expands
  <2>1. /\ {"path"} \subseteq PlainFunctions
        /\ {"id"} \subseteq Expected
    BY DEF PlainFunctions, Functions, Expected
  <2> QED BY <2>1, Expanding, PlainItems, PlainBodies DEF Path
<1>16. parse_use_decl => Expands
  <2>1. /\ {"path", "use"} \subseteq PlainFunctions
        /\ {"id"} \subseteq Expected
    BY DEF PlainFunctions, Functions, Expected
  <2> QED BY <2>1, Expanding, PlainItems, PlainBodies DEF parse_use_decl
<1>17. parse_extern_decl => Expands
  <2>1. /\ {"extern", "extern_what", "params", "result", "type"} \subseteq PlainFunctions
        /\ {"(", ")", "id"} \subseteq Expected
    BY DEF PlainFunctions, Functions, Expected
  <2>2. /\ Need("id") \in Plain /\ Need("(") \in Plain /\ Call("params") \in Plain
        /\ CarryOn \in Plain /\ Need(")") \in Plain
    BY <2>1, PlainItems
  <2>3. Signature \in Seq(Plain)
    BY <2>2, PlainBodies DEF Signature
  <2>4. \A last \in Plain : <<Shift>> \o Signature \o <<last>> \in Seq(Plain)
    BY <2>3, PlainItems, PlainBodies
  <2> QED BY <2>1, <2>4, PlainItems, PlainBodies, Expanding DEF parse_extern_decl
<1>18. parse_decl => Expands
  <2>1. /\ {"attrs", "decl", "declaration", "func", "var"} \subseteq PlainFunctions
        /\ {"pub"} \subseteq Expected
    BY DEF PlainFunctions, Functions, Expected
  <2>2. \A kind \in DOMAIN DeclOf : DeclOf[kind] \in PlainFunctions
    <3>1. DOMAIN DeclOf = {"f", "type", "schema", "method", "interface", "error", "mod",
                           "use", "extern"}
      BY DEF DeclOf
    <3>2. /\ DeclOf["f"] = "func" /\ DeclOf["type"] = "type_decl"
          /\ DeclOf["schema"] = "schema" /\ DeclOf["method"] = "method"
          /\ DeclOf["interface"] = "interface" /\ DeclOf["error"] = "error_decl"
          /\ DeclOf["mod"] = "mod" /\ DeclOf["use"] = "use"
          /\ DeclOf["extern"] = "extern"
      BY DEF DeclOf
    <3>3. {"func", "type_decl", "schema", "method", "interface", "error_decl", "mod",
           "use", "extern"} \subseteq PlainFunctions
      BY DEF PlainFunctions, Functions
    <3> QED BY <3>1, <3>2, <3>3
  <2>3. check(DOMAIN DeclOf) => <<Call(DeclOf[current.kind])>> \in Seq(Plain)
    BY <2>2, PlainItems, PlainBodies DEF check
  <2>4. At("declaration") /\ (Refuse \/ \E body \in Seq(Plain) : Then(body)) => Expands
    BY <2>1, Expanding
  <2>5. /\ <<Call("attrs"), CarryOn, Maybe("pub"), Call("declaration")>> \in Seq(Plain)
        /\ <<Shift, Call("func")>> \in Seq(Plain) /\ <<Call("var")>> \in Seq(Plain)
    BY <2>1, PlainItems, PlainBodies
  <2> QED BY <2>1, <2>3, <2>4, <2>5, Expanding DEF parse_decl
<1> QED BY <1>1, <1>2, <1>3, <1>4, <1>5, <1>6, <1>7, <1>8, <1>9, <1>10, <1>11,
       <1>12, <1>13, <1>14, <1>15, <1>16, <1>17, <1>18 DEF ParseDeclarations

LEMMA StatementsExpand == ParseStatements => Expands \/ parser_parse
<1>1. parse_block => Expands
  <2>1. /\ {"block", "semicolons", "stmt", "stmts"} \subseteq PlainFunctions
        /\ {"{", "}"} \subseteq Expected
    BY DEF PlainFunctions, Functions, Expected
  <2> QED BY <2>1, Expanding, PlainItems, PlainBodies DEF parse_block
<1>2. parse_if_stmt => Expands
  <2>1. {"block", "branch", "else", "expr", "if"} \subseteq PlainFunctions
    BY DEF PlainFunctions, Functions
  <2> QED BY <2>1, Expanding, PlainItems, PlainBodies DEF parse_if_stmt
<1>3. parse_while_stmt => Expands
  <2>1. {"block", "expr", "while"} \subseteq PlainFunctions
    BY DEF PlainFunctions, Functions
  <2> QED BY <2>1, Expanding, PlainItems, PlainBodies DEF parse_while_stmt
<1>4. parse_for_stmt => Expands
  <2>1. /\ {"block", "expr", "for", "index"} \subseteq PlainFunctions
        /\ {"(", ")", "*", "id", "|"} \subseteq Expected
    BY DEF PlainFunctions, Functions, Expected
  <2>2. /\ Shift \in Plain /\ Need("(") \in Plain /\ Call("expr") \in Plain
        /\ Need(")") \in Plain /\ Need("|") \in Plain /\ Maybe("*") \in Plain
        /\ Need("id") \in Plain /\ Call("index") \in Plain /\ Call("block") \in Plain
    BY <2>1, PlainItems
  <2>3. <<Shift, Need("("), Call("expr"), Need(")"), Need("|"), Maybe("*"),
          Need("id"), Call("index"), Need("|"), Call("block")>> \in Seq(Plain)
    BY <2>2
  <2> QED
    BY <2>1, <2>2, <2>3, PlainBodies, Expanding DEF parse_for_stmt
<1>5. parse_loop_stmt => Expands
  <2>1. {"block", "loop"} \subseteq PlainFunctions
    BY DEF PlainFunctions, Functions
  <2> QED BY <2>1, Expanding, PlainItems, PlainBodies DEF parse_loop_stmt
<1>6. parse_unsafe_block => Expands
  <2>1. {"block", "unsafe"} \subseteq PlainFunctions
    BY DEF PlainFunctions, Functions
  <2> QED BY <2>1, Expanding, PlainItems, PlainBodies DEF parse_unsafe_block
<1>7. parse_struct_pattern => Expands
  <2>1. /\ {"comma", "field_patterns", "pattern", "struct_pattern"} \subseteq PlainFunctions
        /\ {"(", ")"} \subseteq Expected
    BY DEF PlainFunctions, Functions, Expected
  <2>2. /\ <<Call("pattern"), Call("comma"), Call("field_patterns")>> \in Seq(Plain)
        /\ (IF check({"id", "f"}) /\ Ahead(1) = ":" THEN <<Shift, Shift>>
            ELSE <<>>) \in Seq(Plain)
    BY <2>1, PlainItems, PlainBodies
  <2>3. (IF check({"id", "f"}) /\ Ahead(1) = ":" THEN <<Shift, Shift>> ELSE <<>>)
          \o <<Call("pattern"), Call("comma"), Call("field_patterns")>> \in Seq(Plain)
    BY <2>2, PlainBodies
  <2> QED
    BY <2>1, <2>3, PlainItems, PlainBodies, Expanding DEF parse_struct_pattern
<1>8. parse_pattern => Expands
  <2>1. /\ {"args", "pattern", "pattern_postfix", "primary", "struct_pattern"}
             \subseteq PlainFunctions
        /\ {")", "id"} \subseteq Expected
    BY DEF PlainFunctions, Functions, Expected
  <2>2. Call(IF check({"id"}) /\ Ahead(1) = "(" THEN "struct_pattern" ELSE "primary")
          \in Plain
    BY <2>1, PlainItems
  <2> QED
    BY <2>1, <2>2, PlainItems, PlainBodies, Expanding DEF parse_pattern
<1>9. parse_match_arm => Expands
  <2>1. /\ {"arm", "arm_body", "block", "expr", "guard", "pattern"} \subseteq PlainFunctions
        /\ {"->"} \subseteq Expected
    BY DEF PlainFunctions, Functions, Expected
  <2>2. Call(IF check({"{"}) THEN "block" ELSE "expr") \in Plain
    BY <2>1, PlainItems
  <2> QED
    BY <2>1, <2>2, PlainItems, PlainBodies, Expanding DEF parse_match_arm
<1>10. parse_match_stmt => Expands
  <2>1. /\ {"arm", "arms", "expr", "match"} \subseteq PlainFunctions
        /\ {",", "{", "}"} \subseteq Expected
    BY DEF PlainFunctions, Functions, Expected
  <2> QED BY <2>1, Expanding, PlainItems, PlainBodies DEF parse_match_stmt
<1>11. ReturnValue => Expands
  <2>1. {"expr", "value"} \subseteq PlainFunctions
    BY DEF PlainFunctions, Functions
  <2> QED BY <2>1, Expanding, PlainItems, PlainBodies DEF ReturnValue
<1>12. parse_stmt => Expands
  <2>1. {"block", "decl", "expr", "stmt", "value", "var"} \subseteq PlainFunctions
    BY DEF PlainFunctions, Functions
  <2>2. \A kind \in DOMAIN StmtOf : StmtOf[kind] \in PlainFunctions
    <3>1. DOMAIN StmtOf = {"if", "while", "for", "loop", "match", "unsafe"}
      BY DEF StmtOf
    <3>2. \A kind \in DOMAIN StmtOf : StmtOf[kind] = kind
      BY DEF StmtOf
    <3>3. {"if", "while", "for", "loop", "match", "unsafe"} \subseteq PlainFunctions
      BY DEF PlainFunctions, Functions
    <3> QED BY <3>1, <3>2, <3>3
  <2>3. check(DOMAIN StmtOf) => <<Call(StmtOf[current.kind])>> \in Seq(Plain)
    BY <2>2, PlainItems, PlainBodies DEF check
  <2>4. /\ <<Shift, Call("value")>> \in Seq(Plain) /\ <<Shift>> \in Seq(Plain)
        /\ <<Call("block")>> \in Seq(Plain) /\ <<Call("decl")>> \in Seq(Plain)
        /\ <<Call(IF is_var_decl_lookahead THEN "var" ELSE "expr")>> \in Seq(Plain)
    BY <2>1, PlainItems, PlainBodies
  <2>5. \A body \in Seq(Plain) : At("stmt") /\ Then(body) => Expands
    BY <2>1, Expanding
  <2> QED BY <2>3, <2>4, <2>5 DEF parse_stmt
<1> QED BY <1>1, <1>2, <1>3, <1>4, <1>5, <1>6, <1>7, <1>8, <1>9, <1>10, <1>11,
       <1>12 DEF ParseStatements

LEMMA ExpressionsExpand == ParseExpressions => Expands
<1>1. parse_binary => Expands
  <2>1. /\ Levels[1].name = "or" /\ Levels[2].name = "and"
        /\ Levels[3].name = "equality" /\ Levels[4].name = "comparison"
        /\ Levels[5].name = "bitwise" /\ Levels[6].name = "additive"
        /\ Levels[7].name = "multiplicative"
    BY DEF Levels
  <2>2. /\ Levels[1].more = "more_or" /\ Levels[2].more = "more_and"
        /\ Levels[3].more = "more_equality" /\ Levels[4].more = "more_comparison"
        /\ Levels[5].more = "more_bitwise" /\ Levels[6].more = "more_additive"
        /\ Levels[7].more = "more_multiplicative"
    BY DEF Levels
  <2>3. /\ Levels[1].operators = {"or"} /\ Levels[2].operators = {"and"}
        /\ Levels[3].operators = {"=="} /\ Levels[4].operators = {"<"}
        /\ Levels[5].operators = {"&", "^", "|"} /\ Levels[6].operators = {"+", "-"}
        /\ Levels[7].operators = {"*", "/"}
    BY DEF Levels
  <2>4. {"or", "and", "equality", "comparison", "bitwise", "additive",
         "multiplicative", "unary"} \subseteq PlainFunctions
    BY DEF PlainFunctions, Functions
  <2>5. {"more_or", "more_and", "more_equality", "more_comparison", "more_bitwise",
         "more_additive", "more_multiplicative"} \subseteq PlainFunctions
    BY DEF PlainFunctions, Functions
  <2>6. \A i \in 1..7 : i \in {1, 2, 3, 4, 5, 6, 7}
    OBVIOUS
  <2>7. \A i \in 1..7 : Levels[i].name \in PlainFunctions
    BY <2>1, <2>4, <2>6
  <2>8. \A i \in 1..7 : Levels[i].more \in PlainFunctions
    BY <2>2, <2>5, <2>6
  <2>9. \A i \in 1..7 : Levels[i].operators \subseteq NodeKinds
    BY <2>3, <2>6 DEF NodeKinds
  <2>10. \A i \in 1..7 : Operand(i) \in Plain
    <3>1. \A i \in 1..7 : i # 7 => i + 1 \in 1..7
      OBVIOUS
    <3> QED BY <2>4, <2>7, <3>1, PlainItems DEF Operand
  <2>11. \A i \in 1..7 : Continues(Levels[i]) => Build(current.kind) \in Plain
    BY <2>9, PlainItems DEF Continues, check
  <2> QED
    BY <2>7, <2>8, <2>10, <2>11, Expanding, PlainItems, PlainBodies DEF parse_binary
<1>2. parse_unary => Expands
  <2>1. /\ {"cast", "unary"} \subseteq PlainFunctions
        /\ {"prefix"} \subseteq NodeKinds
    BY DEF PlainFunctions, Functions, NodeKinds
  <2> QED BY <2>1, Expanding, PlainItems, PlainBodies DEF parse_unary
<1>3. parse_cast => Expands
  <2>1. /\ {"cast", "casts", "postfix", "type"} \subseteq PlainFunctions
        /\ {"as"} \subseteq NodeKinds
    BY DEF PlainFunctions, Functions, NodeKinds
  <2> QED BY <2>1, Expanding, PlainItems, PlainBodies DEF parse_cast
<1>4. parse_postfix => Expands
  <2>1. /\ {"additive", "args", "expr", "more_postfix", "postfix", "primary"}
            \subseteq PlainFunctions
        /\ {")", "]", "id"} \subseteq Expected
        /\ {"..", "call", "field", "index"} \subseteq NodeKinds
    BY DEF PlainFunctions, Functions, Expected, NodeKinds
  <2> QED BY <2>1, Expanding, PlainItems, PlainBodies DEF parse_postfix
<1>5. parse_try => Expands
  <2>1. /\ {"or", "try"} \subseteq PlainFunctions
        /\ {"try"} \subseteq NodeKinds
    BY DEF PlainFunctions, Functions, NodeKinds
  <2> QED BY <2>1, Expanding, PlainItems, PlainBodies DEF parse_try
<1>6. parse_catch => Expands
  <2>1. /\ {"block", "catch", "catches", "handler", "try"} \subseteq
            PlainFunctions
        /\ {"id", "|"} \subseteq Expected
        /\ {"catch"} \subseteq NodeKinds
    BY DEF PlainFunctions, Functions, Expected, NodeKinds
  <2> QED BY <2>1, Expanding, PlainItems, PlainBodies DEF parse_catch
<1>7. parse_assign => Expands
  <2>1. /\ {"assign", "assigned", "catch"} \subseteq PlainFunctions
        /\ {"="} \subseteq NodeKinds
    BY DEF PlainFunctions, Functions, NodeKinds
  <2> QED BY <2>1, Expanding, PlainItems, PlainBodies DEF parse_assign
<1>8. parse_expr => Expands
  <2>1. {"assign", "expr"} \subseteq PlainFunctions
    BY DEF PlainFunctions, Functions
  <2> QED BY <2>1, Expanding, PlainItems, PlainBodies DEF parse_expr
<1>9. Elements => Expands
  <2>1. {"array", "expr", "more_array", "more_tuple", "tuple"} \subseteq PlainFunctions
    BY DEF PlainFunctions, Functions
  <2>2. \A list, more \in PlainFunctions :
          /\ <<>> \in Seq(Plain) /\ <<Call("expr"), Call(more)>> \in Seq(Plain)
          /\ <<Shift, Call(list)>> \in Seq(Plain)
    BY <2>1, PlainItems, PlainBodies
  <2>3. ASSUME NEW closer, NEW list \in PlainFunctions, NEW more \in PlainFunctions,
               \/ Runs(list, IF AtEnd(closer) THEN <<>> ELSE <<Call("expr"), Call(more)>>)
               \/ Runs(more, IF check({","}) THEN <<Shift, Call(list)>> ELSE <<>>)
        PROVE  Expands
    BY <2>2, <2>3, Expanding
  <2> QED BY <2>1, <2>3 DEF Elements
<1>10. TupleOrGroup => Expands
  <2>1. /\ {"tuple", "tuple_or_group"} \subseteq PlainFunctions
        /\ {")"} \subseteq Expected
    BY DEF PlainFunctions, Functions, Expected
  <2> QED BY <2>1, Expanding, PlainItems, PlainBodies DEF TupleOrGroup
<1>11. AsmOutput => Expands
  <2>1. /\ {"asm_output"} \subseteq PlainFunctions
        /\ {"id"} \subseteq Expected
    BY DEF PlainFunctions, Functions, Expected
  <2> QED BY <2>1, Expanding, PlainItems, PlainBodies DEF AsmOutput
<1>12. PromoteTarget => Expands
  <2>1. {"target"} \subseteq PlainFunctions
    BY DEF PlainFunctions, Functions
  <2> QED BY <2>1, Expanding, PlainItems, PlainBodies DEF PromoteTarget
<1>13. parse_primary => Expands
  <2>1. {"array", "asm_output", "expr", "if", "match", "path", "primary", "target",
         "tuple_or_group", "type", "unary"} \subseteq PlainFunctions
    BY DEF PlainFunctions, Functions
  <2>2. /\ {"(", ")", "]", "as", "str", "{", "}"} \subseteq Expected
        /\ "leaf" \in NodeKinds
    BY DEF Expected, NodeKinds
  <2>3. /\ <<Call("match")>> \in Seq(Plain) /\ <<Call("if")>> \in Seq(Plain)
        /\ <<Shift, Need("{"), Need("str"), Need("}"), Call("asm_output")>> \in Seq(Plain)
        /\ <<Shift, Call("unary")>> \in Seq(Plain)
        /\ <<Shift, Need("("), Call("expr"), Need(")"), Need("as"), Call("target")>>
             \in Seq(Plain)
        /\ <<Shift, Need("("), Call("type"), Need(")")>> \in Seq(Plain)
        /\ <<Shift, Call("path")>> \in Seq(Plain)
    BY <2>1, <2>2, PlainItems, PlainBodies
  <2>4. \A kind \in DOMAIN PrimaryOf : PrimaryOf[kind] \in Seq(Plain)
    <3>1. DOMAIN PrimaryOf = {"match", "if", "asm", "volatile", "promote", "sizeof",
                              "error"}
      BY DEF PrimaryOf
    <3>2. /\ PrimaryOf["match"] = <<Call("match")>> /\ PrimaryOf["if"] = <<Call("if")>>
          /\ PrimaryOf["asm"] = <<Shift, Need("{"), Need("str"), Need("}"),
                                  Call("asm_output")>>
          /\ PrimaryOf["volatile"] = <<Shift, Call("unary")>>
          /\ PrimaryOf["promote"] = <<Shift, Need("("), Call("expr"), Need(")"),
                                      Need("as"), Call("target")>>
          /\ PrimaryOf["sizeof"] = <<Shift, Need("("), Call("type"), Need(")")>>
          /\ PrimaryOf["error"] = <<Shift, Call("path")>>
      BY DEF PrimaryOf
    <3> QED BY <2>3, <3>1, <3>2
  <2>5. check(DOMAIN PrimaryOf) => PrimaryOf[current.kind] \in Seq(Plain)
    BY <2>4 DEF check
  <2>6. /\ <<Shift, Build("leaf")>> \in Seq(Plain)
        /\ <<Shift, Call("array"), Need("]")>> \in Seq(Plain)
        /\ <<Shift, Call("expr"), Call("tuple_or_group")>> \in Seq(Plain)
    BY <2>1, <2>2, PlainItems, PlainBodies
  <2>7. /\ \A body \in Seq(Plain) : At("primary") /\ Then(body) => Expands
        /\ At("primary") /\ Refuse => Expands
    BY <2>1, Expanding
  <2> QED BY <2>5, <2>6, <2>7 DEF parse_primary
<1> QED BY <1>1, <1>2, <1>3, <1>4, <1>5, <1>6, <1>7, <1>8, <1>9, <1>10, <1>11,
       <1>12, <1>13 DEF ParseExpressions

-----------------------------------------------------------------------------
(* The invariant                                                           *)

\* A NULL on its way up was reported, or came after a report in panic mode.
NullReported == state = "failing" => panic_mode

PanicReported == panic_mode => had_error

\* The last report is at current or behind it, and behind it once panic_mode
\* is cleared: synchronize skips a token whatever it is.
ReportBehind ==
  had_error =>
    /\ Len(rest) <= reported
    /\ panic_mode \/ Len(rest) < reported \/ Len(rest) = 1

ParserInv == FieldsOK /\ NullReported /\ PanicReported /\ ReportBehind

LEMMA InitInv == Init => ParserInv
<1> SUFFICES ASSUME Init PROVE ParserInv
  OBVIOUS
<1>1. input \in Input /\ input.tokens # <<>> /\ rest = input.tokens
  BY InputsAssumption DEF Init
<1>2. rest \in Seq(Token) /\ rest # <<>>
  BY <1>1 DEF Input
<1>3. /\ prev_line = 1 /\ panic_mode = FALSE /\ error_count = 0 /\ state = "parsing"
      /\ reported = 0
  BY DEF Init
<1>4. FieldsOK
  BY <1>2, <1>3 DEF FieldsOK
<1> QED
  BY <1>3, <1>4 DEF ParserInv, NullReported, PanicReported, ReportBehind, had_error

LEMMA Advanced ==
  ASSUME FieldsOK, advance
  PROVE  /\ rest' \in Seq(Token) /\ rest' # <<>> /\ prev_line' \in Nat
         /\ Len(rest') = Len(rest) - 1 \/ (Len(rest) = 1 /\ Len(rest') = 1)
         /\ Len(rest) \in Nat \ {0}
<1>1. Len(rest) \in Nat /\ Len(rest) # 0
  BY EmptySeq DEF FieldsOK
<1>2. rest[1] \in Token
  BY <1>1, ElementOfSeq DEF FieldsOK
<1>3. prev_line' \in Nat
  BY <1>2 DEF advance, current, Token
<1>4. CASE Len(rest) = 1
  BY <1>1, <1>3, <1>4 DEF FieldsOK, advance, AfterAdvance
<1>5. CASE Len(rest) # 1
  <2>1. rest' = Tail(rest)
    BY <1>5 DEF advance, AfterAdvance
  <2>2. rest' \in Seq(Token) /\ Len(rest') = Len(rest) - 1
    BY <2>1, HeadTailProperties DEF FieldsOK
  <2> QED BY <1>1, <1>3, <1>5, <2>2, EmptySeq
<1> QED BY <1>4, <1>5

\* Consuming a token keeps the invariant unless a NULL begins its way up.
LEMMA AdvanceInv ==
  ASSUME ParserInv, advance, UNCHANGED <<panic_mode, error_count, reported>>,
         state' = state \/ state' = StateAfterExpect
  PROVE  ParserInv'
<1>1. FieldsOK'
  BY Advanced DEF ParserInv, FieldsOK, StateAfterExpect
<1>2. NullReported'
  BY DEF ParserInv, NullReported, StateAfterExpect, FieldsOK
<1>3. PanicReported'
  BY DEF ParserInv, PanicReported, had_error
<1>4. ReportBehind'
  <2>1. FieldsOK
    BY DEF ParserInv
  <2>2. /\ Len(rest) \in Nat \ {0}
        /\ Len(rest') = Len(rest) - 1 \/ (Len(rest) = 1 /\ Len(rest') = 1)
        /\ rest' \in Seq(Token) /\ rest' # <<>>
    BY <2>1, Advanced
  <2>3. Len(rest') \in Nat \ {0}
    BY <2>2, EmptySeq, LenProperties
  <2> QED BY <2>2, <2>3 DEF ParserInv, FieldsOK, ReportBehind, had_error
<1> QED BY <1>1, <1>2, <1>3, <1>4 DEF ParserInv

LEMMA RefuseInv == ASSUME ParserInv, Refuse PROVE ParserInv'
<1>1. Len(rest) \in Nat
  BY LenProperties DEF ParserInv, FieldsOK
<1>2. CASE panic_mode
  BY <1>2 DEF Refuse, parser_error, Suppressed, ParserInv, FieldsOK, NullReported,
       PanicReported, ReportBehind, had_error
<1>3. CASE ~panic_mode
  BY <1>1, <1>3 DEF Refuse, parser_error, Suppressed, ParserInv, FieldsOK,
       NullReported, PanicReported, ReportBehind, had_error
<1> QED BY <1>2, <1>3

\* Nothing but the stack of calls changes.
Silent ==
  /\ UNCHANGED <<rest, prev_line, panic_mode, error_count, reported>>
  /\ state' = state \/ state' \in {"parsing", "done"}

LEMMA SilentInv == ASSUME ParserInv, Silent PROVE ParserInv'
BY DEF Silent, ParserInv, FieldsOK, NullReported, PanicReported, ReportBehind, had_error

LEMMA ExpandInv == ASSUME ParserInv, Expands PROVE ParserInv'
BY RefuseInv, SilentInv DEF Expands, Then, Silent

LEMMA ArgListInv == ASSUME ParserInv, parse_arg_list PROVE ParserInv'
BY SilentInv DEF parse_arg_list, Runs, Then, Silent

LEMMA AfterArgInv == ASSUME ParserInv, AfterArg PROVE ParserInv'
<1>1. CASE Then(<<>>)
  BY <1>1, SilentInv DEF Then, Silent
<1>2. CASE advance /\ UNCHANGED <<panic_mode, error_count, state, reported>>
  BY <1>2, AdvanceInv
<1> QED BY <1>1, <1>2, RefuseInv DEF AfterArg

LEMMA SynchronizeInv == ASSUME ParserInv, Synchronize PROVE ParserInv'
<1>1. panic_mode /\ had_error
  BY DEF Synchronize, ParserInv, NullReported, PanicReported
<1>2. FieldsOK'
  BY Advanced DEF Synchronize, ParserInv, FieldsOK
<1>3. NullReported' /\ PanicReported'
  BY DEF Synchronize, NullReported, PanicReported
<1>4. ReportBehind'
  <2>1. /\ Len(rest) \in Nat \ {0} /\ Len(rest) <= reported
        /\ Len(rest') = Len(rest) - 1 \/ (Len(rest) = 1 /\ Len(rest') = 1)
    BY <1>1, Advanced DEF Synchronize, ParserInv, ReportBehind
  <2> QED BY <1>1, <2>1 DEF Synchronize, ReportBehind, ParserInv, FieldsOK, had_error
<1> QED BY <1>2, <1>3, <1>4 DEF ParserInv

LEMMA StepInv == ParserInv /\ [Next]_vars => ParserInv'
<1> SUFFICES ASSUME ParserInv, [Next]_vars PROVE ParserInv'
  OBVIOUS
<1>1. CASE Advance
  BY <1>1, AdvanceInv DEF Advance, Take
<1>2. CASE Expect
  BY <1>2, AdvanceInv, RefuseInv DEF Expect, Take
<1>3. CASE Match
  BY <1>3, AdvanceInv, SilentInv DEF Match, Take, Then, Silent
<1>4. CASE BuildNode \/ GoOn \/ GiveUp \/ Overlook \/ UNCHANGED vars
  BY <1>4, SilentInv DEF BuildNode, GoOn, GiveUp, Overlook, Then, Silent, vars
<1>5. CASE Synchronize
  BY <1>5, SynchronizeInv
<1>6. CASE Skip
  <2>1. CASE AtStop
    BY <1>6, <2>1, SilentInv DEF Skip, Silent
  <2>2. CASE ~AtStop
    BY <1>6, <2>2, AdvanceInv DEF Skip
  <2> QED BY <2>1, <2>2
<1>7. CASE ParseTypes \/ ParseDeclarations \/ ParseExpressions
  BY <1>7, ExpandInv, TypesExpand, DeclarationsExpand, ExpressionsExpand
<1>8. CASE ParseLists
  BY <1>8, ExpandInv, ListsExpand, ArgListInv, AfterArgInv
<1>9. CASE ParseStatements
  <2>1. CASE parser_parse
    BY <2>1, SilentInv DEF parser_parse, Then, Silent
  <2> QED BY <1>9, <2>1, ExpandInv, StatementsExpand
<1> QED
  BY <1>1, <1>2, <1>3, <1>4, <1>5, <1>6, <1>7, <1>8, <1>9 DEF Next

\* The invariant holds for every set of files.
THEOREM ParserSafe == Spec => []ParserInv
BY InitInv, StepInv, PTL DEF Spec

-----------------------------------------------------------------------------
(* The stack of calls                                                      *)

\* The innermost call first, parser_parse last; and whoever looks at what comes
\* after an argument is called for the rest of the list.
Stack(s) ==
  /\ s \in Seq(Item) /\ s # <<>> /\ s[Len(s)] = Call("program")
  /\ \A i \in 1..Len(s) :
       s[i] = Call("after_arg") => i < Len(s) /\ s[i + 1] = Call("args")

\* The stack is left only by the return of parser_parse.
CallsInv ==
  /\ input \in Input
  /\ out \in Seq(NodeKinds)
  /\ IF state = "done" THEN todo = <<>> ELSE Stack(todo)

LEMMA Different ==
  /\ \A item : item.do # "call" => item # Call("program") /\ item # Call("after_arg")
  /\ Call("args") # Call("program") /\ Call("after_arg") # Call("program")
  /\ Call("args") # Call("after_arg")
  /\ Call("program") \in Item /\ Call("args") \in Item /\ Call("after_arg") \in Item
<1>1. \A item : item.do # "call" => item # Call("program") /\ item # Call("after_arg")
  BY DEF Call
<1>2. /\ Call("args").what = "args" /\ Call("program").what = "program"
      /\ Call("after_arg").what = "after_arg"
  BY DEF Call
<1>3. {"program", "args", "after_arg"} \subseteq Functions
  BY DEF Functions
<1>4. \A f \in Functions : Call(f) \in Item
  BY DEF Call, Item
<1> QED BY <1>1, <1>2, <1>3, <1>4

\* A call that returns leaves the stack of its caller.
LEMMA Popped ==
  ASSUME NEW s, Stack(s), Head(s) # Call("program")
  PROVE  Stack(Tail(s))
<1> DEFINE t == Tail(s)
<1>1. s \in Seq(Item) /\ s # <<>> /\ s[Len(s)] = Call("program") /\ Len(s) \in Nat
  BY LenProperties DEF Stack
<1>2. Len(s) > 1
  BY <1>1, EmptySeq
<1>3. /\ t \in Seq(Item) /\ Len(t) = Len(s) - 1
      /\ \A i \in 1..Len(t) : t[i] = s[i + 1]
  BY <1>1, HeadTailProperties
<1> HIDE DEF t
<1>4. t # <<>> /\ t[Len(t)] = Call("program")
  <2>1. Len(t) \in 1..Len(t) /\ Len(t) + 1 = Len(s)
    BY <1>1, <1>2, <1>3
  <2>2. t[Len(t)] = s[Len(t) + 1]
    BY <1>3, <2>1
  <2> QED BY <1>1, <1>3, <2>1, <2>2, EmptySeq
<1>5. ASSUME NEW i \in 1..Len(t), t[i] = Call("after_arg")
      PROVE  i < Len(t) /\ t[i + 1] = Call("args")
  <2>1. i + 1 \in 1..Len(s) /\ s[i + 1] = Call("after_arg")
    BY <1>1, <1>3, <1>5
  <2>2. i + 1 < Len(s) /\ s[(i + 1) + 1] = Call("args")
    BY <2>1 DEF Stack
  <2> QED BY <1>1, <1>3, <2>2
<1>6. Stack(t)
  BY <1>3, <1>4, <1>5 DEF Stack
<1> QED BY <1>6 DEF t

\* What a concatenation holds, and how one of four parts may be read.
LEMMA Joined ==
  ASSUME NEW S, NEW a \in Seq(S), NEW b \in Seq(S)
  PROVE  /\ a \o b \in Seq(S) /\ Len(a \o b) = Len(a) + Len(b)
         /\ \A i \in 1..Len(a \o b) :
              (a \o b)[i] = IF i <= Len(a) THEN a[i] ELSE b[i - Len(a)]
BY ConcatProperties

\* A body of plain items goes on top of any stack.
LEMMA Pushed ==
  ASSUME NEW s, Stack(s), NEW body \in Seq(Plain)
  PROVE  Stack(body \o s)
<1> DEFINE t == body \o s
<1>1. s \in Seq(Item) /\ s # <<>> /\ s[Len(s)] = Call("program")
  BY DEF Stack
<1>2. body \in Seq(Item) /\ Len(body) \in Nat /\ Len(s) \in Nat /\ Len(s) # 0
  BY <1>1, EmptySeq, LenProperties DEF Plain
<1>3. /\ t \in Seq(Item) /\ Len(t) = Len(body) + Len(s)
      /\ \A i \in 1..Len(t) :
           t[i] = IF i <= Len(body) THEN body[i] ELSE s[i - Len(body)]
  BY <1>1, <1>2, Joined
<1>4. t # <<>> /\ t[Len(t)] = Call("program")
  BY <1>1, <1>2, <1>3
<1>5. ASSUME NEW i \in 1..Len(t), t[i] = Call("after_arg")
      PROVE  i < Len(t) /\ t[i + 1] = Call("args")
  <2>1. ~(i <= Len(body))
    <3>1. i <= Len(body) => body[i] \in Plain
      BY <1>2, ElementOfSeq
    <3> QED BY <1>3, <1>5, <3>1 DEF Plain
  <2>2. i - Len(body) \in 1..Len(s) /\ s[i - Len(body)] = Call("after_arg")
    BY <1>2, <1>3, <1>5, <2>1
  <2>3. i - Len(body) < Len(s) /\ s[(i - Len(body)) + 1] = Call("args")
    BY <2>2 DEF Stack
  <2>4. /\ i + 1 \in 1..Len(t) /\ ~(i + 1 <= Len(body))
        /\ (i + 1) - Len(body) = (i - Len(body)) + 1
    BY <1>2, <1>3, <2>1, <2>3
  <2> QED BY <1>2, <1>3, <2>3, <2>4
<1> HIDE DEF t
<1>6. Stack(t)
  BY <1>3, <1>4, <1>5 DEF Stack
<1> QED BY <1>6 DEF t

\* parse_arg_list leaves the rest of the list to a call of its own.
LEMMA ArgsPushed ==
  ASSUME NEW s, Stack(s)
  PROVE  Stack(<<Call("after_arg"), Call("args")>> \o s)
<1> DEFINE t == <<Call("after_arg"), Call("args")>> \o s
<1>1. s \in Seq(Item) /\ s # <<>> /\ s[Len(s)] = Call("program")
  BY DEF Stack
<1>2. Len(s) \in Nat /\ Len(s) # 0
  BY <1>1, EmptySeq, LenProperties
<1>3. /\ t \in Seq(Item) /\ Len(t) = 2 + Len(s) /\ t[1] = Call("after_arg")
      /\ t[2] = Call("args") /\ \A i \in 3..Len(t) : t[i] = s[i - 2]
  <2> DEFINE two == <<Call("after_arg"), Call("args")>>
  <2>1. /\ two \in Seq(Item) /\ Len(two) = 2
        /\ two[1] = Call("after_arg") /\ two[2] = Call("args")
    BY Different
  <2> HIDE DEF two
  <2>2. /\ two \o s \in Seq(Item) /\ Len(two \o s) = Len(two) + Len(s)
        /\ \A i \in 1..Len(two \o s) :
             (two \o s)[i] = IF i <= Len(two) THEN two[i] ELSE s[i - Len(two)]
    BY <1>1, <2>1, Joined
  <2>3. t = two \o s
    BY DEF two
  <2> HIDE DEF t
  <2> QED BY <1>2, <2>1, <2>2, <2>3
<1> HIDE DEF t
<1>4. t # <<>> /\ t[Len(t)] = Call("program")
  BY <1>1, <1>2, <1>3
<1>5. ASSUME NEW i \in 1..Len(t), t[i] = Call("after_arg")
      PROVE  i < Len(t) /\ t[i + 1] = Call("args")
  <2>1. CASE i = 1
    BY <1>2, <1>3, <2>1
  <2>2. CASE i = 2
    BY <1>3, <1>5, <2>2, Different
  <2>3. CASE i > 2
    <3>1. i - 2 \in 1..Len(s) /\ s[i - 2] = Call("after_arg")
      BY <1>2, <1>3, <1>5, <2>3
    <3>2. i - 2 < Len(s) /\ s[(i - 2) + 1] = Call("args")
      BY <3>1 DEF Stack
    <3>3. i + 1 \in 3..Len(t) /\ (i + 1) - 2 = (i - 2) + 1
      BY <1>2, <1>3, <2>3, <3>2
    <3> QED BY <1>2, <1>3, <3>2, <3>3
  <2> QED BY <2>1, <2>2, <2>3
<1>6. Stack(t)
  BY <1>3, <1>4, <1>5 DEF Stack
<1> QED BY <1>6 DEF t

-----------------------------------------------------------------------------
(* Every step keeps the stack                                              *)

\* The item on top is done with, or stays.
Pops ==
  /\ state # "done" /\ Head(todo) # Call("program") /\ todo' = Tail(todo)
  /\ state' # "done"

Stays == (state' = "done" <=> state = "done") /\ UNCHANGED todo

LEMMA StackKept ==
  ASSUME CallsInv, Pops \/ Stays, UNCHANGED <<input, out>>
  PROVE  CallsInv'
BY Popped DEF CallsInv, Pops, Stays

LEMMA ExpandCalls == ASSUME CallsInv, Expands PROVE CallsInv'
<1>1. CASE Refuse
  <2>1. Stays
    BY <1>1 DEF Refuse, Stays, Expands
  <2> QED BY <1>1, <2>1, StackKept DEF Refuse
<1>2. CASE \E body \in Seq(Plain) : Then(body)
  <2>1. PICK body \in Seq(Plain) : Then(body)
    BY <1>2
  <2>2. Stack(todo) /\ Stack(Tail(todo))
    BY Popped DEF CallsInv, Expands
  <2>3. Stack(body \o Tail(todo))
    BY <2>2, Pushed
  <2> QED BY <2>1, <2>3 DEF Then, CallsInv, Expands
<1> QED BY <1>1, <1>2 DEF Expands

LEMMA ItemKinds ==
  ASSUME NEW item \in Item
  PROVE  /\ item.do = "call" => item = Call(item.what)
         /\ item.do = "build" => item.what \in NodeKinds
<1>1. CASE item \in [do : {"call"}, what : Functions]
  BY <1>1 DEF Call
<1>2. CASE item \in [do : {"need", "maybe"}, what : Expected]
  BY <1>2
<1>3. CASE item \in [do : {"build"}, what : NodeKinds]
  BY <1>3
<1>4. CASE item \in {Shift, CarryOn}
  <2>1. item = Shift \/ item = CarryOn
    BY <1>4
  <2>2. Shift.do = "shift" /\ CarryOn.do = "carry_on"
    BY DEF Shift, CarryOn
  <2> QED BY <2>1, <2>2
<1> QED BY <1>1, <1>2, <1>3, <1>4 DEF Item

\* A call on top is the one it says it is.
LEMMA CallOnTop ==
  ASSUME NEW function, CallsInv, At(function)
  PROVE  state = "parsing" /\ Stack(todo) /\ todo[1] = Call(function)
<1>1. /\ state = "parsing" /\ todo # <<>>
      /\ Head(todo).do = "call" /\ Head(todo).what = function
  BY DEF At, Doing
<1>2. Stack(todo)
  BY <1>1 DEF CallsInv
<1>3. Head(todo) \in Item /\ Head(todo) = todo[1]
  BY <1>2, HeadTailProperties, EmptySeq DEF Stack
<1> QED BY <1>1, <1>2, <1>3, ItemKinds

LEMMA Associative ==
  ASSUME NEW a \in Seq(Item), NEW b \in Seq(Item), NEW c \in Seq(Item)
  PROVE  (a \o b) \o c = a \o (b \o c)
BY ConcatAssociative

LEMMA OneAndTwo ==
  ASSUME NEW S, NEW a \in S, NEW b \in S, NEW c \in S
  PROVE  <<a>> \o <<b, c>> = <<a, b, c>>
<1> DEFINE x == <<a>>
           y == <<b, c>>
           z == <<a, b, c>>
<1>1. /\ x \in Seq(S) /\ Len(x) = 1 /\ x[1] = a
      /\ y \in Seq(S) /\ Len(y) = 2 /\ y[1] = b /\ y[2] = c
      /\ z \in Seq(S) /\ Len(z) = 3 /\ z[1] = a /\ z[2] = b /\ z[3] = c
  OBVIOUS
<1> HIDE DEF x, y, z
<1>2. /\ x \o y \in Seq(S) /\ Len(x \o y) = Len(x) + Len(y)
      /\ \A i \in 1..(Len(x) + Len(y)) :
           (x \o y)[i] = IF i <= Len(x) THEN x[i] ELSE y[i - Len(x)]
  BY <1>1, ConcatProperties
<1>3. \A i \in 1..3 : (x \o y)[i] = z[i]
  BY <1>1, <1>2
<1>4. x \o y = z
  BY <1>1, <1>2, <1>3, SeqEqual
<1> QED BY <1>4 DEF x, y, z

LEMMA ArgListPushed ==
  ASSUME NEW s, Stack(s), NEW named \in Seq(Plain)
  PROVE  Stack((named \o <<Call("expr"), Call("after_arg"), Call("args")>>) \o s)
<1>1. PICK one : one = <<Call("expr")>>
  OBVIOUS
<1>2. PICK list : list = <<Call("after_arg"), Call("args")>>
  OBVIOUS
<1>3. one \in Seq(Plain) /\ one \in Seq(Item) /\ Call("expr") \in Item
  <2>1. "expr" \in PlainFunctions
    BY DEF PlainFunctions, Functions
  <2> QED BY <1>1, <2>1, PlainItems, PlainBodies DEF Plain
<1>4. list \in Seq(Item) /\ named \in Seq(Item) /\ s \in Seq(Item)
  BY <1>2, Different DEF Plain, Stack
<1>5. one \o list = <<Call("expr"), Call("after_arg"), Call("args")>>
  BY <1>1, <1>2, <1>3, OneAndTwo, Different
<1>6. Stack((named \o one) \o (list \o s))
  <2>1. named \o one \in Seq(Plain)
    BY <1>3, PlainBodies
  <2>2. Stack(list \o s)
    BY <1>2, ArgsPushed
  <2> QED BY <2>1, <2>2, Pushed
<1>7. (named \o one) \o (list \o s) = (named \o (one \o list)) \o s
  <2> DEFINE Cat(a, b) == a \o b
  <2>1. \A a, b \in Seq(Item) : Cat(a, b) \in Seq(Item)
    BY Joined
  <2>2. \A a, b, c \in Seq(Item) : Cat(Cat(a, b), c) = Cat(a, Cat(b, c))
    BY Associative
  <2> HIDE DEF Cat
  <2>3. Cat(one, list) \in Seq(Item) /\ Cat(list, s) \in Seq(Item)
    BY <1>3, <1>4, <2>1
  <2>4. Cat(Cat(named, one), Cat(list, s)) = Cat(named, Cat(one, Cat(list, s)))
    <3>1. \A c \in Seq(Item) : Cat(Cat(named, one), c) = Cat(named, Cat(one, c))
      BY <1>3, <1>4, <2>2
    <3> QED BY <2>3, <3>1
  <2>5. Cat(Cat(named, Cat(one, list)), s) = Cat(named, Cat(Cat(one, list), s))
    BY <1>4, <2>2, <2>3
  <2>6. Cat(Cat(one, list), s) = Cat(one, Cat(list, s))
    BY <1>3, <1>4, <2>2
  <2>7. Cat(Cat(named, one), Cat(list, s)) = Cat(Cat(named, Cat(one, list)), s)
    BY <2>4, <2>5, <2>6
  <2> QED BY <2>7 DEF Cat
<1> QED BY <1>5, <1>6, <1>7

LEMMA ArgListCalls == ASSUME CallsInv, parse_arg_list PROVE CallsInv'
<1> DEFINE named == IF check({"id"}) /\ Ahead(1) = ":" THEN <<Shift, Shift>> ELSE <<>>
           body == named \o <<Call("expr"), Call("after_arg"), Call("args")>>
<1>1. "args" \in PlainFunctions
  BY DEF PlainFunctions, Functions
<1>2. CASE Runs("args", <<>>)
  BY <1>1, <1>2, Expanding, PlainBodies, ExpandCalls
<1>3. CASE Runs("args", body)
  <2>1. At("args") /\ Then(body)
    BY <1>3 DEF Runs
  <2>2. state = "parsing" /\ Stack(todo) /\ todo[1] = Call("args")
    BY <2>1, CallOnTop
  <2>3. Stack(Tail(todo))
    BY <2>2, Popped, Different DEF Stack
  <2>4. named \in Seq(Plain)
    BY PlainItems, PlainBodies
  <2> HIDE DEF named
  <2>5. Stack(body \o Tail(todo))
    BY <2>3, <2>4, ArgListPushed
  <2> HIDE DEF body
  <2> QED BY <2>1, <2>2, <2>5 DEF Then, CallsInv
<1> QED BY <1>2, <1>3 DEF parse_arg_list, Runs

LEMMA AfterArgCalls == ASSUME CallsInv, AfterArg PROVE CallsInv'
<1>1. At("after_arg")
  BY DEF AfterArg
<1>2. state = "parsing" /\ Stack(todo) /\ todo[1] = Call("after_arg")
  BY <1>1, CallOnTop
<1>3. Head(todo) # Call("program") /\ Stack(Tail(todo))
  BY <1>2, Different, Popped
<1>4. CASE Then(<<>>)
  <2>1. todo' = Tail(todo)
    BY <1>3, <1>4 DEF Then, Stack
  <2> QED BY <1>2, <1>3, <1>4, <2>1 DEF Then, CallsInv
<1>5. CASE Refuse
  BY <1>2, <1>5, StackKept DEF Refuse, Stays
<1>6. CASE /\ todo' = Tail(IF ListCut THEN Tail(todo) ELSE todo)
           /\ UNCHANGED <<input, state, out>>
  <2>1. Len(todo) > 1 /\ todo[2] = Call("args") /\ Len(todo) \in Nat
    BY <1>2, EmptySeq, LenProperties DEF Stack
  <2>2. Head(Tail(todo)) # Call("program")
    BY <1>2, <2>1, Different, HeadTailProperties, EmptySeq DEF Stack
  <2>3. Stack(Tail(Tail(todo)))
    BY <1>3, <2>2, Popped
  <2> QED BY <1>2, <1>3, <1>6, <2>3 DEF CallsInv
<1> QED BY <1>4, <1>5, <1>6 DEF AfterArg

LEMMA ParseCalls == ASSUME CallsInv, parser_parse PROVE CallsInv'
<1>1. At("program")
  BY DEF parser_parse
<1>2. state = "parsing" /\ Stack(todo) /\ todo[1] = Call("program")
  BY <1>1, CallOnTop
<1>3. CASE state' = "done" /\ todo' = <<>> /\ UNCHANGED <<input, out>>
  BY <1>3 DEF CallsInv
<1>4. CASE Then(<<Call("stmt"), Call("program")>>)
  <2>1. /\ <<Call("stmt")>> \in Seq(Plain) /\ Call("stmt") \in Item
        /\ todo \in Seq(Item) /\ todo # <<>>
    <3>1. "stmt" \in PlainFunctions
      BY DEF PlainFunctions, Functions
    <3> QED BY <1>2, <3>1, PlainItems, PlainBodies DEF Plain, Stack
  <2>2. <<Call("stmt"), Call("program")>> \o Tail(todo) = <<Call("stmt")>> \o todo
    <3>1. todo = <<Call("program")>> \o Tail(todo)
      BY <1>2, <2>1, HeadTailProperties, EmptySeq
    <3>2. <<Call("stmt"), Call("program")>> = <<Call("stmt")>> \o <<Call("program")>>
      OBVIOUS
    <3>3. <<Call("stmt")>> \in Seq(Item) /\ <<Call("program")>> \in Seq(Item)
      BY <2>1, Different
    <3>4. Tail(todo) \in Seq(Item)
      BY <2>1, HeadTailProperties
    <3>5. (<<Call("stmt")>> \o <<Call("program")>>) \o Tail(todo)
            = <<Call("stmt")>> \o (<<Call("program")>> \o Tail(todo))
      BY <3>3, <3>4, ConcatAssociative
    <3> QED BY <3>1, <3>2, <3>5
  <2>3. Stack(todo')
    BY <1>2, <1>4, <2>1, <2>2, Pushed DEF Then
  <2> QED BY <1>2, <1>4, <2>3 DEF Then, CallsInv
<1> QED BY <1>3, <1>4 DEF parser_parse

LEMMA CallsStep == CallsInv /\ [Next]_vars => CallsInv'
<1> SUFFICES ASSUME CallsInv, [Next]_vars PROVE CallsInv'
  OBVIOUS
<1>1. CASE Advance
  <2>1. Pops
    BY <1>1, Different DEF Advance, Take, Doing, Pops
  <2> QED BY <1>1, <2>1, StackKept DEF Advance, Take
<1>2. CASE Expect
  <2>1. Pops \/ Stays
    BY <1>2, Different DEF Expect, Take, Refuse, Doing, StateAfterExpect, Pops, Stays
  <2> QED BY <1>2, <2>1, StackKept DEF Expect, Take, Refuse
<1>3. CASE Match \/ GoOn
  <2>1. Stack(todo)
    BY <1>3 DEF Match, GoOn, Doing, CallsInv
  <2>2. <<>> \o Tail(todo) = Tail(todo)
    BY <2>1, HeadTailProperties, ConcatEmptySeq DEF Stack
  <2>3. Pops
    BY <1>3, <2>2, Different DEF Match, GoOn, Take, Then, Doing, Pops
  <2> QED BY <1>3, <2>3, StackKept DEF Match, GoOn, Take, Then
<1>4. CASE BuildNode
  <2>1. state = "parsing" /\ Stack(todo) /\ Head(todo).do = "build"
    BY <1>4 DEF BuildNode, Doing, CallsInv
  <2>2. Stack(Tail(todo))
    BY <2>1, Different, Popped
  <2>3. Head(todo) \in Item
    BY <2>1, HeadTailProperties DEF Stack
  <2>4. Head(todo).what \in NodeKinds
    BY <2>1, <2>3, ItemKinds
  <2>5. out' \in Seq(NodeKinds)
    BY <1>4, <2>4, AppendProperties DEF BuildNode, CallsInv
  <2> QED BY <1>4, <2>1, <2>2, <2>5 DEF BuildNode, CallsInv
<1>5. CASE GiveUp \/ Overlook
  <2>1. Head(todo) # Call("program")
    BY <1>5, Different DEF GiveUp, Overlook, Loops, CarryOn
  <2>2. Pops
    BY <1>5, <2>1 DEF GiveUp, Overlook, Pops
  <2> QED BY <1>5, <2>2, StackKept DEF GiveUp, Overlook
<1>6. CASE Synchronize \/ Skip
  <2>1. Stays
    BY <1>6 DEF Synchronize, Skip, Stays
  <2> QED BY <1>6, <2>1, StackKept DEF Synchronize, Skip
<1>7. CASE UNCHANGED vars
  BY <1>7, StackKept DEF vars, Stays
<1>8. CASE ParseTypes \/ ParseDeclarations \/ ParseExpressions
  BY <1>8, ExpandCalls, TypesExpand, DeclarationsExpand, ExpressionsExpand
<1>9. CASE ParseLists
  BY <1>9, ExpandCalls, ListsExpand, ArgListCalls, AfterArgCalls
<1>10. CASE ParseStatements
  BY <1>10, ExpandCalls, StatementsExpand, ParseCalls
<1> QED
  BY <1>1, <1>2, <1>3, <1>4, <1>5, <1>6, <1>7, <1>8, <1>9, <1>10 DEF Next

LEMMA InitCalls == Init => CallsInv
<1> SUFFICES ASSUME Init PROVE CallsInv
  OBVIOUS
<1>1. input \in Input /\ out = <<>> /\ state = "parsing" /\ todo = <<Call("program")>>
  BY InputsAssumption DEF Init
<1>2. Stack(<<Call("program")>>)
  BY Different DEF Stack
<1> QED BY <1>1, <1>2 DEF CallsInv

\* The stack of calls is in order in every reachable state.
THEOREM ParserCalls == Spec => []CallsInv
BY InitCalls, CallsStep, PTL DEF Spec

-----------------------------------------------------------------------------
(* The theorems                                                            *)

\* Whatever functions a NULL comes through, an error has been reported when
\* synchronize makes up for it, so that main stops after the parser.
THEOREM ParserNothingDropped == Spec => NothingDropped
<1>1. ParserInv /\ [Next]_vars =>
        [Synchronize => panic_mode /\ had_error]_vars
  BY DEF Synchronize, ParserInv, NullReported, PanicReported
<1> QED BY <1>1, ParserSafe, PTL DEF NothingDropped, Spec

\* Between two reports the parser has moved on, unless it is at the end.
THEOREM ParserReportsOnce == Spec => TokenReportedOnce
<1>1. ParserInv /\ [Next]_vars =>
        [error_count' > error_count =>
           \/ error_count = 0 \/ Len(rest) < reported \/ Len(rest) = 1]_vars
  <2> SUFFICES ASSUME ParserInv, [Next]_vars, error_count' > error_count
               PROVE  error_count = 0 \/ Len(rest) < reported \/ Len(rest) = 1
    OBVIOUS
  <2>1. error_count' # error_count /\ error_count \in Nat
    BY DEF ParserInv, FieldsOK
  <2>2. CASE ~panic_mode
    BY <2>1, <2>2 DEF ParserInv, ReportBehind, had_error
  <2>3. CASE panic_mode
    <3>1. Refuse => error_count' = error_count
      BY <2>3 DEF Refuse, parser_error, Suppressed
    <3>2. Expands => error_count' = error_count
      BY <3>1 DEF Expands, Then
    <3>3. AfterArg => error_count' = error_count
      BY <3>1 DEF AfterArg, Then
    <3>4. parse_arg_list => error_count' = error_count
      BY DEF parse_arg_list, Runs, Then
    <3>5. parser_parse => error_count' = error_count
      BY DEF parser_parse, Then
    <3>6. ParseTypes \/ ParseLists \/ ParseDeclarations \/ ParseStatements
            \/ ParseExpressions => error_count' = error_count
      BY <3>2, <3>3, <3>4, <3>5, TypesExpand, ListsExpand, DeclarationsExpand,
         StatementsExpand, ExpressionsExpand
    <3>7. Advance \/ Expect \/ Match \/ BuildNode \/ GoOn \/ GiveUp \/ Overlook
            \/ Synchronize \/ Skip => error_count' = error_count
      BY <3>1 DEF Advance, Expect, Match, BuildNode, GoOn, GiveUp, Overlook,
           Synchronize, Skip, Take, Then
    <3> QED BY <2>1, <3>6, <3>7 DEF Next, vars
  <2> QED BY <2>2, <2>3
<1> QED BY <1>1, ParserSafe, PTL DEF TokenReportedOnce, Spec

\* The parser's state has its types, the stack of calls and the tree included.
THEOREM ParserTypeOK == Spec => []TypeOK
<1>1. ParserInv /\ CallsInv => TypeOK
  <2> SUFFICES ASSUME ParserInv, CallsInv PROVE TypeOK
    OBVIOUS
  <2>1. todo \in Seq(Item)
    <3>1. CASE state = "done"
      BY <3>1, EmptySeq DEF CallsInv
    <3>2. CASE state # "done"
      BY <3>2 DEF CallsInv, Stack
    <3> QED BY <3>1, <3>2
  <2> QED BY <2>1 DEF ParserInv, CallsInv, TypeOK
<1> QED BY <1>1, ParserSafe, ParserCalls, PTL

\* A NULL never gets past parser_parse: its loop is under every call.
THEOREM ParserStackOK == Spec => []StackOK
<1>1. CallsInv => StackOK
  BY DEF CallsInv, Stack, StackOK
<1> QED BY <1>1, ParserCalls, PTL

\* Whatever the files are, types and call stack are in order at every step.
THEOREM ParserStateOK == Spec => []ParserOK
<1>1. TypeOK /\ StackOK => ParserOK
  BY DEF ParserOK
<1> QED BY <1>1, ParserTypeOK, ParserStackOK, PTL
=============================================================================
