------------------------------- MODULE Infer -------------------------------
(***************************************************************************)
(* The types of expressions: typechecker_infer_expr, the cases of          *)
(* typechecker_check_node that declare variables and use expressions, and  *)
(* typechecker_check_pattern (src/typecheck.c), in the body of a function. *)
(*                                                                         *)
(* todo is the C stack, with what each call has still to do, the innermost *)
(* first; vals are the types its calls have returned, the last one last.   *)
(* An expression is chosen as it is met, operand by operand.  The names    *)
(* declared outside the function have no types (see Collect), so no        *)
(* expression is a function or of a struct or variant type, and a call     *)
(* never reaches its arguments.  The function has no parameters, and their *)
(* empty scope is left out; the realms promote is about are CheckWalk's; a *)
(* match statement is a match expression whose arms are not compared; the  *)
(* loops are left out, as nothing new is checked in them; and a block      *)
(* begins with what Collect survives.                                      *)
(***************************************************************************)
EXTENDS Types, Chains, FiniteSets

CONSTANTS
  TypeExprs,   \* the types as written that declarations and casts use
  RetTypes,    \* those that functions return
  Literals,    \* the types of literals, sizeof and alignof, of LiteralTypes
  Magnitudes,  \* the values of the literals that initialize a variable
  Nodes        \* how many operators, blocks and arms after a first one the body
               \* has (bounds the model only)

VARIABLES
  chain,         \* the scopes, with the types of their symbols
  expected_ret,
  todo, vals,
  had_error,
  left           \* how many nodes may still be met

vars == <<chain, expected_ret, todo, vals, had_error, left>>

----------------------------------------------------------------------------
(* Types as written.                                                       *)

NoType == [kind |-> "none", height |-> 0]
NoTypeExpr == [kind |-> "none"]
PrimitiveNames == DOMAIN BitWidth \cup {"bool", "str", "char", "void"}
I32 == Primitive("i32")
F64 == Primitive("f64")
Usize == Primitive("usize")
Bool == Primitive("bool")
Str == Primitive("str")
LiteralTypes == {I32, F64, Str, Bool, Primitive("char"), Usize}

\* The type of the symbol name denotes, NoType without one.
TypeOf(ch, name) ==
  IF name \notin Names \/ Lookup(ch, name) = NoSymbol THEN NoType
  ELSE Lookup(ch, name).type

\* A type as written is what is innermost in it and what is around that, from the
\* inside out.
Base == [kind : {"omitted", "other"}] \cup [kind : {"named"}, name : PrimitiveNames \cup Names]
Around == [kind : {"ptr", "fallible"}] \cup [kind : {"array"}, size : Nat]
TypeExpr == [base : Base, around : Seq(Around)]

BaseNull(ch, base) ==   \* a mutant: a symbol without a type is a type
  CASE base.kind = "omitted" -> Primitive("void")
    [] base.kind = "named" /\ base.name \in PrimitiveNames -> Primitive(base.name)
    [] base.kind = "named" /\ base.name \notin PrimitiveNames -> TypeOf(ch, base.name)
    [] OTHER -> Unknown
\* Any symbol with a type names that type; a type left out is void; qualified types,
\* tuples, lists and J are unknown.
BaseType(ch, base) ==
  CASE base.kind = "omitted" -> Primitive("void")
    [] base.kind = "named" /\ base.name \in PrimitiveNames -> Primitive(base.name)
    [] base.kind = "named" /\ base.name \notin PrimitiveNames ->
         IF TypeOf(ch, base.name) = NoType THEN Unknown ELSE TypeOf(ch, base.name)
    [] OTHER -> Unknown

TypeAround(around, type) ==
  CASE around.kind = "ptr" -> Pointer(type)
    [] around.kind = "array" -> Array(type, around.size)
    [] around.kind = "fallible" -> Fallible(type)

\* typechecker_resolve_type_expr
ResolveTypeExpr(ch, te) ==
  LET resolved[n \in 0 .. Len(te.around)] ==
        IF n = 0 THEN BaseType(ch, te.base) ELSE TypeAround(te.around[n], resolved[n - 1])
  IN  resolved[Len(te.around)]

ASSUME InferAssumption ==
  /\ Nodes \in Nat
  /\ TypeExprs \cup RetTypes \subseteq TypeExpr
  /\ Literals \subseteq LiteralTypes

----------------------------------------------------------------------------
(* Numbers: <<e, d>> stands for 2^e + d, with d either 0 or -1.            *)

AtMost(m, n) == m[1] < n[1] \/ (m[1] = n[1] /\ m[2] <= n[2])
MaxVal(name) == IF name \in UnsignedNames THEN <<BitWidth[name], 0 - 1>>
                ELSE <<BitWidth[name] - 1, 0 - 1>>
MaxNegative(name) == <<BitWidth[name] - 1, 0>>

\* The range check of AST_VAR_DECL for the literals 5, -5, 5.0 and -5.0 (the
\* values of floats from 2^128 on exceed f32's).
OverflowNegatives(type, node, value) ==   \* a mutant: one too few negative numbers
  /\ node \in {"int", "-int"}
  /\ IsInteger(type)
  /\ ~AtMost(value, MaxVal(type.name))
Overflow(type, node, value) ==
  \/ /\ node = "int"
     /\ IsInteger(type)
     /\ ~AtMost(value, MaxVal(type.name))
  \/ /\ node = "-int"
     /\ IsInteger(type)
     /\ IsSignedInt(type) => ~AtMost(value, MaxNegative(type.name))
  \/ /\ node \in {"float", "-float"}
     /\ IsPrim(type, "f32")
     /\ value[1] >= 128

----------------------------------------------------------------------------
(* The checks, each of the types of the expressions it is about.           *)

IsBool(t) == IsPrim(t, "bool")
BothResolved(types) == Resolved(types[1]) /\ Resolved(types[2])

\* + - * / % of two types, where one of the operands is a literal or not.
Adds(l, r, literal) ==
  \/ l.kind = "POINTER" /\ r.kind = "PRIMITIVE"
  \/ r.kind = "POINTER" /\ l.kind = "PRIMITIVE"
  \/ l.kind = "PRIMITIVE" /\ r.kind = "PRIMITIVE" /\ (Equals(l, r) \/ literal)
  \/ /\ l.kind # "PRIMITIVE" \/ r.kind # "PRIMITIVE"
     /\ Assignable(l, r) \/ Assignable(r, l)

\* The field of a type, InferError if it has none of the name: types other
\* than str and arrays have any.
Fields == {"len", "ptr", "field"}
FieldOf(type, field) ==
  CASE IsPrim(type, "str") ->
         IF field = "ptr" THEN Pointer(Primitive("u8"))
         ELSE IF field = "len" THEN Usize ELSE InferError
    [] type.kind = "ARRAY" -> IF field = "len" THEN Usize ELSE InferError
    [] OTHER -> Unknown

Rule(rule, types) ==
  CASE rule = "assign" -> BothResolved(types) => Assignable(types[1], types[2])
    [] rule = "arithmetic" -> BothResolved(types) => Adds(types[1], types[2], FALSE)
    [] rule = "literal" -> BothResolved(types) => Adds(types[1], types[2], TRUE)
    [] rule = "compare" -> BothResolved(types) => Comparable(types[1], types[2])
    [] rule = "logical" -> BothResolved(types) => IsBool(types[1]) /\ IsBool(types[2])
    [] rule = "bool" -> Resolved(types[1]) => IsBool(types[1])
    [] rule = "unresolved" -> ~Resolved(types[1])
    [] rule = "pointer" -> Resolved(types[1]) => types[1].kind = "POINTER"
    [] rule = "array" -> Resolved(types[1]) => types[1].kind = "ARRAY"
    [] rule = "index" -> Resolved(types[1]) =>
         IsInteger(types[1])
    [] rule = "fallible" -> Resolved(types[1]) => types[1].kind = "FALLIBLE"
    [] rule = "destructure" -> Resolved(types[1]) => types[1].kind = "FALLIBLE"
    [] rule = "number pattern" -> Resolved(types[1]) => types[1].kind = "PRIMITIVE"
    [] rule = "str pattern" -> Resolved(types[1]) => IsPrim(types[1], "str")
    [] rule = "bool pattern" -> Resolved(types[1]) => IsBool(types[1])
    [] rule \in Fields -> FieldOf(types[1], rule) # InferError
    [] OTHER -> TRUE

----------------------------------------------------------------------------
(* The machine.                                                            *)

Do(what) == [do |-> what]
Infer == Do("infer")
Block == Do("block")

\* An expression's type, and its node: a literal, the negation of one, the name of
\* a constant, other text, an operation, or one of the others.
Value(type) == [type |-> type, node |-> "other"]
Operation(type) == [type |-> type, node |-> "operator"]

\* Names that are no local variables are declared outside (the resolver has seen
\* to it), without a type.
Outside == [name \in Names |-> [type |-> NoType, is_const |-> FALSE]]

Init ==
  /\ chain = <<Outside, EmptyScope>>
  /\ \E te \in RetTypes : expected_ret = ResolveTypeExpr(chain, te)
  /\ todo = <<[do |-> "stmts", first |-> TRUE]>>
  /\ vals = <<>>
  /\ had_error = FALSE
  /\ left = Nodes

Item == Head(todo)
Doing(what) == todo # <<>> /\ Item.do = what

\* The n-th of the last values, counted from the last.
Val(n) == vals[Len(vals) - n + 1]

\* A call returns value to its caller, which has done with the last n.
GiveValue(n, value) ==
  /\ todo' = Tail(todo)
  /\ vals' = Append(SubSeq(vals, 1, Len(vals) - n), value)
Give(n, type) == GiveValue(n, Value(type))
Drop(n) == vals' = SubSeq(vals, 1, Len(vals) - n)

\* What comes next is calls; the last of them continues this one.
Call(calls) == todo' = calls \o Tail(todo)

\* typechecker_error is called if a check fails.
Check(rule, types) == had_error' = (had_error \/ ~Rule(rule, types))
NoChecks == UNCHANGED had_error

\* The type of an expression whose check may fail.
Unless(rule, types, type) == IF Rule(rule, types) THEN type ELSE InferError

\* An expression with one operand or two: which kind of expression it is is chosen
\* once the operands' types are known, as no kind matters to them.
Operands ==
  /\ Doing("infer")
  /\ left > 0
  /\ left' = left - 1
  /\ \/ Call(<<Infer, Do("unary")>>)
     \/ Call(<<Infer, Infer, Do("binary")>>)
  /\ NoChecks
  /\ UNCHANGED <<chain, expected_ret, vals>>

----------------------------------------------------------------------------
(* typechecker_infer_expr, case by case.                                   *)

LiteralNode(type) ==
  CASE type = I32 -> "int" [] type = F64 -> "float" [] type = Str -> "text" [] OTHER -> "other"
Literal ==
  /\ Doing("infer")
  /\ \E type \in Literals : GiveValue(0, [type |-> type, node |-> LiteralNode(type)])
  /\ NoChecks
  /\ UNCHANGED <<chain, expected_ret, left>>

\* Array literals, ranges, conditional expressions, asm and
\* the other kinds without a case, whose parts are not looked at.
WithoutParts ==
  /\ Doing("infer")
  /\ Give(0, Unknown)
  /\ NoChecks
  /\ UNCHANGED <<chain, expected_ret, left>>

\* A symbol without a type is as undefined as none.
IdentifierType(name) == IF TypeOf(chain, name) = NoType THEN InferError ELSE TypeOf(chain, name)
IdentifierNode(name) == IF Lookup(chain, name).is_const THEN "const" ELSE "text"
IdentifierQuiet ==   \* a mutant: an undefined variable is poison unreported
  /\ Doing("infer")
  /\ \E name \in Names :
       GiveValue(0, [type |-> IdentifierType(name), node |-> IdentifierNode(name)])
  /\ NoChecks
  /\ UNCHANGED <<chain, expected_ret, left>>
Identifier ==
  /\ Doing("infer")
  /\ \E name \in Names :
       /\ GiveValue(0, [type |-> IdentifierType(name), node |-> IdentifierNode(name)])
       /\ had_error' = (had_error \/ TypeOf(chain, name) = NoType)
  /\ UNCHANGED <<chain, expected_ret, left>>

BinaryOps == {"arithmetic", "compare", "logical", "bitwise"}
IsLiteral(value) == value.node \in {"int", "float"}
Binary ==
  /\ Doing("binary")
  /\ \E op \in BinaryOps :
     LET types == <<Val(2).type, Val(1).type>>
         rule == IF op = "arithmetic" /\ (IsLiteral(Val(2)) \/ IsLiteral(Val(1)))
                 THEN "literal" ELSE op
     IN
     /\ Check(rule, types)
     /\ GiveValue(2, Operation(CASE op = "arithmetic" -> Unless(rule, types, types[1])
                                 [] op \in {"compare", "logical"} -> Bool
                                 [] OTHER -> Unknown))
  /\ UNCHANGED <<chain, expected_ret, left>>

Assign ==
  /\ Doing("binary")
  /\ LET types == <<Val(2).type, Val(1).type>> IN
     /\ had_error' = (had_error \/ ~Rule("assign", types) \/ Val(2).node = "const")
     /\ Give(2, types[1])
  /\ UNCHANGED <<chain, expected_ret, left>>

\* Cases with one operand and a check of its type.  A call that is none leaves
\* its arguments alone; fields of other types than str and arrays are unknown.
UnaryForms ==
  {"call", "deref", "address", "minus", "not", "complement", "len", "ptr", "field",
   "try", "promote"}
UnaryRule(form) ==
  CASE form = "call" -> "unresolved"
    [] form = "deref" -> "pointer"
    [] form = "not" -> "bool"
    [] form = "try" -> "fallible"
    [] form \in Fields -> form
    [] OTHER -> "any"

UnaryType(form, type) ==
  IF form = "promote" THEN type
  ELSE IF ~Resolved(type) THEN Unknown
  ELSE IF form # "not" /\ ~Rule(UnaryRule(form), <<type>>) THEN InferError
  ELSE CASE form \in {"deref", "try"} -> type.inner
         [] form = "address" -> Pointer(IF type.kind = "ARRAY" THEN type.inner ELSE type)
         [] form \in {"minus", "not"} -> type
         [] form \in Fields -> FieldOf(type, form)
         [] OTHER -> Unknown

UnaryOps == {"deref", "address", "minus", "not", "complement"}
UnaryNode(form) == IF form \in UnaryOps THEN "operator" ELSE "other"
Negated(node) == IF node = "int" THEN "-int" ELSE "-float"
Unary ==
  /\ Doing("unary")
  /\ \E form \in UnaryForms :
       /\ Check(UnaryRule(form), <<Val(1).type>>)
       /\ IF form = "minus" /\ Val(1).node \in {"int", "float"}
          THEN GiveValue(1, [Val(1) EXCEPT !.node = Negated(@)])
          ELSE GiveValue(1, [type |-> UnaryType(form, Val(1).type), node |-> UnaryNode(form)])
  /\ UNCHANGED <<chain, expected_ret, left>>

Cast ==
  /\ Doing("unary")
  /\ \E te \in TypeExprs : Give(1, ResolveTypeExpr(chain, te))
  /\ NoChecks
  /\ UNCHANGED <<chain, expected_ret, left>>

Index ==
  /\ Doing("binary")
  /\ LET target == Val(2).type
         index == Val(1).type IN
     /\ had_error' = (had_error \/ ~Rule("array", <<target>>) \/ ~Rule("index", <<index>>))
     /\ Give(2, IF target.kind = "ARRAY" THEN target.inner
                ELSE IF Resolved(target) THEN InferError ELSE Unknown)
  /\ UNCHANGED <<chain, expected_ret, left>>

TupleExpr ==
  /\ Doing("binary")
  /\ Give(2, Tuple(<<Val(2).type, Val(1).type>>))
  /\ NoChecks
  /\ UNCHANGED <<chain, expected_ret, left>>

----------------------------------------------------------------------------
(* catch and match: scopes opened and closed within an expression.         *)

Variable(type) == [type |-> type, is_const |-> FALSE]
Bind(ch, name, type) == IF name \in Names THEN Define(ch, name, Variable(type)) ELSE ch
PushScope == Push(chain, EmptyScope)

\* catch |e| { ... } and catch expr, after a fallible expression.
Caught(form) == [do |-> "caught", form |-> form, success |-> Val(1).type.inner]
CatchHandler ==
  /\ Doing("unary")
  /\ Val(1).type.kind = "FALLIBLE"
  /\ \/ left > 0 /\ \E name \in Names :
          /\ chain' = Bind(PushScope, name, Unknown)
          /\ Call(<<Block, Caught("block")>>)
     \/ Call(<<Infer, Caught("expr")>>) /\ UNCHANGED chain
  /\ Drop(1)
  /\ NoChecks
  /\ UNCHANGED <<expected_ret, left>>

\* After any other the handler is not looked at.
CatchNothing ==
  /\ Doing("unary")
  /\ Val(1).type.kind # "FALLIBLE"
  /\ Check("fallible", <<Val(1).type>>)
  /\ Give(1, IF Resolved(Val(1).type) THEN InferError ELSE Unknown)
  /\ UNCHANGED <<chain, expected_ret, left>>

CaughtScope == Pop(chain)
CaughtBlock ==
  /\ Doing("caught")
  /\ Item.form = "block"
  /\ chain' = CaughtScope
  /\ Give(0, Item.success)
  /\ NoChecks
  /\ UNCHANGED <<expected_ret, left>>

\* A fallible handler makes the whole fallible.
CaughtExpr ==
  /\ Doing("caught")
  /\ Item.form = "expr"
  /\ IF Val(1).type.kind = "FALLIBLE"
     THEN Give(1, Val(1).type) /\ NoChecks
     ELSE Give(1, Item.success) /\ Check("assign", <<Item.success, Val(1).type>>)
  /\ UNCHANGED <<chain, expected_ret, left>>

\* match: vals holds the type of the subject and the type of the first arm that
\* has one, Unknown until there is one.
MatchExpr ==
  /\ Doing("unary")
  /\ Call(<<[do |-> "arms", first |-> TRUE]>>)
  /\ vals' = Append(vals, Value(Unknown))
  /\ NoChecks
  /\ UNCHANGED <<chain, expected_ret, left>>

\* typechecker_check_pattern: what a pattern of some kind binds, and checks.
Patterns == {"number pattern", "str pattern", "bool pattern", "destructure", "name", "other"}
PatternScope(kind, name, subject) ==
  CASE kind = "name" -> Bind(PushScope, name, subject)
    [] kind = "destructure" -> Bind(PushScope, name, Unknown)
    [] OTHER -> PushScope
Arm ==
  /\ Doing("arms")
  /\ Item.first \/ left > 0
  /\ left' = IF Item.first THEN left ELSE left - 1
  /\ \E kind \in Patterns, name \in Names, guarded \in BOOLEAN :
       /\ chain' = PatternScope(kind, name, Val(2).type)
       /\ Check(kind, <<Val(2).type>>)
       /\ todo' = (IF guarded THEN <<Infer, Do("guard")>> ELSE <<>>)
                    \o <<Do("body"), [Item EXCEPT !.first = FALSE]>> \o Tail(todo)
  /\ UNCHANGED <<expected_ret, vals>>

Guard ==
  /\ Doing("guard")
  /\ Check("bool", <<Val(1).type>>)
  /\ todo' = Tail(todo)
  /\ Drop(1)
  /\ UNCHANGED <<chain, expected_ret, left>>

\* The body's type is asked for first, and a block's is unknown.
ArmBody ==
  /\ Doing("body")
  /\ \/ left > 0 /\ Call(<<Block, Do("pop")>>)
     \/ Call(<<Infer, Do("arm")>>)
  /\ NoChecks
  /\ UNCHANGED <<chain, expected_ret, vals, left>>

ArmDone ==
  /\ Doing("arm")
  /\ LET first == Val(2).type
         body == Val(1).type IN
     IF Resolved(first) THEN Give(2, first) /\ Check("assign", <<first, body>>)
     ELSE Give(2, IF Resolved(body) THEN body ELSE first) /\ NoChecks
  /\ chain' = Pop(chain)
  /\ UNCHANGED <<expected_ret, left>>

MatchDone ==
  /\ Doing("arms")
  /\ Give(2, Val(1).type)
  /\ NoChecks
  /\ UNCHANGED <<chain, expected_ret, left>>

----------------------------------------------------------------------------
(* typechecker_check_node: blocks and statements.                          *)

EnterBlock ==
  /\ Doing("block")
  /\ left > 0
  /\ left' = left - 1
  /\ chain' = PushScope
  /\ Call(<<[do |-> "stmts", first |-> TRUE], Do("pop")>>)
  /\ NoChecks
  /\ UNCHANGED <<expected_ret, vals>>

\* A block begins with a statement that the collection of its declarations
\* reads past: the others, and none at all, end the program (see Collect).  Of
\* expressions those are read past that begin with a node, or may be zero.
EndOfBlock ==
  /\ Doing("stmts")
  /\ ~Item.first
  /\ todo' = Tail(todo)
  /\ NoChecks
  /\ UNCHANGED <<chain, expected_ret, vals, left>>

PopScope ==
  /\ Doing("pop")
  /\ todo' = Tail(todo)
  /\ chain' = Pop(chain)
  /\ NoChecks
  /\ UNCHANGED <<expected_ret, vals, left>>

\* A statement with an expression in it: what it is for is chosen once its type
\* is known.
Statement ==
  /\ Doing("stmts")
  /\ Call(<<Infer, [do |-> "use", first |-> Item.first], [Item EXCEPT !.first = FALSE]>>)
  /\ NoChecks
  /\ UNCHANGED <<chain, expected_ret, vals, left>>

\* The statement at hand has done with its expression.
Use(calls) ==
  /\ Doing("use")
  /\ Call(calls)
  /\ Drop(1)
  /\ UNCHANGED <<expected_ret, left>>

ExprStatement ==
  /\ Use(<<>>)
  /\ Item.first => Val(1).node \in {"int", "float", "other"}
  /\ NoChecks
  /\ UNCHANGED chain
ReturnStatement == Use(<<>>) /\ Check("assign", <<expected_ret, Val(1).type>>) /\ UNCHANGED chain
\* if, and while, whose condition is checked in the same way.
IfStatement ==
  /\ Use(<<Block>>)
  /\ left > 0
  /\ Check("bool", <<Val(1).type>>)
  /\ UNCHANGED chain

\* x: te, and x: te = init or x := init
Declared(te) == IF te = NoTypeExpr THEN Unknown ELSE ResolveTypeExpr(chain, te)
VarDeclBare ==
  /\ Doing("stmts")
  /\ Call(<<[Item EXCEPT !.first = FALSE]>>)
  /\ \E name \in Names, te \in TypeExprs :
       chain' = Define(chain, name, Variable(ResolveTypeExpr(chain, te)))
  /\ NoChecks
  /\ UNCHANGED <<expected_ret, vals, left>>

\* Those of the numbers that a literal can be: integers have 64 bits.
Values(node, numbers) ==
  CASE node \in {"int", "-int"} -> {m \in numbers : AtMost(m, <<64, 0 - 1>>)}
    [] node \in {"float", "-float"} -> {m \in numbers : m[2] = 0}
    [] OTHER -> {<<0, 0>>}

\* If either type is not resolved the variable has its initializer's.
VarDecl ==
  /\ Use(<<>>)
  /\ \E name \in Names, te \in TypeExprs \cup {NoTypeExpr}, value \in Values(Val(1).node, Magnitudes),
       is_const \in BOOLEAN :
     LET types == <<Declared(te), Val(1).type>>
         both == BothResolved(types) IN
     /\ had_error' =
          \/ had_error
          \/ both /\ ~Assignable(types[1], types[2])
          \/ both /\ Overflow(types[1], Val(1).node, value)
     /\ chain' = Define(chain, name,
                        [type |-> IF both THEN types[1] ELSE types[2], is_const |-> is_const])
     /\ is_const => ~Item.first

\* x: te, y = init, and x: te, y, z = init, which no pair has enough elements for:
\* then nothing is bound.
Element(type, i) == IF type.kind = "TUPLE" THEN type.elems[i] ELSE Unknown
Destructure ==
  /\ Use(<<>>)
  /\ \E x \in Names, y \in Names, te \in TypeExprs, three \in BOOLEAN :
     LET init == Val(1).type
         types == <<ResolveTypeExpr(chain, te), Element(init, 1)>>
         pair == Bind(Bind(chain, x, types[1]), y, Element(init, 2)) IN
     IF three /\ init.kind = "TUPLE"
     THEN had_error' = TRUE /\ UNCHANGED chain
     ELSE /\ Check("assign", types)
          /\ \E z \in Names : chain' = IF three THEN Bind(pair, z, Unknown) ELSE pair

----------------------------------------------------------------------------
Next ==
  \/ Literal \/ WithoutParts \/ Identifier \/ Operands
  \/ Binary \/ Assign \/ Index \/ TupleExpr
  \/ Unary \/ Cast
  \/ CatchHandler \/ CatchNothing \/ CaughtBlock \/ CaughtExpr
  \/ MatchExpr \/ Arm \/ Guard \/ ArmBody \/ ArmDone \/ MatchDone
  \/ EnterBlock \/ EndOfBlock \/ PopScope
  \/ Statement \/ ExprStatement \/ ReturnStatement \/ IfStatement
  \/ VarDeclBare \/ VarDecl \/ Destructure

Spec == Init /\ [][Next]_vars

----------------------------------------------------------------------------
(* Properties.                                                             *)

\* The types that values, variables, the function's result and handled errors have.
TypesPresent ==
  {vals[i].type : i \in DOMAIN vals} \cup {expected_ret}
    \cup {sym.type : sym \in (UNION {{scope[name] : name \in Names} :
                                       scope \in {chain[k] : k \in DOMAIN chain}}) \ {NoSymbol}}
    \cup {todo[k].success : k \in {j \in DOMAIN todo : todo[j].do = "caught"}}

IsType(t) ==
  \A u \in Parts(t) : \/ u \in Poison
                      \/ u.kind = "PRIMITIVE" /\ u.name \in PrimitiveNames
                      \/ u.kind \in Wrapping \cup {"TUPLE"}

\* What closes a scope.
Closes(item) ==
  \/ item.do \in {"pop", "body", "arm"}
  \/ item.do = "caught" /\ item.form = "block"

\* Whatever typechecker_infer_expr returns is a type, never NULL; and the scopes of
\* patterns, of caught errors and of blocks are closed where they end, whatever of
\* the expression in them was an error.
TypeOK ==
  /\ \A i \in DOMAIN vals : IsType(vals[i].type)
  /\ IsType(expected_ret)
  /\ \A t \in TypesPresent : t = NoType \/ IsType(t)
  /\ had_error \in BOOLEAN
  /\ left \in 0 .. Nodes
  /\ Len(chain) = 2 + Cardinality({i \in DOMAIN todo : Closes(todo[i])})

\* The poison is inference "that failed and was reported" (types.h): no type of a
\* program without errors has it in it, however deep.
PoisonReported == (\E t \in TypesPresent : Holds(t, InferError)) => had_error

\* t, if what failed had been inferred to be u: given the same for what t is made of.
FilledOne(filled, t, u) ==
  CASE t = InferError -> u
    [] t.kind \in Wrapping ->
         LET inner == filled[t.inner] IN [t EXCEPT !.inner = inner, !.height = Above({inner})]
    [] t.kind = "TUPLE" -> Tuple([i \in DOMAIN t.elems |-> filled[t.elems[i]]])
    [] OTHER -> t
Filled(t, u) ==
  LET filled[n \in 0 .. t.height + 1] ==
        IF n = 0 THEN [p \in Parts(t) |-> p]
        ELSE [p \in Parts(t) |-> FilledOne(filled[n - 1], p, u)]
  IN  filled[t.height + 1][t]

\* An error does not cascade: a check that fails would have failed whatever the
\* part of the types that is poison had been.
Fillings == {I32, Str, Bool, Pointer(I32), Fallible(Str)}
OwnFault(rules, types) ==
  (\E i \in DOMAIN types : Holds(types[i], InferError)) =>
    \A rule \in rules, u \in Fillings :
      Rule(rule, [i \in DOMAIN types |-> Filled(types[i], u)]) => Rule(rule, types)
NoCascade ==
  /\ Doing("binary") => OwnFault({"assign", "arithmetic", "literal", "compare", "logical"},
                                 <<Val(2).type, Val(1).type>>)
  /\ Doing("unary") => OwnFault({UnaryRule(form) : form \in UnaryForms}, <<Val(1).type>>)
  /\ Doing("arms") => OwnFault(Patterns, <<Val(2).type>>)
  /\ Doing("arm") => OwnFault({"assign"}, <<Val(2).type, Val(1).type>>)
  /\ Doing("use") => OwnFault({"assign"}, <<expected_ret, Val(1).type>>)

Sound == {t \in TypesPresent \ {NoType} : \A p \in Poison : ~Holds(t, p)}

\* What may be assigned step by step through variables of other types may be
\* assigned at once: no detour gets a value past a check.
AssignChains ==
  Doing("use") =>
    LET v == Val(1).type
        sound == Sound
        there == {u \in sound : Assignable(u, v)} IN
    v \in sound => \A u \in there, t \in sound : Assignable(t, u) => t \in there

\* Which operand of a comparison comes first does not matter.
ComparesBothWays ==
  Doing("binary") =>
    (Comparable(Val(2).type, Val(1).type) <=> Comparable(Val(1).type, Val(2).type))

\* The rules for two types do not depend on a way round or an order.
RulesConsistent == AssignChains /\ ComparesBothWays

\* The bits that the number, and the number before it, take.
Bits(m) == IF m[2] = 0 THEN m[1] + 1 ELSE m[1]
BitsBefore(m) == IF m[1] + m[2] < 1 THEN 0 ELSE m[1]
FitsIn(type, node, value) ==
  CASE node = "int" /\ IsInteger(type) ->
         Bits(value) + (IF IsSignedInt(type) THEN 1 ELSE 0) <= BitWidth[type.name]
    [] node = "-int" /\ IsInteger(type) ->
         IsSignedInt(type) /\ BitsBefore(value) + 1 <= BitWidth[type.name]
    [] node \in {"float", "-float"} /\ IsPrim(type, "f32") -> value[1] < 128
    [] OTHER -> TRUE

\* Numbers at the limits of all the types.
Limits ==
  {<<e, d>> : e \in {0, 127, 128} \cup UNION {{BitWidth[name] - 1, BitWidth[name]} :
                                                 name \in DOMAIN BitWidth},
              d \in {0 - 1, 0}}

\* A literal that initializes a variable is reported just if its value takes more
\* bits, in two's complement, than the declared type has.
InitFits ==
  Doing("use") /\ Val(1).node \notin {"other", "const"} =>
    \A name \in DOMAIN BitWidth, value \in Values(Val(1).node, Limits) :
      Overflow(Primitive(name), Val(1).node, value)
        <=> ~FitsIn(Primitive(name), Val(1).node, value)
=============================================================================
