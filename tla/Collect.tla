------------------------------ MODULE Collect ------------------------------
(***************************************************************************)
(* The types of declarations: typechecker_collect_decls, which is to give  *)
(* every symbol of a list of declarations its type before anything is      *)
(* checked, and what typechecker_check_node and typechecker_check give it  *)
(* for that list (src/typecheck.c).                                        *)
(*                                                                         *)
(* Collect reads the list from the declarations of an AST_PROGRAM, but is  *)
(* called with the first declaration of the program, or with the first     *)
(* statement of a block: it takes for the list what that node has in the   *)
(* first word of its union (ast.h).                                        *)
(***************************************************************************)
EXTENDS Chains, FiniteSets

CONSTANTS
  Programs,  \* the programs: sequences of declarations
  Length     \* how much of its functions' text is walked (bounds the model only)

\* Types, as far as what they are made of was known when they were made: of the
\* names the declaration uses, those that had no type.
NoType == [kind |-> "none"]
NewType(kind, names) == [kind |-> kind, unknown |-> names]
Symbol(type) == [type |-> type]
SymbolTypes ==
  {NoType} \cup [kind : {"STRUCT", "VARIANT", "FUNCTION", "VALUE"}, unknown : SUBSET Names]
Symbols == [type : SymbolTypes]

\* What a declaration is, the names it uses, and what it is a part of: a schema of
\* a type or of none, a method of a type.  An interface is here for an error, too:
\* a symbol that never gets a type.
DeclKinds ==
  {"type", "variant", "func", "extern func", "var", "extern var", "schema", "interface", "method"}
Declaration ==
  [kind : DeclKinds, name : Names \cup {NoSymbol}, names : SUBSET Names,
   of : Names \cup {NoSymbol}]
Named(decl) == decl.kind # "method"

SymKind(decl) ==
  CASE decl.kind \in {"func", "extern func"} -> "SYM_FUNC"
    [] decl.kind \in {"var", "extern var"} -> "SYM_VAR"
    [] OTHER -> "SYM_TYPE"

\* A program the resolver has found no fault with: what is declared more than once
\* is of the same kind of symbol every time, and has the one symbol.
WellFormed(list) ==
  /\ list \in Seq(Declaration)
  /\ \A i \in DOMAIN list :
       /\ IF Named(list[i]) THEN list[i].name \in Names ELSE list[i].of \in Names
       /\ \A j \in DOMAIN list :
            Named(list[i]) /\ Named(list[j]) /\ list[i].name = list[j].name =>
              SymKind(list[i]) = SymKind(list[j])

ASSUME CollectAssumption ==
  /\ Length \in Nat
  /\ NoSymbol \notin Names
  /\ NoSymbol \notin Symbols
  /\ \A list \in Programs : WellFormed(list)

VARIABLES
  decls,      \* the program
  phase,
  at,         \* the declaration that is checked
  chain,
  had_error,
  log         \* what was met in functions: scopes, variables and uses of names

collect_vars == <<decls, phase, at, chain, had_error, log>>

----------------------------------------------------------------------------
(* What the symbols are given                                              *)

\* The type of the symbol that name denotes.
TypeOf(ch, name) == IF Lookup(ch, name) = NoSymbol THEN NoType ELSE Lookup(ch, name).type
Unresolved(ch, names) == {name \in names : TypeOf(ch, name) = NoType}

\* sym->type = type, for the symbol of the innermost scope if there is one.
SetType(ch, name, type) ==
  IF LookupLocal(ch, name) = NoSymbol THEN ch
  ELSE [ch EXCEPT ![Len(ch)] = [@ EXCEPT ![name] = Symbol(type)]]

----------------------------------------------------------------------------
(* typechecker_collect_decls.                                              *)

\* Pass 1: the types of types and variants, empty.
NewTypes(ch, decl) ==
  CASE decl.kind = "type" -> SetType(ch, decl.name, NewType("STRUCT", {}))
    [] decl.kind = "variant" -> SetType(ch, decl.name, NewType("VARIANT", {}))
    [] OTHER -> ch

\* Pass 1.5: their fields.
Populate(ch, decl) ==
  IF decl.kind \in {"type", "variant"} /\ LookupLocal(ch, decl.name) # NoSymbol
  THEN SetType(ch, decl.name,
               [TypeOf(ch, decl.name) EXCEPT !.unknown = Unresolved(ch, decl.names)])
  ELSE ch

\* Pass 2: functions, variables, schemas, methods; out is the chain, and of which
\* declarations an error was reported.
Reports(ch, decl) ==
  \/ /\ decl.kind = "schema"
     /\ LookupLocal(ch, decl.name) # NoSymbol
     /\ decl.of # NoSymbol
     /\ TypeOf(ch, decl.of).kind # "STRUCT"
  \/ decl.kind = "method" /\ TypeOf(ch, decl.of) = NoType

Typed(ch, decl) ==
  CASE decl.kind \in {"func", "extern func"} ->
         SetType(ch, decl.name, NewType("FUNCTION", Unresolved(ch, decl.names)))
    [] decl.kind = "extern var" \/ (decl.kind = "var" /\ decl.names # {}) ->
         SetType(ch, decl.name, NewType("VALUE", Unresolved(ch, decl.names)))
    [] decl.kind = "schema" ->
         SetType(ch, decl.name, NewType("STRUCT", Unresolved(ch, decl.names)))
    [] OTHER -> ch

Declare(out, decl) ==
  [chain |-> Typed(out.chain, decl),
   reported |-> Append(out.reported, Reports(out.chain, decl))]

\* The loop that gives x and each declaration of the list in turn to a pass.
Through(pass(_, _), x, list) ==
  LET after[n \in 0 .. Len(list)] == IF n = 0 THEN x ELSE pass(after[n - 1], list[n])
  IN  after[Len(list)]

CollectAtOnce(ch, list) ==   \* a mutant: fields are resolved with their types
  Through(Declare,
          [chain |-> Through(LAMBDA c, d : Populate(NewTypes(c, d), d), ch, list),
           reported |-> <<>>],
          list)
Collect(ch, list) ==
  Through(Declare,
          [chain |-> Through(Populate, Through(NewTypes, ch, list), list),
           reported |-> <<>>],
          list)

----------------------------------------------------------------------------
(* The calls.                                                              *)

\* What the first word of a node's union may be: a list of nodes, or what is no
\* node and ends the program when it is read.  A declaration's is its realm and
\* its pub and main, or const and volatile, or pub: null if it has none of them.
Junk == <<[kind |-> "junk"]>>
FirstWord(decl) ==
  CASE decl.kind = "extern func" -> {Junk}
    [] decl.kind = "extern var" -> {<<>>}
    [] OTHER -> {<<>>, Junk}

\* The first word of a block's first statement: null for a plain variable, a
\* return, an if of nothing; the text of a block in it, in which there may be a
\* method declaration; a value, an operator or a name; Junk, too, without any.
FirstWords == {<<>>, Junk} \cup {<<[kind |-> "method", of |-> name]>> : name \in Names}

\* typechecker_collect_decls of what the first word is.
CollectFrom(ch, first) == Collect(ch, first)

Declared == {decls[i].name : i \in DOMAIN decls}

\* What the resolver leaves of the program: symbols without types.
Root == [name \in Names |-> IF name \in Declared THEN Symbol(NoType) ELSE NoSymbol]

CollectInit ==
  /\ decls \in Programs
  /\ phase = "start"
  /\ at = 1
  /\ chain = <<Root>>
  /\ had_error = FALSE
  /\ log = <<>>

\* typechecker_check, up to its loop.
CheckProgram ==
  /\ phase = "start"
  /\ \E first \in IF decls = <<>> THEN {Junk} ELSE FirstWord(decls[1]) :
       IF first = Junk
       THEN phase' = "crashed" /\ UNCHANGED <<chain, had_error>>
       ELSE LET out == CollectFrom(chain, first) IN
            /\ phase' = "decls"
            /\ chain' = out.chain
            /\ had_error' = \E k \in DOMAIN out.reported : out.reported[k]
  /\ UNCHANGED <<decls, at, log>>

\* The history: what was met, and how many scopes of functions are open after it.
Open == IF log = <<>> THEN 0 ELSE log[Len(log)].open
Note(event, names) ==
  log' = Append(log, [event |-> event, names |-> names,
                      open |-> CASE event = "open" -> Open + 1
                                 [] event = "close" -> Open - 1
                                 [] event = "end" -> 0
                                 [] OTHER -> Open])
Room == Len(log) < Length

Current == decls[at]
InDecls == phase = "decls" /\ at <= Len(decls)

\* Declarations in which nothing is looked up or defined.
CheckOther ==
  /\ InDecls
  /\ Current.kind \notin {"func", "var"}
  /\ at' = at + 1
  /\ UNCHANGED <<decls, phase, chain, had_error, log>>

\* AST_VAR_DECL of the program: its symbol is there, and stays as it is.
CheckVar ==
  /\ InDecls
  /\ Current.kind = "var"
  /\ chain' = Define(chain, Current.name, Symbol(NewType("VALUE", {})))
  /\ at' = at + 1
  /\ UNCHANGED <<decls, phase, had_error, log>>

\* AST_FUNC_DECL, up to its body: the scope of the parameters, here at most one.
CheckFunc ==
  /\ InDecls
  /\ Current.kind = "func"
  /\ Room
  /\ phase' = "block"
  /\ \E params \in SUBSET Names :
       /\ Cardinality(params) <= 1
       /\ chain' = Push(chain, [name \in Names |->
                      IF name \in params THEN Symbol(NewType("VALUE", {})) ELSE NoSymbol])
       /\ Note("open", params)
  /\ UNCHANGED <<decls, at, had_error>>

\* AST_BLOCK, up to its statements.
EnterBlock ==
  /\ phase = "block"
  /\ \E first \in FirstWords :
       IF first = Junk
       THEN phase' = "crashed" /\ UNCHANGED <<chain, had_error, log>>
       ELSE LET out == CollectFrom(Push(chain, EmptyScope), first) IN
            /\ phase' = "statements"
            /\ chain' = out.chain
            /\ had_error' = (had_error \/ \E k \in DOMAIN out.reported : out.reported[k])
            /\ Note("open", {})
  /\ UNCHANGED <<decls, at>>

InBlock == phase = "statements" /\ Room
NestedBlock ==
  /\ InBlock
  /\ phase' = "block"
  /\ UNCHANGED <<decls, at, chain, had_error, log>>

LocalVar ==
  /\ InBlock
  /\ \E name \in Names :
       /\ chain' = Define(chain, name, Symbol(NewType("VALUE", {})))
       /\ Note("var", {name})
  /\ UNCHANGED <<decls, phase, at, had_error>>

\* The case AST_IDENTIFIER of typechecker_infer_expr; the resolver has found a
\* symbol for every name.
Known(name) == TypeOf(chain, name) # NoType
UseName ==
  /\ InBlock
  /\ \E name \in Names :
       /\ Lookup(chain, name) # NoSymbol
       /\ had_error' = (had_error \/ ~Known(name))
       /\ Note(IF Known(name) THEN "use" ELSE "undefined", {name})
  /\ UNCHANGED <<decls, phase, at, chain>>

\* The end of a block, and with the outermost that of its function.
LeaveScope ==   \* a mutant: the parameters' scope stays
  /\ InBlock
  /\ chain' = Pop(chain)
  /\ IF Len(chain) > 3 THEN UNCHANGED <<phase, at>> ELSE phase' = "decls" /\ at' = at + 1
  /\ Note(IF Len(chain) > 3 THEN "close" ELSE "end", {})
  /\ UNCHANGED <<decls, had_error>>
LeaveBlock ==
  /\ InBlock
  /\ IF Len(chain) > 3
     THEN chain' = Pop(chain) /\ UNCHANGED <<phase, at>>
     ELSE chain' = Pop(Pop(chain)) /\ phase' = "decls" /\ at' = at + 1
  /\ Note(IF Len(chain) > 3 THEN "close" ELSE "end", {})
  /\ UNCHANGED <<decls, had_error>>

CollectNext ==
  \/ CheckProgram
  \/ CheckOther
  \/ CheckVar
  \/ CheckFunc
  \/ EnterBlock
  \/ NestedBlock
  \/ LocalVar
  \/ UseName
  \/ LeaveBlock

CollectSpec == CollectInit /\ [][CollectNext]_collect_vars

----------------------------------------------------------------------------
(* Properties.                                                             *)

\* Every symbol has a type or none; outside of functions the scope of the program
\* is the only one, and in their bodies there are two more.
Events == [event : {"open", "var", "use", "undefined", "close", "end"},
           names : SUBSET Names, open : Nat]
CollectTypeOK ==
  /\ WellFormed(decls)
  /\ phase \in {"start", "decls", "block", "statements", "crashed"}
  /\ at \in 1 .. Len(decls) + 1
  /\ phase \in {"block", "statements"} => at <= Len(decls)
  /\ chain \in Seq([Names -> Symbols \cup {NoSymbol}])
  /\ Len(chain) >= CASE phase = "block" -> 2 [] phase = "statements" -> 3 [] OTHER -> 1
  /\ phase \in {"start", "decls"} => Len(chain) = 1
  /\ had_error \in BOOLEAN
  /\ log \in Seq(Events)
  /\ Len(log) <= Length + (IF phase = "block" THEN 0 ELSE 1)

\* Declarations that give their names types: in the first passes, or in pass 2.
TypeKinds == {"type", "variant"}
IsType(i) == decls[i].kind \in TypeKinds
Gives(i) ==
  /\ decls[i].kind \notin {"method", "interface"}
  /\ decls[i].kind = "var" => decls[i].names # {}
KindGiven(i) ==
  CASE decls[i].kind \in {"type", "schema"} -> "STRUCT"
    [] decls[i].kind = "variant" -> "VARIANT"
    [] decls[i].kind \in {"func", "extern func"} -> "FUNCTION"
    [] OTHER -> "VALUE"

\* Those that have done so when pass 2 comes to the declaration i.
GivesBefore(j, i) == Gives(j) /\ (IsType(j) \/ j < i)

\* Names the declaration i may use whose types it knows: the types and variants, be
\* they declared before it or after; and, unless it is one of these, what is
\* declared before it.
KnownTo(i) ==
  {decls[j].name : j \in {k \in DOMAIN decls : GivesBefore(k, i) /\ (IsType(i) => IsType(k))}}

\* The type of the name of j that i finds is that of j: what pass 2 gives a name
\* replaces a type or variant of the name wherever it stands, else the later
\* declaration the earlier one.
Replaces(j, k) == IF IsType(j) = IsType(k) THEN j > k ELSE IsType(k)
Decides(j, i) ==
  /\ GivesBefore(j, i)
  /\ \A k \in DOMAIN decls :
       GivesBefore(k, i) /\ decls[k].name = decls[j].name => k = j \/ Replaces(j, k)
StructTo(i) ==
  {decls[j].name : j \in {k \in DOMAIN decls : Decides(k, i) /\ KindGiven(k) = "STRUCT"}}

\* Given the list that is meant, the three passes leave every name the type of one
\* of its declarations, even if the resolver has let it be declared again, or none
\* if none of them has one; in that type nothing is unknown that was to be known,
\* whatever the order of the declarations.  A method is reported just if its type
\* is missing, a schema if its parent is no struct when the schema is come to.
TypesKnown ==
  phase = "start" =>
    LET out == Collect(chain, decls) IN
    /\ \A name \in Names :
         TypeOf(out.chain, name) # NoType <=>
           \E i \in DOMAIN decls : Gives(i) /\ decls[i].name = name
    /\ \A i \in DOMAIN decls :
         /\ Decides(i, Len(decls) + 1) =>
              TypeOf(out.chain, decls[i].name) =
                NewType(KindGiven(i), decls[i].names \ KnownTo(i))
         /\ decls[i].kind = "method" =>
              (out.reported[i] <=> decls[i].of \notin KnownTo(i))
         /\ decls[i].kind = "schema" =>
              (out.reported[i] <=> decls[i].of \notin StructTo(i) \cup {NoSymbol})

\* The scope of what was noted at j is still open at i.
StillOpen(j, i) == \A k \in j + 1 .. i : log[k].open >= log[j].open

\* The use of a name is not reported just if a variable or a parameter of the
\* name was declared before it in a scope still open.
KnownIffEarlier ==
  \A i \in DOMAIN log :
    log[i].event \in {"use", "undefined"} =>
      (log[i].event = "use" <=>
         \E j \in 1 .. i - 1 : /\ log[j].event \in {"var", "open"}
                               /\ log[i].names \subseteq log[j].names
                               /\ StillOpen(j, i))

\* No declared name gets its type; every scope of a function has, with their types,
\* the names that were declared at its depth since it was opened.
Defines(j, k, name) ==
  /\ log[j].event \in {"var", "open"}
  /\ name \in log[j].names
  /\ log[j].open = k - 1
  /\ StillOpen(j, Len(log))
ScopesNoted ==
  /\ Len(chain) = Open + 1
  /\ chain[1] = Root
  /\ \A k \in 2 .. Len(chain), name \in Names :
       chain[k][name] = IF \E j \in DOMAIN log : Defines(j, k, name)
                        THEN Symbol(NewType("VALUE", {}))
                        ELSE NoSymbol
  /\ \A j \in DOMAIN log : log[j].event \in {"var", "open"} => log[j].open > 0

\* What every step of the checker preserves.  That a declared function has no type
\* where it is called (DeclaredKnown) is a part of it.
CollectInv == CollectTypeOK /\ ScopesNoted /\ KnownIffEarlier

\* A function declared further down is a name with a type where it is called
\* ("second() -- Will this be found?", tests/samples/07_forward_refs.runes, which
\* compiles).
DeclaredKnown ==
  log # <<>> /\ log[Len(log)].event = "undefined" =>
    log[Len(log)].names \cap {decls[j].name : j \in {k \in DOMAIN decls :
                                               k > at /\ decls[k].kind = "func"}} = {}
=============================================================================
