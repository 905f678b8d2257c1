------------------------------ MODULE Resolver ------------------------------
(***************************************************************************)
(* The resolver (src/resolver.c): the walk that gives every identifier a   *)
(* declaration.  A list of declarations or statements is gone through      *)
(* three times: once to define what it declares, once for its uses, once   *)
(* to resolve what is in it.                                               *)
(*                                                                         *)
(* The C call stack is the sequence frames, one frame per construct that   *)
(* has pushed a scope; the program is whatever lists and constructs the    *)
(* walk meets, so one behaviour is one program.  If statements, loops      *)
(* without a condition, unsafe blocks and the expressions whose parts are  *)
(* visited add nothing: those parts are met directly.  Only modules are    *)
(* known ahead, since paths look into them.                                *)
(***************************************************************************)
EXTENDS Chains

CONSTANTS
  Stmts,      \* the declarations and statements of programs
  DeclLists,  \* the lists modules consist of
  Lists,      \* the lists programs and blocks consist of
  MaxDepth    \* how deep constructs nest (bounds the model only)

DeclKinds == {"func", "type", "var", "mod"}
StmtKinds == DeclKinds \cup {"use", "tuple", "method", "code"}

\* A symbol remembers where in its list it comes from.
NoNode == [is |-> "binder"]   \* a parameter, capture or pattern
Symbol == [kind : DeclKinds, node : Stmts \cup {NoNode}, at : Nat]

ASSUME ResolverAssumption ==
  /\ NoSymbol \notin Symbol
  /\ \A s \in Stmts :
       /\ s.is \in StmtKinds
       /\ s.is \in DeclKinds => s.name \in Names
       /\ s.is = "mod" => s.decls \in DeclLists
       /\ s.is = "use" => s.path \in Seq(Names) /\ s.path # <<>>
       /\ s.is = "tuple" => s.targets \subseteq Names
  /\ DeclLists \subseteq Seq(Stmts)
  /\ Lists \subseteq Seq(Stmts)
  /\ MaxDepth \in Nat

VARIABLES
  frames,  \* the constructs whose scope is open, outermost first
  chain,   \* r->st: the scopes, the root first
  report,  \* what the last step reported
  met      \* the identifier the last step came to, if any

vars == <<frames, chain, report, met>>

Reports == {"none", "duplicate", "undefined", "unresolved", "crash"}
ListFrames == {"program", "mod", "block"}
Frame == [kind : ListFrames \cup {"func", "while", "for", "arm", "catch"},
          list : Lists \cup DeclLists \cup {<<>>},
          pass : {"decls", "uses", "walk"},
          pos : Nat,                  \* the statement of the list it is at
          binders : SUBSET Names]     \* names its scope starts with

----------------------------------------------------------------------------
(* Helpers                                                                 *)

Top == frames[Len(frames)]
Here == Top.list[Top.pos]
InList == frames # <<>> /\ Top.kind \in ListFrames
Remaining == Top.pos <= Len(Top.list)
WalkingAt(kinds) == InList /\ Top.pass = "walk" /\ Remaining /\ Here.is \in kinds

OnTop(frame) == [frames EXCEPT ![Len(frames)] = frame]
Advance == OnTop([Top EXCEPT !.pos = @ + 1])
NextPass(pass) == OnTop([Top EXCEPT !.pass = pass, !.pos = 1])

\* What a step reports when it is not about an identifier.
Say(what) == report' = what /\ met' = NoSymbol

SymbolOf(s, k) == [kind |-> s.is, node |-> s, at |-> k]
Binder == [kind |-> "var", node |-> NoNode, at |-> 0]

SameKindUnchecked(existing, kind) == TRUE   \* a mutant
SameKind(existing, kind) == existing.kind = kind

\* define_symbol
define_symbol(name, symbol) ==
  LET existing == LookupLocal(chain, name) IN
  /\ Say(IF existing # NoSymbol /\ ~SameKind(existing, symbol.kind)
         THEN "duplicate" ELSE "none")
  /\ chain' = Define(chain, name, symbol)

\* find_symbol_in_path: each further segment is looked for among the
\* declarations of the module found so far.  A module known by an alias has
\* the use for its node, which holds none.
Member(symbol, segment) ==
  LET decls == symbol.node.decls
      found == {k \in 1 .. Len(decls) :
                  decls[k].is \in DeclKinds /\ decls[k].name = segment} IN
  IF found = {} THEN NoSymbol
  ELSE LET k == CHOOSE k \in found : \A j \in found : k <= j IN SymbolOf(decls[k], k)

Punned == [kind |-> "punned"]   \* the path went through an alias of a module
Through(symbol, segment) ==
  IF symbol \in {NoSymbol, Punned} THEN symbol
  ELSE IF symbol.kind # "mod" THEN NoSymbol
  ELSE IF symbol.node.is = "use" THEN Punned
  ELSE Member(symbol, segment)

FirstSegmentLocal(name) == LookupLocal(chain, name)   \* a mutant
FirstSegment(name) == Lookup(chain, name)
Trail(path) ==
  LET upto[k \in 1 .. Len(path)] ==
        IF k = 1 THEN FirstSegment(path[1]) ELSE Through(upto[k - 1], path[k])
  IN upto
find_symbol_in_path(path) == Trail(path)[Len(path)]

----------------------------------------------------------------------------
(* collect_decls                                                           *)

Collecting == InList /\ Top.pass = "decls"

\* Its first loop: everything but uses is defined.
CollectDecl ==
  /\ Collecting
  /\ Remaining
  /\ Here.is \in DeclKinds
  /\ define_symbol(Here.name, SymbolOf(Here, Top.pos))
  /\ frames' = Advance

CollectOther ==
  /\ Collecting
  /\ Remaining
  /\ Here.is \notin DeclKinds
  /\ frames' = Advance
  /\ Say("none")
  /\ UNCHANGED chain

EndOfDecls ==
  /\ Collecting
  /\ ~Remaining
  /\ frames' = NextPass("uses")
  /\ Say("none")
  /\ UNCHANGED chain

\* Its second loop: a use defines its last segment, unless the scope has it.
HandlingUses == InList /\ Top.pass = "uses"

WithAliasAlways(alias, symbol) ==   \* a mutant
  [chain EXCEPT ![Len(chain)] = [@ EXCEPT ![alias] = symbol]]
WithAlias(alias, symbol) == Define(chain, alias, symbol)

UseFound ==
  LET alias == Here.path[Len(Here.path)]
      target == find_symbol_in_path(Here.path) IN
  /\ HandlingUses
  /\ Remaining
  /\ Here.is = "use"
  /\ target \notin {NoSymbol, Punned}
  /\ chain' = WithAlias(alias, [SymbolOf(Here, Top.pos) EXCEPT !.kind = target.kind])
  /\ frames' = Advance
  /\ Say("none")

UseUnresolved ==
  /\ HandlingUses
  /\ Remaining
  /\ Here.is = "use"
  /\ find_symbol_in_path(Here.path) = NoSymbol
  /\ frames' = Advance
  /\ Say("unresolved")
  /\ UNCHANGED chain

\* Where the declarations of a module would be, a use has memory nobody has
\* written: taken for the end of a list, or for a pointer.
UsePunned ==
  /\ HandlingUses
  /\ Remaining
  /\ Here.is = "use"
  /\ find_symbol_in_path(Here.path) = Punned
  /\ frames' = Advance
  /\ Say("unresolved") \/ Say("crash")
  /\ UNCHANGED chain

UseOther ==
  /\ HandlingUses
  /\ Remaining
  /\ Here.is # "use"
  /\ frames' = Advance
  /\ Say("none")
  /\ UNCHANGED chain

EndOfUses ==
  /\ HandlingUses
  /\ ~Remaining
  /\ frames' = NextPass("walk")
  /\ Say("none")
  /\ UNCHANGED chain

----------------------------------------------------------------------------
(* resolve_node: scopes                                                    *)

ScopeOf(binders) == [name \in Names |-> IF name \in binders THEN Binder ELSE NoSymbol]

PushFrame(kind, list, pass, binders) ==
  /\ Len(frames) < MaxDepth
  /\ frames' = Append(frames, [kind |-> kind, list |-> list, pass |-> pass,
                               pos |-> 1, binders |-> binders])
  /\ chain' = Push(chain, ScopeOf(binders))
  /\ Say("none")

\* Where an expression may stand, and where a block may.
AtExpression ==
  \/ WalkingAt({"var", "tuple", "type", "code"})
  \/ frames # <<>> /\ Top.kind \in {"while", "arm", "catch"}
AtBlock ==
  \/ WalkingAt({"code"})
  \/ frames # <<>> /\ Top.kind \in {"func", "while", "for", "arm", "catch"}

\* AST_FUNC_DECL: the parameters and the result, then the body.
EnterFunc(binders) ==
  /\ WalkingAt({"func", "type", "method"})
  /\ PushFrame("func", <<>>, "walk", binders)

EnterBlock(list) ==
  /\ AtBlock
  /\ PushFrame("block", list, "decls", {})

\* AST_MOD_DECL
EnterMod ==
  /\ WalkingAt({"mod"})
  /\ PushFrame("mod", Here.decls, "decls", {})

\* The condition of a while is inside its scope, what a for iterates is not.
EnterWhile ==
  /\ WalkingAt({"code"})
  /\ PushFrame("while", <<>>, "walk", {})

EnterFor(binders) ==
  /\ WalkingAt({"code"})
  /\ PushFrame("for", <<>>, "walk", binders)

\* AST_MATCH_ARM: the names in its pattern, then the guard and the body.
EnterArm(binders) ==
  /\ AtExpression
  /\ PushFrame("arm", <<>>, "walk", binders)

\* AST_CATCH_EXPR: its handler.
EnterCatch(binders) ==
  /\ AtExpression
  /\ PushFrame("catch", <<>>, "walk", binders)

ScopesKept == chain        \* a mutant: no pop
ScopesLeft == Pop(chain)

\* A function or a module is all there is to its statement.
Below == SubSeq(frames, 1, Len(frames) - 1)
Resumed(frame) ==
  IF frame.kind \in ListFrames /\ frame.list[frame.pos].is \in {"func", "mod"}
  THEN [frame EXCEPT !.pos = @ + 1]
  ELSE frame
Complete == InList => Top.pass = "walk" /\ ~Remaining

Leave ==
  /\ Len(frames) > 1
  /\ Complete
  /\ frames' = [Below EXCEPT ![Len(Below)] = Resumed(@)]
  /\ chain' = ScopesLeft
  /\ Say("none")

\* The root scope is left for the type checker.
LeaveProgram ==
  /\ Len(frames) = 1
  /\ Complete
  /\ frames' = <<>>
  /\ Say("none")
  /\ UNCHANGED chain

----------------------------------------------------------------------------
(* resolve_node: declarations and references                               *)

\* The end of a statement.  Its targets are defined by a destructuring only
\* now; a variable was defined when the list was collected.
Bound == IF Here.is = "tuple" THEN Here.targets ELSE {Here.name}
WithTargets ==
  [chain EXCEPT ![Len(chain)] =
     [name \in Names |->
        IF name \in Bound /\ @[name] = NoSymbol
        THEN [kind |-> "var", node |-> Here, at |-> Top.pos]
        ELSE @[name]]]

EndOfDeclaration ==
  /\ WalkingAt({"var", "tuple"})
  /\ frames' = Advance
  /\ chain' = WithTargets
  /\ Say("none")

EndOfOther ==
  /\ WalkingAt({"type", "use", "method", "code"})
  /\ frames' = Advance
  /\ Say("none")
  /\ UNCHANGED chain

\* AST_IDENTIFIER
BoundNameLocal(name) == LookupLocal(chain, name)   \* a mutant
BoundName(name) == Lookup(chain, name)
Refer(name) ==
  /\ AtExpression
  /\ report' = IF BoundName(name) = NoSymbol THEN "undefined" ELSE "none"
  /\ met' = name
  /\ UNCHANGED <<frames, chain>>

\* An identifier inside a cast, an array literal, a range or a named
\* argument: these fall to the default case and are not visited.
ReferUnvisited(name) ==
  /\ AtExpression
  /\ report' = "none"
  /\ met' = name
  /\ UNCHANGED <<frames, chain>>

----------------------------------------------------------------------------

Init ==
  /\ \E list \in Lists :
       frames = <<[kind |-> "program", list |-> list, pass |-> "decls", pos |-> 1,
                   binders |-> {}]>>
  /\ chain = <<EmptyScope>>
  /\ report = "none"
  /\ met = NoSymbol

Collect == CollectDecl \/ CollectOther \/ EndOfDecls
HandleUse == UseFound \/ UseUnresolved \/ UsePunned \/ UseOther \/ EndOfUses
Enter ==
  \/ \E binders \in SUBSET Names :
       \/ EnterFunc(binders)
       \/ EnterFor(binders)
       \/ EnterArm(binders)
       \/ EnterCatch(binders)
  \/ \E list \in Lists : EnterBlock(list)
  \/ EnterMod
  \/ EnterWhile
Next ==
  /\ report # "crash"
  /\ \/ Collect
     \/ HandleUse
     \/ Enter
     \/ Leave
     \/ LeaveProgram
     \/ EndOfDeclaration
     \/ EndOfOther
     \/ \E name \in Names : Refer(name) \/ ReferUnvisited(name)

Spec == Init /\ [][Next]_vars

----------------------------------------------------------------------------
(* Properties                                                              *)

\* Types; every construct has its scope, and only the root is left at the
\* end: each push of resolve_node has its pop on every path.
TypeOK ==
  /\ frames \in Seq(Frame)
  /\ chain \in Seq([Names -> Symbol \cup {NoSymbol}])
  /\ Len(chain) = IF frames = <<>> THEN 1 ELSE Len(frames)
  /\ report \in Reports
  /\ met \in Names \cup {NoSymbol}

DeclPositions(list, name) ==
  {k \in 1 .. Len(list) : list[k].is \in DeclKinds /\ list[k].name = name}
IsFirst(k, positions) == k \in positions /\ \A j \in positions : k <= j

\* Once a list has been collected, a name it declares means its first
\* declaration there, until the scope is left: no later declaration, no use
\* with that alias (collect_decls's second loop) and no destructuring or
\* variable met by the walk takes its place.
FirstDeclared ==
  \A k \in 1 .. Len(frames) : \A name \in Names :
    LET positions == DeclPositions(frames[k].list, name) IN
    frames[k].pass # "decls" /\ positions # {} =>
      \E j \in positions :
        /\ IsFirst(j, positions)
        /\ chain[k][name] = SymbolOf(frames[k].list[j], j)

Aliases(s, name) == s.is = "use" /\ s.path[Len(s.path)] = name
Targets(s, name) == s.is = "tuple" /\ name \in s.targets

\* The text of a construct declares name for what the walk is at: everywhere
\* in its list, or from a destructuring on.
Declared(frame, name) ==
  \/ name \in frame.binders
  \/ DeclPositions(frame.list, name) # {}
  \/ \E k \in 1 .. frame.pos - 1 : Targets(frame.list[k], name)
Introduced(frame, name, symbol) ==
  \/ name \in frame.binders /\ symbol = Binder
  \/ /\ symbol.at \in 1 .. Len(frame.list)
     /\ symbol.node = frame.list[symbol.at]
     /\ \/ symbol.node.is \in DeclKinds /\ symbol.node.name = name
        \/ Aliases(symbol.node, name)
        \/ Targets(symbol.node, name) /\ symbol.at < frame.pos

\* What AST_IDENTIFIER looks up is lexical scoping: it finds something
\* introduced by the innermost construct that declares the name (or by an
\* alias further in), and nothing only if no enclosing construct declares it.
ReferencesLexical ==
  AtExpression =>
    \A name \in Names :
      LET found == BoundName(name) IN
      IF found = NoSymbol
      THEN \A k \in 1 .. Len(frames) : ~Declared(frames[k], name)
      ELSE \E k \in 1 .. Len(frames) :
             /\ Introduced(frames[k], name, found)
             /\ \A j \in k + 1 .. Len(frames) : ~Declared(frames[j], name)

\* define_symbol reports a declaration exactly when its list has already
\* declared the name as something of another kind.
DuplicateReported ==
  [][CollectDecl =>
       (report' = "duplicate" <=>
          \E j \in 1 .. Top.pos - 1 :
            /\ IsFirst(j, DeclPositions(Top.list, Here.name))
            /\ Top.list[j].is # Here.is)]_vars

Means(frame, name, k) ==
  /\ frame.kind \in ListFrames
  /\ IsFirst(k, DeclPositions(frame.list, name))

\* A use is never refused because of where the module it names stands: not if
\* some enclosing list declares the module, before or after the use, with the
\* member in it, and nothing further in takes the module's name.
UsesHoisted ==
  [][report' \in {"unresolved", "crash"} =>
       LET path == Here.path IN
       Len(path) = 2 =>
         ~\E k \in 1 .. Len(frames) :
            /\ \E m \in 1 .. Len(frames[k].list) :
                 /\ Means(frames[k], path[1], m)
                 /\ frames[k].list[m].is = "mod"
                 /\ DeclPositions(frames[k].list[m].decls, path[2]) # {}
            /\ \A j \in k + 1 .. Len(frames) :
                 /\ ~Declared(frames[j], path[1])
                 /\ \A i \in 1 .. Len(frames[j].list) : ~Aliases(frames[j].list[i], path[1])]_vars

\* Every identifier that no scope defines is reported: "For references
\* (identifiers): Validate name exists" (ARCHITECTURE.md).
ReferencesValidated ==
  met # NoSymbol /\ BoundName(met) = NoSymbol => report = "undefined"
=============================================================================
