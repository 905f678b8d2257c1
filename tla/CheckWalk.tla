----------------------------- MODULE CheckWalk -----------------------------
(***************************************************************************)
(* The type checker's walk over function bodies (check_node and the parts  *)
(* of infer_expr that open a scope, src/typecheck.c): the state it saves,  *)
(* overwrites and restores around its recursion.                           *)
(*                                                                         *)
(* The C call stack is the sequence open, one frame per construct whose    *)
(* handler has not returned; the program is whatever sequence of           *)
(* constructs the walk meets, so one behaviour is one program.  If         *)
(* statements, unsafe blocks and the match node itself keep no state:      *)
(* their blocks and arms are met directly.  What the walk prints about the *)
(* construct it is at is report; which expressions have which types is     *)
(* left to the program, and types are equal or not.  A type or variant     *)
(* declaration changes no state here, and the contents of a module are not *)
(* walked at all.                                                          *)
(***************************************************************************)
EXTENDS Naturals, Sequences, FiniteSets

CONSTANTS
  Declared,   \* the realms functions are declared with
  Types,      \* the resolved types functions return
  MaxDepth    \* how deep a program nests (bounds the model only)

Unresolved == "unknown"   \* TY_UNKNOWN and TY_INFER_ERROR
Void == "void"
NoType == "NULL"          \* expected_ret is NULL, or a return has no value
Realm == {"STACK", "ARENA", "HEAP", "GC", "FLEX", "MAIN"}

ASSUME CheckWalkAssumption ==
  /\ Declared \subseteq Realm \ {"MAIN"}
  /\ Void \in Types
  /\ Unresolved \notin Types
  /\ NoType \notin Types
  /\ MaxDepth \in Nat

VARIABLES
  open,           \* the constructs being checked, outermost first
  scopes,         \* tc->st: per scope, the depth of the construct that pushed it
  current_realm,  \* tc->current_realm
  expected_ret,   \* tc->expected_ret
  loop_depth,     \* tc->loop_depth
  report          \* what the last construct was reported for

vars == <<open, scopes, current_realm, expected_ret, loop_depth, report>>

TypeOrNot == Types \cup {Unresolved}
Kinds == {"func", "method", "block", "loop", "for", "arm", "catch"}
Reports == {"none", "nesting", "promote", "mismatch", "missing", "crash"}

Frame == [kind : Kinds,
          done : BOOLEAN,       \* its body has been met
          named : BOOLEAN,      \* catch: it names the error
          realm : Realm,        \* func: the realm its body is in
          saved : Realm,        \* func: saved_realm
          ret : TypeOrNot,      \* func: its return type
          delivers : BOOLEAN,   \* func: a return or an assignment set its result
          cut : BOOLEAN,        \* a function nested in it has been checked
          bad : BOOLEAN]        \* func: its nesting was reported

----------------------------------------------------------------------------
(* Helpers                                                                 *)

is_realm_nesting_legal(outer, inner) ==
  \/ outer \in {"MAIN", "HEAP", "FLEX"}
  \/ inner = "STACK"
  \/ outer = "GC" /\ inner = "GC"

\* symbol_table_push by the construct about to be opened, symbol_table_pop.
PushScope == Append(scopes, Len(open) + 1)
PopScope == IF Len(scopes) > 1 THEN SubSeq(scopes, 1, Len(scopes) - 1) ELSE scopes

Top == open[Len(open)]
Below == SubSeq(open, 1, Len(open) - 1)

\* A statement may stand at top level and in a block, an expression also in
\* the iterated expression of a for, in an arm and in a catch handler; a body
\* is met once.
Place == IF open = <<>> THEN "program" ELSE Top.kind
AtStatement == Place \in {"program", "block"}
AtExpression ==
  Place \in {"program", "block", "for", "arm", "catch"} /\ (~AtStatement => ~Top.done)
AtBody == ~AtStatement => ~Top.done

Plain == [kind |-> "block", done |-> FALSE, named |-> FALSE, realm |-> "MAIN",
          saved |-> "MAIN", ret |-> Void, delivers |-> FALSE, cut |-> FALSE,
          bad |-> FALSE]
Open(frame) == Len(open) < MaxDepth /\ open' = Append(open, frame)
\* The bound leaves a construct that must have a body room for it.
RoomForBody == Len(open) + 1 < MaxDepth

IsFunc(frame) == frame.kind \in {"func", "method"}
\* The innermost function being checked is the j-th construct.
Innermost(op, j) ==
  /\ j \in 1 .. Len(op)
  /\ IsFunc(op[j])
  /\ \A k \in j + 1 .. Len(op) : ~IsFunc(op[k])

\* What the caller of a finished function has left.
CutBelow == [k \in 1 .. Len(open) - 1 |-> [open[k] EXCEPT !.cut = TRUE]]

\* The result of the innermost function is set.
Delivered ==
  [k \in 1 .. Len(open) |->
     IF Innermost(open, k) THEN [open[k] EXCEPT !.delivers = TRUE] ELSE open[k]]

----------------------------------------------------------------------------
(* Functions                                                               *)

\* AST_FUNC_DECL up to the body.  A function called main is in realm MAIN and
\* may stand anywhere.
RealmOfBody(main, realm) == IF main THEN "MAIN" ELSE realm

EnterFunc(main, realm, ret) ==
  LET bad == ~main /\ ~is_realm_nesting_legal(current_realm, realm) IN
  /\ AtStatement
  /\ Open([Plain EXCEPT !.kind = "func", !.realm = RealmOfBody(main, realm),
                        !.saved = current_realm, !.ret = ret, !.bad = bad])
  /\ report' = IF bad THEN "nesting" ELSE "none"
  /\ current_realm' = RealmOfBody(main, realm)
  /\ scopes' = PushScope
  /\ expected_ret' = ret
  /\ UNCHANGED loop_depth

\* One function of AST_METHOD_DECL, whose type is a struct: no nesting check.
EnterMethod(realm, ret) ==
  /\ AtStatement
  /\ Open([Plain EXCEPT !.kind = "method", !.realm = realm,
                        !.saved = current_realm, !.ret = ret])
  /\ report' = "none"
  /\ current_realm' = realm
  /\ scopes' = PushScope
  /\ expected_ret' = ret
  /\ UNCHANGED loop_depth

\* The all-paths check of AST_FUNC_DECL.  Every function with a return type
\* names its result (parse_func_decl), which exempts it.
names_result == Top.ret # Void
MissingReturn(all_paths) ==
  /\ Top.kind = "func"
  /\ expected_ret \notin {NoType, Unresolved, Void}
  /\ ~names_result
  /\ Top.done
  /\ ~all_paths

\* The rest of either, once the body is checked.
RestoredRealmKept == Top.realm   \* a mutant: the realm is not restored
RestoredRealm == Top.saved
ResetRet == NoType

LeaveFunc(all_paths) ==
  /\ open # <<>>
  /\ IsFunc(Top)
  /\ report' = IF MissingReturn(all_paths) THEN "missing" ELSE "none"
  /\ open' = CutBelow
  /\ current_realm' = RestoredRealm
  /\ expected_ret' = ResetRet
  /\ scopes' = PopScope
  /\ UNCHANGED loop_depth

----------------------------------------------------------------------------
(* Statements and expressions with a scope or a body                       *)

\* What a block makes of the construct it is the body of, and of the loop
\* depth: a for counts as a loop from its body on.
WithBody ==
  IF open = <<>> THEN open
  ELSE [open EXCEPT ![Len(open)].done = TRUE]

EnterBlock ==
  /\ AtBody
  /\ Len(open) < MaxDepth
  /\ open' = Append(WithBody, Plain)
  /\ scopes' = PushScope
  /\ loop_depth' = IF Place = "for" THEN loop_depth + 1 ELSE loop_depth
  /\ report' = "none"
  /\ UNCHANGED <<current_realm, expected_ret>>

\* typechecker_collect_decls takes the first statement of the block for a
\* list of declarations: without one it dereferences NULL, and some kinds of
\* statement hold no pointer where it looks for one.
CollectCrashes ==
  /\ AtBody
  /\ Len(open) < MaxDepth
  /\ report' = "crash"
  /\ UNCHANGED <<open, scopes, current_realm, expected_ret, loop_depth>>

LeaveBlock ==
  /\ open # <<>>
  /\ Top.kind = "block"
  /\ open' = Below
  /\ scopes' = PopScope
  /\ report' = "none"
  /\ UNCHANGED <<current_realm, expected_ret, loop_depth>>

\* AST_WHILE_STMT and AST_LOOP_STMT, whose body is a block.
EnterLoop ==
  /\ AtStatement
  /\ RoomForBody
  /\ Open([Plain EXCEPT !.kind = "loop"])
  /\ loop_depth' = loop_depth + 1
  /\ report' = "none"
  /\ UNCHANGED <<scopes, current_realm, expected_ret>>

LeaveLoop ==
  /\ open # <<>>
  /\ Top.kind = "loop"
  /\ Top.done
  /\ open' = Below
  /\ loop_depth' = loop_depth - 1
  /\ report' = "none"
  /\ UNCHANGED <<scopes, current_realm, expected_ret>>

\* AST_FOR_STMT: the scope of the captures is there before the iterated
\* expression is inferred.
EnterFor ==
  /\ AtStatement
  /\ RoomForBody
  /\ Open([Plain EXCEPT !.kind = "for"])
  /\ scopes' = PushScope
  /\ report' = "none"
  /\ UNCHANGED <<current_realm, expected_ret, loop_depth>>

DepthAfterFor == loop_depth - 1

LeaveFor ==
  /\ open # <<>>
  /\ Top.kind = "for"
  /\ Top.done
  /\ open' = Below
  /\ scopes' = PopScope
  /\ loop_depth' = DepthAfterFor
  /\ report' = "none"
  /\ UNCHANGED <<current_realm, expected_ret>>

\* An arm of AST_MATCH_STMT, statement or expression.
EnterArm ==
  /\ AtExpression
  /\ Open([Plain EXCEPT !.kind = "arm"])
  /\ scopes' = PushScope
  /\ report' = "none"
  /\ UNCHANGED <<current_realm, expected_ret, loop_depth>>

LeaveArm ==
  /\ open # <<>>
  /\ Top.kind = "arm"
  /\ open' = Below
  /\ scopes' = PopScope
  /\ report' = "none"
  /\ UNCHANGED <<current_realm, expected_ret, loop_depth>>

\* AST_CATCH_EXPR of a fallible expression; only |e| pushes a scope.
EnterCatch(named) ==
  /\ AtExpression
  /\ Open([Plain EXCEPT !.kind = "catch", !.named = named])
  /\ scopes' = IF named THEN PushScope ELSE scopes
  /\ report' = "none"
  /\ UNCHANGED <<current_realm, expected_ret, loop_depth>>

CatchPops == Top.named

LeaveCatch ==
  /\ open # <<>>
  /\ Top.kind = "catch"
  /\ open' = Below
  /\ scopes' = IF CatchPops THEN PopScope ELSE scopes
  /\ report' = "none"
  /\ UNCHANGED <<current_realm, expected_ret, loop_depth>>

----------------------------------------------------------------------------
(* Leaves                                                                  *)

MismatchUnresolved(value) ==   \* a mutant: unresolved types do not match
  value # NoType /\ expected_ret # NoType /\ expected_ret # value
Mismatch(value) ==
  /\ value # NoType
  /\ expected_ret \notin {NoType, Unresolved}
  /\ value # Unresolved
  /\ expected_ret # value

\* AST_RETURN_STMT, with a value of some type or without one.
Return(value) ==
  /\ AtStatement
  /\ report' = IF Mismatch(value) THEN "mismatch" ELSE "none"
  /\ open' = IF value = NoType THEN open ELSE Delivered
  /\ UNCHANGED <<scopes, current_realm, expected_ret, loop_depth>>

\* An assignment to the named result.
AssignResult ==
  /\ AtStatement
  /\ open' = Delivered
  /\ report' = "none"
  /\ UNCHANGED <<scopes, current_realm, expected_ret, loop_depth>>

\* AST_BREAK_STMT and AST_CONTINUE_STMT fall to the default case.
BreakOrContinue ==
  /\ AtStatement
  /\ report' = "none"
  /\ UNCHANGED <<open, scopes, current_realm, expected_ret, loop_depth>>

PromoteRefusedInMain == current_realm \in {"STACK", "MAIN"}   \* a mutant
PromoteRefused == current_realm = "STACK"

\* AST_PROMOTE_EXPR; the parser lets only dynamic and gc through as targets.
Promote ==
  /\ AtExpression
  /\ report' = IF PromoteRefused THEN "promote" ELSE "none"
  /\ UNCHANGED <<open, scopes, current_realm, expected_ret, loop_depth>>

----------------------------------------------------------------------------

\* typechecker_init, and the scope left by the resolver.
Init ==
  /\ open = <<>>
  /\ scopes = <<0>>
  /\ current_realm = "MAIN"
  /\ expected_ret = NoType
  /\ loop_depth = 0
  /\ report = "none"

Values == Types \cup {Unresolved, NoType}

Enter ==
  \/ \E main \in BOOLEAN, realm \in Declared, ret \in TypeOrNot :
       EnterFunc(main, realm, ret)
  \/ \E realm \in Declared, ret \in TypeOrNot : EnterMethod(realm, ret)
  \/ EnterBlock
  \/ EnterLoop
  \/ EnterFor
  \/ EnterArm
  \/ \E named \in BOOLEAN : EnterCatch(named)

Leave ==
  \/ \E all_paths \in BOOLEAN : LeaveFunc(all_paths)
  \/ LeaveBlock
  \/ LeaveLoop
  \/ LeaveFor
  \/ LeaveArm
  \/ LeaveCatch

Visit ==
  \/ \E value \in Values : Return(value)
  \/ AssignResult
  \/ BreakOrContinue
  \/ Promote

Next == report # "crash" /\ (Enter \/ Leave \/ Visit \/ CollectCrashes)

Spec == Init /\ [][Next]_vars

----------------------------------------------------------------------------
(* Properties                                                              *)

\* Every variable has its type.
TypeOK ==
  /\ open \in Seq(Frame)
  /\ scopes \in Seq(Nat)
  /\ current_realm \in Realm
  /\ expected_ret \in TypeOrNot \cup {NoType}
  /\ loop_depth \in Nat
  /\ report \in Reports

\* The realm the first n constructs of op put the next one in: that of the
\* innermost function among them, MAIN if there is none.
RealmAt(op, n, realm) ==
  /\ \A j \in 1 .. n :
       (IsFunc(op[j]) /\ \A k \in j + 1 .. n : ~IsFunc(op[k])) => realm = op[j].realm
  /\ (\A j \in 1 .. n : ~IsFunc(op[j])) => realm = "MAIN"

\* However functions nest and finish, current_realm is the realm of the
\* innermost function still open, MAIN outside all (the saves and restores of
\* AST_FUNC_DECL and AST_METHOD_DECL).
RealmTracked == RealmAt(open, Len(open), current_realm)

\* saved_realm of each open function is the realm around it.
SavedRight ==
  \A k \in 1 .. Len(open) : IsFunc(open[k]) => RealmAt(open, k - 1, open[k].saved)

\* What the matrix in ast.h lets a function of a realm contain, directly or
\* through any chain of functions that were not reported.
Inside(realm) ==
  CASE realm = "STACK" -> {"STACK"}
    [] realm = "ARENA" -> {"STACK"}
    [] realm = "GC" -> {"STACK", "GC"}
    [] OTHER -> Realm

\* Constructs j and k of op are functions, k within j, and none from j to k
\* was exempt from the nesting check or reported by it.
Unreported(op, j, k) ==
  /\ j < k
  /\ IsFunc(op[j])
  /\ op[k].kind = "func"
  /\ \A i \in j + 1 .. k :
       IsFunc(op[i]) => /\ op[i].kind = "func"
                        /\ ~op[i].bad
                        /\ op[i].realm # "MAIN"

\* A function of a restricted realm is never entered inside another one that
\* may not contain it, at any distance, without a report somewhere between
\* (the nesting check compares with the directly enclosing realm only).
Confined ==
  \A j, k \in 1 .. Len(open) :
    Unreported(open, j, k) => open[k].realm \in Inside(open[j].realm)

\* Where there are functions there is an innermost one.
InnermostExists ==
  \A n \in 0 .. Len(open) : (\E j \in 1 .. n : IsFunc(open[j])) =>
    \E j \in 1 .. n : IsFunc(open[j]) /\ \A k \in j + 1 .. n : ~IsFunc(open[k])

Pushes(frame) ==
  \/ frame.kind \in {"func", "method", "block", "for", "arm"}
  \/ frame.kind = "catch" /\ frame.named

\* The scope chain is the root and one scope for each open construct that has
\* one, in their order: every push is matched by its own pop.
ScopesMatched ==
  /\ Len(scopes) > 0
  /\ scopes[1] = 0
  /\ \A m, n \in 1 .. Len(scopes) : m < n => scopes[m] < scopes[n]
  /\ \A n \in 2 .. Len(scopes) :
       scopes[n] \in 1 .. Len(open) /\ Pushes(open[scopes[n]])
  /\ \A k \in 1 .. Len(open) :
       Pushes(open[k]) => \E n \in 2 .. Len(scopes) : scopes[n] = k

Looping(frame) == frame.kind = "loop" \/ (frame.kind = "for" /\ frame.done)
Loops(op) == {k \in 1 .. Len(op) : Looping(op[k])}

\* loop_depth counts the loops whose body is being checked.
LoopsCounted == loop_depth = Cardinality(Loops(open))

\* expected_ret is the return type of the innermost function, or NULL from
\* the moment a function nested in it has been checked; outside all it is NULL.
ExpectedRet ==
  /\ \A j \in 1 .. Len(open) : Innermost(open, j) =>
       expected_ret = IF open[j].cut THEN NoType ELSE open[j].ret
  /\ (\A j \in 1 .. Len(open) : ~IsFunc(open[j])) => expected_ret = NoType

\* What every step preserves: the invariant the proofs go by.
CheckWalkInv ==
  /\ TypeOK
  /\ RealmTracked
  /\ SavedRight
  /\ InnermostExists
  /\ Confined
  /\ ScopesMatched
  /\ LoopsCounted
  /\ ExpectedRet

\* No function is blamed for the type of another: a return is reported only
\* if its value does not fit the innermost function, and then always unless a
\* nested function came before it (AST_RETURN_STMT).
ReturnBlamed ==
  [][\A value \in Values : Return(value) =>
       (report' = "mismatch" <=>
          \E j \in 1 .. Len(open) :
            /\ Innermost(open, j)
            /\ ~open[j].cut
            /\ value \notin {NoType, Unresolved, open[j].ret}
            /\ open[j].ret # Unresolved)]_vars

\* "Cannot promote from a pure stack function": a promote is reported exactly
\* inside a stack function, however deep in blocks and after whatever nested
\* functions it stands (AST_PROMOTE_EXPR).
PromoteInStack ==
  [][Promote =>
       (report' = "promote" <=>
          \E j \in 1 .. Len(open) : Innermost(open, j) /\ open[j].realm = "STACK")]_vars

\* "break/continue inside loops only" (README.md): a loop lies between each
\* of them and the function it is in.
BreakInLoop ==
  [][BreakOrContinue =>
       \/ report' # "none"
       \/ \E k \in 1 .. Len(open) :
            /\ Looping(open[k])
            /\ \A m \in k + 1 .. Len(open) : ~IsFunc(open[m])]_vars

\* "Return type verification on ALL code paths": a return whose value does
\* not fit its function is reported.
ReturnChecked ==
  [][\A value \in Types : Return(value) =>
       \A j \in 1 .. Len(open) :
         (Innermost(open, j) /\ open[j].ret \notin {Unresolved, value}) =>
           report' = "mismatch"]_vars

\* "Missing return at end of non-void function is an error": a function whose
\* body sets no result is reported.
MissingReported ==
  [][\A all_paths \in BOOLEAN : LeaveFunc(all_paths) =>
       ((Top.kind = "func" /\ Top.done /\ Top.ret \notin {Void, Unresolved}) =>
          (Top.delivers \/ report' = "missing"))]_vars

\* "regional f: can contain f and regional f only": a regional function
\* directly inside another is not reported (docs/specv0_1.md).
RegionalNests ==
  [][\A ret \in TypeOrNot : EnterFunc(FALSE, "ARENA", ret) =>
       ((\E j \in 1 .. Len(open) : Innermost(open, j) /\ open[j].realm = "ARENA") =>
          report' = "none")]_vars
============================================================================
