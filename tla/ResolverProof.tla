--------------------------- MODULE ResolverProof ---------------------------
(***************************************************************************)
(* Proofs about the resolver: its type, that scopes and constructs stay    *)
(* matched, that a name means the first declaration of it in its list,     *)
(* that looking a name up is lexical scoping, and that duplicates are      *)
(* reported exactly, for every program.                                    *)
(***************************************************************************)
EXTENDS Resolver, WellFoundedInduction, TLAPS

----------------------------------------------------------------------------
(* Numbers.                                                                *)

\* A set of numbers that is not empty has a least member; a bounded one, a greatest.
LEMMA Least ==
  ASSUME NEW T \in SUBSET Nat, T # {}
  PROVE  \E k \in T : \A j \in T : k <= j
<1> DEFINE R == {ss \in Nat \X Nat : ss[1] < ss[2]}
<1>1. IsWellFoundedOn(R, Nat)
  BY NatLessThanWellFounded DEF OpToRel
<1>2. ASSUME NEW k \in Nat, NEW j \in Nat, <<j, k>> \notin R
      PROVE  k <= j
  <2>1. <<j, k>> \in Nat \X Nat /\ <<j, k>>[1] = j /\ <<j, k>>[2] = k
    OBVIOUS
  <2> QED
    BY <1>2, <2>1
<1> HIDE DEF R
<1>3. \E k \in T : \A j \in T : <<j, k>> \notin R
  BY <1>1, WFMin
<1> QED
  BY <1>2, <1>3

LEMMA Greatest ==
  ASSUME NEW n \in Nat, NEW T \in SUBSET (1 .. n), T # {}
  PROVE  \E k \in T : \A j \in T : j <= k
<1> DEFINE U == {i \in Nat : \E k \in T : i = n - k}
<1>1. \A k \in T : k \in 1 .. n /\ n - k \in Nat /\ n - k \in U
  OBVIOUS
<1>2. U # {}
  BY <1>1
<1>3. \E u \in U : \A y \in U : u <= y
  <2> HIDE DEF U
  <2> QED
    BY <1>2, Least DEF U
<1>4. PICK k \in T : \A y \in U : n - k <= y
  BY <1>3
<1>5. \A j \in T : n - k <= n - j
  BY <1>1, <1>4
<1> QED
  BY <1>1, <1>5

----------------------------------------------------------------------------
(* The inductive invariant                                                 *)

Scope == [Names -> Symbol \cup {NoSymbol}]

\* A frame by itself: only lists have a list and a position in it, only the
\* others have names to start with.
Shaped(frame) ==
  /\ frame.pos <= Len(frame.list) + 1
  /\ frame.pos >= 1
  /\ frame.kind \in ListFrames => frame.binders = {}
  /\ frame.kind \notin ListFrames => frame.list = <<>> /\ frame.pass = "walk"

\* Where an entry of a frame's scope comes from, by what has been gone through.
Origin(frame, name, symbol) ==
  \/ name \in frame.binders /\ symbol = Binder
  \/ /\ symbol.at \in 1 .. Len(frame.list)
     /\ symbol.node = frame.list[symbol.at]
     /\ \/ symbol.node.is \in DeclKinds /\ symbol.node.name = name
        \/ Aliases(symbol.node, name)
        \/ /\ Targets(symbol.node, name)
           /\ symbol.at < frame.pos
           /\ frame.pass = "walk"
     /\ frame.pass = "decls" => symbol.at < frame.pos /\ symbol.node.is \in DeclKinds
Originated(frame, scope) ==
  \A name \in Names : scope[name] # NoSymbol => Origin(frame, name, scope[name])

\* Modules are declarations of modules or aliases: what Through relies on.
Sound(scope) ==
  \A name \in Names :
    scope[name] # NoSymbol /\ scope[name].kind = "mod" =>
      scope[name].node.is \in {"mod", "use"}

\* Nothing that has been gone through is missing.
Started(frame, scope) == \A name \in frame.binders : scope[name] = Binder
Hoisted(frame, scope) ==
  \A name \in Names : \A j \in 1 .. Len(frame.list) :
    /\ IsFirst(j, DeclPositions(frame.list, name))
    /\ frame.pass = "decls" => j < frame.pos
    => scope[name] = SymbolOf(frame.list[j], j)
Destructured(frame, scope) ==
  frame.pass = "walk" =>
    \A name \in Names : \A j \in 1 .. frame.pos - 1 :
      Targets(frame.list[j], name) => scope[name] # NoSymbol

ScopeInv(frame, scope) ==
  /\ frame \in Frame
  /\ scope \in Scope
  /\ Shaped(frame)
  /\ Originated(frame, scope)
  /\ Sound(scope)
  /\ Started(frame, scope)
  /\ Hoisted(frame, scope)
  /\ Destructured(frame, scope)

\* A construct that has others in it is at a statement of its walk.
Waiting(frame) ==
  frame.kind \in ListFrames => frame.pass = "walk" /\ frame.pos <= Len(frame.list)

ResolverInv ==
  /\ TypeOK
  /\ \A k \in 1 .. Len(frames) : ScopeInv(frames[k], chain[k])
  /\ \A k \in 1 .. Len(frames) - 1 : Waiting(frames[k])

----------------------------------------------------------------------------
(* Data                                                                    *)

LEMMA FrameType ==
  ASSUME NEW frame \in Frame
  PROVE  /\ frame.list \in Seq(Stmts)
         /\ Len(frame.list) \in Nat
         /\ \A k \in 1 .. Len(frame.list) : frame.list[k] \in Stmts
         /\ frame.pos \in Nat
         /\ frame.binders \in SUBSET Names
<1>1. frame.list \in Lists \cup DeclLists \cup {<<>>}
  BY DEF Frame
<1>2. frame.list \in Seq(Stmts)
  <2>1. Lists \subseteq Seq(Stmts) /\ DeclLists \subseteq Seq(Stmts)
    BY ResolverAssumption
  <2>2. <<>> \in Seq(Stmts)
    OBVIOUS
  <2> QED
    BY <1>1, <2>1, <2>2
<1> QED
  BY <1>2 DEF Frame

LEMMA BinderType == Binder \in Symbol /\ Binder # NoSymbol /\ Binder.kind = "var"
BY ResolverAssumption DEF Binder, Symbol, DeclKinds

LEMMA SymbolOfType ==
  ASSUME NEW s \in Stmts, s.is \in DeclKinds, NEW k \in Nat
  PROVE  /\ SymbolOf(s, k) \in Symbol
         /\ SymbolOf(s, k) # NoSymbol
         /\ SymbolOf(s, k).kind = s.is
         /\ SymbolOf(s, k).node = s
         /\ SymbolOf(s, k).at = k
BY ResolverAssumption DEF SymbolOf, Symbol

\* The declarations of a name have a first one among them.
LEMMA FirstExists ==
  ASSUME NEW list \in Seq(Stmts), NEW name, NEW i \in DeclPositions(list, name)
  PROVE  \E j \in 1 .. Len(list) : j <= i /\ IsFirst(j, DeclPositions(list, name))
<1>1. DeclPositions(list, name) \in SUBSET Nat
  BY DEF DeclPositions
<1>2. PICK j \in DeclPositions(list, name) : \A m \in DeclPositions(list, name) : j <= m
  <2> HIDE DEF DeclPositions
  <2> QED
    BY <1>1, Least
<1>3. j \in 1 .. Len(list)
  BY DEF DeclPositions
<1> QED
  BY <1>2, <1>3 DEF IsFirst

LEMMA FirstUnique ==
  ASSUME NEW list \in Seq(Stmts), NEW name, NEW i, NEW j,
         IsFirst(i, DeclPositions(list, name)), IsFirst(j, DeclPositions(list, name))
  PROVE  i = j
BY DEF IsFirst, DeclPositions

----------------------------------------------------------------------------
(* What each step makes of the innermost scope                             *)

LEMMA DeclScope ==
  ASSUME NEW frame, NEW scope, ScopeInv(frame, scope),
         frame.kind \in ListFrames, frame.pass = "decls", frame.pos <= Len(frame.list),
         NEW s, s = frame.list[frame.pos], s.is \in DeclKinds,
         NEW new, new = IF scope[s.name] # NoSymbol THEN scope
                        ELSE [scope EXCEPT ![s.name] = SymbolOf(s, frame.pos)]
  PROVE  ScopeInv([frame EXCEPT !.pos = @ + 1], new)
<1> DEFINE next == [frame EXCEPT !.pos = @ + 1]
           p == frame.pos
<1>1. frame \in Frame /\ scope \in Scope /\ Shaped(frame)
  BY DEF ScopeInv
<1>2. /\ next \in Frame /\ next.pos = p + 1 /\ next.list = frame.list
      /\ next.kind = frame.kind /\ next.pass = "decls" /\ next.binders = frame.binders
  BY <1>1 DEF Frame
<1>3. /\ p \in Nat /\ p \in 1 .. Len(frame.list) /\ Len(frame.list) \in Nat
      /\ frame.list \in Seq(Stmts) /\ s \in Stmts /\ s.name \in Names
      /\ frame.binders = {}
  BY <1>1, FrameType, ResolverAssumption DEF Shaped
<1>4. /\ SymbolOf(s, p) \in Symbol /\ SymbolOf(s, p) # NoSymbol
      /\ SymbolOf(s, p).kind = s.is /\ SymbolOf(s, p).node = s /\ SymbolOf(s, p).at = p
  BY <1>3, SymbolOfType
<1>5. /\ new \in Scope
      /\ \A name \in Names : name # s.name => new[name] = scope[name]
      /\ new[s.name] = IF scope[s.name] # NoSymbol THEN scope[s.name] ELSE SymbolOf(s, p)
  BY <1>1, <1>3, <1>4 DEF Scope
<1> HIDE DEF next, p
<1>6. Shaped(next)
  BY <1>1, <1>2, <1>3 DEF Shaped
<1>7. Originated(next, new)
  <2> SUFFICES ASSUME NEW name \in Names, new[name] # NoSymbol
               PROVE  Origin(next, name, new[name])
    BY DEF Originated
  <2>1. CASE new[name] = scope[name]
    <3>1. Origin(frame, name, scope[name])
      BY <2>1 DEF ScopeInv, Originated
    <3> QED
      BY <1>2, <1>3, <2>1, <3>1, SMTT(60) DEF Origin, p
  <2>2. CASE new[name] # scope[name]
    <3> DEFINE symbol == SymbolOf(s, p)
    <3>1. name = s.name /\ new[name] = symbol
      BY <1>5, <2>2
    <3>2. /\ symbol.at = p /\ symbol.node = s
          /\ p \in 1 .. Len(next.list) /\ next.list[p] = s /\ p < next.pos
          /\ s.is \in DeclKinds
      BY <1>2, <1>3, <1>4 DEF p
    <3> HIDE DEF symbol
    <3>3. Origin(next, name, symbol)
      BY <3>1, <3>2 DEF Origin
    <3> QED
      BY <3>1, <3>3
  <2> QED
    BY <2>1, <2>2
<1>8. Sound(new)
  <2> SUFFICES ASSUME NEW name \in Names, new[name] # NoSymbol, new[name].kind = "mod"
               PROVE  new[name].node.is \in {"mod", "use"}
    BY DEF Sound
  <2>1. CASE new[name] = scope[name]
    BY <2>1 DEF ScopeInv, Sound
  <2>2. CASE new[name] # scope[name]
    BY <1>4, <1>5, <2>2
  <2> QED
    BY <2>1, <2>2
<1>9. Started(next, new)
  BY <1>2, <1>3 DEF Started
<1>10. Hoisted(next, new)
  <2> SUFFICES ASSUME NEW name \in Names, NEW j \in 1 .. Len(frame.list),
                      IsFirst(j, DeclPositions(frame.list, name)), j < p + 1
               PROVE  new[name] = SymbolOf(frame.list[j], j)
    BY <1>2 DEF Hoisted
  <2>1. CASE j < p
    <3>1. scope[name] = SymbolOf(frame.list[j], j)
      BY <2>1 DEF ScopeInv, Hoisted, p
    <3>2. frame.list[j] \in Stmts /\ frame.list[j].is \in DeclKinds
      BY <1>3 DEF IsFirst, DeclPositions
    <3>3. scope[name] # NoSymbol
      BY <3>1, <3>2, SymbolOfType
    <3> QED
      BY <1>5, <3>1, <3>3
  <2>2. CASE j = p
    <3>1. name = s.name
      BY <2>2 DEF IsFirst, DeclPositions, p
    <3>2. ASSUME scope[name] # NoSymbol
          PROVE  FALSE
      <4>1. Origin(frame, name, scope[name])
        BY <3>2 DEF ScopeInv, Originated
      <4>2. /\ scope[name].at \in 1 .. Len(frame.list) /\ scope[name].at < p
            /\ frame.list[scope[name].at].is \in DeclKinds
            /\ frame.list[scope[name].at].name = name
        <5>1. scope[name].node.is \in DeclKinds => scope[name].node.is # "use" /\ scope[name].node.is # "tuple"
          BY DEF DeclKinds
        <5> QED
          BY <1>3, <4>1, <5>1 DEF Origin, Aliases, Targets, p
      <4>3. scope[name].at \in DeclPositions(frame.list, name)
        BY <4>2 DEF DeclPositions
      <4>4. j <= scope[name].at
        BY <4>3 DEF IsFirst
      <4> QED
        BY <1>3, <2>2, <4>2, <4>4
    <3> QED
      BY <1>5, <2>2, <3>1, <3>2 DEF p
  <2> QED
    BY <1>3, <2>1, <2>2
<1>11. Destructured(next, new)
  BY <1>2 DEF Destructured
<1> QED
  BY <1>2, <1>5, <1>6, <1>7, <1>8, <1>9, <1>10, <1>11 DEF ScopeInv, next

\* A statement is passed over in a pass that has nothing to do with it.
LEMMA PassedScope ==
  ASSUME NEW frame, NEW scope, ScopeInv(frame, scope),
         frame.kind \in ListFrames, frame.pos <= Len(frame.list),
         frame.pass = "decls" => frame.list[frame.pos].is \notin DeclKinds,
         frame.pass = "walk" => frame.list[frame.pos].is # "tuple"
  PROVE  ScopeInv([frame EXCEPT !.pos = @ + 1], scope)
<1> DEFINE next == [frame EXCEPT !.pos = @ + 1]
           p == frame.pos
<1>1. frame \in Frame /\ scope \in Scope /\ Shaped(frame)
  BY DEF ScopeInv
<1>2. /\ next \in Frame /\ next.pos = p + 1 /\ next.list = frame.list
      /\ next.kind = frame.kind /\ next.pass = frame.pass /\ next.binders = frame.binders
  BY <1>1 DEF Frame
<1>3. p \in Nat /\ p \in 1 .. Len(frame.list) /\ Len(frame.list) \in Nat
  BY <1>1, FrameType DEF Shaped
<1> HIDE DEF next, p
<1>4. Shaped(next)
  BY <1>1, <1>2, <1>3 DEF Shaped
<1>5. Originated(next, scope)
  <2> SUFFICES ASSUME NEW name \in Names, scope[name] # NoSymbol
               PROVE  Origin(next, name, scope[name])
    BY DEF Originated
  <2>1. Origin(frame, name, scope[name])
    BY DEF ScopeInv, Originated
  <2> QED
    BY <1>2, <1>3, <2>1 DEF Origin, p
<1>6. Started(next, scope)
  BY <1>2 DEF ScopeInv, Started
<1>7. Hoisted(next, scope)
  <2> SUFFICES ASSUME NEW name \in Names, NEW j \in 1 .. Len(frame.list),
                      IsFirst(j, DeclPositions(frame.list, name)),
                      frame.pass = "decls" => j < p + 1
               PROVE  scope[name] = SymbolOf(frame.list[j], j)
    BY <1>2 DEF Hoisted
  <2>1. frame.list[j].is \in DeclKinds
    BY DEF IsFirst, DeclPositions
  <2>2. frame.pass = "decls" => j < p
    BY <1>3, <2>1 DEF p
  <2> QED
    BY <2>2 DEF ScopeInv, Hoisted, p
<1>8. Destructured(next, scope)
  <2> SUFFICES ASSUME frame.pass = "walk", NEW name \in Names, NEW j \in 1 .. p,
                      Targets(frame.list[j], name)
               PROVE  scope[name] # NoSymbol
    BY <1>2, <1>3 DEF Destructured
  <2>1. j # p
    BY DEF Targets, p
  <2> QED
    BY <1>3, <2>1 DEF ScopeInv, Destructured, p
<1> QED
  BY <1>1, <1>2, <1>4, <1>5, <1>6, <1>7, <1>8 DEF ScopeInv, next

\* The next pass starts at the head of the list.
LEMMA NextPassScope ==
  ASSUME NEW frame, NEW scope, ScopeInv(frame, scope),
         frame.kind \in ListFrames, frame.pos > Len(frame.list),
         NEW pass, \/ frame.pass = "decls" /\ pass = "uses"
                   \/ frame.pass = "uses" /\ pass = "walk"
  PROVE  ScopeInv([frame EXCEPT !.pass = pass, !.pos = 1], scope)
<1> DEFINE next == [frame EXCEPT !.pass = pass, !.pos = 1]
<1>1. frame \in Frame /\ scope \in Scope /\ Shaped(frame)
  BY DEF ScopeInv
<1>2. /\ next \in Frame /\ next.pos = 1 /\ next.list = frame.list
      /\ next.kind = frame.kind /\ next.pass = pass /\ next.binders = frame.binders
  BY <1>1 DEF Frame
<1>3. Len(frame.list) \in Nat
  BY <1>1, FrameType
<1> HIDE DEF next
<1>4. Shaped(next)
  BY <1>1, <1>2, <1>3 DEF Shaped
<1>5. Originated(next, scope)
  <2> SUFFICES ASSUME NEW name \in Names, scope[name] # NoSymbol
               PROVE  Origin(next, name, scope[name])
    BY DEF Originated
  <2>1. Origin(frame, name, scope[name])
    BY DEF ScopeInv, Originated
  <2> QED
    BY <1>2, <2>1 DEF Origin
<1>6. Started(next, scope)
  BY <1>2 DEF ScopeInv, Started
<1>7. Hoisted(next, scope)
  <2> SUFFICES ASSUME NEW name \in Names, NEW j \in 1 .. Len(frame.list),
                      IsFirst(j, DeclPositions(frame.list, name))
               PROVE  scope[name] = SymbolOf(frame.list[j], j)
    BY <1>2 DEF Hoisted
  <2>1. j < frame.pos
    BY <1>1, <1>3, FrameType
  <2> QED
    BY <2>1 DEF ScopeInv, Hoisted
<1>8. Destructured(next, scope)
  BY <1>2 DEF Destructured
<1> QED
  BY <1>1, <1>2, <1>4, <1>5, <1>6, <1>7, <1>8 DEF ScopeInv, next

\* A use adds its alias to what the list declares.
Added(scope, alias, symbol) ==
  IF scope[alias] # NoSymbol THEN scope ELSE [scope EXCEPT ![alias] = symbol]
LEMMA AliasScope ==
  ASSUME NEW frame, NEW scope, ScopeInv(frame, scope),
         frame.kind \in ListFrames, frame.pass = "uses", frame.pos <= Len(frame.list),
         NEW s, s = frame.list[frame.pos], s.is = "use",
         NEW alias \in Names, alias = s.path[Len(s.path)],
         NEW symbol \in Symbol, symbol.node = s, symbol.at = frame.pos
  PROVE  ScopeInv([frame EXCEPT !.pos = @ + 1], Added(scope, alias, symbol))
<1> DEFINE p == frame.pos
           new == Added(scope, alias, symbol)
<1>1. frame \in Frame /\ scope \in Scope /\ Shaped(frame)
  BY DEF ScopeInv
<1>2. p \in Nat /\ p \in 1 .. Len(frame.list) /\ Len(frame.list) \in Nat /\ frame.list \in Seq(Stmts)
  BY <1>1, FrameType DEF Shaped
<1>3. symbol # NoSymbol
  BY ResolverAssumption
<1>4. /\ new \in Scope
      /\ \A name \in Names : name # alias => new[name] = scope[name]
      /\ new[alias] = IF scope[alias] # NoSymbol THEN scope[alias] ELSE symbol
  BY <1>1, <1>3 DEF Scope, Added
<1> HIDE DEF new
<1>5. \A name \in Names : scope[name] # NoSymbol => new[name] = scope[name]
  BY <1>4
<1>6. ScopeInv(frame, new)
  <2>1. Originated(frame, new)
    <3> SUFFICES ASSUME NEW name \in Names, new[name] # NoSymbol
                 PROVE  Origin(frame, name, new[name])
      BY DEF Originated
    <3>1. CASE new[name] = scope[name]
      BY <3>1 DEF ScopeInv, Originated
    <3>2. CASE new[name] # scope[name]
      <4>1. name = alias /\ new[name] = symbol
        BY <1>4, <3>2
      <4> QED
        BY <1>2, <4>1 DEF Origin, Aliases, p
    <3> QED
      BY <3>1, <3>2
  <2>2. Sound(new)
    <3> SUFFICES ASSUME NEW name \in Names, new[name] # NoSymbol, new[name].kind = "mod"
                 PROVE  new[name].node.is \in {"mod", "use"}
      BY DEF Sound
    <3>1. CASE new[name] = scope[name]
      BY <3>1 DEF ScopeInv, Sound
    <3>2. CASE new[name] # scope[name]
      BY <1>4, <3>2
    <3> QED
      BY <3>1, <3>2
  <2>3. Started(frame, new)
    <3>1. frame.binders = {}
      BY <1>1 DEF Shaped
    <3> QED
      BY <3>1 DEF Started
  <2>4. Hoisted(frame, new)
    <3> SUFFICES ASSUME NEW name \in Names, NEW j \in 1 .. Len(frame.list),
                        IsFirst(j, DeclPositions(frame.list, name))
                 PROVE  new[name] = SymbolOf(frame.list[j], j)
      BY DEF Hoisted
    <3>1. scope[name] = SymbolOf(frame.list[j], j)
      BY DEF ScopeInv, Hoisted
    <3>2. frame.list[j] \in Stmts /\ frame.list[j].is \in DeclKinds
      BY <1>2 DEF IsFirst, DeclPositions
    <3>3. scope[name] # NoSymbol
      BY <3>1, <3>2, SymbolOfType
    <3> QED
      BY <1>5, <3>1, <3>3
  <2>5. Destructured(frame, new)
    BY DEF Destructured
  <2> QED
    BY <1>1, <1>4, <2>1, <2>2, <2>3, <2>4, <2>5 DEF ScopeInv
<1> QED
  BY <1>6, PassedScope DEF new

\* The end of a variable declaration or a destructuring.
Bindable(s) == IF s.is = "tuple" THEN s.targets ELSE {s.name}
WithBound(frame, scope, s) ==
  [name \in Names |-> IF name \in Bindable(s) /\ scope[name] = NoSymbol
                      THEN [kind |-> "var", node |-> s, at |-> frame.pos]
                      ELSE scope[name]]
LEMMA BoundScope ==
  ASSUME NEW frame, NEW scope, ScopeInv(frame, scope),
         frame.kind \in ListFrames, frame.pass = "walk", frame.pos <= Len(frame.list),
         NEW s, s = frame.list[frame.pos], s.is \in {"var", "tuple"}
  PROVE  ScopeInv([frame EXCEPT !.pos = @ + 1], WithBound(frame, scope, s))
<1> DEFINE next == [frame EXCEPT !.pos = @ + 1]
           p == frame.pos
           bound == Bindable(s)
           symbol == [kind |-> "var", node |-> s, at |-> p]
           new == WithBound(frame, scope, s)
<1>1. frame \in Frame /\ scope \in Scope /\ Shaped(frame)
  BY DEF ScopeInv
<1>2. /\ next \in Frame /\ next.pos = p + 1 /\ next.list = frame.list
      /\ next.kind = frame.kind /\ next.pass = "walk" /\ next.binders = frame.binders
  BY <1>1 DEF Frame
<1>3. /\ p \in Nat /\ p \in 1 .. Len(frame.list) /\ Len(frame.list) \in Nat
      /\ frame.list \in Seq(Stmts) /\ s \in Stmts /\ frame.binders = {}
  BY <1>1, FrameType DEF Shaped
<1>4. /\ symbol.kind = "var" /\ symbol.node = s /\ symbol.at = p
      /\ symbol \in Symbol /\ symbol # NoSymbol
  <2>1. symbol.kind = "var" /\ symbol.node = s /\ symbol.at = p
    OBVIOUS
  <2>2. symbol \in Symbol
    BY <1>3 DEF Symbol, DeclKinds
  <2> QED
    BY <2>1, <2>2, ResolverAssumption
<1>5. \A name \in Names :
        /\ scope[name] # NoSymbol => new[name] = scope[name]
        /\ new[name] # scope[name] => name \in bound /\ new[name] = symbol
        /\ name \in bound => new[name] # NoSymbol
  BY <1>4 DEF WithBound
<1>6. new \in Scope
  BY <1>1, <1>4 DEF Scope, WithBound
<1> HIDE DEF next, p, new, symbol, bound
<1>7. Shaped(next)
  BY <1>1, <1>2, <1>3 DEF Shaped
<1>8. Originated(next, new)
  <2> SUFFICES ASSUME NEW name \in Names, new[name] # NoSymbol
               PROVE  Origin(next, name, new[name])
    BY DEF Originated
  <2>1. CASE new[name] = scope[name]
    <3>1. Origin(frame, name, scope[name])
      BY <2>1 DEF ScopeInv, Originated
    <3> QED
      BY <1>2, <1>3, <2>1, <3>1 DEF Origin, p
  <2>2. CASE new[name] # scope[name]
    <3>1. name \in bound /\ new[name] = symbol
      BY <1>5, <2>2
    <3>2. \/ s.is \in DeclKinds /\ s.name = name
          \/ Targets(s, name)
      BY <3>1 DEF Targets, DeclKinds, bound, Bindable
    <3> QED
      BY <1>2, <1>3, <1>4, <3>1, <3>2 DEF Origin, p
  <2> QED
    BY <2>1, <2>2
<1>9. Sound(new)
  <2> SUFFICES ASSUME NEW name \in Names, new[name] # NoSymbol, new[name].kind = "mod"
               PROVE  new[name].node.is \in {"mod", "use"}
    BY DEF Sound
  <2>1. new[name] = scope[name]
    BY <1>4, <1>5
  <2> QED
    BY <2>1 DEF ScopeInv, Sound
<1>10. Started(next, new)
  BY <1>2, <1>3 DEF Started
<1>11. Hoisted(next, new)
  <2> SUFFICES ASSUME NEW name \in Names, NEW j \in 1 .. Len(frame.list),
                      IsFirst(j, DeclPositions(frame.list, name))
               PROVE  new[name] = SymbolOf(frame.list[j], j)
    BY <1>2 DEF Hoisted
  <2>1. scope[name] = SymbolOf(frame.list[j], j)
    BY DEF ScopeInv, Hoisted
  <2>2. frame.list[j] \in Stmts /\ frame.list[j].is \in DeclKinds
    BY <1>3 DEF IsFirst, DeclPositions
  <2>3. scope[name] # NoSymbol
    BY <2>1, <2>2, SymbolOfType
  <2> QED
    BY <1>5, <2>1, <2>3
<1>12. Destructured(next, new)
  <2> SUFFICES ASSUME NEW name \in Names, NEW j \in 1 .. p, Targets(frame.list[j], name)
               PROVE  new[name] # NoSymbol
    BY <1>2, <1>3 DEF Destructured
  <2>1. CASE j = p
    BY <1>5, <2>1 DEF Targets, p, bound, Bindable
  <2>2. CASE j # p
    <3>1. scope[name] # NoSymbol
      BY <1>3, <2>2 DEF ScopeInv, Destructured, p
    <3> QED
      BY <1>5, <3>1
  <2> QED
    BY <2>1, <2>2
<1> QED
  BY <1>2, <1>6, <1>7, <1>8, <1>9, <1>10, <1>11, <1>12 DEF ScopeInv, next, new

\* A construct that is entered, and its scope with the names it starts with.
LEMMA EnteredScope ==
  ASSUME NEW kind, NEW list \in Lists \cup DeclLists \cup {<<>>}, NEW pass,
         NEW binders \in SUBSET Names,
         \/ kind \in ListFrames /\ pass = "decls" /\ binders = {}
         \/ kind \in {"func", "while", "for", "arm", "catch"} /\ list = <<>> /\ pass = "walk"
  PROVE  ScopeInv([kind |-> kind, list |-> list, pass |-> pass, pos |-> 1,
                   binders |-> binders], ScopeOf(binders))
<1> DEFINE frame == [kind |-> kind, list |-> list, pass |-> pass, pos |-> 1,
                     binders |-> binders]
           scope == ScopeOf(binders)
<1>1. /\ frame \in Frame /\ frame.kind = kind /\ frame.list = list /\ frame.pass = pass
      /\ frame.pos = 1 /\ frame.binders = binders
  BY DEF Frame
<1>2. scope \in Scope /\ \A name \in Names : scope[name] = IF name \in binders THEN Binder ELSE NoSymbol
  BY BinderType DEF ScopeOf, Scope
<1>3. Len(list) \in Nat
  BY <1>1, FrameType
<1> HIDE DEF frame, scope
<1>4. Shaped(frame)
  BY <1>1, <1>3 DEF Shaped, ListFrames
<1>5. Originated(frame, scope)
  BY <1>1, <1>2 DEF Originated, Origin
<1>6. Sound(scope)
  BY <1>2, BinderType DEF Sound
<1>7. Started(frame, scope)
  BY <1>1, <1>2 DEF Started
<1>8. Hoisted(frame, scope)
  <2> SUFFICES ASSUME NEW name \in Names, NEW j \in 1 .. Len(list),
                      pass = "decls" => j < 1
               PROVE  FALSE
    BY <1>1 DEF Hoisted
  <2> QED
    BY <1>3
<1>9. Destructured(frame, scope)
  BY <1>1 DEF Destructured
<1> QED
  BY <1>1, <1>2, <1>4, <1>5, <1>6, <1>7, <1>8, <1>9 DEF ScopeInv, frame, scope

----------------------------------------------------------------------------
(* Paths                                                                   *)

Found == Symbol \cup {NoSymbol, Punned}
SoundSymbol(symbol) ==
  symbol \in Symbol /\ symbol.kind = "mod" => symbol.node.is \in {"mod", "use"}

\* A segment leads from a symbol to a symbol.
LEMMA ThroughType ==
  ASSUME NEW symbol \in Found, SoundSymbol(symbol), NEW segment \in Names
  PROVE  Through(symbol, segment) \in Found /\ SoundSymbol(Through(symbol, segment))
<1>1. NoSymbol \notin Symbol /\ Punned \notin Symbol
  BY ResolverAssumption DEF Punned, Symbol, DeclKinds
<1>2. CASE Through(symbol, segment) \in {NoSymbol, Punned}
  BY <1>1, <1>2 DEF Found, SoundSymbol
<1>3. CASE /\ symbol \notin {NoSymbol, Punned}
           /\ symbol.kind = "mod" /\ symbol.node.is # "use"
  <2> DEFINE decls == symbol.node.decls
  <2>1. symbol \in Symbol /\ symbol.node.is = "mod"
    BY <1>3 DEF Found, SoundSymbol
  <2>2. symbol.node \in Stmts
    BY <2>1 DEF Symbol, NoNode
  <2>3. decls \in Seq(Stmts)
    BY <2>1, <2>2, ResolverAssumption
  <2>4. Through(symbol, segment) = Member(symbol, segment)
    BY <1>3 DEF Through
  <2> HIDE DEF decls
  <2>5. CASE DeclPositions(decls, segment) = {}
    <3>1. Member(symbol, segment) = NoSymbol
      BY <2>5 DEF Member, DeclPositions, decls
    <3> QED
      BY <1>2, <2>4, <3>1
  <2>6. CASE DeclPositions(decls, segment) # {}
    <3>1. PICK k : IsFirst(k, DeclPositions(decls, segment))
      BY <2>3, <2>6, FirstExists
    <3>2. k = CHOOSE k1 \in DeclPositions(decls, segment) :
                \A j \in DeclPositions(decls, segment) : k1 <= j
      BY <2>3, <3>1 DEF IsFirst, DeclPositions
    <3>3. Member(symbol, segment) = SymbolOf(decls[k], k)
      BY <2>6, <3>2 DEF Member, DeclPositions, decls
    <3>4. k \in Nat /\ decls[k] \in Stmts /\ decls[k].is \in DeclKinds
      BY <2>3, <3>1 DEF IsFirst, DeclPositions
    <3> QED
      BY <2>4, <3>3, <3>4, SymbolOfType DEF Found, SoundSymbol
  <2> QED
    BY <2>5, <2>6
<1> QED
  BY <1>2, <1>3 DEF Through

\* What a path leads to, segment by segment: the recursion is well defined.
Steps(f, n, first, path) ==
  f = [k \in 1 .. n |-> IF k = 1 THEN first ELSE Through(f[k - 1], path[k])]
LEMMA StepsExist ==
  ASSUME NEW n \in Nat, NEW first, NEW path
  PROVE  \E f : Steps(f, n, first, path)
<1> DEFINE T == {m \in Nat : ~\E f : Steps(f, m, first, path)}
<1> SUFFICES ASSUME T # {}
             PROVE  FALSE
  OBVIOUS
<1>1. PICK m \in T : \A j \in T : m <= j
  <2>1. T \in SUBSET Nat
    OBVIOUS
  <2> HIDE DEF T
  <2> QED
    BY <2>1, Least
<1>2. CASE m = 0
  <2> DEFINE f == [k \in 1 .. 0 |-> first]
  <2>1. Steps(f, 0, first, path)
    BY DEF Steps
  <2> QED
    BY <1>2, <2>1
<1>3. CASE m # 0
  <2>1. m \in Nat /\ m - 1 \in Nat /\ ~(m - 1 \in T)
    BY <1>1, <1>3
  <2>2. PICK g : Steps(g, m - 1, first, path)
    BY <2>1
  <2> DEFINE f == [k \in 1 .. m |-> IF k = 1 THEN first ELSE Through(g[k - 1], path[k])]
  <2>3. \A k \in 1 .. m - 1 : f[k] = g[k]
    BY <2>1, <2>2 DEF Steps
  <2>4. \A k \in 1 .. m : k # 1 => f[k - 1] = g[k - 1]
    <3> HIDE DEF f
    <3>1. \A k \in 1 .. m : k # 1 => k - 1 \in 1 .. m - 1
      BY <2>1
    <3> QED
      BY <2>3, <3>1
  <2>5. Steps(f, m, first, path)
    BY <2>1, <2>4 DEF Steps
  <2> QED
    BY <2>5
<1> QED
  BY <1>2, <1>3

LEMMA TrailSteps ==
  ASSUME NEW path \in Seq(Names)
  PROVE  /\ DOMAIN Trail(path) = 1 .. Len(path)
         /\ \A k \in 1 .. Len(path) :
              Trail(path)[k] = IF k = 1 THEN FirstSegment(path[1])
                               ELSE Through(Trail(path)[k - 1], path[k])
<1>1. Trail(path) = CHOOSE f : f = [k \in 1 .. Len(path) |->
                      IF k = 1 THEN FirstSegment(path[1]) ELSE Through(f[k - 1], path[k])]
  BY DEF Trail
<1>2. Trail(path) = CHOOSE f : Steps(f, Len(path), FirstSegment(path[1]), path)
  BY <1>1 DEF Steps
<1>3. Steps(Trail(path), Len(path), FirstSegment(path[1]), path)
  BY <1>2, StepsExist
<1> QED
  BY <1>3 DEF Steps

\* Hence its type, from that of the scopes.
LEMMA PathType ==
  ASSUME NEW path \in Seq(Names), path # <<>>,
         FirstSegment(path[1]) \in Found, SoundSymbol(FirstSegment(path[1]))
  PROVE  find_symbol_in_path(path) \in Found
<1> DEFINE Good(k) == Trail(path)[k] \in Found /\ SoundSymbol(Trail(path)[k])
           T == {k \in 1 .. Len(path) : ~Good(k)}
<1>1. Len(path) \in Nat /\ Len(path) \in 1 .. Len(path) /\ \A k \in 1 .. Len(path) : path[k] \in Names
  OBVIOUS
<1>2. ASSUME T # {}
      PROVE  FALSE
  <2>1. PICK k \in T : \A j \in T : k <= j
    <3>1. T \in SUBSET Nat
      OBVIOUS
    <3> HIDE DEF T
    <3> QED
      BY <1>2, <3>1, Least
  <2>2. k # 1
    BY TrailSteps
  <2>3. k - 1 \in 1 .. Len(path) /\ ~(k - 1 \in T) /\ k \in 1 .. Len(path)
    BY <1>1, <2>1, <2>2
  <2>4. Good(k - 1)
    BY <2>3
  <2>5. Trail(path)[k] = Through(Trail(path)[k - 1], path[k])
    BY <2>2, <2>3, TrailSteps
  <2>6. Good(k)
    BY <1>1, <2>3, <2>4, <2>5, ThroughType
  <2> QED
    BY <2>6
<1>3. Good(Len(path))
  BY <1>1, <1>2
<1> QED
  BY <1>3 DEF find_symbol_in_path

----------------------------------------------------------------------------
(* Looking up                                                              *)

\* Lookup finds nothing, or the innermost entry.
LEMMA LookupInnermost ==
  ASSUME NEW ch \in Seq(Scope), NEW name \in Names
  PROVE  \/ /\ Lookup(ch, name) = NoSymbol
            /\ \A j \in 1 .. Len(ch) : ch[j][name] = NoSymbol
         \/ \E k \in 1 .. Len(ch) :
              /\ Lookup(ch, name) = ch[k][name]
              /\ ch[k][name] # NoSymbol
              /\ \A j \in k + 1 .. Len(ch) : ch[j][name] = NoSymbol
<1>1. CASE Defining(ch, name) = {}
  BY <1>1 DEF Lookup, Defining
<1>2. CASE Defining(ch, name) # {}
  <2>1. Defining(ch, name) \in SUBSET (1 .. Len(ch)) /\ Len(ch) \in Nat
    BY DEF Defining
  <2>2. \E k \in Defining(ch, name) : \A j \in Defining(ch, name) : j <= k
    BY <1>2, <2>1, Greatest
  <2>3. /\ Innermost(ch, name) \in Defining(ch, name)
        /\ \A j \in Defining(ch, name) : j <= Innermost(ch, name)
    BY <2>2 DEF Innermost
  <2>4. Lookup(ch, name) = ch[Innermost(ch, name)][name]
    BY <1>2 DEF Lookup
  <2> DEFINE k == Innermost(ch, name)
  <2>5. k \in 1 .. Len(ch) /\ ch[k][name] # NoSymbol
    BY <2>3 DEF Defining
  <2> HIDE DEF k
  <2>6. ASSUME NEW j \in k + 1 .. Len(ch)
        PROVE  ch[j][name] = NoSymbol
    <3>1. j \in 1 .. Len(ch) /\ ~(j <= k)
      BY <2>1, <2>5
    <3>2. ~(j \in Defining(ch, name))
      BY <2>3, <3>1 DEF k
    <3> QED
      BY <3>1, <3>2 DEF Defining
  <2> QED
    BY <2>4, <2>5, <2>6 DEF k
<1> QED
  BY <1>1, <1>2

----------------------------------------------------------------------------
(* The steps                                                               *)

\* While there are constructs, each has a frame and a scope.
LEMMA StackType ==
  ASSUME ResolverInv, frames # <<>>
  PROVE  /\ Len(frames) \in Nat /\ Len(frames) >= 1 /\ Len(chain) = Len(frames)
         /\ DOMAIN frames = 1 .. Len(frames) /\ DOMAIN chain = 1 .. Len(frames)
         /\ \A k \in 1 .. Len(frames) : frames[k] \in Frame /\ chain[k] \in Scope
         /\ Top = frames[Len(frames)]
         /\ ScopeInv(Top, chain[Len(frames)])
         /\ chain \in Seq(Scope) /\ frames \in Seq(Frame)
<1>1. frames \in Seq(Frame) /\ chain \in Seq(Scope) /\ Len(chain) = Len(frames)
  BY DEF ResolverInv, TypeOK, Scope
<1>2. Len(frames) \in Nat /\ Len(frames) >= 1
  BY <1>1
<1>3. ScopeInv(frames[Len(frames)], chain[Len(frames)])
  BY <1>2 DEF ResolverInv
<1> QED
  BY <1>1, <1>2, <1>3 DEF Top

\* A step that changes the innermost construct and its scope only.
LEMMA TopStep ==
  ASSUME ResolverInv, frames # <<>>, NEW frame, NEW scope, ScopeInv(frame, scope),
         frames' = [frames EXCEPT ![Len(frames)] = frame],
         chain' = [chain EXCEPT ![Len(chain)] = scope],
         report' \in Reports, met' \in Names \cup {NoSymbol}
  PROVE  ResolverInv'
<1> DEFINE n == Len(frames)
<1>1. /\ n \in Nat /\ n >= 1 /\ Len(chain) = n /\ frames \in Seq(Frame)
      /\ chain \in Seq(Scope)
  BY StackType
<1>2. frame \in Frame /\ scope \in Scope
  BY DEF ScopeInv
<1>3. /\ frames' \in Seq(Frame) /\ Len(frames') = n
      /\ chain' \in Seq(Scope) /\ Len(chain') = n
  BY <1>1, <1>2
<1>4. /\ frames'[n] = frame /\ chain'[n] = scope
      /\ \A k \in 1 .. n : k # n => frames'[k] = frames[k] /\ chain'[k] = chain[k]
  BY <1>1
<1> HIDE DEF n
<1>5. frames' # <<>>
  BY <1>1, <1>3
<1>6. TypeOK'
  BY <1>3, <1>5 DEF TypeOK, Scope
<1>7. ASSUME NEW k \in 1 .. n
      PROVE  ScopeInv(frames'[k], chain'[k])
  BY <1>4 DEF ResolverInv, n
<1>8. ASSUME NEW k \in 1 .. n - 1
      PROVE  Waiting(frames'[k])
  <2>1. k \in 1 .. n /\ k # n
    BY <1>1
  <2> QED
    BY <1>4, <2>1 DEF ResolverInv, n
<1> QED
  BY <1>3, <1>6, <1>7, <1>8 DEF ResolverInv

\* A construct is entered from a statement of the walk.
LEMMA EnterStep ==
  ASSUME ResolverInv, frames # <<>>, Waiting(Top),
         NEW kind, NEW list \in Lists \cup DeclLists \cup {<<>>}, NEW pass,
         NEW binders \in SUBSET Names,
         \/ kind \in ListFrames /\ pass = "decls" /\ binders = {}
         \/ kind \in {"func", "while", "for", "arm", "catch"} /\ list = <<>> /\ pass = "walk",
         PushFrame(kind, list, pass, binders)
  PROVE  ResolverInv'
<1> DEFINE n == Len(frames)
           frame == [kind |-> kind, list |-> list, pass |-> pass, pos |-> 1,
                     binders |-> binders]
           scope == ScopeOf(binders)
<1>1. /\ n \in Nat /\ n >= 1 /\ Len(chain) = n /\ frames \in Seq(Frame)
      /\ chain \in Seq(Scope) /\ Top = frames[n]
  BY StackType
<1>2. ScopeInv(frame, scope)
  BY EnteredScope
<1>3. frame \in Frame /\ scope \in Scope
  BY <1>2 DEF ScopeInv
<1>4. frames' = Append(frames, frame) /\ chain' = Append(chain, scope)
  BY DEF PushFrame, Push
<1> HIDE DEF frame, scope
<1>5. /\ frames' \in Seq(Frame) /\ Len(frames') = n + 1
      /\ chain' \in Seq(Scope) /\ Len(chain') = n + 1
  BY <1>1, <1>3, <1>4
<1>6. /\ frames'[n + 1] = frame /\ chain'[n + 1] = scope
      /\ \A k \in 1 .. n : frames'[k] = frames[k] /\ chain'[k] = chain[k]
  BY <1>1, <1>3, <1>4
<1> HIDE DEF n
<1>7. frames' # <<>>
  BY <1>1, <1>5
<1>8. TypeOK'
  <2>1. report' \in Reports /\ met' \in Names \cup {NoSymbol}
    BY DEF PushFrame, Say, Reports
  <2> QED
    BY <1>5, <1>7, <2>1 DEF TypeOK, Scope
<1>9. ASSUME NEW k \in 1 .. n + 1
      PROVE  ScopeInv(frames'[k], chain'[k])
  <2>1. CASE k = n + 1
    BY <1>2, <1>6, <2>1
  <2>2. CASE k # n + 1
    <3>1. k \in 1 .. n
      BY <1>1, <2>2
    <3> QED
      BY <1>6, <3>1 DEF ResolverInv, n
  <2> QED
    BY <2>1, <2>2
<1>10. ASSUME NEW k \in 1 .. n
       PROVE  Waiting(frames'[k])
  <2>1. CASE k = n
    BY <1>1, <1>6, <2>1
  <2>2. CASE k # n
    <3>1. k \in 1 .. n - 1
      BY <1>1, <2>2
    <3> QED
      BY <1>6, <3>1 DEF ResolverInv, n
  <2> QED
    BY <2>1, <2>2
<1>11. Len(frames') - 1 = n
  BY <1>1, <1>5
<1> QED
  BY <1>5, <1>8, <1>9, <1>10, <1>11 DEF ResolverInv

LEMMA LeaveStep ==
  ASSUME ResolverInv, Leave
  PROVE  ResolverInv'
<1> DEFINE n == Len(frames)
           under == frames[n - 1]
<1>1. n \in Nat /\ n > 1 /\ frames # <<>>
  <2>1. frames \in Seq(Frame)
    BY DEF ResolverInv, TypeOK
  <2> QED
    BY <2>1 DEF Leave
<1>2. Len(chain) = n /\ frames \in Seq(Frame) /\ chain \in Seq(Scope)
  BY <1>1, StackType
<1>3. under \in Frame /\ ScopeInv(under, chain[n - 1]) /\ Waiting(under)
  BY <1>1, <1>2 DEF ResolverInv
<1>4. ScopeInv(Resumed(under), chain[n - 1])
  <2>1. CASE under.kind \in ListFrames /\ under.list[under.pos].is \in {"func", "mod"}
    <3>1. under.pass = "walk" /\ under.pos <= Len(under.list)
      BY <1>3, <2>1 DEF Waiting
    <3>2. ScopeInv([under EXCEPT !.pos = @ + 1], chain[n - 1])
      BY <1>3, <2>1, <3>1, PassedScope
    <3> QED
      BY <2>1, <3>2 DEF Resumed
  <2>2. CASE ~(under.kind \in ListFrames /\ under.list[under.pos].is \in {"func", "mod"})
    BY <1>3, <2>2 DEF Resumed
  <2> QED
    BY <2>1, <2>2
<1>5. Below = [k \in 1 .. n - 1 |-> frames[k]] /\ Below \in Seq(Frame) /\ Len(Below) = n - 1
  <2>1. Below \in Seq(Frame) /\ Len(Below) = n - 1 /\ \A k \in 1 .. n - 1 : Below[k] = frames[k]
    BY <1>1, <1>2 DEF Below
  <2> QED
    BY <1>1, <2>1
<1>6. chain' = [k \in 1 .. n - 1 |-> chain[k]] /\ chain' \in Seq(Scope) /\ Len(chain') = n - 1
  <2>1. chain' = SubSeq(chain, 1, n - 1)
    BY <1>1, <1>2 DEF Leave, ScopesLeft, Pop
  <2>2. chain' \in Seq(Scope) /\ Len(chain') = n - 1 /\ \A k \in 1 .. n - 1 : chain'[k] = chain[k]
    BY <1>1, <1>2, <2>1
  <2> QED
    BY <1>1, <2>2
<1>7. frames' = [Below EXCEPT ![n - 1] = Resumed(under)]
  <2>1. frames' = [Below EXCEPT ![Len(Below)] = Resumed(Below[Len(Below)])]
    BY DEF Leave
  <2>2. Below[n - 1] = under
    BY <1>1, <1>5
  <2> QED
    BY <1>5, <2>1, <2>2
<1>8. Resumed(under) \in Frame
  BY <1>4 DEF ScopeInv
<1>9. frames' \in Seq(Frame) /\ Len(frames') = n - 1
  BY <1>1, <1>5, <1>7, <1>8
<1>10. /\ frames'[n - 1] = Resumed(under)
       /\ \A k \in 1 .. n - 1 : k # n - 1 => frames'[k] = frames[k]
       /\ \A k \in 1 .. n - 1 : chain'[k] = chain[k]
  BY <1>1, <1>5, <1>6, <1>7
<1> HIDE DEF n, under
<1>11. frames' # <<>>
  BY <1>1, <1>9
<1>12. TypeOK'
  <2>1. report' \in Reports /\ met' \in Names \cup {NoSymbol}
    BY DEF Leave, Say, Reports
  <2> QED
    BY <1>6, <1>9, <1>11, <2>1 DEF TypeOK, Scope
<1>13. ASSUME NEW k \in 1 .. n - 1
       PROVE  ScopeInv(frames'[k], chain'[k])
  <2>1. CASE k = n - 1
    BY <1>4, <1>10, <2>1
  <2>2. CASE k # n - 1
    <3>1. k \in 1 .. n
      BY <1>1
    <3>2. ScopeInv(frames[k], chain[k])
      BY <3>1 DEF ResolverInv, n
    <3> QED
      BY <1>10, <2>2, <3>2
  <2> QED
    BY <2>1, <2>2
<1>14. ASSUME NEW k \in 1 .. n - 2
       PROVE  Waiting(frames'[k])
  <2>1. k \in 1 .. n - 1 /\ k # n - 1
    BY <1>1
  <2> QED
    BY <1>10, <2>1 DEF ResolverInv, n
<1>15. Len(frames') - 1 = n - 2
  BY <1>1, <1>9
<1> QED
  BY <1>9, <1>12, <1>13, <1>14, <1>15 DEF ResolverInv

LEMMA LeaveProgramStep ==
  ASSUME ResolverInv, LeaveProgram
  PROVE  ResolverInv'
<1>1. frames' = <<>> /\ chain' = chain /\ Len(frames') = 0
  BY DEF LeaveProgram
<1>2. Len(chain) = 1
  <2>1. frames # <<>>
    BY DEF LeaveProgram
  <2> QED
    BY <2>1 DEF LeaveProgram, ResolverInv, TypeOK
<1>3. frames' \in Seq(Frame)
  BY <1>1
<1>4. TypeOK'
  BY <1>1, <1>2, <1>3 DEF LeaveProgram, Say, Reports, ResolverInv, TypeOK
<1> QED
  BY <1>1, <1>4 DEF ResolverInv

\* Steps that leave the scopes alone.
LEMMA AdvanceStep ==
  ASSUME ResolverInv, InList, Remaining, frames' = Advance, UNCHANGED chain,
         Top.pass = "decls" => Here.is \notin DeclKinds,
         Top.pass = "walk" => Here.is # "tuple",
         report' \in Reports, met' \in Names \cup {NoSymbol}
  PROVE  ResolverInv'
<1>1. frames # <<>>
  BY DEF InList
<1>2. ScopeInv(Top, chain[Len(frames)]) /\ Len(chain) = Len(frames) /\ chain \in Seq(Scope)
  BY <1>1, StackType
<1>3. ScopeInv([Top EXCEPT !.pos = @ + 1], chain[Len(frames)])
  BY <1>2, PassedScope DEF InList, Remaining, Here
<1>4. chain' = [chain EXCEPT ![Len(chain)] = chain[Len(frames)]]
  BY <1>2
<1> QED
  BY <1>1, <1>3, <1>4, TopStep DEF Advance, OnTop

LEMMA NextPassStep ==
  ASSUME ResolverInv, InList, ~Remaining, NEW pass, frames' = NextPass(pass), UNCHANGED chain,
         \/ Top.pass = "decls" /\ pass = "uses"
         \/ Top.pass = "uses" /\ pass = "walk",
         report' \in Reports, met' \in Names \cup {NoSymbol}
  PROVE  ResolverInv'
<1>1. frames # <<>>
  BY DEF InList
<1>2. /\ ScopeInv(Top, chain[Len(frames)]) /\ Len(chain) = Len(frames) /\ chain \in Seq(Scope)
      /\ Top \in Frame
  BY <1>1, StackType DEF ScopeInv
<1>3. Top.pos > Len(Top.list)
  <2>1. Top.pos \in Nat /\ Len(Top.list) \in Nat
    BY <1>2, FrameType
  <2> QED
    BY <2>1 DEF Remaining
<1>4. ScopeInv([Top EXCEPT !.pass = pass, !.pos = 1], chain[Len(frames)])
  BY <1>2, <1>3, NextPassScope DEF InList
<1>5. chain' = [chain EXCEPT ![Len(chain)] = chain[Len(frames)]]
  BY <1>2
<1> QED
  BY <1>1, <1>4, <1>5, TopStep DEF NextPass, OnTop

LEMMA QuietStep ==
  ASSUME ResolverInv, UNCHANGED <<frames, chain>>,
         report' \in Reports, met' \in Names \cup {NoSymbol}
  PROVE  ResolverInv'
BY DEF ResolverInv, TypeOK

\* Defining a name in the innermost scope, as an update of it.
LEMMA DefineTop ==
  ASSUME NEW ch \in Seq(Scope), ch # <<>>, NEW name \in Names, NEW symbol
  PROVE  Define(ch, name, symbol) =
           [ch EXCEPT ![Len(ch)] =
              IF ch[Len(ch)][name] # NoSymbol THEN ch[Len(ch)]
              ELSE [ch[Len(ch)] EXCEPT ![name] = symbol]]
<1>1. Len(ch) \in 1 .. Len(ch) /\ DOMAIN ch = 1 .. Len(ch)
  OBVIOUS
<1>2. CASE LookupLocal(ch, name) # NoSymbol
  <2>1. Define(ch, name, symbol) = ch /\ ch[Len(ch)][name] # NoSymbol
    BY <1>2 DEF Define, LookupLocal
  <2>2. ch = [ch EXCEPT ![Len(ch)] = ch[Len(ch)]]
    BY <1>1
  <2> QED
    BY <2>1, <2>2
<1>3. CASE LookupLocal(ch, name) = NoSymbol
  BY <1>3 DEF Define, LookupLocal
<1> QED
  BY <1>2, <1>3

LEMMA CollectDeclStep ==
  ASSUME ResolverInv, CollectDecl
  PROVE  ResolverInv'
<1> DEFINE n == Len(frames)
           s == Here
           p == Top.pos
           new == IF chain[n][s.name] # NoSymbol THEN chain[n]
                  ELSE [chain[n] EXCEPT ![s.name] = SymbolOf(s, p)]
<1>1. InList /\ Top.pass = "decls" /\ Remaining /\ s.is \in DeclKinds /\ frames # <<>>
  BY DEF CollectDecl, Collecting, InList
<1>2. /\ ScopeInv(Top, chain[n]) /\ Len(chain) = n /\ chain \in Seq(Scope) /\ Top \in Frame
      /\ n \in Nat /\ n >= 1
  BY <1>1, StackType DEF ScopeInv
<1>3. s = Top.list[Top.pos] /\ Top.kind \in ListFrames /\ Top.pos <= Len(Top.list)
  BY <1>1 DEF InList, Remaining, Here
<1>4. s \in Stmts /\ s.name \in Names
  <2>1. Top.pos \in 1 .. Len(Top.list)
    BY <1>2, <1>3, FrameType DEF ScopeInv, Shaped
  <2>2. s \in Stmts
    BY <1>2, <1>3, <2>1, FrameType
  <2> QED
    BY <1>1, <2>2, ResolverAssumption
<1>5. ScopeInv([Top EXCEPT !.pos = @ + 1], new)
  BY <1>1, <1>2, <1>3, DeclScope
<1>6. chain' = [chain EXCEPT ![Len(chain)] = new]
  <2>1. chain' = Define(chain, s.name, SymbolOf(s, p))
    BY DEF CollectDecl, define_symbol
  <2>2. chain # <<>>
    BY <1>2
  <2> QED
    BY <1>2, <1>4, <2>1, <2>2, DefineTop
<1>7. report' \in Reports /\ met' \in Names \cup {NoSymbol}
  BY DEF CollectDecl, define_symbol, Say, Reports
<1>8. frames' = [frames EXCEPT ![Len(frames)] = [Top EXCEPT !.pos = @ + 1]]
  BY DEF CollectDecl, Advance, OnTop
<1> HIDE DEF new
<1> QED
  BY <1>1, <1>5, <1>6, <1>7, <1>8, TopStep

\* A path starts at what lookup finds.
LEMMA FirstSegmentType ==
  ASSUME ResolverInv, frames # <<>>, NEW name \in Names
  PROVE  FirstSegment(name) \in Found /\ SoundSymbol(FirstSegment(name))
<1>1. chain \in Seq(Scope) /\ Len(chain) = Len(frames)
  BY StackType
<1>2. CASE Lookup(chain, name) = NoSymbol
  BY <1>2, ResolverAssumption DEF FirstSegment, Found, SoundSymbol
<1>3. CASE \E k \in 1 .. Len(chain) : Lookup(chain, name) = chain[k][name] /\ chain[k][name] # NoSymbol
  <2>1. PICK k \in 1 .. Len(frames) : Lookup(chain, name) = chain[k][name] /\ chain[k][name] # NoSymbol
    BY <1>1, <1>3
  <2>2. chain[k] \in Scope /\ Sound(chain[k])
    BY DEF ResolverInv, ScopeInv
  <2>3. chain[k][name] \in Symbol
    BY <2>1, <2>2 DEF Scope
  <2> QED
    BY <2>1, <2>2, <2>3 DEF FirstSegment, Found, SoundSymbol, Sound
<1> QED
  BY <1>1, <1>2, <1>3, LookupInnermost

LEMMA UseFoundStep ==
  ASSUME ResolverInv, UseFound
  PROVE  ResolverInv'
<1> DEFINE n == Len(frames)
           s == Here
           p == Top.pos
           alias == s.path[Len(s.path)]
           target == find_symbol_in_path(s.path)
           symbol == [SymbolOf(s, p) EXCEPT !.kind = target.kind]
           new == Added(chain[n], alias, symbol)
<1>1. InList /\ Top.pass = "uses" /\ Remaining /\ s.is = "use" /\ frames # <<>>
  BY DEF UseFound, HandlingUses, InList
<1>2. /\ ScopeInv(Top, chain[n]) /\ Len(chain) = n /\ chain \in Seq(Scope) /\ Top \in Frame
      /\ n \in Nat /\ n >= 1
  BY <1>1, StackType DEF ScopeInv
<1>3. s = Top.list[Top.pos] /\ Top.kind \in ListFrames /\ Top.pos <= Len(Top.list)
  BY <1>1 DEF InList, Remaining, Here
<1>4. s \in Stmts /\ p \in Nat
  <2>1. Top.pos \in 1 .. Len(Top.list)
    BY <1>2, <1>3, FrameType DEF ScopeInv, Shaped
  <2> QED
    BY <1>2, <1>3, <2>1, FrameType
<1>5. s.path \in Seq(Names) /\ s.path # <<>>
  BY <1>1, <1>4, ResolverAssumption
<1>6. alias \in Names /\ s.path[1] \in Names
  BY <1>5
<1>7. target \in Symbol
  <2>1. target \in Found
    BY <1>1, <1>5, <1>6, FirstSegmentType, PathType
  <2> QED
    BY <2>1 DEF UseFound, Found
<1>8. symbol \in Symbol /\ symbol.node = s /\ symbol.at = p
  <2>1. symbol = [kind |-> target.kind, node |-> s, at |-> p]
    BY DEF SymbolOf
  <2>2. target.kind \in DeclKinds
    BY <1>7 DEF Symbol
  <2> HIDE DEF target, symbol
  <2> QED
    BY <1>4, <2>1, <2>2 DEF Symbol
<1>9. ScopeInv([Top EXCEPT !.pos = @ + 1], new)
  <2> HIDE DEF symbol, alias, target
  <2>1. alias = s.path[Len(s.path)]
    BY DEF alias
  <2> HIDE DEF s
  <2> QED
    BY <1>1, <1>2, <1>3, <1>6, <1>8, <2>1, AliasScope
<1>10. chain' = [chain EXCEPT ![Len(chain)] = new]
  <2>1. chain' = Define(chain, alias, symbol)
    BY DEF UseFound, WithAlias
  <2>2. chain # <<>>
    BY <1>2
  <2> HIDE DEF symbol, alias
  <2> QED
    BY <1>2, <1>6, <2>1, <2>2, DefineTop DEF Added
<1>11. report' \in Reports /\ met' \in Names \cup {NoSymbol}
  BY DEF UseFound, Say, Reports
<1>12. frames' = [frames EXCEPT ![Len(frames)] = [Top EXCEPT !.pos = @ + 1]]
  BY DEF UseFound, Advance, OnTop
<1> HIDE DEF new
<1> QED
  BY <1>1, <1>9, <1>10, <1>11, <1>12, TopStep

LEMMA EndOfDeclarationStep ==
  ASSUME ResolverInv, EndOfDeclaration
  PROVE  ResolverInv'
<1> DEFINE n == Len(frames)
           s == Here
           new == WithBound(Top, chain[n], s)
<1>1. InList /\ Top.pass = "walk" /\ Remaining /\ s.is \in {"var", "tuple"} /\ frames # <<>>
  BY DEF EndOfDeclaration, WalkingAt, InList
<1>2. ScopeInv(Top, chain[n]) /\ Len(chain) = n /\ chain \in Seq(Scope) /\ n \in Nat /\ n >= 1
  BY <1>1, StackType
<1>3. s = Top.list[Top.pos] /\ Top.kind \in ListFrames /\ Top.pos <= Len(Top.list)
  BY <1>1 DEF InList, Remaining, Here
<1>4. ScopeInv([Top EXCEPT !.pos = @ + 1], new)
  BY <1>1, <1>2, <1>3, BoundScope
<1>5. chain' = [chain EXCEPT ![Len(chain)] = new]
  BY <1>2 DEF EndOfDeclaration, WithTargets, Bound, WithBound, Bindable
<1>6. report' \in Reports /\ met' \in Names \cup {NoSymbol}
  BY DEF EndOfDeclaration, Say, Reports
<1>7. frames' = [frames EXCEPT ![Len(frames)] = [Top EXCEPT !.pos = @ + 1]]
  BY DEF EndOfDeclaration, Advance, OnTop
<1> HIDE DEF new
<1> QED
  BY <1>1, <1>4, <1>5, <1>6, <1>7, TopStep

\* Constructs are entered, and names met, at a statement of the walk.
LEMMA AtWaiting ==
  ASSUME \/ AtExpression
         \/ AtBlock
         \/ \E kinds : WalkingAt(kinds)
  PROVE  frames # <<>> /\ Waiting(Top)
<1>1. ASSUME NEW kinds, WalkingAt(kinds)
      PROVE  frames # <<>> /\ Waiting(Top)
  BY <1>1 DEF WalkingAt, InList, Remaining, Waiting
<1>2. ASSUME frames # <<>>, Top.kind \in {"func", "while", "for", "arm", "catch"}
      PROVE  Waiting(Top)
  BY <1>2 DEF Waiting, ListFrames
<1>3. CASE AtExpression
  BY <1>1, <1>2, <1>3 DEF AtExpression
<1>4. CASE AtBlock
  BY <1>1, <1>2, <1>4 DEF AtBlock
<1> QED
  BY <1>1, <1>3, <1>4

LEMMA EnterSteps ==
  ASSUME ResolverInv, Enter
  PROVE  ResolverInv'
<1>1. ASSUME NEW binders \in SUBSET Names, EnterFunc(binders)
      PROVE  ResolverInv'
  <2>1. frames # <<>> /\ Waiting(Top)
    BY <1>1, AtWaiting DEF EnterFunc
  <2> QED
    BY <1>1, <2>1, EnterStep DEF EnterFunc
<1>2. ASSUME NEW binders \in SUBSET Names, EnterFor(binders)
      PROVE  ResolverInv'
  <2>1. frames # <<>> /\ Waiting(Top)
    BY <1>2, AtWaiting DEF EnterFor
  <2> QED
    BY <1>2, <2>1, EnterStep DEF EnterFor
<1>3. ASSUME NEW binders \in SUBSET Names, EnterArm(binders)
      PROVE  ResolverInv'
  <2>1. frames # <<>> /\ Waiting(Top)
    BY <1>3, AtWaiting DEF EnterArm
  <2> QED
    BY <1>3, <2>1, EnterStep DEF EnterArm
<1>4. ASSUME NEW binders \in SUBSET Names, EnterCatch(binders)
      PROVE  ResolverInv'
  <2>1. frames # <<>> /\ Waiting(Top)
    BY <1>4, AtWaiting DEF EnterCatch
  <2> QED
    BY <1>4, <2>1, EnterStep DEF EnterCatch
<1>5. ASSUME NEW list \in Lists, EnterBlock(list)
      PROVE  ResolverInv'
  <2>1. frames # <<>> /\ Waiting(Top)
    BY <1>5, AtWaiting DEF EnterBlock
  <2>2. PushFrame("block", list, "decls", {}) /\ "block" \in ListFrames
    BY <1>5 DEF EnterBlock, ListFrames
  <2> QED
    BY <2>1, <2>2, EnterStep
<1>6. ASSUME EnterMod
      PROVE  ResolverInv'
  <2>1. frames # <<>> /\ Waiting(Top) /\ WalkingAt({"mod"})
    BY <1>6, AtWaiting DEF EnterMod
  <2>2. PushFrame("mod", Here.decls, "decls", {}) /\ "mod" \in ListFrames
    BY <1>6 DEF EnterMod, ListFrames
  <2>3. Here.decls \in DeclLists
    <3>1. Top \in Frame /\ Shaped(Top)
      BY <2>1, StackType DEF ScopeInv
    <3>2. Top.pos \in 1 .. Len(Top.list) /\ Here.is = "mod"
      BY <2>1, <3>1, FrameType DEF WalkingAt, Remaining, Shaped
    <3>3. Here \in Stmts
      BY <3>1, <3>2, FrameType DEF Here
    <3> QED
      BY <3>2, <3>3, ResolverAssumption
  <2>4. ASSUME NEW list \in DeclLists, PushFrame("mod", list, "decls", {})
        PROVE  ResolverInv'
    <3>1. frames # <<>> /\ Waiting(Top) /\ "mod" \in ListFrames
      BY <2>1, <2>2
    <3>2. list \in Lists \cup DeclLists \cup {<<>>} /\ {} \in SUBSET Names
      OBVIOUS
    <3> QED
      BY <2>4, <3>1, <3>2, EnterStep
  <2> QED
    BY <2>2, <2>3, <2>4
<1>7. ASSUME EnterWhile
      PROVE  ResolverInv'
  <2>1. frames # <<>> /\ Waiting(Top)
    BY <1>7, AtWaiting DEF EnterWhile
  <2> QED
    BY <1>7, <2>1, EnterStep DEF EnterWhile
<1> QED
  BY <1>1, <1>2, <1>3, <1>4, <1>5, <1>6, <1>7 DEF Enter

LEMMA InitInv ==
  ASSUME Init
  PROVE  ResolverInv
<1>1. PICK list \in Lists :
        frames = <<[kind |-> "program", list |-> list, pass |-> "decls", pos |-> 1,
                    binders |-> {}]>>
  BY DEF Init
<1>2. ScopeOf({}) = EmptyScope
  BY DEF ScopeOf, EmptyScope
<1>3. "program" \in ListFrames
  BY DEF ListFrames
<1>4. ScopeInv([kind |-> "program", list |-> list, pass |-> "decls", pos |-> 1,
                binders |-> {}], EmptyScope)
  BY <1>2, <1>3, EnteredScope
<1>5. chain = <<EmptyScope>>
  BY DEF Init
<1>6. Len(frames) = 1 /\ Len(chain) = 1 /\ ScopeInv(frames[1], chain[1]) /\ frames # <<>>
  BY <1>1, <1>4, <1>5
<1>7. frames \in Seq(Frame) /\ chain \in Seq(Scope)
  BY <1>1, <1>4, <1>5 DEF ScopeInv
<1>8. TypeOK
  BY <1>6, <1>7 DEF TypeOK, Scope, Init, Reports
<1> QED
  BY <1>6, <1>8 DEF ResolverInv

LEMMA NextStep ==
  ASSUME ResolverInv, [Next]_vars
  PROVE  ResolverInv'
<1>1. CASE Collect
  <2>1. CASE CollectDecl
    BY <2>1, CollectDeclStep
  <2>2. CASE CollectOther
    <3>1. report' \in Reports /\ met' \in Names \cup {NoSymbol}
      BY <2>2 DEF CollectOther, Say, Reports
    <3> QED
      BY <2>2, <3>1, AdvanceStep DEF CollectOther, Collecting
  <2>3. CASE EndOfDecls
    <3>1. report' \in Reports /\ met' \in Names \cup {NoSymbol}
      BY <2>3 DEF EndOfDecls, Say, Reports
    <3> QED
      BY <2>3, <3>1, NextPassStep DEF EndOfDecls, Collecting
  <2> QED
    BY <1>1, <2>1, <2>2, <2>3 DEF Collect
<1>2. CASE HandleUse
  <2>1. CASE UseFound
    BY <2>1, UseFoundStep
  <2>2. CASE UseUnresolved \/ UsePunned \/ UseOther
    <3>1. /\ report' \in Reports /\ met' \in Names \cup {NoSymbol}
          /\ InList /\ Top.pass = "uses" /\ Remaining /\ frames' = Advance /\ UNCHANGED chain
      BY <2>2 DEF UseUnresolved, UsePunned, UseOther, HandlingUses, Say, Reports
    <3> QED
      BY <3>1, AdvanceStep
  <2>3. CASE EndOfUses
    <3>1. report' \in Reports /\ met' \in Names \cup {NoSymbol}
      BY <2>3 DEF EndOfUses, Say, Reports
    <3> QED
      BY <2>3, <3>1, NextPassStep DEF EndOfUses, HandlingUses
  <2> QED
    BY <1>2, <2>1, <2>2, <2>3 DEF HandleUse
<1>3. CASE Enter
  BY <1>3, EnterSteps
<1>4. CASE Leave
  BY <1>4, LeaveStep
<1>5. CASE LeaveProgram
  BY <1>5, LeaveProgramStep
<1>6. CASE EndOfDeclaration
  BY <1>6, EndOfDeclarationStep
<1>7. CASE EndOfOther
  <2>1. /\ report' \in Reports /\ met' \in Names \cup {NoSymbol}
        /\ InList /\ Top.pass = "walk" /\ Remaining /\ frames' = Advance /\ UNCHANGED chain
        /\ Here.is # "tuple"
    BY <1>7 DEF EndOfOther, WalkingAt, Say, Reports
  <2> QED
    BY <2>1, AdvanceStep
<1>8. CASE \E name \in Names : Refer(name) \/ ReferUnvisited(name)
  <2>1. /\ UNCHANGED <<frames, chain>>
        /\ report' \in Reports /\ met' \in Names \cup {NoSymbol}
    BY <1>8 DEF Refer, ReferUnvisited, Reports
  <2> QED
    BY <2>1, QuietStep
<1>9. CASE UNCHANGED vars
  <2>1. UNCHANGED <<frames, chain, report, met>>
    BY <1>9 DEF vars
  <2>2. report \in Reports /\ met \in Names \cup {NoSymbol}
    BY DEF ResolverInv, TypeOK
  <2> QED
    BY <2>1, <2>2, QuietStep
<1> QED
  BY <1>1, <1>2, <1>3, <1>4, <1>5, <1>6, <1>7, <1>8, <1>9 DEF Next

----------------------------------------------------------------------------
(* Theorems                                                                *)

\* In every reachable state, every open scope holds what its construct has
\* introduced so far and nothing else.
THEOREM ResolverSafe == Spec => []ResolverInv
<1>1. Init => ResolverInv
  BY InitInv
<1>2. ResolverInv /\ [Next]_vars => ResolverInv'
  BY NextStep
<1> QED
  BY <1>1, <1>2, PTL DEF Spec

\* Type correctness; each scope pushed is popped by the construct that pushed
\* it, for every program.
THEOREM ResolverTypeOK == Spec => []TypeOK
<1>1. ResolverInv => TypeOK
  BY DEF ResolverInv
<1> QED
  BY <1>1, ResolverSafe, PTL

\* A name a list declares means its first declaration in the list.
THEOREM ResolverFirst == Spec => []FirstDeclared
<1>1. ASSUME ResolverInv
      PROVE  FirstDeclared
  <2> SUFFICES ASSUME NEW k \in 1 .. Len(frames), NEW name \in Names,
                      frames[k].pass # "decls", DeclPositions(frames[k].list, name) # {}
               PROVE  \E j \in DeclPositions(frames[k].list, name) :
                        /\ IsFirst(j, DeclPositions(frames[k].list, name))
                        /\ chain[k][name] = SymbolOf(frames[k].list[j], j)
    BY DEF FirstDeclared
  <2>1. frames[k] \in Frame /\ Hoisted(frames[k], chain[k])
    BY <1>1 DEF ResolverInv, ScopeInv
  <2>2. PICK j \in 1 .. Len(frames[k].list) : IsFirst(j, DeclPositions(frames[k].list, name))
    BY <2>1, FrameType, FirstExists
  <2>3. chain[k][name] = SymbolOf(frames[k].list[j], j)
    BY <2>1, <2>2 DEF Hoisted
  <2>4. j \in DeclPositions(frames[k].list, name)
    BY <2>2 DEF IsFirst
  <2> QED
    BY <2>2, <2>3, <2>4
<1> QED
  BY <1>1, ResolverSafe, PTL

\* During the walk, what the text of a construct declares is in its scope.
LEMMA DeclaredBound ==
  ASSUME NEW frame, NEW scope, ScopeInv(frame, scope), frame.pass = "walk",
         frame.pos <= Len(frame.list) + 1,
         NEW name \in Names, Declared(frame, name)
  PROVE  scope[name] # NoSymbol
<1>1. frame \in Frame
  BY DEF ScopeInv
<1>2. CASE name \in frame.binders
  BY <1>2, BinderType DEF ScopeInv, Started
<1>3. CASE DeclPositions(frame.list, name) # {}
  <2>1. PICK j \in 1 .. Len(frame.list) : IsFirst(j, DeclPositions(frame.list, name))
    BY <1>1, <1>3, FrameType, FirstExists
  <2>2. scope[name] = SymbolOf(frame.list[j], j)
    BY <2>1 DEF ScopeInv, Hoisted
  <2>3. frame.list[j] \in Stmts /\ frame.list[j].is \in DeclKinds
    BY <1>1, <2>1, FrameType DEF IsFirst, DeclPositions
  <2> QED
    BY <2>2, <2>3, SymbolOfType
<1>4. CASE \E k \in 1 .. frame.pos - 1 : Targets(frame.list[k], name)
  BY <1>4 DEF ScopeInv, Destructured
<1> QED
  BY <1>2, <1>3, <1>4 DEF Declared

LEMMA Introduces ==
  ASSUME NEW frame, NEW scope, ScopeInv(frame, scope), frame.pass = "walk",
         NEW name \in Names, scope[name] # NoSymbol
  PROVE  Introduced(frame, name, scope[name])
<1>1. Origin(frame, name, scope[name])
  BY DEF ScopeInv, Originated
<1> QED
  BY <1>1 DEF Origin, Introduced

\* What an identifier is looked up to is what lexical scoping says.
THEOREM ResolverLexical == Spec => []ReferencesLexical
<1>1. ASSUME ResolverInv
      PROVE  ReferencesLexical
  <2> SUFFICES ASSUME AtExpression, NEW name \in Names
               PROVE  IF BoundName(name) = NoSymbol
                      THEN \A k \in 1 .. Len(frames) : ~Declared(frames[k], name)
                      ELSE \E k \in 1 .. Len(frames) :
                             /\ Introduced(frames[k], name, BoundName(name))
                             /\ \A j \in k + 1 .. Len(frames) : ~Declared(frames[j], name)
    BY DEF ReferencesLexical
  <2>1. frames # <<>> /\ Waiting(Top)
    BY AtWaiting
  <2>2. /\ chain \in Seq(Scope) /\ Len(chain) = Len(frames) /\ Len(frames) \in Nat
        /\ Len(frames) >= 1 /\ Top = frames[Len(frames)]
    BY <1>1, <2>1, StackType
  <2>3. ASSUME NEW k \in 1 .. Len(frames)
        PROVE  ScopeInv(frames[k], chain[k]) /\ frames[k].pass = "walk"
    <3>1. ScopeInv(frames[k], chain[k]) /\ Shaped(frames[k])
      BY <1>1 DEF ResolverInv, ScopeInv
    <3>2. Waiting(frames[k])
      <4>1. CASE k = Len(frames)
        BY <2>1, <2>2, <4>1
      <4>2. CASE k # Len(frames)
        <5>1. k \in 1 .. Len(frames) - 1
          BY <2>2, <4>2
        <5> QED
          BY <1>1, <5>1 DEF ResolverInv
      <4> QED
        BY <4>1, <4>2
    <3> QED
      BY <3>1, <3>2 DEF Waiting, Shaped
  <2>4. ASSUME NEW k \in 1 .. Len(frames), chain[k][name] = NoSymbol
        PROVE  ~Declared(frames[k], name)
    BY <2>3, <2>4, DeclaredBound DEF ScopeInv, Shaped
  <2>5. CASE /\ BoundName(name) = NoSymbol
             /\ \A j \in 1 .. Len(frames) : chain[j][name] = NoSymbol
    BY <2>4, <2>5
  <2>6. CASE \E k \in 1 .. Len(frames) :
               /\ BoundName(name) = chain[k][name]
               /\ chain[k][name] # NoSymbol
               /\ \A j \in k + 1 .. Len(frames) : chain[j][name] = NoSymbol
    <3>1. PICK k \in 1 .. Len(frames) :
            /\ BoundName(name) = chain[k][name]
            /\ chain[k][name] # NoSymbol
            /\ \A j \in k + 1 .. Len(frames) : chain[j][name] = NoSymbol
      BY <2>6
    <3>2. Introduced(frames[k], name, BoundName(name))
      BY <2>3, <3>1, Introduces
    <3>3. ASSUME NEW j \in k + 1 .. Len(frames)
          PROVE  ~Declared(frames[j], name)
      <4>1. j \in 1 .. Len(frames)
        BY <2>2
      <4> QED
        BY <2>4, <3>1, <4>1
    <3> QED
      BY <3>1, <3>2, <3>3
  <2> QED
    BY <2>2, <2>5, <2>6, LookupInnermost DEF BoundName
<1> QED
  BY <1>1, ResolverSafe, PTL

\* A duplicate is reported exactly when the first declaration of the name in
\* the list is of another kind.
THEOREM ResolverDuplicates == Spec => DuplicateReported
<1>1. ASSUME ResolverInv, CollectDecl
      PROVE  report' = "duplicate" <=>
               \E j \in 1 .. Top.pos - 1 :
                 /\ IsFirst(j, DeclPositions(Top.list, Here.name))
                 /\ Top.list[j].is # Here.is
  <2> DEFINE n == Len(frames)
             s == Here
             p == Top.pos
             P == DeclPositions(Top.list, s.name)
             existing == chain[n][s.name]
  <2>1. InList /\ Top.pass = "decls" /\ Remaining /\ s.is \in DeclKinds /\ frames # <<>>
    BY <1>1 DEF CollectDecl, Collecting, InList
  <2>2. ScopeInv(Top, chain[n]) /\ Len(chain) = n /\ Top \in Frame /\ Shaped(Top)
    BY <1>1, <2>1, StackType DEF ScopeInv
  <2>3. /\ s = Top.list[p] /\ p \in 1 .. Len(Top.list) /\ p \in Nat /\ Len(Top.list) \in Nat
        /\ Top.binders = {} /\ Top.list \in Seq(Stmts)
    BY <2>1, <2>2, FrameType DEF Shaped, Remaining, Here, InList
  <2>4. s \in Stmts /\ s.name \in Names
    BY <2>1, <2>3, ResolverAssumption
  <2>5. report' = "duplicate" <=> existing # NoSymbol /\ existing.kind # s.is
    <3>1. SymbolOf(s, p).kind = s.is
      BY DEF SymbolOf
    <3> QED
      BY <1>1, <2>2, <3>1 DEF CollectDecl, define_symbol, LookupLocal, SameKind, Say
  <2>6. ASSUME NEW j \in 1 .. p - 1, IsFirst(j, P)
        PROVE  existing # NoSymbol /\ existing.kind = Top.list[j].is
    <3>1. j \in 1 .. Len(Top.list) /\ j < p
      BY <2>3
    <3>2. existing = SymbolOf(Top.list[j], j)
      BY <2>2, <2>4, <2>6, <3>1 DEF ScopeInv, Hoisted
    <3>3. Top.list[j] \in Stmts /\ Top.list[j].is \in DeclKinds
      BY <2>2, <2>6, <3>1, FrameType DEF IsFirst, DeclPositions
    <3> QED
      BY <3>1, <3>2, <3>3, SymbolOfType
  <2>7. ASSUME existing # NoSymbol
        PROVE  \E j \in 1 .. p - 1 : IsFirst(j, P)
    <3>1. Origin(Top, s.name, existing)
      BY <2>2, <2>4, <2>7 DEF ScopeInv, Originated
    <3>2. /\ existing.at \in 1 .. Len(Top.list) /\ existing.at < p
          /\ Top.list[existing.at].is \in DeclKinds
          /\ Top.list[existing.at].name = s.name
      <4>1. existing.node.is \in DeclKinds => existing.node.is # "use" /\ existing.node.is # "tuple"
        BY DEF DeclKinds
      <4> QED
        BY <2>1, <2>3, <3>1, <4>1 DEF Origin, Aliases, Targets
    <3>3. existing.at \in P
      BY <3>2 DEF DeclPositions
    <3>4. PICK j \in 1 .. Len(Top.list) : j <= existing.at /\ IsFirst(j, P)
      BY <2>3, <3>3, FirstExists
    <3>5. j \in 1 .. p - 1
      <4> HIDE DEF existing, s, p, P
      <4>1. existing.at \in Nat /\ existing.at < p /\ p \in Nat
        BY <2>3, <3>2
      <4>2. j \in Nat /\ j >= 1 /\ j <= existing.at
        BY <2>3, <3>4
      <4> QED
        BY <4>1, <4>2
    <3> QED
      BY <3>4, <3>5
  <2>8. ASSUME NEW i \in 1 .. p - 1, NEW j \in 1 .. p - 1, IsFirst(i, P), IsFirst(j, P)
        PROVE  i = j
    BY <2>3, <2>8, FirstUnique
  <2> HIDE DEF existing, P, s, p
  <2> QED
    BY <2>5, <2>6, <2>7, <2>8 DEF P, s, p
<1>2. ResolverInv => [CollectDecl =>
        (report' = "duplicate" <=>
           \E j \in 1 .. Top.pos - 1 :
             /\ IsFirst(j, DeclPositions(Top.list, Here.name))
             /\ Top.list[j].is # Here.is)]_vars
  BY <1>1
<1> QED
  BY <1>2, ResolverSafe, PTL DEF DuplicateReported

\* A scope has nothing for a name its construct neither declares nor aliases.
LEMMA UndeclaredUnbound ==
  ASSUME NEW frame, NEW scope, ScopeInv(frame, scope), NEW name \in Names,
         ~Declared(frame, name),
         \A i \in 1 .. Len(frame.list) : ~Aliases(frame.list[i], name)
  PROVE  scope[name] = NoSymbol
<1> SUFFICES ASSUME scope[name] # NoSymbol
             PROVE  FALSE
  OBVIOUS
<1> DEFINE symbol == scope[name]
<1>1. Origin(frame, name, symbol)
  BY DEF ScopeInv, Originated
<1>2. frame \in Frame
  BY DEF ScopeInv
<1> HIDE DEF symbol
<1>3. ~(name \in frame.binders) /\ DeclPositions(frame.list, name) = {}
  BY DEF Declared
<1>4. symbol.at \in 1 .. Len(frame.list) /\ symbol.node = frame.list[symbol.at]
  BY <1>1, <1>3 DEF Origin
<1>5. ~(symbol.node.is \in DeclKinds /\ symbol.node.name = name)
  BY <1>3, <1>4 DEF DeclPositions
<1>6. Targets(symbol.node, name) /\ symbol.at < frame.pos
  BY <1>1, <1>3, <1>4, <1>5 DEF Origin
<1>7. symbol.at \in 1 .. frame.pos - 1
  BY <1>2, <1>4, <1>6, FrameType
<1> QED
  BY <1>4, <1>6, <1>7 DEF Declared

\* A member of a module is found in it.
LEMMA MemberFound ==
  ASSUME NEW m \in Stmts, m.is = "mod", NEW k \in Nat, NEW segment,
         DeclPositions(m.decls, segment) # {}
  PROVE  Through(SymbolOf(m, k), segment) \notin {NoSymbol, Punned}
<1> DEFINE symbol == SymbolOf(m, k)
           decls == m.decls
<1>1. /\ symbol \in Symbol /\ symbol # NoSymbol /\ symbol.kind = "mod" /\ symbol.node = m
      /\ symbol # Punned
  <2>1. m.is \in DeclKinds
    BY DEF DeclKinds
  <2>2. symbol \in Symbol /\ symbol # NoSymbol /\ symbol.kind = "mod" /\ symbol.node = m
    BY <2>1, SymbolOfType
  <2> QED
    BY <2>2 DEF Punned
<1>2. decls \in Seq(Stmts)
  BY ResolverAssumption
<1> HIDE DEF symbol
<1>3. Through(symbol, segment) = Member(symbol, segment)
  BY <1>1 DEF Through
<1>4. PICK j : IsFirst(j, DeclPositions(decls, segment))
  BY <1>2, FirstExists
<1>5. j = CHOOSE j1 \in DeclPositions(decls, segment) :
            \A i \in DeclPositions(decls, segment) : j1 <= i
  BY <1>2, <1>4 DEF IsFirst, DeclPositions
<1>6. Member(symbol, segment) = SymbolOf(decls[j], j)
  BY <1>1, <1>5 DEF Member, DeclPositions
<1>7. j \in Nat /\ decls[j] \in Stmts /\ decls[j].is \in DeclKinds
  BY <1>2, <1>4 DEF IsFirst, DeclPositions
<1>8. SymbolOf(decls[j], j) \in Symbol /\ SymbolOf(decls[j], j) # NoSymbol
  BY <1>7, SymbolOfType
<1>9. Punned \notin Symbol
  BY DEF Punned, Symbol, DeclKinds
<1> QED
  BY <1>3, <1>6, <1>8, <1>9 DEF symbol

\* No use is refused for where the module it names stands.
THEOREM ResolverUses == Spec => UsesHoisted
<1> DEFINE Reached(k, path) ==
             /\ \E m \in 1 .. Len(frames[k].list) :
                  /\ Means(frames[k], path[1], m)
                  /\ frames[k].list[m].is = "mod"
                  /\ DeclPositions(frames[k].list[m].decls, path[2]) # {}
             /\ \A j \in k + 1 .. Len(frames) :
                  /\ ~Declared(frames[j], path[1])
                  /\ \A i \in 1 .. Len(frames[j].list) : ~Aliases(frames[j].list[i], path[1])
<1>1. ASSUME ResolverInv, Next, report' \in {"unresolved", "crash"}, Len(Here.path) = 2,
             NEW k \in 1 .. Len(frames), Reached(k, Here.path)
      PROVE  FALSE
  <2> DEFINE s == Here
             path == s.path
             n == Len(frames)
  <2>1. /\ InList /\ Top.pass = "uses" /\ Remaining /\ s.is = "use"
        /\ find_symbol_in_path(path) \in {NoSymbol, Punned}
    BY <1>1 DEF Next, Collect, HandleUse, Enter, CollectDecl, CollectOther, EndOfDecls, UseFound,
       UseUnresolved, UsePunned, UseOther, EndOfUses, HandlingUses, define_symbol, Say, Leave,
       LeaveProgram, EndOfDeclaration, EndOfOther, Refer, ReferUnvisited, EnterFunc, EnterFor,
       EnterArm, EnterCatch, EnterBlock, EnterMod, EnterWhile, PushFrame
  <2>2. frames # <<>>
    BY <2>1 DEF InList
  <2>3. /\ chain \in Seq(Scope) /\ Len(chain) = n /\ n \in Nat /\ n >= 1 /\ Top = frames[n]
        /\ ScopeInv(Top, chain[n])
    BY <1>1, <2>2, StackType
  <2>4. s \in Stmts
    <3>1. Top \in Frame /\ Shaped(Top)
      BY <2>3 DEF ScopeInv
    <3>2. Top.pos \in 1 .. Len(Top.list)
      BY <2>1, <3>1, FrameType DEF Remaining, Shaped
    <3> QED
      BY <3>1, <3>2, FrameType DEF Here
  <2>5. path \in Seq(Names) /\ Len(path) = 2 /\ path[1] \in Names /\ path[2] \in Names
    <3>1. path \in Seq(Names) /\ Len(path) = 2
      BY <1>1, <2>1, <2>4, ResolverAssumption
    <3> QED
      BY <3>1
  <2>6. ASSUME NEW j \in 1 .. n
        PROVE  ScopeInv(frames[j], chain[j])
    BY <1>1 DEF ResolverInv
  <2>7. ASSUME NEW j \in k + 1 .. n
        PROVE  chain[j][path[1]] = NoSymbol
    <3>1. j \in 1 .. n
      BY <2>3
    <3>2. /\ ~Declared(frames[j], path[1])
          /\ \A i \in 1 .. Len(frames[j].list) : ~Aliases(frames[j].list[i], path[1])
      BY <1>1
    <3> HIDE DEF path
    <3> QED
      BY <2>5, <2>6, <3>1, <3>2, UndeclaredUnbound
  <2>8. PICK m \in 1 .. Len(frames[k].list) :
          /\ Means(frames[k], path[1], m)
          /\ frames[k].list[m].is = "mod"
          /\ DeclPositions(frames[k].list[m].decls, path[2]) # {}
    BY <1>1
  <2>9. frames[k].pass # "decls"
    <3>1. CASE k = n
      BY <2>1, <2>3, <3>1
    <3>2. CASE k # n
      <4>1. k \in 1 .. n - 1
        BY <2>3, <3>2
      <4> QED
        BY <1>1, <2>8, <4>1 DEF ResolverInv, Waiting, Means
    <3> QED
      BY <3>1, <3>2
  <2> HIDE DEF path, s, n
  <2>10. chain[k][path[1]] = SymbolOf(frames[k].list[m], m)
    BY <2>5, <2>6, <2>8, <2>9 DEF ScopeInv, Hoisted, Means, n
  <2>11. frames[k].list[m] \in Stmts /\ m \in Nat
    BY <2>6, <2>8, FrameType DEF ScopeInv, n
  <2>12. chain[k][path[1]] # NoSymbol
    BY <2>8, <2>10, <2>11, SymbolOfType DEF DeclKinds
  <2>13. Lookup(chain, path[1]) = chain[k][path[1]]
    <3>1. k \in 1 .. Len(chain) /\ Len(chain) \in Nat
      BY <2>3 DEF n
    <3>2. PICK i \in 1 .. Len(chain) :
            /\ Lookup(chain, path[1]) = chain[i][path[1]]
            /\ chain[i][path[1]] # NoSymbol
            /\ \A j \in i + 1 .. Len(chain) : chain[j][path[1]] = NoSymbol
      BY <2>3, <2>5, <2>12, <3>1, LookupInnermost
    <3>3. ~(k < i) /\ ~(i < k)
      BY <2>3, <2>7, <2>12, <3>1, <3>2
    <3>4. i = k
      BY <3>1, <3>3
    <3> QED
      BY <3>2, <3>4
  <2>14. find_symbol_in_path(path) = Through(SymbolOf(frames[k].list[m], m), path[2])
    <3>1. Trail(path)[1] = FirstSegment(path[1])
      BY <2>5, TrailSteps
    <3>2. Trail(path)[2] = Through(Trail(path)[2 - 1], path[2])
      BY <2>5, TrailSteps
    <3>3. Trail(path)[2 - 1] = SymbolOf(frames[k].list[m], m)
      BY <2>10, <2>13, <3>1 DEF FirstSegment
    <3> QED
      BY <2>5, <3>2, <3>3 DEF find_symbol_in_path
  <2> QED
    BY <2>1, <2>8, <2>11, <2>14, MemberFound
<1>2. ResolverInv /\ [Next]_vars =>
        [report' \in {"unresolved", "crash"} =>
           (Len(Here.path) = 2 => ~\E k \in 1 .. Len(frames) : Reached(k, Here.path))]_vars
  <2> HIDE DEF Reached
  <2> QED
    BY <1>1
<1>3. Spec => [][report' \in {"unresolved", "crash"} =>
           (Len(Here.path) = 2 => ~\E k \in 1 .. Len(frames) : Reached(k, Here.path))]_vars
  BY <1>2, ResolverSafe, PTL DEF Spec
<1> QED
  BY <1>3 DEF UsesHoisted
=============================================================================
