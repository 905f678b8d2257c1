----------------------------- MODULE MCResolver -----------------------------
(***************************************************************************)
(* Programs over two names: every list of up to two of twelve statements,  *)
(* in the program, in blocks and in every construct that opens a scope.    *)
(***************************************************************************)
EXTENDS Resolver

CONSTANTS a, b

MCNames == {a, b}

Decl(kind, name) == [is |-> kind, name |-> name]
Mod(name, decls) == [is |-> "mod", name |-> name, decls |-> decls]
Use(path) == [is |-> "use", path |-> path]
Tuple(targets) == [is |-> "tuple", targets |-> targets]
Code == [is |-> "code"]

Inner == <<Decl("func", b)>>
MCDeclLists == {Inner, <<>>}
MCStmts ==
  {Decl("var", a), Decl("type", b), Decl("func", b), Mod(a, Inner), Mod(b, <<>>),
   Use(<<a>>), Use(<<a, b>>), Use(<<b, b>>), Tuple({a}), Tuple({a, b}),
   [is |-> "method"], Code}

MCLists == UNION {[1 .. n -> MCStmts] : n \in 0 .. 2}
=============================================================================
