----------------------------- MODULE MCCollect -----------------------------
(***************************************************************************)
(* Programs of up to three declarations of three names, any of which may   *)
(* be declared again where the resolver lets it.                           *)
(***************************************************************************)
EXTENDS Collect, SequencesExt

CONSTANTS a, b, c

MCNames == {a, b, c}
FewNames == {{}} \cup {{name} : name \in MCNames}

Some(kinds, names, of) == [kind : kinds, name : MCNames, names : names, of : of]
TypeDecls ==
  Some({"type", "variant", "extern func"}, FewNames, {NoSymbol})
    \cup Some({"extern var"}, FewNames \ {{}}, {NoSymbol})
    \cup Some({"schema"}, FewNames, {NoSymbol} \cup MCNames)
    \cup Some({"interface"}, {{}}, {NoSymbol})
    \cup [kind : {"method"}, name : {NoSymbol}, names : {{}}, of : MCNames]
TextDecls ==
  Some({"func", "type"}, {{}}, {NoSymbol}) \cup Some({"var"}, {{}, {c}}, {NoSymbol})

MCPrograms ==
  {list \in SeqOf(TextDecls, 2) \cup [1 .. 3 -> TypeDecls] : WellFormed(list)}

Permuted == Permutations(MCNames)
=============================================================================
