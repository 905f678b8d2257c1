------------------------------ MODULE MCInfer ------------------------------
(* Bodies of functions of a few nodes, and one name. *)
EXTENDS Infer

CONSTANT n1

Written(name, around) == [base |-> [kind |-> "named", name |-> name], around |-> around]
FallibleType == Written("u8", <<[kind |-> "fallible"]>>)
MCTypeExprs ==
  {Written("u8", <<>>), Written("f32", <<>>), Written(n1, <<>>), FallibleType,
   Written("i64", <<[kind |-> "array", size |-> 2]>>)}
MCRetTypes == {FallibleType}
MCLiterals == {I32, F64, Str}
MCMagnitudes == {<<7, 0>>, <<8, 0>>, <<128, 0>>}
=============================================================================
