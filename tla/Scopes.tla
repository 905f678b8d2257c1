------------------------------- MODULE Scopes -------------------------------
(***************************************************************************)
(* What the resolver and the type checker take the symbol table for        *)
(* (symbol_table.h): a stack of dictionaries.  A scope keeps the first     *)
(* definition of a name, an inner scope hides the outer ones, leaving a    *)
(* scope forgets it and nothing else, and the root is never left.          *)
(***************************************************************************)
EXTENDS Chains

CONSTANT Symbols  \* what a name can be defined as

VARIABLES
  chain,   \* the scopes, the root first
  answer   \* what the last call returned

vars == <<chain, answer>>

Init ==
  /\ chain = <<EmptyScope>>
  /\ answer = NoSymbol

symbol_table_push ==
  /\ chain' = Push(chain, EmptyScope)
  /\ answer' = NoSymbol

symbol_table_pop ==
  /\ chain' = Pop(chain)
  /\ answer' = NoSymbol

symbol_table_define(name, symbol) ==
  /\ chain' = Define(chain, name, symbol)
  /\ answer' = (LookupLocal(chain, name) = NoSymbol)

symbol_table_lookup(name) ==
  /\ answer' = Lookup(chain, name)
  /\ UNCHANGED chain

symbol_table_lookup_local(name) ==
  /\ answer' = LookupLocal(chain, name)
  /\ UNCHANGED chain

Next ==
  \/ symbol_table_push
  \/ symbol_table_pop
  \/ \E name \in Names :
       \/ \E symbol \in Symbols : symbol_table_define(name, symbol)
       \/ symbol_table_lookup(name)
       \/ symbol_table_lookup_local(name)

Spec == Init /\ [][Next]_vars
=============================================================================
